--------------------------- MODULE WebTerminalProofs ---------------------------
(***************************************************************************)
(* Proofs about WebTerminal: its types, the one write that waits, what     *)
(* the page is told, and what the display and the history show.            *)
(*                                                                         *)
(* The module goes from the data to the actions: what a sequence of units  *)
(* shows (Extends), what queued chunks lead to (Leads) and what a history  *)
(* holds (HistoryOf); then the invariants (TypeInv, Control, Whole), part  *)
(* by part, with a lemma per part that a step keeps it; and the theorems   *)
(* that follow from each.                                                  *)
(***************************************************************************)
EXTENDS WebTerminal, SequenceLemmas

\* s shows all the units after n up to m, in order, except units in D.
Extends(D, s, n, m) ==
    /\ s \in Seq(Nat) /\ n \in Nat /\ m \in Nat /\ n <= m
    /\ \A i \in 1..Len(s) : n < s[i] /\ s[i] <= m
    /\ \A i, j \in 1..Len(s) : i < j => s[i] < s[j]
    /\ \A u \in (n + 1)..m : u \in D \/ \E i \in 1..Len(s) : s[i] = u

\* What goes on where the other ends.
LEMMA ExtendsConcat ==
  ASSUME NEW D, NEW s, NEW t, NEW n, NEW m, NEW p, Extends(D, s, n, m), Extends(D, t, m, p)
  PROVE  Extends(D, s \o t, n, p)
<1> DEFINE st == s \o t
<1>1. s \in Seq(Nat) /\ t \in Seq(Nat) /\ {n, m, p} \subseteq Nat /\ n <= m /\ m <= p
  BY DEF Extends
<1>2. /\ st \in Seq(Nat) /\ Len(st) = Len(s) + Len(t)
      /\ \A i \in 1..Len(s) + Len(t) : st[i] = IF i <= Len(s) THEN s[i] ELSE t[i - Len(s)]
  BY <1>1, ConcatProperties, Zenon
<1> HIDE DEF st
<1>3. Len(s) \in Nat /\ Len(t) \in Nat
  BY <1>1
<1>8. (\A i \in 1..Len(s) : s[i] \in Nat) /\ (\A i \in 1..Len(t) : t[i] \in Nat)
  BY <1>1, SMTT(30)
<1>4. ASSUME NEW i \in 1..Len(st)
      PROVE  n < st[i] /\ st[i] <= p
  <2>1. CASE i <= Len(s)
    <3>1. i \in 1..Len(s) /\ st[i] = s[i] /\ s[i] \in Nat
      BY <1>2, <1>3, <1>8, <2>1
    <3>2. n < s[i] /\ s[i] <= m
      BY <3>1 DEF Extends
    <3>3. QED
      BY <1>1, <3>1, <3>2
  <2>2. CASE i > Len(s)
    <3>1. i - Len(s) \in 1..Len(t)
      BY <1>2, <1>3, <2>2
    <3>2. st[i] = t[i - Len(s)]
      BY <1>2, <1>3, <2>2
    <3>4. t[i - Len(s)] \in Nat
      BY <1>8, <3>1
    <3>3. m < t[i - Len(s)] /\ t[i - Len(s)] <= p
      BY <3>1 DEF Extends
    <3>5. QED
      BY <1>1, <3>2, <3>3, <3>4
  <2>3. QED
    BY <1>2, <1>3, <2>1, <2>2
<1>5. ASSUME NEW i \in 1..Len(st), NEW j \in 1..Len(st), i < j
      PROVE  st[i] < st[j]
  <2>1. CASE j <= Len(s)
    <3>1. i \in 1..Len(s) /\ j \in 1..Len(s)
      BY <1>2, <1>3, <1>5, <2>1
    <3>2. s[i] < s[j]
      BY <1>5, <3>1 DEF Extends
    <3>3. st[i] = s[i] /\ st[j] = s[j]
      BY <1>2, <1>3, <3>1
    <3>4. QED
      BY <3>2, <3>3
  <2>2. CASE i > Len(s)
    <3>1. /\ i - Len(s) \in 1..Len(t) /\ j - Len(s) \in 1..Len(t)
          /\ i - Len(s) < j - Len(s)
      BY <1>2, <1>3, <1>5, <2>2
    <3>2. t[i - Len(s)] < t[j - Len(s)]
      BY <3>1 DEF Extends
    <3>3. st[i] = t[i - Len(s)] /\ st[j] = t[j - Len(s)]
      BY <1>2, <1>3, <1>5, <2>2, SMTT(30)
    <3>4. QED
      BY <3>2, <3>3
  <2>3. CASE i <= Len(s) /\ j > Len(s)
    <3>1. i \in 1..Len(s) /\ j - Len(s) \in 1..Len(t)
      BY <1>2, <1>3, <1>5, <2>3
    <3>2. s[i] <= m /\ m < t[j - Len(s)]
      BY <3>1 DEF Extends
    <3>3. s[i] \in Nat /\ t[j - Len(s)] \in Nat
      BY <1>8, <3>1
    <3>4. st[i] = s[i] /\ st[j] = t[j - Len(s)]
      BY <1>2, <1>3, <1>5, <2>3
    <3>5. QED
      BY <1>1, <3>2, <3>3, <3>4, SMTT(30)
  <2>4. QED
    BY <1>2, <1>3, <2>1, <2>2, <2>3
<1>6. ASSUME NEW u \in (n + 1)..p
      PROVE  u \in D \/ \E i \in 1..Len(st) : st[i] = u
  <2>1. CASE u <= m
    <3>1. u \in D \/ \E i \in 1..Len(s) : s[i] = u
      BY <1>1, <2>1 DEF Extends
    <3>2. QED
      BY <1>2, <1>3, <3>1
  <2>2. CASE u > m
    <3>1. u \in D \/ \E i \in 1..Len(t) : t[i] = u
      BY <1>1, <2>2 DEF Extends
    <3>2. ASSUME NEW i \in 1..Len(t), t[i] = u
          PROVE  \E k \in 1..Len(st) : st[k] = u
      <4> DEFINE k == i + Len(s)
      <4>1. k \in 1..Len(s) + Len(t) /\ ~(k <= Len(s)) /\ k - Len(s) = i
        BY <1>3
      <4> HIDE DEF k
      <4>2. k \in 1..Len(st) /\ st[k] = t[i]
        BY <1>2, <4>1
      <4>3. QED
        BY <3>2, <4>2
    <3>3. QED
      BY <3>1, <3>2
  <2>3. QED
    BY <1>1, <2>1, <2>2
<1>7. QED
  BY <1>1, <1>2, <1>4, <1>5, <1>6, SMTT(30) DEF Extends, st

\* A part of s, from where the units before it end to where its own end.
LEMMA ExtendsPart ==
  ASSUME NEW D, NEW s, NEW n, NEW m, Extends(D, s, n, m),
         NEW a \in 0..Len(s), NEW b \in a..Len(s), b = 0 => Len(s) = 0
  PROVE  Extends(D, SubSeq(s, a + 1, b), IF a = 0 THEN n ELSE s[a],
                 IF b = Len(s) THEN m ELSE s[b])
<1> DEFINE x == IF a = 0 THEN n ELSE s[a]
           y == IF b = Len(s) THEN m ELSE s[b]
           t == SubSeq(s, a + 1, b)
<1>1. s \in Seq(Nat) /\ n \in Nat /\ m \in Nat /\ n <= m /\ Len(s) \in Nat /\ a \in Nat /\ b \in Nat
      /\ a <= b /\ b <= Len(s)
  BY DEF Extends
<1>2. \A i \in 1..Len(s) : n < s[i] /\ s[i] <= m /\ s[i] \in Nat
  BY DEF Extends
<1>3. \A i, j \in 1..Len(s) : i < j => s[i] < s[j]
  BY DEF Extends
<1>4. t \in Seq(Nat) /\ Len(t) = b - a /\ \A i \in 1..b - a : t[i] = s[a + i]
  BY <1>1
<1>5. x \in Nat /\ y \in Nat /\ x <= y
  BY <1>1, <1>2, <1>3, SMTT(30)
<1> HIDE DEF t
<1>6. ASSUME NEW i \in 1..Len(t)
      PROVE  x < t[i] /\ t[i] <= y
  <2>1. a + i \in 1..Len(s) /\ a + i <= b /\ a < a + i /\ t[i] = s[a + i]
    BY <1>1, <1>4
  <2>2. x < s[a + i]
    BY <1>1, <1>2, <1>3, <2>1, SMTT(30)
  <2>3. s[a + i] <= y
    <3>1. CASE b = Len(s)
      BY <1>2, <2>1, <3>1
    <3>2. CASE b # Len(s) /\ a + i < b
      <4>1. b \in 1..Len(s)
        BY <1>1, <2>1
      <4>2. s[a + i] < s[b]
        BY <1>3, <2>1, <3>2, <4>1
      <4>3. QED
        BY <1>2, <2>1, <3>2, <4>1, <4>2
    <3>3. CASE b # Len(s) /\ a + i = b
      BY <1>2, <2>1, <3>3
    <3>4. QED
      BY <1>1, <2>1, <3>1, <3>2, <3>3
  <2>4. QED
    BY <2>1, <2>2, <2>3
<1>7. ASSUME NEW i \in 1..Len(t), NEW j \in 1..Len(t), i < j
      PROVE  t[i] < t[j]
  <2>1. i \in 1..b - a /\ j \in 1..b - a
    BY <1>4
  <2>2. a + i \in 1..Len(s) /\ a + j \in 1..Len(s) /\ a + i < a + j
    BY <1>1, <1>7, <2>1
  <2>3. t[i] = s[a + i] /\ t[j] = s[a + j]
    BY <1>4, <2>1
  <2>4. QED
    BY <1>3, <2>2, <2>3
<1>8. ASSUME NEW u \in (x + 1)..y, u \notin D
      PROVE  \E i \in 1..Len(t) : t[i] = u
  <2>1. n <= x /\ y <= m
    BY <1>1, <1>2
  <2>2. u \in (n + 1)..m
    BY <1>1, <1>5, <2>1
  <2>3. PICK k \in 1..Len(s) : s[k] = u
    BY <1>8, <2>2 DEF Extends
  <2>4. k > a
    <3>1. SUFFICES ASSUME k <= a
                   PROVE  FALSE
      BY <1>1
    <3>2. a \in 1..Len(s) /\ s[a] < u
      BY <1>1, <1>2, <1>5, <3>1
    <3>3. k = a \/ s[k] < s[a]
      BY <1>3, <3>1, <3>2
    <3>4. QED
      BY <1>2, <2>3, <3>2, <3>3
  <2>5. k <= b
    <3>1. SUFFICES ASSUME k > b
                   PROVE  FALSE
      BY <1>1
    <3>2. b \in 1..Len(s) /\ u <= s[b]
      BY <1>1, <1>5, <3>1
    <3>3. s[b] < s[k]
      BY <1>3, <3>1, <3>2
    <3>4. QED
      BY <1>2, <2>3, <3>2, <3>3
  <2>6. k - a \in 1..Len(t) /\ t[k - a] = s[k]
    BY <1>1, <1>4, <2>4, <2>5
  <2>7. QED
    BY <2>3, <2>6
<1>9. QED
  BY <1>4, <1>5, <1>6, <1>7, <1>8 DEF Extends, t

\* More may be left out.
LEMMA ExtendsMore ==
  ASSUME NEW D, NEW E, D \subseteq E, NEW s, NEW n, NEW m, Extends(D, s, n, m)
  PROVE  Extends(E, s, n, m)
BY DEF Extends

\* Nothing need be shown of what is left out.
LEMMA ExtendsNone ==
  ASSUME NEW D, NEW n \in Nat, NEW m \in Nat, n <= m, (n + 1)..m \subseteq D
  PROVE  Extends(D, <<>>, n, m)
<1>1. <<>> \in Seq(Nat) /\ Len(<<>>) = 0
  OBVIOUS
<1>2. QED
  BY <1>1 DEF Extends

\* New output.
LEMMA ExtendsNew ==
  ASSUME NEW u \in Nat, NEW g \in Nat
  PROVE  Extends({}, [i \in 1..g |-> u + i], u, u + g)
<1> DEFINE s == [i \in 1..g |-> u + i]
<1>1. s \in Seq(Nat) /\ Len(s) = g /\ \A i \in 1..g : s[i] = u + i
  OBVIOUS
<1> HIDE DEF s
<1>2. ASSUME NEW v \in (u + 1)..(u + g)
      PROVE  \E i \in 1..Len(s) : s[i] = v
  <2>1. v - u \in 1..g /\ s[v - u] = v
    BY <1>1
  <2>2. QED
    BY <1>1, <2>1
<1>3. QED
  BY <1>1, <1>2 DEF Extends, s

\* Sequences that go on where the one before ends, put together.
LEMMA ExtendsFlatten ==
  ASSUME NEW D, NEW k \in Nat, NEW s \in Seq(Seq(Nat)), Len(s) = k, NEW pos,
         \A i \in 0..k : pos[i] \in Nat,
         \A i \in 1..k : Extends(D, s[i], pos[i - 1], pos[i])
  PROVE  Extends(D, FlattenSeq(s), pos[0], pos[k])
<1>1. CASE k = 0
  <2>1. FlattenSeq(s) = s
    BY <1>1, Zenon DEF FlattenSeq
  <2>2. s = <<>>
    BY <1>1
  <2>3. Extends(D, <<>>, pos[0], pos[0])
    BY ExtendsNone
  <2>4. QED
    BY <1>1, <2>1, <2>2, <2>3
<1>2. CASE k # 0
  <2> DEFINE step(f, i) == IF i = 1 THEN s[i] ELSE f[i-1] \o s[i]
  <2>0. s # <<>>
    BY <1>2
  <2>1. PICK f : /\ f = [i \in 1..Len(s) |-> step(f, i)]
                 /\ FlattenSeq(s) = f[Len(s)]
    BY <2>0, FlattenSeqIs, Zenon
  <2>2. \A i \in 1..k : f[i] = step(f, i)
    <3> HIDE DEF step
    <3>1. QED
      BY <2>1
  <2> DEFINE A == {i \in Nat : i \in 1..k => Extends(D, f[i], pos[0], pos[i])}
  <2>3. 0 \in A
    OBVIOUS
  <2>4. ASSUME NEW i \in Nat, i \in A
        PROVE  i + 1 \in A
    <3>1. SUFFICES ASSUME i + 1 \in 1..k
                   PROVE  Extends(D, f[i + 1], pos[0], pos[i + 1])
      OBVIOUS
    <3>2. f[i + 1] = IF i = 0 THEN s[1] ELSE f[i] \o s[i + 1]
      BY <2>2, <3>1
    <3>3. Extends(D, s[i + 1], pos[i], pos[i + 1])
      <4>1. (i + 1) - 1 = i
        OBVIOUS
      <4>2. QED
        BY <3>1, <4>1
    <3>4. CASE i = 0
      BY <3>2, <3>3, <3>4
    <3>5. CASE i # 0
      <4>1. Extends(D, f[i], pos[0], pos[i])
        BY <2>4, <3>1, <3>5
      <4>2. QED
        BY <3>2, <3>3, <3>5, <4>1, ExtendsConcat
    <3>6. QED
      BY <3>4, <3>5
  <2>5. Nat \subseteq A
    <3> HIDE DEF A
    <3>1. QED
      BY <2>3, <2>4, Induct
  <2>6. k \in A /\ k \in 1..k
    BY <1>2, <2>5
  <2>7. QED
    BY <2>1, <2>6
<1>3. QED
  BY <1>1, <1>2

\* What extends from 0 is faithful.
LEMMA ExtendsFaithful ==
  ASSUME NEW s, NEW m, Extends(dropped, s, 0, m)
  PROVE  Faithful(s)
<1>1. s \in Seq(Nat) /\ m \in Nat /\ DOMAIN s = 1..Len(s) /\ Len(s) \in Nat
  BY DEF Extends
<1>2. \A i, j \in DOMAIN s : i < j => s[i] < s[j]
  BY <1>1 DEF Extends
<1>3. ASSUME s # <<>>, NEW u \in 1..Last(s), u \notin dropped
      PROVE  u \in ToSet(s)
  <2>1. Last(s) = s[Len(s)] /\ Len(s) \in 1..Len(s)
    BY <1>1, <1>3 DEF Last
  <2>2. s[Len(s)] <= m /\ s[Len(s)] \in Nat
    BY <1>1, <2>1 DEF Extends
  <2>3. u \in (0 + 1)..m
    BY <1>1, <2>1, <2>2
  <2>4. \E i \in 1..Len(s) : s[i] = u
    BY <1>3, <2>3 DEF Extends
  <2>5. QED
    BY <1>1, <2>4 DEF ToSet
<1>4. QED
  BY <1>2, <1>3 DEF Faithful

-----------------------------------------------------------------------------
(* Chunks.                                                                 *)

\* The constants, one by one.
LEMMA ConstantTypes ==
  /\ CheckpointAt \in Nat \ {0} /\ PauseAt \in Nat \ {0} /\ WriteMax \in Nat \ {0}
  /\ SliceMax \in Nat \ {0} /\ GatherMax \in Nat \ {0}
  /\ DeltaMax \in Nat /\ GatherMax <= DeltaMax
  /\ MaxUnits \in Nat /\ MaxSuspends \in Nat /\ MaxMounts \in Nat
BY ConstantsAssumption

\* The units of output are numbers.
LEMMA DataType ==
  ASSUME NEW data \in Data
  PROVE  /\ data \in Seq(Nat) /\ Len(data) \in Nat /\ (data = <<>> <=> Len(data) = 0)
         /\ \A i \in 1..Len(data) : data[i] \in 1..MaxUnits
<1>1. \A i \in 1..Len(data) : data[i] \in 1..MaxUnits
  BY ElementOfSeq DEF Data
<1>2. Len(data) \in Nat /\ data = [i \in 1..Len(data) |-> data[i]]
  BY DEF Data
<1>3. \A i \in 1..Len(data) : data[i] \in Nat
  BY <1>1, ConstantTypes
<1>4. data \in [1..Len(data) -> Nat]
  BY <1>2, <1>3
<1>5. data \in Seq(Nat)
  BY <1>2, <1>4
<1>6. data = <<>> <=> Len(data) = 0
  BY DEF Data
<1>7. QED
  BY <1>1, <1>2, <1>5, <1>6

\* How many chunks there are, and where they end.
LEMMA ChunkCount ==
  ASSUME NEW len \in Nat, NEW n, n = (len + WriteMax - 1) \div WriteMax
  PROVE  /\ n \in Nat /\ (n = 0 <=> len = 0)
         /\ \A i \in Nat : i < n => i * WriteMax \in Nat /\ i * WriteMax < len
         /\ \A i \in 1..n : i * WriteMax \in Nat \ {0} /\ (i - 1) * WriteMax \in 0..len
                            /\ (i - 1) * WriteMax <= i * WriteMax
         /\ \A i \in 2..n : (i - 1) * WriteMax \in Nat \ {0}
<1>1. WriteMax \in Nat \ {0}
  BY ConstantTypes
<1> DEFINE W == WriteMax
<1>2. W \in Nat \ {0} /\ WriteMax = W
  BY <1>1
<1> HIDE DEF W
<1>3. n \in Int /\ n * W <= len + W - 1 /\ len + W - 1 < n * W + W
  BY <1>2, Quotient
<1>4. n \in Nat /\ (n = 0 <=> len = 0)
  <2>1. n >= 0
    <3>1. SUFFICES ASSUME n <= -1
                   PROVE  FALSE
      BY <1>3
    <3>2. n * W <= -W
      BY <1>2, <1>3, <3>1
    <3>3. QED
      BY <1>2, <1>3, <3>2
  <2>2. n = 0 => len = 0
    BY <1>2, <1>3
  <2>3. ASSUME len = 0, n >= 1
        PROVE  FALSE
    <3>1. n * W >= W
      BY <1>2, <1>3, <2>3
    <3>2. QED
      BY <1>2, <1>3, <2>3, <3>1
  <2>4. QED
    BY <1>3, <2>1, <2>2, <2>3
<1>5. ASSUME NEW i \in Nat
      PROVE  i * W \in Nat
  BY <1>2
<1>6. ASSUME NEW i \in Nat, i < n
      PROVE  i * W < len
  <2>1. (i + 1) * W <= n * W
    BY <1>2, <1>4, <1>6
  <2>2. (i + 1) * W = i * W + W
    BY <1>2
  <2>3. QED
    BY <1>2, <1>3, <1>5, <2>1, <2>2
<1>7. ASSUME NEW i \in 1..n
      PROVE  i * W \in Nat \ {0} /\ (i - 1) * W \in 0..len /\ (i - 1) * W <= i * W
  <2>1. i \in Nat /\ i - 1 \in Nat /\ i - 1 < n
    BY <1>4
  <2>2. (i - 1) * W \in Nat /\ (i - 1) * W < len
    BY <1>5, <1>6, <2>1
  <2>3. i * W = (i - 1) * W + W
    BY <1>2, <2>1
  <2>4. QED
    BY <1>2, <2>2, <2>3
<1>8. ASSUME NEW i \in 2..n
      PROVE  (i - 1) * W \in Nat \ {0}
  <2>1. i - 1 \in 1..n
    BY <1>4
  <2>2. QED
    BY <1>7, <2>1
<1>9. QED
  BY <1>2, <1>4, <1>5, <1>6, <1>7, <1>8

\* The chunks of data, and the chunk that carries the sequence number.
LEMMA ChunksType ==
  ASSUME NEW data \in Data, NEW through \in 0..MaxUnits, NEW reset \in BOOLEAN
  PROVE  LET q == Chunks(data, through, reset)
         IN  /\ q \in Seq(Chunk)
             /\ q = <<>> <=> data = <<>> /\ ~reset
             /\ q # <<>> => q[Len(q)].through = through
             /\ \A i \in 1..Len(q) : q[i].through \in {0, through}
<1> DEFINE n == IF data = <<>> /\ reset THEN 1 ELSE (Len(data) + WriteMax - 1) \div WriteMax
           q == Chunks(data, through, reset)
           part(i) == SubSeq(data, (i - 1) * WriteMax + 1,
                             IF i = n THEN Len(data) ELSE i * WriteMax)
           c(i) == [data |-> part(i), through |-> IF i = n THEN through ELSE 0,
                    reset |-> reset /\ i = 1]
<1>1. Len(data) \in Nat /\ WriteMax \in Nat \ {0} /\ MaxUnits \in Nat
      /\ \A i \in 1..Len(data) : data[i] \in 1..MaxUnits
  BY ConstantTypes, DataType
<1>2. n \in Nat /\ (n = 0 <=> data = <<>> /\ ~reset)
  <2>1. data = <<>> <=> Len(data) = 0
    BY DEF Data
  <2>2. QED
    BY <1>1, <2>1, ChunkCount
<1>3. ASSUME NEW i \in 1..n
      PROVE  c(i) \in Chunk
  <2>1. part(i) \in Data
    <3>1. CASE data = <<>> /\ reset
      BY <1>1, <3>1 DEF Data
    <3>2. CASE ~(data = <<>> /\ reset)
      <4> DEFINE a == (i - 1) * WriteMax
                 e == IF i = n THEN Len(data) ELSE i * WriteMax
      <4>1. a \in 0..Len(data) /\ i * WriteMax \in Nat
        BY <1>1, <3>2, ChunkCount
      <4>2. i < n => i * WriteMax < Len(data)
        <5>1. i \in Nat
          BY <1>2
        <5>2. QED
          BY <1>1, <3>2, <5>1, ChunkCount, ZenonT(30)
      <4>3. e \in Nat /\ e <= Len(data)
        BY <1>1, <1>2, <4>1, <4>2
      <4> HIDE DEF a, e
      <4>4. SubSeq(data, a + 1, e) \in Seq(1..MaxUnits)
        <5>1. \A k \in (a + 1)..e : data[k] \in 1..MaxUnits
          BY <1>1, <4>1, <4>3
        <5>2. a + 1 \in Int /\ e \in Int
          BY <4>1, <4>3
        <5>3. QED
          BY <5>1, <5>2, SubSeqProperties
      <4>5. QED
        BY <4>4 DEF Data, a, e
    <3>3. QED
      BY <3>1, <3>2
  <2> HIDE DEF part, n
  <2>2. (IF i = n THEN through ELSE 0) \in 0..MaxUnits
    BY <1>1
  <2>3. QED
    BY <2>1, <2>2 DEF Chunk
<1>4. q = [i \in 1..n |-> c(i)]
  BY DEF Chunks
<1> HIDE DEF q, c, n
<1>5. q \in Seq(Chunk) /\ Len(q) = n /\ \A i \in 1..n : q[i] = c(i)
  BY <1>2, <1>3, <1>4
<1>6. q = <<>> <=> n = 0
  BY <1>2, <1>5
<1>7. ASSUME NEW i \in 1..n
      PROVE  q[i].through = IF i = n THEN through ELSE 0
  BY <1>5 DEF c
<1>8. QED
  BY <1>2, <1>5, <1>6, <1>7 DEF q

\* The chunks q lead from the unit n to the unit m, and each has got to where the
\* events end that it says it reaches.
Leads(D, b, q, n, m) ==
    \E pos \in [0..Len(q) -> Nat] :
        /\ pos[0] = n /\ pos[Len(q)] = m
        /\ \A i \in 1..Len(q) :
               /\ Extends(D, q[i].data, IF q[i].reset THEN 0 ELSE pos[i - 1], pos[i])
               /\ q[i].through # 0 => pos[i] = b[q[i].through]

\* The chunks of data.
LEMMA ChunksLead ==
  ASSUME NEW data \in Data, NEW through \in 0..MaxUnits, NEW reset \in BOOLEAN,
         NEW D, NEW b, NEW n \in Nat, NEW base, NEW m, Extends(D, data, base, m),
         through # 0 => m = b[through],
         IF reset THEN base = 0 ELSE base = n,
         data = <<>> /\ ~reset => n = m
  PROVE  Leads(D, b, Chunks(data, through, reset), n, m)
<1> DEFINE k == IF data = <<>> /\ reset THEN 1 ELSE (Len(data) + WriteMax - 1) \div WriteMax
           q == Chunks(data, through, reset)
           at(i) == (i - 1) * WriteMax
           e(i) == IF i = k THEN Len(data) ELSE i * WriteMax
           c(i) == [data |-> SubSeq(data, at(i) + 1, e(i)),
                    through |-> IF i = k THEN through ELSE 0,
                    reset |-> reset /\ i = 1]
           pos == [i \in 0..k |-> IF i = 0 THEN n ELSE IF i = k THEN m
                                  ELSE data[i * WriteMax]]
<1>1. Len(data) \in Nat /\ WriteMax \in Nat \ {0} /\ MaxUnits \in Nat /\ m \in Nat /\ base \in Nat
      /\ \A i \in 1..Len(data) : data[i] \in Nat
  BY ConstantTypes, DataType DEF Extends
<1>2. data = <<>> <=> Len(data) = 0
  BY DEF Data
<1>3. k \in Nat /\ (k = 0 <=> data = <<>> /\ ~reset)
  BY <1>1, <1>2, ChunkCount
<1>4. ASSUME NEW i \in 1..k
      PROVE  /\ at(i) \in 0..Len(data) /\ e(i) \in at(i)..Len(data)
             /\ e(i) = 0 => Len(data) = 0
             /\ at(i) = 0 <=> i = 1
             /\ i # k => e(i) # Len(data) /\ e(i) \in 1..Len(data)
  <2>1. CASE data = <<>> /\ reset
    <3>1. i = 1 /\ k = 1 /\ Len(data) = 0
      BY <1>2, <2>1
    <3>2. at(i) = 0
      BY <1>1, <3>1
    <3>3. QED
      BY <2>1, <3>1, <3>2
  <2>2. CASE ~(data = <<>> /\ reset)
    <3>1. i * WriteMax \in Nat \ {0} /\ at(i) \in 0..Len(data) /\ at(i) <= i * WriteMax
      BY <1>1, <2>2, ChunkCount, ZenonT(30)
    <3>2. i < k => i * WriteMax < Len(data)
      <4>1. i \in Nat
        BY <1>3
      <4>2. QED
        BY <1>1, <2>2, <4>1, ChunkCount, ZenonT(30)
    <3>3. i # 1 => at(i) # 0
      <4>1. i # 1 => i \in 2..k
        BY <1>3
      <4>2. QED
        BY <1>1, <2>2, <4>1, ChunkCount
    <3>4. i = 1 => at(i) = 0
      BY <1>1
    <3>5. i \in Nat /\ i <= k
      BY <1>3
    <3> DEFINE x == i * WriteMax
               y == at(i)
    <3>6. e(i) = IF i = k THEN Len(data) ELSE x
      OBVIOUS
    <3>7. x \in Nat \ {0} /\ y \in 0..Len(data) /\ y <= x /\ (i < k => x < Len(data))
          /\ (i # 1 => y # 0) /\ (i = 1 => y = 0)
      BY <3>1, <3>2, <3>3, <3>4
    <3> HIDE DEF x, y, e, k
    <3>8. y \in 0..Len(data) /\ e(i) \in y..Len(data) /\ (e(i) = 0 => Len(data) = 0)
          /\ (y = 0 <=> i = 1) /\ (i # k => e(i) # Len(data) /\ e(i) \in 1..Len(data))
      BY <1>1, <1>3, <3>5, <3>6, <3>7
    <3>9. QED
      BY <3>8 DEF y
  <2>3. QED
    BY <2>1, <2>2
<1>5. q = [i \in 1..k |-> c(i)]
  BY DEF Chunks
<1>6. Len(q) = k /\ \A i \in 1..k : q[i] = c(i)
  <2> HIDE DEF q, c, k
  <2>1. QED
    BY <1>3, <1>5
<1>7. pos \in [0..k -> Nat] /\ pos[0] = n /\ pos[k] = m
  <2>1. ASSUME NEW i \in 0..k
        PROVE  (IF i = 0 THEN n ELSE IF i = k THEN m ELSE data[i * WriteMax]) \in Nat
    <3>1. CASE i = 0 \/ i = k
      BY <1>1, <3>1
    <3>2. CASE i # 0 /\ i # k
      <4>1. i \in 1..k
        BY <1>3, <3>2
      <4>2. e(i) \in 1..Len(data) /\ e(i) = i * WriteMax
        BY <1>4, <3>2, <4>1
      <4>3. QED
        BY <1>1, <3>2, <4>2
    <3>3. QED
      BY <3>1, <3>2
  <2>2. k = 0 => n = m
    BY <1>3
  <2> HIDE DEF k
  <2>3. QED
    BY <1>3, <2>1, <2>2
<1>8. ASSUME NEW i \in 1..k
      PROVE  /\ Extends(D, q[i].data, IF q[i].reset THEN 0 ELSE pos[i - 1], pos[i])
             /\ q[i].through # 0 => pos[i] = b[q[i].through]
  <2>1. Extends(D, SubSeq(data, at(i) + 1, e(i)), IF at(i) = 0 THEN base ELSE data[at(i)],
                IF e(i) = Len(data) THEN m ELSE data[e(i)])
    <3>1. /\ at(i) \in 0..Len(data) /\ e(i) \in at(i)..Len(data)
          /\ e(i) = 0 => Len(data) = 0
      BY <1>4
    <3> HIDE DEF at, e
    <3>2. QED
      BY <3>1, ExtendsPart
  <2>2. (IF e(i) = Len(data) THEN m ELSE data[e(i)]) = pos[i]
    <3>1. i \in 0..k /\ i # 0
      BY <1>3
    <3>2. CASE i = k
      BY <3>1, <3>2
    <3>3. CASE i # k
      <4>1. e(i) # Len(data) /\ e(i) = i * WriteMax
        BY <1>4, <3>3
      <4>2. pos[i] = data[i * WriteMax]
        BY <3>1, <3>3
      <4>3. QED
        BY <4>1, <4>2
    <3>4. QED
      BY <3>2, <3>3
  <2>3. q[i].data = SubSeq(data, at(i) + 1, e(i)) /\ q[i].reset = (reset /\ i = 1)
        /\ q[i].through = IF i = k THEN through ELSE 0
    <3> HIDE DEF q, at, e, k
    <3>1. QED
      BY <1>6
  <2>4. (IF at(i) = 0 THEN base ELSE data[at(i)]) = IF q[i].reset THEN 0 ELSE pos[i - 1]
    <3>1. CASE i = 1
      <4>1. pos[i - 1] = n
        BY <1>3, <3>1
      <4>2. at(i) = 0
        BY <1>4, <3>1
      <4>3. QED
        BY <2>3, <3>1, <4>1, <4>2
    <3>2. CASE i # 1
      <4>1. i - 1 \in 0..k /\ i - 1 # 0 /\ i - 1 # k
        BY <1>3, <3>2
      <4>2. pos[i - 1] = data[(i - 1) * WriteMax]
        BY <4>1
      <4>3. at(i) # 0
        BY <1>4, <3>2
      <4>4. QED
        BY <2>3, <3>2, <4>2, <4>3
    <3>3. QED
      BY <3>1, <3>2
  <2>5. q[i].through # 0 => pos[i] = b[q[i].through]
    <3>1. CASE i = k
      <4>1. pos[i] = m
        BY <1>7, <3>1
      <4>2. QED
        BY <2>3, <3>1, <4>1
    <3>2. CASE i # k
      BY <2>3, <3>2
    <3>3. QED
      BY <3>1, <3>2
  <2>6. Extends(D, q[i].data, IF q[i].reset THEN 0 ELSE pos[i - 1], pos[i])
    <3> HIDE DEF q, pos, at, e
    <3>1. QED
      BY <2>1, <2>2, <2>3, <2>4
  <2>7. QED
    BY <2>5, <2>6
<1> HIDE DEF pos, k, q
<1>9. QED
  <2>1. /\ pos \in [0..Len(q) -> Nat] /\ pos[0] = n /\ pos[Len(q)] = m
        /\ \A i \in 1..Len(q) :
               /\ Extends(D, q[i].data, IF q[i].reset THEN 0 ELSE pos[i - 1], pos[i])
               /\ q[i].through # 0 => pos[i] = b[q[i].through]
    BY <1>6, <1>7, <1>8
  <2>2. Leads(D, b, q, n, m)
    BY <2>1 DEF Leads
  <2>3. QED
    BY <2>2 DEF q

\* The ends of what chunks lead to.
LEMMA LeadsEnds ==
  ASSUME NEW S, NEW q \in Seq(S), NEW D, NEW b, NEW n, NEW m, Leads(D, b, q, n, m)
  PROVE  n \in Nat /\ m \in Nat /\ (q = <<>> => n = m)
<1>1. PICK pos \in [0..Len(q) -> Nat] : pos[0] = n /\ pos[Len(q)] = m
  BY DEF Leads
<1>2. Len(q) \in Nat /\ (q = <<>> => Len(q) = 0)
  OBVIOUS
<1>3. QED
  BY <1>1, <1>2

\* No chunks lead nowhere.
LEMMA LeadsNowhere ==
  ASSUME NEW D, NEW b, NEW n \in Nat
  PROVE  Leads(D, b, <<>>, n, n)
<1> DEFINE pos == [i \in 0..0 |-> n]
<1>1. pos \in [0..Len(<<>>) -> Nat] /\ pos[0] = n /\ Len(<<>>) = 0
  OBVIOUS
<1> HIDE DEF pos
<1>2. QED
  BY <1>1 DEF Leads

\* Chunks that go on where the others end.
LEMMA LeadsConcat ==
  ASSUME NEW S, NEW q \in Seq(S), NEW r \in Seq(S), NEW D, NEW b, NEW n, NEW m, NEW p,
         Leads(D, b, q, n, m), Leads(D, b, r, m, p)
  PROVE  Leads(D, b, q \o r, n, p)
<1> DEFINE leads(s, pos, i) ==
             /\ Extends(D, s[i].data, IF s[i].reset THEN 0 ELSE pos[i - 1], pos[i])
             /\ s[i].through # 0 => pos[i] = b[s[i].through]
           qr == q \o r
<1>1. PICK f \in [0..Len(q) -> Nat] :
          f[0] = n /\ f[Len(q)] = m /\ \A i \in 1..Len(q) : leads(q, f, i)
  BY DEF Leads
<1>2. PICK g \in [0..Len(r) -> Nat] :
          g[0] = m /\ g[Len(r)] = p /\ \A i \in 1..Len(r) : leads(r, g, i)
  BY DEF Leads
<1>3. /\ qr \in Seq(S) /\ Len(qr) = Len(q) + Len(r)
      /\ \A i \in 1..Len(q) + Len(r) : qr[i] = IF i <= Len(q) THEN q[i] ELSE r[i - Len(q)]
  BY ConcatProperties, Zenon
<1>4. Len(q) \in Nat /\ Len(r) \in Nat
  OBVIOUS
<1> DEFINE pos == [i \in 0..Len(qr) |-> IF i <= Len(q) THEN f[i] ELSE g[i - Len(q)]]
<1> HIDE DEF qr
<1>5. pos \in [0..Len(qr) -> Nat] /\ pos[0] = n
  BY <1>1, <1>2, <1>3, <1>4
<1>6. pos[Len(qr)] = p
  <2>1. CASE Len(r) = 0
    BY <1>1, <1>2, <1>3, <1>4, <2>1
  <2>2. CASE Len(r) # 0
    BY <1>2, <1>3, <1>4, <2>2
  <2>3. QED
    BY <2>1, <2>2
<1>7. ASSUME NEW i \in 1..Len(qr)
      PROVE  leads(qr, pos, i)
  <2>1. CASE i <= Len(q)
    <3>1. i \in 1..Len(q) /\ qr[i] = q[i]
      BY <1>3, <1>4, <2>1
    <3>2. pos[i] = f[i] /\ pos[i - 1] = f[i - 1]
      BY <1>3, <1>4, <3>1
    <3>3. leads(q, f, i)
      BY <1>1, <3>1
    <3> HIDE DEF pos
    <3>4. QED
      BY <3>1, <3>2, <3>3
  <2>2. CASE i > Len(q)
    <3> DEFINE k == i - Len(q)
    <3>1. k \in 1..Len(r) /\ qr[i] = r[k]
      BY <1>3, <1>4, <2>2
    <3>2. pos[i] = g[k]
      BY <1>3, <1>4, <2>2
    <3>3. pos[i - 1] = g[k - 1]
      <4>1. CASE i - 1 = Len(q)
        <5>1. pos[i - 1] = f[Len(q)] /\ k - 1 = 0
          BY <1>3, <1>4, <4>1
        <5>2. QED
          BY <1>1, <1>2, <5>1
      <4>2. CASE i - 1 > Len(q)
        <5>1. (i - 1) - Len(q) = k - 1 /\ i - 1 \in 0..Len(qr) /\ ~(i - 1 <= Len(q))
          BY <1>3, <1>4, <4>2
        <5>2. QED
          BY <5>1
      <4>3. QED
        BY <1>3, <1>4, <2>2, <4>1, <4>2
    <3>4. leads(r, g, k)
      BY <1>2, <3>1
    <3> HIDE DEF pos, k
    <3>5. QED
      BY <3>1, <3>2, <3>3, <3>4
  <2>3. QED
    BY <1>3, <1>4, <2>1, <2>2
<1> HIDE DEF pos
<1>8. Leads(D, b, qr, n, p)
  BY <1>5, <1>6, <1>7 DEF Leads
<1>9. QED
  BY <1>8 DEF qr

\* The first of the chunks leads to where the others start.
LEMMA LeadsHead ==
  ASSUME NEW S, NEW q \in Seq(S), q # <<>>, NEW D, NEW b, NEW n, NEW m, Leads(D, b, q, n, m)
  PROVE  \E p \in Nat :
             /\ Extends(D, Head(q).data, IF Head(q).reset THEN 0 ELSE n, p)
             /\ Head(q).through # 0 => p = b[Head(q).through]
             /\ Leads(D, b, Tail(q), p, m)
<1> DEFINE leads(s, pos, i) ==
             /\ Extends(D, s[i].data, IF s[i].reset THEN 0 ELSE pos[i - 1], pos[i])
             /\ s[i].through # 0 => pos[i] = b[s[i].through]
           t == Tail(q)
<1>1. PICK f \in [0..Len(q) -> Nat] :
          f[0] = n /\ f[Len(q)] = m /\ \A i \in 1..Len(q) : leads(q, f, i)
  BY DEF Leads
<1>2. /\ t \in Seq(S) /\ Len(t) = Len(q) - 1 /\ \A i \in 1..Len(t) : t[i] = q[i + 1]
      /\ Head(q) = q[1] /\ Len(q) \in Nat \ {0}
  <2>1. Head(q) = q[1] /\ Len(q) \in Nat \ {0}
    OBVIOUS
  <2>2. QED
    BY <2>1, HeadTailProperties
<1> HIDE DEF t
<1> DEFINE g == [i \in 0..Len(t) |-> f[i + 1]]
<1>3. g \in [0..Len(t) -> Nat] /\ g[0] = f[1] /\ g[Len(t)] = m
  BY <1>1, <1>2
<1>4. ASSUME NEW i \in 1..Len(t)
      PROVE  leads(t, g, i)
  <2>1. t[i] = q[i + 1] /\ i + 1 \in 1..Len(q) /\ (i + 1) - 1 = i /\ (i - 1) + 1 = i
    BY <1>2
  <2>2. g[i] = f[i + 1] /\ g[i - 1] = f[i]
    BY <1>2
  <2>3. leads(q, f, i + 1)
    BY <1>1, <2>1
  <2> HIDE DEF g
  <2>4. QED
    BY <2>1, <2>2, <2>3
<1>5. f[1] \in Nat /\ leads(q, f, 1)
  BY <1>1, <1>2, SMTT(30)
<1> HIDE DEF g
<1>6. Leads(D, b, t, f[1], m)
  BY <1>3, <1>4 DEF Leads
<1>7. QED
  BY <1>1, <1>2, <1>5, <1>6 DEF t

\* More may be left out, and events may come.
LEMMA LeadsMore ==
  ASSUME NEW S, NEW q \in Seq(S), NEW D, NEW E, D \subseteq E, NEW b, NEW c,
         \A i \in 1..Len(q) : q[i].through # 0 => c[q[i].through] = b[q[i].through],
         NEW n, NEW m, Leads(D, b, q, n, m)
  PROVE  Leads(E, c, q, n, m)
<1>1. PICK f \in [0..Len(q) -> Nat] :
          /\ f[0] = n /\ f[Len(q)] = m
          /\ \A i \in 1..Len(q) :
                /\ Extends(D, q[i].data, IF q[i].reset THEN 0 ELSE f[i - 1], f[i])
                /\ q[i].through # 0 => f[i] = b[q[i].through]
  BY DEF Leads
<1>2. \A i \in 1..Len(q) :
          /\ Extends(E, q[i].data, IF q[i].reset THEN 0 ELSE f[i - 1], f[i])
          /\ q[i].through # 0 => f[i] = c[q[i].through]
  BY <1>1, ExtendsMore
<1>3. QED
  BY <1>1, <1>2 DEF Leads

-----------------------------------------------------------------------------
(***************************************************************************)
(* The history.  b says where the events end: the event s brought the      *)
(* units after b[s - 1] up to b[s].                                        *)
(***************************************************************************)
Event == [sequence : 1..MaxUnits, data : Data]

\* d is the last events, up to the event last.
Events(d, b, last) ==
    /\ d \in Seq(Event) /\ last \in Nat /\ Len(d) <= last
    /\ \A i \in 0..last : b[i] \in Nat
    /\ \A i \in 1..Len(d) :
           LET s == last - Len(d) + i
           IN  d[i].sequence = s /\ Extends({}, d[i].data, b[s - 1], b[s])

\* The data of the last events.
LEMMA EventsShow ==
  ASSUME NEW d, NEW b, NEW last, Events(d, b, last)
  PROVE  DataOf(d) \in Data /\ Extends({}, DataOf(d), b[last - Len(d)], b[last])
<1> DEFINE k == Len(d)
           s == [i \in DOMAIN d |-> d[i].data]
           pos == [i \in 0..k |-> b[last - k + i]]
<1>1. d \in Seq(Event) /\ k \in Nat /\ DOMAIN d = 1..k /\ last \in Nat /\ k <= last
  BY DEF Events
<1>2. \A i \in 1..k : d[i].data \in Data
  <2>1. \A i \in 1..k : d[i] \in Event
    BY <1>1
  <2>2. \A e \in Event : e.data \in Data
    BY DEF Event
  <2>3. QED
    BY <2>1, <2>2
<1>3. s \in Seq(Data) /\ Len(s) = k /\ \A i \in 1..k : s[i] = d[i].data
  <2> HIDE DEF k
  <2>1. QED
    BY <1>1, <1>2
<1>4. \A i \in 1..k : s[i] \in Seq(Nat)
  BY <1>2, <1>3, DataType
<1>5. s \in Seq(Seq(Nat))
  <2> HIDE DEF s
  <2>1. s = [i \in 1..k |-> s[i]]
    BY <1>1, <1>3
  <2>2. QED
    BY <1>1, <1>4, <2>1
<1>6. \A i \in 0..k : pos[i] = b[last - k + i] /\ pos[i] \in Nat
  BY <1>1 DEF Events
<1>7. ASSUME NEW i \in 1..k
      PROVE  Extends({}, s[i], pos[i - 1], pos[i])
  <2>1. Extends({}, d[i].data, b[last - k + i - 1], b[last - k + i])
    BY DEF Events
  <2>2. pos[i - 1] = b[last - k + i - 1] /\ pos[i] = b[last - k + i]
    <3>1. i - 1 \in 0..k /\ last - k + (i - 1) = last - k + i - 1
      BY <1>1
    <3> HIDE DEF pos
    <3>2. QED
      BY <1>1, <1>6, <3>1
  <2> HIDE DEF pos, s
  <2>3. QED
    BY <1>3, <2>1, <2>2
<1>8. Extends({}, FlattenSeq(s), pos[0], pos[k])
  <2> HIDE DEF pos, s, k
  <2>1. QED
    BY <1>1, <1>3, <1>5, <1>6, <1>7, ExtendsFlatten
<1>9. pos[0] = b[last - k] /\ pos[k] = b[last]
  <2>1. last - k + 0 = last - k /\ last - k + k = last /\ 0 \in 0..k /\ k \in 0..k
    BY <1>1
  <2> HIDE DEF pos
  <2>2. QED
    BY <1>6, <2>1
<1>10. FlattenSeq(s) \in Data
  <2> HIDE DEF s
  <2>1. QED
    BY <1>3, FlattenSeqType DEF Data
<1>11. QED
  BY <1>8, <1>9, <1>10 DEF DataOf

\* The events without the first j, and the first j.
LEMMA EventsPart ==
  ASSUME NEW d, NEW b, NEW last, Events(d, b, last), NEW j \in 0..Len(d)
  PROVE  /\ Events(SubSeq(d, j + 1, Len(d)), b, last)
         /\ Len(SubSeq(d, j + 1, Len(d))) = Len(d) - j
         /\ Events(SubSeq(d, 1, j), b, last - Len(d) + j)
         /\ Len(SubSeq(d, 1, j)) = j
<1> DEFINE k == Len(d)
           r == SubSeq(d, j + 1, k)
           f == SubSeq(d, 1, j)
<1>1. d \in Seq(Event) /\ k \in Nat /\ last \in Nat /\ k <= last /\ j \in Nat /\ j <= k
  BY DEF Events
<1>2. \A i \in 0..last : b[i] \in Nat
  BY DEF Events
<1>3. \A i \in 1..k : /\ d[i].sequence = last - k + i
                      /\ Extends({}, d[i].data, b[last - k + i - 1], b[last - k + i])
  BY DEF Events
<1>4. \A i \in 1..k : d[i] \in Event
  BY <1>1
<1>5. r \in Seq(Event) /\ Len(r) = k - j /\ \A i \in 1..k - j : r[i] = d[j + i]
  BY <1>1
<1>6. f \in Seq(Event) /\ Len(f) = j /\ \A i \in 1..j : f[i] = d[i]
  BY <1>1
<1> HIDE DEF r, f, k
<1>7. ASSUME NEW i \in 1..Len(r)
      PROVE  /\ r[i].sequence = last - Len(r) + i
             /\ Extends({}, r[i].data, b[last - Len(r) + i - 1], b[last - Len(r) + i])
  <2>1. j + i \in 1..k /\ r[i] = d[j + i]
    BY <1>1, <1>5
  <2>2. last - Len(r) + i = last - k + (j + i)
        /\ last - Len(r) + i - 1 = last - k + (j + i) - 1
    BY <1>1, <1>5, <2>1
  <2>3. QED
    BY <1>3, <2>1, <2>2
<1>8. ASSUME NEW i \in 1..Len(f)
      PROVE  /\ f[i].sequence = (last - k + j) - Len(f) + i
             /\ Extends({}, f[i].data, b[(last - k + j) - Len(f) + i - 1],
                        b[(last - k + j) - Len(f) + i])
  <2>1. i \in 1..k /\ f[i] = d[i]
    BY <1>1, <1>6
  <2>2. (last - k + j) - Len(f) + i = last - k + i
        /\ (last - k + j) - Len(f) + i - 1 = last - k + i - 1
    BY <1>1, <1>6, <2>1
  <2>3. QED
    BY <1>3, <2>1, <2>2
<1>9. Events(r, b, last)
  BY <1>1, <1>2, <1>5, <1>7 DEF Events
<1>10. Events(f, b, last - k + j)
  <2>1. last - k + j \in Nat /\ Len(f) <= last - k + j /\ last - k + j <= last
    BY <1>1, <1>6
  <2>2. \A i \in 0..last - k + j : b[i] \in Nat
    BY <1>1, <1>2, <2>1
  <2>3. QED
    BY <1>6, <1>8, <2>1, <2>2 DEF Events
<1>11. QED
  BY <1>5, <1>6, <1>9, <1>10 DEF r, f, k

\* The event that comes next.
LEMMA EventsAppend ==
  ASSUME NEW d, NEW b, NEW last, Events(d, b, last), last + 1 \in 1..MaxUnits,
         NEW c, \A i \in 0..last : c[i] = b[i],
         NEW data \in Data, Extends({}, data, c[last], c[last + 1])
  PROVE  Events(Append(d, [sequence |-> last + 1, data |-> data]), c, last + 1)
<1> DEFINE e == [sequence |-> last + 1, data |-> data]
           k == Len(d)
           a == Append(d, e)
<1>1. d \in Seq(Event) /\ k \in Nat /\ last \in Nat /\ k <= last
  BY DEF Events
<1>2. e \in Event
  BY DEF Event
<1>3. a \in Seq(Event) /\ Len(a) = k + 1 /\ a[k + 1] = e /\ \A i \in 1..k : a[i] = d[i]
  <2> HIDE DEF e
  <2>1. QED
    BY <1>1, <1>2
<1> HIDE DEF a, k
<1>4. \A i \in 0..last + 1 : c[i] \in Nat
  <2>1. c[last + 1] \in Nat
    BY DEF Extends
  <2>2. \A i \in 0..last : c[i] \in Nat
    BY DEF Events
  <2>3. QED
    BY <1>1, <2>1, <2>2
<1>5. ASSUME NEW i \in 1..Len(a)
      PROVE  /\ a[i].sequence = (last + 1) - Len(a) + i
             /\ Extends({}, a[i].data, c[(last + 1) - Len(a) + i - 1], c[(last + 1) - Len(a) + i])
  <2>1. (last + 1) - Len(a) + i = last - k + i
        /\ (last + 1) - Len(a) + i - 1 = last - k + i - 1
    BY <1>1, <1>3
  <2>2. CASE i <= k
    <3>1. i \in 1..k /\ a[i] = d[i]
      BY <1>1, <1>3, <2>2
    <3>2. d[i].sequence = last - k + i
          /\ Extends({}, d[i].data, b[last - k + i - 1], b[last - k + i])
      BY <3>1 DEF Events, k
    <3>3. last - k + i - 1 \in 0..last /\ last - k + i \in 0..last
      BY <1>1, <3>1
    <3>4. QED
      BY <2>1, <3>1, <3>2, <3>3
  <2>3. CASE i = k + 1
    <3>1. last - k + i = last + 1 /\ last - k + i - 1 = last
      BY <1>1, <2>3
    <3>2. a[i] = e
      BY <1>3, <2>3
    <3>3. QED
      BY <2>1, <3>1, <3>2
  <2>4. QED
    BY <1>1, <1>3, <2>2, <2>3
<1>6. Events(a, c, last + 1)
  BY <1>1, <1>3, <1>4, <1>5 DEF Events
<1>7. QED
  BY <1>6 DEF a

\* After, of any events.
Later(d, s) == FlattenSeq([i \in DOMAIN d |-> IF d[i].sequence > s THEN <<d[i]>> ELSE <<>>])

\* The events after s are the last ones.
LEMMA LaterIs ==
  ASSUME NEW d, NEW b, NEW last, Events(d, b, last), NEW s \in Nat, s <= last
  PROVE  \E j \in 0..Len(d) :
             /\ Later(d, s) = SubSeq(d, j + 1, Len(d))
             /\ last - Len(d) + j = IF s > last - Len(d) THEN s ELSE last - Len(d)
<1> DEFINE k == Len(d)
           j == IF s > last - k THEN s - (last - k) ELSE 0
           q == [i \in DOMAIN d |-> IF d[i].sequence > s THEN <<d[i]>> ELSE <<>>]
<1>1. d \in Seq(Event) /\ k \in Nat /\ DOMAIN d = 1..k /\ last \in Nat /\ k <= last
  BY DEF Events
<1>2. j \in 0..k /\ last - k + j = IF s > last - k THEN s ELSE last - k
  BY <1>1
<1>3. \A i \in 1..k : d[i] \in Event /\ d[i].sequence = last - k + i
  BY <1>1 DEF Events
<1> HIDE DEF k, j
<1>4. \A i \in 1..k : d[i].sequence > s <=> i > j
  BY <1>1, <1>2, <1>3
<1>5. \A i \in 1..k : q[i] = IF i > j THEN <<d[i]>> ELSE <<>>
  BY <1>1, <1>4
<1>6. q \in Seq(Seq(Event)) /\ Len(q) = k
  <2>1. \A i \in 1..k : (IF d[i].sequence > s THEN <<d[i]>> ELSE <<>>) \in Seq(Event)
    BY <1>3
  <2>2. QED
    BY <1>1, <2>1
<1> HIDE DEF q
<1>7. FlattenSeq(q) = SubSeq(d, j + 1, k)
  BY <1>1, <1>2, <1>5, <1>6, FlattenRest DEF k
<1>8. QED
  BY <1>2, <1>7 DEF Later, q, k

\* The history: where the events end, what the snapshot shows, and the delta after it.
HistoryOf(b, snap, snapSeq, d, last, u, D) ==
    /\ Events(d, b, last)
    /\ b[0] = 0 /\ b[last] = u
    /\ \A i, j \in 0..last : i < j => b[i] < b[j]
    /\ snap \in Data /\ snapSeq \in 0..last /\ Extends(D, snap, 0, b[snapSeq])
    /\ Len(d) <= last - snapSeq
    /\ last > snapSeq => d # <<>>
    /\ (b[snapSeq] + 1)..b[last - Len(d)] \subseteq D

\* The units at which the events end, in order.
LEMMA EndsInOrder ==
  ASSUME NEW b, NEW snap, NEW snapSeq, NEW d, NEW last, NEW u, NEW D,
         HistoryOf(b, snap, snapSeq, d, last, u, D)
  PROVE  /\ last \in Nat /\ snapSeq \in Nat /\ Len(d) \in Nat /\ last - Len(d) \in 0..last
         /\ snapSeq <= last - Len(d) /\ u \in Nat
         /\ \A i, j \in 0..last : i <= j => b[i] <= b[j]
         /\ \A i \in 0..last : b[i] \in Nat /\ b[i] <= u
<1>1. last \in Nat /\ snapSeq \in Nat /\ Len(d) \in Nat /\ Len(d) <= last /\ snapSeq <= last
      /\ Len(d) <= last - snapSeq
  BY DEF HistoryOf, Events
<1>2. \A i \in 0..last : b[i] \in Nat
  BY DEF HistoryOf, Events
<1>3. \A i, j \in 0..last : i <= j => b[i] <= b[j]
  <2>1. \A i, j \in 0..last : i < j => b[i] < b[j]
    BY DEF HistoryOf
  <2>2. QED
    BY <1>1, <1>2, <2>1
<1>4. last \in 0..last /\ b[last] = u
  BY <1>1 DEF HistoryOf
<1>5. QED
  BY <1>1, <1>2, <1>3, <1>4

\* The whole history.
LEMMA ReplayIs ==
  ASSUME NEW b, NEW snap, NEW snapSeq, NEW d, NEW last, NEW u, NEW D,
         HistoryOf(b, snap, snapSeq, d, last, u, D)
  PROVE  snap \o DataOf(d) \in Data /\ Extends(D, snap \o DataOf(d), 0, u)
<1>1. DataOf(d) \in Data /\ Extends({}, DataOf(d), b[last - Len(d)], u)
  BY EventsShow DEF HistoryOf
<1>2. Extends(D, DataOf(d), b[last - Len(d)], u)
  <2>1. {} \subseteq D
    OBVIOUS
  <2>2. QED
    BY <1>1, <2>1, ExtendsMore
<1>3. Extends(D, <<>>, b[snapSeq], b[last - Len(d)])
  <2>1. b[snapSeq] \in Nat /\ b[last - Len(d)] \in Nat /\ b[snapSeq] <= b[last - Len(d)]
    <3>1. snapSeq \in 0..last /\ last - Len(d) \in 0..last /\ snapSeq <= last - Len(d)
      BY EndsInOrder DEF HistoryOf
    <3>2. QED
      BY <3>1, EndsInOrder
  <2>2. (b[snapSeq] + 1)..b[last - Len(d)] \subseteq D
    BY DEF HistoryOf
  <2>3. QED
    BY <2>1, <2>2, ExtendsNone
<1>4. Extends(D, snap, 0, b[snapSeq]) /\ snap \in Data
  BY DEF HistoryOf
<1>5. Extends(D, snap \o <<>>, 0, b[last - Len(d)])
  BY <1>3, <1>4, ExtendsConcat
<1>6. snap \o <<>> = snap
  BY <1>4, ConcatEmptySeq DEF Data
<1>7. Extends(D, snap \o DataOf(d), 0, u)
  BY <1>2, <1>5, <1>6, ExtendsConcat
<1>8. snap \o DataOf(d) \in Data
  BY <1>1, <1>4, ConcatProperties DEF Data
<1>9. QED
  BY <1>7, <1>8

\* What follows the event s, when the terminal need not start over: all after it but
\* what was left out, and nothing only when s is the last event.
LEMMA LaterShows ==
  ASSUME NEW b, NEW snap, NEW snapSeq, NEW d, NEW last, NEW u, NEW D,
         HistoryOf(b, snap, snapSeq, d, last, u, D),
         NEW s \in Nat, s <= last, snapSeq <= s
  PROVE  /\ DataOf(Later(d, s)) \in Data
         /\ Extends(D, DataOf(Later(d, s)), b[s], u)
         /\ DataOf(Later(d, s)) = <<>> => s = last
<1> DEFINE k == Len(d)
           r == Later(d, s)
           from == IF s > last - k THEN s ELSE last - k
<1>1. Events(d, b, last) /\ b[last] = u
  BY DEF HistoryOf
<1>2. PICK j \in 0..k : r = SubSeq(d, j + 1, k) /\ last - k + j = from
  BY <1>1, LaterIs
<1>3. /\ last \in Nat /\ k \in Nat /\ last - k \in 0..last /\ from \in 0..last /\ s <= from
      /\ s \in 0..last
  BY EndsInOrder
<1>4. Events(r, b, last) /\ Len(r) = k - j
  BY <1>1, <1>2, EventsPart
<1> HIDE DEF r
<1>5. last - Len(r) = from
  <2> HIDE DEF from
  <2>1. QED
    BY <1>2, <1>3, <1>4
<1>6. DataOf(r) \in Data /\ Extends({}, DataOf(r), b[from], u)
  BY <1>1, <1>4, <1>5, EventsShow
<1>7. Extends(D, <<>>, b[s], b[from])
  <2>1. b[s] \in Nat /\ b[from] \in Nat /\ b[s] <= b[from] /\ b[snapSeq] <= b[s]
        /\ b[snapSeq] \in Nat
    <3>1. snapSeq \in 0..last
      BY DEF HistoryOf
    <3>2. QED
      BY <1>3, <3>1, EndsInOrder
  <2>2. (b[s] + 1)..b[from] \subseteq D
    <3>1. CASE s > last - k
      <4>1. from = s
        BY <3>1
      <4> HIDE DEF from
      <4>2. QED
        BY <2>1, <4>1
    <3>2. CASE ~(s > last - k)
      <4>1. from = last - k
        BY <3>2
      <4>2. (b[snapSeq] + 1)..b[from] \subseteq D
        BY <4>1 DEF HistoryOf
      <4> HIDE DEF from
      <4>3. QED
        BY <2>1, <4>2
    <3>3. QED
      BY <3>1, <3>2
  <2> HIDE DEF from
  <2>3. QED
    BY <2>1, <2>2, ExtendsNone
<1>8. Extends(D, <<>> \o DataOf(r), b[s], u)
  <2>1. Extends(D, DataOf(r), b[from], u)
    <3>1. {} \subseteq D
      OBVIOUS
    <3> HIDE DEF from
    <3>2. QED
      BY <1>6, <3>1, ExtendsMore
  <2> HIDE DEF from
  <2>2. QED
    BY <1>7, <2>1, ExtendsConcat
<1>9. <<>> \o DataOf(r) = DataOf(r)
  BY <1>6, ConcatEmptySeq DEF Data
<1>10. ASSUME DataOf(r) = <<>>, s # last
       PROVE  FALSE
  <2>1. d # <<>>
    <3>1. last > snapSeq
      BY <1>3, <1>10, EndsInOrder
    <3>2. QED
      BY <3>1 DEF HistoryOf
  <2>2. k # 0
    BY <1>1, <2>1 DEF Events
  <2>3. from < last
    BY <1>3, <1>10, <2>2
  <2>4. from \in 0..last /\ last \in 0..last
    BY <1>3
  <2> HIDE DEF from
  <2>5. b[from] < b[last]
    BY <2>3, <2>4 DEF HistoryOf
  <2>6. u \in (b[from] + 1)..u
    <3>1. b[from] \in Nat /\ u \in Nat /\ b[last] = u
      BY <1>1, <2>4, EndsInOrder
    <3>2. QED
      BY <2>5, <3>1
  <2>7. \E i \in 1..Len(DataOf(r)) : DataOf(r)[i] = u
    <3>1. u \notin {}
      OBVIOUS
    <3>2. QED
      BY <1>6, <2>6, <3>1 DEF Extends
  <2>8. Len(DataOf(r)) = 0
    BY <1>10
  <2>9. QED
    BY <2>7, <2>8
<1>11. QED
  BY <1>6, <1>8, <1>9, <1>10 DEF r

\* A snapshot that reaches the event label takes the place of the events up to it.
LEMMA SnapshotSaved ==
  ASSUME NEW b, NEW snap, NEW snapSeq, NEW d, NEW last, NEW u, NEW D,
         HistoryOf(b, snap, snapSeq, d, last, u, D),
         NEW label \in snapSeq..last, NEW data \in Data, Extends(D, data, 0, b[label])
  PROVE  HistoryOf(b, data, label, Later(d, label), last, u, D)
<1> DEFINE k == Len(d)
           r == Later(d, label)
           from == IF label > last - k THEN label ELSE last - k
<1>1. Events(d, b, last)
  BY DEF HistoryOf
<1>2. /\ last \in Nat /\ k \in Nat /\ last - k \in 0..last /\ from \in 0..last
      /\ label \in Nat /\ label <= last /\ snapSeq \in Nat /\ snapSeq <= label
      /\ snapSeq \in 0..last /\ label \in 0..last
  BY EndsInOrder
<1>3. PICK j \in 0..k : r = SubSeq(d, j + 1, k) /\ last - k + j = from
  BY <1>1, <1>2, LaterIs
<1>4. Events(r, b, last) /\ Len(r) = k - j
  BY <1>1, <1>3, EventsPart
<1> HIDE DEF r
<1>5. last - Len(r) = from /\ Len(r) = last - from
  <2> HIDE DEF from
  <2>1. QED
    BY <1>2, <1>3, <1>4
<1>6. Len(r) <= last - label
  BY <1>2, <1>5
<1>7. ASSUME last > label
      PROVE  r # <<>>
  <2>1. d # <<>>
    BY <1>2, <1>7 DEF HistoryOf
  <2>2. k # 0
    BY <1>1, <2>1 DEF Events
  <2>3. Len(r) # 0
    BY <1>2, <1>5, <1>7, <2>2
  <2>4. QED
    BY <2>3
<1>8. (b[label] + 1)..b[last - Len(r)] \subseteq D
  <2>1. b[label] \in Nat /\ b[snapSeq] \in Nat /\ b[snapSeq] <= b[label] /\ b[from] \in Nat
    BY <1>2, EndsInOrder
  <2>2. CASE label > last - k
    <3>1. from = label
      BY <2>2
    <3> HIDE DEF from
    <3>2. QED
      BY <1>5, <2>1, <3>1
  <2>3. CASE ~(label > last - k)
    <3>1. from = last - k
      BY <2>3
    <3>2. (b[snapSeq] + 1)..b[from] \subseteq D
      BY <3>1 DEF HistoryOf
    <3> HIDE DEF from
    <3>3. QED
      BY <1>5, <2>1, <3>2
  <2>4. QED
    BY <2>2, <2>3
<1>9. HistoryOf(b, data, label, r, last, u, D)
  BY <1>2, <1>4, <1>6, <1>7, <1>8 DEF HistoryOf
<1>10. QED
  BY <1>9 DEF r

\* How many of the oldest events make room.
Makes(all, kept) ==
    /\ kept \in 0..Len(all)
    /\ Size(SubSeq(all, kept + 1, Len(all))) <= DeltaMax
    /\ \A j \in 0..kept - 1 : Size(SubSeq(all, j + 1, Len(all))) > DeltaMax

\* The choice of AppendDelta is there, and spares the newest event.
LEMMA RoomIsMade ==
  ASSUME NEW all, NEW b, NEW last, Events(all, b, last), all # <<>>,
         Len(all[Len(all)].data) <= DeltaMax
  PROVE  /\ \E kept \in 0..Len(all) : Makes(all, kept)
         /\ \A kept \in 0..Len(all) : Makes(all, kept) => kept < Len(all)
<1> DEFINE n == Len(all)
           size(j) == Size(SubSeq(all, j + 1, n))
           T == {j \in 0..n : size(j) <= DeltaMax}
<1>1. all \in Seq(Event) /\ n \in Nat \ {0}
  BY DEF Events
<1>2. ASSUME NEW j \in 0..n
      PROVE  size(j) \in Nat
  <2>1. Events(SubSeq(all, j + 1, n), b, last)
    BY <1>2, EventsPart
  <2>2. DataOf(SubSeq(all, j + 1, n)) \in Data
    BY <2>1, EventsShow
  <2>3. QED
    BY <2>2, DataType DEF Size
<1>3. n - 1 \in T
  <2>1. n - 1 \in 0..n /\ (n - 1) + 1 = n
    BY <1>1
  <2> DEFINE e == all[n]
             s == SubSeq(all, n, n)
  <2>2. e \in Event
    BY <1>1
  <2>3. s = <<e>>
    <3>1. s \in Seq(Event) /\ Len(s) = 1 /\ s[1] = e
      <4>1. \A i \in n..n : all[i] \in Event
        BY <1>1
      <4>2. n \in Int /\ n <= n /\ n - n + 1 = 1 /\ n + 1 - 1 = n
        BY <1>1
      <4>3. /\ s \in Seq(Event) /\ Len(s) = n - n + 1
            /\ \A i \in 1..n - n + 1 : s[i] = all[n + i - 1]
        BY <4>1, <4>2, SubSeqProperties
      <4> HIDE DEF s
      <4>4. QED
        BY <4>2, <4>3
    <3> HIDE DEF s, e
    <3>2. QED
      BY <3>1
  <2>4. DOMAIN <<e>> = 1..1 /\ <<e>>[1] = e
    OBVIOUS
  <2>5. DataOf(<<e>>) = FlattenSeq([i \in 1..1 |-> e.data])
    <3> DEFINE f == [i \in DOMAIN <<e>> |-> <<e>>[i].data]
               g == [i \in 1..1 |-> e.data]
    <3>1. f = g
      <4> HIDE DEF e
      <4>1. QED
        BY <2>4
    <3> HIDE DEF f, g
    <3>2. FlattenSeq(f) = FlattenSeq(g)
      BY <3>1
    <3>3. QED
      BY <3>2 DEF DataOf, f, g
  <2>6. FlattenSeq([i \in 1..1 |-> e.data]) = e.data
    <3> DEFINE q == [i \in 1..1 |-> e.data]
    <3>1. e.data \in Data
      BY <2>2 DEF Event
    <3>2. q \in Seq(Data) /\ q # <<>> /\ Len(q) = 1 /\ q[1] = e.data
      <4> HIDE DEF e
      <4>1. QED
        BY <3>1
    <3> HIDE DEF q
    <3>3. PICK f : /\ f = [i \in 1..Len(q) |-> IF i = 1 THEN q[i] ELSE f[i-1] \o q[i]]
                   /\ FlattenSeq(q) = f[Len(q)]
      BY <3>2, FlattenSeqIs, Zenon
    <3>4. f[1] = q[1]
      <4> DEFINE step(i) == IF i = 1 THEN q[i] ELSE f[i-1] \o q[i]
      <4>1. f = [i \in 1..1 |-> step(i)] /\ step(1) = q[1]
        BY <3>2, <3>3
      <4> HIDE DEF step
      <4>2. f[1] = step(1)
        BY <4>1
      <4>3. QED
        BY <4>1, <4>2
    <3>5. QED
      BY <3>2, <3>3, <3>4 DEF q
  <2>7. size(n - 1) = Len(e.data)
    <3> HIDE DEF s, e
    <3>1. DataOf(s) = e.data
      BY <2>3, <2>5, <2>6
    <3>2. SubSeq(all, (n - 1) + 1, n) = s
      BY <2>1 DEF s
    <3>3. QED
      BY <3>1, <3>2 DEF Size
  <2>8. QED
    BY <2>1, <2>7
<1> HIDE DEF size
<1>4. T \subseteq Nat /\ T # {}
  BY <1>1, <1>3
<1>5. PICK kept \in T : \A j \in T : kept <= j
  <2> HIDE DEF T
  <2>1. QED
    BY <1>4, Least
<1>6. \A j \in 0..kept - 1 : size(j) > DeltaMax
  <2>1. SUFFICES ASSUME NEW j \in 0..kept - 1, ~(size(j) > DeltaMax)
                 PROVE  FALSE
    OBVIOUS
  <2>2. kept \in 0..n /\ j \in 0..n /\ j < kept
    BY <1>1
  <2>3. size(j) <= DeltaMax
    BY <1>2, <2>1, <2>2, ConstantTypes
  <2>4. QED
    BY <1>5, <2>2, <2>3
<1>7. Makes(all, kept)
  BY <1>5, <1>6 DEF Makes, size
<1>8. ASSUME NEW x \in 0..n, Makes(all, x)
      PROVE  x < n
  <2>1. SUFFICES ASSUME x = n
                 PROVE  FALSE
    BY <1>1
  <2>2. n - 1 \in 0..x - 1
    BY <1>1, <2>1
  <2>3. size(n - 1) > DeltaMax
    BY <1>8, <2>2 DEF Makes, size
  <2>4. QED
    BY <1>1, <1>2, <1>3, <2>3, ConstantTypes
<1>9. QED
  BY <1>5, <1>7, <1>8

\* The room that AppendDelta makes for a new event spares that event.
LEMMA RoomForEvent ==
  ASSUME NEW all, NEW b, NEW last, Events(all, b, last), all # <<>>,
         Len(all[Len(all)].data) <= DeltaMax
  PROVE  (CHOOSE k \in 0..Len(all) :
              /\ Size(SubSeq(all, k + 1, Len(all))) <= DeltaMax
              /\ \A j \in 0..k - 1 : Size(SubSeq(all, j + 1, Len(all))) > DeltaMax)
         \in 0..Len(all) - 1
<1> DEFINE n == Len(all)
           P(k) == /\ Size(SubSeq(all, k + 1, n)) <= DeltaMax
                   /\ \A j \in 0..k - 1 : Size(SubSeq(all, j + 1, n)) > DeltaMax
           kept == CHOOSE k \in 0..n : P(k)
<1>1. \E k \in 0..n : P(k)
  BY RoomIsMade DEF Makes
<1>2. kept \in 0..n /\ P(kept)
  <2> HIDE DEF P, n
  <2>1. QED
    BY <1>1, Zenon
<1>3. n \in Nat
  BY DEF Events
<1> HIDE DEF kept
<1>4. Makes(all, kept)
  BY <1>2 DEF Makes
<1>5. kept < n
  BY <1>2, <1>4, RoomIsMade
<1>6. kept \in 0..n - 1
  BY <1>2, <1>3, <1>5
<1>7. QED
  BY <1>6 DEF kept

\* A new event, and the oldest that make room for it.
LEMMA EventComes ==
  ASSUME NEW b, NEW snap, NEW snapSeq, NEW d, NEW last, NEW u, NEW D,
         HistoryOf(b, snap, snapSeq, d, last, u, D),
         NEW g \in Nat \ {0},
         NEW c, c[last + 1] = u + g, \A i \in 0..last : c[i] = b[i],
         NEW all, Events(all, c, last + 1), Len(all) = Len(d) + 1,
         NEW kept \in 0..Len(d),
         NEW E, D \subseteq E, ToSet(DataOf(SubSeq(all, 1, kept))) \subseteq E
  PROVE  HistoryOf(c, snap, snapSeq, SubSeq(all, kept + 1, Len(all)), last + 1, u + g, E)
<1> DEFINE n == Len(all)
           r == SubSeq(all, kept + 1, n)
           f == SubSeq(all, 1, kept)
<1>1. /\ last \in Nat /\ u \in Nat /\ Len(d) \in Nat /\ snapSeq \in 0..last
      /\ Len(d) <= last - snapSeq /\ Len(d) <= last /\ b[last] = u /\ d \in Seq(Event)
  BY EndsInOrder DEF HistoryOf, Events
<1>2. c[last + 1] = u + g /\ \A i \in 0..last : c[i] = b[i]
  OBVIOUS
<1>3. n = Len(d) + 1
  OBVIOUS
<1>4. kept \in 0..n /\ kept < n /\ Events(all, c, last + 1)
  BY <1>1
<1>5. /\ Events(r, c, last + 1) /\ Len(r) = n - kept
      /\ Events(f, c, (last + 1) - n + kept) /\ Len(f) = kept
  <2> DEFINE l == last + 1
  <2>1. Events(all, c, l) /\ kept \in 0..Len(all)
    BY <1>4
  <2> HIDE DEF l
  <2>2. /\ Events(SubSeq(all, kept + 1, Len(all)), c, l)
        /\ Len(SubSeq(all, kept + 1, Len(all))) = Len(all) - kept
        /\ Events(SubSeq(all, 1, kept), c, l - Len(all) + kept)
        /\ Len(SubSeq(all, 1, kept)) = kept
    BY <2>1, EventsPart, Zenon
  <2>3. QED
    BY <2>2, Zenon DEF l
<1>6. kept \in Nat /\ n \in Nat /\ (last + 1) - n + kept \in 0..last
      /\ (last + 1) - Len(r) = (last + 1) - n + kept
      /\ (last + 1) - n = last - Len(d)
  <2> HIDE DEF r, n
  <2>1. QED
    BY <1>1, <1>3, <1>4, <1>5
<1>7. /\ DataOf(f) \in Data
       /\ Extends({}, DataOf(f), c[last - Len(d)], c[(last + 1) - n + kept])
  <2> DEFINE x == (last + 1) - n + kept
  <2>1. x - Len(f) = last - Len(d)
    <3> HIDE DEF f, n, r
    <3>1. QED
      BY <1>1, <1>3, <1>5, <1>6
  <2>2. Events(f, c, x)
    BY <1>5
  <2> HIDE DEF f, x
  <2>3. DataOf(f) \in Data /\ Extends({}, DataOf(f), c[x - Len(f)], c[x])
    BY <2>2, EventsShow
  <2>4. QED
    BY <2>1, <2>3 DEF x
<1> HIDE DEF r, f, n
<1>8. \A i, j \in 0..last + 1 : i < j => c[i] < c[j]
  <2>1. SUFFICES ASSUME NEW i \in 0..last + 1, NEW j \in 0..last + 1, i < j
                 PROVE  c[i] < c[j]
    OBVIOUS
  <2>2. i \in 0..last /\ c[i] = b[i] /\ b[i] \in Nat /\ b[i] <= u
    BY <1>1, <1>2, <2>1, EndsInOrder
  <2>3. CASE j \in 0..last
    <3>1. b[i] < b[j]
      BY <2>1, <2>2, <2>3 DEF HistoryOf
    <3>2. QED
      BY <1>2, <2>2, <2>3, <3>1
  <2>4. CASE j = last + 1
    BY <1>1, <1>2, <2>2, <2>4
  <2>5. QED
    BY <1>1, <2>3, <2>4
<1>9. (c[snapSeq] + 1)..c[(last + 1) - Len(r)] \subseteq E
  <2> DEFINE x == c[last - Len(d)]
             y == c[(last + 1) - Len(r)]
             z == c[snapSeq]
  <2>1. x \in Nat /\ y \in Nat /\ z \in Nat
    <3>1. last - Len(d) \in 0..last /\ (last + 1) - Len(r) \in 0..last
      BY <1>1, <1>6
    <3>2. \A i \in 0..last : c[i] \in Nat
      BY <1>2, EndsInOrder
    <3>3. QED
      BY <1>1, <3>1, <3>2
  <2>2. (z + 1)..x \subseteq D
    <3>1. (b[snapSeq] + 1)..b[last - Len(d)] \subseteq D
      BY DEF HistoryOf
    <3>2. last - Len(d) \in 0..last
      BY <1>1
    <3>3. QED
      BY <1>1, <1>2, <3>1, <3>2
  <2>3. (x + 1)..y \subseteq ToSet(DataOf(f))
    <3>1. Extends({}, DataOf(f), x, y)
      BY <1>6, <1>7
    <3> HIDE DEF x, y
    <3>2. ASSUME NEW v \in (x + 1)..y
          PROVE  v \in ToSet(DataOf(f))
      <4>1. \E i \in 1..Len(DataOf(f)) : DataOf(f)[i] = v
        BY <3>1, <3>2 DEF Extends
      <4>2. DOMAIN DataOf(f) = 1..Len(DataOf(f))
        BY <1>7 DEF Data
      <4>3. QED
        BY <4>1, <4>2 DEF ToSet
    <3>3. QED
      BY <3>2
  <2> HIDE DEF x, y
  <2>4. (z + 1)..y \subseteq D \cup ToSet(DataOf(f))
    <3> HIDE DEF z
    <3>1. QED
      BY <2>1, <2>2, <2>3
  <2>5. D \subseteq E /\ ToSet(DataOf(f)) \subseteq E
    BY DEF f
  <2>6. QED
    BY <2>4, <2>5 DEF y
<1>10. r # <<>> /\ Len(r) <= (last + 1) - snapSeq
  <2>1. Len(r) # 0 /\ Len(r) <= (last + 1) - snapSeq
    BY <1>1, <1>3, <1>4, <1>5, <1>6
  <2>2. QED
    BY <2>1
<1>11. snap \in Data /\ Extends(E, snap, 0, c[snapSeq])
  <2>1. D \subseteq E /\ c[snapSeq] = b[snapSeq]
    BY <1>1, <1>2
  <2>2. Extends(D, snap, 0, b[snapSeq]) /\ snap \in Data
    BY DEF HistoryOf
  <2>3. Extends(E, snap, 0, b[snapSeq])
    BY <2>1, <2>2, ExtendsMore
  <2>4. QED
    BY <2>1, <2>2, <2>3
<1>12. HistoryOf(c, snap, snapSeq, r, last + 1, u + g, E)
  <2>1. c[0] = 0
    <3>1. 0 \in 0..last /\ b[0] = 0
      BY <1>1 DEF HistoryOf
    <3>2. QED
      BY <1>2, <3>1
  <2>2. snapSeq \in 0..last + 1
    BY <1>1
  <2>3. QED
    BY <1>2, <1>5, <1>8, <1>9, <1>10, <1>11, <2>1, <2>2 DEF HistoryOf
<1>13. QED
  BY <1>12 DEF r, n

-----------------------------------------------------------------------------
(* What the operators of the model yield.                                  *)

\* Put together, the data of chunks or of events is output.
LEMMA DataOfType ==
  ASSUME NEW S, NEW q \in Seq(S), \A x \in S : x.data \in Data
  PROVE  DataOf(q) \in Data
<1> DEFINE s == [i \in DOMAIN q |-> q[i].data]
<1>1. DOMAIN q = 1..Len(q) /\ Len(q) \in Nat /\ \A i \in 1..Len(q) : q[i].data \in Data
  OBVIOUS
<1>2. s \in Seq(Data)
  BY <1>1
<1> HIDE DEF s
<1>3. FlattenSeq(s) \in Data
  BY <1>2, FlattenSeqType DEF Data
<1>4. QED
  BY <1>3 DEF DataOf, s

\* The history from sequences of the right kind.
LEMMA HistoryType ==
  ASSUME NEW snap \in Data, NEW d \in Seq(Event), NEW s
  PROVE  DataOf(d) \in Data /\ snap \o DataOf(d) \in Data
         /\ Later(d, s) \in Seq(Event) /\ DataOf(Later(d, s)) \in Data
<1> DEFINE q == [i \in DOMAIN d |-> IF d[i].sequence > s THEN <<d[i]>> ELSE <<>>]
<1>1. \A x \in Event : x.data \in Data
  BY DEF Event
<1>2. DataOf(d) \in Data
  BY <1>1, DataOfType
<1>3. snap \o DataOf(d) \in Data
  BY <1>2, ConcatProperties DEF Data
<1>4. q \in Seq(Seq(Event))
  <2>1. DOMAIN d = 1..Len(d) /\ Len(d) \in Nat /\ \A i \in 1..Len(d) : d[i] \in Event
    OBVIOUS
  <2>2. \A i \in 1..Len(d) : (IF d[i].sequence > s THEN <<d[i]>> ELSE <<>>) \in Seq(Event)
    BY <2>1
  <2>3. QED
    BY <2>1, <2>2
<1> HIDE DEF q
<1>5. FlattenSeq(q) \in Seq(Event)
  BY <1>4, FlattenSeqType
<1>6. Later(d, s) \in Seq(Event)
  BY <1>5 DEF Later, q
<1>7. DataOf(Later(d, s)) \in Data
  BY <1>1, <1>6, DataOfType
<1>8. QED
  BY <1>2, <1>3, <1>6, <1>7

\* There is room when all events are given up.
LEMMA RoomType ==
  ASSUME NEW all \in Seq(Event)
  PROVE  (CHOOSE k \in 0..Len(all) :
              /\ Size(SubSeq(all, k + 1, Len(all))) <= DeltaMax
              /\ \A j \in 0..k - 1 : Size(SubSeq(all, j + 1, Len(all))) > DeltaMax)
         \in 0..Len(all)
<1> DEFINE n == Len(all)
           P(k) == /\ Size(SubSeq(all, k + 1, n)) <= DeltaMax
                   /\ \A j \in 0..k - 1 : Size(SubSeq(all, j + 1, n)) > DeltaMax
           T == {j \in 0..n : Size(SubSeq(all, j + 1, n)) <= DeltaMax}
<1>1. n \in Nat /\ DeltaMax \in Nat
  BY ConstantTypes
<1>2. ASSUME NEW j \in 0..n
      PROVE  Size(SubSeq(all, j + 1, n)) \in Nat
  <2>1. \A x \in Event : x.data \in Data
    BY DEF Event
  <2>2. SubSeq(all, j + 1, n) \in Seq(Event)
    BY <1>2
  <2>3. DataOf(SubSeq(all, j + 1, n)) \in Data
    BY <2>1, <2>2, DataOfType
  <2>4. QED
    BY <2>3, DataType DEF Size
<1>3. n \in T
  <2>1. SubSeq(all, n + 1, n) = <<>>
    BY <1>1
  <2>2. DataOf(<<>>) = <<>>
    <3>1. [i \in DOMAIN <<>> |-> <<>>[i].data] = <<>>
      OBVIOUS
    <3>2. FlattenSeq(<<>>) = <<>>
      BY DEF FlattenSeq
    <3>3. QED
      BY <3>1, <3>2 DEF DataOf
  <2>3. Size(SubSeq(all, n + 1, n)) = 0
    <3>1. Size(SubSeq(all, n + 1, n)) = Len(DataOf(<<>>))
      <4> DEFINE e == SubSeq(all, n + 1, n)
      <4>1. e = <<>>
        BY <2>1
      <4> HIDE DEF e
      <4>2. Size(e) = Len(DataOf(<<>>))
        BY <4>1 DEF Size
      <4>3. QED
        BY <4>2 DEF e
    <3>2. QED
      BY <2>2, <3>1
  <2>4. n \in 0..n /\ 0 <= DeltaMax
    BY <1>1
  <2> HIDE DEF n
  <2>5. QED
    BY <2>3, <2>4
<1>4. PICK k \in T : \A j \in T : k <= j
  <2>1. T \subseteq Nat /\ T # {}
    BY <1>1, <1>3
  <2> HIDE DEF T
  <2>2. QED
    BY <2>1, Least
<1>5. P(k)
  <2>1. \A j \in 0..k - 1 : Size(SubSeq(all, j + 1, n)) > DeltaMax
    <3>1. SUFFICES ASSUME NEW j \in 0..k - 1, ~(Size(SubSeq(all, j + 1, n)) > DeltaMax)
                   PROVE  FALSE
      OBVIOUS
    <3>2. k \in 0..n /\ j \in 0..n /\ j < k
      BY <1>1
    <3>3. Size(SubSeq(all, j + 1, n)) <= DeltaMax
      BY <1>1, <1>2, <3>1, <3>2
    <3>4. QED
      BY <1>4, <3>2, <3>3
  <2>2. QED
    BY <2>1
<1>6. k \in 0..n
  OBVIOUS
<1> HIDE DEF P, n, T
<1>7. (CHOOSE x \in 0..n : P(x)) \in 0..n
  BY <1>5, <1>6, Zenon
<1>8. QED
  BY <1>7 DEF P, n

\* The queue after new chunks are queued, whole or replaced by a replay.
Requeued(q, data, through, reset, replay) ==
    LET longer == (IF reset THEN <<>> ELSE q) \o Chunks(data, through, reset)
    IN  IF Size(longer) > PendingMax THEN Chunks(replay, through, TRUE) ELSE longer

\* Every chunk of r carries no number, or through, or one that q carries.
Carries(r, q, through) ==
    \A i \in 1..Len(r) : r[i].through \in {0, through}
                            \/ \E j \in 1..Len(q) : r[i].through = q[j].through

\* The last chunk of r carries through, unless nothing came to q.
EndsWith(r, q, data, through, reset) ==
    IF r = <<>> THEN data = <<>> /\ q = <<>> /\ ~reset
    ELSE r[Len(r)].through = through \/ (r = q /\ data = <<>> /\ ~reset)

\* What is queued anew is chunks that reach the sequence number it is queued for.
LEMMA RequeuedType ==
  ASSUME NEW q \in Seq(Chunk), NEW data \in Data, NEW through \in 0..MaxUnits,
         NEW reset \in BOOLEAN, NEW replay \in Data,
         NEW r, r = Requeued(q, data, through, reset, replay)
  PROVE  r \in Seq(Chunk) /\ Carries(r, q, through) /\ EndsWith(r, q, data, through, reset)
<1> USE DEF Carries, EndsWith
<1> DEFINE c == Chunks(data, through, reset)
           p == IF reset THEN <<>> ELSE q
           longer == p \o c
           w == Chunks(replay, through, TRUE)
<1>1. /\ c \in Seq(Chunk) /\ (c = <<>> <=> data = <<>> /\ ~reset)
      /\ (c # <<>> => c[Len(c)].through = through)
      /\ \A i \in 1..Len(c) : c[i].through \in {0, through}
  BY ChunksType
<1>2. /\ w \in Seq(Chunk) /\ w # <<>> /\ w[Len(w)].through = through
      /\ \A i \in 1..Len(w) : w[i].through \in {0, through}
  BY ChunksType
<1>3. p \in Seq(Chunk) /\ (p = <<>> \/ p = q) /\ (reset => p = <<>>) /\ (~reset => p = q)
  OBVIOUS
<1> HIDE DEF c, w, p
<1>4. CASE Size(longer) > PendingMax
  <2>1. r = w
    BY <1>4 DEF Requeued, longer, c, w, p
  <2>2. QED
    BY <1>2, <2>1
<1>5. CASE ~(Size(longer) > PendingMax)
  <2>1. r = p \o c
    BY <1>5 DEF Requeued, longer, c, w, p
  <2>2. /\ r \in Seq(Chunk) /\ Len(r) = Len(p) + Len(c)
        /\ \A i \in 1..Len(p) + Len(c) : r[i] = IF i <= Len(p) THEN p[i] ELSE c[i - Len(p)]
    BY <1>1, <1>3, <2>1
  <2>3. ASSUME NEW i \in 1..Len(r)
        PROVE  r[i].through \in {0, through} \/ \E j \in 1..Len(q) : r[i].through = q[j].through
    <3>1. CASE i <= Len(p)
      <4>1. i \in 1..Len(p) /\ r[i] = p[i] /\ p = q
        BY <1>3, <2>2, <3>1
      <4>2. QED
        BY <4>1
    <3>2. CASE ~(i <= Len(p))
      <4>1. i - Len(p) \in 1..Len(c) /\ r[i] = c[i - Len(p)]
        BY <1>1, <1>3, <2>2, <3>2
      <4>2. QED
        BY <1>1, <4>1
    <3>3. QED
      BY <3>1, <3>2
  <2>4. CASE c = <<>>
    <3>1. data = <<>> /\ ~reset /\ p = q
      BY <1>1, <1>3, <2>4
    <3>2. r = q
      BY <1>3, <2>1, <2>4, <3>1
    <3>3. QED
      BY <2>2, <2>3, <3>1, <3>2
  <2>5. CASE c # <<>>
    <3>1. Len(c) \in Nat \ {0} /\ Len(p) \in Nat
      BY <1>1, <1>3, <2>5
    <3>2. r[Len(r)] = c[Len(c)] /\ r # <<>>
      <4>1. Len(r) \in 1..Len(p) + Len(c) /\ ~(Len(r) <= Len(p)) /\ Len(r) - Len(p) = Len(c)
        BY <2>2, <3>1
      <4>2. QED
        BY <2>2, <4>1
    <3>3. QED
      BY <1>1, <2>2, <2>3, <2>5, <3>2
  <2>6. QED
    BY <2>4, <2>5
<1>6. QED
  BY <1>4, <1>5

\* The scripts, and what they have.
LEMMA ScriptType ==
  /\ \A v \in BOOLEAN : [kind |-> "setActive", value |-> v] \in Script
  /\ \A r \in Requesters, i \in Nat, l \in 0..MaxUnits :
         [kind |-> "snapshot", for |-> r, id |-> i, label |-> l] \in Script
  /\ \A i \in Nat, d \in Data, b \in BOOLEAN :
         [kind |-> "write", id |-> i, data |-> d, reset |-> b] \in Script
  /\ \A t \in Script :
         /\ t.kind \in {"setActive", "snapshot", "write"}
         /\ t.kind = "setActive" => t.value \in BOOLEAN
         /\ t.kind = "snapshot" => t.for \in Requesters /\ t.id \in Nat /\ t.label \in 0..MaxUnits
         /\ t.kind = "write" => t.id \in Nat /\ t.data \in Data /\ t.reset \in BOOLEAN
BY DEF Script

\* The identifiers of scripts are finitely many.
LEMMA IdsFinite ==
  ASSUME NEW q \in Seq(Script)
  PROVE  IsFiniteSet({q[i].id : i \in {j \in DOMAIN q : q[j].kind # "setActive"}})
<1> DEFINE J == {j \in DOMAIN q : q[j].kind # "setActive"}
           T == {q[i].id : i \in J}
           f == [i \in J |-> q[i].id]
<1>1. IsFiniteSet(J)
  <2>1. Len(q) \in Nat /\ DOMAIN q = 1..Len(q)
    OBVIOUS
  <2>2. IsFiniteSet(1..Len(q))
    BY <2>1, FS_Interval
  <2>3. QED
    BY <2>1, <2>2, FS_Subset
<1>2. f \in Surjection(J, T)
  BY DEF Surjection
<1> HIDE DEF J, T, f
<1>3. QED
  BY <1>1, <1>2, FS_Surjection DEF J, T

\* A new number is positive, and that of no script and of no wait.
LEMMA FreshIdIs ==
  ASSUME scripts \in Seq(Script), sending \in Seq(Script), chain \in Seq(Script)
  PROVE  /\ FreshId \in Nat \ {0} /\ FreshId # awaited.id
         /\ \A r \in Requesters : FreshId # request[r].id
         /\ \A i \in 1..Len(scripts) : scripts[i].kind # "setActive" => scripts[i].id # FreshId
         /\ \A i \in 1..Len(sending) : sending[i].kind # "setActive" => sending[i].id # FreshId
         /\ \A i \in 1..Len(chain) : chain[i].kind # "setActive" => chain[i].id # FreshId
<1> DEFINE ids(q) == {q[i].id : i \in {j \in DOMAIN q : q[j].kind # "setActive"}}
           asked == {request[r].id : r \in Requesters}
           used == ids(scripts) \cup ids(sending) \cup ids(chain) \cup {awaited.id} \cup asked
           n == Cardinality(used)
<1>1. IsFiniteSet(asked)
  <2>1. asked = {request["suspend"].id} \cup {request["checkpoint"].id}
    BY DEF Requesters
  <2>2. \A x : IsFiniteSet({x})
    BY FS_Singleton
  <2> HIDE DEF asked
  <2>3. QED
    BY <2>1, <2>2, FS_Union
<1>2. IsFiniteSet(ids(scripts)) /\ IsFiniteSet(ids(sending)) /\ IsFiniteSet(ids(chain))
  BY IdsFinite
<1>3. IsFiniteSet({awaited.id})
  BY FS_Singleton
<1>4. IsFiniteSet(used)
  <2> HIDE DEF ids, asked
  <2>1. IsFiniteSet(ids(scripts) \cup ids(sending))
    BY <1>2, FS_Union
  <2>2. IsFiniteSet(ids(scripts) \cup ids(sending) \cup ids(chain))
    BY <1>2, <2>1, FS_Union
  <2>3. IsFiniteSet(ids(scripts) \cup ids(sending) \cup ids(chain) \cup {awaited.id})
    BY <1>3, <2>2, FS_Union
  <2>4. QED
    BY <1>1, <2>3, FS_Union
<1>5. n \in Nat
  BY <1>4, FS_CardinalityType
<1>6. \E i \in 1..n + 1 : i \notin used
  <2>1. SUFFICES ASSUME \A i \in 1..n + 1 : i \in used
                 PROVE  FALSE
    OBVIOUS
  <2> HIDE DEF used
  <2>2. 1..n + 1 \in SUBSET used
    BY <2>1
  <2>3. Cardinality(1..n + 1) <= n
    BY <1>4, <2>2, FS_Subset
  <2>4. Cardinality(1..n + 1) = n + 1
    BY <1>5, FS_Interval
  <2>5. QED
    BY <1>5, <2>3, <2>4
<1>7. FreshId \in 1..n + 1 /\ FreshId \notin used
  <2>1. FreshId = CHOOSE i \in 1..n + 1 : i \notin used
    BY DEF FreshId
  <2> HIDE DEF used, n
  <2>2. QED
    BY <1>6, <2>1, Zenon
<1>8. FreshId \in Nat \ {0}
  BY <1>5, <1>7
<1>9. \A r \in Requesters : FreshId # request[r].id
  BY <1>7
<1>10. FreshId # awaited.id
  BY <1>7
<1>11. ASSUME NEW q \in Seq(Script), ids(q) \subseteq used, NEW i \in 1..Len(q),
              q[i].kind # "setActive"
       PROVE  q[i].id # FreshId
  <2>1. i \in DOMAIN q
    BY <1>11
  <2>2. q[i].id \in ids(q)
    BY <1>11, <2>1
  <2> HIDE DEF ids
  <2>3. QED
    BY <1>7, <1>11, <2>2
<1>12. ids(scripts) \subseteq used /\ ids(sending) \subseteq used /\ ids(chain) \subseteq used
  OBVIOUS
<1> HIDE DEF ids, used
<1>13. QED
  BY <1>8, <1>9, <1>10, <1>11, <1>12

-----------------------------------------------------------------------------
(***************************************************************************)
(* The types, with the bounds that keep them: the output is counted by     *)
(* units, every event has a unit of its own, and nothing is queued, sent   *)
(* or asked for beyond the last event.                                     *)
(***************************************************************************)
SessionTyped ==
    /\ gathered \in 0..GatherMax /\ units \in Nat /\ units + gathered <= MaxUnits
    /\ sequence \in 0..units
    /\ snapshot \in Data /\ snapshotSeq \in 0..sequence
    /\ delta \in Seq(Event) /\ truncated \in BOOLEAN /\ dropped \subseteq 1..MaxUnits

QueueTyped ==
    /\ pending \in Seq(Chunk) /\ \A i \in 1..Len(pending) : pending[i].through <= lastQueued
    /\ lastQueued \in 0..sequence /\ paused \in BOOLEAN

LifeTyped ==
    /\ {visible, mounted, ready, active, attached, resumeRequested} \subseteq BOOLEAN
    /\ suspends \in 0..MaxSuspends /\ mounts \in 0..MaxMounts

DrainTyped ==
    /\ scripts \in Seq(Script) /\ sending \in Seq(Script) /\ Len(sending) <= 1
    /\ awaited \in [id : Nat, through : 0..MaxUnits] /\ awaited.through <= lastQueued
    /\ lastSent \in 0..lastQueued

PageTyped ==
    /\ chain \in Seq(Script) /\ offset \in Nat /\ display \in Data
    /\ {frame, pageActive} \subseteq BOOLEAN

WaitsTyped ==
    /\ fatal \in BOOLEAN
    /\ suspension \in {"no", "drain", "snapshot", "off"}
    /\ checkpoint \in {"no", "timer", "drain", "snapshot"}
    /\ request \in [Requesters -> [id : Nat, label : 0..MaxUnits, answered : BOOLEAN,
                                   data : Data]]
    /\ \A r \in Requesters : request[r].label <= sequence

TypeInv == SessionTyped /\ QueueTyped /\ LifeTyped /\ DrainTyped /\ PageTyped /\ WaitsTyped

\* The types with their bounds are the types of the model.
LEMMA TypeInvTypeOK == TypeInv => TypeOK
<1>1. SUFFICES ASSUME TypeInv PROVE TypeOK
  OBVIOUS
<1>2. /\ gathered \in 0..GatherMax /\ units \in 0..MaxUnits /\ sequence \in 0..MaxUnits
      /\ snapshot \in Data /\ snapshotSeq \in 0..sequence
      /\ delta \in Seq([sequence : 1..MaxUnits, data : Data])
      /\ truncated \in BOOLEAN /\ dropped \subseteq 1..MaxUnits
  BY <1>1, ConstantTypes DEF TypeInv, SessionTyped, Event
<1>3. lastQueued \in 0..sequence /\ lastSent \in 0..sequence
  BY <1>1, <1>2 DEF TypeInv, QueueTyped, DrainTyped
<1>4. QED
  BY <1>1, <1>2, <1>3
     DEF TypeInv, QueueTyped, LifeTyped, DrainTyped, PageTyped, WaitsTyped, TypeOK

\* There are no more events than units.
LEMMA FewEvents ==
  ASSUME NEW g \in Nat, NEW u \in Nat, u + g <= MaxUnits, NEW s \in 0..u
  PROVE  s \in 0..MaxUnits /\ u \in 0..MaxUnits
BY ConstantTypes

\* What is empty has its type.
LEMMA EmptyTypes ==
  /\ <<>> \in Data /\ <<>> \in Seq(Chunk) /\ <<>> \in Seq(Event) /\ <<>> \in Seq(Script)
  /\ NoRequest \in [id : Nat, label : 0..MaxUnits, answered : BOOLEAN, data : Data]
  /\ NoRequest.label = 0 /\ NoRequest.id = 0 /\ ~NoRequest.answered
  /\ None \in [id : Nat, through : 0..MaxUnits] /\ None.through = 0 /\ None.id = 0
<1>1. /\ <<>> \in Data /\ <<>> \in Seq(Chunk) /\ <<>> \in Seq(Event) /\ <<>> \in Seq(Script)
  BY DEF Data
<1>2. 0 \in 0..MaxUnits
  BY ConstantTypes
<1>3. QED
  BY <1>1, <1>2 DEF NoRequest, None

\* What an event does to the delta.
LEMMA AppendDeltaType ==
  ASSUME delta \in Seq(Event), sequence + 1 \in 1..MaxUnits, truncated \in BOOLEAN,
         dropped \subseteq 1..MaxUnits, NEW data \in Data, AppendDelta(data)
  PROVE  delta' \in Seq(Event) /\ truncated' \in BOOLEAN /\ dropped' \subseteq 1..MaxUnits
<1> DEFINE all == Append(delta, [sequence |-> sequence + 1, data |-> data])
           kept == CHOOSE k \in 0..Len(all) :
                       /\ Size(SubSeq(all, k + 1, Len(all))) <= DeltaMax
                       /\ \A j \in 0..k - 1 : Size(SubSeq(all, j + 1, Len(all))) > DeltaMax
           first == SubSeq(all, 1, kept)
<1>1. /\ delta' = SubSeq(all, kept + 1, Len(all))
      /\ truncated' = (truncated \/ kept > 0)
      /\ dropped' = dropped \cup ToSet(DataOf(first))
  BY DEF AppendDelta
<1>2. all \in Seq(Event)
  BY DEF Event
<1> HIDE DEF all
<1>3. kept \in 0..Len(all)
  BY <1>2, RoomType
<1> HIDE DEF kept
<1>4. delta' \in Seq(Event) /\ first \in Seq(Event)
  BY <1>1, <1>2, <1>3
<1>5. ToSet(DataOf(first)) \subseteq 1..MaxUnits
  <2>1. \A x \in Event : x.data \in Data
    BY DEF Event
  <2> HIDE DEF first
  <2>2. DataOf(first) \in Data
    BY <1>4, <2>1, DataOfType
  <2>3. DOMAIN DataOf(first) = 1..Len(DataOf(first))
        /\ \A i \in 1..Len(DataOf(first)) : DataOf(first)[i] \in 1..MaxUnits
    BY <2>2, DataType DEF Data
  <2>4. QED
    BY <2>3 DEF ToSet
<1>6. QED
  BY <1>1, <1>4, <1>5

\* What is queued.
LEMMA QueueOutputType ==
  ASSUME NEW data \in Data, NEW through \in 0..MaxUnits, NEW reset \in BOOLEAN,
         NEW replay \in Data, QueueOutput(data, through, reset, replay),
         pending \in Seq(Chunk), \A i \in 1..Len(pending) : pending[i].through <= through,
         paused \in BOOLEAN
  PROVE  /\ pending' \in Seq(Chunk) /\ \A i \in 1..Len(pending') : pending'[i].through <= through
         /\ lastQueued' = through /\ paused' \in BOOLEAN
         /\ pending' = Requeued(pending, data, through, reset, replay)
<1>1. pending' = Requeued(pending, data, through, reset, replay)
  BY DEF QueueOutput, Requeued
<1>2. /\ pending' \in Seq(Chunk)
      /\ \A i \in 1..Len(pending') : pending'[i].through \in {0, through}
                                 \/ \E j \in 1..Len(pending) : pending'[i].through = pending[j].through
  <2>1. pending' \in Seq(Chunk) /\ Carries(pending', pending, through)
    BY <1>1, RequeuedType
  <2>2. QED
    BY <2>1 DEF Carries
<1>3. \A i \in 1..Len(pending') : pending'[i].through <= through
  <2>1. 0 <= through
    OBVIOUS
  <2>2. QED
    BY <1>2, <2>1
<1>4. lastQueued' = through /\ paused' \in BOOLEAN
  BY DEF QueueOutput
<1>5. QED
  BY <1>1, <1>2, <1>3, <1>4

\* A widget that takes up the output again.
LEMMA SynchronizeType ==
  ASSUME SessionTyped', QueueTyped, sequence' = sequence, Synchronize
  PROVE  QueueTyped' /\ lastQueued' = sequence
         /\ pending' = Requeued(pending, ReplayAfter(lastSent)', sequence,
                                ResetRequired(lastSent)', Replay')
<1>1. snapshot' \in Data /\ delta' \in Seq(Event) /\ sequence \in 0..MaxUnits
  <2>1. /\ gathered' \in 0..GatherMax /\ units' \in Nat /\ units' + gathered' <= MaxUnits
        /\ sequence' \in 0..units' /\ snapshot' \in Data /\ delta' \in Seq(Event)
    BY DEF SessionTyped
  <2>2. gathered' \in Nat
    BY <2>1
  <2>3. sequence' \in 0..MaxUnits
    BY <2>1, <2>2, FewEvents
  <2>4. QED
    BY <2>1, <2>3
<1>2. Replay' \in Data
  BY <1>1, HistoryType DEF Replay
<1>3. ReplayAfter(lastSent)' \in Data
  <2>1. DataOf(Later(delta', lastSent')) \in Data
    BY <1>1, HistoryType
  <2>2. After(lastSent)' = Later(delta', lastSent')
    BY DEF After, Later
  <2>3. ReplayAfter(lastSent)' = IF ResetRequired(lastSent)' THEN Replay' ELSE DataOf(After(lastSent)')
    BY DEF ReplayAfter, DataOf
  <2>4. QED
    BY <1>2, <2>1, <2>2, <2>3
<1>4. ResetRequired(lastSent)' \in BOOLEAN
  BY DEF ResetRequired
<1>5. \A i \in 1..Len(pending) : pending[i].through <= sequence
  <2>1. \A i \in 1..Len(pending) : pending[i].through \in 0..MaxUnits
    <3>1. pending \in Seq(Chunk)
      BY DEF QueueTyped
    <3>2. \A c \in Chunk : c.through \in 0..MaxUnits
      BY DEF Chunk
    <3>3. QED
      BY <3>1, <3>2
  <2>2. lastQueued \in 0..sequence /\ \A i \in 1..Len(pending) : pending[i].through <= lastQueued
    BY DEF QueueTyped
  <2>3. QED
    BY <1>1, <2>1, <2>2
<1>6. QueueOutput(ReplayAfter(lastSent)', sequence, ResetRequired(lastSent)', Replay')
  BY DEF Synchronize
<1>7. pending \in Seq(Chunk) /\ paused \in BOOLEAN
  BY DEF QueueTyped
<1>8. /\ pending' \in Seq(Chunk) /\ \A i \in 1..Len(pending') : pending'[i].through <= sequence
      /\ lastQueued' = sequence /\ paused' \in BOOLEAN
      /\ pending' = Requeued(pending, ReplayAfter(lastSent)', sequence,
                                ResetRequired(lastSent)', Replay')
  BY <1>1, <1>2, <1>3, <1>4, <1>5, <1>6, <1>7, QueueOutputType
<1>9. QED
  BY <1>1, <1>8 DEF QueueTyped

\* A snapshot that is saved or not.
LEMMA SaveSnapshotType ==
  ASSUME SessionTyped, NEW data \in Data, NEW label, SaveSnapshot(data, label)
  PROVE  SessionTyped' /\ sequence' = sequence /\ units' = units /\ dropped' = dropped
<1>1. After(label) = Later(delta, label)
  BY DEF After, Later
<1>2. Later(delta, label) \in Seq(Event)
  BY HistoryType, EmptyTypes DEF SessionTyped
<1>3. CASE label \in snapshotSeq..sequence
  <2>1. /\ snapshot' = data /\ snapshotSeq' = label /\ delta' \in Seq(Event) /\ truncated' = FALSE
        /\ gathered' = gathered /\ units' = units /\ sequence' = sequence /\ dropped' = dropped
    BY <1>1, <1>2, <1>3 DEF SaveSnapshot
  <2>2. label \in 0..sequence
    BY <1>3 DEF SessionTyped
  <2>3. QED
    BY <2>1, <2>2 DEF SessionTyped
<1>4. CASE label \notin snapshotSeq..sequence
  <2>1. UNCHANGED sessionVars
    BY <1>4 DEF SaveSnapshot
  <2>2. QED
    BY <2>1 DEF SessionTyped, sessionVars
<1>5. QED
  BY <1>3, <1>4

\* The types hold at first.
LEMMA TypeInit == Init => TypeInv
<1>1. SUFFICES ASSUME Init PROVE TypeInv
  OBVIOUS
<1>2. 0 \in 0..GatherMax /\ 0 \in 0..MaxUnits /\ 0 \in 0..MaxSuspends /\ 0 \in 0..MaxMounts
      /\ 0 \in 0..0 /\ 0 <= MaxUnits /\ Len(<<>>) = 0
  BY ConstantTypes
<1>3. SessionTyped
  <2>1. 0 + 0 <= MaxUnits /\ 0 \in Nat /\ FALSE \in BOOLEAN
    BY <1>2
  <2>2. /\ gathered = 0 /\ units = 0 /\ sequence = 0 /\ snapshot = <<>> /\ snapshotSeq = 0
        /\ delta = <<>> /\ truncated = FALSE /\ dropped = {}
    BY <1>1 DEF Init
  <2>3. QED
    BY <1>2, <2>1, <2>2, EmptyTypes DEF SessionTyped
<1>4. QueueTyped
  <2>1. pending = <<>> /\ lastQueued = 0 /\ sequence = 0 /\ paused = FALSE
    BY <1>1 DEF Init
  <2>2. \A i \in 1..Len(pending) : pending[i].through <= lastQueued
    BY <2>1
  <2>3. QED
    BY <1>2, <2>1, <2>2, EmptyTypes DEF QueueTyped
<1>5. LifeTyped /\ PageTyped
  BY <1>1, <1>2, EmptyTypes DEF Init, LifeTyped, PageTyped
<1>6. DrainTyped
  BY <1>1, <1>2, EmptyTypes DEF Init, DrainTyped
<1>7. WaitsTyped
  <2>1. request = [r \in Requesters |-> NoRequest] /\ sequence = 0
    BY <1>1 DEF Init
  <2>2. /\ request \in [Requesters -> [id : Nat, label : 0..MaxUnits, answered : BOOLEAN,
                                       data : Data]]
        /\ \A r \in Requesters : request[r].label <= sequence
    BY <2>1, EmptyTypes
  <2>3. QED
    BY <1>1, <2>2 DEF Init, WaitsTyped
<1>8. QED
  BY <1>3, <1>4, <1>5, <1>6, <1>7 DEF TypeInv

\* The session keeps the types: an event has units of its own.
LEMMA TypeSession ==
  ASSUME TypeInv, Session
  PROVE  TypeInv'
<1>1. CASE Receive
  <2>1. SessionTyped'
    <3>1. gathered' = gathered + 1 /\ gathered < GatherMax /\ units + gathered < MaxUnits
      BY <1>1 DEF Receive
    <3>2. gathered' \in 0..GatherMax /\ units + gathered' <= MaxUnits
      BY <3>1, ConstantTypes DEF TypeInv, SessionTyped
    <3>3. UNCHANGED <<units, sequence, snapshot, snapshotSeq, delta, truncated, dropped>>
      BY <1>1 DEF Receive
    <3>4. QED
      BY <3>2, <3>3 DEF TypeInv, SessionTyped
  <2>2. QueueTyped'
    BY <1>1 DEF Receive, TypeInv, QueueTyped, queueVars
  <2>3. LifeTyped' /\ DrainTyped'
    BY <1>1 DEF Receive, TypeInv, LifeTyped, DrainTyped, lifeVars, drainVars, queueVars
  <2>4. PageTyped' /\ WaitsTyped'
    BY <1>1 DEF Receive, TypeInv, PageTyped, WaitsTyped, pageVars
  <2>5. QED
    BY <2>1, <2>2, <2>3, <2>4 DEF TypeInv
<1>2. CASE Flush
  <2> DEFINE data == [i \in 1..gathered |-> units + i]
  <2>1. /\ gathered > 0 /\ gathered' = 0 /\ units' = units + gathered
        /\ sequence' = sequence + 1 /\ AppendDelta(data)
        /\ UNCHANGED <<snapshot, snapshotSeq, lifeVars, drainVars, pageVars, fatal,
                       suspension, request>>
    BY <1>2 DEF Flush
  <2>2. \/ /\ QueueOutput(data, sequence', FALSE, snapshot \o DataOf(delta'))
           /\ sequence' > lastQueued
           /\ ScheduleCheckpoint(ready /\ active, Size(delta') >= CheckpointAt)
        \/ UNCHANGED <<queueVars, checkpoint>>
    BY <1>2 DEF Flush
  <2>3. /\ gathered \in Nat \ {0} /\ units \in Nat /\ sequence \in Nat /\ MaxUnits \in Nat
        /\ GatherMax \in Nat
        /\ sequence <= units /\ units + gathered <= MaxUnits
    BY <2>1, ConstantTypes DEF TypeInv, SessionTyped
  <2>4. data \in Data
    <3>1. \A i \in 1..gathered : units + i \in 1..MaxUnits
      BY <2>3
    <3>2. QED
      BY <2>3, <3>1 DEF Data
  <2> HIDE DEF data
  <2>5. sequence' \in 1..MaxUnits /\ sequence' \in 0..units' /\ units' \in Nat
        /\ units' + gathered' <= MaxUnits /\ gathered' \in 0..GatherMax /\ sequence <= sequence'
    BY <2>1, <2>3
  <2>6. delta' \in Seq(Event) /\ truncated' \in BOOLEAN /\ dropped' \subseteq 1..MaxUnits
    <3>1. /\ delta \in Seq(Event) /\ truncated \in BOOLEAN /\ dropped \subseteq 1..MaxUnits
          /\ sequence + 1 \in 1..MaxUnits
      BY <2>1, <2>5 DEF TypeInv, SessionTyped
    <3>2. QED
      BY <2>1, <2>4, <3>1, AppendDeltaType
  <2>7. SessionTyped'
    <3>1. snapshot' \in Data /\ snapshotSeq' \in 0..sequence'
      BY <2>1, <2>3, <2>5 DEF TypeInv, SessionTyped
    <3>2. QED
      BY <2>5, <2>6, <3>1 DEF SessionTyped
  <2>8. QueueTyped' /\ lastQueued <= lastQueued' /\ lastQueued' \in Nat
    <3>1. /\ pending \in Seq(Chunk) /\ lastQueued \in 0..sequence /\ paused \in BOOLEAN
          /\ \A i \in 1..Len(pending) : pending[i].through <= lastQueued
      BY DEF TypeInv, QueueTyped
    <3>2. CASE QueueOutput(data, sequence', FALSE, snapshot \o DataOf(delta'))
      <4>1. snapshot \o DataOf(delta') \in Data
        BY <2>6, HistoryType DEF TypeInv, SessionTyped
      <4>2. \A i \in 1..Len(pending) : pending[i].through <= sequence'
        <5>1. \A c \in Chunk : c.through \in Int
          BY ConstantTypes DEF Chunk
        <5>2. \A i \in 1..Len(pending) : pending[i].through \in Int
          BY <3>1, <5>1
        <5>3. QED
          BY <2>3, <2>5, <3>1, <5>2
      <4>3. sequence' \in 0..MaxUnits
        BY <2>5
      <4>4. /\ pending' \in Seq(Chunk)
            /\ \A i \in 1..Len(pending') : pending'[i].through <= sequence'
            /\ lastQueued' = sequence' /\ paused' \in BOOLEAN
        BY <2>4, <3>1, <3>2, <4>1, <4>2, <4>3, QueueOutputType
      <4>5. QED
        BY <2>3, <2>5, <3>1, <4>4 DEF QueueTyped
    <3>3. CASE UNCHANGED <<queueVars, checkpoint>>
      <4>1. UNCHANGED <<pending, lastQueued, paused>> /\ lastQueued \in 0..sequence'
        BY <2>3, <2>5, <3>1, <3>3 DEF queueVars
      <4>2. QED
        BY <2>3, <3>1, <4>1 DEF QueueTyped
    <3>4. QED
      BY <2>2, <3>2, <3>3
  <2>9. DrainTyped'
    <3>1. UNCHANGED <<scripts, sending, awaited, lastSent>>
      BY <2>1 DEF drainVars
    <3>2. awaited.through \in Nat /\ awaited.through <= lastQueued /\ lastSent \in 0..lastQueued
          /\ lastQueued \in Nat
      BY <2>3 DEF TypeInv, DrainTyped, QueueTyped
    <3>3. awaited.through <= lastQueued' /\ lastSent \in 0..lastQueued'
      BY <2>8, <3>2
    <3>4. QED
      BY <3>1, <3>3 DEF TypeInv, DrainTyped
  <2>10. LifeTyped' /\ PageTyped'
    BY <2>1 DEF TypeInv, LifeTyped, PageTyped, lifeVars, pageVars
  <2>11. WaitsTyped'
    <3>1. checkpoint' \in {"no", "timer", "drain", "snapshot"}
      BY <2>2 DEF ScheduleCheckpoint, TypeInv, WaitsTyped
    <3>2. \A r \in Requesters : request[r].label \in Nat
      BY DEF TypeInv, WaitsTyped
    <3>3. \A r \in Requesters : request[r].label <= sequence'
      BY <2>1, <2>3, <3>2 DEF TypeInv, WaitsTyped
    <3>4. QED
      BY <2>1, <3>1, <3>3 DEF TypeInv, WaitsTyped
  <2>12. QED
    BY <2>7, <2>8, <2>9, <2>10, <2>11 DEF TypeInv
<1>3. QED
  BY <1>1, <1>2 DEF Session

\* So does a widget that goes,
LEMMA TypeDispose ==
  ASSUME TypeInv, Dispose, visible' \in BOOLEAN
  PROVE  TypeInv'
<1>1. SessionTyped'
  BY DEF Dispose, TypeInv, SessionTyped, sessionVars
<1>2. sequence' = sequence /\ sequence \in Nat
  BY DEF Dispose, sessionVars, TypeInv, SessionTyped
<1>3. QueueTyped'
  <2>1. pending' = <<>> /\ lastQueued' = 0 /\ paused' = FALSE
    BY DEF Dispose
  <2>2. \A i \in 1..Len(pending') : pending'[i].through <= lastQueued'
    BY <2>1
  <2>3. 0 \in 0..sequence'
    BY <1>2
  <2>4. QED
    BY <2>1, <2>2, <2>3, EmptyTypes DEF QueueTyped
<1>4. LifeTyped'
  BY DEF Dispose, TypeInv, LifeTyped
<1>5. DrainTyped'
  <2>1. lastQueued' = 0 /\ lastSent' = 0 /\ scripts' = <<>> /\ sending' = <<>> /\ awaited' = None
    BY DEF Dispose
  <2>2. 0 \in 0..0 /\ Len(<<>>) = 0
    OBVIOUS
  <2>3. QED
    BY <2>1, <2>2, EmptyTypes DEF DrainTyped
<1>6. PageTyped'
  BY EmptyTypes DEF Dispose, PageTyped
<1>7. WaitsTyped'
  <2>1. request' = [r \in Requesters |-> NoRequest]
    BY DEF Dispose
  <2>2. /\ request' \in [Requesters -> [id : Nat, label : 0..MaxUnits, answered : BOOLEAN,
                                       data : Data]]
        /\ \A r \in Requesters : request'[r].label <= sequence'
    BY <1>2, <2>1, EmptyTypes
  <2>3. suspension' = "no" /\ checkpoint' = "no" /\ fatal' \in BOOLEAN
    BY DEF Dispose, TypeInv, WaitsTyped
  <2>4. QED
    BY <2>2, <2>3 DEF WaitsTyped
<1>8. QED
  BY <1>1, <1>3, <1>4, <1>5, <1>6, <1>7 DEF TypeInv

\* one that is suspended,
LEMMA TypeSuspend ==
  ASSUME TypeInv, Suspend, visible' \in BOOLEAN
  PROVE  TypeInv'
<1>1. SessionTyped' /\ QueueTyped'
  BY DEF Suspend, TypeInv, SessionTyped, QueueTyped, sessionVars, queueVars
<1>2. LifeTyped'
  <2>1. suspends' \in 0..MaxSuspends
    BY ConstantTypes DEF Suspend, TypeInv, LifeTyped
  <2>2. attached' \in BOOLEAN
    BY DEF Suspend, TypeInv, LifeTyped
  <2>3. QED
    BY <2>1, <2>2 DEF Suspend, TypeInv, LifeTyped
<1>3. DrainTyped' /\ PageTyped'
  BY DEF Suspend, TypeInv, DrainTyped, PageTyped, queueVars, drainVars, pageVars
<1>4. WaitsTyped'
  <2>1. suspension' \in {"no", "drain", "snapshot", "off"}
        /\ checkpoint' \in {"no", "timer", "drain", "snapshot"}
    BY DEF Suspend, TypeInv, WaitsTyped
  <2>2. UNCHANGED <<fatal, request, sequence>>
    BY DEF Suspend, sessionVars
  <2>3. QED
    BY <2>1, <2>2 DEF TypeInv, WaitsTyped
<1>5. QED
  BY <1>1, <1>2, <1>3, <1>4 DEF TypeInv

\* An active widget that is active again.
LEMMA TypeReactivate ==
  ASSUME TypeInv, SessionTyped', sequence' = sequence, Reactivate
  PROVE  /\ QueueTyped' /\ lastQueued' = sequence
         /\ scripts' \in Seq(Script) /\ active' = TRUE /\ attached' = TRUE
         /\ checkpoint' \in {"no", "timer", "drain", "snapshot"}
<1>1. Synchronize
  BY DEF Reactivate
<1>2. QueueTyped' /\ lastQueued' = sequence
  BY <1>1, SynchronizeType DEF TypeInv
<1>3. scripts' \in Seq(Script)
  <2>1. scripts \in Seq(Script)
    BY DEF TypeInv, DrainTyped
  <2>2. [kind |-> "setActive", value |-> TRUE] \in Script
    BY ScriptType
  <2>3. QED
    BY <2>1, <2>2 DEF Reactivate
<1>4. checkpoint' \in {"no", "timer", "drain", "snapshot"}
  BY <1>1 DEF Synchronize, ScheduleCheckpoint, TypeInv, WaitsTyped
<1>5. QED
  BY <1>2, <1>3, <1>4 DEF Reactivate

\* What the queue reaches does not shrink for a widget that goes on.
LEMMA TypeDrainKept ==
  ASSUME TypeInv, lastQueued' \in Nat, lastQueued <= lastQueued',
         scripts' \in Seq(Script), UNCHANGED <<sending, awaited, lastSent>>
  PROVE  DrainTyped'
<1>1. lastQueued \in Nat /\ lastSent \in 0..lastQueued /\ awaited.through <= lastQueued
      /\ awaited.through \in Nat
  BY DEF TypeInv, SessionTyped, QueueTyped, DrainTyped
<1>2. lastSent \in 0..lastQueued' /\ awaited.through <= lastQueued'
  BY <1>1
<1>3. QED
  BY <1>2 DEF TypeInv, DrainTyped

\* and the screen as a whole.
LEMMA TypeScreen ==
  ASSUME TypeInv, Screen
  PROVE  TypeInv'
<1>0. visible \in BOOLEAN
  BY DEF TypeInv, LifeTyped
<1>1. CASE Mount
  <2>1. SessionTyped'
    BY <1>1 DEF Mount, TypeInv, SessionTyped, sessionVars
  <2>2. sequence \in 0..MaxUnits /\ sequence' = sequence
    BY <1>1, FewEvents, ConstantTypes DEF Mount, TypeInv, SessionTyped, sessionVars
  <2>3. QueueTyped' /\ lastQueued' = sequence
    <3>1. Replay \in Data
      BY HistoryType DEF TypeInv, SessionTyped, Replay
    <3>2. \A i \in 1..Len(pending) : pending[i].through <= sequence
      <4>1. \A c \in Chunk : c.through \in Int
        BY ConstantTypes DEF Chunk
      <4>2. \A i \in 1..Len(pending) : pending[i].through \in Int
        BY <4>1 DEF TypeInv, QueueTyped
      <4>3. QED
        BY <2>2, <4>2, ConstantTypes DEF TypeInv, QueueTyped
    <3>3. QueueOutput(Replay, sequence, TRUE, Replay)
      BY <1>1 DEF Mount
    <3>4. pending \in Seq(Chunk) /\ paused \in BOOLEAN
      BY DEF TypeInv, QueueTyped
    <3>5. /\ pending' \in Seq(Chunk)
          /\ \A i \in 1..Len(pending') : pending'[i].through <= sequence
          /\ lastQueued' = sequence /\ paused' \in BOOLEAN
      BY <2>2, <3>1, <3>2, <3>3, <3>4, QueueOutputType
    <3>6. QED
      BY <2>2, <3>5 DEF QueueTyped
  <2>4. LifeTyped'
    <3>1. mounts' \in 0..MaxMounts
      BY <1>1, ConstantTypes DEF Mount, TypeInv, LifeTyped
    <3>2. QED
      BY <1>1, <3>1 DEF Mount, TypeInv, LifeTyped
  <2>5. DrainTyped'
    <3>1. lastSent' = 0 /\ scripts' = <<>> /\ sending' = <<>> /\ awaited' = None
      BY <1>1 DEF Mount
    <3>2. 0 \in 0..lastQueued' /\ Len(<<>>) = 0 /\ 0 <= lastQueued'
      BY <2>2, <2>3
    <3>3. QED
      BY <3>1, <3>2, EmptyTypes DEF DrainTyped
  <2>6. PageTyped'
    BY <1>1, EmptyTypes DEF Mount, PageTyped
  <2>7. WaitsTyped'
    BY <1>1, <2>2 DEF Mount, TypeInv, WaitsTyped
  <2>8. QED
    BY <2>1, <2>3, <2>4, <2>5, <2>6, <2>7 DEF TypeInv
<1>2. CASE Unmount
  BY <1>0, <1>2, TypeDispose DEF Unmount
<1>3. CASE Hide
  BY <1>0, <1>3, TypeSuspend DEF Hide
<1>4. CASE Leave
  BY <1>0, <1>4, TypeSuspend DEF Leave
<1>5. CASE Show
  <2>1. SessionTyped' /\ sequence' = sequence
    BY <1>5 DEF Show, TypeInv, SessionTyped, sessionVars
  <2>2. CASE Reactivate
    <3>1. /\ QueueTyped' /\ lastQueued' = sequence /\ scripts' \in Seq(Script)
          /\ active' = TRUE /\ attached' = TRUE
          /\ checkpoint' \in {"no", "timer", "drain", "snapshot"}
      BY <2>1, <2>2, TypeReactivate
    <3>2. lastQueued <= lastQueued' /\ lastQueued' \in Nat
      BY <3>1 DEF TypeInv, QueueTyped, SessionTyped
    <3>3. DrainTyped'
      BY <1>5, <3>1, <3>2, TypeDrainKept DEF Show
    <3>4. LifeTyped' /\ PageTyped'
      BY <1>5, <3>1 DEF Show, TypeInv, LifeTyped, PageTyped, pageVars
    <3>5. WaitsTyped'
      BY <1>5, <2>1, <3>1 DEF Show, TypeInv, WaitsTyped
    <3>6. QED
      BY <2>1, <3>1, <3>3, <3>4, <3>5 DEF TypeInv
  <2>3. CASE /\ attached' = (attached \/ (mounted /\ suspension = "no"))
             /\ UNCHANGED <<active, scripts, queueVars, checkpoint>>
    <3>1. QueueTyped' /\ DrainTyped'
      BY <1>5, <2>1, <2>3 DEF Show, TypeInv, QueueTyped, DrainTyped, queueVars
    <3>2. LifeTyped'
      <4>1. attached' \in BOOLEAN
        BY <2>3
      <4>2. resumeRequested' \in BOOLEAN
        BY <1>5 DEF Show, TypeInv, LifeTyped
      <4>3. QED
        BY <1>5, <2>3, <4>1, <4>2 DEF Show, TypeInv, LifeTyped
    <3>3. PageTyped' /\ WaitsTyped'
      BY <1>5, <2>1, <2>3 DEF Show, TypeInv, PageTyped, WaitsTyped, pageVars
    <3>4. QED
      BY <2>1, <3>1, <3>2, <3>3 DEF TypeInv
  <2>4. QED
    BY <1>5, <2>2, <2>3 DEF Show
<1>6. CASE Replace
  BY <1>6, TypeDispose DEF Replace
<1>7. QED
  BY <1>1, <1>2, <1>3, <1>4, <1>5, <1>6 DEF Screen

\* A script more.
LEMMA TypeAppend ==
  ASSUME TypeInv, NEW t \in Script, scripts' = Append(scripts, t)
  PROVE  scripts' \in Seq(Script)
BY DEF TypeInv, DrainTyped

\* The script that asks for a snapshot.
LEMMA RequestScript ==
  ASSUME TypeInv, NEW r \in Requesters
  PROVE  /\ FreshId \in Nat /\ lastSent \in 0..MaxUnits /\ lastSent <= sequence
         /\ [kind |-> "snapshot", for |-> r, id |-> FreshId, label |-> lastSent] \in Script
<1>1. FreshId \in Nat
  BY FreshIdIs DEF TypeInv, DrainTyped, PageTyped
<1>2. lastSent \in 0..MaxUnits /\ lastSent <= sequence
  <2>1. sequence \in 0..MaxUnits
    BY FewEvents, ConstantTypes DEF TypeInv, SessionTyped
  <2>2. lastQueued \in 0..sequence /\ lastSent \in 0..lastQueued
    BY DEF TypeInv, QueueTyped, DrainTyped
  <2>3. QED
    BY <2>1, <2>2, ConstantTypes
<1>3. QED
  BY <1>1, <1>2, ScriptType

\* A snapshot is asked for under the last sequence number that was sent.
LEMMA TypeRequest ==
  ASSUME TypeInv, NEW r \in Requesters, RequestSnapshot(r), sequence' = sequence
  PROVE  /\ scripts' \in Seq(Script)
         /\ request' \in [Requesters -> [id : Nat, label : 0..MaxUnits, answered : BOOLEAN,
                                         data : Data]]
         /\ \A x \in Requesters : request'[x].label <= sequence'
<1>1. FreshId \in Nat /\ lastSent \in 0..MaxUnits /\ lastSent <= sequence
  BY RequestScript
<1>2. scripts' \in Seq(Script)
  BY RequestScript, TypeAppend DEF RequestSnapshot
<1> DEFINE ask == [NoRequest EXCEPT !.id = FreshId, !.label = lastSent]
<1>3. ask \in [id : Nat, label : 0..MaxUnits, answered : BOOLEAN, data : Data]
      /\ ask.label = lastSent
  BY <1>1, EmptyTypes DEF NoRequest
<1>4. request' = [request EXCEPT ![r] = ask]
  BY DEF RequestSnapshot
<1> HIDE DEF ask
<1>5. request \in [Requesters -> [id : Nat, label : 0..MaxUnits, answered : BOOLEAN,
                                  data : Data]]
      /\ \A x \in Requesters : request[x].label <= sequence
  BY DEF TypeInv, WaitsTyped
<1>6. QED
  BY <1>1, <1>2, <1>3, <1>4, <1>5

\* The types of a step of the widget that leaves the session and the page alone.
LEMMA TypeKept ==
  ASSUME TypeInv, UNCHANGED <<sessionVars, pageVars>>
  PROVE  SessionTyped' /\ PageTyped' /\ sequence' = sequence
BY DEF TypeInv, SessionTyped, PageTyped, sessionVars, pageVars

\* A request that is over.
LEMMA TypeNoRequest ==
  ASSUME TypeInv, NEW r \in Requesters, sequence' = sequence,
         request' = [request EXCEPT ![r] = NoRequest]
  PROVE  /\ request' \in [Requesters -> [id : Nat, label : 0..MaxUnits, answered : BOOLEAN,
                                         data : Data]]
         /\ \A x \in Requesters : request'[x].label <= sequence'
<1>1. request \in [Requesters -> [id : Nat, label : 0..MaxUnits, answered : BOOLEAN,
                                  data : Data]]
      /\ \A x \in Requesters : request[x].label <= sequence
  BY DEF TypeInv, WaitsTyped
<1>2. NoRequest.label <= sequence
  BY EmptyTypes DEF TypeInv, SessionTyped
<1>3. QED
  BY <1>1, <1>2, EmptyTypes

\* The end of a suspension.
LEMMA TypeSuspendEnds ==
  ASSUME TypeInv, SuspendEnds,
         UNCHANGED <<sessionVars, visible, mounted, ready, resumeRequested, suspends, mounts,
                     sending, awaited, lastSent, pageVars, fatal, request>>
  PROVE  TypeInv'
<1>1. SessionTyped' /\ PageTyped' /\ sequence' = sequence
  BY TypeKept
<1>2. CASE resumeRequested
  <2>1. Reactivate /\ suspension' = "no"
    BY <1>2 DEF SuspendEnds
  <2>2. /\ QueueTyped' /\ lastQueued' = sequence /\ scripts' \in Seq(Script)
        /\ active' = TRUE /\ attached' = TRUE
        /\ checkpoint' \in {"no", "timer", "drain", "snapshot"}
    BY <1>1, <2>1, TypeReactivate
  <2>3. lastQueued <= lastQueued' /\ lastQueued' \in Nat
    BY <2>2 DEF TypeInv, QueueTyped, SessionTyped
  <2>4. DrainTyped'
    BY <2>2, <2>3, TypeDrainKept
  <2>5. LifeTyped' /\ WaitsTyped'
    BY <1>1, <2>1, <2>2 DEF TypeInv, LifeTyped, WaitsTyped
  <2>6. QED
    BY <1>1, <2>2, <2>4, <2>5 DEF TypeInv
<1>3. CASE ~resumeRequested
  <2>1. active' = FALSE /\ suspension' = "no"
        /\ UNCHANGED <<attached, scripts, queueVars, checkpoint>>
    BY <1>3 DEF SuspendEnds
  <2>2. QueueTyped' /\ DrainTyped'
    BY <1>1, <2>1 DEF TypeInv, QueueTyped, DrainTyped, queueVars
  <2>3. LifeTyped' /\ WaitsTyped'
    BY <1>1, <2>1 DEF TypeInv, LifeTyped, WaitsTyped
  <2>4. QED
    BY <1>1, <2>2, <2>3 DEF TypeInv
<1>4. QED
  BY <1>2, <1>3

\* The steps of a suspension keep the types,
LEMMA TypeSuspension ==
  ASSUME TypeInv, SuspendDrained \/ SuspendSaves \/ SuspendTurnsOff
  PROVE  TypeInv'
<1>1. CASE SuspendDrained
  <2>1. CASE ready /\ ~fatal
    <3>1. /\ RequestSnapshot("suspend") /\ suspension' = "snapshot"
          /\ UNCHANGED <<queueVars, active, attached, checkpoint>>
          /\ UNCHANGED <<sessionVars, visible, mounted, ready, resumeRequested, suspends, mounts,
                         sending, awaited, lastSent, pageVars, fatal>>
      BY <1>1, <2>1 DEF SuspendDrained
    <3>2. SessionTyped' /\ PageTyped' /\ sequence' = sequence
      BY <3>1, TypeKept
    <3>3. /\ scripts' \in Seq(Script)
          /\ request' \in [Requesters -> [id : Nat, label : 0..MaxUnits, answered : BOOLEAN,
                                          data : Data]]
          /\ \A x \in Requesters : request'[x].label <= sequence'
      BY <3>1, <3>2, TypeRequest DEF Requesters
    <3>4. QueueTyped' /\ DrainTyped'
      BY <3>1, <3>2, <3>3 DEF TypeInv, QueueTyped, DrainTyped, queueVars
    <3>5. LifeTyped'
      BY <3>1 DEF TypeInv, LifeTyped
    <3>6. WaitsTyped'
      BY <3>1, <3>3 DEF TypeInv, WaitsTyped
    <3>7. QED
      BY <3>2, <3>4, <3>5, <3>6 DEF TypeInv
  <2>2. CASE ~(ready /\ ~fatal)
    BY <1>1, <2>2, TypeSuspendEnds DEF SuspendDrained
  <2>3. QED
    BY <2>1, <2>2
<1>2. CASE SuspendSaves
  <2>1. /\ UNCHANGED <<visible, mounted, ready, active, resumeRequested, suspends, mounts,
                       sending, awaited, lastSent, pageVars, fatal>>
        /\ request' = [request EXCEPT !["suspend"] = NoRequest]
        /\ \/ SaveSnapshot(request["suspend"].data, request["suspend"].label)
           \/ UNCHANGED sessionVars
    BY <1>2 DEF SuspendSaves
  <2>2. SessionTyped' /\ sequence' = sequence
    <3>1. request["suspend"].data \in Data
      BY DEF TypeInv, WaitsTyped, Requesters
    <3>2. QED
      BY <2>1, <3>1, SaveSnapshotType DEF TypeInv, SessionTyped, sessionVars
  <2>3. PageTyped'
    BY <2>1 DEF TypeInv, PageTyped, pageVars
  <2>4. /\ request' \in [Requesters -> [id : Nat, label : 0..MaxUnits, answered : BOOLEAN,
                                        data : Data]]
        /\ \A x \in Requesters : request'[x].label <= sequence'
    BY <2>1, <2>2, TypeNoRequest DEF Requesters
  <2>5. CASE resumeRequested
    <3>1. Synchronize /\ attached' = TRUE /\ suspension' = "no" /\ UNCHANGED scripts
      BY <1>2, <2>5 DEF SuspendSaves
    <3>2. QueueTyped' /\ lastQueued' = sequence
      BY <2>2, <3>1, SynchronizeType DEF TypeInv
    <3>3. lastQueued <= lastQueued' /\ lastQueued' \in Nat
      BY <3>2 DEF TypeInv, QueueTyped, SessionTyped
    <3>4. DrainTyped'
      <4>1. scripts' \in Seq(Script)
        BY <3>1 DEF TypeInv, DrainTyped
      <4>2. QED
        BY <2>1, <3>3, <4>1, TypeDrainKept
    <3>5. LifeTyped'
      BY <2>1, <3>1 DEF TypeInv, LifeTyped
    <3>6. checkpoint' \in {"no", "timer", "drain", "snapshot"}
      BY <3>1 DEF Synchronize, ScheduleCheckpoint, TypeInv, WaitsTyped
    <3>7. WaitsTyped'
      BY <2>1, <2>4, <3>1, <3>6 DEF TypeInv, WaitsTyped
    <3>8. QED
      BY <2>2, <2>3, <3>2, <3>4, <3>5, <3>7 DEF TypeInv
  <2>6. CASE ~resumeRequested
    <3>1. /\ scripts' = Append(scripts, [kind |-> "setActive", value |-> FALSE])
          /\ suspension' = "off" /\ UNCHANGED <<queueVars, attached, checkpoint>>
      BY <1>2, <2>6 DEF SuspendSaves
    <3>2. scripts' \in Seq(Script)
      BY <3>1, ScriptType, TypeAppend
    <3>3. QueueTyped' /\ DrainTyped'
      BY <2>1, <2>2, <3>1, <3>2 DEF TypeInv, QueueTyped, DrainTyped, queueVars
    <3>4. LifeTyped'
      BY <2>1, <3>1 DEF TypeInv, LifeTyped
    <3>5. WaitsTyped'
      BY <2>1, <2>4, <3>1 DEF TypeInv, WaitsTyped
    <3>6. QED
      BY <2>2, <2>3, <3>3, <3>4, <3>5 DEF TypeInv
  <2>7. QED
    BY <2>5, <2>6
<1>3. CASE SuspendTurnsOff
  BY <1>3, TypeSuspendEnds DEF SuspendTurnsOff
<1>4. QED
  BY <1>1, <1>2, <1>3

\* those of a checkpoint,
LEMMA TypeCheckpoint ==
  ASSUME TypeInv, CheckpointFires \/ CheckpointDrained \/ CheckpointSaves
  PROVE  TypeInv'
<1>1. CASE CheckpointFires
  <2>1. SessionTyped' /\ PageTyped' /\ sequence' = sequence
    BY <1>1, TypeKept DEF CheckpointFires
  <2>2. QueueTyped' /\ DrainTyped' /\ LifeTyped'
    BY <1>1, <2>1 DEF CheckpointFires, TypeInv, QueueTyped, DrainTyped, LifeTyped, queueVars,
                      drainVars, lifeVars
  <2>3. WaitsTyped'
    <3>1. checkpoint' \in {"no", "timer", "drain", "snapshot"}
      BY <1>1 DEF CheckpointFires
    <3>2. QED
      BY <1>1, <2>1, <3>1 DEF CheckpointFires, TypeInv, WaitsTyped
  <2>4. QED
    BY <2>1, <2>2, <2>3 DEF TypeInv
<1>2. CASE CheckpointDrained
  <2>1. UNCHANGED <<sessionVars, queueVars, lifeVars, sending, awaited, lastSent, pageVars,
                    fatal, suspension>>
    BY <1>2 DEF CheckpointDrained
  <2>2. SessionTyped' /\ PageTyped' /\ sequence' = sequence
    BY <2>1, TypeKept
  <2>3. /\ scripts' \in Seq(Script)
        /\ request' \in [Requesters -> [id : Nat, label : 0..MaxUnits, answered : BOOLEAN,
                                        data : Data]]
        /\ \A x \in Requesters : request'[x].label <= sequence'
        /\ checkpoint' \in {"no", "timer", "drain", "snapshot"}
    <3>1. CASE RequestSnapshot("checkpoint") /\ checkpoint' = "snapshot"
      BY <2>2, <3>1, TypeRequest DEF Requesters
    <3>2. CASE checkpoint' = "no" /\ UNCHANGED <<request, scripts>>
      BY <2>2, <3>2 DEF TypeInv, WaitsTyped, DrainTyped
    <3>3. QED
      BY <1>2, <3>1, <3>2 DEF CheckpointDrained
  <2>4. QueueTyped' /\ DrainTyped' /\ LifeTyped'
    BY <2>1, <2>2, <2>3 DEF TypeInv, QueueTyped, DrainTyped, LifeTyped, queueVars, lifeVars
  <2>5. WaitsTyped'
    BY <2>1, <2>3 DEF TypeInv, WaitsTyped
  <2>6. QED
    BY <2>2, <2>4, <2>5 DEF TypeInv
<1>3. CASE CheckpointSaves
  <2>1. /\ UNCHANGED <<queueVars, lifeVars, drainVars, pageVars, fatal, suspension>>
        /\ request' = [request EXCEPT !["checkpoint"] = NoRequest]
        /\ \/ SaveSnapshot(request["checkpoint"].data, request["checkpoint"].label)
           \/ UNCHANGED sessionVars
    BY <1>3 DEF CheckpointSaves
  <2>2. SessionTyped' /\ sequence' = sequence
    <3>1. request["checkpoint"].data \in Data
      BY DEF TypeInv, WaitsTyped, Requesters
    <3>2. QED
      BY <2>1, <3>1, SaveSnapshotType DEF TypeInv, SessionTyped, sessionVars
  <2>3. /\ request' \in [Requesters -> [id : Nat, label : 0..MaxUnits, answered : BOOLEAN,
                                        data : Data]]
        /\ \A x \in Requesters : request'[x].label <= sequence'
    BY <2>1, <2>2, TypeNoRequest DEF Requesters
  <2>4. QueueTyped' /\ DrainTyped' /\ LifeTyped' /\ PageTyped'
    BY <2>1, <2>2 DEF TypeInv, QueueTyped, DrainTyped, LifeTyped, PageTyped, queueVars,
                      drainVars, lifeVars, pageVars
  <2>5. checkpoint' \in {"no", "timer", "drain", "snapshot"}
    BY <1>3 DEF CheckpointSaves
  <2>6. WaitsTyped'
    BY <2>1, <2>3, <2>5 DEF TypeInv, WaitsTyped
  <2>7. QED
    BY <2>2, <2>4, <2>6 DEF TypeInv
<1>4. QED
  BY <1>1, <1>2, <1>3

\* What is taken from the head of a queue.
LEMMA HeadTail ==
  ASSUME NEW S, NEW q \in Seq(S), q # <<>>
  PROVE  /\ Len(q) \in Nat \ {0} /\ Head(q) = q[1] /\ Head(q) \in S
         /\ Tail(q) \in Seq(S) /\ Len(Tail(q)) = Len(q) - 1
         /\ \A i \in 1..Len(q) - 1 : Tail(q)[i] = q[i + 1]
  OBVIOUS

\* One script.
LEMMA OneScript ==
  ASSUME NEW t \in Script
  PROVE  <<t>> \in Seq(Script) /\ Len(<<t>>) = 1 /\ <<t>>[1] = t /\ <<t>> # <<>>
  OBVIOUS

\* the ready page and the one that is too late,
LEMMA TypeReady ==
  ASSUME TypeInv, Ready \/ ReadyTimeout
  PROVE  TypeInv'
<1>1. CASE Ready
  <2>1. UNCHANGED <<sessionVars, queueVars, visible, mounted, active, attached, resumeRequested,
                    suspends, mounts, sending, awaited, lastSent, pageVars, fatal,
                    suspension, request>> /\ ready' = TRUE
    BY <1>1 DEF Ready
  <2>2. SessionTyped' /\ PageTyped' /\ sequence' = sequence
    BY <2>1, TypeKept
  <2>3. scripts' \in Seq(Script)
    <3>1. active \in BOOLEAN
      BY DEF TypeInv, LifeTyped
    <3>2. QED
      BY <1>1, <3>1, ScriptType, TypeAppend DEF Ready
  <2>4. QueueTyped' /\ DrainTyped' /\ LifeTyped'
    BY <2>1, <2>2, <2>3 DEF TypeInv, QueueTyped, DrainTyped, LifeTyped, queueVars
  <2>5. WaitsTyped'
    <3>1. checkpoint' \in {"no", "timer", "drain", "snapshot"}
      BY <1>1 DEF Ready, ScheduleCheckpoint, TypeInv, WaitsTyped
    <3>2. QED
      BY <2>1, <2>2, <3>1 DEF TypeInv, WaitsTyped
  <2>6. QED
    BY <2>2, <2>4, <2>5 DEF TypeInv
<1>2. CASE ReadyTimeout
  <2>1. UNCHANGED <<sessionVars, pending, lastQueued, lifeVars, scripts, sending, lastSent,
                    pageVars, suspension, checkpoint, request>> /\ ReportFatal
    BY <1>2 DEF ReadyTimeout
  <2>2. SessionTyped' /\ PageTyped' /\ sequence' = sequence
    BY <2>1, TypeKept
  <2>3. paused' \in BOOLEAN /\ awaited' = None /\ fatal' = TRUE
    BY <2>1 DEF ReportFatal
  <2>4. QueueTyped' /\ LifeTyped' /\ WaitsTyped'
    BY <2>1, <2>2, <2>3 DEF TypeInv, QueueTyped, LifeTyped, WaitsTyped, lifeVars
  <2>5. DrainTyped'
    <3>1. 0 <= lastQueued'
      BY <2>1 DEF TypeInv, QueueTyped, SessionTyped
    <3>2. QED
      BY <2>1, <2>3, <3>1, EmptyTypes DEF TypeInv, DrainTyped
  <2>6. QED
    BY <2>2, <2>4, <2>5 DEF TypeInv
<1>3. QED
  BY <1>1, <1>2

\* the drain,
LEMMA TypeDrain ==
  ASSUME TypeInv, DrainTakesScript \/ DrainTakesOutput \/ AckTimeout
  PROVE  TypeInv'
<1>1. CASE DrainTakesScript
  <2>1. /\ scripts # <<>> /\ sending' = <<Head(scripts)>> /\ scripts' = Tail(scripts)
        /\ UNCHANGED <<sessionVars, queueVars, lifeVars, awaited, lastSent, pageVars,
                       fatal, suspension, checkpoint, request>>
    BY <1>1 DEF DrainTakesScript
  <2>2. SessionTyped' /\ PageTyped' /\ sequence' = sequence
    BY <2>1, TypeKept
  <2>3. scripts' \in Seq(Script) /\ sending' \in Seq(Script) /\ Len(sending') <= 1
    <3>1. Head(scripts) \in Script /\ Tail(scripts) \in Seq(Script)
      BY <2>1, HeadTail DEF TypeInv, DrainTyped
    <3>2. QED
      BY <2>1, <3>1
  <2>4. QueueTyped' /\ DrainTyped' /\ LifeTyped' /\ WaitsTyped'
    BY <2>1, <2>2, <2>3 DEF TypeInv, QueueTyped, DrainTyped, LifeTyped, WaitsTyped, queueVars,
                            lifeVars
  <2>5. QED
    BY <2>2, <2>4 DEF TypeInv
<1>2. CASE DrainTakesOutput
  <2> DEFINE chunk == Head(pending)
             write == [kind |-> "write", id |-> FreshId, data |-> chunk.data,
                       reset |-> chunk.reset]
  <2>1. /\ pending # <<>> /\ sending' = <<write>>
        /\ awaited' = [id |-> FreshId, through |-> chunk.through]
        /\ pending' = Tail(pending)
        /\ paused' = (paused /\ Size(Tail(pending)) > ResumeAt)
        /\ UNCHANGED <<sessionVars, lastQueued, lifeVars, scripts, lastSent, pageVars, fatal,
                       suspension, checkpoint, request>>
    BY <1>2 DEF DrainTakesOutput
  <2>2. SessionTyped' /\ PageTyped' /\ sequence' = sequence
    BY <2>1, TypeKept
  <2>3. /\ pending \in Seq(Chunk) /\ \A i \in 1..Len(pending) : pending[i].through <= lastQueued
        /\ FreshId \in Nat
    BY FreshIdIs DEF TypeInv, QueueTyped, DrainTyped, PageTyped
  <2>4. /\ Len(pending) \in Nat \ {0} /\ chunk = pending[1] /\ chunk \in Chunk
        /\ Tail(pending) \in Seq(Chunk) /\ Len(Tail(pending)) = Len(pending) - 1
        /\ \A i \in 1..Len(pending) - 1 : Tail(pending)[i] = pending[i + 1]
    BY <2>1, <2>3, HeadTail
  <2>5. QueueTyped'
    <3>1. \A i \in 1..Len(pending') : pending'[i].through <= lastQueued
      <4>1. SUFFICES ASSUME NEW i \in 1..Len(pending')
                     PROVE  pending'[i].through <= lastQueued
        OBVIOUS
      <4>2. i \in 1..Len(pending) - 1 /\ i + 1 \in 1..Len(pending)
        BY <2>1, <2>4
      <4>3. QED
        BY <2>1, <2>3, <2>4, <4>2
    <3>2. pending' \in Seq(Chunk) /\ paused' \in BOOLEAN /\ UNCHANGED lastQueued
      BY <2>1, <2>4
    <3>3. QED
      BY <2>2, <3>1, <3>2 DEF TypeInv, QueueTyped
  <2>6. DrainTyped'
    <3>1. chunk.data \in Data /\ chunk.through \in 0..MaxUnits /\ chunk.reset \in BOOLEAN
      BY <2>4 DEF Chunk
    <3> HIDE DEF chunk
    <3>2. write \in Script
      BY <2>3, <3>1, ScriptType
    <3>3. /\ awaited' \in [id : Nat, through : 0..MaxUnits] /\ awaited'.through = chunk.through
      BY <2>1, <2>3, <3>1
    <3>4. chunk.through <= lastQueued
      BY <2>3, <2>4
    <3> HIDE DEF write
    <3>5. sending' \in Seq(Script) /\ Len(sending') <= 1
      BY <2>1, <3>2
    <3>6. QED
      BY <2>1, <3>3, <3>4, <3>5 DEF TypeInv, DrainTyped
  <2>7. LifeTyped' /\ WaitsTyped'
    BY <2>1, <2>2 DEF TypeInv, LifeTyped, WaitsTyped, lifeVars
  <2>8. QED
    BY <2>2, <2>5, <2>6, <2>7 DEF TypeInv
<1>3. CASE AckTimeout
  <2>1. UNCHANGED <<sessionVars, pending, lastQueued, lifeVars, scripts, sending, lastSent,
                    pageVars, suspension, checkpoint, request>> /\ ReportFatal
    BY <1>3 DEF AckTimeout
  <2>2. SessionTyped' /\ PageTyped' /\ sequence' = sequence
    BY <2>1, TypeKept
  <2>3. paused' \in BOOLEAN /\ awaited' = None /\ fatal' = TRUE
    BY <2>1 DEF ReportFatal
  <2>4. QueueTyped' /\ LifeTyped' /\ WaitsTyped'
    BY <2>1, <2>2, <2>3 DEF TypeInv, QueueTyped, LifeTyped, WaitsTyped, lifeVars
  <2>5. DrainTyped'
    <3>1. 0 <= lastQueued'
      BY <2>1 DEF TypeInv, QueueTyped, SessionTyped
    <3>2. QED
      BY <2>1, <2>3, <3>1, EmptyTypes DEF TypeInv, DrainTyped
  <2>6. QED
    BY <2>2, <2>4, <2>5 DEF TypeInv
<1>4. QED
  BY <1>1, <1>2, <1>3

\* The types of a step of the page that only moves the drain on.
LEMMA TypePageKept ==
  ASSUME TypeInv, UNCHANGED <<sessionVars, queueVars, lifeVars, scripts, fatal, suspension,
                              checkpoint>>
  PROVE  SessionTyped' /\ QueueTyped' /\ LifeTyped' /\ (UNCHANGED request => WaitsTyped')
         /\ sequence' = sequence /\ lastQueued' = lastQueued
<1>1. SessionTyped' /\ sequence' = sequence
  BY DEF TypeInv, SessionTyped, sessionVars
<1>2. QueueTyped' /\ LifeTyped' /\ lastQueued' = lastQueued
  BY <1>1 DEF TypeInv, QueueTyped, LifeTyped, queueVars, lifeVars
<1>3. UNCHANGED request => WaitsTyped'
  BY <1>1 DEF TypeInv, WaitsTyped
<1>4. QED
  BY <1>1, <1>2, <1>3

\* A slice of a write.
LEMMA SliceIs ==
  ASSUME NEW data \in Data, NEW at \in Nat, NEW end,
         end = IF at + SliceMax < Len(data) THEN at + SliceMax ELSE Len(data)
  PROVE  /\ SubSeq(data, at + 1, end) \in Data /\ end \in 0..Len(data)
         /\ at <= Len(data) => end >= at
         /\ at < Len(data) => end > at
<1>1. Len(data) \in Nat /\ SliceMax \in Nat \ {0}
  BY DataType, ConstantTypes
<1>2. end \in 0..Len(data) /\ (at <= Len(data) => end >= at) /\ (at < Len(data) => end > at)
  BY <1>1
<1>3. SubSeq(data, at + 1, end) \in Data
  <2>1. \A i \in at + 1..end : data[i] \in 1..MaxUnits
    BY <1>1, <1>2, DataType
  <2>2. QED
    BY <1>1, <1>2, <2>1, SubSeqProperties DEF Data
<1>4. QED
  BY <1>2, <1>3

\* the page,
LEMMA TypePage ==
  ASSUME TypeInv, Page
  PROVE  TypeInv'
<1>1. CASE PageRuns
  <2>1. /\ sending # <<>> /\ sending' = <<>>
        /\ UNCHANGED <<sessionVars, queueVars, lifeVars, scripts, awaited, lastSent, offset,
                       frame, display, fatal, suspension, checkpoint, request>>
    BY <1>1 DEF PageRuns
  <2>2. SessionTyped' /\ QueueTyped' /\ LifeTyped' /\ WaitsTyped' /\ lastQueued' = lastQueued
    BY <2>1, TypePageKept
  <2>3. sending[1] \in Script
    BY <2>1, HeadTail DEF TypeInv, DrainTyped
  <2>4. chain' \in Seq(Script) /\ pageActive' \in BOOLEAN
    <3>1. CASE sending[1].kind = "setActive"
      BY <1>1, <2>3, <3>1, ScriptType DEF PageRuns, TypeInv, PageTyped
    <3>2. CASE sending[1].kind # "setActive"
      BY <1>1, <2>3, <3>2 DEF PageRuns, TypeInv, PageTyped
    <3>3. QED
      BY <3>1, <3>2
  <2>5. DrainTyped'
    BY <2>1, <2>2, EmptyTypes DEF TypeInv, DrainTyped
  <2>6. PageTyped'
    BY <2>1, <2>4 DEF TypeInv, PageTyped
  <2>7. QED
    BY <2>2, <2>5, <2>6 DEF TypeInv
<1>2. CASE PageWrites
  <2> DEFINE data  == chain[1].data
             end   == IF offset + SliceMax < Len(data) THEN offset + SliceMax ELSE Len(data)
             shown == IF chain[1].reset /\ offset = 0 THEN <<>> ELSE display
  <2>1. /\ chain # <<>> /\ chain[1].kind = "write"
        /\ display' = shown \o SubSeq(data, offset + 1, end)
        /\ \/ /\ chain' = Tail(chain) /\ offset' = 0 /\ Acknowledge(chain[1].id)
              /\ UNCHANGED frame
           \/ offset' = end /\ frame' \in BOOLEAN /\ UNCHANGED <<chain, awaited, lastSent>>
        /\ UNCHANGED <<sessionVars, queueVars, lifeVars, scripts, sending, pageActive,
                       fatal, suspension, checkpoint, request>>
    BY <1>2 DEF PageWrites
  <2>2. SessionTyped' /\ QueueTyped' /\ LifeTyped' /\ WaitsTyped' /\ lastQueued' = lastQueued
    BY <2>1, TypePageKept
  <2>3. data \in Data /\ Tail(chain) \in Seq(Script)
    BY <2>1, HeadTail, ScriptType DEF TypeInv, PageTyped
  <2>4. display' \in Data /\ end \in Nat
    <3>1. offset \in Nat /\ display \in Data
      BY DEF TypeInv, PageTyped
    <3>2. shown \in Data
      BY <3>1, EmptyTypes
    <3> HIDE DEF data, shown
    <3>3. SubSeq(data, offset + 1, end) \in Data /\ end \in 0..Len(data)
      BY <2>3, <3>1, SliceIs
    <3> HIDE DEF end
    <3>4. Len(data) \in Nat
      BY <2>3, DataType
    <3>5. QED
      BY <2>1, <3>2, <3>3, <3>4, ConcatProperties DEF Data
  <2> HIDE DEF data, end, shown
  <2>5. DrainTyped'
    <3>1. CASE UNCHANGED <<awaited, lastSent>>
      BY <2>1, <2>2, <3>1 DEF TypeInv, DrainTyped
    <3>2. CASE Acknowledge(chain[1].id) /\ ~UNCHANGED <<awaited, lastSent>>
      <4>1. /\ awaited' = None
            /\ lastSent' = IF awaited.through > lastSent THEN awaited.through ELSE lastSent
        BY <3>2 DEF Acknowledge
      <4>2. /\ lastQueued \in Nat /\ lastSent \in 0..lastQueued /\ awaited.through \in Nat
            /\ awaited.through <= lastQueued
        BY DEF TypeInv, SessionTyped, QueueTyped, DrainTyped
      <4>3. lastSent' \in 0..lastQueued
        BY <4>1, <4>2
      <4>4. QED
        BY <2>1, <2>2, <4>1, <4>2, <4>3, EmptyTypes DEF TypeInv, DrainTyped
    <3>3. QED
      BY <2>1, <3>1, <3>2
  <2>6. PageTyped'
    <3>1. chain \in Seq(Script) /\ frame \in BOOLEAN /\ pageActive \in BOOLEAN
      BY DEF TypeInv, PageTyped
    <3>2. chain' \in Seq(Script)
      BY <2>1, <2>3, <3>1
    <3>3. offset' \in Nat /\ frame' \in BOOLEAN /\ pageActive' \in BOOLEAN
      BY <2>1, <2>4, <3>1
    <3>4. QED
      BY <2>4, <3>2, <3>3 DEF PageTyped
  <2>7. QED
    BY <2>2, <2>5, <2>6 DEF TypeInv
<1>3. CASE Frame
  <2>1. SessionTyped' /\ QueueTyped' /\ LifeTyped' /\ WaitsTyped' /\ lastQueued' = lastQueued
    BY <1>3, TypePageKept DEF Frame, drainVars
  <2>2. DrainTyped' /\ PageTyped'
    BY <1>3, <2>1 DEF Frame, TypeInv, DrainTyped, PageTyped, drainVars
  <2>3. QED
    BY <2>1, <2>2 DEF TypeInv
<1>4. CASE PageSnapshots
  <2> DEFINE task == chain[1]
  <2>1. /\ chain # <<>> /\ chain' = Tail(chain) /\ task.kind = "snapshot"
        /\ UNCHANGED <<sessionVars, queueVars, lifeVars, drainVars, offset, frame, display,
                       pageActive, fatal, suspension, checkpoint>>
    BY <1>4 DEF PageSnapshots
  <2>2. /\ SessionTyped' /\ QueueTyped' /\ LifeTyped' /\ lastQueued' = lastQueued
        /\ sequence' = sequence
    BY <2>1, TypePageKept DEF drainVars
  <2>3. task \in Script /\ Tail(chain) \in Seq(Script)
    BY <2>1, HeadTail DEF TypeInv, PageTyped
  <2>4. DrainTyped' /\ PageTyped'
    BY <2>1, <2>2, <2>3 DEF TypeInv, DrainTyped, PageTyped, drainVars
  <2>5. /\ request' \in [Requesters -> [id : Nat, label : 0..MaxUnits, answered : BOOLEAN,
                                        data : Data]]
        /\ \A x \in Requesters : request'[x].label = request[x].label
    <3>1. /\ task.for \in Requesters /\ display \in Data
          /\ request \in [Requesters -> [id : Nat, label : 0..MaxUnits, answered : BOOLEAN,
                                         data : Data]]
      BY <2>1, <2>3, ScriptType DEF TypeInv, WaitsTyped, PageTyped
    <3>2. request' = IF request[task.for].id = task.id
                     THEN [request EXCEPT ![task.for].answered = TRUE,
                                          ![task.for].data = display]
                     ELSE request
      BY <1>4 DEF PageSnapshots
    <3> HIDE DEF task
    <3>3. QED
      BY <3>1, <3>2, ZenonT(30)
  <2>6. WaitsTyped'
    BY <2>1, <2>2, <2>5 DEF TypeInv, WaitsTyped
  <2>7. QED
    BY <2>2, <2>4, <2>6 DEF TypeInv
<1>5. QED
  BY <1>1, <1>2, <1>3, <1>4 DEF Page

\* and so every step.
LEMMA TypeStep ==
  ASSUME TypeInv, [Next]_vars
  PROVE  TypeInv'
<1>1. CASE Widget
  BY <1>1, TypeReady, TypeSuspension, TypeCheckpoint, TypeDrain DEF Widget
<1>2. CASE UNCHANGED vars
  <2>1. SessionTyped' /\ QueueTyped' /\ LifeTyped'
    BY <1>2 DEF vars, TypeInv, SessionTyped, QueueTyped, LifeTyped, sessionVars, queueVars,
                lifeVars
  <2>2. DrainTyped' /\ PageTyped' /\ WaitsTyped'
    BY <1>2 DEF vars, TypeInv, DrainTyped, PageTyped, WaitsTyped, sessionVars, queueVars,
                drainVars, pageVars
  <2>3. QED
    BY <2>1, <2>2 DEF TypeInv
<1>3. QED
  BY <1>1, <1>2, TypeSession, TypeScreen, TypePage DEF Next

\* The types hold in every state, with the bounds that keep them.
THEOREM TypeAlways == Spec => []TypeInv
<1>1. Init => TypeInv
  BY TypeInit
<1>2. TypeInv /\ [Next]_vars => TypeInv'
  BY TypeStep
<1>3. QED
  BY <1>1, <1>2, PTL DEF Spec

\* TypeOK: the types of all variables, and with them that no event is numbered, queued,
\* sent or saved beyond the last event of the session.
THEOREM TypeCorrect == Spec => []TypeOK
<1>1. Spec => []TypeInv
  BY TypeAlways
<1>2. TypeInv => TypeOK
  BY TypeInvTypeOK
<1>3. QED
  BY <1>1, <1>2, PTL

-----------------------------------------------------------------------------
(***************************************************************************)
(* What the page is told, and what it has.  A widget that is not there, or *)
(* whose page is not ready, has nothing under way.  A page that waits for  *)
(* a frame that no one draws, after the wait for its acknowledgement ended *)
(* in failure, is stuck until the widget goes; any other has at most the   *)
(* one write whose acknowledgement is awaited.                             *)
(***************************************************************************)
Gone ==
    ~mounted =>
        /\ ~ready /\ ~active /\ ~attached /\ ~resumeRequested
        /\ pending = <<>> /\ lastQueued = 0 /\ suspension = "no" /\ checkpoint = "no"

Unready ==
    ~ready =>
        /\ scripts = <<>> /\ sending = <<>> /\ awaited = None /\ lastSent = 0
        /\ chain = <<>> /\ offset = 0 /\ ~frame /\ display = <<>>
        /\ request = [r \in Requesters |-> NoRequest]
        /\ suspension \in {"no", "drain"} /\ checkpoint \in {"no", "timer"}

Idle == Gone /\ Unready

Tell(t) == t.kind = "setActive"

\* With last as the last the page was told, and the scripts q to come, it ends at v.
ToldOf(q, last, v) ==
    /\ \A i \in 1..Len(q) :
           Tell(q[i]) /\ (\A j \in i + 1..Len(q) : ~Tell(q[j])) => q[i].value = v
    /\ (\A i \in 1..Len(q) : ~Tell(q[i])) => last = v

LastTold == IF sending # <<>> /\ Tell(sending[1]) THEN sending[1].value ELSE pageActive

\* What the page is to be told: a widget that is about to be switched off has told it.
Wanted == active /\ suspension # "off"

Told == ~fatal /\ ready => ToldOf(scripts, LastTold, Wanted)

Stuck == fatal /\ frame /\ ~visible

No(kind, q) == \A i \in 1..Len(q) : q[i].kind # kind

\* The one write the page has, sent or at the end of its chain.
OneOut ==
    \/ /\ sending # <<>> /\ sending[1].kind = "write" /\ sending[1].id = awaited.id
       /\ No("write", chain)
    \/ /\ sending = <<>> /\ chain # <<>>
       /\ chain[Len(chain)].kind = "write" /\ chain[Len(chain)].id = awaited.id
       /\ \A i \in 1..Len(chain) - 1 : chain[i].kind # "write"

\* No write is a script of the widget.
Scripted == No("write", scripts)

Out ==
    ~Stuck =>
        /\ awaited = None => No("write", sending) /\ No("write", chain)
        /\ awaited # None => No("snapshot", scripts) /\ OneOut

\* What a new script at the end says to the page.
LEMMA ToldAppend ==
  ASSUME NEW q \in Seq(Script), NEW last, NEW v
  PROVE  /\ ToldOf(Append(q, [kind |-> "setActive", value |-> v]), last, v)
         /\ \A t \in Script : ~Tell(t) /\ ToldOf(q, last, v) => ToldOf(Append(q, t), last, v)
<1>1. ASSUME NEW t
      PROVE  /\ Len(Append(q, t)) = Len(q) + 1 /\ Append(q, t)[Len(q) + 1] = t
             /\ \A i \in 1..Len(q) : Append(q, t)[i] = q[i]
  OBVIOUS
<1>2. Len(q) \in Nat
  OBVIOUS
<1>3. ToldOf(Append(q, [kind |-> "setActive", value |-> v]), last, v)
  <2> DEFINE t == [kind |-> "setActive", value |-> v]
             a == Append(q, t)
  <2>1. Tell(t) /\ t.value = v
    BY DEF Tell
  <2>2. /\ Len(a) = Len(q) + 1 /\ a[Len(q) + 1] = t
        /\ \A i \in 1..Len(q) : a[i] = q[i]
    BY <1>1
  <2> HIDE DEF a, t
  <2>3. Tell(a[Len(a)]) /\ a[Len(a)].value = v /\ Len(a) \in Nat \ {0}
    BY <1>2, <2>1, <2>2
  <2>4. ASSUME NEW i \in 1..Len(a), \A j \in i + 1..Len(a) : ~Tell(a[j])
        PROVE  i = Len(a)
    BY <2>3, <2>4
  <2>5. Len(a) \in 1..Len(a)
    BY <2>3
  <2>6. QED
    BY <2>3, <2>4, <2>5 DEF ToldOf, a, t
<1>4. ASSUME NEW t \in Script, ~Tell(t), ToldOf(q, last, v)
      PROVE  ToldOf(Append(q, t), last, v)
  <2> DEFINE a == Append(q, t)
  <2>1. /\ Len(a) = Len(q) + 1 /\ a[Len(q) + 1] = t
        /\ \A i \in 1..Len(q) : a[i] = q[i]
    BY <1>1
  <2> HIDE DEF a
  <2>2. ASSUME NEW i \in 1..Len(a), Tell(a[i]), \A j \in i + 1..Len(a) : ~Tell(a[j])
        PROVE  a[i].value = v
    <3>1. i \in 1..Len(q) /\ a[i] = q[i]
      BY <1>2, <1>4, <2>1, <2>2
    <3>2. \A j \in i + 1..Len(q) : ~Tell(q[j])
      BY <1>2, <2>1, <2>2, <3>1
    <3>3. QED
      BY <1>4, <2>2, <3>1, <3>2 DEF ToldOf
  <2>3. ASSUME \A i \in 1..Len(a) : ~Tell(a[i])
        PROVE  last = v
    <3>1. \A i \in 1..Len(q) : ~Tell(q[i])
      BY <1>2, <2>1, <2>3
    <3>2. QED
      BY <1>4, <3>1 DEF ToldOf
  <2>4. QED
    BY <2>2, <2>3 DEF ToldOf, a
<1>5. QED
  BY <1>3, <1>4

\* What the page is told once it has the first script.
LEMMA ToldTail ==
  ASSUME NEW q \in Seq(Script), q # <<>>, NEW last, NEW v, ToldOf(q, last, v)
  PROVE  ToldOf(Tail(q), IF Tell(q[1]) THEN q[1].value ELSE last, v)
<1> DEFINE t == Tail(q)
<1>1. /\ Len(q) \in Nat \ {0} /\ Len(t) = Len(q) - 1
      /\ \A i \in 1..Len(q) - 1 : t[i] = q[i + 1]
  BY HeadTail
<1> HIDE DEF t
<1>2. ASSUME NEW i \in 1..Len(t), Tell(t[i]), \A j \in i + 1..Len(t) : ~Tell(t[j])
      PROVE  t[i].value = v
  <2>1. i + 1 \in 1..Len(q) /\ t[i] = q[i + 1]
    BY <1>1
  <2>2. \A j \in (i + 1) + 1..Len(q) : ~Tell(q[j])
    <3>1. SUFFICES ASSUME NEW j \in (i + 1) + 1..Len(q)
                   PROVE  ~Tell(q[j])
      OBVIOUS
    <3>2. j - 1 \in i + 1..Len(t) /\ j - 1 \in 1..Len(q) - 1 /\ (j - 1) + 1 = j
      BY <1>1
    <3>3. QED
      BY <1>1, <1>2, <3>2
  <2>3. QED
    BY <1>2, <2>1, <2>2 DEF ToldOf
<1>3. ASSUME \A i \in 1..Len(t) : ~Tell(t[i])
      PROVE  (IF Tell(q[1]) THEN q[1].value ELSE last) = v
  <2>1. \A j \in 2..Len(q) : ~Tell(q[j])
    <3>1. SUFFICES ASSUME NEW j \in 2..Len(q)
                   PROVE  ~Tell(q[j])
      OBVIOUS
    <3>2. j - 1 \in 1..Len(t) /\ j - 1 \in 1..Len(q) - 1 /\ (j - 1) + 1 = j
      BY <1>1
    <3>3. QED
      BY <1>1, <1>3, <3>2
  <2>2. 1 \in 1..Len(q) /\ \A j \in 1..Len(q) : j = 1 \/ j \in 2..Len(q)
    BY <1>1
  <2>3. QED
    BY <2>1, <2>2 DEF ToldOf
<1>4. QED
  BY <1>2, <1>3 DEF ToldOf, t

\* At first there is no widget.
LEMMA IdleInit == Init => Idle
  BY DEF Init, Idle, Gone, Unready

\* A widget that is gone, or whose page is not ready, gets nothing under way.
LEMMA IdleStep ==
  ASSUME TypeInv, Idle, [Next]_vars
  PROVE  Idle'
<1> USE DEF Idle
<1>1. CASE Session
  <2>1. CASE Receive
    BY <2>1 DEF Receive, Gone, Unready, queueVars, lifeVars, drainVars, pageVars
  <2>2. CASE Flush
    <3>1. UNCHANGED <<lifeVars, drainVars, pageVars, suspension, request>>
      BY <2>2 DEF Flush
    <3>2. (attached /\ active) \/ UNCHANGED <<queueVars, checkpoint>>
      BY <2>2 DEF Flush
    <3>3. ~ready => UNCHANGED checkpoint
      BY <2>2 DEF Flush, ScheduleCheckpoint
    <3>4. Gone'
      BY <3>1, <3>2 DEF Gone, lifeVars, queueVars
    <3>5. Unready'
      BY <3>1, <3>3 DEF Unready, lifeVars, drainVars, pageVars
    <3>6. QED
      BY <3>4, <3>5
  <2>3. QED
    BY <1>1, <2>1, <2>2 DEF Session
<1>2. ASSUME Dispose
      PROVE  Idle'
  BY <1>2 DEF Dispose, Gone, Unready
<1>3. ASSUME Suspend
      PROVE  Idle'
  <2>1. Gone'
    BY <1>3 DEF Suspend, Gone
  <2>2. Unready'
    BY <1>3 DEF Suspend, Unready, drainVars, pageVars
  <2>3. QED
    BY <2>1, <2>2
<1>4. ASSUME Reactivate, mounted', UNCHANGED <<ready, sending, awaited, lastSent, pageVars, request>>,
             suspension' \in {suspension, "no"}
      PROVE  Idle'
  <2>1. Gone'
    BY <1>4 DEF Gone
  <2>2. ASSUME ~ready'
        PROVE  UNCHANGED <<scripts, checkpoint>>
    BY <1>4, <2>2 DEF Reactivate, Synchronize, ScheduleCheckpoint
  <2>3. Unready'
    BY <1>4, <2>2 DEF Unready, pageVars
  <2>4. QED
    BY <2>1, <2>3
<1>5. CASE Screen
  <2>1. CASE Mount
    BY <2>1 DEF Mount, Gone, Unready
  <2>2. CASE Show
    <3>1. CASE Reactivate
      <4>1. mounted
        BY <2>2, <3>1 DEF Show, Reactivate, Gone
      <4>2. QED
        BY <1>4, <2>2, <3>1, <4>1 DEF Show
    <3>2. CASE /\ attached' = (attached \/ (mounted /\ suspension = "no"))
               /\ UNCHANGED <<active, scripts, queueVars, checkpoint>>
      <4>1. Gone'
        BY <2>2, <3>2 DEF Show, Gone, queueVars
      <4>2. Unready'
        BY <2>2, <3>2 DEF Show, Unready, pageVars
      <4>3. QED
        BY <4>1, <4>2
    <3>3. QED
      BY <2>2, <3>1, <3>2 DEF Show
  <2>3. QED
    BY <1>2, <1>3, <1>5, <2>1, <2>2 DEF Screen, Unmount, Replace, Hide, Leave
<1>6. ASSUME SuspendEnds, suspension # "no",
             UNCHANGED <<mounted, ready, resumeRequested, sending, awaited, lastSent, pageVars, request>>
      PROVE  Idle'
  <2>1. mounted
    BY <1>6 DEF Gone
  <2>2. CASE Reactivate /\ suspension' = "no"
    BY <1>4, <1>6, <2>1, <2>2
  <2>3. CASE suspension' = "no" /\ UNCHANGED <<scripts, checkpoint>>
    BY <1>6, <2>1, <2>3 DEF Gone, Unready, pageVars
  <2>4. QED
    BY <1>6, <2>2, <2>3 DEF SuspendEnds
<1>7. CASE Widget
  <2>1. CASE Ready \/ ReadyTimeout
    BY <2>1 DEF Ready, ReadyTimeout, ReportFatal, Gone, Unready, lifeVars, pageVars
  <2>2. CASE SuspendDrained
    <3>1. CASE ready /\ ~fatal
      BY <2>2, <3>1 DEF SuspendDrained, Gone, Unready
    <3>2. CASE ~(ready /\ ~fatal)
      BY <1>6, <2>2, <3>2 DEF SuspendDrained
    <3>3. QED
      BY <3>1, <3>2
  <2>3. CASE SuspendSaves
    BY <2>3 DEF SuspendSaves, Gone, Unready
  <2>4. CASE SuspendTurnsOff
    BY <1>6, <2>4 DEF SuspendTurnsOff
  <2>5. CASE CheckpointFires \/ CheckpointDrained \/ CheckpointSaves
    <3>1. mounted /\ mounted'
      BY <2>5 DEF CheckpointFires, CheckpointDrained, CheckpointSaves, Gone, lifeVars
    <3>2. CASE CheckpointFires
      BY <3>1, <3>2 DEF CheckpointFires, Gone, Unready, lifeVars, drainVars, pageVars
    <3>3. CASE CheckpointDrained \/ CheckpointSaves
      <4>1. ready /\ ready'
        BY <3>3 DEF CheckpointDrained, CheckpointSaves, Unready, lifeVars
      <4>2. QED
        BY <3>1, <4>1 DEF Gone, Unready
    <3>4. QED
      BY <2>5, <3>2, <3>3
  <2>6. CASE DrainTakesScript \/ DrainTakesOutput \/ AckTimeout
    <3>1. ready /\ ready' /\ mounted /\ mounted'
      BY <2>6 DEF DrainTakesScript, DrainTakesOutput, AckTimeout, Gone, Unready, lifeVars
    <3>2. QED
      BY <3>1 DEF Gone, Unready
  <2>7. QED
    BY <1>7, <2>1, <2>2, <2>3, <2>4, <2>5, <2>6 DEF Widget
<1>8. CASE Page
  <2>1. ready /\ ready' /\ mounted /\ mounted'
    BY <1>8 DEF Page, PageRuns, PageWrites, Frame, PageSnapshots, Gone, Unready, lifeVars
  <2>2. QED
    BY <2>1 DEF Gone, Unready
<1>9. CASE UNCHANGED vars
  BY <1>9 DEF vars, Gone, Unready, queueVars, lifeVars, drainVars, pageVars
<1>10. QED
  BY <1>1, <1>5, <1>7, <1>8, <1>9 DEF Next

\* A page that is stuck stays so until its widget goes.
LEMMA StuckStays ==
  ASSUME TypeInv, Idle, Stuck, [Next]_vars
  PROVE  Stuck' \/ Dispose
<1>1. ready /\ mounted
  BY DEF Idle, Gone, Unready, Stuck
<1>2. CASE Session
  BY <1>2 DEF Session, Receive, Flush, Stuck, lifeVars, pageVars
<1>3. CASE Screen
  BY <1>1, <1>3 DEF Screen, Mount, Unmount, Hide, Leave, Suspend, Show, Replace, Stuck, pageVars
<1>4. CASE Widget
  <2>1. CASE Ready \/ ReadyTimeout
    BY <1>1, <2>1 DEF Ready, ReadyTimeout
  <2>2. CASE SuspendDrained \/ SuspendSaves \/ SuspendTurnsOff
    BY <2>2 DEF SuspendDrained, SuspendSaves, SuspendTurnsOff, Stuck, pageVars
  <2>3. CASE CheckpointFires \/ CheckpointDrained \/ CheckpointSaves
    BY <2>3 DEF CheckpointFires, CheckpointDrained, CheckpointSaves, Stuck, pageVars, lifeVars
  <2>4. CASE DrainTakesScript \/ DrainTakesOutput \/ AckTimeout
    BY <2>4 DEF DrainTakesScript, DrainTakesOutput, AckTimeout, ReportFatal, Stuck, pageVars, lifeVars
  <2>5. QED
    BY <1>4, <2>1, <2>2, <2>3, <2>4 DEF Widget
<1>5. CASE Page
  BY <1>5 DEF Page, PageRuns, PageWrites, Frame, PageSnapshots, Stuck, lifeVars
<1>6. CASE UNCHANGED vars
  BY <1>6 DEF vars, Stuck, lifeVars, pageVars
<1>7. QED
  BY <1>2, <1>3, <1>4, <1>5, <1>6 DEF Next

-----------------------------------------------------------------------------
(* What the page is told.                                                  *)

\* A step that touches neither the scripts nor what the page should know.
LEMMA ToldKept ==
  ASSUME Told, UNCHANGED <<scripts, sending, pageActive, ready, active>>, fatal => fatal',
         suspension' = "off" <=> suspension = "off"
  PROVE  Told'
<1>1. LastTold' = LastTold
  BY DEF LastTold, Tell
<1>2. Wanted' = Wanted
  BY DEF Wanted
<1>3. ToldOf(scripts', LastTold', Wanted') <=> ToldOf(scripts, LastTold, Wanted)
  BY <1>1, <1>2
<1>4. QED
  BY <1>3 DEF Told, ToldOf, Tell

\* A script more that tells the page what is wanted.
LEMMA ToldNew ==
  ASSUME TypeInv, scripts' = Append(scripts, [kind |-> "setActive", value |-> Wanted'])
  PROVE  Told'
<1>1. scripts \in Seq(Script)
  BY DEF TypeInv, DrainTyped
<1>2. ToldOf(scripts', LastTold', Wanted')
  BY <1>1, ToldAppend
<1>3. QED
  BY <1>2 DEF Told, ToldOf, Tell

\* A script more that tells the page nothing.
LEMMA ToldMore ==
  ASSUME TypeInv, Told, NEW t \in Script, ~Tell(t), scripts' = Append(scripts, t),
         UNCHANGED <<sending, pageActive, ready, fatal, active>>,
         suspension' = "off" <=> suspension = "off"
  PROVE  Told'
<1>1. scripts \in Seq(Script)
  BY DEF TypeInv, DrainTyped
<1>2. LastTold' = LastTold /\ Wanted' = Wanted
  BY DEF LastTold, Tell, Wanted
<1>3. ToldOf(scripts, LastTold, Wanted) => ToldOf(scripts', LastTold, Wanted)
  BY <1>1, ToldAppend
<1>4. QED
  BY <1>2, <1>3 DEF Told, ToldOf, Tell

\* A widget that is active again says so.
LEMMA ToldReactivate ==
  ASSUME TypeInv, Told, Reactivate, UNCHANGED <<ready, fatal>>, suspension' = "no"
  PROVE  Told'
<1>1. CASE ready
  <2>1. scripts' = Append(scripts, [kind |-> "setActive", value |-> TRUE])
    BY <1>1 DEF Reactivate
  <2>2. Wanted' = TRUE
    BY DEF Reactivate, Wanted
  <2>3. QED
    BY <2>1, <2>2, ToldNew
<1>2. CASE ~ready
  BY <1>2 DEF Told
<1>3. QED
  BY <1>1, <1>2

\* The end of a suspension leaves the page as it was told, or tells it.
LEMMA ToldSuspendEnds ==
  ASSUME TypeInv, Told, SuspendEnds, suspension = "off" \/ ~ready \/ fatal,
         UNCHANGED <<sending, pageActive, ready, fatal>>
  PROVE  Told'
<1>1. CASE resumeRequested
  BY <1>1, ToldReactivate DEF SuspendEnds
<1>2. CASE ~resumeRequested
  <2>1. active' = FALSE /\ suspension' = "no" /\ UNCHANGED scripts
    BY <1>2 DEF SuspendEnds
  <2>2. CASE suspension = "off"
    <3>1. Wanted' = FALSE /\ Wanted = FALSE
      BY <2>1, <2>2 DEF Wanted
    <3>2. LastTold' = LastTold
      BY DEF LastTold, Tell
    <3>3. QED
      BY <2>1, <3>1, <3>2 DEF Told, ToldOf, Tell
  <2>3. CASE ~ready \/ fatal
    BY <2>3 DEF Told
  <2>4. QED
    BY <2>2, <2>3
<1>3. QED
  BY <1>1, <1>2

\* Every step keeps the page told.
LEMMA ToldStep ==
  ASSUME TypeInv, Idle, Told, [Next]_vars
  PROVE  Told'
<1>1. ASSUME Dispose
      PROVE  Told'
  BY <1>1 DEF Dispose, Told
<1>2. CASE Session
  <2>1. UNCHANGED <<scripts, sending, pageActive, ready, active, fatal, suspension>>
    BY <1>2 DEF Session, Receive, Flush, lifeVars, drainVars, pageVars
  <2>2. QED
    BY <2>1, ToldKept
<1>3. CASE Screen
  <2>1. CASE Mount
    BY <2>1 DEF Mount, Told
  <2>2. CASE Hide \/ Leave
    <3>1. UNCHANGED <<scripts, sending, pageActive, ready, active, fatal>>
          /\ (suspension' = "off" <=> suspension = "off")
      BY <2>2 DEF Hide, Leave, Suspend, drainVars, pageVars
    <3>2. QED
      BY <3>1, ToldKept
  <2>3. CASE Show
    <3>1. CASE Reactivate /\ suspension = "no"
      BY <2>3, <3>1, ToldReactivate DEF Show
    <3>2. CASE UNCHANGED <<active, scripts, queueVars, checkpoint>>
      <4>1. UNCHANGED <<scripts, sending, pageActive, ready, active, fatal, suspension>>
        BY <2>3, <3>2 DEF Show, pageVars
      <4>2. QED
        BY <4>1, ToldKept
    <3>3. QED
      BY <2>3, <3>1, <3>2 DEF Show
  <2>4. QED
    BY <1>1, <1>3, <2>1, <2>2, <2>3 DEF Screen, Unmount, Replace
<1>4. CASE Widget
  <2>1. CASE Ready
    <3>1. suspension # "off" /\ UNCHANGED <<active, suspension>> /\ active \in BOOLEAN
      BY <2>1 DEF Ready, Idle, Unready, TypeInv, LifeTyped
    <3>2. Wanted' = active
      BY <3>1 DEF Wanted
    <3>3. scripts' = Append(scripts, [kind |-> "setActive", value |-> active])
      BY <2>1 DEF Ready
    <3>4. QED
      BY <3>2, <3>3, ToldNew
  <2>2. CASE ReadyTimeout \/ AckTimeout
    BY <2>2 DEF ReadyTimeout, AckTimeout, ReportFatal, Told
  <2>3. CASE SuspendDrained
    <3>1. CASE ready /\ ~fatal
      <4>1. /\ RequestSnapshot("suspend") /\ suspension = "drain" /\ suspension' = "snapshot"
            /\ UNCHANGED <<active, ready, sending, pageActive, fatal>>
        BY <2>3, <3>1 DEF SuspendDrained, pageVars
      <4> DEFINE t == [kind |-> "snapshot", for |-> "suspend", id |-> FreshId, label |-> lastSent]
      <4>2. t \in Script /\ ~Tell(t) /\ scripts' = Append(scripts, t)
        <5>1. t \in Script
          BY RequestScript DEF Requesters
        <5>2. QED
          BY <4>1, <5>1 DEF RequestSnapshot, Tell
      <4> HIDE DEF t
      <4>3. QED
        BY <4>1, <4>2, ToldMore
    <3>2. CASE ~(ready /\ ~fatal)
      <4>1. SuspendEnds /\ UNCHANGED <<sending, pageActive, ready, fatal>> /\ (~ready \/ fatal)
        BY <2>3, <3>2 DEF SuspendDrained, pageVars
      <4>2. QED
        BY <4>1, ToldSuspendEnds
    <3>3. QED
      BY <3>1, <3>2
  <2>4. CASE SuspendSaves
    <3>1. UNCHANGED <<active, ready, sending, pageActive, fatal>> /\ suspension = "snapshot"
      BY <2>4 DEF SuspendSaves, pageVars
    <3>2. CASE resumeRequested
      <4>1. UNCHANGED scripts /\ suspension' = "no"
        BY <2>4, <3>2 DEF SuspendSaves
      <4>2. QED
        BY <3>1, <4>1, ToldKept
    <3>3. CASE ~resumeRequested
      <4>1. /\ scripts' = Append(scripts, [kind |-> "setActive", value |-> FALSE])
            /\ suspension' = "off"
        BY <2>4, <3>3 DEF SuspendSaves
      <4>2. Wanted' = FALSE
        BY <4>1 DEF Wanted
      <4>3. QED
        BY <4>1, <4>2, ToldNew
    <3>4. QED
      BY <3>2, <3>3
  <2>5. CASE SuspendTurnsOff
    <3>1. SuspendEnds /\ UNCHANGED <<sending, pageActive, ready, fatal>> /\ suspension = "off"
      BY <2>5 DEF SuspendTurnsOff, pageVars
    <3>2. QED
      BY <3>1, ToldSuspendEnds
  <2>6. CASE CheckpointFires \/ CheckpointSaves
    <3>1. UNCHANGED <<scripts, sending, pageActive, ready, active, fatal, suspension>>
      BY <2>6 DEF CheckpointFires, CheckpointSaves, lifeVars, drainVars, pageVars
    <3>2. QED
      BY <3>1, ToldKept
  <2>7. CASE CheckpointDrained
    <3>1. UNCHANGED <<sending, pageActive, ready, active, fatal, suspension>>
      BY <2>7 DEF CheckpointDrained, lifeVars, pageVars
    <3>2. CASE RequestSnapshot("checkpoint")
      <4> DEFINE t == [kind |-> "snapshot", for |-> "checkpoint", id |-> FreshId, label |-> lastSent]
      <4>1. t \in Script /\ ~Tell(t) /\ scripts' = Append(scripts, t)
        <5>1. t \in Script
          BY RequestScript DEF Requesters
        <5>2. QED
          BY <3>2, <5>1 DEF RequestSnapshot, Tell
      <4> HIDE DEF t
      <4>2. QED
        BY <3>1, <4>1, ToldMore
    <3>3. CASE UNCHANGED scripts
      BY <3>1, <3>3, ToldKept
    <3>4. QED
      BY <2>7, <3>2, <3>3 DEF CheckpointDrained
  <2>8. CASE DrainTakesScript
    <3>1. /\ sending = <<>> /\ scripts # <<>> /\ sending' = <<Head(scripts)>>
          /\ scripts' = Tail(scripts)
          /\ UNCHANGED <<pageActive, ready, active, fatal, suspension>>
      BY <2>8 DEF DrainTakesScript, Draining, lifeVars, pageVars
    <3>2. scripts \in Seq(Script) /\ Head(scripts) = scripts[1]
      BY <3>1, HeadTail DEF TypeInv, DrainTyped
    <3>3. LastTold = pageActive
      BY <3>1 DEF LastTold
    <3>4. sending' # <<>> /\ sending'[1] = scripts[1]
      BY <3>1, <3>2
    <3>5. LastTold' = IF Tell(scripts[1]) THEN scripts[1].value ELSE pageActive
      BY <3>1, <3>4 DEF LastTold, Tell
    <3>6. Wanted' = Wanted
      BY <3>1 DEF Wanted
    <3>7. ToldOf(scripts, LastTold, Wanted) => ToldOf(scripts', LastTold', Wanted)
      BY <3>1, <3>2, <3>3, <3>5, ToldTail
    <3>8. QED
      BY <3>1, <3>6, <3>7 DEF Told, ToldOf, Tell
  <2>9. CASE DrainTakesOutput
    <3>1. /\ sending = <<>> /\ sending' # <<>> /\ sending'[1].kind = "write"
          /\ UNCHANGED <<scripts, pageActive, ready, active, fatal, suspension>>
      BY <2>9 DEF DrainTakesOutput, Draining, lifeVars, pageVars
    <3>2. LastTold' = LastTold /\ Wanted' = Wanted
      BY <3>1 DEF LastTold, Wanted, Tell
    <3>3. QED
      BY <3>1, <3>2 DEF Told, ToldOf, Tell
  <2>10. QED
    BY <1>4, <2>1, <2>2, <2>3, <2>4, <2>5, <2>6, <2>7, <2>8, <2>9 DEF Widget
<1>5. CASE Page
  <2>1. CASE PageRuns
    <3>1. /\ sending # <<>> /\ sending' = <<>>
          /\ UNCHANGED <<scripts, ready, active, fatal, suspension>>
          /\ pageActive' = IF Tell(sending[1]) THEN sending[1].value ELSE pageActive
      BY <2>1 DEF PageRuns, lifeVars, Tell
    <3>2. LastTold' = LastTold /\ Wanted' = Wanted
      BY <3>1 DEF LastTold, Wanted, Tell
    <3>3. QED
      BY <3>1, <3>2 DEF Told, ToldOf, Tell
  <2>2. CASE PageWrites \/ Frame \/ PageSnapshots
    <3>1. UNCHANGED <<scripts, sending, pageActive, ready, active, fatal, suspension>>
      BY <2>2 DEF PageWrites, Frame, PageSnapshots, lifeVars, drainVars
    <3>2. QED
      BY <3>1, ToldKept
  <2>3. QED
    BY <1>5, <2>1, <2>2 DEF Page
<1>6. CASE UNCHANGED vars
  <2>1. UNCHANGED <<scripts, sending, pageActive, ready, active, fatal, suspension>>
    BY <1>6 DEF vars, lifeVars, drainVars, pageVars
  <2>2. QED
    BY <2>1, ToldKept
<1>7. QED
  BY <1>2, <1>3, <1>4, <1>5, <1>6 DEF Next

-----------------------------------------------------------------------------
(* What the page has.                                                      *)

\* Arithmetic.
LEMMA One ==
  ASSUME NEW n \in Nat \ {0}, n <= 1 \/ 1 \notin 1..n - 1
  PROVE  n = 1
  OBVIOUS

\* A queue with no script of a kind, and what is added or taken.
LEMMA NoIs ==
  ASSUME NEW S, NEW q \in Seq(S), NEW kind, No(kind, q)
  PROVE  /\ \A t : t.kind # kind => No(kind, Append(q, t))
         /\ q # <<>> => No(kind, Tail(q)) /\ Head(q).kind # kind
<1>1. ASSUME NEW t, t.kind # kind
      PROVE  No(kind, Append(q, t))
  <2> DEFINE a == Append(q, t)
  <2>1. Len(a) = Len(q) + 1 /\ a[Len(q) + 1] = t /\ \A i \in 1..Len(q) : a[i] = q[i]
        /\ Len(q) \in Nat
    OBVIOUS
  <2> HIDE DEF a
  <2>2. \A i \in 1..Len(a) : a[i].kind # kind
    BY <1>1, <2>1 DEF No
  <2>3. QED
    BY <2>2 DEF No, a
<1>2. ASSUME q # <<>>
      PROVE  No(kind, Tail(q)) /\ Head(q).kind # kind
  <2>1. /\ Len(q) \in Nat \ {0} /\ Head(q) = q[1] /\ Len(Tail(q)) = Len(q) - 1
        /\ \A i \in 1..Len(q) - 1 : Tail(q)[i] = q[i + 1]
    BY <1>2, HeadTail
  <2>2. 1 \in 1..Len(q) /\ \A i \in 1..Len(q) - 1 : i + 1 \in 1..Len(q)
    BY <2>1
  <2>3. QED
    BY <2>1, <2>2 DEF No
<1>3. QED
  BY <1>1, <1>2

\* The scripts of a step: as they are, one more, or one less.
ScriptsMove ==
    \/ UNCHANGED scripts
    \/ scripts' = <<>>
    \/ \E t \in Script : t.kind # "write" /\ scripts' = Append(scripts, t)
                         /\ (t.kind = "snapshot" => awaited = None)
    \/ scripts # <<>> /\ scripts' = Tail(scripts)

\* The end of a suspension adds setActive, or nothing.
LEMMA MovesSuspendEnds ==
  ASSUME SuspendEnds
  PROVE  ScriptsMove
<1>1. [kind |-> "setActive", value |-> TRUE] \in Script
  BY ScriptType
<1>2. QED
  BY <1>1 DEF SuspendEnds, Reactivate, ScriptsMove

\* A request adds its script when nothing is under way.
LEMMA MovesRequest ==
  ASSUME TypeInv, NEW r \in Requesters, RequestSnapshot(r), Drained
  PROVE  ScriptsMove
<1> DEFINE t == [kind |-> "snapshot", for |-> r, id |-> FreshId, label |-> lastSent]
<1>1. t \in Script /\ t.kind = "snapshot"
  BY RequestScript
<1>2. scripts' = Append(scripts, t)
  BY DEF RequestSnapshot
<1> HIDE DEF t
<1>3. awaited = None
  BY DEF Drained, Draining
<1>4. QED
  BY <1>1, <1>2, <1>3 DEF ScriptsMove

\* What every step does to the scripts that wait.
LEMMA Moves ==
  ASSUME TypeInv, [Next]_vars
  PROVE  ScriptsMove
<1>1. \A v \in BOOLEAN : [kind |-> "setActive", value |-> v] \in Script
  BY ScriptType
<1>2. CASE Session
  BY <1>2 DEF Session, Receive, Flush, drainVars, ScriptsMove
<1>3. CASE Screen
  <2>1. CASE Show
    BY <1>1, <2>1 DEF Show, Reactivate, ScriptsMove
  <2>2. CASE ~Show
    BY <1>3, <2>2 DEF Screen, Mount, Unmount, Hide, Leave, Suspend, Replace, Dispose, drainVars,
                      ScriptsMove
  <2>3. QED
    BY <2>1, <2>2
<1>4. CASE Widget
  <2>1. CASE Ready
    <3>1. active \in BOOLEAN
      BY DEF TypeInv, LifeTyped
    <3>2. QED
      BY <1>1, <2>1, <3>1 DEF Ready, ScriptsMove
  <2>2. CASE SuspendDrained
    BY <2>2, MovesSuspendEnds, MovesRequest DEF SuspendDrained, Requesters
  <2>3. CASE SuspendSaves
    BY <1>1, <2>3 DEF SuspendSaves, ScriptsMove
  <2>4. CASE SuspendTurnsOff
    BY <2>4, MovesSuspendEnds DEF SuspendTurnsOff
  <2>5. CASE CheckpointDrained
    BY <2>5, MovesRequest DEF CheckpointDrained, Requesters, ScriptsMove
  <2>6. CASE ReadyTimeout \/ CheckpointFires \/ CheckpointSaves \/ AckTimeout \/ DrainTakesOutput
    BY <2>6 DEF ReadyTimeout, CheckpointFires, CheckpointSaves, AckTimeout, DrainTakesOutput,
                drainVars, ScriptsMove
  <2>7. CASE DrainTakesScript
    BY <2>7 DEF DrainTakesScript, ScriptsMove
  <2>8. QED
    BY <1>4, <2>1, <2>2, <2>3, <2>4, <2>5, <2>6, <2>7 DEF Widget
<1>5. CASE Page
  BY <1>5 DEF Page, PageRuns, PageWrites, Frame, PageSnapshots, drainVars, ScriptsMove
<1>6. CASE UNCHANGED vars
  BY <1>6 DEF vars, drainVars, ScriptsMove
<1>7. QED
  BY <1>2, <1>3, <1>4, <1>5, <1>6 DEF Next

\* No write waits among the scripts, and no snapshot while a write is awaited.
LEMMA ScriptedStep ==
  ASSUME TypeInv, Scripted, [Next]_vars
  PROVE  Scripted' /\ (awaited # None /\ No("snapshot", scripts) => No("snapshot", scripts'))
<1>1. ScriptsMove
  BY Moves
<1>2. scripts \in Seq(Script)
  BY DEF TypeInv, DrainTyped
<1>3. No("write", scripts) => No("write", scripts')
  <2>1. CASE scripts' = <<>>
    BY <2>1 DEF No
  <2>2. CASE scripts' # <<>>
    BY <1>1, <1>2, <2>2, NoIs DEF ScriptsMove
  <2>3. QED
    BY <2>1, <2>2
<1>4. awaited # None /\ No("snapshot", scripts) => No("snapshot", scripts')
  <2>1. CASE scripts' = <<>>
    BY <2>1 DEF No
  <2>2. CASE scripts' # <<>>
    BY <1>1, <1>2, <2>2, NoIs DEF ScriptsMove
  <2>3. QED
    BY <2>1, <2>2
<1>5. QED
  BY <1>3, <1>4 DEF Scripted, No

\* A step that leaves the page and what is sent alone.
LEMMA OutKept ==
  ASSUME TypeInv, Scripted, Out, [Next]_vars, UNCHANGED <<sending, chain, awaited>>,
         Stuck => Stuck'
  PROVE  Out'
<1>1. awaited # None /\ No("snapshot", scripts) => No("snapshot", scripts')
  BY ScriptedStep
<1>2. OneOut <=> OneOut'
  BY DEF OneOut, No
<1>3. QED
  BY <1>1, <1>2 DEF Out, No

\* Every step keeps the one write, unless the page is stuck.
LEMMA OutStep ==
  ASSUME TypeInv, Idle, Scripted, Out, [Next]_vars
  PROVE  Out'
<1>1. CASE Stuck /\ ~Dispose
  <2>1. Stuck'
    BY <1>1, StuckStays
  <2>2. QED
    BY <2>1 DEF Out, Stuck
<1>2. CASE Dispose
  BY <1>2 DEF Dispose, Out, No
<1>3. CASE ~Stuck /\ ~Dispose
  <2>1. CASE UNCHANGED <<sending, chain, awaited>>
    BY <1>3, <2>1, OutKept
  <2>2. CASE Mount
    BY <2>2 DEF Mount, Out, No
  <2>3. CASE ReadyTimeout
    <3>1. UNCHANGED <<sending, chain, awaited>>
      BY <2>3 DEF ReadyTimeout, ReportFatal, pageVars, Idle, Unready
    <3>2. QED
      BY <1>3, <3>1, OutKept
  <2>4. CASE AckTimeout
    <3>1. Stuck'
      BY <2>4 DEF AckTimeout, ReportFatal, Stuck, lifeVars, pageVars
    <3>2. QED
      BY <3>1 DEF Out, Stuck
  <2>5. CASE DrainTakesScript
    <3>1. /\ sending = <<>> /\ awaited = None /\ scripts # <<>>
          /\ sending' = <<Head(scripts)>> /\ UNCHANGED <<chain, awaited>>
      BY <2>5 DEF DrainTakesScript, Draining, pageVars
    <3>2. Head(scripts).kind # "write" /\ Head(scripts) \in Script
      BY <3>1, NoIs, HeadTail DEF Scripted, TypeInv, DrainTyped
    <3>3. No("write", sending')
      BY <3>1, <3>2 DEF No
    <3>4. QED
      BY <1>3, <3>1, <3>3 DEF Out, No
  <2>6. CASE DrainTakesOutput
    <3>1. /\ sending = <<>> /\ awaited = None /\ scripts = <<>> /\ scripts' = <<>>
          /\ UNCHANGED chain /\ sending' # <<>> /\ sending'[1].kind = "write"
          /\ sending'[1].id = FreshId /\ awaited'.id = FreshId
      BY <2>6 DEF DrainTakesOutput, Draining, pageVars
    <3>2. No("write", chain') /\ No("snapshot", scripts')
      BY <1>3, <3>1 DEF Out, No
    <3>3. OneOut'
      BY <3>1, <3>2 DEF OneOut, No
    <3>4. awaited' # None
      BY <3>1, FreshIdIs, EmptyTypes DEF TypeInv, DrainTyped, PageTyped
    <3>5. QED
      BY <3>2, <3>3, <3>4 DEF Out, No
  <2>7. CASE PageRuns
    <3> DEFINE t == sending[1]
    <3>1. /\ sending # <<>> /\ sending' = <<>> /\ UNCHANGED <<scripts, awaited>>
          /\ chain' = IF t.kind = "setActive" THEN chain ELSE Append(chain, t)
      BY <2>7 DEF PageRuns
    <3>2. chain \in Seq(Script) /\ sending \in Seq(Script) /\ Len(sending) = 1 /\ t \in Script
      <4>1. chain \in Seq(Script) /\ sending \in Seq(Script) /\ Len(sending) <= 1
        BY DEF TypeInv, PageTyped, DrainTyped
      <4>2. Len(sending) \in Nat \ {0} /\ Head(sending) = sending[1] /\ Head(sending) \in Script
        BY <3>1, <4>1, HeadTail
      <4>3. Len(sending) = 1
        BY <4>1, <4>2, One
      <4>4. QED
        BY <4>1, <4>2, <4>3
    <3> DEFINE n == Len(chain)
               a == Append(chain, t)
    <3>3. /\ n \in Nat /\ Len(a) = n + 1 /\ a[n + 1] = t /\ \A i \in 1..n : a[i] = chain[i]
          /\ a # <<>>
      BY <3>2
    <3> HIDE DEF a, n
    <3>4. CASE awaited = None
      <4>1. t.kind # "write" /\ No("write", chain)
        BY <1>3, <3>2, <3>4 DEF Out, No
      <4>2. No("write", chain')
        BY <3>1, <3>2, <4>1, NoIs
      <4>3. QED
        BY <3>1, <3>4, <4>2 DEF Out, No
    <3>5. CASE awaited # None
      <4>1. t.kind = "write" /\ t.id = awaited.id /\ No("write", chain) /\ No("snapshot", scripts)
        BY <1>3, <3>1, <3>5 DEF Out, OneOut
      <4>2. chain' = a
        BY <3>1, <4>1 DEF a
      <4>3. /\ chain' # <<>> /\ Len(chain') = n + 1 /\ chain'[n + 1] = t
            /\ \A i \in 1..n : chain'[i].kind # "write"
        BY <3>3, <4>1, <4>2 DEF No, n
      <4>4. (n + 1) - 1 = n
        BY <3>3
      <4>5. OneOut'
        BY <3>1, <4>1, <4>3, <4>4 DEF OneOut
      <4>6. QED
        BY <3>1, <3>5, <4>1, <4>5 DEF Out, No
    <3>6. QED
      BY <3>4, <3>5
  <2>8. CASE PageWrites /\ ~UNCHANGED <<sending, chain, awaited>>
    <3>1. /\ chain # <<>> /\ chain[1].kind = "write" /\ chain' = Tail(chain)
          /\ Acknowledge(chain[1].id) /\ UNCHANGED <<scripts, sending>>
      BY <2>8 DEF PageWrites
    <3>2. chain \in Seq(Script) /\ Len(chain) \in Nat \ {0}
      BY <3>1, HeadTail DEF TypeInv, PageTyped
    <3>3. awaited # None
      BY <1>3, <3>1, <3>2 DEF Out, No
    <3>4. sending = <<>> /\ Len(chain) = 1 /\ chain[1].id = awaited.id
      <4>1. OneOut /\ ~No("write", chain)
        BY <1>3, <3>1, <3>2, <3>3 DEF Out, No
      <4>2. /\ sending = <<>> /\ chain[Len(chain)].id = awaited.id
            /\ \A i \in 1..Len(chain) - 1 : chain[i].kind # "write"
        BY <4>1 DEF OneOut
      <4>3. Len(chain) = 1
        <5>1. 1 \notin 1..Len(chain) - 1
          BY <3>1, <4>2
        <5>2. QED
          BY <3>2, <5>1, One
      <4>4. QED
        BY <4>2, <4>3
    <3>5. awaited' = None /\ chain' = <<>>
      BY <3>1, <3>2, <3>4 DEF Acknowledge
    <3>6. QED
      BY <3>1, <3>4, <3>5 DEF Out, No
  <2>9. CASE PageSnapshots
    <3>1. /\ chain # <<>> /\ chain[1].kind = "snapshot" /\ chain' = Tail(chain)
          /\ UNCHANGED <<scripts, sending, awaited>>
      BY <2>9 DEF PageSnapshots, drainVars
    <3>2. /\ chain \in Seq(Script) /\ Len(chain) \in Nat \ {0} /\ Len(chain') = Len(chain) - 1
          /\ \A i \in 1..Len(chain) - 1 : chain'[i] = chain[i + 1]
      BY <3>1, HeadTail DEF TypeInv, PageTyped
    <3>3. No("write", chain) => No("write", chain')
      BY <3>1, <3>2, NoIs
    <3>4. OneOut => OneOut'
      <4>1. ASSUME sending = <<>>, chain[Len(chain)].kind = "write",
                   chain[Len(chain)].id = awaited.id,
                   \A i \in 1..Len(chain) - 1 : chain[i].kind # "write"
            PROVE  OneOut'
        <5>1. Len(chain) # 1
          BY <3>1, <4>1
        <5>2. /\ Len(chain') \in Nat \ {0} /\ Len(chain') + 1 = Len(chain)
              /\ Len(chain') \in 1..Len(chain) - 1
              /\ \A i \in 1..Len(chain') - 1 : i + 1 \in 1..Len(chain) - 1
                                              /\ i \in 1..Len(chain) - 1
          BY <3>2, <5>1
        <5>3. chain'[Len(chain')] = chain[Len(chain)] /\ chain' # <<>>
          BY <3>2, <5>2
        <5>4. \A i \in 1..Len(chain') - 1 : chain'[i].kind # "write"
          BY <3>2, <4>1, <5>2
        <5>5. QED
          BY <3>1, <4>1, <5>3, <5>4 DEF OneOut
      <4>2. QED
        BY <3>1, <3>3, <4>1 DEF OneOut, No
    <3>5. QED
      BY <1>3, <3>1, <3>3, <3>4 DEF Out, No
  <2>10. QED
    <3>1. CASE Session \/ UNCHANGED vars
      BY <2>1, <3>1 DEF Session, Receive, Flush, vars, drainVars, pageVars
    <3>2. CASE Screen
      BY <1>3, <2>1, <2>2, <3>2 DEF Screen, Unmount, Hide, Leave, Show, Replace, Suspend,
                                    drainVars, pageVars
    <3>3. CASE Widget
      BY <2>1, <2>3, <2>4, <2>5, <2>6, <3>3
         DEF Widget, Ready, SuspendDrained, SuspendSaves, SuspendTurnsOff, CheckpointFires,
             CheckpointDrained, CheckpointSaves, drainVars, pageVars
    <3>4. CASE Page
      BY <2>1, <2>7, <2>8, <2>9, <3>4 DEF Page, Frame, drainVars
    <3>5. QED
      BY <3>1, <3>2, <3>3, <3>4 DEF Next
<1>4. QED
  BY <1>1, <1>2, <1>3

Control == TypeInv /\ Idle /\ Told /\ Scripted /\ Out

\* At first nothing is under way.
LEMMA ControlInit == Init => Control
<1>1. SUFFICES ASSUME Init PROVE Control
  OBVIOUS
<1>2. TypeInv /\ Idle
  BY <1>1, TypeInit, IdleInit
<1>3. Told
  BY <1>1 DEF Init, Told
<1>4. scripts = <<>> /\ sending = <<>> /\ chain = <<>> /\ awaited = None
  BY <1>1 DEF Init
<1>5. Scripted /\ Out
  BY <1>4 DEF Scripted, Out, No
<1>6. QED
  BY <1>2, <1>3, <1>5 DEF Control

\* Every step keeps the control part of the invariant.
LEMMA ControlStep ==
  ASSUME Control, [Next]_vars
  PROVE  Control'
<1>1. TypeInv' /\ Idle' /\ Told' /\ Scripted' /\ Out'
  BY TypeStep, IdleStep, ToldStep, ScriptedStep, OutStep DEF Control
<1>2. QED
  BY <1>1 DEF Control

\* The side of two sequences put together at which the place i is.
LEMMA Side ==
  ASSUME NEW m \in Nat, NEW n \in Nat, NEW i \in 1..m + n
  PROVE  /\ i <= m => i \in 1..m
         /\ ~(i <= m) => i - m \in 1..n
         /\ m = 1 /\ i <= m => i = 1
         /\ m = 0 => ~(i <= m) /\ i - m = i /\ (i = n \/ i \in 1..n - 1)
  OBVIOUS

\* What is under way between the widget and its page, in every state.
THEOREM ControlAlways == Spec => []Control
<1>1. Control /\ [Next]_vars => Control'
  BY ControlStep
<1>2. QED
  BY <1>1, ControlInit, PTL DEF Spec

\* OneUnacknowledged: while no wait has failed, of the scripts that are sent or that
\* wait in the page's chain at most one is a write (_drainOperations).
THEOREM OneWriteWaits == Spec => []OneUnacknowledged
<1>1. Control => OneUnacknowledged
  <2>1. SUFFICES ASSUME Control, ~fatal
                 PROVE  LET sent == sending \o chain
                        IN  \A i, j \in DOMAIN sent :
                                sent[i].kind = "write" /\ sent[j].kind = "write" => i = j
    BY DEF OneUnacknowledged
  <2> DEFINE sent == sending \o chain
             m == Len(sending)
             n == Len(chain)
  <2>2. sending \in Seq(Script) /\ chain \in Seq(Script) /\ m \in Nat /\ n \in Nat
        /\ m <= 1
    <3>1. sending \in Seq(Script) /\ chain \in Seq(Script) /\ Len(sending) <= 1
      BY <2>1 DEF Control, TypeInv, DrainTyped, PageTyped
    <3>2. QED
      BY <3>1
  <2>3. /\ DOMAIN sent = 1..m + n
        /\ \A i \in 1..m + n : sent[i] = IF i <= m THEN sending[i] ELSE chain[i - m]
    BY <2>2
  <2> HIDE DEF sent, m, n
  <2>4. CASE awaited = None
    <3>1. No("write", sending) /\ No("write", chain)
      BY <2>1, <2>4 DEF Control, Out, Stuck
    <3>2. ASSUME NEW i \in 1..m + n
          PROVE  sent[i].kind # "write"
      <4>1. (i <= m => i \in 1..m) /\ (~(i <= m) => i - m \in 1..n)
        BY <2>2, Side
      <4>2. (\A x \in 1..m : sending[x].kind # "write") /\ \A x \in 1..n : chain[x].kind # "write"
        BY <3>1 DEF No, m, n
      <4>3. QED
        BY <2>3, <4>1, <4>2
    <3>3. QED
      BY <2>3, <3>2 DEF sent
  <2>5. CASE awaited # None
    <3>1. OneOut
      BY <2>1, <2>5 DEF Control, Out, Stuck
    <3>2. CASE sending # <<>> /\ No("write", chain)
      <4>1. m = 1
        <5>1. m # 0
          BY <2>2, <3>2 DEF m
        <5>2. QED
          BY <2>2, <5>1, One
      <4>2. \A i \in DOMAIN sent : sent[i].kind = "write" => i = 1
        BY <2>2, <2>3, <3>2, <4>1, Side DEF No, n
      <4>3. QED
        BY <4>2 DEF sent
    <3>3. CASE sending = <<>> /\ \A i \in 1..Len(chain) - 1 : chain[i].kind # "write"
      <4>1. m = 0
        BY <3>3 DEF m
      <4>2. \A i \in DOMAIN sent : sent[i].kind = "write" => i = n
        BY <2>2, <2>3, <3>3, <4>1, Side DEF n
      <4>3. QED
        BY <4>2 DEF sent
    <3>4. QED
      BY <3>1, <3>2, <3>3 DEF OneOut
  <2>6. QED
    BY <2>4, <2>5 DEF sent
<1>2. QED
  BY <1>1, ControlAlways, PTL

\* PageAgrees: a widget that has told its page all it had to tell, and whose waits have
\* not failed, agrees with it on whether it is active.
THEOREM AgreesWithPage == Spec => []PageAgrees
<1>1. Control => PageAgrees
  <2>1. SUFFICES ASSUME Control, ready, ~fatal, Drained, suspension = "no"
                 PROVE  pageActive = active
    BY DEF PageAgrees
  <2>2. ToldOf(scripts, LastTold, Wanted) /\ scripts = <<>> /\ sending = <<>>
    BY <2>1 DEF Control, Told, Drained, Draining
  <2>3. LastTold = pageActive
    BY <2>2 DEF LastTold
  <2>4. LastTold = Wanted
    BY <2>2 DEF ToldOf
  <2>5. Wanted = active
    <3>1. active \in BOOLEAN
      BY <2>1 DEF Control, TypeInv, LifeTyped
    <3>2. QED
      BY <2>1, <3>1 DEF Wanted
  <2>6. QED
    BY <2>3, <2>4, <2>5
<1>2. QED
  BY <1>1, ControlAlways, PTL

-----------------------------------------------------------------------------
(***************************************************************************)
(* Where a suspension stands, and a write that is half written.  A widget  *)
(* that is being suspended is active and hears nothing of the session; an  *)
(* active one that is not hears all.                                       *)
(***************************************************************************)
Listens ==
    /\ suspension # "no" => active /\ ~attached
    /\ active /\ suspension = "no" => attached
    /\ resumeRequested => visible

\* Only a widget whose page is ready is suspended.
Settled ==
    /\ suspension # "no" => ready
    /\ mounted /\ ~active => ready

Halfway ==
    /\ frame => offset > 0
    /\ offset > 0 => /\ chain # <<>> /\ chain[1].kind = "write"
                     /\ offset < Len(chain[1].data)

\* Every step keeps who listens.
LEMMA ListensStep ==
  ASSUME Control, Listens, [Next]_vars
  PROVE  Listens'
<1>1. CASE Session \/ Page \/ UNCHANGED vars
  <2>1. UNCHANGED <<suspension, active, attached, resumeRequested, visible>>
    BY <1>1 DEF Session, Receive, Flush, Page, PageRuns, PageWrites, Frame, PageSnapshots,
                vars, lifeVars
  <2>2. QED
    BY <2>1 DEF Listens
<1>2. CASE Screen
  <2>1. CASE Mount
    BY <2>1 DEF Mount, Listens, Control, Idle, Gone
  <2>2. CASE Hide \/ Leave
    BY <2>2 DEF Hide, Leave, Suspend, Listens
  <2>3. CASE Show
    <3>1. mounted \/ ~active
      BY DEF Control, Idle, Gone
    <3>2. QED
      BY <2>3, <3>1 DEF Show, Reactivate, Listens
  <2>4. CASE Unmount \/ Replace
    BY <2>4 DEF Unmount, Replace, Dispose, Listens
  <2>5. QED
    BY <1>2, <2>1, <2>2, <2>3, <2>4 DEF Screen
<1>3. CASE Widget
  <2>1. CASE SuspendDrained \/ SuspendTurnsOff
    BY <2>1 DEF SuspendDrained, SuspendTurnsOff, SuspendEnds, Reactivate, Listens
  <2>2. CASE SuspendSaves
    BY <2>2 DEF SuspendSaves, Listens
  <2>3. CASE ~(SuspendDrained \/ SuspendTurnsOff \/ SuspendSaves)
    <3>1. UNCHANGED <<suspension, active, attached, resumeRequested, visible>>
      BY <1>3, <2>3 DEF Widget, Ready, ReadyTimeout, CheckpointFires, CheckpointDrained,
                        CheckpointSaves, DrainTakesScript, DrainTakesOutput, AckTimeout, lifeVars
    <3>2. QED
      BY <3>1 DEF Listens
  <2>4. QED
    BY <2>1, <2>2, <2>3
<1>4. QED
  BY <1>1, <1>2, <1>3 DEF Next

\* Every step keeps that, where the page is awaited before a suspension.
LEMMA SettledStep ==
  ASSUME ~EarlySuspend, Control, Listens, Settled, [Next]_vars
  PROVE  Settled'
<1>1. CASE Session \/ Page \/ UNCHANGED vars
  <2>1. UNCHANGED <<suspension, active, mounted, ready>>
    BY <1>1 DEF Session, Receive, Flush, Page, PageRuns, PageWrites, Frame, PageSnapshots,
                vars, lifeVars
  <2>2. QED
    BY <2>1 DEF Settled
<1>2. CASE Screen
  <2>1. CASE Mount
    BY <2>1 DEF Mount, Settled, Control, Idle, Gone
  <2>2. CASE Hide \/ Leave
    BY <2>2 DEF Hide, Leave, Suspend, Settled
  <2>3. CASE Show
    BY <2>3 DEF Show, Reactivate, Settled
  <2>4. CASE Unmount \/ Replace
    BY <2>4 DEF Unmount, Replace, Dispose, Settled
  <2>5. QED
    BY <1>2, <2>1, <2>2, <2>3, <2>4 DEF Screen
<1>3. CASE Widget
  <2>1. CASE SuspendDrained \/ SuspendTurnsOff \/ SuspendSaves
    <3>1. ready /\ ready'
      BY <2>1 DEF SuspendDrained, SuspendTurnsOff, SuspendSaves, Settled
    <3>2. QED
      BY <3>1 DEF Settled
  <2>2. CASE Ready
    BY <2>2 DEF Ready, Settled
  <2>3. CASE ~(SuspendDrained \/ SuspendTurnsOff \/ SuspendSaves \/ Ready)
    <3>1. UNCHANGED <<suspension, active, mounted, ready>>
      BY <1>3, <2>3 DEF Widget, ReadyTimeout, CheckpointFires, CheckpointDrained,
                        CheckpointSaves, DrainTakesScript, DrainTakesOutput, AckTimeout, lifeVars
    <3>2. QED
      BY <3>1 DEF Settled
  <2>4. QED
    BY <2>1, <2>2, <2>3
<1>4. QED
  BY <1>1, <1>2, <1>3 DEF Next

\* Every step keeps where a write is.
LEMMA HalfwayStep ==
  ASSUME Control, Halfway, [Next]_vars
  PROVE  Halfway'
<1>1. CASE UNCHANGED pageVars
  BY <1>1 DEF pageVars, Halfway
<1>2. CASE Mount \/ Dispose
  <2>1. offset' = 0 /\ frame' = FALSE
    BY <1>2 DEF Mount, Dispose
  <2>2. ~(offset' > 0) /\ ~frame'
    BY <2>1
  <2>3. QED
    BY <2>2 DEF Halfway
<1>3. CASE PageRuns
  <2>1. UNCHANGED <<offset, frame>>
    BY <1>3 DEF PageRuns
  <2>2. chain # <<>> => chain' # <<>> /\ chain'[1] = chain[1]
    <3>1. chain \in Seq(Script)
      BY DEF Control, TypeInv, PageTyped
    <3>2. CASE UNCHANGED chain
      BY <3>2
    <3>3. CASE chain' = Append(chain, sending[1])
      <4>1. ASSUME chain # <<>> PROVE Len(chain) \in Nat \ {0}
        BY <3>1, <4>1, HeadTail
      <4>2. QED
        BY <3>1, <3>3, <4>1
    <3>4. QED
      BY <1>3, <3>2, <3>3 DEF PageRuns
  <2>3. QED
    BY <2>1, <2>2 DEF Halfway
<1>4. CASE PageWrites
  <2> DEFINE data == chain[1].data
             end == IF offset + SliceMax < Len(data) THEN offset + SliceMax ELSE Len(data)
  <2>1. ~frame /\ chain # <<>> /\ chain[1].kind = "write" /\ offset \in Nat /\ data \in Data
    <3>1. chain # <<>> => chain[1] \in Script
      BY HeadTail DEF Control, TypeInv, PageTyped
    <3>2. QED
      BY <1>4, <3>1, ScriptType DEF PageWrites, Control, TypeInv, PageTyped
  <2>2. IF end = Len(data) THEN offset' = 0 /\ UNCHANGED frame
        ELSE offset' = end /\ UNCHANGED chain
    BY <1>4 DEF PageWrites
  <2>3. end # Len(data) => end > 0 /\ end < Len(data)
    <3>1. SliceMax \in Nat \ {0} /\ Len(data) \in Nat
      BY <2>1, ConstantTypes, DataType
    <3> HIDE DEF data
    <3>2. QED
      BY <2>1, <3>1
  <2> HIDE DEF end
  <2>4. QED
    BY <2>1, <2>2, <2>3 DEF Halfway
<1>5. CASE Frame
  BY <1>5 DEF Frame, Halfway
<1>6. CASE PageSnapshots
  <2>1. chain[1].kind # "write" /\ UNCHANGED <<offset, frame>> /\ offset \in Nat
    BY <1>6 DEF PageSnapshots, Control, TypeInv, PageTyped
  <2>2. QED
    BY <2>1 DEF Halfway
<1>7. QED
  <2>1. CASE Session \/ UNCHANGED vars
    BY <1>1, <2>1 DEF Session, Receive, Flush, vars
  <2>2. CASE Screen
    BY <1>1, <1>2, <2>2 DEF Screen, Unmount, Hide, Leave, Suspend, Show, Replace
  <2>3. CASE Widget
    BY <1>1, <2>3 DEF Widget, Ready, ReadyTimeout, SuspendDrained, SuspendSaves, SuspendTurnsOff,
                      CheckpointFires, CheckpointDrained, CheckpointSaves, DrainTakesScript,
                      DrainTakesOutput, AckTimeout
  <2>4. QED
    BY <1>3, <1>4, <1>5, <1>6, <2>1, <2>2, <2>3 DEF Next, Page

-----------------------------------------------------------------------------
(***************************************************************************)
(* What is on the way.  b says where the events of the session end.  The   *)
(* terminal, with the write that is awaited, is at a unit p, and the queue *)
(* leads from there to the end of the last event that was queued.          *)
(***************************************************************************)

\* The write that is awaited.
Write == IF sending # <<>> THEN sending[1] ELSE chain[Len(chain)]

\* The terminal is at p when the write w is shown, of which it has off units.
AtOf(D, b, shown, wait, w, off, p) ==
    IF wait = None THEN Extends(D, shown, 0, p)
    ELSE \E n \in Nat :
             /\ Extends(D, w.data, IF w.reset THEN 0 ELSE n, p)
             /\ Extends(D, shown, 0, IF off = 0 THEN n ELSE w.data[off])
             /\ wait.through # 0 => p = b[wait.through]

At(b, p) == AtOf(dropped, b, display, awaited, Write, offset, p)

Stream(b) ==
    \E p \in Nat : At(b, p) /\ Leads(dropped, b, pending, p, b[lastQueued])

History(b) == HistoryOf(b, snapshot, snapshotSeq, delta, sequence, units, dropped)

\* A snapshot that is there shows the output up to its label.
Answers(b) ==
    \A r \in Requesters :
        request[r].answered => Extends(dropped, request[r].data, 0, b[request[r].label])

\* A snapshot that is still to be taken will show the output up to the label of its
\* request: until then, the terminal shows that.
IsSnapshot(b, t) ==
    t.kind = "snapshot" =>
        /\ t.id # 0
        /\ t.id = request[t.for].id => request[t.for].label = lastSent
        /\ Extends(dropped, display, 0, b[lastSent])

\* The script t is under way to the page.
Has(q, t) == \E i \in 1..Len(q) : q[i] = t
UnderWay(t) == Has(scripts, t) \/ Has(sending, t) \/ Has(chain, t)

Asked(b) == \A t \in Script : UnderWay(t) => IsSnapshot(b, t)

\* The queue reaches the last event that was queued, and a terminal that listens has
\* queued all.
Reached ==
    /\ attached /\ active => lastQueued = sequence
    /\ pending # <<>> => pending[Len(pending)].through = lastQueued
    /\ ~Stuck /\ pending = <<>> =>
           IF awaited = None THEN lastSent = lastQueued ELSE awaited.through = lastQueued
    /\ ~active => pending = <<>> /\ awaited = None

Shown == \E n \in Nat : Extends(dropped, display, 0, n)

Content(b) == History(b) /\ Answers(b) /\ (~Stuck => Stream(b) /\ Asked(b))

Whole ==
    /\ Control /\ Listens /\ Settled /\ Halfway
    /\ Reached /\ Shown /\ \E b : Content(b)

\* What is queued anew leads where it should.
LEMMA RequeuedLeads ==
  ASSUME NEW q \in Seq(Chunk), NEW D, NEW b, NEW n, NEW m, Leads(D, b, q, n, m),
         NEW data \in Data, NEW through \in 0..MaxUnits, NEW reset \in BOOLEAN,
         NEW z, through # 0 => z = b[through],
         Extends(D, data, IF reset THEN 0 ELSE m, z),
         data = <<>> /\ ~reset => m = z,
         NEW replay \in Data, Extends(D, replay, 0, z),
         NEW r, r = Requeued(q, data, through, reset, replay)
  PROVE  Leads(D, b, r, n, z)
<1> DEFINE c == Chunks(data, through, reset)
           w == Chunks(replay, through, TRUE)
           p == IF reset THEN <<>> ELSE q
           longer == p \o c
<1>1. n \in Nat /\ m \in Nat
  BY LeadsEnds
<1>2. Leads(D, b, w, n, z)
  BY <1>1, ChunksLead
<1>3. reset => Leads(D, b, c, n, z)
  BY <1>1, ChunksLead
<1>4. ~reset => Leads(D, b, c, m, z)
  BY <1>1, ChunksLead
<1>5. c \in Seq(Chunk)
  BY ChunksType
<1> HIDE DEF c, w
<1>6. Leads(D, b, p \o c, n, z)
  <2>1. CASE reset
    <3>1. p \o c = c
      BY <1>5, <2>1
    <3>2. QED
      BY <1>3, <2>1, <3>1
  <2>2. CASE ~reset
    <3>1. p = q
      BY <2>2
    <3>2. QED
      BY <1>4, <1>5, <2>2, <3>1, LeadsConcat
  <2>3. QED
    BY <2>1, <2>2
<1>7. r = IF Size(longer) > PendingMax THEN w ELSE longer
  BY DEF Requeued, c, w
<1>8. QED
  BY <1>2, <1>6, <1>7

\* A step gives up no unit that was shown, and moves no end of an event.
Grows(b, c) == dropped \subseteq dropped' /\ \A i \in 0..sequence : c[i] = b[i]

\* Where the terminal is, after a step that leaves the page and the wait for it.
LEMMA AtKept ==
  ASSUME TypeInv, NEW b, NEW c, Grows(b, c), NEW p, At(b, p),
         UNCHANGED <<display, awaited, offset>>, awaited # None => Write' = Write
  PROVE  At(c, p)'
<1>1. awaited.through \in 0..sequence
  BY FewEvents DEF TypeInv, DrainTyped, QueueTyped, SessionTyped
<1>2. c[awaited.through] = b[awaited.through]
  BY <1>1 DEF Grows
<1>3. dropped \subseteq dropped'
  BY DEF Grows
<1>4. CASE awaited = None
  <2>1. Extends(dropped', display, 0, p)
    BY <1>3, <1>4, ExtendsMore DEF At, AtOf
  <2>2. QED
    BY <1>4, <2>1 DEF At, AtOf
<1>5. CASE awaited # None
  <2>1. PICK n \in Nat :
            /\ Extends(dropped, Write.data, IF Write.reset THEN 0 ELSE n, p)
            /\ Extends(dropped, display, 0, IF offset = 0 THEN n ELSE Write.data[offset])
            /\ awaited.through # 0 => p = b[awaited.through]
    BY <1>5 DEF At, AtOf
  <2>2. /\ Extends(dropped', Write.data, IF Write.reset THEN 0 ELSE n, p)
        /\ Extends(dropped', display, 0, IF offset = 0 THEN n ELSE Write.data[offset])
    BY <1>3, <2>1, ExtendsMore
  <2>3. AtOf(dropped', c, display, awaited, Write, offset, p)
    BY <1>2, <1>5, <2>1, <2>2 DEF AtOf
  <2>4. Write' = Write
    BY <1>5
  <2> HIDE DEF Write
  <2>5. QED
    BY <2>3, <2>4 DEF At
<1>6. QED
  BY <1>4, <1>5

\* The queue, after a step that leaves it.
LEMMA QueueKept ==
  ASSUME TypeInv, NEW b, NEW c, Grows(b, c), NEW p, Leads(dropped, b, pending, p, b[lastQueued])
  PROVE  Leads(dropped', c, pending, p, c[lastQueued])
<1>1. lastQueued \in 0..sequence /\ sequence \in Nat /\ pending \in Seq(Chunk)
  BY DEF TypeInv, QueueTyped, SessionTyped
<1>2. c[lastQueued] = b[lastQueued]
  BY <1>1 DEF Grows
<1>3. ASSUME NEW i \in 1..Len(pending), pending[i].through # 0
      PROVE  c[pending[i].through] = b[pending[i].through]
  <2>1. pending[i] \in Chunk
    BY <1>1
  <2>2. pending[i].through \in Nat /\ pending[i].through <= lastQueued
    BY <2>1 DEF Chunk, TypeInv, QueueTyped
  <2>3. pending[i].through \in 0..sequence
    BY <1>1, <2>2
  <2>4. QED
    BY <2>3 DEF Grows
<1>4. dropped \subseteq dropped'
  BY DEF Grows
<1>5. QED
  BY <1>1, <1>2, <1>3, <1>4, LeadsMore

-----------------------------------------------------------------------------
(* The history.                                                            *)

\* What is gathered is the output after the last event.
LEMMA GatheredShows ==
  ASSUME TypeInv, gathered > 0,
         NEW data, data = [i \in 1..gathered |-> units + i]
  PROVE  /\ data \in Data /\ data # <<>> /\ Len(data) = gathered /\ gathered \in Nat \ {0}
         /\ Extends({}, data, units, units + gathered)
         /\ sequence + 1 \in 1..MaxUnits
<1>1. units \in Nat /\ gathered \in Nat \ {0} /\ units + gathered <= MaxUnits
      /\ sequence \in 0..units /\ MaxUnits \in Nat
  BY ConstantTypes DEF TypeInv, SessionTyped
<1>2. Len(data) = gathered
  BY <1>1
<1>3. data \in Data
  <2>1. \A i \in 1..gathered : units + i \in 1..MaxUnits
    BY <1>1
  <2>2. QED
    BY <1>1, <2>1 DEF Data
<1>4. data # <<>>
  <2>1. Len(data) # 0
    BY <1>1, <1>2
  <2>2. Len(<<>>) = 0
    OBVIOUS
  <2> HIDE DEF Data
  <2>3. QED
    BY <2>1, <2>2, Zenon
<1>5. Extends({}, data, units, units + gathered)
  BY <1>1, ExtendsNew
<1>6. QED
  BY <1>1, <1>2, <1>3, <1>4, <1>5

\* The new event ends where the gathered output ends.
LEMMA HistoryFlush ==
  ASSUME TypeInv, NEW b, History(b), Flush
  PROVE  \E c : Grows(b, c) /\ HistoryOf(c, snapshot', snapshotSeq', delta', sequence', units', dropped')
<1> DEFINE data == [i \in 1..gathered |-> units + i]
           e == [sequence |-> sequence + 1, data |-> data]
           all == Append(delta, e)
           kept == CHOOSE k \in 0..Len(all) :
                       /\ Size(SubSeq(all, k + 1, Len(all))) <= DeltaMax
                       /\ \A j \in 0..k - 1 : Size(SubSeq(all, j + 1, Len(all))) > DeltaMax
           c == [i \in 0..sequence + 1 |-> IF i = sequence + 1 THEN units + gathered ELSE b[i]]
<1>1. /\ gathered > 0 /\ units' = units + gathered /\ sequence' = sequence + 1
      /\ AppendDelta(data) /\ UNCHANGED <<snapshot, snapshotSeq>>
  BY DEF Flush
<1>2. /\ delta' = SubSeq(all, kept + 1, Len(all))
      /\ dropped' = dropped \cup ToSet(DataOf(SubSeq(all, 1, kept)))
  BY <1>1 DEF AppendDelta
<1>3. /\ data \in Data /\ Len(data) = gathered /\ gathered \in Nat \ {0}
      /\ Extends({}, data, units, units + gathered) /\ sequence + 1 \in 1..MaxUnits
  BY <1>1, GatheredShows
<1>4. sequence \in Nat /\ delta \in Seq(Event) /\ units \in Nat /\ gathered <= DeltaMax
  BY ConstantTypes DEF TypeInv, SessionTyped
<1>5. c[sequence + 1] = units + gathered /\ \A i \in 0..sequence : c[i] = b[i]
  BY <1>4
<1>6. Events(delta, b, sequence) /\ b[sequence] = units
  BY DEF History, HistoryOf
<1> HIDE DEF data, c
<1>7. c[sequence] = units
  BY <1>4, <1>5, <1>6
<1>8. Events(all, c, sequence + 1)
  <2>1. Extends({}, data, c[sequence], c[sequence + 1])
    BY <1>3, <1>5, <1>7
  <2>2. QED
    BY <1>3, <1>5, <1>6, <2>1, EventsAppend
<1>9. Len(all) = Len(delta) + 1 /\ all # <<>> /\ all[Len(all)] = e /\ e.data = data /\ Len(delta) \in Nat
  BY <1>4
<1> HIDE DEF all, e
<1>10. kept \in 0..Len(all) - 1
  <2>1. Len(all[Len(all)].data) <= DeltaMax
    BY <1>3, <1>4, <1>9
  <2>2. QED
    BY <1>8, <1>9, <2>1, RoomForEvent
<1> HIDE DEF kept
<1>11. kept \in 0..Len(delta)
  BY <1>9, <1>10
<1>12. dropped \subseteq dropped' /\ ToSet(DataOf(SubSeq(all, 1, kept))) \subseteq dropped'
  BY <1>2
<1>13. HistoryOf(c, snapshot, snapshotSeq, SubSeq(all, kept + 1, Len(all)), sequence + 1,
                 units + gathered, dropped')
  BY <1>3, <1>5, <1>8, <1>9, <1>11, <1>12, EventComes DEF History
<1>14. HistoryOf(c, snapshot', snapshotSeq', delta', sequence', units', dropped')
  BY <1>1, <1>2, <1>13
<1>15. Grows(b, c)
  BY <1>5, <1>12 DEF Grows
<1>16. QED
  BY <1>14, <1>15

\* A snapshot that is saved, or not.
LEMMA HistorySaved ==
  ASSUME TypeInv, NEW b, History(b), Answers(b), NEW r \in Requesters, request[r].answered,
         SaveSnapshot(request[r].data, request[r].label)
  PROVE  HistoryOf(b, snapshot', snapshotSeq', delta', sequence', units', dropped')
         /\ dropped' = dropped
<1> DEFINE data == request[r].data
           label == request[r].label
<1>1. Extends(dropped, data, 0, b[label]) /\ data \in Data
  BY DEF Answers, TypeInv, WaitsTyped
<1> HIDE DEF data, label
<1>2. SaveSnapshot(data, label)
  BY DEF data, label
<1>3. CASE label \in snapshotSeq..sequence
  <2>1. /\ snapshot' = data /\ snapshotSeq' = label /\ delta' = Later(delta, label)
        /\ UNCHANGED <<units, sequence, dropped>>
    BY <1>2, <1>3 DEF SaveSnapshot, After, Later
  <2>2. HistoryOf(b, data, label, Later(delta, label), sequence, units, dropped)
    BY <1>1, <1>3, SnapshotSaved DEF History
  <2>3. QED
    BY <2>1, <2>2
<1>4. CASE label \notin snapshotSeq..sequence
  <2>1. UNCHANGED sessionVars
    BY <1>2, <1>4 DEF SaveSnapshot
  <2>2. QED
    BY <2>1 DEF sessionVars, History
<1>5. QED
  BY <1>3, <1>4

\* Every step keeps the history whole.
LEMMA HistoryStep ==
  ASSUME TypeInv, NEW b, History(b), Answers(b), [Next]_vars
  PROVE  \E c : Grows(b, c) /\ HistoryOf(c, snapshot', snapshotSeq', delta', sequence', units', dropped')
                /\ (~Flush => c = b)
<1>1. CASE Flush
  BY <1>1, HistoryFlush
<1>2. ASSUME ~Flush, HistoryOf(b, snapshot', snapshotSeq', delta', sequence', units', dropped'),
             dropped' = dropped
      PROVE  Grows(b, b)
  BY <1>2 DEF Grows
<1>3. CASE UNCHANGED <<snapshot, snapshotSeq, delta, sequence, units, dropped>>
  <2>1. HistoryOf(b, snapshot', snapshotSeq', delta', sequence', units', dropped')
    BY <1>3 DEF History
  <2>2. QED
    BY <1>1, <1>2, <1>3, <2>1
<1>4. CASE SuspendSaves
  <2>1. CASE UNCHANGED sessionVars
    BY <1>3, <2>1 DEF sessionVars
  <2>2. CASE request["suspend"].answered
             /\ SaveSnapshot(request["suspend"].data, request["suspend"].label)
    <3>1. "suspend" \in Requesters
      BY DEF Requesters
    <3>2. HistoryOf(b, snapshot', snapshotSeq', delta', sequence', units', dropped')
          /\ dropped' = dropped
      BY <2>2, <3>1, HistorySaved
    <3>3. QED
      BY <1>1, <1>2, <3>2
  <2>3. QED
    BY <1>4, <2>1, <2>2 DEF SuspendSaves
<1>5. CASE CheckpointSaves
  <2>1. CASE UNCHANGED sessionVars
    BY <1>3, <2>1 DEF sessionVars
  <2>2. CASE request["checkpoint"].answered
             /\ SaveSnapshot(request["checkpoint"].data, request["checkpoint"].label)
    <3>1. "checkpoint" \in Requesters
      BY DEF Requesters
    <3>2. HistoryOf(b, snapshot', snapshotSeq', delta', sequence', units', dropped')
          /\ dropped' = dropped
      BY <2>2, <3>1, HistorySaved
    <3>3. QED
      BY <1>1, <1>2, <3>2
  <2>3. QED
    BY <1>5, <2>1, <2>2 DEF CheckpointSaves
<1>6. CASE Screen \/ Page
  <2>1. UNCHANGED sessionVars
    BY <1>6 DEF Screen, Mount, Unmount, Hide, Leave, Suspend, Show, Replace, Dispose,
                Page, PageRuns, PageWrites, Frame, PageSnapshots, sessionVars
  <2>2. QED
    BY <1>3, <2>1 DEF sessionVars
<1>7. CASE Widget /\ ~SuspendSaves /\ ~CheckpointSaves
  <2>1. UNCHANGED sessionVars
    BY <1>7 DEF Widget, Ready, ReadyTimeout, SuspendDrained, SuspendTurnsOff,
                CheckpointFires, CheckpointDrained, DrainTakesScript, DrainTakesOutput,
                AckTimeout
  <2>2. QED
    BY <1>3, <2>1 DEF sessionVars
<1>8. CASE Receive
  BY <1>3, <1>8 DEF Receive
<1>9. CASE UNCHANGED vars
  BY <1>3, <1>9 DEF vars, sessionVars
<1>10. QED
  BY <1>1, <1>4, <1>5, <1>6, <1>7, <1>8, <1>9 DEF Next, Session

-----------------------------------------------------------------------------
(* What is queued.                                                         *)

\* The queue r reaches through, or nothing came to an empty one.
Ends(r, data, through, reset) ==
    /\ r # <<>> => r[Len(r)].through = through
    /\ r = <<>> => data = <<>> /\ ~reset

\* The queue ends where it is to end, when there is something to queue.
LEMMA QueuedReaches ==
  ASSUME NEW q \in Seq(Chunk), NEW data \in Data, NEW through \in 0..MaxUnits,
         NEW reset \in BOOLEAN, NEW replay \in Data,
         NEW r, r = Requeued(q, data, through, reset, replay),
         data # <<>> \/ reset \/ q = <<>>
  PROVE  Ends(r, data, through, reset)
<1>1. EndsWith(r, q, data, through, reset)
  BY RequeuedType
<1>2. QED
  BY <1>1 DEF EndsWith, Ends

\* What a widget that goes on is to be shown: what it has not sent, or all again.
LEMMA ReplayShows ==
  ASSUME NEW b, NEW snap, NEW snapSeq, NEW d, NEW last, NEW u, NEW D,
         HistoryOf(b, snap, snapSeq, d, last, u, D),
         NEW sent \in Nat, sent <= last,
         NEW reset \in BOOLEAN, ~reset => snapSeq <= sent,
         NEW data, data = IF reset THEN snap \o DataOf(d) ELSE DataOf(Later(d, sent))
  PROVE  /\ data \in Data /\ Extends(D, data, IF reset THEN 0 ELSE b[sent], u)
         /\ data = <<>> /\ ~reset => sent = last
         /\ snap \o DataOf(d) \in Data /\ Extends(D, snap \o DataOf(d), 0, u)
         /\ b[last] = u
<1>1. snap \o DataOf(d) \in Data /\ Extends(D, snap \o DataOf(d), 0, u)
  BY ReplayIs
<1>2. b[last] = u
  BY DEF HistoryOf
<1>3. CASE reset
  BY <1>1, <1>2, <1>3
<1>4. CASE ~reset
  <2>1. /\ DataOf(Later(d, sent)) \in Data /\ Extends(D, DataOf(Later(d, sent)), b[sent], u)
        /\ DataOf(Later(d, sent)) = <<>> => sent = last
    BY <1>4, LaterShows
  <2>2. QED
    BY <1>1, <1>2, <1>4, <2>1
<1>5. QED
  BY <1>3, <1>4

\* A widget that goes on queues what is to be shown after what it has sent.
LEMMA SynchronizeQueues ==
  ASSUME TypeInv, TypeInv', sequence' = sequence, Synchronize, pending = <<>>,
         NEW b, History(b)'
  PROVE  /\ lastQueued' = sequence'
         /\ pending' # <<>> => pending'[Len(pending')].through = lastQueued'
         /\ pending' = <<>> => lastSent' = lastQueued'
         /\ Leads(dropped', b, pending', b[lastSent'], b[lastQueued'])
<1> DEFINE data == ReplayAfter(lastSent)'
           reset == ResetRequired(lastSent)'
           replay == Replay'
<1>1. lastSent' \in Nat /\ lastSent' <= sequence' /\ sequence' \in 0..MaxUnits
  <2>1. /\ gathered' \in Nat /\ units' \in Nat /\ units' + gathered' <= MaxUnits
        /\ sequence' \in 0..units' /\ lastQueued' \in 0..sequence' /\ lastSent' \in 0..lastQueued'
    BY DEF TypeInv, DrainTyped, QueueTyped, SessionTyped
  <2>2. sequence' \in 0..MaxUnits
    BY <2>1, FewEvents
  <2>3. QED
    BY <2>1, <2>2
<1>2. /\ data \in Data /\ reset \in BOOLEAN
      /\ replay \in Data /\ Extends(dropped', replay, 0, units') /\ b[sequence'] = units'
      /\ sequence' \in 0..MaxUnits
      /\ Extends(dropped', data, IF reset THEN 0 ELSE b[lastSent'], units')
      /\ data = <<>> /\ ~reset => lastSent' = sequence'
  <2>1. reset \in BOOLEAN
    BY DEF ResetRequired
  <2>2. ~reset => snapshotSeq' <= lastSent'
    <3>1. ~reset => ~(lastSent' < snapshotSeq')
      BY DEF ResetRequired
    <3>2. snapshotSeq' \in Nat
      BY DEF TypeInv, SessionTyped
    <3>3. QED
      BY <1>1, <3>1, <3>2
  <2>3. replay = snapshot' \o DataOf(delta')
    BY DEF Replay, DataOf
  <2>4. data = IF reset THEN snapshot' \o DataOf(delta') ELSE DataOf(Later(delta', lastSent'))
    <3>1. After(lastSent)' = Later(delta', lastSent')
      BY DEF After, Later
    <3>2. data = IF reset THEN replay ELSE DataOf(After(lastSent)')
      BY DEF ReplayAfter, DataOf
    <3>3. QED
      BY <2>3, <3>1, <3>2
  <2>5. HistoryOf(b, snapshot', snapshotSeq', delta', sequence', units', dropped')
    BY DEF History
  <2> HIDE DEF data, reset, replay
  <2>6. /\ data \in Data /\ Extends(dropped', data, IF reset THEN 0 ELSE b[lastSent'], units')
        /\ data = <<>> /\ ~reset => lastSent' = sequence'
        /\ snapshot' \o DataOf(delta') \in Data
        /\ Extends(dropped', snapshot' \o DataOf(delta'), 0, units') /\ b[sequence'] = units'
    <3>1. lastSent' \in Nat /\ lastSent' <= sequence'
      BY <1>1
    <3>2. QED
      BY <2>1, <2>2, <2>4, <2>5, <3>1, ReplayShows
  <2>7. QED
    BY <1>1, <2>1, <2>3, <2>6
<1>3. lastQueued' = sequence' /\ pending' = Requeued(pending, data, sequence', reset, replay)
  BY SynchronizeType DEF TypeInv
<1> HIDE DEF data, reset, replay
<1>4. pending \in Seq(Chunk)
  BY DEF TypeInv, QueueTyped
<1>5. /\ pending' # <<>> => pending'[Len(pending')].through = sequence'
      /\ pending' = <<>> => data = <<>> /\ ~reset
  <2>1. Ends(pending', data, sequence', reset)
    BY <1>2, <1>3, <1>4, QueuedReaches
  <2>2. QED
    BY <2>1 DEF Ends
<1>6. b[lastSent'] \in Nat
  <2>1. lastSent' \in 0..sequence' /\ sequence' \in Nat
    BY <1>1, <1>2
  <2>2. \A i \in 0..sequence' : b[i] \in Nat
    BY DEF History, HistoryOf, Events
  <2>3. QED
    BY <2>1, <2>2
<1>7. Leads(dropped', b, pending', b[lastSent'], b[lastQueued'])
  <2>1. Leads(dropped', b, pending, b[lastSent'], b[lastSent'])
    BY <1>6, LeadsNowhere
  <2>2. QED
    BY <1>2, <1>3, <1>4, <2>1, RequeuedLeads
<1>8. QED
  BY <1>2, <1>3, <1>5, <1>7

\* A widget that listens queues the new event after what it has queued.
LEMMA FlushQueues ==
  ASSUME TypeInv, TypeInv', Flush, attached, active, lastQueued = sequence,
         NEW b, History(b)', b[sequence] = units
  PROVE  /\ lastQueued' = sequence' /\ pending' # <<>>
         /\ pending'[Len(pending')].through = lastQueued'
         /\ \A p : Leads(dropped', b, pending, p, b[lastQueued])
                   => Leads(dropped', b, pending', p, b[lastQueued'])
<1> DEFINE data == [i \in 1..gathered |-> units + i]
           replay == snapshot \o DataOf(delta')
<1>1. /\ gathered > 0 /\ units' = units + gathered /\ sequence' = sequence + 1
      /\ snapshot' = snapshot
  BY DEF Flush
<1>2. /\ data \in Data /\ data # <<>> /\ Extends({}, data, units, units + gathered)
      /\ sequence' \in 0..MaxUnits
  BY <1>1, GatheredShows
<1>3. QueueOutput(data, sequence', FALSE, replay)
  <2>1. sequence' > lastQueued
    BY <1>1 DEF TypeInv, SessionTyped
  <2>2. QED
    BY <2>1 DEF Flush
<1>4. replay \in Data /\ Extends(dropped', replay, 0, units') /\ b[sequence'] = units'
  BY <1>1, ReplayIs DEF History, HistoryOf
<1> HIDE DEF data, replay
<1>5. lastQueued' = sequence' /\ pending' = Requeued(pending, data, sequence', FALSE, replay)
  BY <1>3 DEF QueueOutput, Requeued
<1>6. pending \in Seq(Chunk)
  BY DEF TypeInv, QueueTyped
<1>7. /\ pending' # <<>> => pending'[Len(pending')].through = sequence'
      /\ pending' # <<>>
  <2>1. Ends(pending', data, sequence', FALSE)
    BY <1>2, <1>4, <1>5, <1>6, QueuedReaches
  <2>2. QED
    BY <1>2, <2>1 DEF Ends
<1>8. ASSUME NEW p, Leads(dropped', b, pending, p, b[lastQueued])
      PROVE  Leads(dropped', b, pending', p, b[lastQueued'])
  <2>1. Extends(dropped', data, b[lastQueued], b[sequence'])
    BY <1>1, <1>2, <1>4, ExtendsMore
  <2>2. Extends(dropped', replay, 0, b[sequence'])
    BY <1>4
  <2>3. QED
    BY <1>2, <1>4, <1>5, <1>6, <1>8, <2>1, <2>2, RequeuedLeads
<1>9. QED
  BY <1>5, <1>7, <1>8

\* A new widget queues the whole history.
LEMMA MountQueues ==
  ASSUME TypeInv, TypeInv', Idle, Mount, NEW b, History(b)'
  PROVE  /\ lastQueued' = sequence' /\ pending' # <<>>
         /\ pending'[Len(pending')].through = lastQueued'
         /\ Leads(dropped', b, pending', 0, b[lastQueued'])
<1>1. /\ QueueOutput(Replay, sequence, TRUE, Replay)
      /\ UNCHANGED <<snapshot, delta, sequence, units, dropped>>
  BY DEF Mount, sessionVars
<1>2. Replay \in Data /\ Extends(dropped', Replay, 0, units') /\ b[sequence'] = units'
  <2>1. snapshot' \o DataOf(delta') \in Data /\ Extends(dropped', snapshot' \o DataOf(delta'), 0, units')
    BY ReplayIs DEF History
  <2>2. b[sequence'] = units'
    BY DEF History, HistoryOf
  <2>3. QED
    BY <1>1, <2>1, <2>2 DEF Replay
<1>3. sequence \in 0..MaxUnits /\ sequence' = sequence
  BY <1>1, FewEvents DEF TypeInv, SessionTyped
<1>4. pending = <<>> /\ pending \in Seq(Chunk)
  BY DEF Mount, Idle, Gone, TypeInv, QueueTyped
<1>5. lastQueued' = sequence /\ pending' = Requeued(pending, Replay, sequence, TRUE, Replay)
  BY <1>1 DEF QueueOutput, Requeued
<1>6. /\ pending' # <<>> => pending'[Len(pending')].through = sequence
      /\ pending' # <<>>
  <2>1. Ends(pending', Replay, sequence, TRUE)
    BY <1>2, <1>3, <1>4, <1>5, QueuedReaches
  <2>2. QED
    BY <2>1 DEF Ends
<1>7. Leads(dropped', b, pending', 0, b[lastQueued'])
  <2>1. Leads(dropped', b, pending, 0, 0)
    BY <1>4, LeadsNowhere
  <2>2. Extends(dropped', Replay, 0, b[sequence'])
    BY <1>2
  <2>3. QED
    BY <1>2, <1>3, <1>4, <1>5, <2>1, <2>2, RequeuedLeads
<1>8. QED
  BY <1>3, <1>5, <1>6, <1>7

\* A widget that resumes goes on from what it has sent; nothing else is queued when a
\* suspension begins or ends.
LEMMA Resumes ==
  ASSUME Control, Listens, Settled, Reached,
         Show \/ SuspendDrained \/ SuspendSaves \/ SuspendTurnsOff
  PROVE  /\ UNCHANGED <<sequence, awaited, lastSent, sending, pageVars, fatal>>
         /\ \/ /\ UNCHANGED <<pending, lastQueued>>
               /\ attached' /\ active' => attached /\ active
               /\ ~active' => pending = <<>> /\ awaited = None
            \/ /\ Synchronize /\ active'
               /\ pending = <<>> /\ awaited = None /\ ~Stuck
<1> DEFINE Goes == Synchronize /\ active' /\ pending = <<>> /\ awaited = None /\ ~Stuck
           Stays == /\ UNCHANGED <<pending, lastQueued>>
                    /\ attached' /\ active' => attached /\ active
                    /\ ~active' => pending = <<>> /\ awaited = None
<1>1. UNCHANGED <<sequence, awaited, lastSent, sending, pageVars, fatal>>
  <2>1. \A data, label : SaveSnapshot(data, label) => UNCHANGED sequence
    BY DEF SaveSnapshot, sessionVars
  <2>2. QED
    BY <2>1 DEF Show, SuspendDrained, SuspendSaves, SuspendTurnsOff, sessionVars
<1>2. ASSUME Drained, suspension # "no"
      PROVE  pending = <<>> /\ awaited = None /\ active
  BY <1>2 DEF Drained, Draining, Listens, Settled
<1>3. resumeRequested => ~Stuck
  BY DEF Listens, Stuck
<1>4. ~active => pending = <<>> /\ awaited = None
  BY DEF Reached
<1>5. ASSUME UNCHANGED <<queueVars, active>>, attached' /\ active => attached
       PROVE  Stays
  <2>1. UNCHANGED <<pending, lastQueued>> /\ active' = active
    BY <1>5 DEF queueVars
  <2>2. QED
    BY <1>4, <1>5, <2>1
<1>6. ASSUME SuspendEnds, Drained, suspension # "no"
      PROVE  Goes \/ Stays
  <2>1. pending = <<>> /\ awaited = None /\ active
    BY <1>2, <1>6
  <2>2. CASE resumeRequested
    BY <1>3, <1>6, <2>1, <2>2 DEF SuspendEnds, Reactivate
  <2>3. CASE ~resumeRequested
    BY <1>6, <2>1, <2>3 DEF SuspendEnds, queueVars
  <2>4. QED
    BY <2>2, <2>3
<1>7. SUFFICES Goes \/ Stays
  BY <1>1
<1>8. CASE Show
  <2>1. CASE mounted /\ suspension = "no" /\ ~active
    <3>1. Reactivate /\ ~fatal
      BY <1>8, <2>1 DEF Show
    <3>2. Synchronize /\ active' /\ ~Stuck
      BY <3>1 DEF Reactivate, Stuck
    <3>3. QED
      BY <1>4, <2>1, <3>2
  <2>2. CASE ~(mounted /\ suspension = "no" /\ ~active)
    <3>1. /\ attached' = (attached \/ (mounted /\ suspension = "no"))
          /\ UNCHANGED <<active, queueVars>>
      BY <1>8, <2>2 DEF Show
    <3>2. attached' /\ active => attached
      BY <3>1 DEF Listens
    <3>3. QED
      BY <1>5, <3>1, <3>2
  <2>3. QED
    BY <2>1, <2>2
<1>9. CASE SuspendDrained
  <2>1. CASE ready /\ ~fatal
    <3>1. UNCHANGED <<queueVars, active, attached>>
      BY <1>9, <2>1 DEF SuspendDrained
    <3>2. QED
      BY <1>5, <3>1
  <2>2. CASE ~(ready /\ ~fatal)
    <3>1. SuspendEnds /\ Drained /\ suspension # "no"
      BY <1>9, <2>2 DEF SuspendDrained
    <3>2. QED
      BY <1>6, <3>1
  <2>3. QED
    BY <2>1, <2>2
<1>10. CASE SuspendSaves
  <2>1. pending = <<>> /\ awaited = None /\ active /\ active'
    BY <1>2, <1>10 DEF SuspendSaves
  <2>2. CASE resumeRequested
    <3>1. Synchronize
      BY <1>10, <2>2 DEF SuspendSaves
    <3>2. QED
      BY <1>3, <2>1, <2>2, <3>1
  <2>3. CASE ~resumeRequested
    <3>1. UNCHANGED <<queueVars, attached, active>>
      BY <1>10, <2>3 DEF SuspendSaves
    <3>2. QED
      BY <1>5, <3>1
  <2>4. QED
    BY <2>2, <2>3
<1>11. CASE SuspendTurnsOff
  <2>1. SuspendEnds /\ Drained /\ suspension # "no"
    BY <1>11 DEF SuspendTurnsOff
  <2>2. QED
    BY <1>6, <2>1
<1>12. QED
  BY <1>1, <1>8, <1>9, <1>10, <1>11

\* The page writes what is awaited, and has nothing else to do.
LEMMA WritesAwaited ==
  ASSUME Control, PageWrites
  PROVE  /\ ~Stuck /\ awaited # None /\ sending = <<>> /\ Len(chain) = 1 /\ chain # <<>>
         /\ Write = chain[1] /\ chain[1].id = awaited.id /\ No("snapshot", scripts)
<1>1. chain # <<>> /\ chain[1].kind = "write" /\ ~frame
  BY DEF PageWrites
<1>2. ~Stuck
  BY <1>1 DEF Stuck
<1>3. Len(chain) \in Nat \ {0} /\ 1 \in 1..Len(chain)
  <2>1. chain \in Seq(Script)
    BY DEF Control, TypeInv, PageTyped
  <2>2. Len(chain) \in Nat \ {0}
    BY <1>1, <2>1, HeadTail
  <2>3. QED
    BY <2>2
<1>4. ~No("write", chain)
  BY <1>1, <1>3 DEF No
<1>5. awaited # None /\ No("snapshot", scripts) /\ OneOut
  BY <1>2, <1>4 DEF Control, Out
<1>6. /\ sending = <<>> /\ chain[Len(chain)].id = awaited.id
      /\ \A i \in 1..Len(chain) - 1 : chain[i].kind # "write"
  BY <1>4, <1>5 DEF OneOut
<1>7. Len(chain) = 1
  <2>1. 1 \notin 1..Len(chain) - 1
    BY <1>1, <1>6
  <2>2. QED
    BY <1>3, <2>1, One
<1>8. QED
  BY <1>1, <1>2, <1>5, <1>6, <1>7 DEF Write

\* The queue without its head.
LEMMA TailReaches ==
  ASSUME NEW q \in Seq(Chunk), q # <<>>, NEW m, q[Len(q)].through = m
  PROVE  /\ Tail(q) # <<>> => Tail(q)[Len(Tail(q))].through = m
         /\ Tail(q) = <<>> => Head(q).through = m
<1>1. /\ Len(q) \in Nat \ {0} /\ Head(q) = q[1] /\ Tail(q) \in Seq(Chunk)
      /\ Len(Tail(q)) = Len(q) - 1 /\ \A i \in 1..Len(q) - 1 : Tail(q)[i] = q[i + 1]
  BY HeadTail
<1> DEFINE t == Tail(q)
<1> HIDE DEF t
<1>2. CASE t # <<>>
  <2>1. Len(t) \in Nat \ {0}
    BY <1>1, <1>2, HeadTail DEF t
  <2>2. Len(t) \in 1..Len(q) - 1 /\ Len(t) + 1 = Len(q)
    BY <1>1, <2>1 DEF t
  <2>3. t[Len(t)] = q[Len(q)]
    BY <1>1, <2>2 DEF t
  <2>4. QED
    BY <1>2, <2>3 DEF t
<1>3. CASE t = <<>>
  <2>1. Len(t) = 0
    BY <1>3
  <2>2. Len(q) = 1
    <3> DEFINE n == Len(q)
    <3>1. n \in Nat \ {0} /\ n - 1 = 0
      BY <1>1, <2>1 DEF t
    <3> HIDE DEF n
    <3>2. n = 1
      BY <3>1
    <3>3. QED
      BY <3>2 DEF n
  <2>3. QED
    BY <1>1, <1>3, <2>2 DEF t
<1>4. QED
  BY <1>2, <1>3 DEF t

\* The rest of the drain, the page and the screen leave what is queued, sent and awaited.
LEMMA QueueRests ==
  ASSUME [Next]_vars,
         ~(Mount \/ Dispose \/ Show \/ SuspendDrained \/ SuspendSaves \/ SuspendTurnsOff),
         ~(Flush /\ attached /\ active),
         ~(DrainTakesOutput \/ AckTimeout \/ ReadyTimeout \/ PageWrites)
  PROVE  /\ UNCHANGED <<pending, lastQueued, awaited, lastSent, active>>
         /\ attached' => attached
         /\ Flush \/ UNCHANGED sequence
<1>1. CASE Session
  <2>1. CASE Receive
    BY <2>1 DEF Receive, queueVars, lifeVars, drainVars
  <2>2. CASE Flush
    <3>1. UNCHANGED queueVars
      BY <2>2 DEF Flush
    <3>2. UNCHANGED <<lifeVars, drainVars>>
      BY <2>2 DEF Flush
    <3>3. QED
      BY <2>2, <3>1, <3>2 DEF queueVars, lifeVars, drainVars
  <2>3. QED
    BY <1>1, <2>1, <2>2 DEF Session
<1>2. CASE Screen
  BY <1>2 DEF Screen, Unmount, Hide, Leave, Replace, Suspend, sessionVars, queueVars, drainVars
<1>3. CASE Widget
  <2>1. CASE CheckpointSaves
    <3>1. UNCHANGED sequence
      <4>1. \A data, label : SaveSnapshot(data, label) => UNCHANGED sequence
        BY DEF SaveSnapshot, sessionVars
      <4>2. QED
        BY <2>1, <4>1 DEF CheckpointSaves, sessionVars
    <3>2. QED
      BY <2>1, <3>1 DEF CheckpointSaves, queueVars, lifeVars, drainVars
  <2>2. CASE Ready \/ CheckpointFires \/ CheckpointDrained \/ DrainTakesScript
    BY <2>2 DEF Ready, CheckpointFires, CheckpointDrained, DrainTakesScript,
                sessionVars, queueVars, lifeVars, drainVars
  <2>3. QED
    BY <1>3, <2>1, <2>2 DEF Widget
<1>4. CASE Page
  BY <1>4 DEF Page, PageRuns, Frame, PageSnapshots, sessionVars, queueVars, lifeVars, drainVars
<1>5. CASE UNCHANGED vars
  BY <1>5 DEF vars, sessionVars, queueVars, lifeVars, drainVars
<1>6. QED
  BY <1>1, <1>2, <1>3, <1>4, <1>5 DEF Next

\* Every step keeps what is queued, sent and awaited together.
LEMMA ReachedStep ==
  ASSUME Control, Control', Listens, Settled, Reached, [Next]_vars,
         NEW b, History(b), NEW c, Grows(b, c), History(c)'
  PROVE  Reached'
<1>1. /\ attached /\ active => lastQueued = sequence
      /\ pending # <<>> => pending[Len(pending)].through = lastQueued
      /\ ~active => pending = <<>> /\ awaited = None
  BY DEF Reached
<1>2. ~Stuck /\ pending = <<>> =>
          IF awaited = None THEN lastSent = lastQueued ELSE awaited.through = lastQueued
  BY DEF Reached
<1>3. TypeInv /\ TypeInv' /\ Idle
  BY DEF Control
<1>4. ~Stuck' /\ ~Dispose => ~Stuck
  BY <1>3, StuckStays
<1>5. CASE Dispose
  BY <1>5 DEF Dispose, Reached
<1>6. CASE Mount
  <2>1. /\ lastQueued' = sequence' /\ pending' # <<>>
        /\ pending'[Len(pending')].through = lastQueued'
    BY <1>3, <1>6, MountQueues
  <2>2. active'
    BY <1>6 DEF Mount
  <2>3. QED
    BY <2>1, <2>2 DEF Reached
<1>7. CASE Flush /\ attached /\ active
  <2>1. c[sequence] = units
    <3>1. b[sequence] = units /\ sequence \in Nat
      BY <1>3 DEF History, HistoryOf, TypeInv, SessionTyped
    <3>2. QED
      BY <3>1 DEF Grows
  <2>2. /\ lastQueued' = sequence' /\ pending' # <<>>
        /\ pending'[Len(pending')].through = lastQueued'
    BY <1>1, <1>3, <1>7, <2>1, FlushQueues
  <2>3. active' = active
    BY <1>7 DEF Flush, lifeVars
  <2>4. QED
    BY <1>7, <2>2, <2>3 DEF Reached
<1>8. CASE Show \/ SuspendDrained \/ SuspendSaves \/ SuspendTurnsOff
  <2>1. /\ UNCHANGED <<sequence, awaited, lastSent>>
        /\ \/ /\ UNCHANGED <<pending, lastQueued>>
              /\ attached' /\ active' => attached /\ active
              /\ ~active' => pending = <<>> /\ awaited = None
           \/ /\ Synchronize /\ active'
              /\ pending = <<>> /\ awaited = None /\ ~Stuck
    BY <1>8, Resumes
  <2>2. CASE /\ UNCHANGED <<pending, lastQueued>>
             /\ attached' /\ active' => attached /\ active
             /\ ~active' => pending = <<>> /\ awaited = None
    BY <1>1, <1>2, <1>4, <1>5, <2>1, <2>2 DEF Reached
  <2>3. CASE Synchronize /\ active' /\ pending = <<>> /\ awaited = None /\ ~Stuck
    <3>1. /\ lastQueued' = sequence'
          /\ pending' # <<>> => pending'[Len(pending')].through = lastQueued'
          /\ pending' = <<>> => lastSent' = lastQueued'
      BY <1>3, <2>1, <2>3, SynchronizeQueues
    <3>2. awaited' = None
      BY <2>1, <2>3
    <3>3. QED
      BY <2>3, <3>1, <3>2 DEF Reached
  <2>4. QED
    BY <2>1, <2>2, <2>3
<1>9. CASE DrainTakesOutput
  <2>1. /\ active /\ active' = active /\ attached' = attached /\ pending # <<>> /\ pending' = Tail(pending)
        /\ awaited' = [id |-> FreshId, through |-> Head(pending).through]
        /\ UNCHANGED <<lastQueued, sequence>>
    BY <1>9 DEF DrainTakesOutput, lifeVars, sessionVars
  <2>2. pending \in Seq(Chunk)
    BY <1>3 DEF TypeInv, QueueTyped
  <2>3. /\ pending' # <<>> => pending'[Len(pending')].through = lastQueued'
        /\ pending' = <<>> => Head(pending).through = lastQueued'
    BY <1>1, <2>1, <2>2, TailReaches
  <2>4. awaited'.through = Head(pending).through /\ awaited' # None
    <3>1. FreshId # 0
      BY <1>3, FreshIdIs DEF TypeInv, DrainTyped, PageTyped
    <3>2. awaited'.id = FreshId /\ awaited'.through = Head(pending).through
      BY <2>1
    <3>3. QED
      BY <3>1, <3>2 DEF None
  <2>5. QED
    BY <1>1, <2>1, <2>3, <2>4 DEF Reached
<1>10. CASE AckTimeout
  <2>1. UNCHANGED <<pending, lastQueued, sequence, active, attached>> /\ Stuck' /\ awaited' = None
    BY <1>10 DEF AckTimeout, ReportFatal, Stuck, sessionVars, lifeVars, pageVars
  <2>2. QED
    BY <1>1, <2>1 DEF Reached
<1>11. CASE ReadyTimeout
  <2>1. UNCHANGED <<pending, lastQueued, sequence, active, attached, lastSent>> /\ awaited' = None
        /\ ~ready /\ UNCHANGED <<frame, visible>>
    BY <1>11 DEF ReadyTimeout, ReportFatal, sessionVars, lifeVars, pageVars
  <2>2. awaited = None /\ ~frame
    BY <1>3, <2>1 DEF Idle, Unready
  <2>3. ~Stuck
    BY <2>2 DEF Stuck
  <2>4. QED
    BY <1>1, <1>2, <2>1, <2>2, <2>3 DEF Reached
<1>12. CASE PageWrites
  <2>1. ~Stuck /\ awaited # None /\ chain[1].id = awaited.id
    BY <1>12, WritesAwaited DEF Control
  <2>2. UNCHANGED <<pending, lastQueued, sequence, active, attached>>
    BY <1>12 DEF PageWrites, sessionVars, queueVars, lifeVars
  <2>3. \/ UNCHANGED <<awaited, lastSent>>
        \/ /\ awaited' = None
           /\ lastSent' = IF awaited.through > lastSent THEN awaited.through ELSE lastSent
    BY <1>12, <2>1 DEF PageWrites, Acknowledge
  <2>4. pending = <<>> /\ awaited' = None => lastSent' = lastQueued
    <3>1. lastSent \in Nat /\ lastQueued \in Nat /\ lastSent <= lastQueued
      BY <1>3 DEF TypeInv, DrainTyped, QueueTyped
    <3>2. QED
      BY <1>2, <2>1, <2>3, <3>1
  <2>5. awaited' # None => awaited' = awaited
    BY <2>3
  <2>6. active
    BY <1>1, <2>1
  <2>7. QED
    BY <1>1, <1>2, <2>1, <2>2, <2>4, <2>5, <2>6 DEF Reached
<1>13. CASE ~(Mount \/ Dispose \/ Show \/ SuspendDrained \/ SuspendSaves \/ SuspendTurnsOff)
            /\ ~(Flush /\ attached /\ active)
            /\ ~(DrainTakesOutput \/ AckTimeout \/ ReadyTimeout \/ PageWrites)
  <2>1. /\ UNCHANGED <<pending, lastQueued, awaited, lastSent, active>>
        /\ attached' => attached
        /\ Flush \/ UNCHANGED sequence
    BY <1>13, QueueRests
  <2>2. attached' /\ active' => lastQueued' = sequence'
    BY <1>1, <1>13, <2>1
  <2>3. QED
    BY <1>1, <1>2, <1>4, <1>13, <2>1, <2>2 DEF Reached
<1>14. QED
  BY <1>5, <1>6, <1>7, <1>8, <1>9, <1>10, <1>11, <1>12, <1>13

-----------------------------------------------------------------------------
(* What is on the way to the terminal.                                     *)

\* Only the drain, the page and their waits change what the terminal shows, what was
\* sent to it and what is awaited of it.
LEMMA PageRests ==
  ASSUME [Next]_vars,
         ~(Mount \/ Dispose \/ DrainTakesOutput \/ AckTimeout \/ ReadyTimeout \/ PageWrites)
  PROVE  /\ UNCHANGED <<display, offset, awaited, lastSent>>
         /\ DrainTakesScript \/ PageRuns \/ PageSnapshots \/ UNCHANGED <<sending, chain>>
<1>1. CASE Session
  BY <1>1 DEF Session, Receive, Flush, drainVars, pageVars
<1>2. CASE Screen
  BY <1>2 DEF Screen, Unmount, Hide, Leave, Replace, Suspend, Show, drainVars, pageVars
<1>3. CASE Widget
  <2>1. CASE SuspendDrained \/ SuspendSaves \/ SuspendTurnsOff
    BY <2>1 DEF SuspendDrained, SuspendSaves, SuspendTurnsOff, pageVars
  <2>2. CASE Ready \/ CheckpointFires \/ CheckpointDrained \/ CheckpointSaves
    BY <2>2 DEF Ready, CheckpointFires, CheckpointDrained, CheckpointSaves, drainVars, pageVars
  <2>3. CASE DrainTakesScript
    BY <2>3 DEF DrainTakesScript, pageVars
  <2>4. QED
    BY <1>3, <2>1, <2>2, <2>3 DEF Widget
<1>4. CASE Page
  BY <1>4 DEF Page, PageRuns, Frame, PageSnapshots, drainVars
<1>5. CASE UNCHANGED vars
  BY <1>5 DEF vars, drainVars, pageVars
<1>6. QED
  BY <1>1, <1>2, <1>3, <1>4, <1>5 DEF Next

\* The write that is awaited goes to the end of the chain, and is last there.
LEMMA WriteKept ==
  ASSUME Control, ~Stuck, awaited # None, [Next]_vars,
         ~(Mount \/ Dispose \/ DrainTakesOutput \/ AckTimeout \/ ReadyTimeout \/ PageWrites)
  PROVE  Write' = Write
<1>1. OneOut
  BY DEF Control, Out
<1>2. chain \in Seq(Script) /\ sending \in Seq(Script)
  BY DEF Control, TypeInv, PageTyped, DrainTyped
<1>3. CASE UNCHANGED <<sending, chain>>
  BY <1>3 DEF Write
<1>4. CASE DrainTakesScript
  BY <1>4 DEF DrainTakesScript, Draining
<1>5. CASE PageRuns
  <2>1. sending # <<>> /\ sending' = <<>> /\ sending[1].kind = "write"
    BY <1>1, <1>5 DEF PageRuns, OneOut
  <2>2. chain' = Append(chain, sending[1])
    BY <1>5, <2>1 DEF PageRuns
  <2>3. chain'[Len(chain')] = sending[1]
    BY <1>2, <2>2
  <2>4. QED
    BY <2>1, <2>3 DEF Write
<1>6. CASE PageSnapshots
  <2>1. chain # <<>> /\ chain[1].kind # "write" /\ chain' = Tail(chain) /\ sending' = sending
    BY <1>6 DEF PageSnapshots, drainVars
  <2>2. CASE sending # <<>>
    BY <2>1, <2>2 DEF Write
  <2>3. CASE sending = <<>>
    <3> DEFINE t == Tail(chain)
               n == Len(chain)
    <3>1. chain[n].kind = "write"
      BY <1>1, <2>3 DEF OneOut
    <3>2. /\ n \in Nat \ {0} /\ Len(t) = n - 1
          /\ \A i \in 1..n - 1 : t[i] = chain[i + 1]
      BY <1>2, <2>1, HeadTail
    <3>3. n # 1
      BY <2>1, <3>1
    <3> HIDE DEF t, n
    <3>4. n - 1 \in 1..n - 1 /\ (n - 1) + 1 = n
      BY <3>2, <3>3
    <3>5. t[Len(t)] = chain[n]
      BY <3>2, <3>4
    <3>6. QED
      BY <2>1, <2>3, <3>5 DEF Write, t, n
  <2>4. QED
    BY <2>2, <2>3
<1>7. QED
  BY <1>3, <1>4, <1>5, <1>6, PageRests

\* The drain takes the head of the queue: the page is to write on from where it is.
LEMMA StreamTakes ==
  ASSUME Control, Halfway, ~Stuck, DrainTakesOutput, NEW b, Stream(b)
  PROVE  Stream(b)'
<1>1. /\ awaited = None /\ sending = <<>> /\ pending # <<>> /\ pending' = Tail(pending)
      /\ sending' = <<[kind |-> "write", id |-> FreshId, data |-> Head(pending).data,
                       reset |-> Head(pending).reset]>>
      /\ awaited' = [id |-> FreshId, through |-> Head(pending).through]
      /\ UNCHANGED <<display, offset, chain, lastQueued, dropped>>
  BY DEF DrainTakesOutput, Draining, pageVars, sessionVars
<1>2. pending \in Seq(Chunk) /\ chain \in Seq(Script)
  BY DEF Control, TypeInv, QueueTyped, PageTyped
<1>3. PICK n \in Nat : At(b, n) /\ Leads(dropped, b, pending, n, b[lastQueued])
  BY DEF Stream
<1>4. Extends(dropped, display, 0, n)
  BY <1>1, <1>3 DEF At, AtOf
<1>5. PICK p \in Nat :
          /\ Extends(dropped, Head(pending).data, IF Head(pending).reset THEN 0 ELSE n, p)
          /\ Head(pending).through # 0 => p = b[Head(pending).through]
          /\ Leads(dropped, b, Tail(pending), p, b[lastQueued])
  BY <1>1, <1>2, <1>3, LeadsHead
<1>6. offset = 0
  <2>1. No("write", chain)
    BY <1>1 DEF Control, Out
  <2>2. chain # <<>> => chain[1].kind # "write"
    <3>1. chain # <<>> => 1 \in 1..Len(chain)
      BY <1>2, HeadTail
    <3>2. QED
      BY <2>1, <3>1 DEF No
  <2>3. offset \in Nat /\ ~(offset > 0)
    BY <2>2 DEF Halfway, Control, TypeInv, PageTyped
  <2>4. QED
    BY <2>3
<1>7. /\ Write'.data = Head(pending).data /\ Write'.reset = Head(pending).reset
  BY <1>1 DEF Write
<1>8. awaited' # None /\ awaited'.through = Head(pending).through
  <2>1. FreshId # 0
    BY FreshIdIs DEF Control, TypeInv, DrainTyped, PageTyped
  <2>2. awaited'.id = FreshId /\ awaited'.through = Head(pending).through
    BY <1>1
  <2>3. QED
    BY <2>1, <2>2 DEF None
<1>9. AtOf(dropped', b, display', awaited', Write', offset', p)
  <2> DEFINE w == Write'
  <2>1. w.data = Head(pending).data /\ w.reset = Head(pending).reset
    BY <1>7
  <2> HIDE DEF w
  <2>2. AtOf(dropped', b, display', awaited', w, offset', p)
    BY <1>1, <1>4, <1>5, <1>6, <1>8, <2>1 DEF AtOf
  <2>3. QED
    BY <2>2 DEF w
<1>10. At(b, p)'
  BY <1>9 DEF At
<1>11. Leads(dropped', b, pending', p, b[lastQueued'])
  BY <1>1, <1>5
<1>12. QED
  BY <1>10, <1>11 DEF Stream

\* A slice more of the write that is awaited is shown.
LEMMA StreamWrites ==
  ASSUME Control, Halfway, PageWrites, NEW b, Stream(b)
  PROVE  Stream(b)'
<1> DEFINE w == chain[1]
           data == w.data
           end == IF offset + SliceMax < Len(data) THEN offset + SliceMax ELSE Len(data)
           shown == IF w.reset /\ offset = 0 THEN <<>> ELSE display
           piece == SubSeq(data, offset + 1, end)
<1>1. /\ display' = shown \o piece
      /\ IF end = Len(data)
         THEN Acknowledge(w.id)
         ELSE offset' = end /\ UNCHANGED <<chain, awaited>>
      /\ UNCHANGED <<pending, lastQueued, sending, dropped>>
  BY DEF PageWrites, queueVars, sessionVars
<1>2. awaited # None /\ sending = <<>> /\ Write = w /\ w.id = awaited.id /\ chain # <<>>
      /\ Len(chain) = 1
  BY WritesAwaited
<1>3. w \in Script /\ w.kind = "write" /\ offset \in Nat /\ (offset > 0 => offset < Len(data))
  <2>1. chain \in Seq(Script) /\ offset \in Nat
    BY DEF Control, TypeInv, PageTyped
  <2>2. w \in Script
    BY <1>2, <2>1, HeadTail
  <2>3. QED
    BY <1>2, <2>1, <2>2 DEF Halfway, PageWrites
<1>4. data \in Data /\ w.reset \in BOOLEAN
  BY <1>3, ScriptType
<1> HIDE DEF w
<1>5. Len(data) \in Nat /\ offset \in 0..Len(data) /\ end \in offset..Len(data)
      /\ (end = 0 => Len(data) = 0)
  <2> DEFINE len == Len(data)
  <2>1. len \in Nat /\ SliceMax \in Nat \ {0}
    BY <1>4, ConstantTypes, DataType
  <2>2. offset \in Nat /\ (offset > 0 => offset < len)
    BY <1>3
  <2> HIDE DEF len
  <2>3. QED
    BY <2>1, <2>2 DEF len
<1> HIDE DEF data, end
<1>6. PICK p \in Nat : At(b, p) /\ Leads(dropped, b, pending, p, b[lastQueued])
  BY DEF Stream
<1>7. PICK n \in Nat :
          /\ Extends(dropped, data, IF w.reset THEN 0 ELSE n, p)
          /\ Extends(dropped, display, 0, IF offset = 0 THEN n ELSE data[offset])
          /\ awaited.through # 0 => p = b[awaited.through]
  BY <1>2, <1>6 DEF At, AtOf, data
<1> DEFINE base == IF w.reset THEN 0 ELSE n
           from == IF offset = 0 THEN base ELSE data[offset]
           to == IF end = Len(data) THEN p ELSE data[end]
<1>8. Extends(dropped, piece, from, to)
  BY <1>5, <1>7, ExtendsPart
<1>9. Extends(dropped, shown, 0, from)
  <2>1. CASE w.reset /\ offset = 0
    <3>1. shown = <<>> /\ from = 0
      BY <2>1
    <3>2. Extends(dropped, <<>>, 0, 0)
      BY ExtendsNone
    <3>3. QED
      BY <3>1, <3>2
  <2>2. CASE ~w.reset /\ offset = 0
    BY <1>7, <2>2
  <2>3. CASE offset # 0
    BY <1>7, <2>3
  <2>4. QED
    BY <2>1, <2>2, <2>3
<1>10. Extends(dropped, display', 0, to)
  <2> HIDE DEF shown, piece, from, to
  <2>1. QED
    BY <1>1, <1>8, <1>9, ExtendsConcat
<1>11. At(b, p)'
  <2>1. CASE end = Len(data)
    <3>1. awaited' = None
      BY <1>1, <1>2, <2>1 DEF Acknowledge
    <3>2. Extends(dropped', display', 0, p)
      BY <1>1, <1>10, <2>1
    <3>3. QED
      BY <3>1, <3>2 DEF At, AtOf
  <2>2. CASE end # Len(data)
    <3>1. offset' = end /\ UNCHANGED <<chain, awaited, sending, dropped>>
      BY <1>1, <2>2
    <3>2. Write' = w /\ w.data = data
      BY <1>2, <3>1 DEF Write, data
    <3>3. end # 0
      BY <1>5, <2>2
    <3>4. Extends(dropped, display', 0, data[end])
      BY <1>10, <2>2
    <3>5. AtOf(dropped, b, display', awaited, w, end, p)
      BY <1>2, <1>7, <3>2, <3>3, <3>4 DEF AtOf
    <3>6. AtOf(dropped', b, display', awaited', Write', offset', p)
      <4> HIDE DEF Write
      <4>1. QED
        BY <3>1, <3>2, <3>5
    <3>7. QED
      BY <3>6 DEF At
  <2>3. QED
    BY <2>1, <2>2
<1>12. Leads(dropped', b, pending', p, b[lastQueued'])
  BY <1>1, <1>6
<1>13. QED
  BY <1>11, <1>12 DEF Stream

\* An event takes what is gathered.
LEMMA FlushGathers == Flush => gathered' # gathered
<1>1. Flush => gathered > 0 /\ gathered' = 0
  BY DEF Flush
<1>2. QED
  BY <1>1

\* Every step keeps what is on the way, of a page that is not stuck.
LEMMA StreamStep ==
  ASSUME Control, Control', Listens, Settled, Halfway, Reached, [Next]_vars,
         NEW b, History(b), ~Stuck => Stream(b),
         NEW c, Grows(b, c), History(c)', ~Flush => c = b, ~Stuck'
  PROVE  Stream(c)'
<1>1. TypeInv /\ TypeInv' /\ Idle
  BY DEF Control
<1>2. CASE Dispose
  <2>1. awaited' = None /\ display' = <<>> /\ pending' = <<>> /\ lastQueued' = 0
    BY <1>2 DEF Dispose
  <2>2. c[0] = 0
    BY DEF History, HistoryOf
  <2>3. Extends(dropped', display', 0, 0)
    BY <2>1, ExtendsNone
  <2>4. At(c, 0)'
    BY <2>1, <2>3 DEF At, AtOf
  <2>5. Leads(dropped', c, pending', 0, c[lastQueued'])
    BY <2>1, <2>2, LeadsNowhere
  <2>6. QED
    BY <2>4, <2>5 DEF Stream
<1>3. CASE Mount
  <2>1. awaited' = None /\ display' = <<>>
    BY <1>3 DEF Mount
  <2>2. Extends(dropped', display', 0, 0)
    BY <2>1, ExtendsNone
  <2>3. At(c, 0)'
    BY <2>1, <2>2 DEF At, AtOf
  <2>4. Leads(dropped', c, pending', 0, c[lastQueued'])
    BY <1>1, <1>3, MountQueues
  <2>5. QED
    BY <2>3, <2>4 DEF Stream
<1>4. CASE ~Dispose /\ ~Mount
  <2>1. ~Stuck
    BY <1>1, <1>4, StuckStays
  <2>2. CASE DrainTakesOutput
    <3>1. c = b
      <4>1. gathered' = gathered
        BY <2>2 DEF DrainTakesOutput, sessionVars
      <4>2. QED
        BY <4>1, FlushGathers
    <3>2. QED
      BY <2>1, <2>2, <3>1, StreamTakes
  <2>3. CASE PageWrites
    <3>1. c = b
      <4>1. gathered' = gathered
        BY <2>3 DEF PageWrites, sessionVars
      <4>2. QED
        BY <4>1, FlushGathers
    <3>2. QED
      BY <2>1, <2>3, <3>1, StreamWrites
  <2>4. CASE ~DrainTakesOutput /\ ~PageWrites
    <3>1. PICK p \in Nat : At(b, p) /\ Leads(dropped, b, pending, p, b[lastQueued])
      BY <2>1 DEF Stream
    <3>2. ~AckTimeout
      BY DEF AckTimeout, ReportFatal, Stuck, lifeVars, pageVars
    <3>3. CASE ReadyTimeout
      <4>1. /\ ~ready /\ awaited' = None
            /\ UNCHANGED <<display, offset, dropped, sequence, pending, lastQueued>>
        BY <3>3 DEF ReadyTimeout, ReportFatal, sessionVars, pageVars
      <4>2. awaited = None
        BY <1>1, <4>1 DEF Idle, Unready
      <4>3. At(c, p)'
        BY <1>1, <3>1, <4>1, <4>2, AtKept
      <4>4. Leads(dropped', c, pending, p, c[lastQueued])
        BY <1>1, <3>1, QueueKept
      <4>5. QED
        BY <4>1, <4>3, <4>4 DEF Stream
    <3>4. CASE ~ReadyTimeout
      <4>1. UNCHANGED <<display, offset, awaited, lastSent>>
        BY <1>4, <2>4, <3>2, <3>4, PageRests
      <4>2. awaited # None => Write' = Write
        BY <1>4, <2>1, <2>4, <3>2, <3>4, WriteKept
      <4>3. At(c, p)'
        BY <1>1, <3>1, <4>1, <4>2, AtKept
      <4>4. Leads(dropped', c, pending, p, c[lastQueued])
        BY <1>1, <3>1, QueueKept
      <4>5. ASSUME UNCHANGED <<pending, lastQueued>>
            PROVE  Stream(c)'
        BY <4>3, <4>4, <4>5 DEF Stream
      <4>6. CASE Flush /\ attached /\ active
        <5>1. lastQueued = sequence
          BY <4>6 DEF Reached
        <5>2. c[sequence] = units
          <6>1. b[sequence] = units /\ sequence \in Nat
            BY <1>1 DEF History, HistoryOf, TypeInv, SessionTyped
          <6>2. QED
            BY <6>1 DEF Grows
        <5>3. Leads(dropped', c, pending', p, c[lastQueued'])
          BY <1>1, <4>4, <4>6, <5>1, <5>2, FlushQueues
        <5>4. QED
          BY <4>3, <5>3 DEF Stream
      <4>7. CASE Show \/ SuspendDrained \/ SuspendSaves \/ SuspendTurnsOff
        <5>1. /\ UNCHANGED <<sequence, lastSent>>
              /\ \/ UNCHANGED <<pending, lastQueued>>
                 \/ Synchronize /\ pending = <<>> /\ awaited = None
          BY <4>7, Resumes
        <5>2. CASE Synchronize /\ pending = <<>> /\ awaited = None
          <6>1. p = b[lastQueued]
            <7>1. pending \in Seq(Chunk)
              BY <1>1 DEF TypeInv, QueueTyped
            <7>2. QED
              BY <3>1, <5>2, <7>1, LeadsEnds
          <6>2. lastSent = lastQueued /\ lastSent \in 0..sequence
            BY <1>1, <2>1, <5>2 DEF Reached, TypeInv, QueueTyped
          <6>3. p = c[lastSent']
            BY <5>1, <6>1, <6>2 DEF Grows
          <6>4. Leads(dropped', c, pending', c[lastSent'], c[lastQueued'])
            BY <1>1, <5>1, <5>2, SynchronizeQueues
          <6>5. Leads(dropped', c, pending', p, c[lastQueued'])
            BY <6>3, <6>4
          <6>6. QED
            BY <4>3, <6>5 DEF Stream
        <5>3. QED
          BY <4>5, <5>1, <5>2
      <4>8. CASE ~(Flush /\ attached /\ active)
                 /\ ~(Show \/ SuspendDrained \/ SuspendSaves \/ SuspendTurnsOff)
        BY <1>4, <2>4, <3>2, <3>4, <4>5, <4>8, QueueRests
      <4>9. QED
        BY <4>6, <4>7, <4>8
    <3>5. QED
      BY <3>3, <3>4
  <2>5. QED
    BY <2>2, <2>3, <2>4
<1>5. QED
  BY <1>2, <1>3, <1>4

\* Wherever the terminal is, it shows output in order.
LEMMA AtShows ==
  ASSUME NEW D, NEW b, NEW shown, NEW wait, NEW w, NEW off, NEW p,
         AtOf(D, b, shown, wait, w, off, p)
  PROVE  \E n \in Nat : Extends(D, shown, 0, n)
<1>1. PICK m : Extends(D, shown, 0, m)
  BY DEF AtOf
<1>2. m \in Nat
  BY <1>1 DEF Extends
<1>3. QED
  BY <1>1, <1>2

\* What is shown is output in order, also on a page that is stuck.
LEMMA ShownStep ==
  ASSUME Control, Halfway, Shown, [Next]_vars, NEW b, ~Stuck => Stream(b),
         NEW c, Grows(b, c), ~Stuck' => Stream(c)'
  PROVE  Shown'
<1>1. CASE UNCHANGED display
  <2>1. PICK n \in Nat : Extends(dropped, display, 0, n)
    BY DEF Shown
  <2>2. Extends(dropped', display', 0, n)
    BY <1>1, <2>1, ExtendsMore DEF Grows
  <2>3. QED
    BY <2>2 DEF Shown
<1>2. ASSUME NEW d, Stream(d)'
      PROVE  Shown'
  <2>1. PICK p \in Nat : At(d, p)'
    BY <1>2 DEF Stream
  <2>2. AtOf(dropped', d, display', awaited', Write', offset', p)
    BY <2>1 DEF At
  <2> HIDE DEF Write
  <2>3. \E n \in Nat : Extends(dropped', display', 0, n)
    BY <2>2, AtShows
  <2>4. QED
    BY <2>3 DEF Shown
<1>3. CASE PageWrites
  <2>1. Stream(b)'
    BY <1>3, StreamWrites, WritesAwaited
  <2>2. QED
    BY <1>2, <2>1
<1>4. CASE ~PageWrites /\ ~UNCHANGED display
  <2>1. Mount \/ Dispose
    <3>1. CASE DrainTakesOutput \/ AckTimeout \/ ReadyTimeout
      BY <1>4, <3>1 DEF DrainTakesOutput, AckTimeout, ReadyTimeout, pageVars
    <3>2. CASE ~(DrainTakesOutput \/ AckTimeout \/ ReadyTimeout)
      BY <1>4, <3>2, PageRests
    <3>3. QED
      BY <3>1, <3>2
  <2>2. frame' = FALSE
    BY <2>1 DEF Mount, Dispose
  <2>3. ~Stuck'
    BY <2>2 DEF Stuck
  <2>4. QED
    BY <1>2, <2>3
<1>5. QED
  BY <1>1, <1>3, <1>4

-----------------------------------------------------------------------------
(* The snapshots that are asked for.                                       *)

\* What is in a queue that has changed at one end.
LEMMA HasIs ==
  ASSUME NEW S, NEW q \in Seq(S), NEW t
  PROVE  /\ \A x : Has(Append(q, x), t) => Has(q, t) \/ t = x
         /\ q # <<>> /\ Has(Tail(q), t) => Has(q, t)
         /\ \A x : Has(<<x>>, t) => t = x
         /\ ~Has(<<>>, t)
         /\ q # <<>> => Has(q, q[1]) /\ Head(q) = q[1]
<1>1. ASSUME NEW x, Has(Append(q, x), t)
      PROVE  Has(q, t) \/ t = x
  <2> DEFINE a == Append(q, x)
  <2>1. Len(a) = Len(q) + 1 /\ a[Len(q) + 1] = x /\ (\A i \in 1..Len(q) : a[i] = q[i])
        /\ Len(q) \in Nat
    OBVIOUS
  <2>2. PICK i \in 1..Len(a) : a[i] = t
    BY <1>1 DEF Has
  <2> HIDE DEF a
  <2>3. i \in 1..Len(q) \/ i = Len(q) + 1
    BY <2>1
  <2>4. QED
    BY <2>1, <2>2, <2>3 DEF Has
<1>2. ASSUME q # <<>>, Has(Tail(q), t)
      PROVE  Has(q, t)
  <2>1. /\ Len(q) \in Nat \ {0} /\ Len(Tail(q)) = Len(q) - 1
        /\ \A i \in 1..Len(q) - 1 : Tail(q)[i] = q[i + 1]
    BY <1>2, HeadTail
  <2>2. PICK i \in 1..Len(q) - 1 : Tail(q)[i] = t
    BY <1>2, <2>1 DEF Has
  <2>3. i + 1 \in 1..Len(q) /\ q[i + 1] = t
    BY <2>1, <2>2
  <2>4. QED
    BY <2>3 DEF Has
<1>3. ASSUME NEW x, Has(<<x>>, t)
      PROVE  t = x
  <2>1. Len(<<x>>) = 1 /\ <<x>>[1] = x
    OBVIOUS
  <2>2. PICK i \in 1..1 : <<x>>[i] = t
    BY <1>3, <2>1 DEF Has
  <2>3. i = 1
    OBVIOUS
  <2>4. QED
    BY <2>1, <2>2, <2>3
<1>4. ~Has(<<>>, t)
  BY DEF Has
<1>5. ASSUME q # <<>>
      PROVE  Has(q, q[1]) /\ Head(q) = q[1]
  <2>1. Len(q) \in Nat \ {0} /\ Head(q) = q[1]
    BY <1>5, HeadTail
  <2>2. 1 \in 1..Len(q)
    BY <2>1
  <2>3. QED
    BY <2>1, <2>2 DEF Has
<1>6. QED
  BY <1>1, <1>2, <1>3, <1>4, <1>5

\* The script of a request.
Ask(r) == [kind |-> "snapshot", for |-> r, id |-> FreshId, label |-> lastSent]

\* A request for a snapshot is made when nothing else is under way.
Requests(r) == RequestSnapshot(r) /\ Drained /\ ready /\ active

\* A script that is under way after a step.
LEMMA TaskMoves ==
  ASSUME TypeInv, Listens, [Next]_vars, NEW t, t.kind = "snapshot", UnderWay(t)'
  PROVE  UnderWay(t) \/ \E r \in Requesters : Requests(r) /\ t = Ask(r)
<1>1. scripts \in Seq(Script) /\ sending \in Seq(Script) /\ chain \in Seq(Script)
  BY DEF TypeInv, DrainTyped, PageTyped
<1>2. ASSUME UNCHANGED <<sending, chain>>,
             UNCHANGED scripts
             \/ \E v : scripts' = Append(scripts, [kind |-> "setActive", value |-> v])
      PROVE  UnderWay(t)
  <2>1. Has(scripts', t) => Has(scripts, t)
    <3>1. CASE UNCHANGED scripts
      BY <3>1
    <3>2. CASE \E v : scripts' = Append(scripts, [kind |-> "setActive", value |-> v])
      <4>1. PICK v : scripts' = Append(scripts, [kind |-> "setActive", value |-> v])
        BY <3>2
      <4>2. t # [kind |-> "setActive", value |-> v]
        OBVIOUS
      <4>3. QED
        BY <1>1, <4>1, <4>2, HasIs
    <3>3. QED
      BY <1>2, <3>1, <3>2
  <2>2. QED
    BY <1>2, <2>1 DEF UnderWay, Has
<1>3. ASSUME Mount \/ Dispose
      PROVE  FALSE
  <2>1. scripts' = <<>> /\ sending' = <<>> /\ chain' = <<>>
    BY <1>3 DEF Mount, Dispose
  <2>2. ~Has(<<>>, t)
    BY <1>1, HasIs
  <2>3. QED
    BY <2>1, <2>2 DEF UnderWay, Has
<1>4. CASE Session \/ UNCHANGED vars
  BY <1>2, <1>4 DEF Session, Receive, Flush, vars, drainVars, pageVars
<1>5. CASE Screen
  <2>1. CASE Show
    BY <1>2, <2>1 DEF Show, Reactivate, pageVars
  <2>2. CASE Hide \/ Leave
    BY <1>2, <2>2 DEF Hide, Leave, Suspend, drainVars, pageVars
  <2>3. QED
    BY <1>3, <1>5, <2>1, <2>2 DEF Screen, Unmount, Replace
<1>6. ASSUME NEW r \in Requesters, Requests(r), UNCHANGED <<sending, chain>>
      PROVE  UnderWay(t) \/ t = Ask(r)
  <2>1. scripts' = Append(scripts, Ask(r))
    BY <1>6 DEF Requests, RequestSnapshot, Ask
  <2>2. Has(scripts', t) => Has(scripts, t) \/ t = Ask(r)
    BY <1>1, <2>1, HasIs
  <2>3. QED
    BY <1>6, <2>2 DEF UnderWay, Has
<1>7. CASE SuspendDrained
  <2>1. UNCHANGED <<sending, chain>>
    BY <1>7 DEF SuspendDrained, pageVars
  <2>2. CASE ready /\ ~fatal
    <3>1. Requests("suspend")
      BY <1>7, <2>2 DEF SuspendDrained, Requests, Listens
    <3>2. "suspend" \in Requesters
      BY DEF Requesters
    <3>3. QED
      BY <1>6, <2>1, <3>1, <3>2
  <2>3. CASE ~(ready /\ ~fatal)
    <3>1. SuspendEnds
      BY <1>7, <2>3 DEF SuspendDrained
    <3>2. QED
      BY <1>2, <2>1, <3>1 DEF SuspendEnds, Reactivate
  <2>4. QED
    BY <2>2, <2>3
<1>8. CASE SuspendSaves \/ SuspendTurnsOff
  BY <1>2, <1>8 DEF SuspendSaves, SuspendTurnsOff, SuspendEnds, Reactivate, pageVars
<1>9. CASE CheckpointDrained
  <2>1. UNCHANGED <<sending, chain>>
    BY <1>9 DEF CheckpointDrained, pageVars
  <2>2. CASE ready /\ active /\ CheckpointNeeded
    <3>1. Requests("checkpoint")
      BY <1>9, <2>2 DEF CheckpointDrained, Requests
    <3>2. "checkpoint" \in Requesters
      BY DEF Requesters
    <3>3. QED
      BY <1>6, <2>1, <3>1, <3>2
  <2>3. CASE ~(ready /\ active /\ CheckpointNeeded)
    BY <1>2, <1>9, <2>1, <2>3 DEF CheckpointDrained
  <2>4. QED
    BY <2>2, <2>3
<1>10. CASE Ready \/ ReadyTimeout \/ CheckpointFires \/ CheckpointSaves \/ AckTimeout
  BY <1>2, <1>10 DEF Ready, ReadyTimeout, CheckpointFires, CheckpointSaves, AckTimeout,
                     drainVars, pageVars
<1>11. CASE DrainTakesScript
  <2>1. /\ scripts # <<>> /\ sending' = <<Head(scripts)>> /\ scripts' = Tail(scripts)
        /\ chain' = chain
    BY <1>11 DEF DrainTakesScript, pageVars
  <2>2. Has(sending', t) => Has(scripts, t)
    BY <1>1, <2>1, HasIs
  <2>3. Has(scripts', t) => Has(scripts, t)
    BY <1>1, <2>1, HasIs
  <2>4. QED
    BY <2>1, <2>2, <2>3 DEF UnderWay, Has
<1>12. CASE DrainTakesOutput
  <2> DEFINE w == [kind |-> "write", id |-> FreshId, data |-> Head(pending).data,
                   reset |-> Head(pending).reset]
  <2>1. sending' = <<w>> /\ chain' = chain /\ scripts' = scripts
    BY <1>12 DEF DrainTakesOutput, pageVars
  <2>2. t # w
    OBVIOUS
  <2> HIDE DEF w
  <2>3. ~Has(sending', t)
    BY <1>1, <2>1, <2>2, HasIs
  <2>4. QED
    BY <2>1, <2>3 DEF UnderWay, Has
<1>13. CASE PageRuns
  <2>1. /\ sending # <<>> /\ sending' = <<>> /\ scripts' = scripts
        /\ chain' = chain \/ chain' = Append(chain, sending[1])
    BY <1>13 DEF PageRuns
  <2>2. ~Has(sending', t)
    BY <1>1, <2>1, HasIs
  <2>3. Has(chain', t) => Has(chain, t) \/ Has(sending, t)
    <3>1. Has(sending, sending[1])
      BY <1>1, <2>1, HasIs
    <3>2. CASE chain' = Append(chain, sending[1])
      <4>1. Has(chain', t) => Has(chain, t) \/ t = sending[1]
        BY <1>1, <3>2, HasIs
      <4>2. QED
        BY <3>1, <4>1
    <3>3. CASE chain' = chain
      BY <3>3
    <3>4. QED
      BY <2>1, <3>2, <3>3
  <2>4. QED
    BY <2>1, <2>2, <2>3 DEF UnderWay, Has
<1>14. CASE PageWrites \/ PageSnapshots \/ Frame
  <2>1. /\ UNCHANGED <<scripts, sending>>
        /\ chain' = chain \/ (chain # <<>> /\ chain' = Tail(chain))
    BY <1>14 DEF PageWrites, PageSnapshots, Frame, drainVars
  <2>2. Has(chain', t) => Has(chain, t)
    <3>1. CASE chain # <<>> /\ chain' = Tail(chain)
      BY <1>1, <3>1, HasIs
    <3>2. CASE chain' = chain
      BY <3>2
    <3>3. QED
      BY <2>1, <3>1, <3>2
  <2>3. QED
    BY <2>1, <2>2 DEF UnderWay, Has
<1>15. QED
  BY <1>4, <1>5, <1>7, <1>8, <1>9, <1>10, <1>11, <1>12, <1>13, <1>14 DEF Next, Widget, Page

\* What a step does to the request of r: nothing, it ends, begins or is answered.
RequestMove(r) ==
    \/ request'[r] = request[r]
    \/ request'[r] = NoRequest
    \/ /\ Requests(r)
       /\ request'[r].id = FreshId /\ request'[r].label = lastSent /\ ~request'[r].answered
    \/ /\ PageSnapshots /\ chain[1].for = r /\ request[r].id = chain[1].id
       /\ request'[r].id = request[r].id /\ request'[r].label = request[r].label
       /\ request'[r].data = display

\* What every step does to a request.
LEMMA RequestMoves ==
  ASSUME TypeInv, Listens, [Next]_vars, NEW r \in Requesters
  PROVE  RequestMove(r)
<1>1. request \in [Requesters -> [id : Nat, label : 0..MaxUnits, answered : BOOLEAN, data : Data]]
  BY DEF TypeInv, WaitsTyped
<1>2. CASE UNCHANGED request
  BY <1>2 DEF RequestMove
<1>3. ASSUME NEW s \in Requesters, request' = [request EXCEPT ![s] = NoRequest]
      PROVE  RequestMove(r)
  BY <1>1, <1>3 DEF RequestMove
<1>4. ASSUME NEW s \in Requesters, Requests(s)
      PROVE  RequestMove(r)
  <2> DEFINE ask == [NoRequest EXCEPT !.id = FreshId, !.label = lastSent]
  <2>1. request' = [request EXCEPT ![s] = ask]
    BY <1>4 DEF Requests, RequestSnapshot
  <2>2. ask.id = FreshId /\ ask.label = lastSent /\ ~ask.answered
    BY DEF NoRequest
  <2> HIDE DEF ask
  <2>3. CASE r = s
    BY <1>1, <1>4, <2>1, <2>2, <2>3 DEF RequestMove
  <2>4. CASE r # s
    BY <1>1, <2>1, <2>4 DEF RequestMove
  <2>5. QED
    BY <2>3, <2>4
<1>5. "suspend" \in Requesters /\ "checkpoint" \in Requesters
  BY DEF Requesters
<1>6. CASE Dispose
  BY <1>6 DEF Dispose, RequestMove
<1>7. CASE SuspendDrained
  <2>1. CASE ready /\ ~fatal
    <3>1. Requests("suspend")
      BY <1>7, <2>1 DEF SuspendDrained, Requests, Listens
    <3>2. QED
      BY <1>4, <1>5, <3>1
  <2>2. CASE ~(ready /\ ~fatal)
    BY <1>2, <1>7, <2>2 DEF SuspendDrained
  <2>3. QED
    BY <2>1, <2>2
<1>8. CASE SuspendSaves
  <2>1. request' = [request EXCEPT !["suspend"] = NoRequest]
    BY <1>8 DEF SuspendSaves
  <2>2. QED
    BY <1>3, <1>5, <2>1
<1>9. CASE CheckpointDrained
  <2>1. CASE ready /\ active /\ CheckpointNeeded
    <3>1. Requests("checkpoint")
      BY <1>9, <2>1 DEF CheckpointDrained, Requests
    <3>2. QED
      BY <1>4, <1>5, <3>1
  <2>2. CASE ~(ready /\ active /\ CheckpointNeeded)
    BY <1>2, <1>9, <2>2 DEF CheckpointDrained
  <2>3. QED
    BY <2>1, <2>2
<1>10. CASE CheckpointSaves
  <2>1. request' = [request EXCEPT !["checkpoint"] = NoRequest]
    BY <1>10 DEF CheckpointSaves
  <2>2. QED
    BY <1>3, <1>5, <2>1
<1>11. CASE PageSnapshots
  <2> DEFINE t == chain[1]
             s == t.for
  <2>1. CASE request[s].id = t.id
    <3>1. t \in Script /\ t.kind = "snapshot"
      <4>1. chain \in Seq(Script) /\ chain # <<>> /\ t.kind = "snapshot"
        BY <1>11 DEF TypeInv, PageTyped, PageSnapshots
      <4>2. QED
        BY <4>1, HeadTail
    <3>2. s \in Requesters
      BY <3>1, ScriptType
    <3>3. request' = [request EXCEPT ![s].answered = TRUE, ![s].data = display]
      BY <1>11, <2>1 DEF PageSnapshots
    <3> HIDE DEF s
    <3>4. CASE r = s
      <4>1. /\ request'[r].id = request[r].id /\ request'[r].label = request[r].label
            /\ request'[r].data = display
        BY <1>1, <3>2, <3>3, <3>4
      <4>2. chain[1].for = r
        BY <3>4 DEF s
      <4>3. QED
        BY <1>11, <2>1, <3>4, <4>1, <4>2 DEF RequestMove
    <3>5. CASE r # s
      <4>1. request'[r] = request[r]
        BY <1>1, <3>2, <3>3, <3>5
      <4>2. QED
        BY <4>1 DEF RequestMove
    <3>6. QED
      BY <3>4, <3>5
  <2>2. CASE request[s].id # t.id
    BY <1>2, <1>11, <2>2 DEF PageSnapshots
  <2>3. QED
    BY <2>1, <2>2
<1>12. CASE ~(Dispose \/ SuspendDrained \/ SuspendSaves \/ CheckpointDrained \/ CheckpointSaves
              \/ PageSnapshots)
  <2>1. CASE Session \/ UNCHANGED vars
    BY <1>2, <2>1 DEF Session, Receive, Flush, vars
  <2>2. CASE Screen
    BY <1>2, <1>12, <2>2 DEF Screen, Mount, Unmount, Hide, Leave, Suspend, Show, Replace
  <2>3. CASE Widget
    BY <1>2, <1>12, <2>3 DEF Widget, Ready, ReadyTimeout, SuspendTurnsOff, CheckpointFires,
                             DrainTakesScript, DrainTakesOutput, AckTimeout
  <2>4. CASE Page
    BY <1>2, <1>12, <2>4 DEF Page, PageRuns, PageWrites, Frame
  <2>5. QED
    BY <2>1, <2>2, <2>3, <2>4 DEF Next
<1>13. QED
  BY <1>6, <1>7, <1>8, <1>9, <1>10, <1>11, <1>12

\* The page answers with what it shows: the output up to the label of the request.
LEMMA AnswerShows ==
  ASSUME Control, Halfway, PageSnapshots, NEW b, ~Stuck => Asked(b),
         NEW r \in Requesters, chain[1].for = r, request[r].id = chain[1].id
  PROVE  Extends(dropped, display, 0, b[request[r].label])
<1>1. chain # <<>> /\ chain[1].kind = "snapshot" /\ chain \in Seq(Script)
  BY DEF PageSnapshots, Control, TypeInv, PageTyped
<1>2. ~Stuck
  BY <1>1 DEF Halfway, Stuck
<1>3. chain[1] \in Script /\ UnderWay(chain[1])
  BY <1>1, HeadTail, HasIs DEF UnderWay
<1>4. IsSnapshot(b, chain[1])
  BY <1>2, <1>3 DEF Asked
<1>5. QED
  BY <1>1, <1>4 DEF IsSnapshot

\* Every step keeps the snapshots that are there true.
LEMMA AnswersStep ==
  ASSUME Control, Listens, Halfway, [Next]_vars, NEW b, Answers(b), ~Stuck => Asked(b),
         NEW c, Grows(b, c)
  PROVE  Answers(c)'
<1>1. SUFFICES ASSUME NEW r \in Requesters, request'[r].answered
               PROVE  Extends(dropped', request'[r].data, 0, c[request'[r].label])
  BY DEF Answers
<1>2. dropped \subseteq dropped' /\ \A i \in 0..sequence : c[i] = b[i]
  BY DEF Grows
<1>3. request[r].label \in 0..sequence
  BY DEF Control, TypeInv, WaitsTyped, SessionTyped
<1>4. RequestMove(r)
  BY RequestMoves DEF Control
<1>5. CASE request'[r] = request[r]
  <2>1. Extends(dropped, request[r].data, 0, b[request[r].label])
    BY <1>1, <1>5 DEF Answers
  <2>2. QED
    BY <1>2, <1>3, <1>5, <2>1, ExtendsMore
<1>6. CASE request'[r] = NoRequest
  BY <1>1, <1>6 DEF NoRequest
<1>7. CASE /\ PageSnapshots /\ chain[1].for = r /\ request[r].id = chain[1].id
           /\ request'[r].label = request[r].label /\ request'[r].data = display
  <2>1. Extends(dropped, display, 0, b[request[r].label])
    BY <1>7, AnswerShows
  <2>2. QED
    BY <1>2, <1>3, <1>7, <2>1, ExtendsMore
<1>8. QED
  BY <1>1, <1>4, <1>5, <1>6, <1>7 DEF RequestMove

\* When nothing is under way, the terminal shows what was sent to it.
LEMMA DrainedShows ==
  ASSUME Control, Reached, ~Stuck, Drained, ready, active, NEW b, Stream(b)
  PROVE  Extends(dropped, display, 0, b[lastSent])
<1>1. awaited = None /\ pending = <<>> /\ pending \in Seq(Chunk)
  BY DEF Drained, Draining, Control, TypeInv, QueueTyped
<1>2. lastSent = lastQueued
  BY <1>1 DEF Reached
<1>3. PICK p \in Nat : At(b, p) /\ Leads(dropped, b, pending, p, b[lastQueued])
  BY DEF Stream
<1>4. p = b[lastQueued]
  BY <1>1, <1>3, LeadsEnds
<1>5. QED
  BY <1>1, <1>2, <1>3, <1>4 DEF At, AtOf

\* A script that is under way has not the number of the next one.
LEMMA NotFresh ==
  ASSUME TypeInv, NEW t, UnderWay(t), t.kind # "setActive"
  PROVE  t.id # FreshId
BY FreshIdIs DEF UnderWay, Has, TypeInv, DrainTyped, PageTyped

\* Every step keeps what is asked for true, on a page that is not stuck.
LEMMA AskedStep ==
  ASSUME Control, Listens, Halfway, Reached, [Next]_vars,
         NEW b, ~Stuck => Stream(b) /\ Asked(b),
         NEW c, Grows(b, c), ~Stuck'
  PROVE  Asked(c)'
<1>1. SUFFICES ASSUME NEW t \in Script, UnderWay(t)', t.kind = "snapshot"
               PROVE  /\ t.id # 0
                      /\ t.id = request'[t.for].id => request'[t.for].label = lastSent'
                      /\ Extends(dropped', display', 0, c[lastSent'])
  BY DEF Asked, IsSnapshot
<1>2. TypeInv /\ Idle
  BY DEF Control
<1>3. scripts \in Seq(Script) /\ sending \in Seq(Script) /\ chain \in Seq(Script)
  BY <1>2 DEF TypeInv, DrainTyped, PageTyped
<1>4. ~(Mount \/ Dispose)
  <2>1. Mount \/ Dispose => scripts' = <<>> /\ sending' = <<>> /\ chain' = <<>>
    BY DEF Mount, Dispose
  <2>2. ~Has(<<>>, t)
    BY <1>3, HasIs
  <2>3. QED
    BY <1>1, <2>1, <2>2 DEF UnderWay, Has
<1>5. ~Stuck
  BY <1>2, <1>4, StuckStays
<1>6. ~PageWrites
  <2>1. SUFFICES ASSUME PageWrites PROVE FALSE
    OBVIOUS
  <2>2. /\ sending = <<>> /\ Len(chain) = 1 /\ chain # <<>> /\ No("snapshot", scripts)
        /\ chain[1].kind = "write"
    BY <2>1, WritesAwaited DEF PageWrites
  <2>3. ~Has(sending, t)
    BY <1>3, <2>2, HasIs
  <2>4. ~Has(chain, t)
    BY <1>1, <2>2 DEF Has
  <2>5. ~Has(scripts, t)
    BY <1>1, <2>2 DEF No, Has
  <2>6. UnderWay(t)
    <3>1. ~\E r \in Requesters : Requests(r)
      BY <2>1, WritesAwaited DEF Requests, Drained, Draining
    <3>2. QED
      BY <1>1, <1>2, <3>1, TaskMoves
  <2>7. QED
    BY <2>3, <2>4, <2>5, <2>6 DEF UnderWay
<1>7. UNCHANGED <<display, lastSent>>
  <2>1. CASE DrainTakesOutput \/ AckTimeout \/ ReadyTimeout
    BY <2>1 DEF DrainTakesOutput, AckTimeout, ReadyTimeout, pageVars
  <2>2. CASE ~(DrainTakesOutput \/ AckTimeout \/ ReadyTimeout)
    BY <1>4, <1>6, <2>2, PageRests
  <2>3. QED
    BY <2>1, <2>2
<1>8. ASSUME Extends(dropped, display, 0, b[lastSent])
      PROVE  Extends(dropped', display', 0, c[lastSent'])
  <2>1. lastSent \in 0..sequence
    BY <1>2 DEF TypeInv, DrainTyped, QueueTyped, SessionTyped
  <2>2. QED
    BY <1>7, <1>8, <2>1, ExtendsMore DEF Grows
<1>9. t.for \in Requesters
  BY <1>1, ScriptType
<1>10. RequestMove(t.for)
  BY <1>2, <1>9, RequestMoves
<1>11. CASE UnderWay(t)
  <2>1. IsSnapshot(b, t)
    BY <1>5, <1>11 DEF Asked
  <2>2. /\ t.id # 0
        /\ t.id = request[t.for].id => request[t.for].label = lastSent
        /\ Extends(dropped, display, 0, b[lastSent])
    BY <1>1, <2>1 DEF IsSnapshot
  <2>3. t.id # FreshId
    BY <1>1, <1>2, <1>11, NotFresh
  <2>4. t.id = request'[t.for].id => request'[t.for].label = lastSent
    BY <1>10, <2>2, <2>3 DEF RequestMove, NoRequest
  <2>5. QED
    BY <1>7, <1>8, <2>2, <2>4
<1>12. CASE \E r \in Requesters : Requests(r) /\ t = Ask(r)
  <2>1. PICK r \in Requesters : Requests(r) /\ t = Ask(r)
    BY <1>12
  <2>2. t.id = FreshId /\ t.for = r
    BY <2>1 DEF Ask
  <2>3. FreshId # 0
    BY <1>3, FreshIdIs
  <2>4. Extends(dropped, display, 0, b[lastSent])
    BY <1>5, <2>1, DrainedShows DEF Requests
  <2>5. request'[r].label = lastSent
    <3>1. request' = [request EXCEPT ![r] = [NoRequest EXCEPT !.id = FreshId, !.label = lastSent]]
      BY <2>1 DEF Requests, RequestSnapshot
    <3>2. request \in [Requesters -> [id : Nat, label : 0..MaxUnits, answered : BOOLEAN,
                                      data : Data]]
      BY <1>2 DEF TypeInv, WaitsTyped
    <3>3. QED
      BY <3>1, <3>2 DEF NoRequest
  <2>6. QED
    BY <1>7, <1>8, <2>2, <2>3, <2>4, <2>5
<1>13. QED
  BY <1>1, <1>2, <1>11, <1>12, TaskMoves

-----------------------------------------------------------------------------
(* The display and the history.                                            *)

\* At first there is no output.
LEMMA WholeInit == Init => Whole
<1>1. SUFFICES ASSUME Init PROVE Whole
  OBVIOUS
<1>2. Control
  BY <1>1, ControlInit
<1>3. /\ mounted = FALSE /\ active = FALSE /\ attached = FALSE /\ resumeRequested = FALSE
      /\ suspension = "no" /\ offset = 0 /\ frame = FALSE /\ fatal = FALSE
      /\ pending = <<>> /\ lastQueued = 0 /\ lastSent = 0 /\ awaited = None
  BY <1>1 DEF Init
<1>4. Listens /\ Settled /\ Halfway /\ Reached
  BY <1>3 DEF Listens, Settled, Halfway, Reached
<1>5. /\ display = <<>> /\ dropped = {} /\ snapshot = <<>> /\ snapshotSeq = 0 /\ delta = <<>>
      /\ sequence = 0 /\ units = 0 /\ scripts = <<>> /\ sending = <<>> /\ chain = <<>>
      /\ request = [r \in Requesters |-> NoRequest]
  BY <1>1 DEF Init
<1>6. Extends(dropped, <<>>, 0, 0)
  BY ExtendsNone
<1>7. Shown
  BY <1>5, <1>6 DEF Shown
<1> DEFINE b == [i \in {0} |-> 0]
<1>8. b[0] = 0
  OBVIOUS
<1> HIDE DEF b
<1>9. History(b)
  <2>1. <<>> \in Seq(Event) /\ <<>> \in Data /\ Len(<<>>) = 0
    BY EmptyTypes
  <2>2. Events(<<>>, b, 0)
    BY <1>8, <2>1 DEF Events
  <2>3. HistoryOf(b, <<>>, 0, <<>>, 0, 0, dropped)
    BY <1>6, <1>8, <2>1, <2>2 DEF HistoryOf
  <2>4. QED
    BY <1>5, <2>3 DEF History
<1>10. Answers(b)
  BY <1>5 DEF Answers, NoRequest
<1>11. Stream(b)
  <2>1. At(b, 0)
    BY <1>3, <1>5, <1>6 DEF At, AtOf
  <2>2. Leads(dropped, b, pending, 0, b[lastQueued])
    BY <1>3, <1>8, LeadsNowhere
  <2>3. QED
    BY <2>1, <2>2 DEF Stream
<1>12. Asked(b)
  BY <1>5 DEF Asked, UnderWay, Has
<1>13. QED
  BY <1>2, <1>4, <1>7, <1>9, <1>10, <1>11, <1>12 DEF Whole, Content

\* Every step keeps the whole of the invariant, when no app leaves before its page is
\* ready.
LEMMA WholeStep ==
  ASSUME ~EarlySuspend, Whole, [Next]_vars
  PROVE  Whole'
<1>1. Control /\ Listens /\ Settled /\ Halfway /\ Reached /\ Shown
  BY DEF Whole
<1>2. PICK b : Content(b)
  BY DEF Whole
<1>3. History(b) /\ Answers(b) /\ (~Stuck => Stream(b) /\ Asked(b))
  BY <1>2 DEF Content
<1>4. Control' /\ Listens' /\ Settled' /\ Halfway'
  BY <1>1, ControlStep, ListensStep, SettledStep, HalfwayStep
<1>5. PICK c : /\ Grows(b, c) /\ (~Flush => c = b)
               /\ HistoryOf(c, snapshot', snapshotSeq', delta', sequence', units', dropped')
  BY <1>1, <1>3, HistoryStep DEF Control
<1>6. History(c)'
  BY <1>5 DEF History
<1>7. Reached'
  BY <1>1, <1>3, <1>4, <1>5, <1>6, ReachedStep
<1>8. ~Stuck' => Stream(c)'
  BY <1>1, <1>3, <1>4, <1>5, <1>6, StreamStep
<1>9. ~Stuck' => Asked(c)'
  BY <1>1, <1>3, <1>5, AskedStep
<1>10. Answers(c)'
  BY <1>1, <1>3, <1>5, AnswersStep
<1>11. Shown'
  BY <1>1, <1>3, <1>5, <1>8, ShownStep
<1>12. Content(c)'
  BY <1>6, <1>8, <1>9, <1>10 DEF Content
<1>13. QED
  BY <1>4, <1>7, <1>11, <1>12 DEF Whole

\* What is queued, sent, shown and saved, in every state.
THEOREM WholeAlways ==
  ASSUME ~EarlySuspend
  PROVE  Spec => []Whole
<1>1. Whole /\ [Next]_vars => Whole'
  BY WholeStep
<1>2. QED
  BY <1>1, WholeInit, PTL DEF Spec

\* DisplayFaithful: a terminal whose page is awaited before it is suspended shows the
\* output in order and nothing twice, and leaves out only what the history had no room
\* for, through replays, suspensions, snapshots and failures of the page.
THEOREM DisplayIsFaithful ==
  ASSUME ~EarlySuspend
  PROVE  Spec => []DisplayFaithful
<1>1. Whole => DisplayFaithful
  BY ExtendsFaithful DEF Whole, Shown, DisplayFaithful
<1>2. QED
  BY <1>1, WholeAlways, PTL

\* ReplayFaithful: the last snapshot that was saved and the delta after it are all the
\* output, in order, except what the history had no room for.
THEOREM ReplayIsFaithful ==
  ASSUME ~EarlySuspend
  PROVE  Spec => []ReplayFaithful
<1>1. ASSUME Whole
      PROVE  ReplayFaithful
  <2>1. PICK b : History(b)
    BY <1>1 DEF Whole, Content
  <2>2. Replay \in Data /\ Extends(dropped, Replay, 0, units)
    BY <2>1, ReplayIs DEF History, Replay
  <2>3. Faithful(Replay)
    BY <2>2, ExtendsFaithful
  <2>4. 1..units \subseteq ToSet(Replay) \cup dropped
    <3> DEFINE s == Replay
    <3>1. s \in Data /\ DOMAIN s = 1..Len(s)
      BY <2>2 DEF Data
    <3>2. \A u \in (0 + 1)..units : u \in dropped \/ \E i \in 1..Len(s) : s[i] = u
      BY <2>2 DEF Extends
    <3> HIDE DEF s
    <3>3. QED
      BY <3>1, <3>2 DEF ToSet, s
  <2>5. QED
    BY <2>3, <2>4 DEF ReplayFaithful
<1>2. QED
  BY <1>1, WholeAlways, PTL

================================================================================
