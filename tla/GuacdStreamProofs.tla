-------------------------- MODULE GuacdStreamProofs --------------------------
(***************************************************************************)
(* Proofs about GuacdStream, for every MaxGuacMessage and every set of     *)
(* streams of one-byte characters (PlainStreams), however long they are    *)
(* and however their bytes arrive: ReadSome returns whole instructions and *)
(* fails only on what is none, it never reads without room, the handshake  *)
(* takes its own answers, and the relay writes what it was given, in order *)
(* and once.                                                               *)
(*                                                                         *)
(* The first part is about the operators the model is built from: what     *)
(* Number, RunesEnd and FlattenSeq compute, by induction.  The second says *)
(* what Element finds when the buffer is the start of an instruction that  *)
(* may not be all there.  The third has the invariant: the buffer is what  *)
(* has arrived less so many whole instructions, and parseStart is in front *)
(* of one of the elements of the next.  The last shows that Parse undoes   *)
(* String, which the handshake rests on.                                   *)
(***************************************************************************)
EXTENDS GuacdStream, FiniteSetTheorems, SequenceTheorems, TLAPS

USE DEF vars, buffer, handshake, relay

-----------------------------------------------------------------------------
Less == {p \in Nat \X Nat : p[1] < p[2]}

(* Every nonempty set of natural numbers has a least one, ... *)
LEMMA LeastNatural ==
  ASSUME NEW T \in SUBSET Nat, T # {}
  PROVE  \E n \in T : \A m \in T : n <= m
<1>1. IsWellFoundedOn(Less, Nat)
  <2>1. OpToRel(<, Nat) = Less
    BY Zenon DEF OpToRel, Less
  <2> QED
    BY <2>1, NatLessThanWellFounded, Zenon
<1>2. PICK x \in T : \A y \in T : ~(<<y, x>> \in Less)
  BY <1>1, WFMin, Zenon
<1>3. \A y \in T : y < x => <<y, x>> \in Less
  BY DEF Less
<1>4. \A y \in T : ~(y < x)
  BY <1>2, <1>3, Zenon
<1>5. \A y \in T : x <= y
  BY <1>4
<1> QED
  BY <1>5

(* ... so that what holds of 0 and of the successor of each number it holds *)
(* of is true of all.                                                       *)
LEMMA Induction ==
  ASSUME NEW S, 0 \in S, \A n \in Nat : n \in S => n + 1 \in S
  PROVE  Nat \subseteq S
<1> SUFFICES ASSUME ~(Nat \subseteq S) PROVE FALSE
  OBVIOUS
<1> DEFINE T == Nat \ S
<1>1. T \in SUBSET Nat /\ T # {}
  OBVIOUS
<1> HIDE DEF T
<1>2. PICK n \in T : \A m \in T : n <= m
  BY <1>1, LeastNatural
<1>3. n # 0 /\ n \in Nat
  BY DEF T
<1>4. n - 1 \in Nat /\ n - 1 \notin T
  BY <1>2, <1>3
<1>5. n - 1 \in S
  BY <1>4 DEF T
<1>6. n - 1 + 1 \in S
  BY <1>4, <1>5
<1> QED
  BY <1>6, <1>3 DEF T

(* Partial values of the number written in b[p] to b[p + n - 1]. *)
Values(b, p, n, f) ==
    /\ f \in [p .. p + n -> Nat]
    /\ f[p] = 0
    /\ \A k \in p + 1 .. p + n : f[k] = f[k - 1] * 10 + b[k - 1]

(* There are such values, ... *)
LEMMA ValuesExist ==
  ASSUME NEW b, NEW p \in Nat, NEW n \in Nat, \A k \in p .. p + n - 1 : b[k] \in Nat
  PROVE  \E f : Values(b, p, n, f)
<1> DEFINE S == {m \in Nat : m <= n => \E f : Values(b, p, m, f)}
<1>1. 0 \in S
  <2> DEFINE f == [k \in p .. p + 0 |-> 0]
  <2>1. Values(b, p, 0, f)
    BY DEF Values
  <2> QED
    BY <2>1
<1>2. ASSUME NEW m \in Nat, m \in S PROVE m + 1 \in S
  <2> SUFFICES ASSUME m + 1 <= n PROVE \E f : Values(b, p, m + 1, f)
    OBVIOUS
  <2>1. PICK f : Values(b, p, m, f)
    BY <1>2
  <2> DEFINE g == [k \in p .. p + (m + 1) |->
                     IF k = p + m + 1 THEN f[p + m] * 10 + b[p + m] ELSE f[k]]
  <2>2. f[p + m] \in Nat /\ b[p + m] \in Nat
    BY <2>1 DEF Values
  <2>3. g \in [p .. p + (m + 1) -> Nat]
    BY <2>1, <2>2 DEF Values
  <2>4. g[p] = 0 /\ g[p + m + 1] = g[p + m] * 10 + b[p + m]
    BY <2>1 DEF Values
  <2>5. \A k \in p + 1 .. p + m : g[k] = g[k - 1] * 10 + b[k - 1]
    BY <2>1 DEF Values
  <2> HIDE DEF g
  <2>6. ASSUME NEW k \in p + 1 .. p + (m + 1) PROVE g[k] = g[k - 1] * 10 + b[k - 1]
    <3>1. k \in p + 1 .. p + m \/ (k = p + m + 1 /\ k - 1 = p + m)
      OBVIOUS
    <3> QED
      BY <2>4, <2>5, <3>1
  <2>7. Values(b, p, m + 1, g)
    BY <2>3, <2>4, <2>5, <2>6 DEF Values
  <2> QED
    BY <2>7
<1> HIDE DEF S
<1>3. n \in S
  BY <1>1, <1>2, Induction
<1> QED
  BY <1>3 DEF S

(* Number is the last of them. *)
LEMMA NumberIs ==
  ASSUME NEW b, NEW p \in Nat, NEW n \in Nat, NEW g, Values(b, p, n, g)
  PROVE  Number(b, p, p + n) = g[p + n]
<1> DEFINE v == CHOOSE f : f = [k \in p .. p + n |-> IF k = p THEN 0 ELSE f[k - 1] * 10 + b[k - 1]]
<1>1. g = [k \in p .. p + n |-> IF k = p THEN 0 ELSE g[k - 1] * 10 + b[k - 1]]
  BY DEF Values
<1>2. v = [k \in p .. p + n |-> IF k = p THEN 0 ELSE v[k - 1] * 10 + b[k - 1]]
  BY <1>1
<1>3. Number(b, p, p + n) = v[p + n]
  BY DEF Number
<1> HIDE DEF v
<1> DEFINE S == {m \in Nat : m <= n => v[p + m] = g[p + m]}
<1>4. 0 \in S
  BY <1>1, <1>2
<1>5. ASSUME NEW m \in Nat, m \in S PROVE m + 1 \in S
  <2> SUFFICES ASSUME m + 1 <= n PROVE v[p + (m + 1)] = g[p + (m + 1)]
    OBVIOUS
  <2>1. p + (m + 1) \in p .. p + n /\ p + (m + 1) # p /\ p + (m + 1) - 1 = p + m
    OBVIOUS
  <2>2. v[p + m] = g[p + m]
    BY <1>5
  <2>3. /\ v[p + (m + 1)] = v[p + m] * 10 + b[p + m]
        /\ g[p + (m + 1)] = g[p + m] * 10 + b[p + m]
    BY <1>1, <1>2, <2>1
  <2> QED
    BY <2>2, <2>3
<1> HIDE DEF S
<1>6. n \in S
  BY <1>4, <1>5, Induction
<1> QED
  BY <1>3, <1>6 DEF S

(* A number written with digits is a natural number, ... *)
LEMMA NumberType ==
  ASSUME NEW b, NEW p \in Nat, NEW q \in Nat, p <= q, \A k \in p .. q - 1 : b[k] \in Nat
  PROVE  Number(b, p, q) \in Nat
<1>1. q - p \in Nat /\ p + (q - p) = q
  OBVIOUS
<1>2. PICK f : Values(b, p, q - p, f)
  BY <1>1, ValuesExist
<1>3. Number(b, p, p + (q - p)) = f[p + (q - p)]
  BY <1>1, <1>2, NumberIs
<1>4. f[q] \in Nat
  BY <1>1, <1>2 DEF Values
<1> QED
  BY <1>1, <1>3, <1>4

(* The number does not depend on where its digits are. *)
Moved(b, c, p, q, o) == \A k \in p .. q - 1 : b[k] \in Nat /\ c[k + o] = b[k]

(* Copying the digits, as Flush does, keeps the number. *)
LEMMA NumberMoved ==
  ASSUME NEW b, NEW c, NEW p \in Nat, NEW q \in Nat, p <= q, NEW o \in Int, p + o \in Nat,
         Moved(b, c, p, q, o)
  PROVE  Number(c, p + o, q + o) = Number(b, p, q)
<1> USE DEF Moved
<1> DEFINE n == q - p
<1>1. n \in Nat /\ p + n = q /\ p + o + n = q + o /\ \A k \in p .. p + n - 1 : b[k] \in Nat
  OBVIOUS
<1> HIDE DEF n
<1>2. PICK f : Values(b, p, n, f)
  BY <1>1, ValuesExist
<1> DEFINE g == [k \in p + o .. p + o + n |-> f[k - o]]
<1>3. /\ g \in [p + o .. p + o + n -> Nat]
      /\ g[p + o] = 0
  BY <1>1, <1>2 DEF Values
<1>4. ASSUME NEW k \in p + o + 1 .. p + o + n PROVE g[k] = g[k - 1] * 10 + c[k - 1]
  <2>1. /\ k - o \in p + 1 .. p + n /\ k - o - 1 = k - 1 - o /\ k - o - 1 \in p .. q - 1
        /\ k - o - 1 + o = k - 1 /\ k - 1 \in p + o .. p + o + n
    BY <1>1
  <2>2. f[k - o] = f[k - o - 1] * 10 + b[k - o - 1]
    BY <1>2, <2>1 DEF Values
  <2>3. c[k - 1] = b[k - o - 1]
    BY <2>1
  <2>4. g[k] = f[k - o] /\ g[k - 1] = f[k - 1 - o]
    BY <1>1, <2>1
  <2> QED
    BY <2>1, <2>2, <2>3, <2>4
<1>5. g[p + o + n] = f[p + n]
  BY <1>1
<1> HIDE DEF g
<1>6. Values(c, p + o, n, g)
  BY <1>1, <1>3, <1>4 DEF Values
<1> QED
  BY <1>1, <1>2, <1>5, <1>6, NumberIs

-----------------------------------------------------------------------------
(* Without three-byte characters, n characters are n bytes. *)
LEMMA RunesEndIs ==
  ASSUME NEW b, NEW p \in Nat, NEW hi \in Nat, NEW n \in Nat, p + n <= hi,
         \A k \in 1 .. hi : b[k] # Lead
  PROVE  RunesEnd(b, p, hi, n) = p + n
<1>1. \A k : Starts(b, k, hi)
  BY DEF Starts, Whole
<1>2. ASSUME NEW q \in p .. hi + 1
      PROVE  Cardinality({k \in p .. q - 1 : Starts(b, k, hi)}) = q - p
  <2>1. {k \in p .. q - 1 : Starts(b, k, hi)} = p .. q - 1
    BY <1>1
  <2>2. Cardinality(p .. q - 1) = q - p
    BY FS_Interval
  <2> QED
    BY <2>1, <2>2
<1> DEFINE Ends(q) ==
             LET m == Cardinality({k \in p .. q - 1 : Starts(b, k, hi)})
             IN  Starts(b, q, hi) /\ (m = n \/ (m < n /\ q = hi + 1))
<1>3. \A q \in p .. hi + 1 : Ends(q) <=> q = p + n
  BY <1>1, <1>2
<1>4. p + n \in p .. hi + 1
  OBVIOUS
<1>5. RunesEnd(b, p, hi, n) = CHOOSE q \in p .. hi + 1 : Ends(q)
  BY DEF RunesEnd
<1> HIDE DEF Ends
<1> QED
  BY <1>3, <1>4, <1>5

-----------------------------------------------------------------------------
(* Where the bytes of two sequences are in their concatenation. *)
LEMMA Concat ==
  ASSUME NEW S, NEW u \in Seq(S), NEW v \in Seq(S), NEW w, w = u \o v
  PROVE  /\ w \in Seq(S)
         /\ Len(u) \in Nat /\ Len(v) \in Nat
         /\ Len(w) = Len(u) + Len(v)
         /\ \A k \in 1 .. Len(u) : w[k] = u[k]
         /\ \A k \in 1 .. Len(v) : w[Len(u) + k] = v[k]
<1>1. /\ w \in Seq(S)
      /\ Len(w) = Len(u) + Len(v)
      /\ \A k \in 1 .. Len(u) + Len(v) : w[k] = IF k <= Len(u) THEN u[k] ELSE v[k - Len(u)]
  BY ConcatProperties
<1>2. Len(u) \in Nat /\ Len(v) \in Nat
  OBVIOUS
<1>3. ASSUME NEW k \in 1 .. Len(v) PROVE w[Len(u) + k] = v[k]
  <2>1. PICK j : j = Len(u) + k
    OBVIOUS
  <2>2. j \in 1 .. Len(u) + Len(v) /\ ~(j <= Len(u)) /\ j - Len(u) = k
    BY <1>2, <2>1
  <2> QED
    BY <1>1, <2>1, <2>2
<1> QED
  BY <1>1, <1>2, <1>3

(* The partial results of FlattenSeq. *)
Joins(S, s, n, f) ==
    /\ f \in [0 .. n -> Seq(S)]
    /\ f[0] = <<>>
    /\ \A i \in 0 .. n - 1 : f[i + 1] = f[i] \o s[i + 1]

(* There are such results. *)
LEMMA JoinsExist ==
  ASSUME NEW S, NEW s, NEW n \in Nat, \A i \in 1 .. n : s[i] \in Seq(S)
  PROVE  \E f : Joins(S, s, n, f)
<1> DEFINE T == {m \in Nat : m <= n => \E f : Joins(S, s, m, f)}
<1>1. 0 \in T
  <2> DEFINE f == [i \in 0 .. 0 |-> <<>>]
  <2>1. <<>> \in Seq(S)
    OBVIOUS
  <2>2. Joins(S, s, 0, f)
    BY <2>1 DEF Joins
  <2> QED
    BY <2>2
<1>2. ASSUME NEW m \in Nat, m \in T PROVE m + 1 \in T
  <2> SUFFICES ASSUME m + 1 <= n PROVE \E f : Joins(S, s, m + 1, f)
    OBVIOUS
  <2>1. PICK f : Joins(S, s, m, f)
    BY <1>2
  <2>2. PICK w : w = f[m] \o s[m + 1]
    OBVIOUS
  <2>3. f[m] \in Seq(S) /\ s[m + 1] \in Seq(S)
    BY <2>1 DEF Joins
  <2>4. w \in Seq(S)
    BY <2>2, <2>3, ConcatProperties
  <2> DEFINE g == [i \in 0 .. m + 1 |-> IF i = m + 1 THEN w ELSE f[i]]
  <2>5. g \in [0 .. m + 1 -> Seq(S)]
    BY <2>1, <2>4 DEF Joins
  <2>6. g[0] = <<>>
    BY <2>1 DEF Joins
  <2>7. \A i \in 0 .. m : g[i] = f[i]
    OBVIOUS
  <2>8. g[m + 1] = w
    OBVIOUS
  <2> HIDE DEF g
  <2>9. ASSUME NEW i \in 0 .. (m + 1) - 1 PROVE g[i + 1] = g[i] \o s[i + 1]
    <3>1. CASE i = m
      <4>1. g[m] = f[m]
        BY <2>7
      <4> QED
        BY <2>2, <2>8, <3>1, <4>1
    <3>2. CASE i # m
      <4>1. i \in 0 .. m - 1 /\ i \in 0 .. m /\ i + 1 \in 0 .. m
        BY <3>2
      <4>2. f[i + 1] = f[i] \o s[i + 1]
        BY <2>1, <4>1 DEF Joins
      <4>3. g[i + 1] = f[i + 1] /\ g[i] = f[i]
        BY <2>7, <4>1
      <4> QED
        BY <4>2, <4>3
    <3> QED
      BY <3>1, <3>2
  <2>10. Joins(S, s, m + 1, g)
    <3>1. \A i \in 0 .. (m + 1) - 1 : g[i + 1] = g[i] \o s[i + 1]
      BY <2>9, Zenon
    <3> QED
      BY <2>5, <2>6, <3>1, Zenon DEF Joins
  <2> QED
    BY <2>10
<1> HIDE DEF T
<1>3. n \in T
  BY <1>1, <1>2, Induction
<1> QED
  BY <1>3 DEF T

(* FlattenSeq returns the last of them, ... *)
LEMMA FlattenIs ==
  ASSUME NEW S, NEW s \in Seq(Seq(S)), NEW g, Joins(S, s, Len(s), g)
  PROVE  FlattenSeq(s) = g[Len(s)]
<1>1. CASE Len(s) = 0
  <2>1. s = <<>>
    BY <1>1
  <2> QED
    BY <1>1, <2>1 DEF FlattenSeq, Joins
<1>2. CASE Len(s) # 0
  <2> DEFINE n == Len(s)
             v == CHOOSE f : f = [i \in 1 .. Len(s) |-> IF i = 1 THEN s[i] ELSE f[i - 1] \o s[i]]
             h == [i \in 1 .. Len(s) |-> g[i]]
  <2>1. FlattenSeq(s) = v[Len(s)]
    BY <1>2 DEF FlattenSeq
  <2>2. g[1] = s[1]
    <3>1. s[1] \in Seq(S) /\ 0 \in 0 .. Len(s) - 1 /\ 0 + 1 = 1
      BY <1>2
    <3>2. g[0 + 1] = g[0] \o s[0 + 1] /\ g[0] = <<>>
      BY <3>1 DEF Joins
    <3>3. g[1] = <<>> \o s[1]
      BY <3>1, <3>2
    <3> QED
      BY <3>1, <3>3, ConcatEmptySeq
  <2>3. ASSUME NEW i \in 1 .. Len(s)
        PROVE  h[i] = IF i = 1 THEN s[i] ELSE h[i - 1] \o s[i]
    <3>1. CASE i = 1
      BY <2>2, <3>1
    <3>2. CASE i # 1
      <4>1. i - 1 \in 1 .. Len(s) /\ i - 1 \in 0 .. Len(s) - 1 /\ i - 1 + 1 = i
        BY <3>2
      <4>2. g[i - 1 + 1] = g[i - 1] \o s[i - 1 + 1]
        BY <4>1 DEF Joins
      <4> QED
        BY <3>2, <4>1, <4>2
    <3> QED
      BY <3>1, <3>2
  <2>4. h = [i \in 1 .. Len(s) |-> IF i = 1 THEN s[i] ELSE h[i - 1] \o s[i]]
    <3>1. h = [i \in 1 .. Len(s) |-> h[i]]
      OBVIOUS
    <3> HIDE DEF h
    <3> QED
      BY <2>3, <3>1, Zenon
  <2>5. v = [i \in 1 .. Len(s) |-> IF i = 1 THEN s[i] ELSE v[i - 1] \o s[i]]
    <3> HIDE DEF h
    <3> QED
      BY <2>4, Zenon
  <2> HIDE DEF v
  <2> DEFINE T == {m \in Nat : m + 1 <= Len(s) => v[m + 1] = g[m + 1]}
  <2>6. 0 \in T
    BY <1>2, <2>2, <2>5
  <2>7. ASSUME NEW m \in Nat, m \in T PROVE m + 1 \in T
    <3> SUFFICES ASSUME m + 1 + 1 <= Len(s) PROVE v[m + 1 + 1] = g[m + 1 + 1]
      OBVIOUS
    <3>1. PICK j : j = m + 1 + 1
      OBVIOUS
    <3>0. j \in 1 .. Len(s) /\ j # 1 /\ j - 1 = m + 1 /\ m + 1 \in 0 .. Len(s) - 1
      BY <3>1
    <3>2. v[m + 1] = g[m + 1]
      BY <2>7
    <3>3. v[j] = v[j - 1] \o s[j]
      BY <2>5, <3>0
    <3>4. g[m + 1 + 1] = g[m + 1] \o s[m + 1 + 1]
      BY <3>0 DEF Joins
    <3> QED
      BY <3>0, <3>1, <3>2, <3>3, <3>4
  <2> HIDE DEF T
  <2>8. Len(s) - 1 \in Nat
    BY <1>2
  <2>9. Len(s) - 1 \in T
    BY <2>6, <2>7, <2>8, Induction
  <2> QED
    BY <2>1, <2>8, <2>9 DEF T
<1> QED
  BY <1>1, <1>2

(* ... and so it does for every number of pieces. *)
LEMMA FlattenFirst ==
  ASSUME NEW S, NEW s \in Seq(Seq(S)), NEW g, Joins(S, s, Len(s), g), NEW n \in 0 .. Len(s)
  PROVE  FlattenSeq(SubSeq(s, 1, n)) = g[n]
<1>1. PICK t : t = SubSeq(s, 1, n)
  OBVIOUS
<1>2. \A i \in 1 .. n : s[i] \in Seq(S)
  OBVIOUS
<1>3. /\ t \in Seq(Seq(S))
      /\ Len(t) = n
      /\ \A i \in 1 .. n : t[i] = s[i]
  BY <1>1, <1>2, SubSeqProperties
<1>4. PICK h : h = [i \in 0 .. n |-> g[i]]
  OBVIOUS
<1>5. h \in [0 .. n -> Seq(S)] /\ h[0] = <<>> /\ h[n] = g[n]
  <2>0. \A i \in 0 .. Len(s) : g[i] \in Seq(S)
    BY DEF Joins
  <2>1. \A i \in 0 .. n : g[i] \in Seq(S)
    BY <2>0
  <2>2. g[0] = <<>>
    BY DEF Joins
  <2> QED
    BY <1>4, <2>1, <2>2
<1>6. ASSUME NEW i \in 0 .. n - 1 PROVE h[i + 1] = h[i] \o t[i + 1]
  <2>1. i \in 0 .. n /\ i + 1 \in 0 .. n /\ i \in 0 .. Len(s) - 1 /\ i + 1 \in 1 .. n
    OBVIOUS
  <2>2. h[i + 1] = g[i + 1] /\ h[i] = g[i] /\ t[i + 1] = s[i + 1]
    BY <1>3, <1>4, <2>1
  <2>3. g[i + 1] = g[i] \o s[i + 1]
    BY <2>1 DEF Joins
  <2> QED
    BY <2>2, <2>3
<1>7. Joins(S, t, n, h)
  BY <1>5, <1>6, Zenon DEF Joins
<1> QED
  BY <1>1, <1>3, <1>5, <1>7, FlattenIs

(* A partial result is the start of every later one. *)
Grows(n, g) ==
    \A m \in 0 .. n : \A d \in 0 .. n - m :
       /\ Len(g[m]) <= Len(g[m + d])
       /\ \A k \in 1 .. Len(g[m]) : g[m + d][k] = g[m][k]

(* What is joined is not changed by joining more. *)
LEMMA JoinsGrow ==
  ASSUME NEW S, NEW s, NEW n \in Nat, \A i \in 1 .. n : s[i] \in Seq(S),
         NEW g, Joins(S, s, n, g)
  PROVE  Grows(n, g)
<1> SUFFICES ASSUME NEW m \in 0 .. n, NEW d \in 0 .. n - m
             PROVE  /\ Len(g[m]) <= Len(g[m + d])
                    /\ \A k \in 1 .. Len(g[m]) : g[m + d][k] = g[m][k]
  BY DEF Grows
<1> DEFINE Start(e) == /\ Len(g[m]) <= Len(g[m + e])
                       /\ \A k \in 1 .. Len(g[m]) : g[m + e][k] = g[m][k]
           T == {e \in Nat : e <= n - m => Start(e)}
<1>0. g[m] \in Seq(S)
  BY DEF Joins
<1>1. 0 \in T
  <2>1. m + 0 = m
    OBVIOUS
  <2> QED
    BY <1>0, <2>1
<1>2. ASSUME NEW e \in Nat, e \in T PROVE e + 1 \in T
  <2> SUFFICES ASSUME e + 1 <= n - m PROVE Start(e + 1)
    OBVIOUS
  <2>1. Start(e)
    BY <1>2
  <2>2. PICK j : j = m + e
    OBVIOUS
  <2>3. j \in 0 .. n - 1 /\ j + 1 \in 1 .. n /\ m + (e + 1) = j + 1 /\ j \in 0 .. n
    BY <2>2
  <2>4. g[j + 1] = g[j] \o s[j + 1]
    BY <2>3 DEF Joins
  <2>5. g[j] \in Seq(S) /\ s[j + 1] \in Seq(S)
    BY <2>3 DEF Joins
  <2>6. /\ Len(g[j + 1]) = Len(g[j]) + Len(s[j + 1])
        /\ \A k \in 1 .. Len(g[j]) : g[j + 1][k] = g[j][k]
    <3>1. PICK u, v, w : u = g[j] /\ v = s[j + 1] /\ w = g[j + 1]
      OBVIOUS
    <3>2. u \in Seq(S) /\ v \in Seq(S) /\ w = u \o v
      BY <2>4, <2>5, <3>1
    <3>3. Len(w) = Len(u) + Len(v) /\ \A k \in 1 .. Len(u) : w[k] = u[k]
      BY <3>2, Concat
    <3> QED
      BY <3>1, <3>3
  <2>7. /\ Len(g[m]) <= Len(g[j])
        /\ \A k \in 1 .. Len(g[m]) : g[j][k] = g[m][k]
    BY <2>1, <2>2
  <2>8. /\ Len(g[m]) <= Len(g[j + 1])
        /\ \A k \in 1 .. Len(g[m]) : g[j + 1][k] = g[m][k]
    <3>1. Len(g[m]) \in Nat /\ Len(g[j]) \in Nat /\ Len(s[j + 1]) \in Nat
      BY <1>0, <2>5
    <3>2. \A k \in 1 .. Len(g[m]) : k \in 1 .. Len(g[j])
      BY <2>7, <3>1
    <3>3. Len(g[m]) <= Len(g[j + 1])
      <4>1. PICK a, b, c : a = Len(g[m]) /\ b = Len(g[j]) /\ c = Len(s[j + 1])
        OBVIOUS
      <4>2. a \in Nat /\ b \in Nat /\ c \in Nat /\ a <= b
        BY <2>7, <3>1, <4>1
      <4>3. a <= b + c
        BY <4>2
      <4> QED
        BY <2>6, <4>1, <4>3
    <3> QED
      BY <2>6, <2>7, <3>2, <3>3, Zenon
  <2> QED
    BY <2>3, <2>8
<1> HIDE DEF T
<1>3. d \in T
  BY <1>1, <1>2, Induction
<1> QED
  BY <1>3 DEF T

(* Where the pieces are in the whole: n of them are followed by the next,   *)
(* and the last byte of the last piece is the last.                         *)
LEMMA Pieces ==
  ASSUME NEW S, NEW s \in Seq(Seq(S))
  PROVE  /\ FlattenSeq(s) \in Seq(S)
         /\ Len(FlattenSeq(SubSeq(s, 1, 0))) = 0
         /\ Len(FlattenSeq(SubSeq(s, 1, Len(s)))) = Len(FlattenSeq(s))
         /\ \A n \in 0 .. Len(s) : Len(FlattenSeq(SubSeq(s, 1, n))) \in Nat
         /\ \A n \in 0 .. Len(s) - 1 :
              LET here == Len(FlattenSeq(SubSeq(s, 1, n)))
                  there == Len(FlattenSeq(SubSeq(s, 1, n + 1)))
              IN  /\ there = here + Len(s[n + 1])
                  /\ there <= Len(FlattenSeq(s))
                  /\ \A k \in 1 .. Len(s[n + 1]) : FlattenSeq(s)[here + k] = s[n + 1][k]
<1>1. \A i \in 1 .. Len(s) : s[i] \in Seq(S)
  OBVIOUS
<1>2. PICK g : Joins(S, s, Len(s), g)
  BY <1>1, JoinsExist
<1>3. \A n \in 0 .. Len(s) : FlattenSeq(SubSeq(s, 1, n)) = g[n]
  BY <1>2, FlattenFirst
<1>4. FlattenSeq(s) = g[Len(s)]
  BY <1>2, FlattenIs
<1>5. \A n \in 0 .. Len(s) : g[n] \in Seq(S)
  BY <1>2 DEF Joins
<1>6. g[0] = <<>> /\ 0 \in 0 .. Len(s) /\ Len(s) \in 0 .. Len(s)
  BY <1>2 DEF Joins
<1>7. ASSUME NEW n \in 0 .. Len(s) - 1
      PROVE  /\ Len(g[n + 1]) = Len(g[n]) + Len(s[n + 1])
             /\ Len(g[n + 1]) <= Len(g[Len(s)])
             /\ \A k \in 1 .. Len(s[n + 1]) : g[Len(s)][Len(g[n]) + k] = s[n + 1][k]
  <2>1. n \in 0 .. Len(s) /\ n + 1 \in 0 .. Len(s) /\ n + 1 \in 1 .. Len(s)
    OBVIOUS
  <2>2. g[n] \in Seq(S) /\ g[n + 1] \in Seq(S) /\ s[n + 1] \in Seq(S)
    BY <1>5, <2>1
  <2>3. g[n + 1] = g[n] \o s[n + 1]
    BY <1>2 DEF Joins
  <2>4. /\ Len(g[n + 1]) = Len(g[n]) + Len(s[n + 1])
        /\ Len(g[n]) \in Nat /\ Len(s[n + 1]) \in Nat
        /\ \A k \in 1 .. Len(s[n + 1]) : g[n + 1][Len(g[n]) + k] = s[n + 1][k]
    <3>1. PICK u, v, w : u = g[n] /\ v = s[n + 1] /\ w = g[n + 1]
      OBVIOUS
    <3>2. u \in Seq(S) /\ v \in Seq(S) /\ w = u \o v
      BY <2>2, <2>3, <3>1
    <3>3. /\ Len(w) = Len(u) + Len(v)
          /\ Len(u) \in Nat /\ Len(v) \in Nat
          /\ \A k \in 1 .. Len(v) : w[Len(u) + k] = v[k]
      BY <3>2, Concat
    <3> QED
      BY <3>1, <3>3
  <2>5. PICK d : d = Len(s) - (n + 1)
    OBVIOUS
  <2>6. d \in 0 .. Len(s) - (n + 1) /\ n + 1 + d = Len(s)
    BY <2>5
  <2>7. /\ Len(g[n + 1]) <= Len(g[n + 1 + d])
        /\ \A k \in 1 .. Len(g[n + 1]) : g[n + 1 + d][k] = g[n + 1][k]
    <3>1. Len(s) \in Nat
      OBVIOUS
    <3>2. Grows(Len(s), g)
      BY <1>1, <1>2, <3>1, JoinsGrow
    <3> QED
      BY <2>1, <2>6, <3>2, Zenon DEF Grows
  <2>8. ASSUME NEW k \in 1 .. Len(s[n + 1])
        PROVE  g[Len(s)][Len(g[n]) + k] = s[n + 1][k]
    <3>1. PICK a, b, c : a = Len(g[n]) /\ b = Len(s[n + 1]) /\ c = Len(g[n + 1])
      OBVIOUS
    <3>3. a \in Nat /\ b \in Nat /\ c = a + b /\ k \in 1 .. b
      BY <2>4, <3>1
    <3>4. a + k \in 1 .. c
      BY <3>3
    <3>5. Len(g[n]) + k \in 1 .. Len(g[n + 1])
      BY <3>1, <3>4
    <3>2. g[Len(s)][Len(g[n]) + k] = g[n + 1][Len(g[n]) + k]
      BY <2>6, <2>7, <3>5
    <3> QED
      BY <2>4, <3>2
  <2> QED
    BY <2>4, <2>6, <2>7, <2>8
<1>8. ASSUME NEW n \in 0 .. Len(s) - 1
      PROVE  /\ FlattenSeq(SubSeq(s, 1, n)) = g[n]
             /\ FlattenSeq(SubSeq(s, 1, n + 1)) = g[n + 1]
  BY <1>3
<1>9. \A n \in 0 .. Len(s) : Len(FlattenSeq(SubSeq(s, 1, n))) \in Nat
  BY <1>3, <1>5
<1>10. /\ Len(FlattenSeq(SubSeq(s, 1, 0))) = 0
       /\ Len(FlattenSeq(SubSeq(s, 1, Len(s)))) = Len(FlattenSeq(s))
       /\ FlattenSeq(s) \in Seq(S)
  BY <1>3, <1>4, <1>5, <1>6
<1> QED
  BY <1>4, <1>7, <1>8, <1>9, <1>10

-----------------------------------------------------------------------------
(* The place where the next element starts, and the last of the buffer. *)
From == off + parseStart + 1
To == off + len

(* What Element is made of. *)
FirstOther(d) == array[d] \notin Digit /\ \A j \in From .. d - 1 : array[j] \in Digit

Out(o, k) == [outcome |-> o, i |-> k - off]

Result(d) ==
    LET n == Number(array, From, d)
        end == RunesEnd(array, d + 1, To, n)
    IN  IF array[d] # Dot THEN Out("error", From)
        ELSE IF d + n >= To THEN Out("more", From)
        ELSE IF end > To THEN Out("error", From)
        ELSE IF array[end] = Semicolon THEN Out("last", end)
        ELSE IF array[end] = Comma THEN Out("another", end)
        ELSE Out("error", From)

(* Only one-byte characters in the memory. *)
NoLead == \A k \in Slot : array[k] # Lead

(* The part of the buffer that is parsed is inside the array. *)
LEMMA Places ==
  ASSUME TypeOK
  PROVE  /\ MaxGuacMessage \in Nat /\ off \in Nat /\ len \in Nat /\ parseStart \in Nat
         /\ From \in Nat /\ To \in Nat /\ From <= To + 1 /\ From >= 1
         /\ To <= 3 * MaxGuacMessage
         /\ \A k \in From .. To : k \in Slot /\ k \in Nat /\ array[k] \in Byte
         /\ \A k \in 1 .. To : k \in Slot
BY StreamAssumption DEF TypeOK, Capacity, Slot, From, To

(* Only digits: the element is not all there. *)
LEMMA AllDigits ==
  ASSUME \A k \in From .. To : array[k] \in Digit
  PROVE  Element.outcome = "more"
BY DEF Element, From, To

(* Otherwise the result depends on the first byte that is none. *)
LEMMA ElementAfter ==
  ASSUME TypeOK, NEW d \in From .. To, FirstOther(d)
  PROVE  Element = Result(d)
<1> DEFINE dot == CHOOSE k \in From .. To : FirstOther(k)
<1>1. \A k \in From .. To : FirstOther(k) => k = d
  BY Places DEF FirstOther
<1>2. dot = d
  BY <1>1
<1>3. ~(\A k \in From .. To : array[k] \in Digit)
  BY DEF FirstOther
<1>4. Element = IF \A k \in From .. To : array[k] \in Digit THEN Out("more", From) ELSE Result(dot)
  BY Zenon DEF Element, Result, From, To, Out, FirstOther
<1> HIDE DEF dot
<1> QED
  BY <1>2, <1>3, <1>4

(* The first byte that is no digit. *)
LEMMA OtherExists ==
  ASSUME TypeOK, ~(\A k \in From .. To : array[k] \in Digit)
  PROVE  \E d \in From .. To : FirstOther(d)
<1>1. PICK T : T = {k \in From .. To : array[k] \notin Digit}
  OBVIOUS
<1>2. T \in SUBSET Nat /\ T # {}
  BY <1>1, Places
<1>3. PICK d \in T : \A m \in T : d <= m
  BY <1>2, LeastNatural
<1>4. d \in From .. To /\ array[d] \notin Digit
  BY <1>1
<1>5. ASSUME NEW j \in From .. d - 1 PROVE array[j] \in Digit
  <2>1. j \in From .. To /\ ~(d <= j)
    BY <1>4, Places
  <2> QED
    BY <1>1, <1>3, <2>1
<1> QED
  BY <1>4, <1>5 DEF FirstOther

(* When the element is in the buffer, what follows it decides. *)
LEMMA ElementThere ==
  ASSUME TypeOK, NoLead, NEW q \in From .. To, ElementAt(array, From, q)
  PROVE  Element = IF array[q] = Semicolon THEN Out("last", q)
                   ELSE IF array[q] = Comma THEN Out("another", q)
                   ELSE Out("error", From)
<1>1. PICK d \in From .. q - 1 :
         /\ \A k \in From .. d - 1 : array[k] \in Digit
         /\ array[d] = Dot
         /\ Number(array, From, d) = q - d - 1
  BY DEF ElementAt
<1>2. d \in From .. To /\ d \in Nat /\ d + 1 \in Nat /\ q \in Nat /\ q - d - 1 \in Nat
  BY Places
<1>3. FirstOther(d)
  BY <1>1 DEF FirstOther, Digit, Dot
<1>4. Element = Result(d)
  BY <1>2, <1>3, ElementAfter
<1>5. PICK n : n = q - d - 1
  OBVIOUS
<1>6. n \in Nat /\ d + 1 + n = q /\ d + 1 + n <= To /\ ~(d + n >= To) /\ ~(q > To)
  BY <1>2, <1>5, Places
<1>7. RunesEnd(array, d + 1, To, n) = d + 1 + n
  <2>1. \A k \in 1 .. To : array[k] # Lead
    BY Places DEF NoLead
  <2> QED
    BY <1>2, <1>6, <2>1, Places, RunesEndIs
<1>8. Number(array, From, d) = n /\ RunesEnd(array, d + 1, To, n) = q
  BY <1>1, <1>5, <1>6, <1>7
<1> QED
  BY <1>1, <1>4, <1>6, <1>8 DEF Result

(* The other way round: an element the loop has read is one. *)
LEMMA ElementRead ==
  ASSUME TypeOK, NoLead, Element.outcome \in {"last", "another"}
  PROVE  \E q \in From .. To :
            /\ ElementAt(array, From, q)
            /\ Element.i = q - off
            /\ Element.outcome = "last" => array[q] = Semicolon
            /\ Element.outcome = "another" => array[q] = Comma
<1>1. PICK d \in From .. To : FirstOther(d)
  BY AllDigits, OtherExists
<1>2. Element = Result(d)
  BY <1>1, ElementAfter
<1>3. PICK n : n = Number(array, From, d)
  OBVIOUS
<1>4. n \in Nat
  <2>1. From \in Nat /\ d \in Nat /\ From <= d
    BY Places
  <2>2. \A k \in From .. d - 1 : array[k] \in Nat
    BY <1>1 DEF FirstOther, Digit
  <2> QED
    BY <1>3, <2>1, <2>2, NumberType
<1>5. array[d] = Dot /\ ~(d + n >= To)
  BY <1>2, <1>3 DEF Result, Out
<1>6. PICK q : q = d + 1 + n
  OBVIOUS
<1>7. q \in From .. To /\ d \in From .. q - 1 /\ q - d - 1 = n /\ d + 1 + n <= To /\ d + 1 \in Nat
  BY <1>4, <1>5, <1>6, Places
<1>8. RunesEnd(array, d + 1, To, n) = q
  <2>1. \A k \in 1 .. To : array[k] # Lead
    BY Places DEF NoLead
  <2> QED
    BY <1>4, <1>6, <1>7, <2>1, Places, RunesEndIs
<1>9. ElementAt(array, From, q)
  BY <1>1, <1>3, <1>5, <1>7 DEF ElementAt, FirstOther
<1>10. Element = IF array[q] = Semicolon THEN Out("last", q)
                 ELSE IF array[q] = Comma THEN Out("another", q)
                 ELSE Out("error", From)
  BY <1>7, <1>9, ElementThere
<1> QED
  BY <1>7, <1>9, <1>10 DEF Out

-----------------------------------------------------------------------------
(* Being an element does not depend on where the bytes are. *)
Same(b, c, p, q, o) == \A k \in p .. q - 1 : c[k + o] = b[k]

(* An element that is copied is one. *)
LEMMA ElementMoved ==
  ASSUME NEW b, NEW c, NEW p \in Nat, NEW q \in Nat, NEW o \in Int, p + o \in Nat,
         Same(b, c, p, q, o), ElementAt(b, p, q)
  PROVE  ElementAt(c, p + o, q + o)
<1> USE DEF Same
<1>1. PICK d \in p .. q - 1 :
         /\ \A k \in p .. d - 1 : b[k] \in Digit
         /\ b[d] = Dot
         /\ Number(b, p, d) = q - d - 1
  BY DEF ElementAt
<1>2. /\ d \in Nat /\ p <= d /\ d + o \in (p + o) .. (q + o) - 1
      /\ (q + o) - (d + o) - 1 = q - d - 1
  OBVIOUS
<1>3. \A k \in p .. d - 1 : b[k] \in Nat /\ c[k + o] = b[k]
  BY <1>1 DEF Digit
<1>4. Number(c, p + o, d + o) = Number(b, p, d)
  <2>1. d \in Nat
    BY <1>2
  <2>2. p <= d
    BY <1>2
  <2>3. Moved(b, c, p, d, o)
    BY <1>3 DEF Moved
  <2> QED
    BY <2>1, <2>2, <2>3, NumberMoved
<1>5. ASSUME NEW j \in p + o .. (d + o) - 1 PROVE c[j] \in Digit
  <2>1. j - o \in p .. d - 1 /\ j - o \in p .. q - 1 /\ j - o + o = j
    BY <1>2
  <2>2. c[j - o + o] = b[j - o]
    BY <2>1
  <2> QED
    BY <1>1, <2>1, <2>2
<1>6. c[d + o] = Dot
  BY <1>1
<1>7. Number(c, p + o, d + o) = (q + o) - (d + o) - 1
  BY <1>1, <1>2, <1>4
<1> QED
  BY <1>2, <1>5, <1>6, <1>7, Zenon DEF ElementAt

-----------------------------------------------------------------------------
(* The piece that is being read. *)
Piece == stream[taken + 1]

Consumed == arrived - len = Len(FlattenSeq(First(taken)))

(* parseStart is in front of an element, wherever they start. *)
Placed == taken < Len(stream) => \A S : Opens(Piece, S) => parseStart + 1 \in S

Pos(n) == Len(FlattenSeq(SubSeq(stream, 1, n)))

(* Where the instructions are in what guacd sends. *)
LEMMA Layout ==
  ASSUME stream \in Streams
  PROVE  /\ stream \in Seq(Seq(Byte))
         /\ Len(stream) \in Nat
         /\ Wire[stream] \in Seq(Byte)
         /\ Len(Wire[stream]) \in Nat
         /\ Pos(0) = 0
         /\ Pos(Len(stream)) = Len(Wire[stream])
         /\ \A n \in 0 .. Len(stream) : Pos(n) \in Nat
         /\ \A n \in 0 .. Len(stream) - 1 :
              /\ stream[n + 1] \in Seq(Byte)
              /\ Pos(n + 1) = Pos(n) + Len(stream[n + 1])
              /\ Pos(n + 1) <= Len(Wire[stream])
              /\ \A k \in 1 .. Len(stream[n + 1]) : Wire[stream][Pos(n) + k] = stream[n + 1][k]
<1>1. stream \in Seq(Seq(Byte))
  BY StreamAssumption
<1>2. Wire[stream] = FlattenSeq(stream)
  BY DEF Wire
<1>3. PICK s : s = stream
  OBVIOUS
<1>4. s \in Seq(Seq(Byte))
  BY <1>1, <1>3
<1>5. /\ FlattenSeq(s) \in Seq(Byte)
      /\ Len(FlattenSeq(SubSeq(s, 1, 0))) = 0
      /\ Len(FlattenSeq(SubSeq(s, 1, Len(s)))) = Len(FlattenSeq(s))
      /\ \A n \in 0 .. Len(s) : Len(FlattenSeq(SubSeq(s, 1, n))) \in Nat
      /\ \A n \in 0 .. Len(s) - 1 :
           LET here == Len(FlattenSeq(SubSeq(s, 1, n)))
               there == Len(FlattenSeq(SubSeq(s, 1, n + 1)))
           IN  /\ there = here + Len(s[n + 1])
               /\ there <= Len(FlattenSeq(s))
               /\ \A k \in 1 .. Len(s[n + 1]) : FlattenSeq(s)[here + k] = s[n + 1][k]
  BY <1>4, Pieces
<1>6. \A n \in 0 .. Len(s) - 1 : s[n + 1] \in Seq(Byte)
  BY <1>4
<1>7. /\ Wire[stream] \in Seq(Byte)
      /\ Pos(0) = 0
      /\ Pos(Len(stream)) = Len(Wire[stream])
      /\ \A n \in 0 .. Len(stream) : Pos(n) \in Nat
  BY <1>2, <1>3, <1>5 DEF Pos
<1>8. \A n \in 0 .. Len(stream) - 1 :
              /\ stream[n + 1] \in Seq(Byte)
              /\ Pos(n + 1) = Pos(n) + Len(stream[n + 1])
              /\ Pos(n + 1) <= Len(Wire[stream])
              /\ \A k \in 1 .. Len(stream[n + 1]) : Wire[stream][Pos(n) + k] = stream[n + 1][k]
  BY <1>2, <1>3, <1>5, <1>6 DEF Pos
<1> QED
  BY <1>1, <1>7, <1>8

(* The start of the buffer is the start of the piece, ... *)
LEMMA InPiece ==
  ASSUME TypeOK, WindowMatches, Consumed, taken < Len(stream)
  PROVE  /\ Piece \in Seq(Byte) /\ Len(Piece) \in Nat /\ taken + 1 \in DOMAIN stream
         /\ \A k \in 1 .. len : k <= Len(Piece) => array[off + k] = Piece[k]
         /\ taken + 1 = Len(stream) => len <= Len(Piece)
<1>1. stream \in Streams /\ taken \in 0 .. Len(stream) - 1 /\ arrived - len = Pos(taken)
      /\ arrived \in 0 .. Len(Wire[stream]) /\ len \in Nat
  BY Layout, Places DEF TypeOK, Consumed, Pos, First
<1>2. PICK o : o = Pos(taken)
  OBVIOUS
<1>3. /\ Piece \in Seq(Byte)
      /\ Pos(taken + 1) = o + Len(Piece)
      /\ \A k \in 1 .. Len(Piece) : Wire[stream][o + k] = Piece[k]
      /\ o \in Nat
  <2>1. /\ stream[taken + 1] \in Seq(Byte)
        /\ Pos(taken + 1) = Pos(taken) + Len(stream[taken + 1])
        /\ \A k \in 1 .. Len(stream[taken + 1]) :
              Wire[stream][Pos(taken) + k] = stream[taken + 1][k]
    BY <1>1, Layout, Zenon
  <2>2. Pos(taken) \in Nat
    BY <1>1, Layout
  <2> QED
    BY <1>2, <2>1, <2>2, Zenon DEF Piece
<1>4. Len(Piece) \in Nat /\ taken + 1 \in DOMAIN stream
  BY <1>1, <1>3, Layout
<1>5. ASSUME NEW k \in 1 .. len, k <= Len(Piece) PROVE array[off + k] = Piece[k]
  <2>1. k \in 1 .. Len(Piece)
    BY <1>4, <1>5, Places
  <2>2. array[off + k] = Wire[stream][arrived - len + k]
    BY DEF WindowMatches
  <2> QED
    BY <1>1, <1>2, <1>3, <2>1, <2>2
<1>6. ASSUME taken + 1 = Len(stream) PROVE len <= Len(Piece)
  <2>1. o + Len(Piece) = Len(Wire[stream])
    BY <1>1, <1>3, <1>6, Layout
  <2>2. Len(Wire[stream]) \in Nat
    BY <1>1, Layout
  <2> QED
    BY <1>1, <1>2, <1>3, <1>4, <2>1, <2>2
<1> QED
  BY <1>3, <1>4, <1>5, <1>6

(* ... and when there is none the buffer is empty. *)
LEMMA Drained ==
  ASSUME TypeOK, Consumed, taken = Len(stream)
  PROVE  len = 0 /\ parseStart = 0 /\ Element.outcome = "more"
<1>1. stream \in Streams /\ arrived - len = Pos(Len(stream))
      /\ arrived \in 0 .. Len(Wire[stream]) /\ len \in Nat
  BY Places DEF TypeOK, Consumed, Pos, First
<1>2. arrived - len = Len(Wire[stream]) /\ Len(Wire[stream]) \in Nat
  BY <1>1, Layout
<1>3. len = 0
  BY <1>1, <1>2
<1>4. parseStart = 0
  BY <1>3 DEF TypeOK
<1>5. \A k \in From .. To : array[k] \in Digit
  BY <1>3, <1>4, Places DEF From, To
<1> QED
  BY <1>3, <1>4, <1>5, AllDigits

-----------------------------------------------------------------------------
(* There are no other outcomes. *)
LEMMA Outcomes ==
  ASSUME TypeOK
  PROVE  Element.outcome \in {"more", "error", "last", "another"}
<1>1. CASE \A k \in From .. To : array[k] \in Digit
  BY <1>1, AllDigits
<1>2. CASE ~(\A k \in From .. To : array[k] \in Digit)
  <2>1. PICK d \in From .. To : FirstOther(d)
    BY <1>2, OtherExists
  <2>2. Element = Result(d)
    BY <2>1, ElementAfter
  <2> QED
    BY <2>2 DEF Result, Out
<1> QED
  BY <1>1, <1>2

(* The buffer and the piece have the same elements, as far as both go. *)
LEMMA SameElements ==
  ASSUME TypeOK, WindowMatches, Consumed, taken < Len(stream),
         NEW q \in parseStart + 1 .. len, q <= Len(Piece)
  PROVE  /\ ElementAt(array, From, off + q) <=> ElementAt(Piece, parseStart + 1, q)
         /\ array[off + q] = Piece[q]
<1>0. off \in Nat /\ len \in Nat /\ parseStart \in Nat
  BY Places
<1>1. /\ parseStart + 1 \in Nat /\ q \in Nat /\ off \in Int /\ -off \in Int
      /\ parseStart + 1 + off = From /\ q + off = off + q /\ From \in Nat
      /\ From + (-off) = parseStart + 1 /\ off + q + (-off) = q /\ off + q \in Nat
      /\ q \in 1 .. len
  BY <1>0 DEF From
<1>2. \A k \in 1 .. len : k <= Len(Piece) => array[off + k] = Piece[k]
  BY InPiece
<1>3. array[off + q] = Piece[q]
  BY <1>1, <1>2
<1>4. Same(Piece, array, parseStart + 1, q, off)
  <2> SUFFICES ASSUME NEW k \in parseStart + 1 .. q - 1 PROVE array[k + off] = Piece[k]
    BY DEF Same
  <2>1. k \in 1 .. len /\ k <= Len(Piece) /\ k + off = off + k
    <3>1. Len(Piece) \in Nat
      BY InPiece
    <3> QED
      BY <1>0, <3>1
  <2> QED
    BY <1>2, <2>1
<1>5. Same(array, Piece, From, off + q, -off)
  <2> SUFFICES ASSUME NEW k \in From .. (off + q) - 1 PROVE Piece[k + (-off)] = array[k]
    BY DEF Same
  <2>0. PICK j : j = k - off
    OBVIOUS
  <2>1. off \in Nat /\ parseStart \in Nat /\ len \in Nat /\ Len(Piece) \in Nat
    BY Places, InPiece
  <2>2. k \in off + parseStart + 1 .. (off + q) - 1
    BY DEF From
  <2>3. k \in Int /\ k >= off + parseStart + 1 /\ k <= off + q - 1
    BY <2>1, <2>2
  <2>4. j \in 1 .. len /\ j <= Len(Piece) /\ off + j = k /\ k + (-off) = j
    BY <2>0, <2>1, <2>3
  <2> QED
    BY <1>2, <2>4
<1>6. ASSUME ElementAt(Piece, parseStart + 1, q) PROVE ElementAt(array, From, off + q)
  <2>1. ElementAt(array, parseStart + 1 + off, q + off)
    BY <1>1, <1>4, <1>6, ElementMoved
  <2> QED
    BY <1>1, <2>1
<1>7. ASSUME ElementAt(array, From, off + q) PROVE ElementAt(Piece, parseStart + 1, q)
  <2>1. ElementAt(Piece, From + (-off), off + q + (-off))
    BY <1>1, <1>5, <1>7, ElementMoved
  <2> QED
    BY <1>1, <2>1
<1> QED
  BY <1>3, <1>6, <1>7

(* The loop goes on behind an element and its comma. *)
GoesOn ==
    /\ Element.outcome = "another"
    /\ Element.i \in parseStart + 1 .. len
    /\ Element.i <= Len(Piece)
    /\ ElementAt(Piece, parseStart + 1, Element.i)
    /\ Piece[Element.i] = Comma

(* With an instruction in front, the loop waits only while it is not all    *)
(* there, returns it whole, or goes on to its next element; ...              *)
LEMMA InInstruction ==
  ASSUME TypeOK, NoLead, WindowMatches, Consumed, Placed, taken < Len(stream),
         IsInstruction(Piece)
  PROVE  \/ Element.outcome = "more" /\ len < Len(Piece)
         \/ Element.outcome = "last" /\ Element.i = Len(Piece) /\ Len(Piece) <= len
         \/ GoesOn
<1>1. PICK S \in SUBSET (1 .. Len(Piece)) :
         /\ Opens(Piece, S)
         /\ \A p \in S : \E q \in p .. Len(Piece) :
              ElementAt(Piece, p, q) /\ Piece[q] = IF q = Len(Piece) THEN Semicolon ELSE Comma
  BY DEF IsInstruction
<1>2. parseStart + 1 \in S
  BY <1>1 DEF Placed
<1>3. PICK q \in parseStart + 1 .. Len(Piece) :
         /\ ElementAt(Piece, parseStart + 1, q)
         /\ Piece[q] = IF q = Len(Piece) THEN Semicolon ELSE Comma
  BY <1>1, <1>2
<1>4. q \in Nat /\ Len(Piece) \in Nat /\ len \in Nat /\ off \in Nat /\ parseStart \in Nat
  BY Places, InPiece
<1>5. CASE q <= len
  <2>1. q \in parseStart + 1 .. len /\ q <= Len(Piece) /\ off + q \in From .. To
        /\ (off + q) - off = q
    BY <1>4, <1>5 DEF From, To
  <2>2. ElementAt(array, From, off + q) /\ array[off + q] = Piece[q]
    BY <1>3, <2>1, SameElements
  <2>3. Element = IF Piece[q] = Semicolon THEN Out("last", off + q)
                  ELSE IF Piece[q] = Comma THEN Out("another", off + q)
                  ELSE Out("error", From)
    BY <2>1, <2>2, ElementThere
  <2>4. CASE q = Len(Piece)
    <3>1. Element = Out("last", off + q)
      BY <1>3, <2>3, <2>4
    <3> QED
      BY <1>5, <2>1, <2>4, <3>1 DEF Out
  <2>5. CASE q # Len(Piece)
    <3>1. Element = Out("another", off + q)
      BY <1>3, <2>3, <2>5 DEF Comma, Semicolon
    <3>2. Element.outcome = "another" /\ Element.i = q
      BY <2>1, <3>1 DEF Out
    <3> QED
      BY <1>3, <2>1, <2>5, <3>2 DEF GoesOn
  <2> QED
    BY <2>4, <2>5
<1>6. CASE len < q
  <2>1. len < Len(Piece)
    BY <1>4, <1>6
  <2>2. PICK d \in parseStart + 1 .. q - 1 :
           /\ \A k \in parseStart + 1 .. d - 1 : Piece[k] \in Digit
           /\ Piece[d] = Dot
           /\ Number(Piece, parseStart + 1, d) = q - d - 1
    BY <1>3 DEF ElementAt
  <2>3. \A k \in 1 .. len : array[off + k] = Piece[k]
    <3>1. \A k \in 1 .. len : k <= Len(Piece)
      BY <1>4, <2>1
    <3> QED
      BY <3>1, InPiece
  <2>4. CASE len < d
    <3> SUFFICES ASSUME NEW k \in From .. To PROVE array[k] \in Digit
      BY <2>1, AllDigits
    <3>0. PICK j : j = k - off
      OBVIOUS
    <3>1. j \in parseStart + 1 .. d - 1 /\ j \in 1 .. len /\ off + j = k
      BY <1>4, <2>4, <3>0 DEF From, To
    <3> QED
      BY <2>2, <2>3, <3>1
  <2>5. CASE d <= len
    <3>0. PICK e : e = off + d
      OBVIOUS
    <3>1. /\ e \in From .. To /\ d \in 1 .. len /\ d \in Nat /\ off + d = e /\ From \in Nat
          /\ parseStart + 1 + off = From /\ d + off = e /\ parseStart + 1 \in Nat
          /\ parseStart + 1 <= d
      BY <1>4, <2>5, <3>0 DEF From, To
    <3>2. array[e] = Dot
      BY <2>2, <2>3, <3>1
    <3>3. ASSUME NEW k \in From .. e - 1 PROVE array[k] \in Digit
      <4>0. PICK j : j = k - off
        OBVIOUS
      <4>1. j \in parseStart + 1 .. d - 1 /\ j \in 1 .. len /\ off + j = k
        BY <1>4, <2>5, <3>0, <4>0 DEF From, To
      <4> QED
        BY <2>2, <2>3, <4>1
    <3>4. FirstOther(e)
      BY <3>2, <3>3 DEF FirstOther, Digit, Dot
    <3>5. Moved(Piece, array, parseStart + 1, d, off)
      <4> SUFFICES ASSUME NEW k \in parseStart + 1 .. d - 1
                   PROVE  Piece[k] \in Nat /\ array[k + off] = Piece[k]
        BY DEF Moved
      <4>1. k \in 1 .. len /\ k + off = off + k
        BY <1>4, <2>5
      <4> QED
        BY <2>2, <2>3, <4>1 DEF Digit
    <3>6. Number(array, parseStart + 1 + off, d + off) = Number(Piece, parseStart + 1, d)
      BY <1>4, <3>1, <3>5, NumberMoved
    <3>7. Number(array, From, e) = q - d - 1
      BY <2>2, <3>1, <3>6
    <3>8. e + (q - d - 1) >= To
      BY <1>4, <1>6, <3>0, <3>1 DEF To
    <3>9. Element = Result(e)
      BY <3>1, <3>4, ElementAfter
    <3>10. Element = Out("more", From)
      BY <3>2, <3>7, <3>8, <3>9 DEF Result
    <3> QED
      BY <2>1, <3>10 DEF Out
  <2> QED
    BY <1>4, <2>2, <2>4, <2>5
<1> QED
  BY <1>4, <1>5, <1>6

(* ... with something else it never returns. *)
LEMMA InGarbage ==
  ASSUME TypeOK, NoLead, WindowMatches, Consumed, Placed, taken < Len(stream),
         NoInstruction(Piece), len <= Len(Piece)
  PROVE  Element.outcome \in {"more", "error"} \/ GoesOn
<1> SUFFICES ASSUME Element.outcome \in {"last", "another"} PROVE GoesOn
  BY Outcomes
<1>1. PICK S \in SUBSET (1 .. Len(Piece) + 1) :
         /\ Opens(Piece, S)
         /\ \A p \in S : \A q \in p .. Len(Piece) : ElementAt(Piece, p, q) => Piece[q] # Semicolon
  BY DEF NoInstruction
<1>2. parseStart + 1 \in S
  BY <1>1 DEF Placed
<1>3. PICK r \in From .. To :
            /\ ElementAt(array, From, r)
            /\ Element.i = r - off
            /\ Element.outcome = "last" => array[r] = Semicolon
            /\ Element.outcome = "another" => array[r] = Comma
  BY ElementRead
<1>4. PICK q : q = r - off
  OBVIOUS
<1>5. /\ q \in parseStart + 1 .. len /\ off + q = r
      /\ q <= Len(Piece) /\ q \in parseStart + 1 .. Len(Piece)
  <2>1. off \in Nat /\ len \in Nat /\ parseStart \in Nat
    BY Places
  <2>2. Len(Piece) \in Nat
    BY InPiece
  <2> QED
    BY <1>4, <2>1, <2>2 DEF From, To
<1>6. ElementAt(Piece, parseStart + 1, q) /\ array[r] = Piece[q]
  BY <1>3, <1>5, SameElements
<1>7. Piece[q] # Semicolon
  BY <1>1, <1>2, <1>5, <1>6
<1>8. Element.outcome = "another"
  BY <1>3, <1>6, <1>7
<1> QED
  BY <1>3, <1>4, <1>5, <1>6, <1>8 DEF GoesOn

-----------------------------------------------------------------------------
PlainStreams == \A s \in Streams : Plain(s)

(* What is expected of the piece that is being read, ... *)
LEMMA PlainPiece ==
  ASSUME PlainStreams, TypeOK, taken < Len(stream)
  PROVE  /\ Piece \in Garbage =>
              NoInstruction(Piece) /\ Len(Piece) < MaxGuacMessage /\ taken + 1 = Len(stream)
         /\ Piece \notin Garbage => IsInstruction(Piece) /\ Len(Piece) <= MaxGuacMessage
<1>1. stream \in Streams /\ taken + 1 \in DOMAIN stream
  BY Layout DEF TypeOK
<1>2. Plain(stream)
  BY <1>1 DEF PlainStreams
<1>3. Piece \in Garbage => taken + 1 = Len(stream)
  BY <1>1, StreamAssumption DEF Piece
<1> QED
  BY <1>1, <1>2, <1>3 DEF Plain, Piece

(* ... and of every byte. *)
LEMMA PlainWire ==
  ASSUME PlainStreams, stream \in Streams
  PROVE  \A k \in 1 .. Len(Wire[stream]) : Wire[stream][k] \in Byte \ {Lead}
<1>1. stream \in Seq(Seq(Byte)) /\ Plain(stream)
  BY StreamAssumption DEF PlainStreams
<1>2. ASSUME NEW k \in 1 .. Len(stream) PROVE stream[k] \in Seq(Byte \ {Lead})
  <2>1. stream[k] \in Seq(Byte) /\ k \in DOMAIN stream
    BY <1>1
  <2>2. \A j \in 1 .. Len(stream[k]) : stream[k][j] \in Byte /\ stream[k][j] # Lead
    BY <1>1, <2>1 DEF Plain
  <2> QED
    BY <2>1, <2>2
<1>3. PICK s : s = stream
  OBVIOUS
<1>4. s \in Seq(Seq(Byte \ {Lead}))
  <2>1. s \in Seq(Seq(Byte)) /\ \A k \in 1 .. Len(s) : s[k] \in Seq(Byte \ {Lead})
    BY <1>1, <1>2, <1>3
  <2> QED
    BY <2>1
<1>5. FlattenSeq(s) \in Seq(Byte \ {Lead})
  BY <1>4, Pieces
<1>6. Wire[stream] = FlattenSeq(s)
  BY <1>3 DEF Wire
<1> QED
  BY <1>5, <1>6

-----------------------------------------------------------------------------
BrokenOnGarbage == step = "broken" => Piece \in Garbage

(* What ReadSome returned is the instruction. *)
TakenExact ==
    step = "take" =>
       /\ taken > 0
       /\ stream[taken] \notin Garbage
       /\ ins.len = Len(stream[taken])
       /\ \A k \in 1 .. ins.len : array[ins.off + k] = stream[taken][k]

ReadInv ==
    /\ TypeOK /\ NoLead /\ WindowMatches /\ Consumed /\ Placed
    /\ BrokenOnGarbage /\ RoomToRead /\ TakenExact

(* What ReadSome finds. *)
LEMMA Found ==
  ASSUME PlainStreams, ReadInv
  PROVE  /\ Element.outcome = "more" => len < MaxGuacMessage
         /\ Element.outcome = "error" => Piece \in Garbage
         /\ Element.outcome = "last" =>
              /\ taken < Len(stream) /\ Piece \notin Garbage
              /\ Element.i = Len(Piece) /\ Len(Piece) <= len /\ Len(Piece) \in Nat
         /\ Element.outcome = "another" =>
              /\ Element.i \in 0 .. len
              /\ taken < Len(stream) => \A S : Opens(Piece, S) => Element.i + 1 \in S
<1> USE DEF ReadInv
<1>0. taken \in 0 .. Len(stream) /\ len \in Nat /\ MaxGuacMessage \in Nat \ {0}
      /\ Len(stream) \in Nat /\ parseStart \in Nat
  BY Places, Layout, StreamAssumption DEF TypeOK
<1>1. CASE taken = Len(stream)
  BY <1>0, <1>1, Drained
<1>2. CASE taken < Len(stream)
  <2>0. Len(Piece) \in Nat
    BY <1>2, InPiece
  <2>1. ASSUME GoesOn
        PROVE  /\ Element.outcome = "another"
               /\ Element.i \in 0 .. len
               /\ \A S : Opens(Piece, S) => Element.i + 1 \in S
    <3>1. /\ Element.outcome = "another" /\ Element.i \in 0 .. len
          /\ Element.i \in parseStart + 1 .. Len(Piece)
      BY <1>0, <2>0, <2>1 DEF GoesOn
    <3>2. ASSUME NEW S, Opens(Piece, S) PROVE Element.i + 1 \in S
      <4>1. parseStart + 1 \in S
        BY <1>2, <3>2 DEF Placed
      <4> QED
        BY <2>1, <3>1, <3>2, <4>1 DEF Opens, GoesOn
    <3> QED
      BY <3>1, <3>2
  <2>2. CASE Piece \in Garbage
    <3>1. NoInstruction(Piece) /\ Len(Piece) < MaxGuacMessage /\ taken + 1 = Len(stream)
      BY <1>2, <2>2, PlainPiece
    <3>2. len <= Len(Piece)
      BY <1>2, <3>1, InPiece
    <3>3. Element.outcome \in {"more", "error"} \/ GoesOn
      BY <1>2, <3>1, <3>2, InGarbage
    <3> QED
      BY <1>0, <2>0, <2>1, <2>2, <3>1, <3>2, <3>3
  <2>3. CASE Piece \notin Garbage
    <3>1. IsInstruction(Piece) /\ Len(Piece) <= MaxGuacMessage
      BY <1>2, <2>3, PlainPiece
    <3>2. \/ Element.outcome = "more" /\ len < Len(Piece)
          \/ Element.outcome = "last" /\ Element.i = Len(Piece) /\ Len(Piece) <= len
          \/ GoesOn
      BY <1>2, <3>1, InInstruction
    <3> QED
      BY <1>0, <1>2, <2>0, <2>1, <2>3, <3>1, <3>2
  <2> QED
    BY <2>2, <2>3
<1> QED
  BY <1>0, <1>1, <1>2

-----------------------------------------------------------------------------
(* The buffer is inside the array. *)
LEMMA Bounds ==
  ASSUME TypeOK
  PROVE  /\ off \in Nat /\ len \in Nat /\ parseStart \in Nat /\ parseStart <= len
         /\ MaxGuacMessage \in Nat \ {0} /\ off + len <= 3 * MaxGuacMessage
         /\ \A k \in 1 .. len : off + k \in Slot /\ k \in Slot
BY StreamAssumption DEF TypeOK, Capacity, Slot

(* Flush moves the buffer and keeps what is in it. *)
LEMMA FlushKeeps ==
  ASSUME TypeOK, NoLead, WindowMatches, Flush, UNCHANGED <<stream, arrived, len>>
  PROVE  /\ array' \in [Slot -> Byte] /\ NoLead' /\ WindowMatches' /\ off' = 0
         /\ len \in 0 .. 3 * MaxGuacMessage
<1>1. off' = 0 /\ array' = [k \in Slot |-> IF k <= len THEN array[off + k] ELSE array[k]]
  BY DEF Flush
<1>2. \A k \in Slot : k <= len => k \in 1 .. len /\ off + k \in Slot
  BY Bounds DEF Slot
<1>3. \A k \in Slot : array[k] \in Byte /\ array[k] # Lead
  BY DEF TypeOK, NoLead
<1>4. \A k \in Slot : array'[k] \in Byte /\ array'[k] # Lead
  BY <1>1, <1>2, <1>3
<1>5. array' \in [Slot -> Byte] /\ NoLead'
  BY <1>1, <1>4 DEF NoLead
<1>6. ASSUME NEW k \in 1 .. len PROVE array'[0 + k] = Wire[stream][arrived - len + k]
  <2>1. k \in Slot /\ k <= len /\ 0 + k = k
    BY Bounds
  <2>2. array'[k] = array[off + k]
    BY <1>1, <2>1
  <2> QED
    BY <2>1, <2>2 DEF WindowMatches
<1>7. WindowMatches'
  BY <1>1, <1>6 DEF WindowMatches
<1> QED
  BY <1>1, <1>5, <1>7, Bounds

(* Steps that leave the buffer and the stream alone. *)
Still == UNCHANGED <<stream, arrived, array, off, len, parseStart, ins, taken>>

(* They keep the invariant. *)
LEMMA StillKeeps ==
  ASSUME ReadInv, Still,
         phase' \in {"select", "args", "ready", "relay", "ended"},
         step' = step \/ step' = "parse"
  PROVE  ReadInv'
<1> USE DEF ReadInv, Still
<1>1. TypeOK'
  BY DEF TypeOK, Capacity
<1>2. NoLead' /\ WindowMatches' /\ Consumed' /\ Placed'
  BY DEF NoLead, WindowMatches, Consumed, Placed, First, Piece
<1>3. BrokenOnGarbage' /\ RoomToRead' /\ TakenExact'
  BY DEF BrokenOnGarbage, RoomToRead, TakenExact, Room, Capacity, Piece
<1> QED
  BY <1>1, <1>2, <1>3

(* One lemma for each step that moves the buffer or the place in it. *)
LEMMA NextElementKeeps ==
  ASSUME PlainStreams, ReadInv, NextElement
  PROVE  ReadInv'
<1> USE DEF ReadInv
<1>1. /\ Element.outcome = "another" /\ parseStart' = Element.i /\ step = "parse"
      /\ UNCHANGED <<stream, arrived, array, off, len, phase, step, ins, taken>>
  BY DEF NextElement, Parsing
<1>2. Element.i \in 0 .. len /\
      (taken < Len(stream) => \A S : Opens(Piece, S) => Element.i + 1 \in S)
  BY <1>1, Found
<1>3. TypeOK'
  BY <1>1, <1>2 DEF TypeOK, Capacity
<1>4. Placed'
  BY <1>1, <1>2 DEF Placed, Piece
<1>5. NoLead' /\ WindowMatches' /\ Consumed'
  BY <1>1 DEF NoLead, WindowMatches, Consumed, First
<1>6. BrokenOnGarbage' /\ RoomToRead' /\ TakenExact'
  BY <1>1 DEF BrokenOnGarbage, RoomToRead, TakenExact
<1> QED
  BY <1>3, <1>4, <1>5, <1>6

(* Returning an instruction keeps the invariant: the next piece begins. *)
LEMMA ReturnKeeps ==
  ASSUME PlainStreams, ReadInv, ReturnInstruction
  PROVE  ReadInv'
<1> USE DEF ReadInv
<1>1. PICK i : i = Element.i
  OBVIOUS
<1>2. /\ Element.outcome = "last"
      /\ ins' = [off |-> off, len |-> i] /\ off' = off + i /\ len' = len - i
      /\ parseStart' = 0 /\ taken' = taken + 1 /\ step' = "take"
      /\ UNCHANGED <<stream, arrived, array, phase>>
  BY <1>1 DEF ReturnInstruction, Parsing
<1>3. taken < Len(stream) /\ i = Len(Piece) /\ i <= len /\ i \in Nat /\ Piece \notin Garbage
  BY <1>1, <1>2, Found
<1>4. /\ stream \in Streams /\ taken \in 0 .. Len(stream) - 1 /\ Len(stream) \in Nat
      /\ arrived \in Nat
  BY <1>3, Layout DEF TypeOK
<1>5. TypeOK'
  <2>1. off' \in 0 .. 3 * MaxGuacMessage /\ len' \in 0 .. Capacity' /\ parseStart' \in 0 .. len'
    <3>1. off \in Nat /\ len \in Nat /\ off + len <= 3 * MaxGuacMessage /\ MaxGuacMessage \in Nat
      BY Bounds
    <3> QED
      BY <1>2, <1>3, <3>1 DEF Capacity
  <2>2. ins' \in [off : 0 .. 3 * MaxGuacMessage, len : 0 .. 3 * MaxGuacMessage]
    <3>1. off \in 0 .. 3 * MaxGuacMessage /\ i \in 0 .. 3 * MaxGuacMessage
      BY <1>3, Bounds
    <3> QED
      BY <1>2, <3>1
  <2>3. taken' \in 0 .. Len(stream)
    BY <1>2, <1>4
  <2> QED
    BY <1>2, <2>1, <2>2, <2>3 DEF TypeOK
<1>6. NoLead'
  BY <1>2 DEF NoLead
<1>7. WindowMatches'
  <2> SUFFICES ASSUME NEW k \in 1 .. len - i
               PROVE  array[off + i + k] = Wire[stream][(arrived - (len - i)) + k]
    BY <1>2 DEF WindowMatches
  <2>1. PICK j : j = i + k
    OBVIOUS
  <2>2. len \in Nat /\ off \in Nat /\ k \in Int /\ k >= 1 /\ k <= len - i
    BY <1>3, Bounds
  <2>3. /\ j \in 1 .. len /\ off + i + k = off + j
        /\ (arrived - (len - i)) + k = (arrived - len) + j
    BY <1>3, <1>4, <2>1, <2>2
  <2> QED
    BY <2>3 DEF WindowMatches
<1>8. Consumed'
  <2>1. Pos(taken + 1) = Pos(taken) + i /\ Pos(taken) \in Nat
    <3>1. taken \in 0 .. Len(stream)
      BY <1>4
    <3>2. Pos(taken + 1) = Pos(taken) + Len(stream[taken + 1]) /\ Pos(taken) \in Nat
      BY <1>4, <3>1, Layout, Zenon
    <3> QED
      BY <1>3, <3>2 DEF Piece
  <2>2. arrived - len = Pos(taken)
    BY DEF Consumed, Pos, First
  <2>3. arrived - (len - i) = Pos(taken + 1)
    BY <1>3, <1>4, <2>1, <2>2, Bounds
  <2> QED
    BY <1>2, <2>3 DEF Consumed, Pos, First
<1>9. Placed'
  BY <1>2 DEF Placed, Opens
<1>10. BrokenOnGarbage' /\ RoomToRead'
  BY <1>2 DEF BrokenOnGarbage, RoomToRead
<1>11. TakenExact'
  <2>1. \A k \in 1 .. i : array[off + k] = Piece[k]
    <3>1. \A k \in 1 .. i : k \in 1 .. len /\ k <= Len(Piece)
      BY <1>3, Bounds
    <3> QED
      BY <1>3, <3>1, InPiece
  <2> QED
    BY <1>2, <1>3, <1>4, <2>1 DEF TakenExact, Piece
<1> QED
  BY <1>5, <1>6, <1>7, <1>8, <1>9, <1>10, <1>11

(* So does giving up, which happens only on garbage, ... *)
LEMMA ParseFailsKeeps ==
  ASSUME PlainStreams, ReadInv, ParseFails
  PROVE  ReadInv'
<1> USE DEF ReadInv
<1>1. /\ Element.outcome = "error" /\ phase' = "ended" /\ step' = "broken"
      /\ UNCHANGED <<stream, arrived, array, off, len, parseStart, ins, taken>>
  BY DEF ParseFails, Parsing
<1>2. Piece \in Garbage
  BY <1>1, Found
<1>3. TypeOK'
  BY <1>1 DEF TypeOK, Capacity
<1>4. NoLead' /\ WindowMatches' /\ Consumed' /\ Placed'
  BY <1>1 DEF NoLead, WindowMatches, Consumed, Placed, First, Piece
<1>5. BrokenOnGarbage' /\ RoomToRead' /\ TakenExact'
  BY <1>1, <1>2 DEF BrokenOnGarbage, RoomToRead, TakenExact, Piece
<1> QED
  BY <1>3, <1>4, <1>5

(* ... asking for more: if the buffer has no room behind it, Flush makes some, ... *)
LEMMA WaitKeeps ==
  ASSUME PlainStreams, ReadInv, WaitForMore
  PROVE  ReadInv'
<1> USE DEF ReadInv
<1>1. /\ Element.outcome = "more" /\ step' = "read"
      /\ UNCHANGED <<stream, arrived, len, parseStart, phase, ins, taken>>
  BY DEF WaitForMore, Parsing
<1>2. len < MaxGuacMessage
  BY <1>1, Found
<1>3. \/ Flush
      \/ UNCHANGED <<array, off>> /\ ~(Capacity < MaxGuacMessage)
  BY DEF WaitForMore, FlushAt
<1>4. /\ array' \in [Slot -> Byte] /\ NoLead' /\ WindowMatches'
      /\ off' \in 0 .. 3 * MaxGuacMessage /\ len <= 3 * MaxGuacMessage - off'
      /\ (3 * MaxGuacMessage - off') - len > 0
  <2>1. CASE Flush
    <3>1. array' \in [Slot -> Byte] /\ NoLead' /\ WindowMatches' /\ off' = 0
      BY <1>1, <2>1, FlushKeeps
    <3> QED
      BY <1>2, <3>1, Bounds
  <2>2. CASE UNCHANGED <<array, off>> /\ ~(Capacity < MaxGuacMessage)
    <3>1. array' \in [Slot -> Byte] /\ NoLead' /\ WindowMatches'
      BY <1>1, <2>2 DEF TypeOK, NoLead, WindowMatches
    <3> QED
      BY <1>2, <2>2, <3>1, Bounds DEF Capacity, TypeOK
  <2> QED
    BY <1>3, <2>1, <2>2
<1>5. TypeOK'
  BY <1>1, <1>4, Bounds DEF TypeOK, Capacity
<1>6. Consumed' /\ Placed'
  BY <1>1 DEF Consumed, Placed, First, Piece
<1>7. BrokenOnGarbage' /\ RoomToRead' /\ TakenExact'
  BY <1>1, <1>4 DEF BrokenOnGarbage, RoomToRead, TakenExact, Room, Capacity
<1> QED
  BY <1>4, <1>5, <1>6, <1>7

(* ... what is read from the connection, ... *)
LEMMA ReceiveKeeps ==
  ASSUME PlainStreams, ReadInv, Receive
  PROVE  ReadInv'
<1> USE DEF ReadInv
<1>1. PICK n \in 1 .. Room : arrived + n <= Len(Wire[stream]) /\ Read(n)
  BY DEF Receive
<1>2. /\ arrived' = arrived + n /\ len' = len + n /\ step' = "parse"
      /\ array' = [k \in Slot |->
                    IF k \in off + len + 1 .. off + len + n
                    THEN Wire[stream][arrived + k - off - len] ELSE array[k]]
      /\ UNCHANGED <<stream, off, parseStart, phase, ins, taken>>
  BY <1>1 DEF Read
<1>3. /\ n \in Nat /\ off + len + n <= 3 * MaxGuacMessage /\ arrived \in Nat
      /\ arrived + n \in 0 .. Len(Wire[stream]) /\ stream \in Streams
  <2>1. stream \in Streams /\ arrived \in Nat
    BY Layout DEF TypeOK
  <2>2. Len(Wire[stream]) \in Nat
    BY <2>1, Layout
  <2>3. n \in Nat /\ n <= 3 * MaxGuacMessage - off - len
    BY Bounds DEF Room, Capacity
  <2> QED
    BY <1>1, <2>1, <2>2, <2>3, Bounds
<1>4. \A k \in off + len + 1 .. off + len + n :
         /\ arrived + k - off - len \in 1 .. Len(Wire[stream])
         /\ k \in Slot
  <2> SUFFICES ASSUME NEW k \in off + len + 1 .. off + len + n
               PROVE  /\ arrived + k - off - len \in 1 .. Len(Wire[stream])
                      /\ k \in Slot
    OBVIOUS
  <2>1. PICK l : l = Len(Wire[stream])
    OBVIOUS
  <2>2. l \in Nat /\ arrived + n <= l
    BY <1>1, <1>3, <2>1, Layout
  <2>3. /\ off \in Nat /\ len \in Nat /\ k \in Int /\ k >= off + len + 1 /\ k <= off + len + n
        /\ MaxGuacMessage \in Nat
    BY <1>3, Bounds
  <2>4. arrived + k - off - len \in 1 .. l
    BY <1>3, <2>2, <2>3
  <2> QED
    BY <1>3, <2>1, <2>3, <2>4 DEF Slot
<1>5. \A k \in Slot : array'[k] \in Byte \ {Lead}
  <2>1. \A k \in off + len + 1 .. off + len + n :
           Wire[stream][arrived + k - off - len] \in Byte \ {Lead}
    BY <1>3, <1>4, PlainWire
  <2>2. \A k \in Slot : array[k] \in Byte \ {Lead}
    BY DEF TypeOK, NoLead
  <2> QED
    BY <1>2, <2>1, <2>2
<1>6. array' \in [Slot -> Byte] /\ NoLead'
  BY <1>2, <1>5 DEF NoLead
<1>7. TypeOK'
  <2>1. len' \in 0 .. Capacity' /\ parseStart' \in 0 .. len'
    BY <1>2, <1>3, Bounds DEF Capacity
  <2> QED
    BY <1>2, <1>3, <1>6, <2>1 DEF TypeOK
<1>8. WindowMatches'
  <2> SUFFICES ASSUME NEW k \in 1 .. len + n
               PROVE  array'[off + k] = Wire[stream][((arrived + n) - (len + n)) + k]
    BY <1>2 DEF WindowMatches
  <2>0. off \in Nat /\ len \in Nat /\ k \in Nat /\ MaxGuacMessage \in Nat
    BY <1>3, Bounds
  <2>1. ((arrived + n) - (len + n)) + k = arrived - len + k /\ off + k \in Slot
    BY <1>3, <2>0 DEF Slot
  <2>2. CASE k <= len
    <3>1. k \in 1 .. len /\ ~(off + k \in off + len + 1 .. off + len + n)
      BY <1>3, <2>2, Bounds
    <3>2. array'[off + k] = array[off + k]
      BY <1>2, <2>1, <3>1
    <3> QED
      BY <2>1, <3>1, <3>2 DEF WindowMatches
  <2>3. CASE ~(k <= len)
    <3>1. /\ off + k \in off + len + 1 .. off + len + n
          /\ arrived + (off + k) - off - len = arrived - len + k
      BY <1>3, <2>0, <2>3
    <3>2. array'[off + k] = Wire[stream][arrived + (off + k) - off - len]
      BY <1>2, <2>1, <3>1
    <3> QED
      BY <2>1, <3>1, <3>2
  <2> QED
    BY <2>2, <2>3
<1>9. Consumed' /\ Placed'
  <2>1. arrived' - len' = arrived - len
    BY <1>2, <1>3, Bounds
  <2> QED
    BY <1>2, <2>1 DEF Consumed, Placed, First, Piece
<1>10. BrokenOnGarbage' /\ RoomToRead' /\ TakenExact'
  BY <1>2 DEF BrokenOnGarbage, RoomToRead, TakenExact
<1> QED
  BY <1>6, <1>7, <1>8, <1>9, <1>10

(* ... and the end of the handshake, which flushes the buffer. *)
LEMMA TakeReadyKeeps ==
  ASSUME ReadInv, TakeReady
  PROVE  ReadInv'
<1> USE DEF ReadInv
<1>1. /\ phase' \in {"relay", "ended"}
      /\ UNCHANGED <<stream, arrived, len, parseStart, ins, taken>>
      /\ \/ Flush /\ step' = "parse"
         \/ UNCHANGED <<array, off, step>>
  BY DEF TakeReady
<1>2. CASE Flush /\ step' = "parse"
  <2>1. /\ array' \in [Slot -> Byte] /\ NoLead' /\ WindowMatches' /\ off' = 0
        /\ len \in 0 .. 3 * MaxGuacMessage
    BY <1>1, <1>2, FlushKeeps
  <2>2. TypeOK'
    BY <1>1, <1>2, <2>1, Bounds DEF TypeOK, Capacity
  <2>3. Consumed' /\ Placed' /\ BrokenOnGarbage' /\ RoomToRead' /\ TakenExact'
    BY <1>1, <1>2 DEF Consumed, Placed, First, Piece, BrokenOnGarbage, RoomToRead, TakenExact
  <2> QED
    BY <2>1, <2>2, <2>3
<1>3. CASE UNCHANGED <<array, off, step>>
  BY <1>1, <1>3, StillKeeps DEF Still
<1> QED
  BY <1>1, <1>2, <1>3

(* The invariant holds at first, ... *)
LEMMA ReadInit ==
  ASSUME Init
  PROVE  ReadInv
<1> USE DEF Init
<1>1. stream \in Streams /\ Pos(0) = 0 /\ Len(Wire[stream]) \in Nat /\ Len(stream) \in Nat
  BY Layout
<1>2. TypeOK
  BY <1>1, StreamAssumption DEF TypeOK, Capacity, Byte
<1>3. NoLead /\ WindowMatches
  BY DEF NoLead, Lead, WindowMatches
<1>4. Consumed /\ Placed
  BY <1>1 DEF Consumed, Placed, Opens, Pos, First
<1> QED
  BY <1>2, <1>3, <1>4 DEF ReadInv, BrokenOnGarbage, RoomToRead, TakenExact

(* ... and every step keeps it. *)
LEMMA ReadStep ==
  ASSUME PlainStreams, ReadInv, [Next]_vars
  PROVE  ReadInv'
<1>1. CASE NextElement
  BY <1>1, NextElementKeeps
<1>2. CASE ReturnInstruction
  BY <1>2, ReturnKeeps
<1>3. CASE ParseFails
  BY <1>3, ParseFailsKeeps
<1>4. CASE WaitForMore
  BY <1>4, WaitKeeps
<1>5. CASE Receive
  BY <1>5, ReceiveKeeps
<1>6. CASE TakeReady
  BY <1>6, TakeReadyKeeps
<1>7. CASE Select \/ AnswerArgs \/ KeepInstruction \/ Forward
  BY <1>7, StillKeeps DEF Select, AnswerArgs, KeepInstruction, Forward, Still, ReadInv, TypeOK
<1>8. CASE ReadFails \/ WriteFails \/ Ended \/ UNCHANGED vars
  BY <1>8, StillKeeps DEF ReadFails, WriteFails, Ended, Still, ReadInv, TypeOK
<1> QED
  BY <1>1, <1>2, <1>3, <1>4, <1>5, <1>6, <1>7, <1>8 DEF Next, Progress, ReadSome, Caller

(* The invariant of Stream.ReadSome: the buffer is what has arrived less    *)
(* the instructions that were returned, and the parse loop is in front of   *)
(* an element of the next one.                                              *)
THEOREM ReadSomeCorrect ==
  ASSUME PlainStreams
  PROVE  Spec => []ReadInv
<1>1. Init => ReadInv
  BY ReadInit
<1>2. ReadInv /\ [Next]_vars => ReadInv'
  BY ReadStep
<1> QED
  BY <1>1, <1>2, PTL DEF Spec

-----------------------------------------------------------------------------
(* FlattenSeq of one piece more. *)
LEMMA OneMorePiece ==
  ASSUME NEW S, NEW t \in Seq(Seq(S)), NEW s \in Seq(Seq(S)), NEW w \in Seq(S),
         Len(s) = Len(t) + 1, \A k \in 1 .. Len(t) : s[k] = t[k], s[Len(s)] = w
  PROVE  /\ FlattenSeq(s) = FlattenSeq(t) \o w
         /\ FlattenSeq(t) \in Seq(S)
<1>1. \A i \in 1 .. Len(s) : s[i] \in Seq(S)
  OBVIOUS
<1>2. PICK n : n = Len(t)
  OBVIOUS
<1>3. n \in Nat /\ Len(s) = n + 1 /\ n \in 0 .. Len(s) /\ n \in 0 .. Len(s) - 1
  BY <1>2
<1>4. PICK g : Joins(S, s, Len(s), g)
  <2>1. Len(s) \in Nat
    BY <1>3
  <2> QED
    BY <1>1, <2>1, JoinsExist
<1>5. FlattenSeq(s) = g[Len(s)] /\ FlattenSeq(SubSeq(s, 1, n)) = g[n]
  BY <1>3, <1>4, FlattenIs, FlattenFirst
<1>6. g[n + 1] = g[n] \o s[n + 1]
  BY <1>3, <1>4 DEF Joins
<1>7. SubSeq(s, 1, n) = t
  <2>1. /\ SubSeq(s, 1, n) \in Seq(Seq(S))
        /\ Len(SubSeq(s, 1, n)) = n
        /\ \A i \in 1 .. n : SubSeq(s, 1, n)[i] = s[i]
    BY <1>1, <1>3, SubSeqProperties
  <2> QED
    BY <1>2, <2>1
<1> QED
  BY <1>3, <1>5, <1>6, <1>7, Pieces

-----------------------------------------------------------------------------
Passing(s, n) == [k \in 1 .. n |-> Passed(s[k + 2])]

(* One more instruction for the websocket. *)
LEMMA OneMorePassed ==
  ASSUME NEW s \in Seq(Seq(Byte)), NEW n \in Nat, n + 3 <= Len(s)
  PROVE  /\ FlattenSeq(Passing(s, n + 1)) = FlattenSeq(Passing(s, n)) \o Passed(s[n + 3])
         /\ FlattenSeq(Passing(s, n)) \in Seq(Byte)
<1>1. PICK t, u, w : t = Passing(s, n) /\ u = Passing(s, n + 1) /\ w = Passed(s[n + 3])
  OBVIOUS
<1>2. \A k \in 1 .. n + 1 : Passed(s[k + 2]) \in Seq(Byte)
  BY DEF Passed
<1>3. t \in Seq(Seq(Byte)) /\ Len(t) = n
  <2>1. t = [k \in 1 .. n |-> Passed(s[k + 2])]
    BY <1>1 DEF Passing
  <2>2. \A k \in 1 .. n : Passed(s[k + 2]) \in Seq(Byte)
    BY <1>2
  <2> QED
    BY <2>1, <2>2
<1>4. u \in Seq(Seq(Byte)) /\ Len(u) = n + 1
  <2>1. u = [k \in 1 .. n + 1 |-> Passed(s[k + 2])]
    BY <1>1 DEF Passing
  <2> QED
    BY <1>2, <2>1
<1>5. w \in Seq(Byte) /\ u[Len(u)] = w
  <2>1. n + 1 \in 1 .. n + 1 /\ n + 1 + 2 = n + 3
    OBVIOUS
  <2> QED
    BY <1>1, <1>2, <1>4, <2>1 DEF Passing
<1>6. \A k \in 1 .. n : u[k] = t[k]
  BY <1>1 DEF Passing
<1>7. FlattenSeq(u) = FlattenSeq(t) \o w /\ FlattenSeq(t) \in Seq(Byte)
  BY <1>3, <1>4, <1>5, <1>6, OneMorePiece
<1> QED
  BY <1>1, <1>7

(* How many instructions a phase has handled. *)
InPhase ==
    /\ phase \in {"select", "args"} => Handled = 0
    /\ phase = "ready" => Handled = 1
    /\ phase = "relay" => Handled >= 2
    /\ phase = "select" => step = "parse"

RelayInv ==
    /\ ReadInv
    /\ InPhase
    /\ relayed \in Seq(Byte) /\ buf \in Seq(Byte)
    /\ phase \in {"select", "args", "ready"} => relayed = <<>> /\ buf = <<>>
    /\ RelayedInOrder

(* The slice ReadSome returned is the instruction. *)
LEMMA ReturnedIs ==
  ASSUME ReadInv, step = "take"
  PROVE  Returned = stream[taken] /\ Returned \in Seq(Byte) /\ taken \in 1 .. Len(stream)
<1>1. stream \in Seq(Seq(Byte)) /\ taken \in 1 .. Len(stream)
  BY Layout DEF ReadInv, TypeOK, TakenExact
<1>2. stream[taken] \in Seq(Byte)
  BY <1>1
<1>3. /\ ins.len = Len(stream[taken])
      /\ \A k \in 1 .. ins.len : array[ins.off + k] = stream[taken][k]
  BY DEF ReadInv, TakenExact
<1>4. Returned = [k \in 1 .. Len(stream[taken]) |-> stream[taken][k]]
  BY <1>3 DEF Returned
<1>5. Returned = stream[taken]
  BY <1>2, <1>4
<1> QED
  BY <1>1, <1>2, <1>5

(* The caller is done with one more. *)
LEMMA HandlesOne ==
  ASSUME ReadInv, InPhase, phase = "relay", step = "take", RelayedInOrder,
         relayed \in Seq(Byte), buf \in Seq(Byte),
         NEW b \in Seq(Byte), b = (relayed \o buf) \o Passed(Returned)
  PROVE  b = FlattenSeq(Passing(stream, taken - 2))
<1>1. PICK n : n = taken - 3
  OBVIOUS
<1>2. Returned = stream[taken] /\ taken \in 1 .. Len(stream)
  BY ReturnedIs
<1>3. /\ n \in Nat /\ n + 3 <= Len(stream) /\ Handled - 2 = n /\ taken - 2 = n + 1
      /\ n + 3 = taken /\ stream \in Seq(Seq(Byte))
  BY <1>1, <1>2, Layout DEF InPhase, Handled, ReadInv, TypeOK
<1>4. relayed \o buf = FlattenSeq(Passing(stream, n))
  BY <1>3 DEF RelayedInOrder, Passing
<1>5. PICK s : s = stream
  OBVIOUS
<1>6. FlattenSeq(Passing(s, n + 1)) = FlattenSeq(Passing(s, n)) \o Passed(s[n + 3])
  BY <1>3, <1>5, OneMorePassed
<1> QED
  BY <1>2, <1>3, <1>4, <1>5, <1>6

(* The invariant holds at first, ... *)
LEMMA RelayInit ==
  ASSUME Init
  PROVE  RelayInv
<1>1. ReadInv
  BY ReadInit
<1> QED
  BY <1>1 DEF Init, RelayInv, InPhase, Handled, RelayedInOrder

(* ... and every step keeps it. *)
LEMMA RelayStep ==
  ASSUME PlainStreams, RelayInv, [Next]_vars
  PROVE  RelayInv'
<1> USE DEF RelayInv
<1>1. ReadInv'
  BY ReadStep
<1>2. taken \in Nat /\ taken' \in Nat
  BY <1>1, Layout DEF ReadInv, TypeOK
<1>3. ASSUME UNCHANGED <<stream, relay, phase>>, Handled' = Handled,
             step' # step => phase # "select"
      PROVE  RelayInv'
  BY <1>1, <1>3 DEF InPhase, RelayedInOrder, Passed, Kept
<1>4. ASSUME phase' = "ended", UNCHANGED relay
      PROVE  RelayInv'
  BY <1>1, <1>4 DEF InPhase, RelayedInOrder
<1>5. CASE Select
  BY <1>1, <1>5 DEF Select, InPhase, Handled, RelayedInOrder
<1>6. CASE NextElement \/ WaitForMore
  BY <1>6, <1>3 DEF NextElement, WaitForMore, Parsing, Handled
<1>7. CASE ReturnInstruction
  BY <1>7, <1>2, <1>3 DEF ReturnInstruction, Parsing, Handled
<1>8. CASE ParseFails \/ ReadFails \/ WriteFails
  BY <1>8, <1>4 DEF ParseFails, ReadFails, WriteFails
<1>9. CASE Receive
  BY <1>9, <1>3 DEF Receive, Read, Handled
<1>10. CASE AnswerArgs
  <2>1. CASE phase' = "ended"
    BY <1>10, <2>1, <1>4 DEF AnswerArgs
  <2>2. CASE phase' # "ended"
    BY <1>1, <1>2, <1>10, <2>2 DEF AnswerArgs, InPhase, Handled, RelayedInOrder
  <2> QED
    BY <2>1, <2>2
<1>11. CASE TakeReady
  <2>1. CASE phase' = "ended"
    BY <1>11, <2>1, <1>4 DEF TakeReady
  <2>2. CASE phase' # "ended"
    <3>1. /\ phase = "ready" /\ step = "take" /\ phase' = "relay" /\ step' = "parse"
          /\ UNCHANGED <<stream, relayed, buf, taken>>
      BY <1>11, <2>2 DEF TakeReady
    <3>2. taken = 2 /\ Handled' = 2
      BY <1>2, <3>1 DEF InPhase, Handled
    <3>3. RelayedInOrder'
      <4>1. FlattenSeq([k \in 1 .. 2 - 2 |-> Passed(stream'[k + 2])]) = <<>>
        BY DEF FlattenSeq
      <4>2. relayed' \o buf' = <<>>
        BY <3>1
      <4> QED
        BY <3>2, <4>1, <4>2 DEF RelayedInOrder
    <3> QED
      BY <1>1, <3>1, <3>2, <3>3 DEF InPhase
  <2> QED
    BY <2>1, <2>2
<1>12. ASSUME phase = "relay", step = "take", step' = "parse", phase' = phase,
             UNCHANGED <<stream, taken>>, relayed' \in Seq(Byte), buf' \in Seq(Byte),
             relayed' \o buf' = (relayed \o buf) \o Passed(Returned)
      PROVE  RelayInv'
  <2>1. relayed' \o buf' \in Seq(Byte)
    BY <1>12, ConcatProperties
  <2>2. relayed' \o buf' = FlattenSeq(Passing(stream, taken - 2))
    BY <1>12, <2>1, HandlesOne
  <2>3. Handled' = taken /\ Handled = taken - 1
    BY <1>12 DEF Handled
  <2>4. RelayedInOrder'
    BY <1>12, <2>2, <2>3 DEF RelayedInOrder, Passing, Passed, Kept
  <2>5. InPhase'
    BY <1>2, <1>12, <2>3 DEF InPhase
  <2> QED
    BY <1>1, <1>12, <2>4, <2>5
<1>13. CASE KeepInstruction
  <2>1. Passed(Returned) = <<>>
    BY <1>13 DEF KeepInstruction, Passed
  <2>2. relayed \o buf \in Seq(Byte)
    BY ConcatProperties
  <2>3. relayed \o buf = (relayed \o buf) \o Passed(Returned)
    BY <2>1, <2>2, ConcatEmptySeq
  <2> QED
    BY <1>12, <1>13, <2>3 DEF KeepInstruction
<1>14. CASE Forward
  <2>1. PICK r : r = Returned
    OBVIOUS
  <2>2. r \in Seq(Byte)
    BY <1>14, <2>1, ReturnedIs DEF Forward
  <2>3. Passed(Returned) = r
    BY <1>14, <2>1 DEF Forward, Passed
  <2>4. PICK b : b = buf \o r
    OBVIOUS
  <2>5. b \in Seq(Byte) /\ relayed \o b = (relayed \o buf) \o r
    <3>1. relayed \in Seq(Byte) /\ buf \in Seq(Byte)
      OBVIOUS
    <3>2. b \in Seq(Byte)
      BY <2>2, <2>4, <3>1, ConcatProperties
    <3>3. (relayed \o buf) \o r = relayed \o (buf \o r)
      BY <2>2, <3>1, ConcatAssociative, SMTT(30)
    <3> QED
      BY <2>4, <3>2, <3>3, Zenon
  <2>6. \/ relayed' = relayed \o b /\ buf' = <<>>
        \/ relayed' = relayed /\ buf' = b
    BY <1>14, <2>1, <2>4 DEF Forward
  <2>7. /\ relayed' \in Seq(Byte) /\ buf' \in Seq(Byte)
        /\ relayed' \o buf' = relayed \o b
    <3>1. relayed \o b \in Seq(Byte)
      BY <2>5, ConcatProperties
    <3>2. (relayed \o b) \o <<>> = relayed \o b
      BY <3>1, ConcatEmptySeq
    <3>3. <<>> \in Seq(Byte)
      OBVIOUS
    <3>4. CASE relayed' = relayed \o b /\ buf' = <<>>
      BY <3>1, <3>2, <3>3, <3>4, Zenon
    <3>5. CASE relayed' = relayed /\ buf' = b
      BY <2>5, <3>5
    <3> QED
      BY <2>6, <3>4, <3>5
  <2> QED
    BY <1>12, <1>14, <2>3, <2>5, <2>7 DEF Forward
<1>15. CASE Ended \/ UNCHANGED vars
  BY <1>15, <1>3 DEF Ended, Handled
<1> QED
  BY <1>5, <1>6, <1>7, <1>8, <1>9, <1>10, <1>11, <1>13, <1>14, <1>15
  DEF Next, Progress, ReadSome, Caller

(* The invariant of guacdToWs: with it, how many instructions each phase of *)
(* the handshake has taken.                                                 *)
THEOREM RelayCorrect ==
  ASSUME PlainStreams
  PROVE  Spec => []RelayInv
<1>1. Init => RelayInv
  BY RelayInit
<1>2. RelayInv /\ [Next]_vars => RelayInv'
  BY RelayStep
<1> QED
  BY <1>1, <1>2, PTL DEF Spec

-----------------------------------------------------------------------------
(* The partial results of ElementStarts. *)
StartsTo(data, n, f) ==
    /\ f = [k \in 1 .. n |-> f[k]]
    /\ f[1] = 1
    /\ \A k \in 1 .. n - 1 : f[k + 1] = Terminator(data, f[k]) + 1

(* There are such results. *)
LEMMA StartsExist ==
  ASSUME NEW data, NEW n \in Nat
  PROVE  \E f : StartsTo(data, n + 1, f)
<1> DEFINE T == {m \in Nat : \E f : StartsTo(data, m + 1, f)}
<1>1. 0 \in T
  <2> DEFINE f == [k \in 1 .. 0 + 1 |-> 1]
  <2>1. StartsTo(data, 0 + 1, f)
    BY DEF StartsTo
  <2> QED
    BY <2>1
<1>2. ASSUME NEW m \in Nat, m \in T PROVE m + 1 \in T
  <2>1. PICK f : StartsTo(data, m + 1, f)
    BY <1>2
  <2>2. PICK q : q = Terminator(data, f[m + 1]) + 1
    OBVIOUS
  <2> DEFINE g == [k \in 1 .. (m + 1) + 1 |-> IF k = m + 2 THEN q ELSE f[k]]
  <2>3. /\ \A k \in 1 .. m + 1 : g[k] = f[k]
        /\ g[m + 2] = q
        /\ g = [k \in 1 .. (m + 1) + 1 |-> g[k]]
    OBVIOUS
  <2> HIDE DEF g
  <2>4. ASSUME NEW k \in 1 .. ((m + 1) + 1) - 1 PROVE g[k + 1] = Terminator(data, g[k]) + 1
    <3>1. CASE k = m + 1
      <4>1. k + 1 = m + 2 /\ k \in 1 .. m + 1
        BY <3>1
      <4>2. g[k] = f[m + 1]
        BY <2>3, <3>1, <4>1
      <4> QED
        BY <2>2, <2>3, <4>1, <4>2
    <3>2. CASE k # m + 1
      <4>1. k \in 1 .. (m + 1) - 1 /\ k \in 1 .. m + 1 /\ k + 1 \in 1 .. m + 1
        BY <3>2
      <4>2. f[k + 1] = Terminator(data, f[k]) + 1
        BY <2>1, <4>1, Zenon DEF StartsTo
      <4> QED
        BY <2>3, <4>1, <4>2
    <3> QED
      BY <3>1, <3>2
  <2>5. g[1] = 1
    <3>1. f[1] = 1
      BY <2>1, Zenon DEF StartsTo
    <3>2. 1 \in 1 .. m + 1
      OBVIOUS
    <3> QED
      BY <2>3, <3>1, <3>2, Zenon
  <2>6. StartsTo(data, (m + 1) + 1, g)
    BY <2>3, <2>4, <2>5, Zenon DEF StartsTo
  <2> QED
    BY <2>6
<1> HIDE DEF T
<1>3. n \in T
  BY <1>1, <1>2, Induction
<1> QED
  BY <1>3 DEF T

(* Each element starts behind the terminator of the one before. *)
LEMMA StartsAre ==
  ASSUME NEW data, Len(data) \in Nat, Len(data) > 0
  PROVE  /\ ElementStarts(data)[1] = 1
         /\ \A k \in 1 .. Len(data) - 1 :
               ElementStarts(data)[k + 1] = Terminator(data, ElementStarts(data)[k]) + 1
<1>1. PICK n : n = Len(data)
  OBVIOUS
<1>2. n \in Nat /\ n - 1 \in Nat /\ (n - 1) + 1 = n
  BY <1>1
<1>3. PICK g : StartsTo(data, n, g)
  BY <1>2, StartsExist
<1> DEFINE v == CHOOSE f : f = [k \in 1 .. Len(data) |->
                                  IF k = 1 THEN 1 ELSE Terminator(data, f[k - 1]) + 1]
<1>4. ElementStarts(data) = v
  BY DEF ElementStarts
<1>5. ASSUME NEW k \in 1 .. Len(data)
      PROVE  g[k] = IF k = 1 THEN 1 ELSE Terminator(data, g[k - 1]) + 1
  <2>1. CASE k = 1
    BY <1>3, <2>1 DEF StartsTo
  <2>2. CASE k # 1
    <3>1. PICK j : j = k - 1
      OBVIOUS
    <3>2. j \in 1 .. n - 1 /\ j + 1 = k
      BY <1>1, <1>2, <2>2, <3>1
    <3>3. g[j + 1] = Terminator(data, g[j]) + 1
      BY <1>3, <3>2, Zenon DEF StartsTo
    <3> QED
      BY <2>2, <3>1, <3>2, <3>3
  <2> QED
    BY <2>1, <2>2
<1>6. g = [k \in 1 .. Len(data) |-> IF k = 1 THEN 1 ELSE Terminator(data, g[k - 1]) + 1]
  <2>1. g = [k \in 1 .. Len(data) |-> g[k]]
    BY <1>1, <1>3, Zenon DEF StartsTo
  <2> QED
    BY <1>5, <2>1
<1>7. v = [k \in 1 .. Len(data) |-> IF k = 1 THEN 1 ELSE Terminator(data, v[k - 1]) + 1]
  BY <1>6
<1> HIDE DEF v
<1>8. v[1] = 1
  BY <1>7
<1>9. ASSUME NEW k \in 1 .. Len(data) - 1 PROVE v[k + 1] = Terminator(data, v[k]) + 1
  <2>1. PICK j : j = k + 1
    OBVIOUS
  <2>2. j \in 1 .. Len(data) /\ j # 1 /\ j - 1 = k
    BY <2>1
  <2>3. v[j] = Terminator(data, v[j - 1]) + 1
    BY <1>7, <2>2
  <2> QED
    BY <2>1, <2>2, <2>3
<1> QED
  BY <1>4, <1>8, <1>9

-----------------------------------------------------------------------------
(* An element as String writes it, with d digits and a length of l. *)
IsElement(w, d, l, x, t) ==
    /\ d \in {1, 2} /\ l \in Nat
    /\ Len(w) = d + l + 2
    /\ \A k \in 1 .. d : w[k] \in Digit
    /\ w[d + 1] = Dot
    /\ \A k \in 1 .. l : w[d + 1 + k] = x[k]
    /\ w[d + l + 2] = t
    /\ Number(w, 1, d + 1) = l

Plainly == Byte \ {Lead}

(* Decimal and Number: the length that is written is the one that is read. *)
LEMMA WrittenElement ==
  ASSUME NEW x \in Seq(Plainly), Len(x) < 100, NEW t \in Plainly,
         NEW w, w = Decimal(Len(x)) \o <<Dot>> \o x \o <<t>>
  PROVE  /\ w \in Seq(Plainly)
         /\ \E d \in {1, 2} : IsElement(w, d, Len(x), x, t)
<1>1. PICK l : l = Len(x)
  OBVIOUS
<1>2. l \in Nat /\ l < 100
  BY <1>1
<1>3. PICK c : c = Decimal(l)
  OBVIOUS
<1>4. PICK d : d = Len(c)
  OBVIOUS
<1>5. /\ c \in Seq(Plainly) /\ d \in {1, 2} /\ \A k \in 1 .. d : c[k] \in Digit
      /\ d = 1 => c[1] = l
      /\ d = 2 => c[1] * 10 + c[2] = l
  <2>1. CASE l < 10
    <3>1. c = <<l>>
      BY <1>3, <2>1 DEF Decimal
    <3>2. l \in Digit /\ l \in Plainly
      BY <1>2, <2>1 DEF Digit, Plainly, Byte, Lead
    <3> QED
      BY <1>4, <3>1, <3>2
  <2>2. CASE ~(l < 10)
    <3>1. c = <<l \div 10, l % 10>>
      BY <1>3, <2>2 DEF Decimal
    <3>2. PICK a, b : a = l \div 10 /\ b = l % 10
      OBVIOUS
    <3>3. a \in 0 .. 9 /\ b \in 0 .. 9 /\ a * 10 + b = l
      BY <1>2, <3>2
    <3>4. a \in Digit /\ b \in Digit /\ a \in Plainly /\ b \in Plainly
      BY <3>3 DEF Digit, Plainly, Byte, Lead
    <3>5. c = <<a, b>>
      BY <3>1, <3>2
    <3> QED
      BY <1>4, <3>3, <3>4, <3>5
  <2> QED
    BY <2>1, <2>2
<1>6. PICK u : u = c \o <<Dot>>
  OBVIOUS
<1>7. PICK y : y = u \o x
  OBVIOUS
<1>8. <<Dot>> \in Seq(Plainly) /\ <<t>> \in Seq(Plainly) /\ Len(<<Dot>>) = 1 /\ Len(<<t>>) = 1
      /\ <<Dot>>[1] = Dot /\ <<t>>[1] = t
  BY DEF Plainly, Dot, Lead, Byte
<1>9. /\ u \in Seq(Plainly) /\ Len(u) = d + 1
      /\ \A k \in 1 .. d : u[k] = c[k]
      /\ u[d + 1] = Dot
  BY <1>4, <1>5, <1>6, <1>8, Concat
<1>10. /\ y \in Seq(Plainly) /\ Len(y) = d + 1 + l
       /\ \A k \in 1 .. d + 1 : y[k] = u[k]
       /\ \A k \in 1 .. l : y[d + 1 + k] = x[k]
  <2>1. /\ y \in Seq(Plainly) /\ Len(y) = Len(u) + Len(x)
        /\ \A k \in 1 .. Len(u) : y[k] = u[k]
        /\ \A k \in 1 .. Len(x) : y[Len(u) + k] = x[k]
    <3>1. u \in Seq(Plainly)
      BY <1>9
    <3> QED
      BY <1>7, <3>1, Concat
  <2> QED
    BY <1>1, <1>9, <2>1
<1>11. w = y \o <<t>>
  BY <1>1, <1>3, <1>6, <1>7
<1>12. /\ w \in Seq(Plainly) /\ Len(w) = d + 1 + l + 1
       /\ \A k \in 1 .. d + 1 + l : w[k] = y[k]
       /\ w[d + 1 + l + 1] = t
  <2>1. PICK z : z = <<t>>
    OBVIOUS
  <2>2. z \in Seq(Plainly) /\ Len(z) = 1 /\ z[1] = t /\ 1 \in 1 .. Len(z)
    BY <1>8, <2>1
  <2>3. /\ w \in Seq(Plainly) /\ Len(w) = Len(y) + Len(z)
        /\ \A k \in 1 .. Len(y) : w[k] = y[k]
        /\ \A k \in 1 .. Len(z) : w[Len(y) + k] = z[k]
    <3>1. y \in Seq(Plainly) /\ z \in Seq(Plainly) /\ w = y \o z
      BY <1>10, <1>11, <2>1, <2>2
    <3>2. PICK v : v = y \o z
      OBVIOUS
    <3>3. /\ v \in Seq(Plainly) /\ Len(v) = Len(y) + Len(z)
          /\ \A k \in 1 .. Len(y) : v[k] = y[k]
          /\ \A k \in 1 .. Len(z) : v[Len(y) + k] = z[k]
      BY <3>1, <3>2, Concat
    <3> QED
      BY <3>1, <3>2, <3>3, Zenon
  <2> QED
    BY <1>10, <2>2, <2>3
<1>13. \A k \in 1 .. d : w[k] = c[k] /\ w[k] \in Digit
  <2>1. \A k \in 1 .. d : k \in 1 .. d + 1 /\ k \in 1 .. d + 1 + l
    BY <1>2, <1>5
  <2> QED
    BY <1>5, <1>9, <1>10, <1>12, <2>1
<1>14. w[d + 1] = Dot
  <2>1. d + 1 \in 1 .. d + 1 /\ d + 1 \in 1 .. d + 1 + l
    BY <1>2, <1>5
  <2> QED
    BY <1>9, <1>10, <1>12, <2>1
<1>15. \A k \in 1 .. l : w[d + 1 + k] = x[k]
  <2>1. \A k \in 1 .. l : d + 1 + k \in 1 .. d + 1 + l
    BY <1>2, <1>5
  <2> QED
    BY <1>10, <1>12, <2>1
<1>16. Number(w, 1, 1 + d) = l
  <2>1. CASE d = 1
    <3> DEFINE f == [k \in 1 .. 1 + 1 |-> IF k = 1 THEN 0 ELSE l]
    <3>1. w[1] = l
      BY <1>5, <1>13, <2>1
    <3>2. Values(w, 1, 1, f) /\ f[1 + 1] = l
      BY <1>2, <3>1 DEF Values
    <3> HIDE DEF f
    <3> QED
      BY <2>1, <3>2, NumberIs
  <2>2. CASE d = 2
    <3> DEFINE f == [k \in 1 .. 1 + 2 |-> IF k = 1 THEN 0 ELSE IF k = 2 THEN w[1] ELSE l]
    <3>1. w[1] * 10 + w[2] = l /\ w[1] \in Nat /\ w[2] \in Nat
      <4>1. w[1] = c[1] /\ w[2] = c[2] /\ c[1] \in Digit /\ c[2] \in Digit
        BY <1>5, <1>13, <2>2
      <4>2. c[1] * 10 + c[2] = l
        BY <1>5, <2>2
      <4>3. PICK a, b : a = c[1] /\ b = c[2]
        OBVIOUS
      <4>4. a * 10 + b = l /\ a \in Nat /\ b \in Nat
        <5>1. a \in 0 .. 9 /\ b \in 0 .. 9
          BY <4>1, <4>3, Zenon DEF Digit
        <5>2. a \in Nat /\ b \in Nat
          BY <5>1
        <5> QED
          BY <4>2, <4>3, <5>2, Zenon
      <4>5. w[1] = a /\ w[2] = b
        BY <4>1, <4>3
      <4> QED
        BY <4>4, <4>5, Zenon
    <3>2. Values(w, 1, 2, f) /\ f[1 + 2] = l
      BY <1>2, <3>1 DEF Values
    <3> HIDE DEF f
    <3> QED
      BY <2>2, <3>2, NumberIs
  <2> QED
    BY <1>5, <2>1, <2>2
<1>17. d + 1 + l + 1 = d + l + 2 /\ 1 + d = d + 1
  BY <1>2, <1>5
<1>18. IsElement(w, d, l, x, t)
  BY <1>2, <1>5, <1>12, <1>13, <1>14, <1>15, <1>16, <1>17 DEF IsElement
<1> QED
  BY <1>1, <1>5, <1>12, <1>18

(* Where Parse finds the parts of an element that is written behind h. *)
Behind(data, h, w) ==
    /\ h + Len(w) <= Len(data)
    /\ \A k \in 1 .. Len(w) : data[h + k] = w[k]

FoundBehind(data, h, w, d, x, t) ==
    /\ LengthEnd(data, h + 1) = h + 1 + d
    /\ Terminator(data, h + 1) = h + Len(w)
    /\ data[h + Len(w)] = t
    /\ SubSeq(data, h + 1 + d + 1, (h + Len(w)) - 1) = x

(* Parse finds a written element behind others where it was written. *)
LEMMA ElementParsed ==
  ASSUME NEW data \in Seq(Plainly), NEW w, NEW d, NEW l, NEW x \in Seq(Plainly), NEW t,
         IsElement(w, d, l, x, t), l = Len(x),
         NEW h \in Nat, Behind(data, h, w)
  PROVE  FoundBehind(data, h, w, d, x, t)
<1> USE DEF Behind
<1>1. /\ d \in Nat /\ d >= 1 /\ l \in Nat /\ Len(w) = d + l + 2 /\ Len(data) \in Nat
      /\ h + (d + l + 2) <= Len(data)
  BY DEF IsElement
<1>2. /\ \A k \in 1 .. d : w[k] \in Digit
      /\ w[d + 1] = Dot
      /\ \A k \in 1 .. l : w[d + 1 + k] = x[k]
      /\ w[d + l + 2] = t
      /\ Number(w, 1, d + 1) = l
  BY DEF IsElement
<1>3. \A k \in 1 .. d + l + 2 : data[h + k] = w[k]
  BY <1>1
<1>4. \A k \in 1 .. d : data[h + k] \in Digit /\ w[k] \in Digit
  <2>1. \A k \in 1 .. d : k \in 1 .. d + l + 2
    BY <1>1
  <2> QED
    BY <1>2, <1>3, <2>1, Zenon
<1>5. data[h + (d + 1)] = Dot
  BY <1>1, <1>2, <1>3
<1>6. LengthEnd(data, h + 1) = h + 1 + d
  <2> DEFINE Ends(e) == data[e] = Dot /\ \A k \in h + 1 .. e - 1 : data[k] # Dot
  <2>1. h + 1 + d \in h + 1 .. Len(data) /\ h + 1 + d = h + (d + 1)
    BY <1>1
  <2>2. ASSUME NEW k \in h + 1 .. h + d PROVE data[k] # Dot
    <3>1. PICK j : j = k - h
      OBVIOUS
    <3>2. j \in 1 .. d /\ k = h + j
      BY <1>1, <3>1
    <3> QED
      <4>1. data[h + j] \in Digit
        BY <1>4, <3>2
      <4>2. data[k] \in Digit
        BY <3>2, <4>1
      <4> QED
        BY <4>2 DEF Digit, Dot
  <2>3. \A e \in h + 1 .. Len(data) : Ends(e) => e = h + 1 + d
    <3> SUFFICES ASSUME NEW e \in h + 1 .. Len(data), Ends(e), e # h + 1 + d PROVE FALSE
      OBVIOUS
    <3>1. e \in h + 1 .. h + d \/ h + 1 + d \in h + 1 .. e - 1
      BY <1>1
    <3> QED
      BY <1>5, <2>1, <2>2, <3>1
  <2>4. Ends(h + 1 + d)
    <3>1. \A k \in h + 1 .. h + 1 + d - 1 : k \in h + 1 .. h + d
      BY <1>1
    <3> QED
      BY <1>1, <1>5, <2>1, <2>2, <3>1
  <2>5. LengthEnd(data, h + 1) = CHOOSE e \in h + 1 .. Len(data) : Ends(e)
    BY DEF LengthEnd
  <2> HIDE DEF Ends
  <2> QED
    BY <2>1, <2>3, <2>4, <2>5
<1>7. Number(data, h + 1, h + 1 + d) = l
  <2>1. Moved(w, data, 1, d + 1, h)
    <3> SUFFICES ASSUME NEW k \in 1 .. (d + 1) - 1 PROVE w[k] \in Nat /\ data[k + h] = w[k]
      BY DEF Moved
    <3>1. k \in 1 .. d /\ k \in 1 .. d + l + 2 /\ k + h = h + k
      BY <1>1
    <3> QED
      <4>1. w[k] \in Digit /\ data[h + k] = w[k]
        BY <1>3, <1>4, <3>1
      <4>2. w[k] \in Nat
        BY <4>1 DEF Digit
      <4> QED
        BY <3>1, <4>1, <4>2
  <2>2. d + 1 \in Nat /\ 1 \in Nat /\ 1 <= d + 1 /\ h \in Int /\ 1 + h \in Nat
    BY <1>1
  <2>3. Number(data, 1 + h, (d + 1) + h) = Number(w, 1, d + 1)
    BY <2>1, <2>2, NumberMoved
  <2>4. 1 + h = h + 1 /\ (d + 1) + h = h + 1 + d
    BY <1>1
  <2> QED
    BY <1>2, <2>3, <2>4
<1>8. RunesEnd(data, h + 1 + d + 1, Len(data), l) = h + 1 + d + 1 + l
  <2>1. \A k \in 1 .. Len(data) : data[k] # Lead
    BY DEF Plainly
  <2>2. h + 1 + d + 1 \in Nat /\ h + 1 + d + 1 + l <= Len(data)
    BY <1>1
  <2>3. PICK p, hi : p = h + 1 + d + 1 /\ hi = Len(data)
    OBVIOUS
  <2>4. p \in Nat /\ hi \in Nat /\ p + l <= hi /\ \A k \in 1 .. hi : data[k] # Lead
    BY <1>1, <2>1, <2>2, <2>3
  <2>5. RunesEnd(data, p, hi, l) = p + l
    <3>1. l \in Nat
      BY <1>1
    <3> QED
      BY <2>4, <3>1, RunesEndIs
  <2> QED
    BY <2>3, <2>5, Zenon
<1>9. Terminator(data, h + 1) = h + (d + l + 2)
  <2>1. h + 1 + d + 1 + l = h + (d + l + 2)
    BY <1>1
  <2> QED
    BY <1>6, <1>7, <1>8, <2>1 DEF Terminator
<1>10. data[h + (d + l + 2)] = t
  BY <1>1, <1>2, <1>3
<1>11. SubSeq(data, h + 1 + d + 1, (h + (d + l + 2)) - 1) = x
  <2>1. PICK m, n : m = h + 1 + d + 1 /\ n = (h + (d + l + 2)) - 1
    OBVIOUS
  <2>2. m \in Int /\ n \in Int /\ n - m + 1 = l /\ m \in 1 .. Len(data) + 1 /\ n <= Len(data)
    BY <1>1, <2>1
  <2>3. \A i \in m .. n : data[i] \in Plainly
    BY <2>2
  <2>4. PICK z : z = SubSeq(data, m, n)
    OBVIOUS
  <2>5. /\ z \in Seq(Plainly)
        /\ Len(z) = IF m <= n THEN n - m + 1 ELSE 0
        /\ \A i \in 1 .. n - m + 1 : z[i] = data[m + i - 1]
    BY <2>2, <2>3, <2>4, SubSeqProperties
  <2>6. Len(z) = l
    BY <1>1, <2>2, <2>5
  <2>7. ASSUME NEW i \in 1 .. l PROVE z[i] = x[i]
    <3>1. m + i - 1 = h + (d + 1 + i) /\ d + 1 + i \in 1 .. d + l + 2
      BY <1>1, <2>1
    <3>2. data[h + (d + 1 + i)] = x[i]
      BY <1>2, <1>3, <3>1
    <3> QED
      BY <2>2, <2>5, <3>1, <3>2
  <2>8. z = x
    BY <2>5, <2>6, <2>7
  <2> QED
    BY <2>1, <2>4, <2>8
<1> QED
  BY <1>1, <1>6, <1>9, <1>10, <1>11 DEF FoundBehind

-----------------------------------------------------------------------------
WrittenPiece(e, k) ==
    Decimal(Len(e[k])) \o <<Dot>> \o e[k] \o <<IF k = Len(e) THEN Semicolon ELSE Comma>>

(* String writes such elements one after the other. *)
LEMMA WrittenPieces ==
  ASSUME NEW e, Writable(e)
  PROVE  \E W \in Seq(Seq(Plainly)) :
            /\ Len(W) = Len(e)
            /\ String(e) = FlattenSeq(W)
            /\ \A k \in 1 .. Len(e) : \E d \in {1, 2} :
                  IsElement(W[k], d, Len(e[k]), e[k], IF k = Len(e) THEN Semicolon ELSE Comma)
<1>1. PICK W : W = [k \in DOMAIN e |-> WrittenPiece(e, k)]
  OBVIOUS
<1>2. DOMAIN e = 1 .. Len(e) /\ Len(e) \in Nat
  BY DEF Writable, Plainly
<1>3. ASSUME NEW k \in 1 .. Len(e)
      PROVE  /\ W[k] \in Seq(Plainly)
             /\ \E d \in {1, 2} :
                  IsElement(W[k], d, Len(e[k]), e[k], IF k = Len(e) THEN Semicolon ELSE Comma)
  <2>1. PICK x, t, w : /\ x = e[k] /\ w = W[k]
                       /\ t = IF k = Len(e) THEN Semicolon ELSE Comma
    OBVIOUS
  <2>2. x \in Seq(Plainly) /\ Len(x) < 100 /\ t \in Plainly
    BY <1>3, <2>1 DEF Writable, Plainly, Semicolon, Comma, Lead, Byte
  <2>3. w = Decimal(Len(x)) \o <<Dot>> \o x \o <<t>>
    BY <1>1, <1>2, <2>1, Zenon DEF WrittenPiece
  <2>4. w \in Seq(Plainly) /\ \E d \in {1, 2} : IsElement(w, d, Len(x), x, t)
    BY <2>2, <2>3, WrittenElement
  <2> QED
    BY <2>1, <2>4
<1>4. W \in Seq(Seq(Plainly)) /\ Len(W) = Len(e)
  <2>1. PICK n : n = Len(e)
    OBVIOUS
  <2>2. n \in Nat /\ W = [k \in 1 .. n |-> WrittenPiece(e, k)]
    BY <1>1, <1>2, <2>1
  <2>3. \A k \in 1 .. n : W[k] \in Seq(Plainly)
    BY <1>3, <2>1
  <2>4. W \in [1 .. n -> Seq(Plainly)]
    BY <2>2, <2>3
  <2> QED
    BY <2>1, <2>2, <2>4
<1>5. String(e) = FlattenSeq(W)
  BY <1>1 DEF String, WrittenPiece
<1> QED
  BY <1>3, <1>4, <1>5

(* Parse undoes String. *)
LEMMA ParseWritten ==
  ASSUME NEW e, Writable(e)
  PROVE  Parse(String(e)) = e
<1>1. PICK data, N : data = String(e) /\ N = Len(e)
  OBVIOUS
<1>2. N \in Nat /\ N > 0 /\ e \in Seq(Seq(Plainly)) /\ \A k \in 1 .. N : e[k] \in Seq(Plainly)
  BY <1>1 DEF Writable, Plainly
<1>3. PICK W \in Seq(Seq(Plainly)) :
         /\ Len(W) = N
         /\ data = FlattenSeq(W)
         /\ \A k \in 1 .. N : \E d \in {1, 2} :
               IsElement(W[k], d, Len(e[k]), e[k], IF k = N THEN Semicolon ELSE Comma)
  BY <1>1, WrittenPieces
<1> DEFINE At(n) == Len(FlattenSeq(SubSeq(W, 1, n)))
<1>4. /\ data \in Seq(Plainly) /\ Len(data) \in Nat
      /\ At(0) = 0
      /\ \A n \in 0 .. N : At(n) \in Nat
      /\ \A n \in 0 .. N - 1 :
            /\ At(n + 1) = At(n) + Len(W[n + 1])
            /\ At(n + 1) <= Len(data)
            /\ \A k \in 1 .. Len(W[n + 1]) : data[At(n) + k] = W[n + 1][k]
  <2>1. /\ FlattenSeq(W) \in Seq(Plainly)
        /\ At(0) = 0
        /\ \A n \in 0 .. Len(W) : At(n) \in Nat
        /\ \A n \in 0 .. Len(W) - 1 :
              /\ At(n + 1) = At(n) + Len(W[n + 1])
              /\ At(n + 1) <= Len(FlattenSeq(W))
              /\ \A k \in 1 .. Len(W[n + 1]) : FlattenSeq(W)[At(n) + k] = W[n + 1][k]
    BY Pieces
  <2> HIDE DEF At
  <2>2. Len(W) = N /\ data = FlattenSeq(W)
    BY <1>3
  <2>3. Len(data) \in Nat
    BY <2>1, <2>2
  <2> QED
    BY <2>1, <2>2, <2>3, Zenon
<1> HIDE DEF At
<1> DEFINE start == ElementStarts(data)
           Ends(k) == data[Terminator(data, start[k])] = Semicolon
           Parts(h, k) ==
              \E d \in {1, 2} :
                 /\ LengthEnd(data, h + 1) = h + 1 + d
                 /\ SubSeq(data, h + 1 + d + 1, At(k) - 1) = e[k]
<1>5. ASSUME NEW n \in 0 .. N - 1
      PROVE  /\ Terminator(data, At(n) + 1) = At(n + 1)
             /\ data[At(n + 1)] = IF n + 1 = N THEN Semicolon ELSE Comma
             /\ Parts(At(n), n + 1)
             /\ At(n + 1) >= At(n) + 3
  <2>1. PICK k, h : k = n + 1 /\ h = At(n)
    OBVIOUS
  <2>2. k \in 1 .. N /\ h \in Nat /\ At(k) = h + Len(W[k]) /\ At(k) <= Len(data)
        /\ \A j \in 1 .. Len(W[k]) : data[h + j] = W[k][j]
    <3>1. n \in 0 .. N /\ n + 1 \in 1 .. N
      BY <1>2
    <3>2. /\ At(n) \in Nat /\ At(n + 1) = At(n) + Len(W[n + 1]) /\ At(n + 1) <= Len(data)
          /\ \A j \in 1 .. Len(W[n + 1]) : data[At(n) + j] = W[n + 1][j]
      BY <1>4, <3>1, Zenon
    <3> QED
      BY <2>1, <3>1, <3>2, Zenon
  <2>3. PICK w, x, t : /\ w = W[k] /\ x = e[k]
                       /\ t = IF k = N THEN Semicolon ELSE Comma
    OBVIOUS
  <2>4. PICK d \in {1, 2} : IsElement(w, d, Len(x), x, t)
    BY <1>3, <2>2, <2>3
  <2>5. x \in Seq(Plainly)
    BY <1>2, <2>2, <2>3
  <2>6. PICK l : l = Len(x)
    OBVIOUS
  <2>7. IsElement(w, d, l, x, t) /\ Behind(data, h, w)
    BY <2>2, <2>3, <2>4, <2>6 DEF Behind
  <2>8. /\ LengthEnd(data, h + 1) = h + 1 + d
        /\ Terminator(data, h + 1) = h + Len(w)
        /\ data[h + Len(w)] = t
        /\ SubSeq(data, h + 1 + d + 1, (h + Len(w)) - 1) = x
    <3>1. data \in Seq(Plainly) /\ h \in Nat
      BY <1>4, <2>2
    <3>2. FoundBehind(data, h, w, d, x, t)
      BY <2>5, <2>6, <2>7, <3>1, ElementParsed
    <3> QED
      BY <3>2 DEF FoundBehind
  <2>9. h + Len(w) = At(k) /\ Len(w) >= 3
    BY <2>2, <2>3, <2>7 DEF IsElement
  <2>10. Parts(h, k)
    BY <2>3, <2>8, <2>9
  <2>11. At(k) >= h + 3
    BY <2>2, <2>3, <2>9
  <2>12. Terminator(data, h + 1) = At(k) /\ data[At(k)] = IF k = N THEN Semicolon ELSE Comma
    BY <2>3, <2>8, <2>9
  <2> QED
    BY <2>1, <2>10, <2>11, <2>12, Zenon
<1> HIDE DEF Parts
<1>6. Len(data) > 0
  <2>1. 0 \in 0 .. N - 1 /\ 0 + 1 = 1 /\ 1 \in 0 .. N
    BY <1>2
  <2> QED
    BY <1>4, <1>5, <2>1
<1>7. /\ start[1] = 1
      /\ \A k \in 1 .. Len(data) - 1 : start[k + 1] = Terminator(data, start[k]) + 1
  BY <1>4, <1>6, StartsAre
<1> HIDE DEF start
<1>8. ASSUME NEW n \in 0 .. N - 1 PROVE start[n + 1] = At(n) + 1 /\ At(n) >= n
  <2> DEFINE T == {m \in Nat : m <= N - 1 => start[m + 1] = At(m) + 1 /\ At(m) >= m}
  <2>1. 0 \in T
    BY <1>4, <1>7
  <2>2. ASSUME NEW m \in Nat, m \in T PROVE m + 1 \in T
    <3> SUFFICES ASSUME m + 1 <= N - 1
                 PROVE  start[m + 1 + 1] = At(m + 1) + 1 /\ At(m + 1) >= m + 1
      OBVIOUS
    <3>1. m \in 0 .. N - 1 /\ m + 1 \in 0 .. N - 1 /\ m \in 0 .. N /\ m + 1 \in 0 .. N
      BY <1>2
    <3>2. start[m + 1] = At(m) + 1 /\ At(m) >= m
      BY <2>2, <3>1
    <3>3. /\ Terminator(data, At(m) + 1) = At(m + 1) /\ At(m + 1) >= At(m) + 3
          /\ At(m + 1) <= Len(data) /\ At(m) \in Nat /\ At(m + 1) \in Nat
      BY <1>4, <1>5, <3>1
    <3>4. m + 1 \in 1 .. Len(data) - 1
      BY <1>4, <3>2, <3>3
    <3>5. start[m + 1 + 1] = Terminator(data, start[m + 1]) + 1
      BY <1>7, <3>4
    <3> QED
      BY <3>2, <3>3, <3>5
  <2> HIDE DEF T
  <2>3. n \in T
    BY <2>1, <2>2, Induction
  <2> QED
    BY <1>2, <2>3 DEF T
<1>9. ASSUME NEW k \in 1 .. N
      PROVE  /\ \E d \in {1, 2} :
                  /\ LengthEnd(data, start[k]) = start[k] + d
                  /\ SubSeq(data, start[k] + d + 1, Terminator(data, start[k]) - 1) = e[k]
             /\ start[k] \in Nat
             /\ Ends(k) <=> k = N
  <2>1. PICK n : n = k - 1
    OBVIOUS
  <2>2. n \in 0 .. N - 1 /\ n + 1 = k /\ n \in 0 .. N
    BY <1>2, <2>1
  <2>3. PICK h : h = At(n)
    OBVIOUS
  <2>4. h \in Nat /\ start[k] = h + 1 /\ Terminator(data, h + 1) = At(k) /\ Parts(h, k)
        /\ data[At(k)] = IF k = N THEN Semicolon ELSE Comma
    BY <1>4, <1>5, <1>8, <2>2, <2>3
  <2>5. PICK d \in {1, 2} :
                 /\ LengthEnd(data, h + 1) = h + 1 + d
                 /\ SubSeq(data, h + 1 + d + 1, At(k) - 1) = e[k]
    BY <2>4 DEF Parts
  <2>6. Ends(k) <=> k = N
    BY <2>4 DEF Semicolon, Comma
  <2>7. /\ LengthEnd(data, start[k]) = start[k] + d
        /\ SubSeq(data, start[k] + d + 1, Terminator(data, start[k]) - 1) = e[k]
    BY <2>4, <2>5
  <2> QED
    BY <2>4, <2>6, <2>7
<1>10. N \in 1 .. Len(data)
  <2>1. N - 1 \in 0 .. N - 1 /\ N - 1 + 1 = N /\ N - 1 \in 0 .. N /\ N \in 0 .. N
    BY <1>2
  <2>2. At(N - 1) >= N - 1 /\ At(N - 1 + 1) >= At(N - 1) + 3 /\ At(N - 1 + 1) <= Len(data)
    BY <1>4, <1>5, <1>8, <2>1
  <2>3. At(N - 1) \in Nat /\ At(N) \in Nat
    BY <1>4, <2>1
  <2> QED
    BY <1>2, <1>4, <2>1, <2>2, <2>3
<1> DEFINE n == CHOOSE k \in 1 .. Len(data) : Ends(k) /\ \A j \in 1 .. k - 1 : ~Ends(j)
<1>11. n = N
  <2> HIDE DEF Ends
  <2>1. Ends(N) /\ \A j \in 1 .. N - 1 : ~Ends(j)
    BY <1>2, <1>9
  <2>2. \A k \in 1 .. Len(data) : (Ends(k) /\ \A j \in 1 .. k - 1 : ~Ends(j)) => k = N
    <3> SUFFICES ASSUME NEW k \in 1 .. Len(data), Ends(k), \A j \in 1 .. k - 1 : ~Ends(j),
                        k # N
                 PROVE  FALSE
      OBVIOUS
    <3>1. k \in 1 .. N - 1 \/ N \in 1 .. k - 1
      BY <1>2, <1>10
    <3> QED
      BY <2>1, <3>1
  <2> QED
    BY <1>10, <2>1, <2>2
<1>12. Parse(data) = IF \E k \in 1 .. n : LengthEnd(data, start[k]) = start[k] THEN <<>>
                     ELSE [k \in 1 .. n |-> SubSeq(data, LengthEnd(data, start[k]) + 1,
                                                         Terminator(data, start[k]) - 1)]
  BY DEF Parse, start
<1> HIDE DEF n, Ends
<1>13. \A k \in 1 .. N : /\ LengthEnd(data, start[k]) # start[k]
                         /\ SubSeq(data, LengthEnd(data, start[k]) + 1,
                                         Terminator(data, start[k]) - 1) = e[k]
  <2> SUFFICES ASSUME NEW k \in 1 .. N
               PROVE  /\ LengthEnd(data, start[k]) # start[k]
                      /\ SubSeq(data, LengthEnd(data, start[k]) + 1,
                                         Terminator(data, start[k]) - 1) = e[k]
    OBVIOUS
  <2>1. PICK d \in {1, 2} :
                  /\ LengthEnd(data, start[k]) = start[k] + d
                  /\ SubSeq(data, start[k] + d + 1, Terminator(data, start[k]) - 1) = e[k]
    BY <1>9
  <2>2. start[k] \in Nat
    BY <1>9
  <2> QED
    BY <2>1, <2>2
<1>14. Parse(data) = [k \in 1 .. N |-> e[k]]
  BY <1>11, <1>12, <1>13
<1>15. e = [k \in 1 .. N |-> e[k]]
  BY <1>1, <1>2
<1> QED
  BY <1>1, <1>14, <1>15

-----------------------------------------------------------------------------
(* The first two instructions are as Instruction.String writes them. *)
PlainGreetings ==
    \A s \in Streams : \A k \in {1, 2} \cap DOMAIN s :
       s[k] \notin Garbage => \E e : Encodes(s[k], e)

HandInv ==
    /\ RelayInv
    /\ phase \in {"ready", "relay"} => String(<<<<Args>>>> \o connect) = stream[1]
    /\ phase = "relay" => String(<<<<Ready>>, connectionID>>) = stream[2]

(* What the handshake parses. *)
LEMMA GreetingParsed ==
  ASSUME PlainGreetings, RelayInv, step = "take", phase \in {"args", "ready"}
  PROVE  /\ phase = "args" => taken = 1
         /\ phase = "ready" => taken = 2
         /\ Encodes(stream[taken], Parse(Returned))
<1>1. taken \in Nat /\ stream \in Streams /\ stream \in Seq(Seq(Byte))
  BY Layout DEF RelayInv, ReadInv, TypeOK
<1>2. (phase = "args" => taken = 1) /\ (phase = "ready" => taken = 2)
  BY <1>1 DEF RelayInv, InPhase, Handled
<1>3. Returned = stream[taken] /\ taken \in 1 .. Len(stream)
  BY ReturnedIs DEF RelayInv
<1>4. stream[taken] \notin Garbage
  BY DEF RelayInv, ReadInv, TakenExact
<1>5. taken \in {1, 2} \cap DOMAIN stream
  BY <1>1, <1>2, <1>3
<1>6. PICK e : Encodes(stream[taken], e)
  BY <1>1, <1>4, <1>5 DEF PlainGreetings
<1>7. Parse(String(e)) = e
  BY <1>6, ParseWritten DEF Encodes
<1>8. Parse(Returned) = e
  BY <1>3, <1>6, <1>7 DEF Encodes
<1> QED
  BY <1>2, <1>6, <1>8

(* Every step keeps what the handshake took. *)
LEMMA HandStep ==
  ASSUME PlainStreams, PlainGreetings, HandInv, [Next]_vars
  PROVE  HandInv'
<1> USE DEF HandInv
<1>1. RelayInv'
  BY RelayStep
<1>2. ASSUME UNCHANGED <<stream, connect, connectionID>>,
             phase' = phase \/ phase' \in {"args", "ended"}
      PROVE  HandInv'
  BY <1>1, <1>2
<1>3. CASE AnswerArgs
  <2>1. CASE HasOpcode(Parse(Returned), Args)
    <3>1. PICK e : e = Parse(Returned)
      OBVIOUS
    <3>2. /\ phase = "args" /\ step = "take" /\ e[1] = <<Args>>
          /\ connect' = Tail(e) /\ phase' = "ready" /\ stream' = stream
      BY <1>3, <2>1, <3>1 DEF AnswerArgs, HasOpcode
    <3>3. Encodes(stream[1], e)
      <4>1. taken = 1 /\ Encodes(stream[taken], Parse(Returned))
        BY <3>2, GreetingParsed
      <4> QED
        BY <3>1, <4>1
    <3>4. e \in Seq(Seq(Byte \ {Lead})) /\ Len(e) > 0
      BY <3>3 DEF Encodes, Writable
    <3>5. <<<<Args>>>> \o Tail(e) = e
      BY <3>2, <3>4
    <3> QED
      BY <1>1, <3>2, <3>3, <3>5 DEF Encodes
  <2>2. CASE ~HasOpcode(Parse(Returned), Args)
    BY <1>2, <1>3, <2>2 DEF AnswerArgs
  <2> QED
    BY <2>1, <2>2
<1>4. CASE TakeReady
  <2>1. CASE HasOpcode(Parse(Returned), Ready) /\ Len(Parse(Returned)) > 1
    <3>1. PICK e : e = Parse(Returned)
      OBVIOUS
    <3>2. /\ phase = "ready" /\ step = "take" /\ e[1] = <<Ready>> /\ Len(e) > 1
          /\ connectionID' = e[2] /\ phase' = "relay" /\ UNCHANGED <<stream, connect>>
      BY <1>4, <2>1, <3>1 DEF TakeReady, HasOpcode
    <3>3. Encodes(stream[2], e)
      <4>1. taken = 2 /\ Encodes(stream[taken], Parse(Returned))
        BY <3>2, GreetingParsed
      <4> QED
        BY <3>1, <4>1
    <3>4. e \in Seq(Seq(Byte \ {Lead})) /\ Len(e) = 2
      <4>1. e \in Seq(Seq(Byte \ {Lead})) /\ Len(e) <= 2
        BY <3>2, <3>3 DEF Encodes, Writable
      <4>2. Len(e) \in Nat /\ Len(e) > 1
        BY <3>2, <4>1
      <4>3. PICK n : n = Len(e)
        OBVIOUS
      <4>4. n = 2
        BY <4>1, <4>2, <4>3
      <4> QED
        BY <4>1, <4>3, <4>4
    <3>5. <<<<Ready>>, e[2]>> = e
      BY <3>2, <3>4
    <3> QED
      BY <1>1, <3>2, <3>3, <3>5 DEF Encodes
  <2>2. CASE ~(HasOpcode(Parse(Returned), Ready) /\ Len(Parse(Returned)) > 1)
    BY <1>2, <1>4, <2>2 DEF TakeReady
  <2> QED
    BY <2>1, <2>2
<1>5. CASE Select \/ KeepInstruction \/ Forward \/ ReadFails \/ WriteFails
  BY <1>2, <1>5 DEF Select, KeepInstruction, Forward, ReadFails, WriteFails
<1>6. CASE NextElement \/ ReturnInstruction \/ ParseFails \/ WaitForMore \/ Receive
  BY <1>2, <1>6 DEF NextElement, ReturnInstruction, ParseFails, WaitForMore, Receive, Read
<1>7. CASE Ended \/ UNCHANGED vars
  BY <1>2, <1>7 DEF Ended
<1> QED
  BY <1>3, <1>4, <1>5, <1>6, <1>7 DEF Next, Progress, ReadSome, Caller

-----------------------------------------------------------------------------
(* Every state of the stream is well typed: the buffer stays inside its     *)
(* array and parseStart inside the buffer, and no more instructions are     *)
(* returned than were sent.                                                 *)
THEOREM StreamTypeCorrect ==
  ASSUME PlainStreams
  PROVE  Spec => []TypeOK
<1>1. ReadInv => TypeOK
  BY DEF ReadInv
<1> QED
  BY <1>1, ReadSomeCorrect, PTL

(* The buffer is what has arrived and was not returned, wherever Flush and  *)
(* the reads put it.                                                        *)
THEOREM BufferMatches ==
  ASSUME PlainStreams
  PROVE  Spec => []WindowMatches
<1>1. ReadInv => WindowMatches
  BY DEF ReadInv
<1> QED
  BY <1>1, ReadSomeCorrect, PTL

(* ReadSome never returns a part of an instruction, or two for one, and     *)
(* fails only on what is none.                                              *)
THEOREM ReturnsWhole ==
  ASSUME PlainStreams
  PROVE  Spec => []WholeInstructions
<1>1. ReadInv => WholeInstructions
  BY DEF ReadInv, Consumed, BrokenOnGarbage, Piece, WholeInstructions
<1> QED
  BY <1>1, ReadSomeCorrect, PTL

(* conn.Read is never called with an empty slice. *)
THEOREM ReadsWithRoom ==
  ASSUME PlainStreams
  PROVE  Spec => []RoomToRead
<1>1. ReadInv => RoomToRead
  BY DEF ReadInv
<1> QED
  BY <1>1, ReadSomeCorrect, PTL

(* guacdToWs writes the instructions in order and once each. *)
THEOREM RelaysInOrder ==
  ASSUME PlainStreams
  PROVE  Spec => []RelayedInOrder
<1>1. RelayInv => RelayedInOrder
  BY DEF RelayInv
<1> QED
  BY <1>1, RelayCorrect, PTL

(* The handshake takes the answers to its own requests: what it parsed out  *)
(* of args and ready is, written again, what guacd sent.                    *)
THEOREM TakesItsAnswers ==
  ASSUME PlainStreams, PlainGreetings
  PROVE  Spec => []HandshakeExact
<1>1. Init => HandInv
  BY RelayInit DEF Init, HandInv
<1>2. HandInv /\ [Next]_vars => HandInv'
  BY HandStep
<1>3. HandInv => HandshakeExact
  BY DEF HandInv, HandshakeExact
<1> QED
  BY <1>1, <1>2, <1>3, PTL DEF Spec
=============================================================================
