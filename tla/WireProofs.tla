------------------------------ MODULE WireProofs ------------------------------
(***************************************************************************)
(* Theorems about Wire, for every size of the fields and every radix: the       *)
(* messages of fixed layouts, and the batches of them, arrive as they were sent;    *)
(* no part of one is taken for a whole; each has one encoding; answers stay in     *)
(* place; and scopes grant what they mean.                                      *)
(***************************************************************************)
EXTENDS Wire, SequenceTheorems, WellFoundedInduction, TLAPS

-----------------------------------------------------------------------------
(* Induction, and the folds.                                                   *)
LEMMA Induction ==
  ASSUME NEW S, 0 \in S, \A n \in Nat : n \in S => n + 1 \in S
  PROVE  Nat \subseteq S
<1> DEFINE T == {n \in Nat : n \notin S}
           R == OpToRel(<, Nat)
<1>1. IsWellFoundedOn(R, Nat)
  BY NatLessThanWellFounded
<1>2. ASSUME T # {}
      PROVE  FALSE
  <2>1. PICK n \in T : \A m \in T : ~ (<<m, n>> \in R)
    <3> HIDE DEF R
    <3>1. T \subseteq Nat
      OBVIOUS
    <3> HIDE DEF T
    <3> QED
      BY <1>1, <1>2, <3>1, WFMin
  <2>2. n # 0 /\ n \in Nat /\ n - 1 \in Nat
    OBVIOUS
  <2>3. <<n - 1, n>> \in R
    BY <2>2 DEF OpToRel
  <2>4. n - 1 \in S
    BY <2>1, <2>2, <2>3
  <2>5. (n - 1) + 1 = n
    BY <2>2
  <2> QED
    BY <2>2, <2>4, <2>5
<1> QED
  BY <1>2

(* The last number of those up to n + 1.                                        *)
LEMMA LargestOfInitial ==
  ASSUME NEW n \in Nat, NEW t \in SUBSET (1..(n + 1)), n + 1 \in t
  PROVE  Max(t) = n + 1 /\ t \ {n + 1} \in SUBSET (1..n)
<1>1. \A x \in t : x <= n + 1 /\ x \in Int
  OBVIOUS
<1>2. \A x \in t : (\A y \in t : x >= y) => x = n + 1
  BY <1>1
<1>3. \A y \in t : n + 1 >= y
  BY <1>1
<1>4. (CHOOSE x \in t : \A y \in t : x >= y) = n + 1
  BY <1>2, <1>3
<1>5. Max(t) = n + 1
  BY <1>4 DEF Max
<1>6. t \ {n + 1} \in SUBSET (1..n)
  <2>1. SUFFICES ASSUME NEW x \in t, x # n + 1
                 PROVE  x \in 1..n
    OBVIOUS
  <2>2. x \in 1..(n + 1)
    OBVIOUS
  <2> QED
    BY <2>1, <2>2
<1> QED
  BY <1>5, <1>6

(* What FoldLeft looks up for a number and for a reader.                           *)
NumberFold(f, s, n) ==
  f = [t \in SUBSET (1..n) |->
         IF t = {} THEN 0 ELSE LET x == Max(t) IN f[t \ {x}] * RADIX + s[x]]

(* That function exists, so that CHOOSE finds one.                              *)
LEMMA NumberFoldExists ==
  ASSUME NEW s, NEW n \in Nat
  PROVE  \E f : NumberFold(f, s, n)
<1> DEFINE S == {k \in Nat : \E f : NumberFold(f, s, k)}
<1>1. 0 \in S
  <2> DEFINE f == [t \in SUBSET (1..0) |-> 0]
  <2>1. \A t \in SUBSET (1..0) : t = {}
    OBVIOUS
  <2>2. f = [t \in SUBSET (1..0) |->
               IF t = {} THEN 0 ELSE LET x == Max(t) IN f[t \ {x}] * RADIX + s[x]]
    BY <2>1
  <2>3. NumberFold(f, s, 0)
    BY <2>2 DEF NumberFold
  <2> QED
    BY <2>3
<1>2. ASSUME NEW k \in Nat, k \in S
      PROVE  k + 1 \in S
  <2>1. PICK f : NumberFold(f, s, k)
    BY <1>2
  <2> DEFINE g == [t \in SUBSET (1..(k + 1)) |->
                     IF k + 1 \in t THEN f[t \ {k + 1}] * RADIX + s[k + 1] ELSE f[t]]
             value(t) == IF t = {} THEN 0 ELSE LET x == Max(t) IN g[t \ {x}] * RADIX + s[x]
  <2>2. ASSUME NEW t \in SUBSET (1..(k + 1))
        PROVE  g[t] = value(t)
    <3>1. CASE k + 1 \in t
      <4>1. Max(t) = k + 1 /\ t \ {k + 1} \in SUBSET (1..k)
        BY <3>1, LargestOfInitial
      <4>2. t \ {k + 1} \in SUBSET (1..(k + 1)) /\ k + 1 \notin t \ {k + 1}
        OBVIOUS
      <4>3. g[t \ {k + 1}] = f[t \ {k + 1}]
        BY <4>2
      <4>4. g[t] = f[t \ {k + 1}] * RADIX + s[k + 1]
        BY <3>1
      <4> QED
        BY <3>1, <4>1, <4>3, <4>4
    <3>2. CASE k + 1 \notin t
      <4>1. t \in SUBSET (1..k)
        BY <3>2
      <4>2. g[t] = f[t]
        BY <3>2
      <4>3. \A x : t \ {x} \in SUBSET (1..(k + 1)) /\ k + 1 \notin t \ {x}
        BY <3>2
      <4>4. \A x : g[t \ {x}] = f[t \ {x}]
        BY <4>3
      <4>5. f[t] = IF t = {} THEN 0 ELSE LET x == Max(t) IN f[t \ {x}] * RADIX + s[x]
        BY <2>1, <4>1 DEF NumberFold
      <4> QED
        BY <4>2, <4>4, <4>5
    <3> QED
      BY <3>1, <3>2
  <2>3. g = [t \in SUBSET (1..(k + 1)) |-> g[t]]
    OBVIOUS
  <2> HIDE DEF g
  <2>4. NumberFold(g, s, k + 1)
    BY <2>2, <2>3 DEF NumberFold
  <2> QED
    BY <2>4
<1> HIDE DEF S
<1>3. Nat \subseteq S
  BY <1>1, <1>2, Induction
<1> QED
  BY <1>3 DEF S

ReadFold(f, s, start, n) ==
  f = [t \in SUBSET (1..n) |->
         IF t = {} THEN start ELSE LET x == Max(t) IN read_field(f[t \ {x}], s[x])]

(* And so does that of a reader.                                                *)
LEMMA ReadFoldExists ==
  ASSUME NEW s, NEW start, NEW n \in Nat
  PROVE  \E f : ReadFold(f, s, start, n)
<1> DEFINE S == {k \in Nat : \E f : ReadFold(f, s, start, k)}
<1>1. 0 \in S
  <2> DEFINE f == [t \in SUBSET (1..0) |-> start]
  <2>1. \A t \in SUBSET (1..0) : t = {}
    OBVIOUS
  <2>2. f = [t \in SUBSET (1..0) |->
               IF t = {} THEN start ELSE LET x == Max(t) IN read_field(f[t \ {x}], s[x])]
    BY <2>1
  <2>3. ReadFold(f, s, start, 0)
    BY <2>2 DEF ReadFold
  <2> QED
    BY <2>3
<1>2. ASSUME NEW k \in Nat, k \in S
      PROVE  k + 1 \in S
  <2>1. PICK f : ReadFold(f, s, start, k)
    BY <1>2
  <2> DEFINE g == [t \in SUBSET (1..(k + 1)) |->
                     IF k + 1 \in t THEN read_field(f[t \ {k + 1}], s[k + 1]) ELSE f[t]]
             value(t) == IF t = {} THEN start ELSE LET x == Max(t) IN read_field(g[t \ {x}], s[x])
  <2>2. ASSUME NEW t \in SUBSET (1..(k + 1))
        PROVE  g[t] = value(t)
    <3>1. CASE k + 1 \in t
      <4>1. Max(t) = k + 1 /\ t \ {k + 1} \in SUBSET (1..k)
        BY <3>1, LargestOfInitial
      <4>2. t \ {k + 1} \in SUBSET (1..(k + 1)) /\ k + 1 \notin t \ {k + 1}
        OBVIOUS
      <4>3. g[t \ {k + 1}] = f[t \ {k + 1}]
        BY <4>2
      <4>4. g[t] = read_field(f[t \ {k + 1}], s[k + 1])
        BY <3>1
      <4> QED
        BY <3>1, <4>1, <4>3, <4>4
    <3>2. CASE k + 1 \notin t
      <4>1. t \in SUBSET (1..k)
        BY <3>2
      <4>2. g[t] = f[t]
        BY <3>2
      <4>3. \A x : t \ {x} \in SUBSET (1..(k + 1)) /\ k + 1 \notin t \ {x}
        BY <3>2
      <4>4. \A x : g[t \ {x}] = f[t \ {x}]
        BY <4>3
      <4>5. f[t] = IF t = {} THEN start ELSE LET x == Max(t) IN read_field(f[t \ {x}], s[x])
        BY <2>1, <4>1 DEF ReadFold
      <4> QED
        BY <4>2, <4>4, <4>5
    <3> QED
      BY <3>1, <3>2
  <2>3. g = [t \in SUBSET (1..(k + 1)) |-> g[t]]
    OBVIOUS
  <2> HIDE DEF g
  <2>4. ReadFold(g, s, start, k + 1)
    BY <2>2, <2>3 DEF ReadFold
  <2> QED
    BY <2>4
<1> HIDE DEF S
<1>3. Nat \subseteq S
  BY <1>1, <1>2, Induction
<1> QED
  BY <1>3 DEF S

(* The number of a sequence is that of all but its last byte times RADIX, plus that      *)
(* byte: the shift and the or.                                                  *)
LEMMA NumberUnfolds ==
  ASSUME NEW s \in Seq(Nat)
  PROVE  \E r : /\ r[0] = 0 /\ number(s) = r[Len(s)]
               /\ \A i \in 1..Len(s) : r[i] = r[i - 1] * RADIX + s[i]
<1> DEFINE n == Len(s)
<1>1. DOMAIN s = 1..n /\ n \in Nat
  OBVIOUS
<1> HIDE DEF n
<1>2. \E f : NumberFold(f, s, n)
  BY <1>1, NumberFoldExists
<1> DEFINE F == CHOOSE f : f = [t \in SUBSET (1..n) |->
                    IF t = {} THEN 0 ELSE LET x == Max(t) IN f[t \ {x}] * RADIX + s[x]]
<1>3. number(s) = F[1..n]
  BY <1>1 DEF number, FoldLeft, MapThenFoldSet
<1>4. NumberFold(F, s, n)
  BY <1>2 DEF NumberFold
<1> HIDE DEF F
<1> DEFINE r == [i \in 0..n |-> F[1..i]]
<1>5. r[0] = 0
  <2>1. 1..0 = {} /\ {} \in SUBSET (1..n)
    OBVIOUS
  <2>2. F[{}] = 0
    BY <1>4, <2>1 DEF NumberFold
  <2> QED
    BY <1>1, <2>1, <2>2
<1>6. r[n] = F[1..n]
  BY <1>1
<1>7. ASSUME NEW i \in 1..n
      PROVE  r[i] = r[i - 1] * RADIX + s[i]
  <2>1. i - 1 \in Nat /\ (i - 1) + 1 = i /\ i \in 0..n /\ i - 1 \in 0..n /\ i \in 1..i
    BY <1>1
  <2>2. Max(1..i) = i
    BY <2>1, LargestOfInitial
  <2>3. (1..i) \ {i} = 1..(i - 1)
    BY <2>1
  <2>4. 1..i \in SUBSET (1..n) /\ 1..i # {}
    <3>1. \A x \in 1..i : x \in 1..n
      BY <1>1
    <3> QED
      BY <2>1, <3>1
  <2>5. F[1..i] = F[1..(i - 1)] * RADIX + s[i]
    BY <1>4, <2>2, <2>3, <2>4 DEF NumberFold
  <2> QED
    BY <2>1, <2>5
<1> HIDE DEF r
<1> QED
  BY <1>3, <1>5, <1>6, <1>7 DEF n

(* A reader reads one field after the other.                                    *)
LEMMA ReadUnfolds ==
  ASSUME NEW bytes, NEW S, NEW s \in Seq(S)
  PROVE  \E r : /\ r[0] = [short |-> FALSE, fields |-> <<>>, rest |-> bytes]
               /\ Read(bytes, s) = r[Len(s)]
               /\ \A i \in 1..Len(s) : r[i] = read_field(r[i - 1], s[i])
<1> DEFINE n == Len(s)
           start == [short |-> FALSE, fields |-> <<>>, rest |-> bytes]
<1>1. DOMAIN s = 1..n /\ n \in Nat
  OBVIOUS
<1> HIDE DEF n
<1>2. \E f : ReadFold(f, s, start, n)
  BY <1>1, ReadFoldExists
<1> DEFINE F == CHOOSE f : f = [t \in SUBSET (1..n) |->
                    IF t = {} THEN start ELSE LET x == Max(t) IN read_field(f[t \ {x}], s[x])]
<1>3. Read(bytes, s) = F[1..n]
  BY <1>1 DEF Read, FoldLeft, MapThenFoldSet
<1>4. ReadFold(F, s, start, n)
  BY <1>2 DEF ReadFold
<1> HIDE DEF F
<1> DEFINE r == [i \in 0..n |-> F[1..i]]
<1>5. r[0] = start
  <2>1. 1..0 = {} /\ {} \in SUBSET (1..n)
    OBVIOUS
  <2>2. F[{}] = start
    BY <1>4, <2>1 DEF ReadFold
  <2> QED
    BY <1>1, <2>1, <2>2
<1>6. r[n] = F[1..n]
  BY <1>1
<1>7. ASSUME NEW i \in 1..n
      PROVE  r[i] = read_field(r[i - 1], s[i])
  <2>1. i - 1 \in Nat /\ (i - 1) + 1 = i /\ i \in 0..n /\ i - 1 \in 0..n /\ i \in 1..i
    BY <1>1
  <2>2. Max(1..i) = i
    BY <2>1, LargestOfInitial
  <2>3. (1..i) \ {i} = 1..(i - 1)
    BY <2>1
  <2>4. 1..i \in SUBSET (1..n) /\ 1..i # {}
    <3>1. \A x \in 1..i : x \in 1..n
      BY <1>1
    <3> QED
      BY <2>1, <3>1
  <2>5. F[1..i] = read_field(F[1..(i - 1)], s[i])
    BY <1>4, <2>2, <2>3, <2>4 DEF ReadFold
  <2> QED
    BY <2>1, <2>5
<1> HIDE DEF r
<1> QED
  BY <1>3, <1>5, <1>6, <1>7 DEF n

-----------------------------------------------------------------------------
(* Numbers of one and of two bytes.                                            *)
LEMMA Radix == RADIX \in Nat /\ RADIX > 15 /\ MaxLength = RADIX * RADIX - 1 /\ MaxLength \in Nat
<1>1. RADIX \in Nat \ {0} /\ RADIX % 16 = 0
  BY WireAssumption DEF RadixAssumption
<1>2. RADIX > 15
  BY <1>1
<1>3. RADIX * RADIX \in Nat /\ RADIX * RADIX > 0
  BY <1>1
<1> QED
  BY <1>1, <1>2, <1>3 DEF MaxLength

(* A byte is a number.                                                          *)
LEMMA OctetsAreNumbers == Octet \subseteq Nat /\ Seq(Octet) \subseteq Seq(Nat)
<1>1. Octet \subseteq Nat
  BY Radix DEF Octet
<1>2. ASSUME NEW s \in Seq(Octet)
      PROVE  s \in Seq(Nat)
  <2>1. s \in [1..Len(s) -> Octet] /\ Len(s) \in Nat
    OBVIOUS
  <2>2. s \in [1..Len(s) -> Nat]
    BY <1>1, <2>1
  <2> QED
    BY <2>1, <2>2
<1> QED
  BY <1>1, <1>2

(* One byte is its own number.                                                  *)
LEMMA NumberOfOne ==
  ASSUME NEW s \in Seq(Octet), Len(s) = 1
  PROVE  number(s) = s[1] /\ s[1] \in Octet /\ s = <<s[1]>>
<1>1. s \in Seq(Nat) /\ s[1] \in Octet /\ s[1] \in Nat
  BY OctetsAreNumbers
<1>2. PICK r : /\ r[0] = 0 /\ number(s) = r[Len(s)]
               /\ \A i \in 1..Len(s) : r[i] = r[i - 1] * RADIX + s[i]
  BY <1>1, NumberUnfolds
<1>3. 1 \in 1..Len(s) /\ 1 - 1 = 0
  OBVIOUS
<1>4. r[1] = 0 * RADIX + s[1]
  BY <1>2, <1>3
<1>5. r[1] = s[1]
  BY <1>1, <1>4, Radix
<1>6. s = <<s[1]>>
  OBVIOUS
<1> QED
  BY <1>1, <1>2, <1>5, <1>6

(* The first of two bytes counts RADIX times.                                   *)
LEMMA NumberOfTwo ==
  ASSUME NEW s \in Seq(Octet), Len(s) = 2
  PROVE  /\ number(s) = s[1] * RADIX + s[2] /\ number(s) \in 0..MaxLength
         /\ s[1] \in Octet /\ s[2] \in Octet /\ s = <<s[1], s[2]>>
<1>1. s \in Seq(Nat) /\ s[1] \in Octet /\ s[2] \in Octet
  BY OctetsAreNumbers
<1>2. PICK r : /\ r[0] = 0 /\ number(s) = r[Len(s)]
               /\ \A i \in 1..Len(s) : r[i] = r[i - 1] * RADIX + s[i]
  BY <1>1, NumberUnfolds
<1>3. 1 \in 1..Len(s) /\ 1 - 1 = 0 /\ 2 \in 1..Len(s) /\ 2 - 1 = 1
  OBVIOUS
<1>4. r[1] = 0 * RADIX + s[1] /\ r[2] = r[1] * RADIX + s[2]
  BY <1>2, <1>3
<1> DEFINE a == s[1]
           b == s[2]
<1>5. a \in 0..(RADIX - 1) /\ b \in 0..(RADIX - 1)
  BY <1>1 DEF Octet
<1> HIDE DEF a, b
<1>6. 0 * RADIX + a = a
  BY <1>5, Radix
<1>7. a * RADIX + b \in 0..MaxLength
  <2> DEFINE c == RADIX - 1 - a
  <2>1. c \in Nat /\ c * RADIX >= 0
    BY <1>5, Radix
  <2>2. a * RADIX = RADIX * RADIX - RADIX - c * RADIX
    BY <1>5, Radix
  <2>3. a * RADIX >= 0 /\ a * RADIX \in Int /\ RADIX * RADIX \in Int /\ c * RADIX \in Int
    BY <1>5, <2>1, Radix
  <2> QED
    BY <1>5, <2>1, <2>2, <2>3, Radix
<1>8. s = <<s[1], s[2]>>
  OBVIOUS
<1> QED
  BY <1>1, <1>2, <1>4, <1>6, <1>7, <1>8 DEF a, b

(* A value's digits, as they are written.                                       *)
LEMMA WrittenOne ==
  ASSUME NEW v \in Nat
  PROVE  written(v, 1) = <<v % RADIX>>
<1> DEFINE S == CHOOSE f : f = [i \in 0..1 |-> IF i = 0 THEN v ELSE f[i - 1] \div RADIX]
           w == [i \in 0..1 |-> IF i = 0 THEN v ELSE v \div RADIX]
<1>1. w = [i \in 0..1 |-> IF i = 0 THEN v ELSE w[i - 1] \div RADIX]
  <2>1. \A i \in 0..1 : i # 0 => i - 1 = 0
    OBVIOUS
  <2> QED
    BY <2>1
<1> HIDE DEF w
<1>2. S = [i \in 0..1 |-> IF i = 0 THEN v ELSE S[i - 1] \div RADIX]
  BY <1>1
<1>3. written(v, 1) = [i \in 1..1 |-> S[1 - i] % RADIX]
  BY DEF written
<1> HIDE DEF S
<1>4. S[0] = v
  BY <1>2
<1>5. written(v, 1) = [i \in 1..1 |-> v % RADIX]
  <2>1. \A i \in 1..1 : 1 - i = 0
    OBVIOUS
  <2> QED
    BY <1>3, <1>4, <2>1
<1> QED
  BY <1>5

(* The more significant digit comes first.                                      *)
LEMMA WrittenTwo ==
  ASSUME NEW v \in Nat
  PROVE  written(v, 2) = <<(v \div RADIX) % RADIX, v % RADIX>>
<1> DEFINE S == CHOOSE f : f = [i \in 0..2 |-> IF i = 0 THEN v ELSE f[i - 1] \div RADIX]
           w == [i \in 0..2 |-> IF i = 0 THEN v ELSE IF i = 1 THEN v \div RADIX
                                ELSE (v \div RADIX) \div RADIX]
<1>1. w = [i \in 0..2 |-> IF i = 0 THEN v ELSE w[i - 1] \div RADIX]
  <2>1. w[0] = v /\ w[1] = v \div RADIX /\ w[2] = (v \div RADIX) \div RADIX
    OBVIOUS
  <2>2. \A i \in 0..2 : w[i] = IF i = 0 THEN v ELSE w[i - 1] \div RADIX
    <3>1. 1 - 1 = 0 /\ 2 - 1 = 1 /\ 0..2 = {0, 1, 2}
      OBVIOUS
    <3> HIDE DEF w
    <3> QED
      BY <2>1, <3>1
  <2>3. w = [i \in 0..2 |-> w[i]]
    OBVIOUS
  <2> HIDE DEF w
  <2> QED
    BY <2>2, <2>3
<1> HIDE DEF w
<1>2. S = [i \in 0..2 |-> IF i = 0 THEN v ELSE S[i - 1] \div RADIX]
  BY <1>1
<1>3. written(v, 2) = [i \in 1..2 |-> S[2 - i] % RADIX]
  BY DEF written
<1> HIDE DEF S
<1>4. S[0] = v /\ S[1] = v \div RADIX
  BY <1>2
<1> DEFINE x == S[1] % RADIX
           y == S[0] % RADIX
<1>5. written(v, 2) = <<x, y>>
  <2>1. [i \in 1..2 |-> S[2 - i] % RADIX] = <<x, y>>
    <3>1. 2 - 1 = 1 /\ 2 - 2 = 0 /\ 1..2 = {1, 2}
      OBVIOUS
    <3> QED
      BY <3>1
  <2> QED
    BY <1>3, <2>1
<1> QED
  BY <1>4, <1>5

(* Two digits are found again by division.                                      *)
LEMMA Digits2 ==
  ASSUME NEW n \in Nat \ {0}, NEW a \in 0..(n - 1), NEW b \in 0..(n - 1)
  PROVE  /\ ((a * n + b) \div n) % n = a
         /\ (a * n + b) % n = b
<1>1. (a * n + b) \div n = a /\ (a * n + b) % n = b
  <2> DEFINE v == a * n + b
             q == v \div n
             r == v % n
  <2>1. v \in Int /\ q \in Int /\ r \in 0..(n - 1) /\ v = n * q + r
    <3>1. v \in Int
      OBVIOUS
    <3> HIDE DEF v
    <3> QED
      BY <3>1
  <2>2. n * q + r = a * n + b
    BY <2>1
  <2> HIDE DEF v, q, r
  <2>3. CASE q >= a + 1
    <3>1. n * q = n * a + n + n * (q - a - 1) /\ n * (q - a - 1) >= 0
      BY <2>1, <2>3
    <3> QED
      BY <2>1, <2>2, <3>1
  <2>4. CASE q <= a - 1
    <3>1. n * a = n * q + n + n * (a - q - 1) /\ n * (a - q - 1) >= 0
      BY <2>1, <2>4
    <3> QED
      BY <2>1, <2>2, <3>1
  <2>5. CASE q = a
    <3>1. r = b
      BY <2>1, <2>2, <2>5
    <3> QED
      BY <2>5, <3>1 DEF q, r, v
  <2> QED
    BY <2>1, <2>3, <2>4, <2>5
<1>2. a % n = a
  OBVIOUS
<1> QED
  BY <1>1, <1>2

(* Two bytes that are read and written are the same bytes.                      *)
LEMMA TwoBytesRead ==
  ASSUME NEW s \in Seq(Octet), Len(s) = 2
  PROVE  written(number(s), 2) = s
<1> DEFINE a == s[1]
           b == s[2]
           v == a * RADIX + b
<1>1. /\ number(s) = v /\ v \in Nat /\ s = <<a, b>>
      /\ a \in 0..(RADIX - 1) /\ b \in 0..(RADIX - 1)
  BY NumberOfTwo, Radix DEF Octet
<1> HIDE DEF a, b
<1>2. (v \div RADIX) % RADIX = a /\ v % RADIX = b
  <2>1. RADIX \in Nat \ {0}
    BY Radix
  <2> QED
    BY <1>1, <2>1, Digits2
<1> HIDE DEF v
<1>3. written(v, 2) = <<(v \div RADIX) % RADIX, v % RADIX>>
  BY <1>1, WrittenTwo
<1> QED
  BY <1>1, <1>2, <1>3

(* A 16-bit number that is written and read is the same number.                 *)
LEMMA TwoBytesWritten ==
  ASSUME NEW v \in 0..MaxLength
  PROVE  written(v, 2) \in Octets(2) /\ number(written(v, 2)) = v
<1> DEFINE q == v \div RADIX
           r == v % RADIX
           s == written(v, 2)
<1>1. v \in Nat /\ RADIX \in Nat \ {0}
  BY Radix
<1>2. q \in Int /\ r \in 0..(RADIX - 1) /\ v = RADIX * q + r
  BY <1>1
<1>3. s = <<q % RADIX, r>>
  BY <1>1, WrittenTwo
<1> HIDE DEF q, r
<1>4. q \in 0..(RADIX - 1)
  <2>1. v < RADIX * RADIX
    BY Radix
  <2>2. ASSUME q >= RADIX
        PROVE  FALSE
    <3>1. RADIX * q = RADIX * RADIX + RADIX * (q - RADIX) /\ RADIX * (q - RADIX) >= 0
      BY <1>1, <1>2, <2>2
    <3> QED
      BY <1>1, <1>2, <2>1, <3>1
  <2>3. ASSUME q <= -1
        PROVE  FALSE
    <3>1. RADIX * q = -RADIX - RADIX * (-1 - q) /\ RADIX * (-1 - q) >= 0
      BY <1>1, <1>2, <2>3
    <3> QED
      BY <1>1, <1>2, <3>1
  <2> QED
    BY <1>1, <1>2, <2>2, <2>3
<1>5. q % RADIX = q
  BY <1>1, <1>4
<1>6. s = <<q, r>> /\ q \in Octet /\ r \in Octet
  BY <1>2, <1>3, <1>4, <1>5 DEF Octet
<1> HIDE DEF s
<1>7. s \in Seq(Octet) /\ Len(s) = 2 /\ s[1] = q /\ s[2] = r
  BY <1>6
<1>8. number(s) = q * RADIX + r
  BY <1>7, NumberOfTwo
<1>9. q * RADIX + r = v
  BY <1>1, <1>2
<1> QED
  BY <1>7, <1>8, <1>9 DEF Octets, s

(* And so is an 8-bit number.                                                   *)
LEMMA OneByte ==
  ASSUME NEW v \in Octet
  PROVE  written(v, 1) = <<v>> /\ <<v>> \in Octets(1) /\ number(<<v>>) = v
<1>1. v \in Nat /\ v % RADIX = v
  BY Radix DEF Octet
<1>2. <<v>> \in Seq(Octet) /\ Len(<<v>>) = 1 /\ <<v>>[1] = v
  OBVIOUS
<1>3. number(<<v>>) = v
  BY <1>2, NumberOfOne
<1> QED
  BY <1>1, <1>2, <1>3, WrittenOne DEF Octets

-----------------------------------------------------------------------------
(* Reading a field of a fixed size.                                            *)
ReaderSort == [short : BOOLEAN, fields : Seq(Seq(Octet)), rest : Seq(Octet)]

(* A sequence cut in two is what its parts make together.                       *)
LEMMA SplitOff ==
  ASSUME NEW S, NEW s \in Seq(S), NEW n \in 0..Len(s)
  PROVE  /\ SubSeq(s, 1, n) \in Seq(S) /\ Len(SubSeq(s, 1, n)) = n
         /\ SubSeq(s, n + 1, Len(s)) \in Seq(S) /\ Len(SubSeq(s, n + 1, Len(s))) = Len(s) - n
         /\ s = SubSeq(s, 1, n) \o SubSeq(s, n + 1, Len(s))
<1> DEFINE a == SubSeq(s, 1, n)
           b == SubSeq(s, n + 1, Len(s))
<1>1. /\ a \in Seq(S) /\ Len(a) = n /\ \A i \in 1..n : a[i] = s[i]
  OBVIOUS
<1>2. /\ b \in Seq(S) /\ Len(b) = Len(s) - n /\ \A i \in 1..(Len(s) - n) : b[i] = s[n + i]
  OBVIOUS
<1>0. Len(s) \in Nat /\ n \in Nat
  OBVIOUS
<1> HIDE DEF a, b
<1>3. a \o b \in Seq(S) /\ Len(a \o b) = Len(s)
  <2>1. a \o b \in Seq(S) /\ Len(a \o b) = Len(a) + Len(b)
    BY <1>1, <1>2, ConcatProperties, Zenon
  <2>2. Len(a) = n /\ Len(b) = Len(s) - n
    BY <1>1, <1>2, Zenon
  <2> QED
    BY <1>0, <2>1, <2>2
<1>4. ASSUME NEW i \in 1..Len(s)
      PROVE  (a \o b)[i] = s[i]
  <2>0. i \in Int /\ n \in Int
    BY <1>0
  <2>1. CASE i <= n
    <3>1. i \in 1..n
      BY <1>0, <2>1
    <3>2. (a \o b)[i] = a[i]
      BY <1>1, <1>2, <3>1
    <3> QED
      BY <1>1, <3>1, <3>2
  <2>2. CASE i > n
    <3>1. i - n \in 1..(Len(s) - n) /\ n + (i - n) = i
      BY <1>0, <2>2
    <3>2. (a \o b)[i] = b[i - n]
      BY <1>1, <1>2, <2>2, <1>0
    <3> QED
      BY <1>2, <3>1, <3>2
  <2>3. i <= n \/ i > n
    BY <2>0
  <2> QED
    BY <2>1, <2>2, <2>3
<1>5. a \o b = s
  BY <1>3, <1>4, SeqEqual
<1> QED
  BY <1>1, <1>2, <1>5 DEF a, b

(* And the parts of two sequences are found again behind one another.           *)
LEMMA Parted ==
  ASSUME NEW S, NEW a \in Seq(S), NEW b \in Seq(S)
  PROVE  /\ a \o b \in Seq(S) /\ Len(a \o b) = Len(a) + Len(b)
         /\ SubSeq(a \o b, 1, Len(a)) = a
         /\ SubSeq(a \o b, Len(a) + 1, Len(a \o b)) = b
<1> DEFINE n == Len(a)
           s == a \o b
           x == SubSeq(s, 1, n)
           y == SubSeq(s, n + 1, Len(s))
<1>1. /\ n \in Nat /\ s \in Seq(S) /\ Len(s) = n + Len(b)
      /\ \A i \in 1..n : s[i] = a[i]
      /\ \A i \in 1..Len(b) : s[n + i] = b[i]
  OBVIOUS
<1> HIDE DEF s
<1>2. x \in Seq(S) /\ Len(x) = n /\ \A i \in 1..n : x[i] = s[i]
  BY <1>1
<1>3. y \in Seq(S) /\ Len(y) = Len(b) /\ \A i \in 1..Len(b) : y[i] = s[n + i]
  BY <1>1
<1> HIDE DEF x, y
<1>4. x = a
  BY <1>1, <1>2, SeqEqual
<1>5. y = b
  BY <1>1, <1>3, SeqEqual
<1> QED
  BY <1>1, <1>4, <1>5 DEF x, y, s, n

(* A field of a fixed size is what stands in front of the rest, if it is there.    *)
LEMMA FixedField ==
  ASSUME NEW r \in ReaderSort, NEW n \in Nat
  PROVE  read_field(r, Fixed(n)) =
           IF r.short \/ Len(r.rest) < n THEN [r EXCEPT !.short = TRUE]
           ELSE [short |-> FALSE, fields |-> Append(r.fields, SubSeq(r.rest, 1, n)),
                 rest |-> SubSeq(r.rest, n + 1, Len(r.rest))]
<1>1. r.short \in BOOLEAN /\ r.rest \in Seq(Octet) /\ Len(r.rest) \in Nat
  BY DEF ReaderSort
<1>2. Fixed(n).prefix = 0 /\ Fixed(n).size = n
  BY DEF Fixed
<1>3. 0 + n = n /\ 0 + 1 = 1 /\ ~(Len(r.rest) < 0) /\ 0 + n + 1 = n + 1
  BY <1>1
<1>4. CASE r.short \/ Len(r.rest) < n
  BY <1>2, <1>3, <1>4 DEF read_field, Needed
<1>5. CASE ~(r.short \/ Len(r.rest) < n)
  <2>1. Slice(r.rest, 0 + 1, 0 + n) = SubSeq(r.rest, 1, n)
    <3>1. (IF 0 + n < Len(r.rest) THEN 0 + n ELSE Len(r.rest)) = n
      BY <1>1, <1>5
    <3> QED
      BY <1>3, <3>1 DEF Slice
  <2>2. From(r.rest, 0 + n + 1) = SubSeq(r.rest, n + 1, Len(r.rest))
    BY <1>3 DEF From
  <2> QED
    BY <1>2, <1>3, <1>5, <2>1, <2>2 DEF read_field, Needed
<1> QED
  BY <1>4, <1>5

(* The field that was read stood in front of what is left.                      *)
LEMMA FieldRead ==
  ASSUME NEW r \in ReaderSort, NEW n \in Nat, NEW q, q = read_field(r, Fixed(n))
  PROVE  /\ q \in ReaderSort
         /\ ~q.short => /\ ~r.short
                        /\ \E f \in Octets(n) : q.fields = Append(r.fields, f) /\ r.rest = f \o q.rest
<1>1. r.short \in BOOLEAN /\ r.fields \in Seq(Seq(Octet)) /\ r.rest \in Seq(Octet) /\ Len(r.rest) \in Nat
  BY DEF ReaderSort
<1>2. CASE r.short \/ Len(r.rest) < n
  <2>1. q = [r EXCEPT !.short = TRUE]
    BY <1>2, FixedField
  <2>2. q \in ReaderSort /\ q.short
    BY <2>1 DEF ReaderSort
  <2> QED
    BY <2>2
<1>3. CASE ~(r.short \/ Len(r.rest) < n)
  <2> DEFINE f == SubSeq(r.rest, 1, n)
             b == SubSeq(r.rest, n + 1, Len(r.rest))
  <2>1. q = [short |-> FALSE, fields |-> Append(r.fields, f), rest |-> b]
    BY <1>3, FixedField
  <2>2. n \in 0..Len(r.rest)
    BY <1>1, <1>3
  <2>3. f \in Seq(Octet) /\ Len(f) = n /\ b \in Seq(Octet) /\ r.rest = f \o b
    <3> DEFINE s == r.rest
    <3>1. s \in Seq(Octet) /\ n \in 0..Len(s)
      BY <1>1, <2>2
    <3> HIDE DEF s
    <3>2. /\ SubSeq(s, 1, n) \in Seq(Octet) /\ Len(SubSeq(s, 1, n)) = n
          /\ SubSeq(s, n + 1, Len(s)) \in Seq(Octet) /\ s = SubSeq(s, 1, n) \o SubSeq(s, n + 1, Len(s))
      BY <3>1, SplitOff
    <3> QED
      BY <3>2, Zenon DEF s
  <2> HIDE DEF f, b
  <2>4. f \in Octets(n)
    BY <2>3 DEF Octets
  <2>5. Append(r.fields, f) \in Seq(Seq(Octet))
    BY <1>1, <2>3
  <2>6. q \in ReaderSort /\ q.fields = Append(r.fields, f) /\ q.rest = b
    BY <2>1, <2>3, <2>5 DEF ReaderSort
  <2> QED
    BY <1>3, <2>3, <2>4, <2>6
<1> QED
  BY <1>2, <1>3

(* A field that was written is found again.                                      *)
LEMMA FieldFound ==
  ASSUME NEW r \in ReaderSort, ~r.short, NEW n \in Nat, NEW f \in Octets(n),
         NEW rest \in Seq(Octet), r.rest = f \o rest
  PROVE  read_field(r, Fixed(n)) = [short |-> FALSE, fields |-> Append(r.fields, f), rest |-> rest]
<1>1. f \in Seq(Octet) /\ Len(f) = n /\ r.rest \in Seq(Octet)
  BY DEF Octets, ReaderSort
<1>2. SubSeq(r.rest, 1, n) = f /\ SubSeq(r.rest, n + 1, Len(r.rest)) = rest
      /\ Len(r.rest) = n + Len(rest)
  <2>0. f \in Seq(Octet) /\ rest \in Seq(Octet)
    BY <1>1
  <2>1. Len(f \o rest) = Len(f) + Len(rest)
    BY <2>0, Parted
  <2>2. SubSeq(f \o rest, 1, Len(f)) = f
    BY <2>0, Parted
  <2>3. SubSeq(f \o rest, Len(f) + 1, Len(f \o rest)) = rest
    BY <2>0, Parted
  <2> QED
    BY <1>1, <2>1, <2>2, <2>3
<1>3. ~(Len(r.rest) < n)
  <2>1. Len(rest) \in Nat
    OBVIOUS
  <2> QED
    BY <1>2, <2>1
<1> QED
  BY <1>2, <1>3, FixedField

-----------------------------------------------------------------------------
(* A reader that has read fields from the front of bytes.                       *)
ReaderOf(bytes) == [short |-> FALSE, fields |-> <<>>, rest |-> bytes]

HasRead(reader, bytes, prefix, fields) ==
  /\ reader \in ReaderSort /\ ~reader.short /\ reader.fields = fields
  /\ prefix \in Seq(Octet) /\ bytes = prefix \o reader.rest

(* Another field read stands behind those before.                               *)
LEMMA ReadsOn ==
  ASSUME NEW bytes, NEW p, NEW fields, NEW r, HasRead(r, bytes, p, fields),
         NEW n \in Nat, NEW q, q = read_field(r, Fixed(n)), ~q.short
  PROVE  \E f \in Octets(n) : HasRead(q, bytes, p \o f, Append(fields, f))
<1>1. /\ r \in ReaderSort /\ r.rest \in Seq(Octet) /\ p \in Seq(Octet) /\ bytes = p \o r.rest
      /\ r.fields = fields
  BY DEF HasRead, ReaderSort
<1>2. q \in ReaderSort /\ q.rest \in Seq(Octet)
  BY <1>1, FieldRead DEF ReaderSort
<1>3. PICK f \in Octets(n) : q.fields = Append(fields, f) /\ r.rest = f \o q.rest
  BY <1>1, FieldRead
<1>4. f \in Seq(Octet)
  BY DEF Octets
<1>5. p \o f \in Seq(Octet)
  BY <1>1, <1>4
<1>6. bytes = (p \o f) \o q.rest
  <2>1. p \in Seq(Octet) /\ f \in Seq(Octet) /\ q.rest \in Seq(Octet)
    BY <1>1, <1>2, <1>4
  <2>2. (p \o f) \o q.rest = p \o (f \o q.rest)
    <3> DEFINE t == q.rest
    <3> HIDE DEF t
    <3>1. t \in Seq(Octet)
      BY <2>1 DEF t
    <3>2. (p \o f) \o t = p \o (f \o t)
      BY <2>1, <3>1, ConcatAssociative
    <3> QED
      BY <3>2 DEF t
  <2> QED
    BY <1>1, <1>3, <2>2
<1> QED
  BY <1>2, <1>3, <1>5, <1>6 DEF HasRead

(* A reader that ran short stays so.                                            *)
LEMMA ShortStays ==
  ASSUME NEW r \in ReaderSort, r.short, NEW n \in Nat
  PROVE  read_field(r, Fixed(n)).short /\ read_field(r, Fixed(n)) \in ReaderSort
<1>1. read_field(r, Fixed(n)) = [r EXCEPT !.short = TRUE]
  BY FixedField
<1> QED
  BY <1>1 DEF ReaderSort

(* What is in front of the rest is found, whatever follows it.                   *)
ReaderAt(fields, rest) == [short |-> FALSE, fields |-> fields, rest |-> rest]

(* The reader goes on behind the field.                                         *)
LEMMA FindsOn ==
  ASSUME NEW fields \in Seq(Seq(Octet)), NEW n \in Nat, NEW f \in Octets(n), NEW rest \in Seq(Octet)
  PROVE  read_field(ReaderAt(fields, f \o rest), Fixed(n)) = ReaderAt(Append(fields, f), rest)
<1> DEFINE r == ReaderAt(fields, f \o rest)
<1>1. f \o rest \in Seq(Octet)
  BY DEF Octets
<1>2. r \in ReaderSort /\ ~r.short /\ r.rest = f \o rest /\ r.fields = fields
  BY <1>1 DEF ReaderAt, ReaderSort
<1> HIDE DEF r
<1>3. read_field(r, Fixed(n)) = [short |-> FALSE, fields |-> Append(fields, f), rest |-> rest]
  BY <1>2, FieldFound
<1> QED
  BY <1>3 DEF ReaderAt, r

(* At first a reader has read nothing.                                          *)
LEMMA Begins ==
  ASSUME NEW bytes \in Seq(Octet)
  PROVE  HasRead(ReaderOf(bytes), bytes, <<>>, <<>>) /\ ReaderOf(bytes) \in ReaderSort
<1>1. <<>> \in Seq(Octet) /\ <<>> \o bytes = bytes /\ <<>> \in Seq(Seq(Octet))
  BY ConcatEmptySeq
<1> QED
  BY <1>1 DEF HasRead, ReaderOf, ReaderSort

(* Readers of three, four and five fields of fixed sizes: none is found, or all     *)
(* that were read stand one after the other in front of the rest.                *)
FixedSizes == {Fixed(n) : n \in Nat}

(* A layout of fixed sizes is read one step at a time.                          *)
LEMMA Steps ==
  ASSUME NEW bytes, NEW layout \in Seq(FixedSizes)
  PROVE  \E r : /\ r[0] = ReaderOf(bytes)
               /\ Read(bytes, layout) = r[Len(layout)]
               /\ \A i \in 1..Len(layout) : r[i] = read_field(r[i - 1], layout[i])
<1>1. PICK r : /\ r[0] = [short |-> FALSE, fields |-> <<>>, rest |-> bytes]
               /\ Read(bytes, layout) = r[Len(layout)]
               /\ \A i \in 1..Len(layout) : r[i] = read_field(r[i - 1], layout[i])
  BY ReadUnfolds
<1> QED
  BY <1>1 DEF ReaderOf

(* Every step ends in a reader, short or not.                                   *)
LEMMA AllInSort ==
  ASSUME NEW r \in ReaderSort, NEW n \in Nat
  PROVE  read_field(r, Fixed(n)) \in ReaderSort /\ (r.short => read_field(r, Fixed(n)).short)
BY FieldRead, ShortStays

(* Appending, spelled out.                                                      *)
LEMMA Appended == \A a, b, c, d, e :
  /\ Append(<<>>, a) = <<a>> /\ Append(<<a>>, b) = <<a, b>>
  /\ Append(<<a, b>>, c) = <<a, b, c>> /\ Append(<<a, b, c>>, d) = <<a, b, c, d>>
  /\ Append(<<a, b, c, d>>, e) = <<a, b, c, d, e>>
<1> TAKE a, b, c, d, e
<1>1. Append(<<>>, a) = <<a>>
  OBVIOUS
<1>2. Append(<<a>>, b) = <<a, b>>
  <2> DEFINE s == Append(<<a>>, b)
  <2>1. s \in Seq({a, b}) /\ Len(s) = 2 /\ s[1] = a /\ s[2] = b
    OBVIOUS
  <2> HIDE DEF s
  <2>2. s = <<a, b>>
    BY <2>1
  <2> QED
    BY <2>2 DEF s
<1>3. Append(<<a, b>>, c) = <<a, b, c>>
  <2> DEFINE s == Append(<<a, b>>, c)
  <2>1. s \in Seq({a, b, c}) /\ Len(s) = 3 /\ s[1] = a /\ s[2] = b /\ s[3] = c
    OBVIOUS
  <2> HIDE DEF s
  <2>2. s = <<a, b, c>>
    BY <2>1
  <2> QED
    BY <2>2 DEF s
<1>4. Append(<<a, b, c>>, d) = <<a, b, c, d>>
  <2> DEFINE s == Append(<<a, b, c>>, d)
  <2>1. s \in Seq({a, b, c, d}) /\ Len(s) = 4 /\ s[1] = a /\ s[2] = b /\ s[3] = c /\ s[4] = d
    OBVIOUS
  <2> HIDE DEF s
  <2>2. s = <<a, b, c, d>>
    BY <2>1
  <2> QED
    BY <2>2 DEF s
<1>5. Append(<<a, b, c, d>>, e) = <<a, b, c, d, e>>
  <2> DEFINE s == Append(<<a, b, c, d>>, e)
  <2>1. /\ s \in Seq({a, b, c, d, e}) /\ Len(s) = 5
        /\ s[1] = a /\ s[2] = b /\ s[3] = c /\ s[4] = d /\ s[5] = e
    OBVIOUS
  <2> HIDE DEF s
  <2>2. s = <<a, b, c, d, e>>
    BY <2>1
  <2> QED
    BY <2>2 DEF s
<1> QED
  BY <1>1, <1>2, <1>3, <1>4, <1>5

(* A layout without fields leaves all there is.                                 *)
LEMMA ReadNone ==
  ASSUME NEW bytes
  PROVE  Read(bytes, <<>>) = ReaderOf(bytes)
<1>1. <<>> \in Seq(FixedSizes) /\ Len(<<>>) = 0
  OBVIOUS
<1> QED
  BY <1>1, Steps

(* One field more is one step more.                                             *)
LEMMA ReadMore ==
  ASSUME NEW bytes, NEW layout \in Seq(FixedSizes), NEW field \in FixedSizes
  PROVE  Read(bytes, Append(layout, field)) = read_field(Read(bytes, layout), field)
<1> DEFINE longer == Append(layout, field)
           n == Len(layout)
<1>1. /\ longer \in Seq(FixedSizes) /\ Len(longer) = n + 1 /\ n \in Nat /\ longer[n + 1] = field
      /\ \A i \in 1..n : longer[i] = layout[i]
  OBVIOUS
<1> HIDE DEF longer
<1>2. PICK r : /\ r[0] = ReaderOf(bytes)
               /\ Read(bytes, layout) = r[Len(layout)]
               /\ \A i \in 1..Len(layout) : r[i] = read_field(r[i - 1], layout[i])
  BY Steps
<1>3. PICK t : /\ t[0] = ReaderOf(bytes)
               /\ Read(bytes, longer) = t[Len(longer)]
               /\ \A i \in 1..Len(longer) : t[i] = read_field(t[i - 1], longer[i])
  BY <1>1, Steps
<1> HIDE DEF n
<1> DEFINE S == {i \in Nat : i <= n => t[i] = r[i]}
<1>4. 0 \in S
  BY <1>2, <1>3
<1>5. ASSUME NEW i \in Nat, i \in S
      PROVE  i + 1 \in S
  <2>1. CASE i + 1 <= n
    <3>1. i <= n /\ i + 1 \in 1..n /\ i + 1 \in 1..(n + 1) /\ (i + 1) - 1 = i
      BY <1>1, <2>1
    <3>2. t[i + 1] = read_field(t[i], longer[i + 1]) /\ r[i + 1] = read_field(r[i], layout[i + 1])
      BY <1>1, <1>2, <1>3, <3>1 DEF n
    <3>3. t[i + 1] = r[i + 1]
      BY <1>1, <1>5, <3>1, <3>2
    <3> QED
      BY <3>3
  <2>2. CASE ~(i + 1 <= n)
    BY <2>2
  <2> QED
    BY <2>1, <2>2
<1>6. n \in S
  <2> HIDE DEF S
  <2>1. Nat \subseteq S
    BY <1>4, <1>5, Induction
  <2> QED
    BY <1>1, <2>1
<1>7. t[n] = r[n]
  BY <1>1, <1>6
<1>8. t[n + 1] = read_field(t[n], field)
  <2>1. n + 1 \in 1..(n + 1) /\ (n + 1) - 1 = n
    BY <1>1
  <2> QED
    BY <1>1, <1>3, <2>1
<1>9. Read(bytes, longer) = t[n + 1] /\ Read(bytes, layout) = r[n]
  BY <1>1, <1>2, <1>3 DEF n
<1> QED
  BY <1>7, <1>8, <1>9 DEF longer

LEMMA Associative == \A a, b, c \in Seq(Octet) : (a \o b) \o c = a \o (b \o c)
BY ConcatAssociative

LEMMA StepOne ==
  ASSUME NEW bytes, NEW n1 \in Nat
  PROVE  Read(bytes, <<Fixed(n1)>>)
           = read_field(ReaderOf(bytes), Fixed(n1))
<1> DEFINE F1 == Fixed(n1)
<1>1. F1 \in FixedSizes
  BY DEF FixedSizes
<1> HIDE DEF F1
<1>2. <<>> \in Seq(FixedSizes)
  BY <1>1
<1>3. <<F1>> = Append(<<>>, F1)
  BY Appended
<1>4. Read(bytes, Append(<<>>, F1)) = read_field(Read(bytes, <<>>), F1)
  BY <1>1, <1>2, ReadMore, Zenon
<1>5. Read(bytes, <<F1>>) = read_field(ReaderOf(bytes), F1)
  BY <1>3, <1>4, ReadNone
<1> QED
  BY <1>5 DEF F1

FoundOne(q, bytes, n1) ==
  \E f1 \in Octets(n1) :
    HasRead(q, bytes, f1, <<f1>>)

LEMMA ReadsOne ==
  ASSUME NEW bytes \in Seq(Octet), NEW n1 \in Nat,
         NEW q, q = Read(bytes, <<Fixed(n1)>>)
  PROVE  /\ q \in ReaderSort
         /\ ~q.short => FoundOne(q, bytes, n1)
<1> DEFINE r == ReaderOf(bytes)
<1>1. q = read_field(r, Fixed(n1))
  BY StepOne
<1>2. /\ r \in ReaderSort
      /\ ~r.short => HasRead(r, bytes, <<>>, <<>>)
  BY Begins
<1> HIDE DEF r
<1>3. q \in ReaderSort /\ (r.short => q.short)
  BY <1>1, <1>2, AllInSort
<1>4. ASSUME ~q.short
      PROVE  FoundOne(q, bytes, n1)
  <2>1. PICK f1 \in Octets(n1) : HasRead(q, bytes, <<>> \o f1, Append(<<>>, f1))
    BY <1>1, <1>2, <1>3, <1>4, ReadsOn
  <2>2. <<>> \o f1 = f1
    BY ConcatEmptySeq DEF Octets
  <2>3. Append(<<>>, f1) = <<f1>>
    BY Appended
  <2> QED
    BY <2>1, <2>2, <2>3 DEF FoundOne
<1> QED
  BY <1>3, <1>4

LEMMA FindsOne ==
  ASSUME NEW n1 \in Nat,
         NEW f1 \in Octets(n1), NEW rest \in Seq(Octet)
  PROVE  Read(f1 \o rest, <<Fixed(n1)>>) = ReaderAt(<<f1>>, rest)
<1> DEFINE bytes == f1 \o rest
           t == f1 \o rest
<1>1. f1 \in Seq(Octet)
  BY DEF Octets
<1>2. t \in Seq(Octet)
  BY <1>1
<1>3. ReaderOf(bytes) = ReaderAt(<<>>, t)
  BY DEF ReaderOf, ReaderAt
<1>4. <<>> \in Seq(Seq(Octet))
  OBVIOUS
<1>5. read_field(ReaderAt(<<>>, f1 \o rest), Fixed(n1)) = ReaderAt(Append(<<>>, f1), rest)
  BY <1>4, FindsOn, Zenon
<1>6. Append(<<>>, f1) = <<f1>>
  BY Appended
<1>7. Read(bytes, <<Fixed(n1)>>) = read_field(ReaderOf(bytes), Fixed(n1))
  BY StepOne
<1> QED
  BY <1>3, <1>5, <1>6, <1>7

LEMMA StepTwo ==
  ASSUME NEW bytes, NEW n1 \in Nat, NEW n2 \in Nat
  PROVE  Read(bytes, <<Fixed(n1), Fixed(n2)>>)
           = read_field(Read(bytes, <<Fixed(n1)>>), Fixed(n2))
<1> DEFINE F1 == Fixed(n1)
           F2 == Fixed(n2)
<1>1. F1 \in FixedSizes /\ F2 \in FixedSizes
  BY DEF FixedSizes
<1> HIDE DEF F1, F2
<1>2. <<F1>> \in Seq(FixedSizes)
  BY <1>1
<1>3. <<F1, F2>> = Append(<<F1>>, F2)
  BY Appended
<1>4. Read(bytes, Append(<<F1>>, F2)) = read_field(Read(bytes, <<F1>>), F2)
  BY <1>1, <1>2, ReadMore, Zenon
<1>5. Read(bytes, <<F1, F2>>) = read_field(Read(bytes, <<F1>>), F2)
  BY <1>3, <1>4
<1> QED
  BY <1>5 DEF F1, F2

FoundTwo(q, bytes, n1, n2) ==
  \E f1 \in Octets(n1), f2 \in Octets(n2) :
    HasRead(q, bytes, f1 \o f2, <<f1, f2>>)

LEMMA ReadsTwo ==
  ASSUME NEW bytes \in Seq(Octet), NEW n1 \in Nat, NEW n2 \in Nat,
         NEW q, q = Read(bytes, <<Fixed(n1), Fixed(n2)>>)
  PROVE  /\ q \in ReaderSort
         /\ ~q.short => FoundTwo(q, bytes, n1, n2)
<1> DEFINE r == Read(bytes, <<Fixed(n1)>>)
<1>1. q = read_field(r, Fixed(n2))
  BY StepTwo
<1>2. /\ r \in ReaderSort
      /\ ~r.short => FoundOne(r, bytes, n1)
  <2>1. r = Read(bytes, <<Fixed(n1)>>)
    OBVIOUS
  <2> HIDE DEF r
  <2> QED
    BY <2>1, ReadsOne
<1> HIDE DEF r
<1>3. q \in ReaderSort /\ (r.short => q.short)
  BY <1>1, <1>2, AllInSort
<1>4. ASSUME ~q.short
      PROVE  FoundTwo(q, bytes, n1, n2)
  <2>1. PICK f1 \in Octets(n1) : HasRead(r, bytes, f1, <<f1>>)
    BY <1>2, <1>3, <1>4 DEF FoundOne
  <2> DEFINE p == f1
             l == <<f1>>
  <2>2. HasRead(r, bytes, p, l)
    BY <2>1
  <2> HIDE DEF p, l
  <2>3. PICK f2 \in Octets(n2) : HasRead(q, bytes, p \o f2, Append(l, f2))
    BY <1>1, <1>4, <2>2, ReadsOn
  <2>4. Append(l, f2) = <<f1, f2>>
    BY Appended DEF l
  <2> QED
    BY <2>3, <2>4 DEF p, FoundTwo
<1> QED
  BY <1>3, <1>4

LEMMA FindsTwo ==
  ASSUME NEW n1 \in Nat, NEW n2 \in Nat,
         NEW f1 \in Octets(n1), NEW f2 \in Octets(n2), NEW rest \in Seq(Octet)
  PROVE  Read(f1 \o f2 \o rest, <<Fixed(n1), Fixed(n2)>>) = ReaderAt(<<f1, f2>>, rest)
<1> DEFINE bytes == f1 \o f2 \o rest
           t == f2 \o rest
<1>1. f1 \in Seq(Octet) /\ f2 \in Seq(Octet)
  BY DEF Octets
<1>2. t \in Seq(Octet)
  BY <1>1
<1>3. Read(bytes, <<Fixed(n1)>>) = ReaderAt(<<f1>>, t)
  <2> DEFINE p == f1
  <2>1. p \in Seq(Octet)
    BY <1>1
  <2>2. Read(p \o t, <<Fixed(n1)>>) = ReaderAt(<<f1>>, t)
    <3> HIDE DEF t
    <3> QED
      BY <1>2, FindsOne
  <2> HIDE DEF p
  <2>3. (p \o f2) \o rest = p \o t
    <3>1. p \in Seq(Octet) /\ f2 \in Seq(Octet) /\ rest \in Seq(Octet)
      BY <1>1, <2>1
    <3> QED
      BY <3>1, Associative, Zenon
  <2> QED
    BY <2>2, <2>3 DEF p
<1>4. <<f1>> \in Seq(Seq(Octet))
  BY <1>1
<1>5. read_field(ReaderAt(<<f1>>, f2 \o rest), Fixed(n2)) = ReaderAt(Append(<<f1>>, f2), rest)
  BY <1>4, FindsOn, Zenon
<1>6. Append(<<f1>>, f2) = <<f1, f2>>
  BY Appended
<1>7. Read(bytes, <<Fixed(n1), Fixed(n2)>>) = read_field(Read(bytes, <<Fixed(n1)>>), Fixed(n2))
  BY StepTwo
<1> QED
  BY <1>3, <1>5, <1>6, <1>7

LEMMA StepThree ==
  ASSUME NEW bytes, NEW n1 \in Nat, NEW n2 \in Nat, NEW n3 \in Nat
  PROVE  Read(bytes, <<Fixed(n1), Fixed(n2), Fixed(n3)>>)
           = read_field(Read(bytes, <<Fixed(n1), Fixed(n2)>>), Fixed(n3))
<1> DEFINE F1 == Fixed(n1)
           F2 == Fixed(n2)
           F3 == Fixed(n3)
<1>1. F1 \in FixedSizes /\ F2 \in FixedSizes /\ F3 \in FixedSizes
  BY DEF FixedSizes
<1> HIDE DEF F1, F2, F3
<1>2. <<F1, F2>> \in Seq(FixedSizes)
  BY <1>1
<1>3. <<F1, F2, F3>> = Append(<<F1, F2>>, F3)
  BY Appended
<1>4. Read(bytes, Append(<<F1, F2>>, F3)) = read_field(Read(bytes, <<F1, F2>>), F3)
  BY <1>1, <1>2, ReadMore, Zenon
<1>5. Read(bytes, <<F1, F2, F3>>) = read_field(Read(bytes, <<F1, F2>>), F3)
  BY <1>3, <1>4
<1> QED
  BY <1>5 DEF F1, F2, F3

FoundThree(q, bytes, n1, n2, n3) ==
  \E f1 \in Octets(n1), f2 \in Octets(n2), f3 \in Octets(n3) :
    HasRead(q, bytes, f1 \o f2 \o f3, <<f1, f2, f3>>)

LEMMA ReadsThree ==
  ASSUME NEW bytes \in Seq(Octet), NEW n1 \in Nat, NEW n2 \in Nat, NEW n3 \in Nat,
         NEW q, q = Read(bytes, <<Fixed(n1), Fixed(n2), Fixed(n3)>>)
  PROVE  /\ q \in ReaderSort
         /\ ~q.short => FoundThree(q, bytes, n1, n2, n3)
<1> DEFINE r == Read(bytes, <<Fixed(n1), Fixed(n2)>>)
<1>1. q = read_field(r, Fixed(n3))
  BY StepThree
<1>2. /\ r \in ReaderSort
      /\ ~r.short => FoundTwo(r, bytes, n1, n2)
  <2>1. r = Read(bytes, <<Fixed(n1), Fixed(n2)>>)
    OBVIOUS
  <2> HIDE DEF r
  <2> QED
    BY <2>1, ReadsTwo
<1> HIDE DEF r
<1>3. q \in ReaderSort /\ (r.short => q.short)
  BY <1>1, <1>2, AllInSort
<1>4. ASSUME ~q.short
      PROVE  FoundThree(q, bytes, n1, n2, n3)
  <2>1. PICK f1 \in Octets(n1), f2 \in Octets(n2) : HasRead(r, bytes, f1 \o f2, <<f1, f2>>)
    BY <1>2, <1>3, <1>4 DEF FoundTwo
  <2> DEFINE p == f1 \o f2
             l == <<f1, f2>>
  <2>2. HasRead(r, bytes, p, l)
    BY <2>1
  <2> HIDE DEF p, l
  <2>3. PICK f3 \in Octets(n3) : HasRead(q, bytes, p \o f3, Append(l, f3))
    BY <1>1, <1>4, <2>2, ReadsOn
  <2>4. Append(l, f3) = <<f1, f2, f3>>
    BY Appended DEF l
  <2> QED
    BY <2>3, <2>4 DEF p, FoundThree
<1> QED
  BY <1>3, <1>4

LEMMA FindsThree ==
  ASSUME NEW n1 \in Nat, NEW n2 \in Nat, NEW n3 \in Nat,
         NEW f1 \in Octets(n1), NEW f2 \in Octets(n2), NEW f3 \in Octets(n3), NEW rest \in Seq(Octet)
  PROVE  Read(f1 \o f2 \o f3 \o rest, <<Fixed(n1), Fixed(n2), Fixed(n3)>>) = ReaderAt(<<f1, f2, f3>>, rest)
<1> DEFINE bytes == f1 \o f2 \o f3 \o rest
           t == f3 \o rest
<1>1. f1 \in Seq(Octet) /\ f2 \in Seq(Octet) /\ f3 \in Seq(Octet)
  BY DEF Octets
<1>2. t \in Seq(Octet)
  BY <1>1
<1>3. Read(bytes, <<Fixed(n1), Fixed(n2)>>) = ReaderAt(<<f1, f2>>, t)
  <2> DEFINE p == f1 \o f2
  <2>1. p \in Seq(Octet)
    BY <1>1
  <2>2. Read(p \o t, <<Fixed(n1), Fixed(n2)>>) = ReaderAt(<<f1, f2>>, t)
    <3> HIDE DEF t
    <3> QED
      BY <1>2, FindsTwo
  <2> HIDE DEF p
  <2>3. (p \o f3) \o rest = p \o t
    <3>1. p \in Seq(Octet) /\ f3 \in Seq(Octet) /\ rest \in Seq(Octet)
      BY <1>1, <2>1
    <3> QED
      BY <3>1, Associative, Zenon
  <2> QED
    BY <2>2, <2>3 DEF p
<1>4. <<f1, f2>> \in Seq(Seq(Octet))
  BY <1>1
<1>5. read_field(ReaderAt(<<f1, f2>>, f3 \o rest), Fixed(n3)) = ReaderAt(Append(<<f1, f2>>, f3), rest)
  BY <1>4, FindsOn, Zenon
<1>6. Append(<<f1, f2>>, f3) = <<f1, f2, f3>>
  BY Appended
<1>7. Read(bytes, <<Fixed(n1), Fixed(n2), Fixed(n3)>>)
        = read_field(Read(bytes, <<Fixed(n1), Fixed(n2)>>), Fixed(n3))
  BY StepThree
<1> QED
  BY <1>3, <1>5, <1>6, <1>7

LEMMA StepFour ==
  ASSUME NEW bytes, NEW n1 \in Nat, NEW n2 \in Nat, NEW n3 \in Nat, NEW n4 \in Nat
  PROVE  Read(bytes, <<Fixed(n1), Fixed(n2), Fixed(n3), Fixed(n4)>>)
           = read_field(Read(bytes, <<Fixed(n1), Fixed(n2), Fixed(n3)>>), Fixed(n4))
<1> DEFINE F1 == Fixed(n1)
           F2 == Fixed(n2)
           F3 == Fixed(n3)
           F4 == Fixed(n4)
<1>1. F1 \in FixedSizes /\ F2 \in FixedSizes /\ F3 \in FixedSizes /\ F4 \in FixedSizes
  BY DEF FixedSizes
<1> HIDE DEF F1, F2, F3, F4
<1>2. <<F1, F2, F3>> \in Seq(FixedSizes)
  BY <1>1
<1>3. <<F1, F2, F3, F4>> = Append(<<F1, F2, F3>>, F4)
  BY Appended
<1>4. Read(bytes, Append(<<F1, F2, F3>>, F4)) = read_field(Read(bytes, <<F1, F2, F3>>), F4)
  BY <1>1, <1>2, ReadMore, Zenon
<1>5. Read(bytes, <<F1, F2, F3, F4>>) = read_field(Read(bytes, <<F1, F2, F3>>), F4)
  BY <1>3, <1>4
<1> QED
  BY <1>5 DEF F1, F2, F3, F4

FoundFour(q, bytes, n1, n2, n3, n4) ==
  \E f1 \in Octets(n1), f2 \in Octets(n2), f3 \in Octets(n3), f4 \in Octets(n4) :
    HasRead(q, bytes, f1 \o f2 \o f3 \o f4, <<f1, f2, f3, f4>>)

LEMMA ReadsFour ==
  ASSUME NEW bytes \in Seq(Octet), NEW n1 \in Nat, NEW n2 \in Nat, NEW n3 \in Nat, NEW n4 \in Nat,
         NEW q, q = Read(bytes, <<Fixed(n1), Fixed(n2), Fixed(n3), Fixed(n4)>>)
  PROVE  /\ q \in ReaderSort
         /\ ~q.short => FoundFour(q, bytes, n1, n2, n3, n4)
<1> DEFINE r == Read(bytes, <<Fixed(n1), Fixed(n2), Fixed(n3)>>)
<1>1. q = read_field(r, Fixed(n4))
  BY StepFour
<1>2. /\ r \in ReaderSort
      /\ ~r.short => FoundThree(r, bytes, n1, n2, n3)
  <2>1. r = Read(bytes, <<Fixed(n1), Fixed(n2), Fixed(n3)>>)
    OBVIOUS
  <2> HIDE DEF r
  <2> QED
    BY <2>1, ReadsThree
<1> HIDE DEF r
<1>3. q \in ReaderSort /\ (r.short => q.short)
  BY <1>1, <1>2, AllInSort
<1>4. ASSUME ~q.short
      PROVE  FoundFour(q, bytes, n1, n2, n3, n4)
  <2>1. PICK f1 \in Octets(n1), f2 \in Octets(n2), f3 \in Octets(n3) :
          HasRead(r, bytes, f1 \o f2 \o f3, <<f1, f2, f3>>)
    BY <1>2, <1>3, <1>4 DEF FoundThree
  <2> DEFINE p == f1 \o f2 \o f3
             l == <<f1, f2, f3>>
  <2>2. HasRead(r, bytes, p, l)
    BY <2>1
  <2> HIDE DEF p, l
  <2>3. PICK f4 \in Octets(n4) : HasRead(q, bytes, p \o f4, Append(l, f4))
    BY <1>1, <1>4, <2>2, ReadsOn
  <2>4. Append(l, f4) = <<f1, f2, f3, f4>>
    BY Appended DEF l
  <2> QED
    BY <2>3, <2>4 DEF p, FoundFour
<1> QED
  BY <1>3, <1>4

LEMMA FindsFour ==
  ASSUME NEW n1 \in Nat, NEW n2 \in Nat, NEW n3 \in Nat, NEW n4 \in Nat,
         NEW f1 \in Octets(n1), NEW f2 \in Octets(n2), NEW f3 \in Octets(n3), NEW f4 \in Octets(n4),
         NEW rest \in Seq(Octet)
  PROVE  Read(f1 \o f2 \o f3 \o f4 \o rest, <<Fixed(n1), Fixed(n2), Fixed(n3), Fixed(n4)>>)
           = ReaderAt(<<f1, f2, f3, f4>>, rest)
<1> DEFINE bytes == f1 \o f2 \o f3 \o f4 \o rest
           t == f4 \o rest
<1>1. f1 \in Seq(Octet) /\ f2 \in Seq(Octet) /\ f3 \in Seq(Octet) /\ f4 \in Seq(Octet)
  BY DEF Octets
<1>2. t \in Seq(Octet)
  BY <1>1
<1>3. Read(bytes, <<Fixed(n1), Fixed(n2), Fixed(n3)>>) = ReaderAt(<<f1, f2, f3>>, t)
  <2> DEFINE p == f1 \o f2 \o f3
  <2>1. p \in Seq(Octet)
    BY <1>1
  <2>2. Read(p \o t, <<Fixed(n1), Fixed(n2), Fixed(n3)>>) = ReaderAt(<<f1, f2, f3>>, t)
    <3> HIDE DEF t
    <3> QED
      BY <1>2, FindsThree
  <2> HIDE DEF p
  <2>3. (p \o f4) \o rest = p \o t
    <3>1. p \in Seq(Octet) /\ f4 \in Seq(Octet) /\ rest \in Seq(Octet)
      BY <1>1, <2>1
    <3> QED
      BY <3>1, Associative, Zenon
  <2> QED
    BY <2>2, <2>3 DEF p
<1>4. <<f1, f2, f3>> \in Seq(Seq(Octet))
  BY <1>1
<1>5. read_field(ReaderAt(<<f1, f2, f3>>, f4 \o rest), Fixed(n4)) = ReaderAt(Append(<<f1, f2, f3>>, f4), rest)
  BY <1>4, FindsOn, Zenon
<1>6. Append(<<f1, f2, f3>>, f4) = <<f1, f2, f3, f4>>
  BY Appended
<1>7. Read(bytes, <<Fixed(n1), Fixed(n2), Fixed(n3), Fixed(n4)>>)
        = read_field(Read(bytes, <<Fixed(n1), Fixed(n2), Fixed(n3)>>), Fixed(n4))
  BY StepFour
<1> QED
  BY <1>3, <1>5, <1>6, <1>7

LEMMA StepFive ==
  ASSUME NEW bytes, NEW n1 \in Nat, NEW n2 \in Nat, NEW n3 \in Nat, NEW n4 \in Nat, NEW n5 \in Nat
  PROVE  Read(bytes, <<Fixed(n1), Fixed(n2), Fixed(n3), Fixed(n4), Fixed(n5)>>)
           = read_field(Read(bytes, <<Fixed(n1), Fixed(n2), Fixed(n3), Fixed(n4)>>), Fixed(n5))
<1> DEFINE F1 == Fixed(n1)
           F2 == Fixed(n2)
           F3 == Fixed(n3)
           F4 == Fixed(n4)
           F5 == Fixed(n5)
<1>1. F1 \in FixedSizes /\ F2 \in FixedSizes /\ F3 \in FixedSizes /\ F4 \in FixedSizes /\ F5 \in FixedSizes
  BY DEF FixedSizes
<1> HIDE DEF F1, F2, F3, F4, F5
<1>2. <<F1, F2, F3, F4>> \in Seq(FixedSizes)
  BY <1>1
<1>3. <<F1, F2, F3, F4, F5>> = Append(<<F1, F2, F3, F4>>, F5)
  BY Appended
<1>4. Read(bytes, Append(<<F1, F2, F3, F4>>, F5)) = read_field(Read(bytes, <<F1, F2, F3, F4>>), F5)
  BY <1>1, <1>2, ReadMore, Zenon
<1>5. Read(bytes, <<F1, F2, F3, F4, F5>>) = read_field(Read(bytes, <<F1, F2, F3, F4>>), F5)
  BY <1>3, <1>4
<1> QED
  BY <1>5 DEF F1, F2, F3, F4, F5

FoundFive(q, bytes, n1, n2, n3, n4, n5) ==
  \E f1 \in Octets(n1), f2 \in Octets(n2), f3 \in Octets(n3), f4 \in Octets(n4), f5 \in Octets(n5) :
    HasRead(q, bytes, f1 \o f2 \o f3 \o f4 \o f5, <<f1, f2, f3, f4, f5>>)

LEMMA ReadsFive ==
  ASSUME NEW bytes \in Seq(Octet), NEW n1 \in Nat, NEW n2 \in Nat, NEW n3 \in Nat, NEW n4 \in Nat,
         NEW n5 \in Nat,
         NEW q, q = Read(bytes, <<Fixed(n1), Fixed(n2), Fixed(n3), Fixed(n4), Fixed(n5)>>)
  PROVE  /\ q \in ReaderSort
         /\ ~q.short => FoundFive(q, bytes, n1, n2, n3, n4, n5)
<1> DEFINE r == Read(bytes, <<Fixed(n1), Fixed(n2), Fixed(n3), Fixed(n4)>>)
<1>1. q = read_field(r, Fixed(n5))
  BY StepFive
<1>2. /\ r \in ReaderSort
      /\ ~r.short => FoundFour(r, bytes, n1, n2, n3, n4)
  <2>1. r = Read(bytes, <<Fixed(n1), Fixed(n2), Fixed(n3), Fixed(n4)>>)
    OBVIOUS
  <2> HIDE DEF r
  <2> QED
    BY <2>1, ReadsFour
<1> HIDE DEF r
<1>3. q \in ReaderSort /\ (r.short => q.short)
  BY <1>1, <1>2, AllInSort
<1>4. ASSUME ~q.short
      PROVE  FoundFive(q, bytes, n1, n2, n3, n4, n5)
  <2>1. PICK f1 \in Octets(n1), f2 \in Octets(n2), f3 \in Octets(n3), f4 \in Octets(n4) :
          HasRead(r, bytes, f1 \o f2 \o f3 \o f4, <<f1, f2, f3, f4>>)
    BY <1>2, <1>3, <1>4 DEF FoundFour
  <2> DEFINE p == f1 \o f2 \o f3 \o f4
             l == <<f1, f2, f3, f4>>
  <2>2. HasRead(r, bytes, p, l)
    BY <2>1
  <2> HIDE DEF p, l
  <2>3. PICK f5 \in Octets(n5) : HasRead(q, bytes, p \o f5, Append(l, f5))
    BY <1>1, <1>4, <2>2, ReadsOn
  <2>4. Append(l, f5) = <<f1, f2, f3, f4, f5>>
    BY Appended DEF l
  <2> QED
    BY <2>3, <2>4 DEF p, FoundFive
<1> QED
  BY <1>3, <1>4

-----------------------------------------------------------------------------
(* The constants are numbers, and the types among those known.             *)
LEMMA Sizes ==
  /\ DigestSize \in Nat /\ ProofSize \in Nat /\ Rsa \subseteq KnownType
  /\ VOPRF_P384_SHA384 \in KnownType /\ VOPRF_P384_SHA384 \notin Rsa
  /\ BLIND_RSA \in Rsa
  /\ \A type \in KnownType :
       type \in 0..MaxLength /\ authenticator_size[type] \in Nat /\ blinded_element_size[type] \in Nat
<1>1. SizesAssumption
  BY WireAssumption
<1>2. 0..MaxLength \subseteq Nat /\ 1..MaxLength \subseteq Nat
  BY Radix
<1> QED
  BY <1>1, <1>2 DEF SizesAssumption, Rsa

(* Bytes behind bytes.                                                          *)
LEMMA Joined == \A a, b \in Seq(Octet) : a \o b \in Seq(Octet) /\ Len(a \o b) = Len(a) + Len(b)
BY ConcatProperties

(* AuthenticatorInput.                                                         *)
LEMMA InputFields ==
  ASSUME NEW m \in InputSort
  PROVE  /\ written(m.token_type, 2) \in Octets(2) /\ number(written(m.token_type, 2)) = m.token_type
         /\ m.nonce \in Octets(DigestSize) /\ m.challenge_digest \in Octets(DigestSize)
         /\ m.token_key_id \in Octets(DigestSize)
BY TwoBytesWritten DEF InputSort

(* The fields of an input are found, whatever follows it.                       *)
LEMMA InputFound ==
  ASSUME NEW m \in InputSort, NEW rest \in Seq(Octet)
  PROVE  Read(serialize_input(m) \o rest, InputLayout)
           = ReaderAt(<<written(m.token_type, 2), m.nonce, m.challenge_digest, m.token_key_id>>, rest)
<1> DEFINE a == written(m.token_type, 2)
           b == m.nonce
           c == m.challenge_digest
           d == m.token_key_id
<1>1. a \in Octets(2) /\ b \in Octets(DigestSize) /\ c \in Octets(DigestSize) /\ d \in Octets(DigestSize)
  BY InputFields
<1>2. 2 \in Nat /\ DigestSize \in Nat
  BY Sizes
<1>3. serialize_input(m) = a \o b \o c \o d
  BY DEF serialize_input
<1> HIDE DEF a, b, c, d
<1>4. Read(a \o b \o c \o d \o rest, <<Fixed(2), Fixed(DigestSize), Fixed(DigestSize), Fixed(DigestSize)>>)
        = ReaderAt(<<a, b, c, d>>, rest)
  BY <1>1, <1>2, FindsFour
<1>5. Read(serialize_input(m) \o rest, InputLayout) = ReaderAt(<<a, b, c, d>>, rest)
  BY <1>3, <1>4 DEF InputLayout
<1> QED
  BY <1>5 DEF a, b, c, d

(* How long it is.                                                              *)
LEMMA InputLength ==
  ASSUME NEW m \in InputSort
  PROVE  /\ serialize_input(m) \in Seq(Octet)
         /\ Len(serialize_input(m)) = 2 + DigestSize + DigestSize + DigestSize
<1> DEFINE a == written(m.token_type, 2)
           b == m.nonce
           c == m.challenge_digest
           d == m.token_key_id
<1>1. a \in Octets(2) /\ b \in Octets(DigestSize) /\ c \in Octets(DigestSize) /\ d \in Octets(DigestSize)
  BY InputFields
<1>2. serialize_input(m) = a \o b \o c \o d
  BY DEF serialize_input
<1> HIDE DEF a, b, c, d
<1>3. /\ a \in Seq(Octet) /\ Len(a) = 2 /\ b \in Seq(Octet) /\ Len(b) = DigestSize
      /\ c \in Seq(Octet) /\ Len(c) = DigestSize /\ d \in Seq(Octet) /\ Len(d) = DigestSize
  BY <1>1 DEF Octets
<1>4. a \o b \in Seq(Octet) /\ Len(a \o b) = 2 + DigestSize
  <2>1. a \in Seq(Octet) /\ Len(a) = 2 /\ b \in Seq(Octet) /\ Len(b) = DigestSize
    BY <1>3
  <2> QED
    BY <2>1, Joined, Zenon
<1>5. (a \o b) \o c \in Seq(Octet) /\ Len((a \o b) \o c) = 2 + DigestSize + DigestSize
  BY <1>3, <1>4, Joined, Zenon
<1>6. /\ ((a \o b) \o c) \o d \in Seq(Octet)
      /\ Len(((a \o b) \o c) \o d) = 2 + DigestSize + DigestSize + DigestSize
  BY <1>3, <1>5, Joined, Zenon
<1> QED
  BY <1>2, <1>6, Zenon

InputOf(a, b, c, d) ==
  [token_type |-> number(a), nonce |-> b, challenge_digest |-> c, token_key_id |-> d]

(* What the fields make when they are written.                                  *)
LEMMA InputOfFields ==
  ASSUME NEW a \in Octets(2), NEW b \in Octets(DigestSize), NEW c \in Octets(DigestSize),
         NEW d \in Octets(DigestSize)
  PROVE  InputOf(a, b, c, d) \in InputSort /\ serialize_input(InputOf(a, b, c, d)) = a \o b \o c \o d
<1>1. a \in Seq(Octet) /\ Len(a) = 2
  BY DEF Octets
<1>2. number(a) \in 0..MaxLength /\ written(number(a), 2) = a
  BY <1>1, NumberOfTwo, TwoBytesRead
<1> QED
  BY <1>2 DEF InputOf, InputSort, serialize_input

(* AuthenticatorInput::deserialize of what serialize wrote.                     *)
LEMMA InputRoundTrip ==
  ASSUME NEW m \in InputSort
  PROVE  deserialize_input(serialize_input(m)) = Good(m)
<1> DEFINE w == serialize_input(m)
           q == Read(w, InputLayout)
           a == written(m.token_type, 2)
           b == m.nonce
           c == m.challenge_digest
           d == m.token_key_id
<1>1. w \in Seq(Octet) /\ <<>> \in Seq(Octet)
  BY InputLength
<1>2. Read(w \o <<>>, InputLayout) = ReaderAt(<<a, b, c, d>>, <<>>)
  BY <1>1, InputFound, Zenon
<1>3. w \o <<>> = w
  BY <1>1, ConcatEmptySeq
<1>4. ~q.short /\ q.fields = <<a, b, c, d>>
  BY <1>2, <1>3 DEF ReaderAt
<1>5. number(a) = m.token_type
  BY InputFields
<1>6. m = [token_type |-> m.token_type, nonce |-> b, challenge_digest |-> c, token_key_id |-> d]
  BY DEF InputSort
<1> HIDE DEF w, a, b, c, d
<1>7. deserialize_input(w) = Good([token_type |-> number(a), nonce |-> b, challenge_digest |-> c,
                                   token_key_id |-> d])
  BY <1>4 DEF deserialize_input, Complete
<1> QED
  BY <1>5, <1>6, <1>7 DEF w

(* What is decoded stands at the front of the bytes.                             *)
LEMMA InputRead ==
  ASSUME NEW w \in Seq(Octet), deserialize_input(w).error = "OK"
  PROVE  \E m \in InputSort, rest \in Seq(Octet) :
           deserialize_input(w) = Good(m) /\ w = serialize_input(m) \o rest
<1> DEFINE q == Read(w, InputLayout)
<1>1. 2 \in Nat /\ DigestSize \in Nat
  BY Sizes
<1>2. q \in ReaderSort /\ (~q.short => FoundFour(q, w, 2, DigestSize, DigestSize, DigestSize))
  BY <1>1, ReadsFour DEF InputLayout
<1> HIDE DEF q
<1>3. ~q.short
  BY DEF deserialize_input, Complete, Bad, q
<1>4. PICK a \in Octets(2), b \in Octets(DigestSize), c \in Octets(DigestSize), d \in Octets(DigestSize) :
        HasRead(q, w, a \o b \o c \o d, <<a, b, c, d>>)
  BY <1>2, <1>3 DEF FoundFour
<1>5. /\ q.fields = <<a, b, c, d>> /\ q.rest \in Seq(Octet) /\ w = (a \o b \o c \o d) \o q.rest
  BY <1>4 DEF HasRead, ReaderSort
<1>6. deserialize_input(w) = Good(InputOf(a, b, c, d))
  BY <1>3, <1>5 DEF deserialize_input, Complete, InputOf, q
<1> QED
  BY <1>5, <1>6, InputOfFields

-----------------------------------------------------------------------------
(* The type in the first two bytes.                                             *)
LEMMA TypeOfStart ==
  ASSUME NEW s \in Seq(Octet), NEW n \in 2..Len(s)
  PROVE  TypeAt(SubSeq(s, 1, n)) = TypeAt(s)
<1> DEFINE x == SubSeq(s, 1, n)
<1>1. /\ x \in Seq(Octet) /\ Len(x) = n /\ \A i \in 1..n : x[i] = s[i]
      /\ n \in Nat /\ n >= 2 /\ Len(s) >= 2 /\ Len(s) \in Nat
  OBVIOUS
<1> HIDE DEF x
<1>2. SubSeq(x, 1, 2) = SubSeq(s, 1, 2)
  <2> DEFINE y == SubSeq(x, 1, 2)
             z == SubSeq(s, 1, 2)
  <2>1. y \in Seq(Octet) /\ Len(y) = 2 /\ y[1] = x[1] /\ y[2] = x[2]
    BY <1>1
  <2>2. z \in Seq(Octet) /\ Len(z) = 2 /\ z[1] = s[1] /\ z[2] = s[2]
    BY <1>1
  <2>3. x[1] = s[1] /\ x[2] = s[2]
    BY <1>1
  <2> HIDE DEF y, z
  <2>4. \A i \in 1..2 : y[i] = z[i]
    BY <2>1, <2>2, <2>3
  <2>5. y = z
    BY <2>1, <2>2, <2>4, SeqEqual
  <2> QED
    BY <2>5 DEF y, z
<1> QED
  BY <1>2 DEF TypeAt, x

HasFront(a, s) == s \in Seq(Octet) /\ Len(s) >= 2 /\ TypeAt(s) = number(a)

(* Two bytes are in front of themselves,                                        *)
LEMMA FrontOfItself ==
  ASSUME NEW a \in Octets(2)
  PROVE  HasFront(a, a)
<1>1. a \in Seq(Octet) /\ Len(a) = 2
  BY DEF Octets
<1>2. SubSeq(a, 1, Len(a)) = a
  BY <1>1, SubSeqFull
<1>3. TypeAt(a) = number(a)
  BY <1>1, <1>2 DEF TypeAt
<1> QED
  BY <1>1, <1>3 DEF HasFront

(* stay in front whatever follows,                                              *)
LEMMA FrontStays ==
  ASSUME NEW a, NEW s, HasFront(a, s), NEW rest \in Seq(Octet)
  PROVE  HasFront(a, s \o rest)
<1> DEFINE t == s \o rest
<1>1. s \in Seq(Octet) /\ Len(s) >= 2 /\ Len(s) \in Nat
  BY DEF HasFront
<1>2. t \in Seq(Octet) /\ Len(t) = Len(s) + Len(rest) /\ Len(rest) \in Nat
      /\ SubSeq(t, 1, Len(s)) = s
  BY <1>1, Joined, Parted
<1> HIDE DEF t
<1>3. Len(s) \in 2..Len(t)
  BY <1>1, <1>2
<1>4. TypeAt(SubSeq(t, 1, Len(s))) = TypeAt(t)
  BY <1>2, <1>3, TypeOfStart
<1>5. HasFront(a, t)
  <2>1. Len(t) >= 2
    BY <1>1, <1>2
  <2> QED
    BY <1>2, <1>4, <2>1 DEF HasFront
<1> QED
  BY <1>5 DEF t

(* and so are in front of four fields more.                                     *)
LEMMA InFront ==
  ASSUME NEW a \in Octets(2), NEW b \in Seq(Octet), NEW c \in Seq(Octet), NEW d \in Seq(Octet),
         NEW e \in Seq(Octet)
  PROVE  HasFront(a, (((a \o b) \o c) \o d) \o e)
<1>1. HasFront(a, a \o b)
  BY FrontOfItself, FrontStays
<1> DEFINE x == a \o b
<1>2. HasFront(a, x \o c)
  <2> HIDE DEF x
  <2>1. HasFront(a, x)
    BY <1>1 DEF x
  <2> QED
    BY <2>1, FrontStays
<1> DEFINE y == x \o c
<1>3. HasFront(a, y \o d)
  <2> HIDE DEF y
  <2>1. HasFront(a, y)
    BY <1>2 DEF y
  <2> QED
    BY <2>1, FrontStays
<1> DEFINE z == y \o d
<1>4. HasFront(a, z \o e)
  <2> HIDE DEF z
  <2>1. HasFront(a, z)
    BY <1>3 DEF z
  <2> QED
    BY <2>1, FrontStays
<1> QED
  BY <1>4

(* Tokens.                                                                     *)
InputPart(m) ==
  [token_type |-> m.token_type, nonce |-> m.nonce, challenge_digest |-> m.challenge_digest,
   token_key_id |-> m.token_key_id]

(* The two parts of a token: what is authenticated, and the authenticator. *)
LEMMA TokenParts ==
  ASSUME NEW m \in TokenSort
  PROVE  /\ InputPart(m) \in InputSort /\ serialize_input(m) = serialize_input(InputPart(m))
         /\ m.token_type \in KnownType /\ m.authenticator \in Octets(authenticator_size[m.token_type])
         /\ authenticator_size[m.token_type] \in Nat
BY Sizes DEF TokenSort, InputSort, InputPart, serialize_input, Octets

(* A token is as long as its type says.                                         *)
LEMMA TokenLength ==
  ASSUME NEW m \in TokenSort
  PROVE  /\ serialize_token(m) \in Seq(Octet)
         /\ Len(serialize_token(m))
              = 2 + DigestSize + DigestSize + DigestSize + authenticator_size[m.token_type]
<1> DEFINE s == serialize_input(m)
<1>1. s \in Seq(Octet) /\ Len(s) = 2 + DigestSize + DigestSize + DigestSize
  BY TokenParts, InputLength
<1>2. m.authenticator \in Seq(Octet) /\ Len(m.authenticator) = authenticator_size[m.token_type]
  BY TokenParts DEF Octets
<1> HIDE DEF s
<1>3. s \o m.authenticator \in Seq(Octet) /\ Len(s \o m.authenticator) = Len(s) + Len(m.authenticator)
  BY <1>1, <1>2, Joined
<1> QED
  BY <1>1, <1>2, <1>3 DEF serialize_token, s

(* The type is read from where it was written.                                  *)
LEMMA TokenType ==
  ASSUME NEW m \in TokenSort
  PROVE  /\ TypeAt(serialize_token(m)) = m.token_type /\ Len(serialize_token(m)) >= 2
<1> DEFINE p == InputPart(m)
           a == written(m.token_type, 2)
           b == m.nonce
           c == m.challenge_digest
           d == m.token_key_id
           e == m.authenticator
<1>1. p \in InputSort /\ p.token_type = m.token_type /\ p.nonce = b /\ p.challenge_digest = c
      /\ p.token_key_id = d
  BY TokenParts DEF InputPart
<1>2. a \in Octets(2) /\ number(a) = m.token_type
      /\ b \in Octets(DigestSize) /\ c \in Octets(DigestSize) /\ d \in Octets(DigestSize)
  BY <1>1, InputFields
<1>3. b \in Seq(Octet) /\ c \in Seq(Octet) /\ d \in Seq(Octet) /\ e \in Seq(Octet)
  BY <1>2, TokenParts DEF Octets
<1>4. serialize_token(m) = (((a \o b) \o c) \o d) \o e
  BY DEF serialize_token, serialize_input
<1> HIDE DEF a, b, c, d, e, p
<1>5. HasFront(a, (((a \o b) \o c) \o d) \o e)
  BY <1>2, <1>3, InFront
<1> QED
  BY <1>2, <1>4, <1>5 DEF HasFront

(* The five fields of a token.                                                  *)
LEMMA TokenLayout ==
  ASSUME NEW n
  PROVE  Append(InputLayout, Fixed(n))
           = <<Fixed(2), Fixed(DigestSize), Fixed(DigestSize), Fixed(DigestSize), Fixed(n)>>
BY Appended DEF InputLayout

(* All five are found.                                                          *)
LEMMA TokenFound ==
  ASSUME NEW n \in Nat, NEW a \in Octets(2), NEW b \in Octets(DigestSize), NEW c \in Octets(DigestSize),
         NEW d \in Octets(DigestSize), NEW e \in Octets(n), NEW rest \in Seq(Octet)
  PROVE  Read(a \o b \o c \o d \o e \o rest, Append(InputLayout, Fixed(n)))
           = ReaderAt(<<a, b, c, d, e>>, rest)
<1> DEFINE x == a \o b \o c \o d
           t == e \o rest
           l == <<a, b, c, d>>
           bytes == x \o t
<1>1. /\ a \in Seq(Octet) /\ b \in Seq(Octet) /\ c \in Seq(Octet) /\ d \in Seq(Octet)
      /\ e \in Seq(Octet) /\ 2 \in Nat /\ DigestSize \in Nat
  BY Sizes DEF Octets
<1>2. t \in Seq(Octet)
  BY <1>1
<1>3. l \in Seq(Seq(Octet))
  BY <1>1
<1>4. x \in Seq(Octet)
  BY <1>1
<1>5. Read(bytes, InputLayout) = ReaderAt(l, t)
  <2> HIDE DEF t
  <2>1. Read(a \o b \o c \o d \o t,
             <<Fixed(2), Fixed(DigestSize), Fixed(DigestSize), Fixed(DigestSize)>>)
               = ReaderAt(<<a, b, c, d>>, t)
    <3>1. /\ a \in Octets(2) /\ b \in Octets(DigestSize) /\ c \in Octets(DigestSize)
          /\ d \in Octets(DigestSize)
      OBVIOUS
    <3>2. 2 \in Nat /\ DigestSize \in Nat
      BY <1>1
    <3> QED
      BY <1>2, <3>1, <3>2, FindsFour
  <2> QED
    BY <2>1 DEF InputLayout
<1>6. InputLayout \in Seq(FixedSizes) /\ Fixed(n) \in FixedSizes
  BY <1>1 DEF InputLayout, FixedSizes
<1> HIDE DEF x, t, l, bytes
<1>7. Read(bytes, Append(InputLayout, Fixed(n))) = read_field(Read(bytes, InputLayout), Fixed(n))
  BY <1>6, ReadMore
<1>8. read_field(ReaderAt(l, t), Fixed(n)) = ReaderAt(Append(l, e), rest)
  BY <1>3, FindsOn DEF t
<1>9. Append(l, e) = <<a, b, c, d, e>>
  BY Appended DEF l
<1>10. (x \o e) \o rest = bytes
  <2>1. x \in Seq(Octet) /\ e \in Seq(Octet) /\ rest \in Seq(Octet)
    BY <1>1, <1>4
  <2> QED
    BY <2>1, Associative, Zenon DEF t, bytes
<1>11. Read((x \o e) \o rest, Append(InputLayout, Fixed(n))) = ReaderAt(<<a, b, c, d, e>>, rest)
  BY <1>5, <1>7, <1>8, <1>9, <1>10
<1> QED
  BY <1>11 DEF x

(* Token::deserialize of what serialize wrote.                                  *)
LEMMA TokenRoundTrip ==
  ASSUME NEW m \in TokenSort
  PROVE  deserialize_token(serialize_token(m)) = Good(m)
<1> DEFINE w == serialize_token(m)
           n == authenticator_size[m.token_type]
           q == Read(w, Append(InputLayout, Fixed(n)))
           a == written(m.token_type, 2)
           b == m.nonce
           c == m.challenge_digest
           d == m.token_key_id
           e == m.authenticator
           p == InputPart(m)
<1>1. p \in InputSort /\ p.token_type = m.token_type /\ p.nonce = b /\ p.challenge_digest = c
      /\ p.token_key_id = d
  BY TokenParts DEF InputPart
<1>2. a \in Octets(2) /\ number(a) = m.token_type
      /\ b \in Octets(DigestSize) /\ c \in Octets(DigestSize) /\ d \in Octets(DigestSize)
      /\ e \in Octets(n) /\ n \in Nat /\ 2 \in Nat /\ DigestSize \in Nat /\ m.token_type \in KnownType
  BY <1>1, InputFields, TokenParts, Sizes
<1>3. w = a \o b \o c \o d \o e
  BY DEF serialize_token, serialize_input
<1>4. w \in Seq(Octet) /\ w \o <<>> = w /\ <<>> \in Seq(Octet)
  BY TokenLength, ConcatEmptySeq
<1>5. TypeAt(w) = m.token_type /\ ~(Len(w) < 2)
  <2>1. Len(w) \in Nat
    BY <1>4
  <2> QED
    BY <2>1, TokenType
<1>6. m = [token_type |-> m.token_type, nonce |-> b, challenge_digest |-> c, token_key_id |-> d,
           authenticator |-> e]
  BY DEF TokenSort
<1> HIDE DEF w, n, a, b, c, d, e, p
<1>7. Read(a \o b \o c \o d \o e \o <<>>, Append(InputLayout, Fixed(n)))
        = ReaderAt(<<a, b, c, d, e>>, <<>>)
  <2> DEFINE none == <<>>
  <2>1. none \in Seq(Octet)
    BY <1>4
  <2>2. Read(a \o b \o c \o d \o e \o none, Append(InputLayout, Fixed(n)))
          = ReaderAt(<<a, b, c, d, e>>, none)
    <3> HIDE DEF none
    <3> QED
      BY <1>2, <2>1, TokenFound
  <2> QED
    BY <2>2
<1>8. q = ReaderAt(<<a, b, c, d, e>>, <<>>)
  BY <1>3, <1>4, <1>7, Zenon
<1>9. ~q.short /\ q.fields = <<a, b, c, d, e>> /\ ~Trailing(q.rest)
  BY <1>8 DEF ReaderAt, Trailing
<1>10. deserialize_token(w)
         = Good([token_type |-> m.token_type, nonce |-> b, challenge_digest |-> c, token_key_id |-> d,
                 authenticator |-> e])
  BY <1>2, <1>5, <1>9 DEF deserialize_token, Complete, n
<1> QED
  BY <1>6, <1>10 DEF w

(* What is decoded is all that there is.                                         *)
LEMMA TokenRead ==
  ASSUME NEW w \in Seq(Octet), deserialize_token(w).error = "OK"
  PROVE  \E m \in TokenSort : deserialize_token(w) = Good(m) /\ w = serialize_token(m)
<1> DEFINE type == TypeAt(w)
           n == authenticator_size[type]
           q == Read(w, Append(InputLayout, Fixed(n)))
<1>1. ~(Len(w) < 2) /\ type \in KnownType
  BY DEF deserialize_token, Bad
<1>2. 2 \in Nat /\ DigestSize \in Nat /\ n \in Nat
  BY <1>1, Sizes
<1>3. q \in ReaderSort /\ (~q.short => FoundFive(q, w, 2, DigestSize, DigestSize, DigestSize, n))
  <2> HIDE DEF n, type
  <2>1. q = Read(w, <<Fixed(2), Fixed(DigestSize), Fixed(DigestSize), Fixed(DigestSize), Fixed(n)>>)
    BY TokenLayout
  <2> HIDE DEF q
  <2> QED
    BY <1>2, <2>1, ReadsFive
<1> HIDE DEF q, type, n
<1>4. ~q.short /\ q.rest = <<>>
  BY <1>1 DEF deserialize_token, Complete, Trailing, Bad, q, type, n
<1>5. PICK a \in Octets(2), b \in Octets(DigestSize), c \in Octets(DigestSize), d \in Octets(DigestSize),
           e \in Octets(n) : HasRead(q, w, a \o b \o c \o d \o e, <<a, b, c, d, e>>)
  BY <1>3, <1>4 DEF FoundFive
<1> DEFINE m == [token_type |-> type, nonce |-> b, challenge_digest |-> c, token_key_id |-> d,
                 authenticator |-> e]
<1>6. q.fields = <<a, b, c, d, e>> /\ w = (a \o b \o c \o d \o e) \o <<>>
  BY <1>4, <1>5 DEF HasRead
<1>7. w = a \o b \o c \o d \o e
  <2>1. a \o b \o c \o d \o e \in Seq(Octet)
    BY <1>5 DEF HasRead
  <2> QED
    BY <1>6, <2>1, ConcatEmptySeq, Zenon
<1>8. deserialize_token(w) = Good(m)
  BY <1>1, <1>4, <1>6 DEF deserialize_token, Complete, Trailing, q, type, n
<1>9. type = number(a) /\ written(type, 2) = a
  <2>1. a \in Seq(Octet) /\ Len(a) = 2 /\ b \in Seq(Octet) /\ c \in Seq(Octet) /\ d \in Seq(Octet)
        /\ e \in Seq(Octet)
    BY DEF Octets
  <2>3. type = number(a)
    BY <1>7, <2>1, InFront DEF type, HasFront
  <2> QED
    BY <2>1, <2>3, TwoBytesRead
<1>10. m \in TokenSort
  BY <1>1 DEF TokenSort, Octets, n
<1>11. serialize_token(m) = w
  BY <1>7, <1>9 DEF serialize_token, serialize_input
<1> HIDE DEF m
<1> QED
  BY <1>8, <1>10, <1>11

(* Bytes that end early have the type, and with it the size, of the whole       *)
(* token.                                                                       *)
LEMMA TokenTruncated ==
  ASSUME NEW m \in TokenSort, NEW n \in 0..(Len(serialize_token(m)) - 1)
  PROVE  deserialize_token(SubSeq(serialize_token(m), 1, n)).error # "OK"
<1> DEFINE s == serialize_token(m)
           w == SubSeq(s, 1, n)
<1>1. s \in Seq(Octet) /\ Len(s) \in Nat /\ n \in Nat /\ n < Len(s)
  BY TokenLength
<1>2. TypeAt(s) = m.token_type /\ m.token_type \in KnownType
      /\ Len(s) = 2 + DigestSize + DigestSize + DigestSize + authenticator_size[m.token_type]
  BY TokenType, TokenLength, TokenParts
<1> HIDE DEF s
<1>3. w \in Seq(Octet) /\ Len(w) = n
  BY <1>1
<1>4. SUFFICES ASSUME deserialize_token(w).error = "OK"
               PROVE  FALSE
  BY DEF s
<1>5. PICK m2 \in TokenSort : w = serialize_token(m2)
  BY <1>3, <1>4, TokenRead
<1>6. TypeAt(w) = m2.token_type /\ Len(w) >= 2
      /\ Len(w) = 2 + DigestSize + DigestSize + DigestSize + authenticator_size[m2.token_type]
  BY <1>5, TokenType, TokenLength
<1>7. TypeAt(w) = TypeAt(s)
  <2>1. n \in 2..Len(s)
    BY <1>1, <1>3, <1>6
  <2> QED
    BY <1>1, <2>1, TypeOfStart
<1>8. Len(w) = Len(s)
  BY <1>2, <1>6, <1>7
<1> QED
  BY <1>1, <1>3, <1>8

-----------------------------------------------------------------------------
(* Requests.                                                                   *)
ReadRequestSort ==
  {r \in [token_type : 0..MaxLength, truncated_token_key_id : Octet, blinded_msg : Seq(Octet)] :
     Len(r.blinded_msg) = SizeFor(blinded_element_size, r.token_type)}

(* An unknown type has a blinded message without bytes.                         *)
LEMMA BlindedSize ==
  ASSUME NEW type
  PROVE  SizeFor(blinded_element_size, type) \in Nat
BY Sizes DEF SizeFor

(* The parts of a request are bytes of their sizes.                             *)
LEMMA RequestParts ==
  ASSUME NEW m \in ReadRequestSort
  PROVE  /\ written(m.token_type, 2) \in Octets(2) /\ number(written(m.token_type, 2)) = m.token_type
         /\ written(m.truncated_token_key_id, 1) \in Octets(1)
         /\ number(written(m.truncated_token_key_id, 1)) = m.truncated_token_key_id
         /\ m.blinded_msg \in Octets(SizeFor(blinded_element_size, m.token_type))
BY TwoBytesWritten, OneByte DEF ReadRequestSort, Octets

(* What a client builds is among what the decoder makes.                        *)
LEMMA RequestIsReadable == RequestSort \subseteq ReadRequestSort
BY Sizes DEF RequestSort, ReadRequestSort, SizeFor

(* A request is as long as its type says.                                       *)
LEMMA RequestLength ==
  ASSUME NEW m \in ReadRequestSort
  PROVE  /\ serialize_request(m) \in Seq(Octet) /\ TypeAt(serialize_request(m)) = m.token_type
         /\ Len(serialize_request(m)) = 2 + 1 + SizeFor(blinded_element_size, m.token_type)
<1> DEFINE a == written(m.token_type, 2)
           b == written(m.truncated_token_key_id, 1)
           c == m.blinded_msg
           n == SizeFor(blinded_element_size, m.token_type)
<1>1. a \in Octets(2) /\ number(a) = m.token_type /\ b \in Octets(1) /\ c \in Octets(n)
  BY RequestParts
<1>2. serialize_request(m) = a \o b \o c
  BY DEF serialize_request
<1>3. n \in Nat
  BY BlindedSize
<1> HIDE DEF a, b, c, n
<1>4. /\ a \in Seq(Octet) /\ Len(a) = 2 /\ b \in Seq(Octet) /\ Len(b) = 1
      /\ c \in Seq(Octet) /\ Len(c) = n
  BY <1>1 DEF Octets
<1> DEFINE x == a \o b
<1>5. x \in Seq(Octet) /\ Len(x) = 2 + 1 /\ HasFront(a, x)
  <2>1. x \in Seq(Octet) /\ Len(x) = 2 + 1
    BY <1>4, Joined, Zenon
  <2>2. HasFront(a, x)
    BY <1>1, <1>4, FrontOfItself, FrontStays, Zenon
  <2> QED
    BY <2>1, <2>2
<1> HIDE DEF x
<1>6. x \o c \in Seq(Octet) /\ Len(x \o c) = 2 + 1 + n /\ HasFront(a, x \o c)
  <2>1. x \o c \in Seq(Octet) /\ Len(x \o c) = Len(x) + Len(c)
    BY <1>4, <1>5, Joined
  <2>0. Len(x) = 2 + 1 /\ Len(c) = n
    BY <1>4, <1>5
  <2>2. HasFront(a, x \o c)
    BY <1>4, <1>5, FrontStays, Zenon
  <2> QED
    BY <2>0, <2>1, <2>2, Zenon
<1> QED
  BY <1>1, <1>2, <1>6 DEF HasFront, x, n

(* TokenRequest::deserialize of what serialize wrote.                           *)
LEMMA RequestRoundTrip ==
  ASSUME NEW m \in ReadRequestSort
  PROVE  deserialize_request(serialize_request(m)) = Good(m)
<1> DEFINE w == serialize_request(m)
           a == written(m.token_type, 2)
           b == written(m.truncated_token_key_id, 1)
           c == m.blinded_msg
           n == SizeFor(blinded_element_size, m.token_type)
           q == Read(w, <<Fixed(2), Fixed(1), Fixed(n)>>)
<1>1. /\ a \in Octets(2) /\ number(a) = m.token_type /\ b \in Octets(1) /\ c \in Octets(n)
      /\ number(b) = m.truncated_token_key_id
  BY RequestParts
<1>2. /\ w \in Seq(Octet) /\ TypeAt(w) = m.token_type /\ ~(Len(w) < 3) /\ n \in Nat
  <2>1. w \in Seq(Octet) /\ TypeAt(w) = m.token_type /\ Len(w) = 2 + 1 + n /\ n \in Nat
    BY RequestLength, BlindedSize
  <2> HIDE DEF w, n
  <2> QED
    BY <2>1
<1>3. w = a \o b \o c
  BY DEF serialize_request
<1>4. m = [token_type |-> m.token_type, truncated_token_key_id |-> m.truncated_token_key_id,
           blinded_msg |-> c]
  BY DEF ReadRequestSort
<1> HIDE DEF w, a, b, c
<1>5. q = ReaderAt(<<a, b, c>>, <<>>)
  <2> DEFINE none == <<>>
  <2>1. none \in Seq(Octet) /\ w \o none = w /\ 2 \in Nat /\ 1 \in Nat
    BY <1>2, ConcatEmptySeq
  <2>2. Read(a \o b \o c \o none, <<Fixed(2), Fixed(1), Fixed(n)>>) = ReaderAt(<<a, b, c>>, none)
    <3> HIDE DEF none, n
    <3> QED
      BY <1>1, <1>2, <2>1, FindsThree
  <2> QED
    BY <1>3, <2>1, <2>2
<1>6. ~q.short /\ q.fields = <<a, b, c>> /\ ~Trailing(q.rest)
  BY <1>5 DEF ReaderAt, Trailing
<1>7. deserialize_request(w)
        = Good([token_type |-> number(a), truncated_token_key_id |-> number(b), blinded_msg |-> c])
  <2>1. q.fields[1] = a /\ q.fields[2] = b /\ q.fields[3] = c
    BY <1>6
  <2>2. Read(w, <<Fixed(2), Fixed(1), Fixed(SizeFor(blinded_element_size, TypeAt(w)))>>) = q
    BY <1>2
  <2> HIDE DEF q, n
  <2> QED
    BY <1>2, <1>6, <2>1, <2>2, Zenon DEF deserialize_request, Complete
<1> QED
  BY <1>1, <1>4, <1>7 DEF w

(* What is decoded is all that there is.                                        *)
LEMMA RequestRead ==
  ASSUME NEW w \in Seq(Octet), deserialize_request(w).error = "OK"
  PROVE  \E m \in ReadRequestSort : deserialize_request(w) = Good(m) /\ w = serialize_request(m)
<1> DEFINE type == TypeAt(w)
           n == SizeFor(blinded_element_size, type)
           q == Read(w, <<Fixed(2), Fixed(1), Fixed(n)>>)
<1>1. ~(Len(w) < 3)
  BY DEF deserialize_request, Bad
<1>2. 2 \in Nat /\ 1 \in Nat /\ n \in Nat
  BY BlindedSize
<1>3. q \in ReaderSort /\ (~q.short => FoundThree(q, w, 2, 1, n))
  <2>1. q = Read(w, <<Fixed(2), Fixed(1), Fixed(n)>>)
    OBVIOUS
  <2> HIDE DEF q, n
  <2> QED
    BY <1>2, <2>1, ReadsThree
<1> HIDE DEF q, type, n
<1>0. deserialize_request(w) = Complete(q, LAMBDA read :
        IF Trailing(read.rest) THEN Bad("MALFORMED_DATA")
        ELSE Good([token_type |-> number(read.fields[1]),
                   truncated_token_key_id |-> number(read.fields[2]),
                   blinded_msg |-> read.fields[3]]))
  BY <1>1, Zenon DEF deserialize_request, q, type, n
<1>4. ~q.short /\ q.rest = <<>>
  <2>1. ~q.short
    BY <1>0 DEF Complete, Bad
  <2>2. ~Trailing(q.rest)
    BY <1>0, <2>1 DEF Complete, Bad
  <2> QED
    BY <2>1, <2>2 DEF Trailing
<1>5. PICK a \in Octets(2), b \in Octets(1), c \in Octets(n) : HasRead(q, w, a \o b \o c, <<a, b, c>>)
  BY <1>3, <1>4 DEF FoundThree
<1> DEFINE m == [token_type |-> number(a), truncated_token_key_id |-> number(b), blinded_msg |-> c]
<1>6. q.fields = <<a, b, c>> /\ w = (a \o b \o c) \o <<>> /\ a \o b \o c \in Seq(Octet)
  BY <1>4, <1>5 DEF HasRead
<1>7. w = a \o b \o c
  BY <1>6, ConcatEmptySeq, Zenon
<1>8. deserialize_request(w) = Good(m)
  BY <1>0, <1>4, <1>6 DEF Complete, Trailing
<1>9. /\ a \in Seq(Octet) /\ Len(a) = 2 /\ b \in Seq(Octet) /\ Len(b) = 1 /\ c \in Seq(Octet) /\ Len(c) = n
  BY DEF Octets
<1>10. type = number(a)
  <2> DEFINE x == a \o b
  <2>1. x \in Seq(Octet) /\ HasFront(a, x)
    BY <1>9, Joined, FrontOfItself, FrontStays
  <2> HIDE DEF x
  <2>2. HasFront(a, x \o c)
    BY <1>9, <2>1, FrontStays
  <2> QED
    BY <1>7, <2>2 DEF HasFront, type, x
<1>11. number(a) \in 0..MaxLength /\ written(number(a), 2) = a
  BY <1>9, NumberOfTwo, TwoBytesRead
<1>12. number(b) \in Octet /\ written(number(b), 1) = b
  BY <1>9, NumberOfOne, OneByte
<1>13. m \in ReadRequestSort
  BY <1>9, <1>10, <1>11, <1>12 DEF ReadRequestSort, n
<1>14. serialize_request(m) = w
  BY <1>7, <1>11, <1>12 DEF serialize_request
<1> HIDE DEF m
<1> QED
  BY <1>8, <1>13, <1>14

(* Bytes that end early have the type, and with it the size, of the whole       *)
(* request.                                                                     *)
LEMMA RequestTruncated ==
  ASSUME NEW m \in ReadRequestSort, NEW n \in 0..(Len(serialize_request(m)) - 1)
  PROVE  deserialize_request(SubSeq(serialize_request(m), 1, n)).error # "OK"
<1> DEFINE s == serialize_request(m)
           w == SubSeq(s, 1, n)
<1>1. s \in Seq(Octet) /\ Len(s) \in Nat /\ n \in Nat /\ n < Len(s)
  BY RequestLength
<1>2. TypeAt(s) = m.token_type /\ Len(s) = 2 + 1 + SizeFor(blinded_element_size, m.token_type)
  BY RequestLength
<1> HIDE DEF s
<1>3. w \in Seq(Octet) /\ Len(w) = n
  BY <1>1
<1>4. SUFFICES ASSUME deserialize_request(w).error = "OK"
               PROVE  FALSE
  BY DEF s
<1>5. PICK m2 \in ReadRequestSort : w = serialize_request(m2)
  BY <1>3, <1>4, RequestRead
<1>6. TypeAt(w) = m2.token_type /\ Len(w) = 2 + 1 + SizeFor(blinded_element_size, m2.token_type)
  BY <1>5, RequestLength
<1>7. TypeAt(w) = TypeAt(s)
  <2>1. SizeFor(blinded_element_size, m2.token_type) \in Nat
    BY BlindedSize
  <2>2. n \in 2..Len(s)
    BY <1>1, <1>3, <1>6, <2>1
  <2> QED
    BY <1>1, <2>2, TypeOfStart
<1>8. Len(w) = Len(s)
  BY <1>2, <1>6, <1>7
<1> QED
  BY <1>1, <1>3, <1>8

-----------------------------------------------------------------------------
(* Responses: a client knows their type.                                        *)
ResponseSize(type) ==
  IF type \in Rsa THEN authenticator_size[BLIND_RSA] ELSE VoprfResponseSize

(* The sizes of responses are numbers.                                          *)
LEMMA ResponseSizes ==
  /\ authenticator_size[BLIND_RSA] \in Nat /\ blinded_element_size[VOPRF_P384_SHA384] \in Nat
  /\ VoprfResponseSize \in Nat /\ VOPRF_P384_SHA384 \notin Rsa
BY Sizes DEF VoprfResponseSize

(* A response is a signature, or an element and its proof.                      *)
LEMMA ResponseCases ==
  ASSUME NEW m \in ResponseSort
  PROVE  /\ m.token_type \in Rsa \cup {VOPRF_P384_SHA384}
         /\ m.token_type \in Rsa =>
              /\ m.blind_sig \in Seq(Octet) /\ Len(m.blind_sig) = authenticator_size[BLIND_RSA]
              /\ m = [token_type |-> m.token_type, blind_sig |-> m.blind_sig]
         /\ m.token_type \notin Rsa =>
              /\ m.token_type = VOPRF_P384_SHA384
              /\ m.evaluate_msg \in Octets(blinded_element_size[VOPRF_P384_SHA384])
              /\ m.evaluate_proof \in Octets(ProofSize)
              /\ m = [token_type |-> VOPRF_P384_SHA384, evaluate_msg |-> m.evaluate_msg,
                      evaluate_proof |-> m.evaluate_proof]
<1>1. VOPRF_P384_SHA384 \notin Rsa
  BY ResponseSizes
<1>2. CASE m \in [token_type : Rsa, blind_sig : Octets(authenticator_size[BLIND_RSA])]
  BY <1>2 DEF Octets
<1>3. CASE m \in [token_type : {VOPRF_P384_SHA384}, evaluate_proof : Octets(ProofSize),
                  evaluate_msg : Octets(blinded_element_size[VOPRF_P384_SHA384])]
  BY <1>1, <1>3
<1> QED
  BY <1>2, <1>3 DEF ResponseSort

(* A response is as long as its type says.                                      *)
LEMMA ResponseLength ==
  ASSUME NEW m \in ResponseSort
  PROVE  /\ serialize_response(m) \in Seq(Octet)
         /\ Len(serialize_response(m)) = ResponseSize(m.token_type)
<1>1. CASE m.token_type \in Rsa
  BY <1>1, ResponseCases DEF serialize_response, ResponseSize
<1>2. CASE m.token_type \notin Rsa
  <2> DEFINE a == m.evaluate_msg
             b == m.evaluate_proof
  <2>1. /\ a \in Seq(Octet) /\ Len(a) = blinded_element_size[VOPRF_P384_SHA384]
        /\ b \in Seq(Octet) /\ Len(b) = ProofSize
    BY <1>2, ResponseCases DEF Octets
  <2> HIDE DEF a, b
  <2>2. a \o b \in Seq(Octet) /\ Len(a \o b) = Len(a) + Len(b)
    BY <2>1, Joined
  <2> QED
    BY <1>2, <2>1, <2>2 DEF serialize_response, ResponseSize, VoprfResponseSize, a, b
<1> QED
  BY <1>1, <1>2

(* TokenResponse::deserialize of what serialize wrote.                          *)
LEMMA ResponseRoundTrip ==
  ASSUME NEW m \in ResponseSort
  PROVE  deserialize_response(m.token_type, serialize_response(m)) = Good(m)
<1> DEFINE w == serialize_response(m)
<1>1. w \in Seq(Octet) /\ Len(w) = ResponseSize(m.token_type)
  BY ResponseLength
<1>2. CASE m.token_type \in Rsa
  BY <1>1, <1>2, ResponseCases DEF serialize_response, deserialize_response, ResponseSize
<1>3. CASE m.token_type \notin Rsa
  <2> DEFINE a == m.evaluate_msg
             b == m.evaluate_proof
             n == blinded_element_size[VOPRF_P384_SHA384]
  <2>1. /\ a \in Seq(Octet) /\ Len(a) = n /\ b \in Seq(Octet)
        /\ m = [token_type |-> VOPRF_P384_SHA384, evaluate_msg |-> a, evaluate_proof |-> b]
        /\ m.token_type = VOPRF_P384_SHA384
    BY <1>3, ResponseCases DEF Octets
  <2>2. w = a \o b /\ Len(w) = VoprfResponseSize
    BY <1>1, <1>3 DEF serialize_response, ResponseSize
  <2> HIDE DEF a, b, w
  <2>3. SubSeq(w, 1, Len(a)) = a /\ SubSeq(w, Len(a) + 1, Len(w)) = b
    BY <2>1, <2>2, Parted
  <2>4. deserialize_response(m.token_type, w)
          = Good([token_type |-> VOPRF_P384_SHA384, evaluate_msg |-> SubSeq(w, 1, n),
                  evaluate_proof |-> SubSeq(w, n + 1, Len(w))])
    BY <1>3, <2>1, <2>2 DEF deserialize_response, From
  <2>5. SubSeq(w, 1, n) = a /\ SubSeq(w, n + 1, Len(w)) = b
    BY <2>1, <2>3
  <2> QED
    BY <2>1, <2>4, <2>5 DEF w
<1> QED
  BY <1>2, <1>3

(* Bytes cut in two.                                                            *)
LEMMA CutOctets == \A w \in Seq(Octet) : \A n \in 0..Len(w) :
  /\ SubSeq(w, 1, n) \in Seq(Octet) /\ Len(SubSeq(w, 1, n)) = n
  /\ SubSeq(w, n + 1, Len(w)) \in Seq(Octet) /\ Len(SubSeq(w, n + 1, Len(w))) = Len(w) - n
  /\ w = SubSeq(w, 1, n) \o SubSeq(w, n + 1, Len(w))
<1> TAKE w \in Seq(Octet)
<1> TAKE n \in 0..Len(w)
<1> QED
  BY SplitOff, Zenon

(* What is decoded is all that there is.                                        *)
LEMMA ResponseRead ==
  ASSUME NEW type, NEW w \in Seq(Octet), deserialize_response(type, w).error = "OK"
  PROVE  \E m \in ResponseSort :
           /\ deserialize_response(type, w) = Good(m) /\ m.token_type = type
           /\ w = serialize_response(m)
<1>1. CASE type \in Rsa
  <2> DEFINE m == [token_type |-> type, blind_sig |-> w]
  <2>1. Len(w) = authenticator_size[BLIND_RSA] /\ deserialize_response(type, w) = Good(m)
    BY <1>1 DEF deserialize_response, Bad
  <2>2. m \in ResponseSort /\ m.token_type = type /\ serialize_response(m) = w
    BY <1>1, <2>1 DEF ResponseSort, Octets, serialize_response
  <2> QED
    BY <2>1, <2>2
<1>2. CASE type \notin Rsa
  <2> DEFINE n == blinded_element_size[VOPRF_P384_SHA384]
             a == SubSeq(w, 1, n)
             b == SubSeq(w, n + 1, Len(w))
             m == [token_type |-> type, evaluate_msg |-> a, evaluate_proof |-> b]
  <2>1. type = VOPRF_P384_SHA384 /\ Len(w) = n + ProofSize
    BY <1>2 DEF deserialize_response, Bad, VoprfResponseSize
  <2>2. deserialize_response(type, w) = Good(m)
    BY <1>2, <2>1 DEF deserialize_response, VoprfResponseSize, From
  <2>3. n \in Nat /\ ProofSize \in Nat
    BY Sizes
  <2>4. n \in 0..Len(w) /\ Len(w) - n = ProofSize
    <3> HIDE DEF n
    <3> QED
      BY <2>1, <2>3
  <2> HIDE DEF n
  <2>5. a \in Seq(Octet) /\ Len(a) = n /\ b \in Seq(Octet) /\ Len(b) = ProofSize /\ w = a \o b
    <3>0. n \in 0..Len(w)
      BY <2>4
    <3>1. /\ SubSeq(w, 1, n) \in Seq(Octet) /\ Len(SubSeq(w, 1, n)) = n
          /\ SubSeq(w, n + 1, Len(w)) \in Seq(Octet) /\ w = SubSeq(w, 1, n) \o SubSeq(w, n + 1, Len(w))
          /\ Len(SubSeq(w, n + 1, Len(w))) = Len(w) - n
      BY <3>0, CutOctets, Zenon
    <3> QED
      BY <2>4, <3>1, Zenon
  <2> HIDE DEF a, b
  <2>6. m \in ResponseSort /\ m.token_type = type
    BY <2>1, <2>5 DEF ResponseSort, Octets, n
  <2>7. serialize_response(m) = w
    BY <1>2, <2>5 DEF serialize_response
  <2> HIDE DEF m
  <2> QED
    BY <2>2, <2>6, <2>7
<1> QED
  BY <1>1, <1>2

(* Any other length is refused.                                                 *)
LEMMA ResponseTruncated ==
  ASSUME NEW m \in ResponseSort, NEW w \in Seq(Octet), Len(w) # Len(serialize_response(m))
  PROVE  deserialize_response(m.token_type, w).error # "OK"
<1>1. SUFFICES ASSUME deserialize_response(m.token_type, w).error = "OK"
               PROVE  FALSE
  OBVIOUS
<1>2. PICK m2 \in ResponseSort : m2.token_type = m.token_type /\ w = serialize_response(m2)
  BY <1>1, ResponseRead
<1> QED
  BY <1>2, ResponseLength

-----------------------------------------------------------------------------
(* Optional responses: a mark of one byte, and behind it the type of the response.   *)
(* The marks are bytes.                                                         *)
LEMMA Marks == 0 \in Octet /\ 1 \in Octet /\ <<0>> \in Seq(Octet) /\ <<1>> \in Seq(Octet)
BY Radix DEF Octet

(* Parts of bytes behind bytes,                                                 *)
LEMMA PartedOctets == \A a, b \in Seq(Octet) :
  SubSeq(a \o b, 1, Len(a)) = a /\ SubSeq(a \o b, Len(a) + 1, Len(a \o b)) = b
BY Parted

(* and their places.                                                            *)
LEMMA JoinedAt == \A a, b \in Seq(Octet) : \A i \in 1..Len(a) : (a \o b)[i] = a[i]
<1> TAKE a, b \in Seq(Octet)
<1> TAKE i \in 1..Len(a)
<1>1. i \in 1..(Len(a) + Len(b)) /\ i <= Len(a)
  BY LenProperties
<1> QED
  BY <1>1, ConcatProperties

Marked(mark, type, bytes) == <<mark>> \o type \o bytes

(* A mark and a type stand in front of the response.                            *)
LEMMA Headed ==
  ASSUME NEW e \in Octet, NEW t \in Octets(2), NEW v \in Seq(Octet)
  PROVE  /\ Marked(e, t, v) \in Seq(Octet) /\ Len(Marked(e, t, v)) = 3 + Len(v)
         /\ Marked(e, t, v) # <<>> /\ Marked(e, t, v)[1] = e
         /\ Tail(Marked(e, t, v)) = t \o v /\ From(Marked(e, t, v), 4) = v
<1> DEFINE w == Marked(e, t, v)
           h == <<e>>
           x == t \o v
           y == h \o t
<1>1. t \in Seq(Octet) /\ Len(t) = 2 /\ h \in Seq(Octet) /\ Len(h) = 1 /\ h[1] = e
  BY DEF Octets
<1>2. w = (h \o t) \o v
  BY DEF Marked
<1> HIDE DEF h, w
<1>3. x \in Seq(Octet) /\ Len(x) = Len(t) + Len(v) /\ y \in Seq(Octet) /\ Len(y) = Len(h) + Len(t)
  BY <1>1, Joined, Zenon
<1>4. w = y \o v /\ w = h \o x
  BY <1>1, <1>2, Associative
<1> HIDE DEF x, y
<1>5. w \in Seq(Octet) /\ Len(w) = Len(y) + Len(v)
  BY <1>3, <1>4, Joined, Zenon
<1>6. SubSeq(w, Len(y) + 1, Len(w)) = v
  BY <1>3, <1>4, PartedOctets, Zenon
<1>7. Len(w) = Len(h) + Len(x) /\ Len(x) \in Nat
  BY <1>1, <1>3, <1>4, Joined, LenProperties
<1>8. SubSeq(w, Len(h) + 1, Len(w)) = x
  <2>1. SubSeq(h \o x, Len(h) + 1, Len(h \o x)) = x
    BY <1>1, <1>3, PartedOctets
  <2> QED
    BY <1>4, <2>1
<1>9. w # <<>> /\ w[1] = e
  <2>1. w # <<>>
    BY <1>1, <1>7
  <2>2. (h \o x)[1] = h[1]
    <3>1. 1 \in 1..Len(h)
      BY <1>1
    <3> QED
      BY <1>1, <1>3, <3>1, JoinedAt, Zenon
  <2> QED
    BY <1>1, <1>4, <2>1, <2>2
<1>12. Len(y) = 3 /\ Len(h) + 1 = 2
  BY <1>1, <1>3
<1>10. Tail(w) = x /\ From(w, 4) = v
  <2>1. Tail(w) = SubSeq(w, 2, Len(w))
    BY <1>5, <1>9, TailIsSubSeq
  <2>2. SubSeq(w, 2, Len(w)) = x /\ SubSeq(w, 4, Len(w)) = v
    <3>1. Len(y) + 1 = 4
      BY <1>12
    <3> QED
      BY <1>6, <1>8, <1>12, <3>1, Zenon
  <2> QED
    BY <2>1, <2>2 DEF From
<1>11. /\ w \in Seq(Octet) /\ Len(w) = 3 + Len(v) /\ w # <<>> /\ w[1] = e
       /\ Tail(w) = t \o v /\ From(w, 4) = v
  BY <1>5, <1>9, <1>10, <1>12 DEF x
<1> QED
  BY <1>11 DEF w

(* The type is in the second byte and the third.                                *)
LEMMA SecondThird ==
  ASSUME NEW e \in Octet, NEW t \in Octets(2), NEW v \in Seq(Octet)
  PROVE  Marked(e, t, v)[2] = t[1] /\ Marked(e, t, v)[3] = t[2]
<1> DEFINE w == Marked(e, t, v)
           x == t \o v
<1>1. t \in Seq(Octet) /\ Len(t) = 2
  BY DEF Octets
<1>2. w \in Seq(Octet) /\ w # <<>> /\ Tail(w) = x /\ Len(w) = 3 + Len(v) /\ Len(v) \in Nat
  BY Headed
<1>3. x[1] = t[1] /\ x[2] = t[2]
  <2>1. 1 \in 1..Len(t) /\ 2 \in 1..Len(t)
    BY <1>1
  <2> QED
    BY <1>1, <2>1, JoinedAt, Zenon
<1> HIDE DEF w, x
<1>4. Len(Tail(w)) = Len(w) - 1 /\ \A i \in 1..Len(Tail(w)) : Tail(w)[i] = w[i + 1]
  BY <1>2, HeadTailProperties
<1>5. Tail(w)[1] = w[2] /\ Tail(w)[2] = w[3]
  BY <1>2, <1>4
<1> QED
  BY <1>2, <1>3, <1>5 DEF w

(* An absent response is one byte.                                              *)
LEMMA OptionalNone ==
  ASSUME NEW m \in OptionalSort, m = {}
  PROVE  serialize_optional(m) = <<0>> /\ deserialize_optional(<<0>>) = Good(m)
<1>1. <<0>> # <<>> /\ <<0>>[1] = 0 /\ Tail(<<0>>) = <<>>
  OBVIOUS
<1> QED
  BY <1>1 DEF serialize_optional, deserialize_optional, Trailing

(* A present one has its type in front.                                         *)
LEMMA OptionalOne ==
  ASSUME NEW m \in OptionalSort, m # {}
  PROVE  \E r \in ResponseSort :
           /\ m = {r} /\ r.token_type \in KnownType /\ written(r.token_type, 2) \in Octets(2)
           /\ serialize_optional(m) = Marked(1, written(r.token_type, 2), serialize_response(r))
<1> DEFINE r == CHOOSE x \in m : TRUE
<1>1. r \in m /\ m = {r} /\ r \in ResponseSort
  BY DEF OptionalSort
<1>2. serialize_optional(m) = Marked(1, written(r.token_type, 2), serialize_response(r))
  BY DEF serialize_optional, Marked
<1> HIDE DEF r
<1>3. r.token_type \in KnownType
  BY <1>1, ResponseCases, Sizes
<1>4. written(r.token_type, 2) \in Octets(2)
  BY <1>3, Sizes, TwoBytesWritten
<1> QED
  BY <1>1, <1>2, <1>3, <1>4

(* OptionalTokenResponse::deserialize of what serialize wrote.                  *)
LEMMA OptionalRoundTrip ==
  ASSUME NEW m \in OptionalSort
  PROVE  serialize_optional(m) \in Seq(Octet) /\ deserialize_optional(serialize_optional(m)) = Good(m)
<1>1. CASE m = {}
  BY <1>1, OptionalNone, Marks
<1>2. CASE m # {}
  <2>1. PICK r \in ResponseSort :
           /\ m = {r} /\ r.token_type \in KnownType /\ written(r.token_type, 2) \in Octets(2)
           /\ serialize_optional(m) = Marked(1, written(r.token_type, 2), serialize_response(r))
    BY <1>2, OptionalOne
  <2> DEFINE t == written(r.token_type, 2)
             v == serialize_response(r)
             w == serialize_optional(m)
  <2>2. number(t) = r.token_type
    BY <2>1, Sizes, TwoBytesWritten
  <2>3. v \in Seq(Octet) /\ deserialize_response(r.token_type, v) = Good(r)
    BY ResponseLength, ResponseRoundTrip
  <2>4. t \in Octets(2) /\ w = Marked(1, t, v)
    BY <2>1
  <2> HIDE DEF t, v, w
  <2>5. w \in Seq(Octet) /\ Len(w) = 3 + Len(v) /\ w # <<>> /\ w[1] = 1
        /\ Tail(w) = t \o v /\ From(w, 4) = v
    BY <2>3, <2>4, Marks, Headed
  <2>6. TypeAt(Tail(w)) = r.token_type
    <3>1. HasFront(t, t \o v)
      BY <2>3, <2>4, FrontOfItself, FrontStays
    <3> QED
      BY <2>2, <2>5, <3>1 DEF HasFront
  <2>7. ~(Len(w) < 3)
    <3>1. Len(v) \in Nat
      BY <2>3
    <3> QED
      BY <2>5, <3>1
  <2>8. deserialize_optional(w) = Good({r})
    <3>1. deserialize_optional(w)
            = Then(deserialize_response(TypeAt(Tail(w)), From(w, 4)), LAMBDA x : Good({x}))
      <4>1. w[1] \in {0, 1} /\ w[1] # 0
        BY <2>5
      <4> QED
        BY <2>5, <2>7, <4>1, Zenon DEF deserialize_optional
    <3>2. deserialize_response(TypeAt(Tail(w)), From(w, 4)) = Good(r)
      BY <2>3, <2>5, <2>6
    <3>3. Then(Good(r), LAMBDA x : Good({x})) = Good({r})
      BY DEF Then, Good
    <3> QED
      BY <3>1, <3>2, <3>3
  <2> QED
    BY <2>1, <2>5, <2>8 DEF w
<1> QED
  BY <1>1, <1>2

(* What is decoded is all that there is.                                        *)
LEMMA OptionalRead ==
  ASSUME NEW w \in Seq(Octet), deserialize_optional(w).error = "OK"
  PROVE  \E m \in OptionalSort : deserialize_optional(w) = Good(m) /\ w = serialize_optional(m)
<1>1. w # <<>> /\ w[1] \in {0, 1}
  BY DEF deserialize_optional, Bad
<1>2. Len(w) \in Nat \ {0} /\ Tail(w) \in Seq(Octet) /\ Len(Tail(w)) = Len(w) - 1
  BY <1>1, EmptySeq, HeadTailProperties
<1>3. CASE w[1] = 0
  <2>1. Tail(w) = <<>> /\ deserialize_optional(w) = Good({})
    BY <1>1, <1>3 DEF deserialize_optional, Bad, Trailing
  <2>2. Len(w) = 1
    <3>1. Len(<<>>) = 0
      OBVIOUS
    <3>2. Len(Tail(w)) = 0
      BY <2>1, <3>1, Zenon
    <3> DEFINE k == Len(Tail(w))
               l == Len(w)
    <3>3. k = 0 /\ l \in Nat \ {0} /\ k = l - 1
      BY <1>2, <3>2, Zenon
    <3> HIDE DEF k, l
    <3>4. l = 1
      BY <3>3
    <3> QED
      BY <3>4 DEF l
  <2>3. w = <<0>>
    BY <1>3, <2>2
  <2>4. {} \in OptionalSort
    BY DEF OptionalSort
  <2> QED
    BY <2>1, <2>3, <2>4, OptionalNone
<1>4. CASE w[1] = 1
  <2> DEFINE type == TypeAt(Tail(w))
             v == From(w, 4)
             e == <<w[1]>>
             x == SubSeq(w, 1, 3)
             t == SubSeq(x, 2, 3)
  <2>1. /\ ~(Len(w) < 3)
        /\ deserialize_optional(w) = Then(deserialize_response(type, v), LAMBDA r : Good({r}))
    BY <1>1, <1>4 DEF deserialize_optional, Bad
  <2>2. 3 \in 0..Len(w)
    BY <1>2, <2>1
  <2>3. x \in Seq(Octet) /\ Len(x) = 3 /\ v \in Seq(Octet) /\ w = x \o v
    <3>1. v = SubSeq(w, 3 + 1, Len(w))
      BY DEF From
    <3> HIDE DEF v, x
    <3>2. /\ SubSeq(w, 1, 3) \in Seq(Octet) /\ Len(SubSeq(w, 1, 3)) = 3
          /\ SubSeq(w, 3 + 1, Len(w)) \in Seq(Octet) /\ w = SubSeq(w, 1, 3) \o SubSeq(w, 3 + 1, Len(w))
      BY <2>2, SplitOff
    <3> QED
      BY <3>1, <3>2 DEF x
  <2>4. x[1] = 1
    BY <1>2, <1>4, <2>1, <2>2
  <2> HIDE DEF x, v
  <2>5. t \in Seq(Octet) /\ Len(t) = 2 /\ x = <<1>> \o t
    <3>1. 1 \in 0..Len(x)
      BY <2>3
    <3>2. /\ SubSeq(x, 1, 1) \in Seq(Octet) /\ Len(SubSeq(x, 1, 1)) = 1
          /\ SubSeq(x, 1 + 1, Len(x)) \in Seq(Octet) /\ Len(SubSeq(x, 1 + 1, Len(x))) = Len(x) - 1
          /\ x = SubSeq(x, 1, 1) \o SubSeq(x, 1 + 1, Len(x))
      BY <2>3, <3>1, SplitOff
    <3>3. SubSeq(x, 1, 1) = <<1>>
      <4> DEFINE y == SubSeq(x, 1, 1)
      <4>1. y \in Seq(Octet) /\ Len(y) = 1 /\ y[1] = x[1]
        BY <2>3
      <4> HIDE DEF y
      <4>2. y = <<1>>
        BY <2>4, <4>1
      <4> QED
        BY <4>2 DEF y
    <3>4. t = SubSeq(x, 1 + 1, Len(x)) /\ Len(x) - 1 = 2
      <4>1. 1 + 1 = 2 /\ Len(x) = 3
        BY <2>3
      <4> QED
        BY <4>1
    <3> HIDE DEF t
    <3> QED
      BY <3>2, <3>3, <3>4, Zenon
  <2> HIDE DEF t
  <2>6. w = Marked(1, t, v) /\ t \in Octets(2)
    BY <2>3, <2>5 DEF Octets, Marked
  <2>7. Tail(w) = t \o v
    BY <2>3, <2>6, Marks, Headed
  <2>8. type = number(t)
    <3>1. HasFront(t, t \o v)
      BY <2>3, <2>6, FrontOfItself, FrontStays
    <3> QED
      BY <2>7, <3>1 DEF HasFront
  <2>9. written(type, 2) = t
    BY <2>5, <2>8, TwoBytesRead
  <2> HIDE DEF type
  <2>10. deserialize_response(type, v).error = "OK"
    BY <2>1 DEF Then
  <2>11. PICK r \in ResponseSort : deserialize_response(type, v) = Good(r) /\ r.token_type = type
                                   /\ v = serialize_response(r)
    BY <2>3, <2>10, ResponseRead
  <2>12. deserialize_optional(w) = Good({r})
    BY <2>1, <2>11 DEF Then, Good
  <2>13. {r} \in OptionalSort
    BY DEF OptionalSort
  <2>14. serialize_optional({r}) = w
    BY <2>6, <2>9, <2>11 DEF serialize_optional, Marked
  <2> QED
    BY <2>12, <2>13, <2>14
<1> QED
  BY <1>1, <1>3, <1>4

(* Bytes that end early are too short for the response whose type they name.    *)
LEMMA OptionalTruncated ==
  ASSUME NEW m \in OptionalSort, NEW n \in 0..(Len(serialize_optional(m)) - 1)
  PROVE  deserialize_optional(SubSeq(serialize_optional(m), 1, n)).error # "OK"
<1> DEFINE s == serialize_optional(m)
           w == SubSeq(s, 1, n)
<1>1. s \in Seq(Octet) /\ Len(s) \in Nat /\ n \in Nat /\ n < Len(s)
  BY OptionalRoundTrip
<1>2. SUFFICES ASSUME deserialize_optional(w).error = "OK"
               PROVE  FALSE
  OBVIOUS
<1>3. w \in Seq(Octet) /\ Len(w) = n /\ \A i \in 1..n : w[i] = s[i]
  <2> HIDE DEF s
  <2> QED
    BY <1>1
<1>4. PICK m2 \in OptionalSort : w = serialize_optional(m2)
  BY <1>2, <1>3, OptionalRead
<1>5. m # {}
  <2>1. ASSUME m = {}
        PROVE  FALSE
    <3>1. s = <<0>>
      BY <2>1, OptionalNone
    <3>2. n = 0 /\ w = <<>>
      BY <1>1, <1>3, <3>1
    <3> HIDE DEF w
    <3> QED
      BY <1>2, <3>2 DEF deserialize_optional, Bad
  <2> QED
    BY <2>1
<1>6. PICK r \in ResponseSort :
         /\ m = {r} /\ r.token_type \in KnownType /\ written(r.token_type, 2) \in Octets(2)
         /\ serialize_optional(m) = Marked(1, written(r.token_type, 2), serialize_response(r))
  BY <1>5, OptionalOne
<1> DEFINE t == written(r.token_type, 2)
           v == serialize_response(r)
<1>7. v \in Seq(Octet) /\ t \in Octets(2) /\ s = Marked(1, t, v) /\ Len(v) = ResponseSize(r.token_type)
      /\ number(t) = r.token_type
  BY <1>6, ResponseLength, Sizes, TwoBytesWritten
<1> HIDE DEF s, w, t, v
<1>8. Len(s) = 3 + Len(v) /\ s[1] = 1 /\ Tail(s) = t \o v
  BY <1>7, Marks, Headed
<1>9. m2 # {}
  <2>1. ASSUME m2 = {}
        PROVE  FALSE
    <3>1. w = <<0>>
      BY <1>4, <2>1, OptionalNone
    <3>2. Len(w) = 1 /\ w[1] = 0
      BY <3>1
    <3> QED
      BY <1>3, <1>8, <3>2
  <2> QED
    BY <2>1
<1>10. PICK r2 \in ResponseSort :
         /\ m2 = {r2} /\ r2.token_type \in KnownType /\ written(r2.token_type, 2) \in Octets(2)
         /\ serialize_optional(m2) = Marked(1, written(r2.token_type, 2), serialize_response(r2))
  BY <1>9, OptionalOne
<1> DEFINE t2 == written(r2.token_type, 2)
           v2 == serialize_response(r2)
<1>11. v2 \in Seq(Octet) /\ t2 \in Octets(2) /\ w = Marked(1, t2, v2) /\ Len(v2) = ResponseSize(r2.token_type)
       /\ number(t2) = r2.token_type
  BY <1>4, <1>10, ResponseLength, Sizes, TwoBytesWritten
<1> HIDE DEF t2, v2
<1>12. Len(w) = 3 + Len(v2) /\ Len(v2) \in Nat
  BY <1>11, Marks, Headed
<1>13. t = t2
  <2>1. t \in Seq(Octet) /\ Len(t) = 2 /\ t2 \in Seq(Octet) /\ Len(t2) = 2
    BY <1>7, <1>11 DEF Octets
  <2>2. s[2] = t[1] /\ s[3] = t[2]
    BY <1>7, SecondThird, Marks
  <2>3. w[2] = t2[1] /\ w[3] = t2[2]
    BY <1>11, SecondThird, Marks
  <2>5. w[2] = s[2] /\ w[3] = s[3]
    BY <1>1, <1>3, <1>12
  <2>6. t[1] = t2[1] /\ t[2] = t2[2]
    BY <2>2, <2>3, <2>5
  <2> QED
    BY <2>1, <2>6
<1>14. Len(w) = Len(s)
  BY <1>7, <1>8, <1>11, <1>12, <1>13
<1> QED
  BY <1>1, <1>3, <1>14

-----------------------------------------------------------------------------
(* What the rules mean.                                                         *)
LEMMA Piece ==
  ASSUME NEW S, NEW name \in Seq(S), NEW i \in 0..Len(name), NEW j \in i..Len(name)
  PROVE  /\ SubSeq(name, i + 1, j) \in Seq(S) /\ Len(SubSeq(name, i + 1, j)) = j - i
         /\ \A k \in 1..(j - i) : SubSeq(name, i + 1, j)[k] = name[i + k]
<1>1. /\ Len(name) \in Nat /\ i \in Nat /\ j \in Nat /\ i <= j /\ j <= Len(name)
      /\ j - (i + 1) + 1 = j - i /\ i + 1 \in Int /\ j \in Int
  OBVIOUS
<1>2. \A k \in (i + 1)..j : name[k] \in S
  <2>1. (i + 1)..j \subseteq 1..Len(name)
    BY <1>1
  <2> QED
    BY <2>1, ElementOfSeq
<1>3. /\ SubSeq(name, i + 1, j) \in Seq(S)
      /\ Len(SubSeq(name, i + 1, j)) = IF i + 1 <= j THEN j - (i + 1) + 1 ELSE 0
      /\ \A k \in 1..(j - (i + 1) + 1) : SubSeq(name, i + 1, j)[k] = name[(i + 1) + k - 1]
  BY <1>1, <1>2, SubSeqProperties
<1> DEFINE s == SubSeq(name, i + 1, j)
<1> HIDE DEF s
<1>4. Len(s) = j - i
  BY <1>1, <1>3 DEF s
<1>5. \A k \in 1..(j - i) : s[k] = name[i + k]
  <2>1. \A k \in 1..(j - i) : (i + 1) + k - 1 = i + k
    BY <1>1
  <2> QED
    BY <1>1, <1>3, <2>1 DEF s
<1> QED
  BY <1>3, <1>4, <1>5 DEF s

(* The pattern equals the bytes from i on if it is the piece that begins there. *)
LEMMA EqualPiece ==
  ASSUME NEW S, NEW name \in Seq(S), NEW pattern \in Seq(S), NEW i \in Int
  PROVE  EqualFrom(name, i, pattern) <=>
           /\ i \in 0..Len(name) /\ i + Len(pattern) \in i..Len(name)
           /\ SubSeq(name, i + 1, i + Len(pattern)) = pattern
<1> DEFINE n == Len(pattern)
           j == i + n
           s == SubSeq(name, i + 1, j)
<1>1. Len(name) \in Nat /\ n \in Nat /\ DOMAIN pattern = 1..n
  OBVIOUS
<1> HIDE DEF n
<1>2. i >= 0 /\ i + n <= Len(name) <=> i \in 0..Len(name) /\ j \in i..Len(name)
  BY <1>1
<1>3. CASE i >= 0 /\ i + n <= Len(name)
  <2>1. i \in 0..Len(name) /\ j \in i..Len(name) /\ j - i = n
    BY <1>1, <1>3
  <2> HIDE DEF j
  <2>2. s \in Seq(S) /\ Len(s) = n /\ \A k \in 1..n : s[k] = name[i + k]
    BY <2>1, Piece
  <2> HIDE DEF s
  <2>3. (\A k \in 1..n : name[i + k] = pattern[k]) <=> s = pattern
    <3>1. ASSUME \A k \in 1..n : name[i + k] = pattern[k]
          PROVE  s = pattern
      <4>1. \A k \in 1..Len(s) : s[k] = pattern[k]
        BY <2>2, <3>1
      <4>2. Len(s) = Len(pattern)
        BY <2>2 DEF n
      <4> QED
        BY <2>2, <4>1, <4>2, SeqEqual
    <3>2. ASSUME s = pattern
          PROVE  \A k \in 1..n : name[i + k] = pattern[k]
      BY <2>2, <3>2
    <3> QED
      BY <3>1, <3>2
  <2>4. EqualFrom(name, i, pattern) <=> s = pattern
    BY <1>1, <1>3, <2>3 DEF EqualFrom, n
  <2> QED
    BY <2>1, <2>4 DEF s, j, n
<1>4. CASE ~(i >= 0 /\ i + n <= Len(name))
  BY <1>2, <1>4 DEF EqualFrom, n
<1> QED
  BY <1>3, <1>4

(* The four ways to match compare at the places that the meaning allows.        *)
LEMMA NamespaceMeant ==
  ASSUME NEW S, NEW name \in Seq(S), NEW rule, rule.pattern \in Seq(S),
         rule.match_type \in MatchType, rule # Wildcard
  PROVE  matches_namespace(rule, name) <=> Means(rule, name)
<1> DEFINE p == rule.pattern
           n == Len(p)
           l == Len(name)
           type == rule.match_type
<1>1. p \in Seq(S) /\ n \in Nat /\ l \in Nat
  OBVIOUS
<1>2. type \in {0, 1, 2, 3}
  BY DEF MatchType, MATCH_EXACT, MATCH_CONTAINS
<1>3. matches_namespace(rule, name) <=>
        /\ type = 0 => l = n
        /\ \E i \in Starts(type, name, p) : EqualFrom(name, i, p)
  BY DEF matches_namespace, MATCH_EXACT
<1>4. Means(rule, name) <=>
        \E i \in 0..l : \E j \in i..l :
          /\ SubSeq(name, i + 1, j) = p
          /\ type \in {0, 1} => i = 0
          /\ type \in {0, 2} => j = l
  BY DEF Means, MATCH_EXACT, MATCH_PREFIX, MATCH_SUFFIX
<1>5. Starts(type, name, p) = IF type \in {0, 1} THEN {0} ELSE IF type = 2 THEN {l - n} ELSE 0..(l - n)
  BY <1>2 DEF Starts, MATCH_EXACT, MATCH_PREFIX, MATCH_SUFFIX, MATCH_CONTAINS
<1>6. \A i \in Int : EqualFrom(name, i, p) <=>
        i \in 0..l /\ i + n \in i..l /\ SubSeq(name, i + 1, i + n) = p
  BY <1>1, EqualPiece
<1>7. \A i \in 0..l : \A j \in i..l : SubSeq(name, i + 1, j) = p => j = i + n
  <2> TAKE i \in 0..l
  <2> TAKE j \in i..l
  <2>1. Len(SubSeq(name, i + 1, j)) = j - i
    BY Piece
  <2>2. i \in Int /\ j \in Int
    BY <1>1
  <2> HIDE DEF p, n
  <2>3. ASSUME SubSeq(name, i + 1, j) = p
        PROVE  j = i + n
    <3>1. n = j - i
      BY <2>1, <2>3 DEF n
    <3> QED
      BY <2>2, <3>1
  <2> QED
    BY <2>3
<1> HIDE DEF p, n, l, type
<1>8. ASSUME matches_namespace(rule, name)
      PROVE  Means(rule, name)
  <2>1. PICK i \in Starts(type, name, p) : EqualFrom(name, i, p)
    BY <1>3, <1>8
  <2>2. i \in Int
    BY <1>1, <1>5
  <2>3. i \in 0..l /\ i + n \in i..l /\ SubSeq(name, i + 1, i + n) = p
    BY <1>6, <2>1, <2>2
  <2>4. type \in {0, 1} => i = 0
    BY <1>5
  <2>5. type \in {0, 2} => i + n = l
    BY <1>1, <1>3, <1>5, <1>8, <2>2, <2>4
  <2> QED
    BY <1>4, <2>3, <2>4, <2>5
<1>9. ASSUME Means(rule, name)
      PROVE  matches_namespace(rule, name)
  <2>1. PICK i \in 0..l : \E j \in i..l :
          /\ SubSeq(name, i + 1, j) = p
          /\ type \in {0, 1} => i = 0
          /\ type \in {0, 2} => j = l
    BY <1>4, <1>9
  <2>2. PICK j \in i..l :
          /\ SubSeq(name, i + 1, j) = p
          /\ type \in {0, 1} => i = 0
          /\ type \in {0, 2} => j = l
    BY <2>1
  <2>a. j = i + n
    BY <1>7, <2>2
  <2>b. i \in Int /\ j \in Int /\ i <= j /\ j <= l
    BY <1>1
  <2>3. j = i + n /\ i \in Int /\ j \in Int /\ i <= j /\ j <= l
    BY <2>a, <2>b
  <2>4. EqualFrom(name, i, p)
    BY <1>6, <2>2, <2>3
  <2>5. i \in Starts(type, name, p)
    BY <1>1, <1>2, <1>5, <2>2, <2>3
  <2>6. type = 0 => l = n
    BY <1>1, <2>2, <2>3
  <2> QED
    BY <1>3, <2>4, <2>5, <2>6
<1> QED
  BY <1>8, <1>9

(* A wildcard matches everything.                                               *)
LEMMA RuleMeant ==
  ASSUME NEW S, NEW rule \in RuleSort(S), NEW name \in Seq(S)
  PROVE  (rule = Wildcard \/ matches_namespace(rule, name)) <=> Means(rule, name)
<1>1. CASE rule = Wildcard
  BY <1>1 DEF Means
<1>2. CASE rule # Wildcard
  <2>1. rule.match_type \in MatchType /\ rule.pattern \in Seq(S)
    BY <1>2 DEF RuleSort
  <2> QED
    BY <1>2, <2>1, NamespaceMeant
<1> QED
  BY <1>1, <1>2

(* For a track, a name without bytes contains nothing.                          *)
LEMMA TrackMeant ==
  ASSUME NEW S, NEW rule \in RuleSort(S), NEW name \in Seq(S)
  PROVE  (rule = Wildcard \/ matches_track(rule, name)) <=>
           Means(rule, name) /\ (rule.match_type = MATCH_CONTAINS => name # <<>>)
<1>1. rule = Wildcard => rule.match_type # MATCH_CONTAINS
  BY Radix DEF Wildcard, Rule, Mark, MATCH_CONTAINS
<1> QED
  BY <1>1, RuleMeant DEF matches_track

(* A scope grants what its parts mean, and an info what its scopes grant.          *)
Grants(scope, a, namespace, track) ==
  /\ a \in Range(scope.actions)
  /\ Means(scope.namespace_match, namespace)
  /\ Means(scope.track_name_match, track)
  /\ scope.track_name_match.match_type = MATCH_CONTAINS => track # <<>>

(* A scope authorizes what its rules and its actions mean.                 *)
LEMMA ScopeGrants ==
  ASSUME NEW scope \in ScopeSort, NEW a, NEW namespace \in Seq(Seq(Octet)), NEW track \in Seq(Octet)
  PROVE  scope_authorizes(scope, a, namespace, track) <=> Grants(scope, a, namespace, track)
<1>1. /\ scope.namespace_match \in RuleSort(Seq(Octet)) /\ scope.track_name_match \in RuleSort(Octet)
      /\ scope.actions \in Seq(Action)
  BY DEF ScopeSort
<1>2. Contains(scope.actions, a) <=> a \in Range(scope.actions)
  BY <1>1 DEF Contains, Range
<1>3. (scope.namespace_match = Wildcard \/ matches_namespace(scope.namespace_match, namespace))
        <=> Means(scope.namespace_match, namespace)
  BY <1>1, RuleMeant
<1>4. (scope.track_name_match = Wildcard \/ matches_track(scope.track_name_match, track)) <=>
        /\ Means(scope.track_name_match, track)
        /\ scope.track_name_match.match_type = MATCH_CONTAINS => track # <<>>
  BY <1>1, TrackMeant
<1> QED
  BY <1>2, <1>3, <1>4 DEF scope_authorizes, Grants

(* An info grants an action if one of its scopes does.                          *)
LEMMA InfoGrants ==
  ASSUME NEW info \in Seq(ScopeSort), NEW actions \in Seq(Action), NEW namespace \in Seq(Seq(Octet)),
         NEW track \in Seq(Octet)
  PROVE  authorizes_all(info, actions, namespace, track) <=>
           \A a \in Range(actions) : \E scope \in Range(info) : Grants(scope, a, namespace, track)
<1>1. \A i \in DOMAIN info : info[i] \in ScopeSort
  OBVIOUS
<1>2. ASSUME NEW a
      PROVE  authorizes(info, a, namespace, track) <=>
               \E scope \in Range(info) : Grants(scope, a, namespace, track)
  <2>1. \A i \in DOMAIN info :
          scope_authorizes(info[i], a, namespace, track) <=> Grants(info[i], a, namespace, track)
    BY <1>1, ScopeGrants
  <2> QED
    BY <2>1 DEF authorizes, Range
<1> QED
  BY <1>2 DEF authorizes_all, Range

-----------------------------------------------------------------------------
(* The formats without a batch or a string in them.                             *)
Sized == Strict \cup {"input"}

(* The format of a message under way, with what its encoding and its decoder are.  *)
LEMMA Encodings ==
  ASSUME NEW m
  PROVE  /\ encoding("input", m) = serialize_input(m) /\ encoding("token", m) = serialize_token(m)
         /\ encoding("request", m) = serialize_request(m)
         /\ encoding("response", m) = serialize_response(m)
         /\ encoding("optional", m) = serialize_optional(m)
  BY DEF encoding

(* And what is made of bytes that arrive in it.                                 *)
LEMMA Decodings ==
  ASSUME NEW m, NEW w
  PROVE  /\ decoding("input", m, w) = deserialize_input(w)
         /\ decoding("token", m, w) = deserialize_token(w)
         /\ decoding("request", m, w) = deserialize_request(w)
         /\ decoding("response", m, w) = deserialize_response(m.token_type, w)
         /\ decoding("optional", m, w) = deserialize_optional(w)
  BY DEF decoding

(* What the lemmas on the formats say together.                                 *)
ReadsBack(format, m) ==
  LET s == encoding(format, m) IN
  /\ s \in Seq(Octet) /\ decoding(format, m, s) = Good(m)
  /\ \A n \in 0..(Len(s) - 1) : decoding(format, m, SubSeq(s, 1, n)).error # "OK"

Rewrites(format, m, w) ==
  decoding(format, m, w).error = "OK" => encoding(format, decoding(format, m, w).value) = w

(* An input that ends early is too short.                                       *)
LEMMA InputTruncated ==
  ASSUME NEW m \in InputSort, NEW n \in 0..(Len(serialize_input(m)) - 1)
  PROVE  deserialize_input(SubSeq(serialize_input(m), 1, n)).error # "OK"
<1> DEFINE s == serialize_input(m)
           w == SubSeq(s, 1, n)
<1>1. s \in Seq(Octet) /\ Len(s) = 2 + DigestSize + DigestSize + DigestSize
  BY InputLength
<1>2. n \in Nat /\ n < Len(s) /\ Len(s) \in Nat
  BY <1>1
<1> HIDE DEF s
<1>3. w \in Seq(Octet) /\ Len(w) = n
  BY <1>1, <1>2
<1> HIDE DEF w
<1>4. SUFFICES ASSUME deserialize_input(w).error = "OK"
               PROVE  FALSE
  BY DEF s, w
<1>5. PICK m2 \in InputSort, rest \in Seq(Octet) : w = serialize_input(m2) \o rest
  BY <1>3, <1>4, InputRead
<1> DEFINE t == serialize_input(m2)
<1>6. t \in Seq(Octet) /\ Len(t) = Len(s)
  BY <1>1, InputLength
<1> HIDE DEF t
<1>7. Len(t \o rest) = Len(t) + Len(rest) /\ Len(rest) \in Nat /\ Len(t) \in Nat
  BY <1>6
<1>8. w = t \o rest
  BY <1>5 DEF t
<1> QED
  BY <1>2, <1>3, <1>6, <1>7, <1>8

(* The messages have the sizes that the lemmas on their formats need            *)
(* (MessagesFit).                                                               *)
LEMMA MessageSorts ==
  /\ Message["input"] \subseteq InputSort /\ Message["token"] \subseteq TokenSort
  /\ Message["request"] \subseteq ReadRequestSort /\ Message["response"] \subseteq ResponseSort
  /\ Message["optional"] \subseteq OptionalSort
<1>1. RequestSort \subseteq ReadRequestSort
  BY RequestIsReadable
<1> QED
  BY <1>1, MessagesFit

(* Every message of these formats is read back, and no part of one is.          *)
LEMMA SizedReadBack ==
  ASSUME NEW format \in Sized, NEW m \in Message[format]
  PROVE  ReadsBack(format, m)
<1>1. CASE format = "input"
  <2>1. m \in InputSort
    BY <1>1, MessageSorts
  <2> QED
    BY <1>1, <2>1, Encodings, Decodings, InputLength, InputRoundTrip, InputTruncated DEF ReadsBack
<1>2. CASE format = "token"
  <2>1. m \in TokenSort
    BY <1>2, MessageSorts
  <2> QED
    BY <1>2, <2>1, Encodings, Decodings, TokenLength, TokenRoundTrip, TokenTruncated DEF ReadsBack
<1>3. CASE format = "request"
  <2>1. m \in ReadRequestSort
    BY <1>3, MessageSorts
  <2> QED
    BY <1>3, <2>1, Encodings, Decodings, RequestLength, RequestRoundTrip, RequestTruncated DEF ReadsBack
<1>4. CASE format = "response"
  <2> DEFINE s == serialize_response(m)
  <2>1. m \in ResponseSort
    BY <1>4, MessageSorts
  <2>2. s \in Seq(Octet) /\ deserialize_response(m.token_type, s) = Good(m) /\ Len(s) \in Nat
    BY <2>1, ResponseLength, ResponseRoundTrip
  <2>3. ASSUME NEW n \in 0..(Len(s) - 1)
        PROVE  deserialize_response(m.token_type, SubSeq(s, 1, n)).error # "OK"
    <3> DEFINE w == SubSeq(s, 1, n)
    <3>1. s \in Seq(Octet) /\ n \in Nat /\ n < Len(s)
      BY <2>2
    <3> HIDE DEF s
    <3>2. w \in Seq(Octet) /\ Len(w) = n
      BY <3>1
    <3> HIDE DEF w
    <3>3. Len(w) # Len(s)
      BY <3>1, <3>2
    <3>4. deserialize_response(m.token_type, w).error # "OK"
      BY <2>1, <3>2, <3>3, ResponseTruncated DEF s
    <3> QED
      BY <3>4 DEF w
  <2> QED
    BY <1>4, <2>2, <2>3, Encodings, Decodings DEF ReadsBack
<1>5. CASE format = "optional"
  <2>1. m \in OptionalSort
    BY <1>5, MessageSorts
  <2> QED
    BY <1>5, <2>1, Encodings, Decodings, OptionalRoundTrip, OptionalTruncated DEF ReadsBack
<1> QED
  BY <1>1, <1>2, <1>3, <1>4, <1>5 DEF Sized, Strict

(* What the decoder accepts is what the encoder would have written.             *)
LEMMA StrictRewrites ==
  ASSUME NEW format \in Strict, NEW m, NEW w \in Seq(Octet)
  PROVE  Rewrites(format, m, w)
<1>1. SUFFICES ASSUME decoding(format, m, w).error = "OK"
               PROVE  encoding(format, decoding(format, m, w).value) = w
  BY DEF Rewrites
<1>2. CASE format = "token"
  BY <1>1, <1>2, Encodings, Decodings, TokenRead DEF Good
<1>3. CASE format = "request"
  BY <1>1, <1>3, Encodings, Decodings, RequestRead DEF Good
<1>4. CASE format = "response"
  BY <1>1, <1>4, Encodings, Decodings, ResponseRead DEF Good
<1>5. CASE format = "optional"
  BY <1>1, <1>5, Encodings, Decodings, OptionalRead DEF Good
<1> QED
  BY <1>2, <1>3, <1>4, <1>5 DEF Strict
-----------------------------------------------------------------------------
(* Varints, of every number that they can say.                                 *)

(* What is defined step by step exists: the values that `written` shifts, the       *)
(* numbers of values of so many bytes, and the parts that FlattenSeq joins.         *)
Stepwise(f, start, step, n) ==
  f = [i \in 0..n |-> IF i = 0 THEN start ELSE step[<<i, f[i - 1]>>]]

LEMMA StepwiseExists ==
  ASSUME NEW start, NEW step, NEW n \in Nat
  PROVE  \E f : Stepwise(f, start, step, n)
<1> DEFINE S == {k \in Nat : \E f : Stepwise(f, start, step, k)}
<1>1. 0 \in S
  <2> DEFINE f == [i \in 0..0 |-> start]
  <2>1. f = [i \in 0..0 |-> IF i = 0 THEN start ELSE step[<<i, f[i - 1]>>]]
    OBVIOUS
  <2> HIDE DEF f
  <2> QED
    BY <2>1 DEF Stepwise
<1>2. ASSUME NEW k \in Nat, k \in S
      PROVE  k + 1 \in S
  <2>1. PICK f : Stepwise(f, start, step, k)
    BY <1>2
  <2> DEFINE g == [i \in 0..(k + 1) |-> IF i = k + 1 THEN step[<<i, f[k]>>] ELSE f[i]]
  <2>2. ASSUME NEW i \in 0..(k + 1)
        PROVE  g[i] = IF i = 0 THEN start ELSE step[<<i, g[i - 1]>>]
    <3>1. CASE i = k + 1
      <4>1. i - 1 = k /\ k \in 0..(k + 1) /\ k # k + 1 /\ i # 0
        BY <3>1
      <4> QED
        BY <3>1, <4>1
    <3>2. CASE i # k + 1
      <4>1. i \in 0..k /\ (i # 0 => i - 1 \in 0..(k + 1) /\ i - 1 # k + 1)
        BY <3>2
      <4>2. f[i] = IF i = 0 THEN start ELSE step[<<i, f[i - 1]>>]
        BY <2>1, <4>1 DEF Stepwise
      <4> QED
        BY <3>2, <4>1, <4>2
    <3> QED
      BY <3>1, <3>2
  <2>3. g = [i \in 0..(k + 1) |-> g[i]]
    OBVIOUS
  <2> HIDE DEF g
  <2>4. Stepwise(g, start, step, k + 1)
    BY <2>2, <2>3 DEF Stepwise
  <2> QED
    BY <2>4
<1> HIDE DEF S
<1>3. Nat \subseteq S
  BY <1>1, <1>2, Induction
<1> QED
  BY <1>3 DEF S

(* The value after so many shifts.                                              *)
Shifted(q, v, n) ==
  /\ q[0] = v /\ (\A i \in 1..n : q[i] = q[i - 1] \div RADIX)
  /\ \A i \in 0..n : q[i] \in Nat

(* Each digit is what is left of the value after so many shifts.                 *)
LEMMA WrittenUnfolds ==
  ASSUME NEW v \in Nat, NEW n \in Nat
  PROVE  \E q : Shifted(q, v, n) /\ written(v, n) = [i \in 1..n |-> q[n - i] % RADIX]
<1> DEFINE step == [p \in (1..n) \X Nat |-> p[2] \div RADIX]
           F == CHOOSE f : f = [i \in 0..n |-> IF i = 0 THEN v ELSE f[i - 1] \div RADIX]
<1>0. RADIX \in Nat \ {0}
  BY Radix
<1>1. PICK g : Stepwise(g, v, step, n)
  BY StepwiseExists
<1> DEFINE Small == {k \in Nat : k \in 0..n => g[k] \in Nat}
<1>2. \A k \in 0..n : g[k] \in Nat
  <2>1. 0 \in Small
    BY <1>1 DEF Stepwise
  <2>2. ASSUME NEW k \in Nat, k \in Small
        PROVE  k + 1 \in Small
    <3>1. SUFFICES ASSUME k + 1 \in 0..n
                   PROVE  g[k + 1] \in Nat
      OBVIOUS
    <3>2. k \in 0..n /\ k + 1 \in 1..n /\ (k + 1) - 1 = k /\ k + 1 # 0
      BY <3>1
    <3>3. g[k] \in Nat
      BY <2>2, <3>2
    <3>4. g[k + 1] = step[<<k + 1, g[k]>>]
      BY <1>1, <3>1, <3>2 DEF Stepwise
    <3>5. step[<<k + 1, g[k]>>] = g[k] \div RADIX
      BY <3>2, <3>3
    <3> QED
      BY <1>0, <3>3, <3>4, <3>5
  <2> HIDE DEF Small
  <2>3. Nat \subseteq Small
    BY <2>1, <2>2, Induction
  <2> QED
    BY <2>3 DEF Small
<1>3. \A i \in 0..n : g[i] = IF i = 0 THEN v ELSE g[i - 1] \div RADIX
  <2> SUFFICES ASSUME NEW i \in 0..n
               PROVE  g[i] = IF i = 0 THEN v ELSE g[i - 1] \div RADIX
    OBVIOUS
  <2>1. g[i] = IF i = 0 THEN v ELSE step[<<i, g[i - 1]>>]
    BY <1>1 DEF Stepwise
  <2>2. ASSUME i # 0
        PROVE  step[<<i, g[i - 1]>>] = g[i - 1] \div RADIX
    <3>1. i \in 1..n /\ i - 1 \in 0..n
      BY <2>2
    <3> QED
      BY <1>2, <3>1
  <2> QED
    BY <2>1, <2>2
<1>4. g = [i \in 0..n |-> IF i = 0 THEN v ELSE g[i - 1] \div RADIX]
  <2>1. g = [i \in 0..n |-> g[i]]
    <3>1. DOMAIN g = 0..n /\ g = [i \in DOMAIN g |-> g[i]]
      BY <1>1 DEF Stepwise
    <3> QED
      BY <3>1
  <2> QED
    BY <1>3, <2>1
<1>5. F = [i \in 0..n |-> IF i = 0 THEN v ELSE F[i - 1] \div RADIX]
  BY <1>4
<1>6. written(v, n) = [i \in 1..n |-> F[n - i] % RADIX]
  BY DEF written
<1> HIDE DEF F
<1>7. F[0] = v
  BY <1>5
<1>8. \A i \in 1..n : F[i] = F[i - 1] \div RADIX
  BY <1>5
<1> DEFINE Counts == {k \in Nat : k \in 0..n => F[k] \in Nat}
<1>9. \A k \in 0..n : F[k] \in Nat
  <2>1. 0 \in Counts
    BY <1>7
  <2>2. ASSUME NEW k \in Nat, k \in Counts
        PROVE  k + 1 \in Counts
    <3>1. SUFFICES ASSUME k + 1 \in 0..n
                   PROVE  F[k + 1] \in Nat
      OBVIOUS
    <3>2. k \in 0..n /\ k + 1 \in 1..n /\ (k + 1) - 1 = k
      BY <3>1
    <3>3. F[k] \in Nat /\ F[k + 1] = F[k] \div RADIX
      BY <1>8, <2>2, <3>2
    <3> QED
      BY <1>0, <3>3
  <2> HIDE DEF Counts
  <2>3. Nat \subseteq Counts
    BY <2>1, <2>2, Induction
  <2> QED
    BY <2>3 DEF Counts
<1> QED
  BY <1>6, <1>7, <1>8, <1>9 DEF Shifted

(* Each byte more has RADIX times as many values.                               *)
LEMMA ValuesUnfold ==
  /\ Values[0] = 1 /\ (\A i \in 1..8 : Values[i] = RADIX * Values[i - 1])
  /\ (\A i \in 0..8 : Values[i] \in Nat \ {0})
<1> DEFINE step == [p \in (1..8) \X Nat |-> RADIX * p[2]]
<1>0. RADIX \in Nat \ {0}
  BY Radix
<1>1. PICK g : Stepwise(g, 1, step, 8)
  BY StepwiseExists
<1> DEFINE Small == {k \in Nat : k \in 0..8 => g[k] \in Nat}
<1>2. \A k \in 0..8 : g[k] \in Nat
  <2>1. 0 \in Small
    BY <1>1 DEF Stepwise
  <2>2. ASSUME NEW k \in Nat, k \in Small
        PROVE  k + 1 \in Small
    <3>1. SUFFICES ASSUME k + 1 \in 0..8
                   PROVE  g[k + 1] \in Nat
      OBVIOUS
    <3>2. k \in 0..8 /\ k + 1 \in 1..8 /\ (k + 1) - 1 = k /\ k + 1 # 0
      BY <3>1
    <3>3. g[k] \in Nat
      BY <2>2, <3>2
    <3>4. g[k + 1] = step[<<k + 1, g[k]>>]
      BY <1>1, <3>1, <3>2 DEF Stepwise
    <3>5. step[<<k + 1, g[k]>>] = RADIX * g[k]
      BY <3>2, <3>3
    <3> QED
      BY <1>0, <3>3, <3>4, <3>5
  <2> HIDE DEF Small
  <2>3. Nat \subseteq Small
    BY <2>1, <2>2, Induction
  <2> QED
    BY <2>3 DEF Small
<1>3. \A i \in 0..8 : g[i] = IF i = 0 THEN 1 ELSE RADIX * g[i - 1]
  <2> SUFFICES ASSUME NEW i \in 0..8
               PROVE  g[i] = IF i = 0 THEN 1 ELSE RADIX * g[i - 1]
    OBVIOUS
  <2>1. g[i] = IF i = 0 THEN 1 ELSE step[<<i, g[i - 1]>>]
    BY <1>1 DEF Stepwise
  <2>2. ASSUME i # 0
        PROVE  step[<<i, g[i - 1]>>] = RADIX * g[i - 1]
    <3>1. i \in 1..8 /\ i - 1 \in 0..8
      BY <2>2
    <3> QED
      BY <1>2, <3>1
  <2> QED
    BY <2>1, <2>2
<1>4. g = [i \in 0..8 |-> IF i = 0 THEN 1 ELSE RADIX * g[i - 1]]
  <2>1. g = [i \in 0..8 |-> g[i]]
    <3>1. DOMAIN g = 0..8 /\ g = [i \in DOMAIN g |-> g[i]]
      BY <1>1 DEF Stepwise
    <3> QED
      BY <3>1
  <2> QED
    BY <1>3, <2>1
<1>5. Values = [i \in 0..8 |-> IF i = 0 THEN 1 ELSE RADIX * Values[i - 1]]
  BY <1>4 DEF Values
<1>6. Values[0] = 1 /\ (\A i \in 1..8 : Values[i] = RADIX * Values[i - 1])
  BY <1>5
<1> DEFINE Counts == {k \in Nat : k \in 0..8 => Values[k] \in Nat \ {0}}
<1>7. \A k \in 0..8 : Values[k] \in Nat \ {0}
  <2>1. 0 \in Counts
    BY <1>6
  <2>2. ASSUME NEW k \in Nat, k \in Counts
        PROVE  k + 1 \in Counts
    <3>1. SUFFICES ASSUME k + 1 \in 0..8
                   PROVE  Values[k + 1] \in Nat \ {0}
      OBVIOUS
    <3>2. k \in 0..8 /\ k + 1 \in 1..8 /\ (k + 1) - 1 = k
      BY <3>1
    <3>3. Values[k] \in Nat \ {0} /\ Values[k + 1] = RADIX * Values[k]
      BY <1>6, <2>2, <3>2
    <3> QED
      BY <1>0, <3>3
  <2> HIDE DEF Counts
  <2>3. Nat \subseteq Counts
    BY <2>1, <2>2, Induction
  <2> QED
    BY <2>3 DEF Counts
<1> QED
  BY <1>6, <1>7

(* A shift makes a value smaller by its factor.                                  *)
LEMMA ShiftBound ==
  ASSUME NEW a \in Nat, NEW b \in Nat, NEW r \in Nat \ {0}, a < b * r
  PROVE  a \div r < b
<1> DEFINE d == a \div r
           m == a % r
<1>1. d \in Nat /\ m \in 0..(r - 1) /\ a = d * r + m
  OBVIOUS
<1> HIDE DEF d, m
<1>2. SUFFICES ASSUME d >= b
               PROVE  FALSE
  BY <1>1 DEF d
<1>3. d * r >= b * r
  BY <1>1, <1>2
<1>4. d * r \in Nat /\ b * r \in Nat
  BY <1>1
<1> QED
  BY <1>1, <1>3, <1>4

(* The top digit of a value that leaves a factor f in front.                     *)
LEMMA TopDigit ==
  ASSUME NEW f \in Nat, NEW w \in 1..8, NEW v \in Nat, v < f * Values[w - 1], NEW q, Shifted(q, v, w)
  PROVE  q[w - 1] < f
<1>0. q[0] = v /\ (\A i \in 1..w : q[i] = q[i - 1] \div RADIX) /\ \A i \in 0..w : q[i] \in Nat
  BY DEF Shifted
<1> DEFINE S == {i \in Nat : i \in 0..(w - 1) => q[i] < f * Values[w - 1 - i]}
<1>1. 0 \in S
  BY <1>0
<1>2. ASSUME NEW k \in Nat, k \in S
      PROVE  k + 1 \in S
  <2>1. SUFFICES ASSUME k + 1 \in 0..(w - 1)
                 PROVE  q[k + 1] < f * Values[w - 1 - (k + 1)]
    OBVIOUS
  <2> DEFINE j == w - 1 - (k + 1)
             x == Values[j]
  <2>2. /\ k \in 0..(w - 1) /\ k \in 0..w /\ k + 1 \in 1..w /\ (k + 1) - 1 = k
        /\ w - 1 - k = j + 1 /\ j \in 0..8 /\ j + 1 \in 1..8 /\ (j + 1) - 1 = j
    BY <2>1
  <2>3. q[k] \in Nat /\ q[k] < f * Values[j + 1] /\ q[k + 1] = q[k] \div RADIX
    <3>1. q[k] < f * Values[w - 1 - k]
      BY <1>2, <2>2
    <3>2. q[k] < f * Values[j + 1]
      BY <2>2, <3>1
    <3>3. q[k + 1] = q[(k + 1) - 1] \div RADIX
      BY <1>0, <2>2
    <3> HIDE DEF j
    <3> QED
      BY <1>0, <2>2, <3>2, <3>3
  <2>4. x \in Nat /\ Values[j + 1] = RADIX * x /\ RADIX \in Nat \ {0}
    BY <2>2, ValuesUnfold, Radix
  <2> HIDE DEF j, x
  <2>5. f * (RADIX * x) = (f * x) * RADIX /\ f * x \in Nat
    BY <2>4
  <2>6. q[k] < (f * x) * RADIX
    BY <2>3, <2>4, <2>5
  <2>7. q[k] \div RADIX < f * x
    BY <2>3, <2>4, <2>5, <2>6, ShiftBound
  <2> QED
    BY <2>3, <2>7 DEF x, j
<1> HIDE DEF S
<1>3. Nat \subseteq S
  BY <1>1, <1>2, Induction
<1>4. w - 1 \in S
  BY <1>3
<1>5. q[w - 1] < f * Values[0]
  <2>1. w - 1 \in 0..(w - 1) /\ w - 1 - (w - 1) = 0
    OBVIOUS
  <2> QED
    BY <1>4, <2>1 DEF S
<1> QED
  BY <1>5, ValuesUnfold

Spells(s, q, w) == Len(s) = w /\ s[1] = q[w - 1] /\ \A i \in 2..w : s[i] = q[w - i] % RADIX

(* The digits, shifted and added again, are the value.                            *)
LEMMA NumberOfDigits ==
  ASSUME NEW w \in 1..8, NEW v \in Nat, NEW q, Shifted(q, v, w),
         NEW s \in Seq(Nat), Spells(s, q, w)
  PROVE  number(s) = v
<1>0. /\ RADIX \in Nat \ {0}
      /\ q[0] = v /\ (\A i \in 1..w : q[i] = q[i - 1] \div RADIX) /\ (\A i \in 0..w : q[i] \in Nat)
      /\ Len(s) = w /\ s[1] = q[w - 1] /\ \A i \in 2..w : s[i] = q[w - i] % RADIX
  BY Radix DEF Shifted, Spells
<1>1. PICK r : /\ r[0] = 0 /\ number(s) = r[Len(s)]
               /\ \A i \in 1..Len(s) : r[i] = r[i - 1] * RADIX + s[i]
  BY NumberUnfolds
<1> DEFINE S == {i \in Nat : i + 1 \in 1..w => r[i + 1] = q[w - (i + 1)]}
<1>2. 0 \in S
  <2>1. 1 \in 1..w /\ 1 - 1 = 0 /\ w - 1 \in 0..w
    OBVIOUS
  <2>2. r[1] = 0 * RADIX + q[w - 1]
    BY <1>0, <1>1, <2>1
  <2>3. r[1] = q[w - 1]
    BY <1>0, <2>1, <2>2
  <2> QED
    BY <2>3
<1>3. ASSUME NEW k \in Nat, k \in S
      PROVE  k + 1 \in S
  <2>1. SUFFICES ASSUME (k + 1) + 1 \in 1..w
                 PROVE  r[(k + 1) + 1] = q[w - ((k + 1) + 1)]
    OBVIOUS
  <2> DEFINE i == k + 1
             j == w - (i + 1)
  <2>2. /\ i \in 1..w /\ i + 1 \in 2..w /\ i + 1 \in 1..w /\ (i + 1) - 1 = i /\ w - i = j + 1
        /\ j \in 0..w /\ j + 1 \in 1..w /\ (j + 1) - 1 = j
    BY <2>1
  <2>3. r[i] = q[j + 1]
    BY <1>3, <2>2
  <2>4. s[i + 1] = q[j] % RADIX
    BY <1>0, <2>2
  <2>5. r[i + 1] = r[i] * RADIX + s[i + 1]
    <3>1. r[i + 1] = r[(i + 1) - 1] * RADIX + s[i + 1]
      BY <1>0, <1>1, <2>2
    <3> HIDE DEF i
    <3> QED
      BY <2>2, <3>1
  <2>6. q[j + 1] = q[j] \div RADIX /\ q[j] \in Nat
    BY <1>0, <2>2
  <2> HIDE DEF i, j
  <2>7. r[i + 1] = (q[j] \div RADIX) * RADIX + (q[j] % RADIX)
    BY <2>3, <2>4, <2>5, <2>6
  <2>8. (q[j] \div RADIX) * RADIX + (q[j] % RADIX) = q[j]
    <3> DEFINE x == q[j]
    <3>1. RADIX \in Nat \ {0} /\ x \in Nat
      BY <1>0, <2>6
    <3> HIDE DEF x
    <3>2. (x \div RADIX) * RADIX + (x % RADIX) = x
      BY <3>1
    <3> QED
      BY <3>2 DEF x
  <2> QED
    BY <2>7, <2>8 DEF i, j
<1> HIDE DEF S
<1>4. Nat \subseteq S
  BY <1>2, <1>3, Induction
<1>5. r[w] = q[0]
  <2>1. w - 1 \in S /\ (w - 1) + 1 = w /\ w \in 1..w /\ w - w = 0
    BY <1>4
  <2> QED
    BY <2>1 DEF S
<1> QED
  BY <1>0, <1>1, <1>5

(* A quarter of the values of a byte are left beside a prefix.                    *)
Quarter == RADIX \div 4

(* The four prefixes of a varint share the values of its first octet.      *)
LEMMA Quarters == Quarter \in Nat /\ Quarter > 3 /\ RADIX = 4 * Quarter
<1>1. RADIX \in Nat /\ RADIX > 15
  BY Radix
<1>2. RADIX % 16 = 0
  BY WireAssumption DEF RadixAssumption
<1>3. RADIX = 16 * (RADIX \div 16)
  BY <1>1, <1>2
<1>4. RADIX \div 4 = 4 * (RADIX \div 16)
  <2> DEFINE k == RADIX \div 16
  <2>1. k \in Nat
    BY <1>1
  <2> HIDE DEF k
  <2>2. (16 * k) \div 4 = 4 * k
    BY <2>1
  <2> QED
    BY <1>3, <2>2 DEF k
<1> QED
  BY <1>1, <1>3, <1>4 DEF Quarter

(* How many bytes a value takes: enough.                                        *)
LEMMA VarintSize ==
  ASSUME NEW v \in Nat, v < Room(8)
  PROVE  varint_size(v) \in {1, 2, 4, 8} /\ v < Room(varint_size(v))
<1> DEFINE P(w) == v < Room(w) /\ \A x \in {1, 2, 4, 8} : x < w => v >= Room(x)
<1>1. \E w \in {1, 2, 4, 8} : P(w)
  <2>0. Room(1) \in Nat /\ Room(2) \in Nat /\ Room(4) \in Nat /\ Room(8) \in Nat
    <3>1. \A w \in {1, 2, 4, 8} : w - 1 \in 0..8
      OBVIOUS
    <3>2. \A w \in {1, 2, 4, 8} : Values[w - 1] \in Nat
      BY <3>1, ValuesUnfold
    <3>3. \A w \in {1, 2, 4, 8} : Room(w) \in Nat
      BY <3>2, Quarters DEF Room, Quarter
    <3> QED
      BY <3>3
  <2>1. CASE v < Room(1)
    BY <2>1
  <2>2. CASE v >= Room(1) /\ v < Room(2)
    BY <2>2
  <2>3. CASE v >= Room(1) /\ v >= Room(2) /\ v < Room(4)
    BY <2>3
  <2>4. CASE v >= Room(1) /\ v >= Room(2) /\ v >= Room(4)
    BY <2>4
  <2> QED
    BY <2>0, <2>1, <2>2, <2>3, <2>4
<1>2. varint_size(v) = CHOOSE w \in {1, 2, 4, 8} : P(w)
  BY DEF varint_size
<1> HIDE DEF P
<1>3. varint_size(v) \in {1, 2, 4, 8} /\ P(varint_size(v))
  BY <1>1, <1>2
<1> QED
  BY <1>3 DEF P

(* The prefix of a width is read as that width.                                  *)
LEMMA PrefixesTell ==
  ASSUME NEW w \in {1, 2, 4, 8}
  PROVE  Prefix(w) \in 0..3 /\ Width(Prefix(w)) = w
<1>1. Prefix(1) = 0 /\ Prefix(2) = 1 /\ Prefix(4) = 2 /\ Prefix(8) = 3
  BY DEF Prefix
<1>2. Width(0) = 1 /\ Width(1) = 2 /\ Width(2) = 4 /\ Width(3) = 8
  BY DEF Width
<1>3. w = 1 \/ w = 2 \/ w = 4 \/ w = 8
  OBVIOUS
<1>4. CASE w = 1
  BY <1>1, <1>2, <1>4
<1>5. CASE w = 2
  BY <1>1, <1>2, <1>5
<1>6. CASE w = 4
  BY <1>1, <1>2, <1>6
<1>7. CASE w = 8
  BY <1>1, <1>2, <1>7
<1> QED
  BY <1>3, <1>4, <1>5, <1>6, <1>7

(* The first byte holds the prefix and the top digit.                            *)
LEMMA FirstByte ==
  ASSUME NEW p \in 0..3, NEW d \in 0..(Quarter - 1)
  PROVE  /\ (p * Quarter + d) % RADIX = p * Quarter + d /\ p * Quarter + d \in Octet
         /\ (p * Quarter + d) \div Quarter = p /\ (p * Quarter + d) % Quarter = d
<1>1. Quarter \in Nat \ {0} /\ RADIX = 4 * Quarter
  BY Quarters
<1>2. p * Quarter \in Nat /\ p * Quarter <= 3 * Quarter
  BY <1>1
<1> DEFINE v == p * Quarter + d
<1>3. v \in 0..(RADIX - 1)
  BY <1>1, <1>2
<1>4. v \div Quarter = p /\ v % Quarter = d
  <2> DEFINE q == v \div Quarter
             m == v % Quarter
  <2>1. q \in Int /\ m \in 0..(Quarter - 1) /\ v = q * Quarter + m
    BY <1>1, <1>3
  <2> HIDE DEF q, m
  <2>2. q * Quarter + m = p * Quarter + d
    BY <2>1
  <2>3. CASE q < p
    <3>1. (q + 1) * Quarter <= p * Quarter
      BY <1>1, <2>1, <2>3
    <3>2. (q + 1) * Quarter = q * Quarter + Quarter /\ q * Quarter \in Int
      BY <1>1, <2>1
    <3> QED
      BY <1>1, <1>2, <2>1, <2>2, <3>1, <3>2
  <2>4. CASE q > p
    <3>1. (p + 1) * Quarter <= q * Quarter
      BY <1>1, <2>1, <2>4
    <3>2. (p + 1) * Quarter = p * Quarter + Quarter /\ q * Quarter \in Int
      BY <1>1, <2>1
    <3> QED
      BY <1>1, <1>2, <2>1, <2>2, <3>1, <3>2
  <2>5. CASE q = p
    BY <1>1, <1>2, <2>1, <2>2, <2>5 DEF q, m
  <2> QED
    BY <2>1, <2>3, <2>4, <2>5
<1>5. v % RADIX = v
  BY <1>1, <1>3
<1> QED
  BY <1>3, <1>4, <1>5 DEF Octet

(* write_varint: a prefix beside the top digit, and the other digits.              *)
LEMMA VarintWritten ==
  ASSUME NEW v \in Nat, v < Room(8)
  PROVE  \E w \in {1, 2, 4, 8} : \E q :
           /\ Shifted(q, v, w) /\ q[w - 1] < Quarter
           /\ write_varint(v) \in Seq(Octet) /\ Len(write_varint(v)) = w
           /\ write_varint(v)[1] = Prefix(w) * Quarter + q[w - 1]
           /\ \A i \in 2..w : write_varint(v)[i] = q[w - i] % RADIX
<1> DEFINE w == varint_size(v)
           b == written(v, w)
           s == write_varint(v)
<1>1. w \in {1, 2, 4, 8} /\ v < Room(w)
  BY VarintSize
<1>2. s = [b EXCEPT ![1] = (Prefix(w) * Quarter + b[1]) % RADIX]
  BY DEF write_varint, Quarter
<1> HIDE DEF w, s
<1>0. w \in Nat /\ w \in 1..8 /\ 1 \in 1..w
  BY <1>1
<1>3. PICK q : Shifted(q, v, w) /\ b = [i \in 1..w |-> q[w - i] % RADIX]
  BY <1>0, WrittenUnfolds
<1>31. \A i \in 0..w : q[i] \in Nat
  BY <1>3 DEF Shifted
<1> HIDE DEF b
<1>4. q[w - 1] \in Nat /\ q[w - 1] < Quarter
  <2>1. v < Quarter * Values[w - 1] /\ Quarter \in Nat
    BY <1>1, Quarters DEF Room, Quarter
  <2>2. w - 1 \in 0..w
    BY <1>0
  <2> QED
    BY <1>0, <1>3, <1>31, <2>1, <2>2, TopDigit
<1>5. b[1] = q[w - 1]
  <2>1. b[1] = q[w - 1] % RADIX
    BY <1>0, <1>3
  <2>2. q[w - 1] \in 0..(RADIX - 1)
    BY <1>4, Quarters
  <2> QED
    BY <2>1, <2>2, Quarters
<1>6. Prefix(w) \in 0..3
  BY <1>1, PrefixesTell
<1>7. /\ (Prefix(w) * Quarter + q[w - 1]) % RADIX = Prefix(w) * Quarter + q[w - 1]
      /\ Prefix(w) * Quarter + q[w - 1] \in Octet
  <2>1. q[w - 1] \in 0..(Quarter - 1)
    BY <1>4, Quarters
  <2> QED
    BY <1>6, <2>1, FirstByte
<1> DEFINE first == Prefix(w) * Quarter + q[w - 1]
<1>8. s = [i \in 1..w |-> IF i = 1 THEN first ELSE q[w - i] % RADIX]
  BY <1>2, <1>3, <1>5, <1>7
<1>9. \A i \in 1..w : i # 1 => q[w - i] % RADIX \in Octet
  <2> SUFFICES ASSUME NEW i \in 1..w
               PROVE  q[w - i] % RADIX \in Octet
    OBVIOUS
  <2>1. q[w - i] \in Nat
    <3>1. w - i \in 0..w
      BY <1>0
    <3> QED
      BY <1>31, <3>1
  <2> QED
    BY <2>1, Radix DEF Octet
<1>10. first \in Octet
  BY <1>7
<1> HIDE DEF first
<1>11. s \in [1..w -> Octet]
  BY <1>8, <1>9, <1>10
<1>12. s \in Seq(Octet) /\ Len(s) = w
  BY <1>0, <1>11
<1>13. s[1] = first /\ \A i \in 2..w : s[i] = q[w - i] % RADIX
  <2>1. \A i \in 2..w : i \in 1..w /\ i # 1
    OBVIOUS
  <2> QED
    BY <1>0, <1>8, <2>1
<1> QED
  BY <1>1, <1>3, <1>4, <1>12, <1>13 DEF s, first

(* The places of the second bytes.                                              *)
LEMMA JoinedBehind == \A a, b \in Seq(Octet) : \A i \in 1..Len(b) : (a \o b)[Len(a) + i] = b[i]
<1> TAKE a, b \in Seq(Octet)
<1> TAKE i \in 1..Len(b)
<1>1. Len(a) \in Nat /\ Len(b) \in Nat
  BY LenProperties
<1>2. Len(a) + i \in 1..(Len(a) + Len(b)) /\ ~(Len(a) + i <= Len(a)) /\ (Len(a) + i) - Len(a) = i
  BY <1>1
<1> QED
  BY <1>2, ConcatProperties

(* Cutting bytes behind the first ones cuts what follows those.                   *)
LEMMA CutBehind ==
  ASSUME NEW a \in Seq(Octet), NEW b \in Seq(Octet), NEW n \in Len(a)..Len(a \o b)
  PROVE  SubSeq(a \o b, 1, n) = a \o SubSeq(b, 1, n - Len(a))
<1> DEFINE k == Len(a)
           s == a \o b
           x == SubSeq(s, 1, n)
           c == SubSeq(b, 1, n - k)
<1>1. /\ k \in Nat /\ s \in Seq(Octet) /\ Len(s) = k + Len(b) /\ Len(b) \in Nat
      /\ (\A i \in 1..k : s[i] = a[i])
      /\ (\A i \in 1..Len(b) : s[k + i] = b[i])
  OBVIOUS
<1>2. n \in Nat /\ n >= k /\ n <= k + Len(b) /\ n \in 0..Len(s) /\ n - k \in 0..Len(b)
  BY <1>1
<1> HIDE DEF s, k
<1>3. x \in Seq(Octet) /\ Len(x) = n /\ \A i \in 1..n : x[i] = s[i]
  BY <1>1, <1>2
<1>4. c \in Seq(Octet) /\ Len(c) = n - k /\ \A i \in 1..(n - k) : c[i] = b[i]
  BY <1>2
<1> HIDE DEF x, c
<1>5. a \o c \in Seq(Octet) /\ Len(a \o c) = n
  <2>1. a \o c \in Seq(Octet) /\ Len(a \o c) = k + (n - k)
    BY <1>4, Joined DEF k
  <2> QED
    BY <1>1, <1>2, <2>1
<1>6. ASSUME NEW i \in 1..n
      PROVE  (a \o c)[i] = x[i]
  <2>1. CASE i <= k
    <3>1. i \in 1..k
      BY <1>1, <2>1
    <3>2. (a \o c)[i] = a[i]
      BY <1>4, <3>1, JoinedAt DEF k
    <3> QED
      BY <1>1, <1>3, <3>1, <3>2
  <2>2. CASE i > k
    <3>1. i - k \in 1..(n - k) /\ k + (i - k) = i /\ i - k \in 1..Len(b)
      BY <1>1, <1>2, <2>2
    <3>2. (a \o c)[k + (i - k)] = c[i - k]
      BY <1>4, <3>1, JoinedBehind DEF k
    <3>3. s[k + (i - k)] = b[i - k]
      BY <1>1, <3>1
    <3> QED
      BY <1>3, <1>4, <3>1, <3>2, <3>3
  <2>3. i <= k \/ i > k
    BY <1>1, <1>2
  <2> QED
    BY <2>1, <2>2, <2>3
<1>7. a \o c = x
  BY <1>3, <1>5, <1>6, SeqEqual
<1> QED
  BY <1>7 DEF x, s, c, k

(* How long a varint is shows in its first byte.                                 *)
LEMMA VarintLength ==
  ASSUME NEW v \in Nat, v < Room(8), NEW bytes \in Seq(Octet), bytes # <<>>,
         bytes[1] = write_varint(v)[1]
  PROVE  /\ Len(write_varint(v)) \in 1..8
         /\ Width(bytes[1] \div (RADIX \div 4)) = Len(write_varint(v))
<1>1. PICK w \in {1, 2, 4, 8} : \E q :
           /\ Shifted(q, v, w) /\ q[w - 1] < Quarter
           /\ write_varint(v) \in Seq(Octet) /\ Len(write_varint(v)) = w
           /\ write_varint(v)[1] = Prefix(w) * Quarter + q[w - 1]
           /\ \A i \in 2..w : write_varint(v)[i] = q[w - i] % RADIX
  BY VarintWritten
<1>2. PICK q : /\ (\A i \in 0..w : q[i] \in Nat) /\ q[w - 1] < Quarter
               /\ Len(write_varint(v)) = w
               /\ write_varint(v)[1] = Prefix(w) * Quarter + q[w - 1]
  BY <1>1 DEF Shifted
<1>3. w \in 1..8 /\ w - 1 \in 0..w
  OBVIOUS
<1>4. Prefix(w) \in 0..3 /\ Width(Prefix(w)) = w
  BY PrefixesTell
<1>5. q[w - 1] \in 0..(Quarter - 1)
  BY <1>2, <1>3, Quarters
<1>6. (Prefix(w) * Quarter + q[w - 1]) \div Quarter = Prefix(w)
  BY <1>4, <1>5, FirstByte
<1> QED
  BY <1>2, <1>3, <1>4, <1>6 DEF Quarter

(* ByteReader::read_varint reads what ByteWriter::write_varint wrote.              *)
LEMMA VarintReadBack ==
  ASSUME NEW v \in Nat, v < Room(8), NEW rest \in Seq(Octet)
  PROVE  read_varint(write_varint(v) \o rest) = Good([number |-> v, rest |-> rest])
<1> DEFINE s == write_varint(v)
           bytes == s \o rest
<1>1. PICK w \in {1, 2, 4, 8} : \E q :
           /\ Shifted(q, v, w) /\ q[w - 1] < Quarter
           /\ write_varint(v) \in Seq(Octet) /\ Len(write_varint(v)) = w
           /\ write_varint(v)[1] = Prefix(w) * Quarter + q[w - 1]
           /\ \A i \in 2..w : write_varint(v)[i] = q[w - i] % RADIX
  BY VarintWritten
<1>2. PICK q : /\ Shifted(q, v, w) /\ q[w - 1] \in Nat /\ q[w - 1] < Quarter
               /\ s \in Seq(Octet) /\ Len(s) = w
               /\ s[1] = Prefix(w) * Quarter + q[w - 1]
               /\ \A i \in 2..w : s[i] = q[w - i] % RADIX
  <2>1. w - 1 \in 0..w
    OBVIOUS
  <2> QED
    BY <1>1, <2>1 DEF Shifted
<1>3. w \in 1..8 /\ w - 1 \in 0..w /\ w \in Nat /\ 1 \in 1..w
  OBVIOUS
<1> HIDE DEF s
<1>4. /\ bytes \in Seq(Octet) /\ Len(bytes) = w + Len(rest) /\ Len(rest) \in Nat
      /\ (\A i \in 1..w : bytes[i] = s[i])
  <2>1. bytes \in Seq(Octet) /\ Len(bytes) = Len(s) + Len(rest)
    BY <1>2, Joined
  <2>2. \A i \in 1..Len(s) : bytes[i] = s[i]
    BY <1>2, JoinedAt
  <2> QED
    BY <1>2, <2>1, <2>2
<1>5. bytes # <<>> /\ bytes[1] = s[1] /\ ~(Len(bytes) < w)
  <2>1. Len(bytes) # 0
    BY <1>3, <1>4
  <2>2. bytes # <<>>
    BY <2>1
  <2> QED
    BY <1>3, <1>4, <2>2
<1>6. Width(bytes[1] \div (RADIX \div 4)) = w
  BY <1>2, <1>4, <1>5, VarintLength DEF s
<1>7. bytes[1] % (RADIX \div 4) = q[w - 1]
  <2>1. Prefix(w) \in 0..3
    BY PrefixesTell
  <2>2. q[w - 1] \in 0..(Quarter - 1)
    BY <1>2, <1>3, Quarters
  <2>3. (Prefix(w) * Quarter + q[w - 1]) % Quarter = q[w - 1]
    BY <2>1, <2>2, FirstByte
  <2> QED
    BY <1>2, <1>5, <2>3 DEF Quarter
<1>8. From(bytes, w + 1) = rest
  <2>1. SubSeq(s \o rest, Len(s) + 1, Len(s \o rest)) = rest
    BY <1>2, PartedOctets
  <2> QED
    BY <1>2, <2>1 DEF From
<1> DEFINE tail == SubSeq(bytes, 2, w)
           d == <<q[w - 1]>> \o tail
<1>9. tail \in Seq(Octet) /\ Len(tail) = w - 1 /\ \A i \in 1..(w - 1) : tail[i] = bytes[i + 1]
  <2> HIDE DEF bytes
  <2>1. w <= Len(bytes) /\ Len(bytes) \in Nat
    BY <1>3, <1>4
  <2> QED
    BY <1>3, <1>4, <2>1
<1>10. q[w - 1] \in Octet
  BY <1>2, <1>3, Quarters DEF Octet
<1> HIDE DEF tail, bytes
<1>11. /\ d \in Seq(Octet) /\ Len(d) = w /\ d[1] = q[w - 1]
       /\ \A i \in 2..w : d[i] = q[w - i] % RADIX
  <2> DEFINE h == <<q[w - 1]>>
  <2>1. h \in Seq(Octet) /\ Len(h) = 1 /\ h[1] = q[w - 1]
    BY <1>10
  <2> HIDE DEF h
  <2>2. /\ d \in Seq(Octet) /\ Len(d) = 1 + (w - 1) /\ d[1] = h[1]
        /\ \A i \in 1..(w - 1) : d[1 + i] = tail[i]
    <3> HIDE DEF d
    <3>1. d = h \o tail
      BY DEF d, h
    <3>2. d \in Seq(Octet) /\ Len(d) = Len(h) + Len(tail)
      BY <1>9, <2>1, <3>1, Joined
    <3>3. \A i \in 1..Len(h) : d[i] = h[i]
      BY <1>9, <2>1, <3>1, JoinedAt
    <3>4. \A i \in 1..Len(tail) : d[Len(h) + i] = tail[i]
      BY <1>9, <2>1, <3>1, JoinedBehind
    <3>5. 1 \in 1..Len(h)
      BY <2>1
    <3> QED
      BY <1>9, <2>1, <3>2, <3>3, <3>4, <3>5
  <2>3. ASSUME NEW i \in 2..w
        PROVE  d[i] = q[w - i] % RADIX
    <3>1. i - 1 \in 1..(w - 1) /\ 1 + (i - 1) = i /\ (i - 1) + 1 = i /\ i \in 1..w
      BY <1>3
    <3>2. d[i] = tail[i - 1] /\ tail[i - 1] = bytes[i] /\ bytes[i] = s[i]
      BY <1>4, <1>9, <2>2, <3>1
    <3> QED
      BY <1>2, <3>2
  <2> HIDE DEF d
  <2> QED
    BY <1>3, <2>1, <2>2, <2>3
<1> HIDE DEF d
<1>12. number(d) = v
  <2>1. d \in Seq(Nat)
    BY <1>11, OctetsAreNumbers
  <2>2. Spells(d, q, w)
    BY <1>11 DEF Spells
  <2> QED
    BY <1>2, <1>3, <2>1, <2>2, NumberOfDigits
<1>13. read_varint(bytes) = Good([number |-> number(<<q[w - 1]>> \o SubSeq(bytes, 2, w)),
                                  rest |-> From(bytes, w + 1)])
  BY <1>5, <1>6, <1>7 DEF read_varint
<1> QED
  BY <1>8, <1>12, <1>13 DEF d, tail, bytes, s

(* What is read behind a varint is some of the bytes up to the end.                *)
LEMMA VarintRead ==
  ASSUME NEW bytes \in Seq(Octet), read_varint(bytes).error = "OK"
  PROVE  \E n \in 1..8 : n <= Len(bytes) /\ read_varint(bytes).value.rest = SubSeq(bytes, n + 1, Len(bytes))
<1> DEFINE b == bytes[1]
           w == Width(b \div (RADIX \div 4))
<1>1. bytes # <<>> /\ ~(Len(bytes) < w)
  BY DEF read_varint, Bad
<1>2. b \in Octet
  <2>1. Len(bytes) \in Nat /\ Len(bytes) # 0
    BY <1>1, EmptySeq
  <2> QED
    BY <2>1
<1>3. b \div Quarter \in 0..3
  <2>1. b \in Nat /\ b < 4 * Quarter /\ Quarter \in Nat \ {0}
    BY <1>2, Quarters DEF Octet
  <2>2. b \div Quarter < 4
    BY <2>1, ShiftBound
  <2>3. b \div Quarter \in Nat
    BY <2>1
  <2> QED
    BY <2>2, <2>3
<1>4. w \in 1..8
  <2> DEFINE p == b \div Quarter
  <2>1. p = 0 \/ p = 1 \/ p = 2 \/ p = 3
    BY <1>3
  <2>2. Width(0) = 1 /\ Width(1) = 2 /\ Width(2) = 4 /\ Width(3) = 8
    BY DEF Width
  <2>3. w = Width(p)
    BY DEF Quarter
  <2> HIDE DEF p, w
  <2>4. CASE p = 0
    BY <2>2, <2>3, <2>4
  <2>5. CASE p = 1
    BY <2>2, <2>3, <2>5
  <2>6. CASE p = 2
    BY <2>2, <2>3, <2>6
  <2>7. CASE p = 3
    BY <2>2, <2>3, <2>7
  <2> QED
    BY <2>1, <2>4, <2>5, <2>6, <2>7
<1>5. read_varint(bytes).value.rest = From(bytes, w + 1)
  BY <1>1 DEF read_varint, Good
<1> HIDE DEF w
<1>6. w <= Len(bytes)
  BY <1>1, <1>4
<1> QED
  BY <1>4, <1>5, <1>6 DEF From

(* What was written is a few bytes.                                             *)
LEMMA VarintBytes ==
  ASSUME NEW v \in Nat, v < Room(8)
  PROVE  write_varint(v) \in Seq(Octet) /\ Len(write_varint(v)) \in 1..8
<1>1. PICK w \in {1, 2, 4, 8} : write_varint(v) \in Seq(Octet) /\ Len(write_varint(v)) = w
  BY VarintWritten
<1> QED
  BY <1>1

(* The payload of a batch is found behind its length, if it is not too long.       *)
LEMMA PayloadFound ==
  ASSUME NEW p \in Seq(Octet), Len(p) < Room(8)
  PROVE  payload_of(write_varint(Len(p)) \o p) =
           IF Len(p) > MaxLength THEN Bad("MALFORMED_DATA") ELSE Good(p)
<1> DEFINE size == [number |-> Len(p), rest |-> p]
<1>1. read_varint(write_varint(Len(p)) \o p) = Good(size)
  BY VarintReadBack
<1>2. size.number = Len(p) /\ size.rest = p /\ Len(p) \in Nat
  OBVIOUS
<1> HIDE DEF size
<1>3. Good(size).error = "OK" /\ Good(size).value = size
  BY DEF Good
<1> QED
  BY <1>1, <1>2, <1>3 DEF payload_of, Then

(* The payload that is found is what stands behind a varint.                      *)
LEMMA PayloadRead ==
  ASSUME NEW bytes \in Seq(Octet), payload_of(bytes).error = "OK"
  PROVE  \E n \in 1..8, p \in Seq(Octet) :
           payload_of(bytes) = Good(p) /\ bytes = SubSeq(bytes, 1, n) \o p
<1> DEFINE read == read_varint(bytes)
           p == read.value.rest
<1>1. read.error = "OK" /\ payload_of(bytes) = Good(p)
  BY DEF payload_of, Then, Bad
<1>2. PICK n \in 1..8 : n <= Len(bytes) /\ p = SubSeq(bytes, n + 1, Len(bytes))
  BY <1>1, VarintRead
<1>3. p \in Seq(Octet) /\ bytes = SubSeq(bytes, 1, n) \o p
  <2>1. n \in 0..Len(bytes)
    BY <1>2
  <2> QED
    BY <1>2, <2>1, CutOctets
<1> QED
  BY <1>1, <1>3

(* And nothing is found if the end is missing, be it of the payload or of its       *)
(* length already.                                                              *)
LEMMA PayloadCut ==
  ASSUME NEW p \in Seq(Octet), Len(p) < Room(8),
         NEW n \in 0..(Len(write_varint(Len(p)) \o p) - 1)
  PROVE  payload_of(SubSeq(write_varint(Len(p)) \o p, 1, n)).error # "OK"
<1> DEFINE a == write_varint(Len(p))
           s == a \o p
           w == SubSeq(s, 1, n)
<1>1. a \in Seq(Octet) /\ Len(a) \in 1..8 /\ Len(p) \in Nat
  BY VarintBytes
<1>2. s \in Seq(Octet) /\ Len(s) = Len(a) + Len(p) /\ n \in 0..Len(s) /\ n < Len(s)
  BY <1>1, Joined
<1>3. CASE n >= Len(a)
  <2> DEFINE c == SubSeq(p, 1, n - Len(a))
             size == [number |-> Len(p), rest |-> c]
  <2>1. n \in Len(a)..Len(s) /\ n - Len(a) \in 0..Len(p) /\ n - Len(a) < Len(p)
    BY <1>1, <1>2, <1>3
  <2>2. w = a \o c
    BY <1>1, <2>1, CutBehind
  <2>3. c \in Seq(Octet) /\ Len(c) < Len(p)
    BY <2>1, CutOctets
  <2> HIDE DEF c, s
  <2>4. read_varint(w) = Good(size)
    BY <1>1, <2>2, <2>3, VarintReadBack
  <2>5. size.number = Len(p) /\ size.rest = c
    OBVIOUS
  <2> HIDE DEF size, w
  <2>6. Good(size).error = "OK" /\ Good(size).value = size
    BY DEF Good
  <2>7. payload_of(w) = IF Len(p) > MaxLength THEN Bad("MALFORMED_DATA") ELSE Bad("UNEXPECTED_END")
    BY <2>3, <2>4, <2>5, <2>6 DEF payload_of, Then
  <2>8. payload_of(w).error # "OK"
    BY <2>7 DEF Bad
  <2> QED
    BY <2>8 DEF w, s
<1>4. CASE n < Len(a)
  <2>1. w \in Seq(Octet) /\ Len(w) = n
    BY <1>2, CutOctets
  <2>2. CASE w = <<>>
    <3> HIDE DEF w
    <3>1. payload_of(w).error # "OK"
      BY <2>2 DEF payload_of, Then, read_varint, Bad
    <3> QED
      BY <3>1 DEF w
  <2>3. CASE w # <<>>
    <3>1. n # 0 /\ 1 \in 1..n
      BY <1>2, <2>1, <2>3, EmptySeq
    <3>2. w[1] = a[1]
      <4>1. w[1] = s[1]
        BY <1>2, <3>1
      <4>2. 1 \in 1..Len(a)
        <5> DEFINE k == Len(a)
        <5>1. k \in 1..8
          BY <1>1
        <5> HIDE DEF k
        <5>2. 1 \in 1..k
          BY <5>1
        <5> QED
          BY <5>2 DEF k
      <4>3. s[1] = a[1]
        BY <1>1, <4>2, JoinedAt
      <4> QED
        BY <4>1, <4>3
    <3> HIDE DEF w
    <3>3. Width(w[1] \div (RADIX \div 4)) = Len(a)
      BY <1>1, <2>1, <2>3, <3>2, VarintLength
    <3>4. read_varint(w) = Bad("UNEXPECTED_END")
      BY <1>4, <2>1, <2>3, <3>3 DEF read_varint
    <3>5. payload_of(w).error # "OK"
      BY <3>4 DEF payload_of, Then, Bad
    <3> QED
      BY <3>5 DEF w
  <2> QED
    BY <2>2, <2>3
<1> QED
  BY <1>1, <1>2, <1>3, <1>4

-----------------------------------------------------------------------------
(* The items of a batch, joined.                                               *)

(* The first i of the parts, joined.                                            *)
JoinedParts(f, s) ==
  /\ f[0] = <<>> /\ (\A i \in 1..Len(s) : f[i] = f[i - 1] \o s[i])
  /\ \A i \in 0..Len(s) : f[i] \in Seq(Octet)

(* FlattenSeq joins one part after the other.                                    *)
LEMMA FlattenUnfolds ==
  ASSUME NEW s \in Seq(Seq(Octet))
  PROVE  \E f : JoinedParts(f, s) /\ FlattenSeq(s) = f[Len(s)]
<1> DEFINE n == Len(s)
           step == [p \in (1..n) \X Seq(Octet) |-> p[2] \o s[p[1]]]
<1>1. n \in Nat /\ \A i \in 1..n : s[i] \in Seq(Octet)
  OBVIOUS
<1>2. <<>> \in Seq(Octet) /\ \A a \in Seq(Octet) : <<>> \o a = a
  OBVIOUS
<1>3. PICK g : Stepwise(g, <<>>, step, n)
  BY <1>1, StepwiseExists
<1> DEFINE Small == {k \in Nat : k \in 0..n => g[k] \in Seq(Octet)}
<1>4. \A k \in 0..n : g[k] \in Seq(Octet)
  <2>1. 0 \in Small
    BY <1>2, <1>3 DEF Stepwise
  <2>2. ASSUME NEW k \in Nat, k \in Small
        PROVE  k + 1 \in Small
    <3>1. SUFFICES ASSUME k + 1 \in 0..n
                   PROVE  g[k + 1] \in Seq(Octet)
      OBVIOUS
    <3>2. k \in 0..n /\ k + 1 \in 1..n /\ (k + 1) - 1 = k /\ k + 1 # 0
      BY <1>1, <3>1
    <3>3. g[k] \in Seq(Octet)
      BY <2>2, <3>2
    <3>4. g[k + 1] = step[<<k + 1, g[k]>>]
      BY <1>3, <3>1, <3>2 DEF Stepwise
    <3>5. step[<<k + 1, g[k]>>] = g[k] \o s[k + 1]
      BY <3>2, <3>3
    <3>6. g[k] \o s[k + 1] \in Seq(Octet)
      BY <1>1, <3>2, <3>3, Joined
    <3> QED
      BY <3>4, <3>5, <3>6
  <2> HIDE DEF Small
  <2>3. Nat \subseteq Small
    BY <2>1, <2>2, Induction
  <2> QED
    BY <2>3 DEF Small
<1>5. g[0] = <<>> /\ \A i \in 1..n : g[i] = g[i - 1] \o s[i]
  <2>1. g[0] = <<>>
    BY <1>1, <1>3 DEF Stepwise
  <2>2. ASSUME NEW i \in 1..n
        PROVE  g[i] = g[i - 1] \o s[i]
    <3>1. i \in 0..n /\ i # 0 /\ i - 1 \in 0..n
      BY <1>1
    <3>2. g[i] = step[<<i, g[i - 1]>>]
      BY <1>3, <3>1 DEF Stepwise
    <3>3. g[i - 1] \in Seq(Octet)
      BY <1>4, <3>1
    <3> QED
      BY <3>2, <3>3
  <2> QED
    BY <2>1, <2>2
<1> HIDE DEF step
<1>6. JoinedParts(g, s)
  BY <1>4, <1>5 DEF JoinedParts
<1>7. CASE n = 0
  <2>1. FlattenSeq(s) = <<>>
    BY <1>7 DEF FlattenSeq
  <2> QED
    BY <1>5, <1>6, <1>7, <2>1
<1>8. CASE n # 0
  <2> DEFINE F == CHOOSE f : f = [i \in 1..n |-> IF i = 1 THEN s[i] ELSE f[i - 1] \o s[i]]
             h == [i \in 1..n |-> g[i]]
  <2>1. h = [i \in 1..n |-> IF i = 1 THEN s[i] ELSE h[i - 1] \o s[i]]
    <3>1. ASSUME NEW i \in 1..n
          PROVE  h[i] = IF i = 1 THEN s[i] ELSE h[i - 1] \o s[i]
      <4>1. g[i] = g[i - 1] \o s[i] /\ h[i] = g[i]
        BY <1>5
      <4>2. CASE i = 1
        <5>1. g[i - 1] = <<>>
          BY <1>5, <4>2
        <5> QED
          BY <1>1, <1>2, <4>1, <4>2, <5>1
      <4>3. CASE i # 1
        <5>1. i - 1 \in 1..n
          BY <1>1, <4>3
        <5> QED
          BY <4>1, <4>3, <5>1
      <4> QED
        BY <4>2, <4>3
    <3>2. h = [i \in 1..n |-> h[i]]
      OBVIOUS
    <3> HIDE DEF h
    <3> QED
      BY <3>1, <3>2
  <2> HIDE DEF h
  <2>2. F = [i \in 1..n |-> IF i = 1 THEN s[i] ELSE F[i - 1] \o s[i]]
    BY <2>1
  <2>3. FlattenSeq(s) = F[n]
    BY <1>8 DEF FlattenSeq
  <2> HIDE DEF F
  <2> DEFINE Same == {k \in Nat : k + 1 \in 1..n => F[k + 1] = g[k + 1]}
  <2>4. 0 \in Same
    <3>1. SUFFICES ASSUME 1 \in 1..n
                   PROVE  F[1] = g[1]
      OBVIOUS
    <3>2. F[1] = s[1]
      BY <2>2, <3>1
    <3>3. g[1] = g[1 - 1] \o s[1] /\ 1 - 1 = 0
      <4>1. 1 - 1 = 0
        OBVIOUS
      <4> QED
        BY <1>5, <3>1, <4>1, Zenon
    <3>4. <<>> \o s[1] = s[1]
      BY <1>1, <1>2, <3>1
    <3> QED
      BY <1>5, <3>2, <3>3, <3>4
  <2>5. ASSUME NEW k \in Nat, k \in Same
        PROVE  k + 1 \in Same
    <3>1. SUFFICES ASSUME (k + 1) + 1 \in 1..n
                   PROVE  F[(k + 1) + 1] = g[(k + 1) + 1]
      OBVIOUS
    <3> DEFINE i == k + 1
    <3>2. i \in 1..n /\ i + 1 \in 1..n /\ i + 1 # 1 /\ (i + 1) - 1 = i
      BY <1>1, <3>1
    <3>3. F[i] = g[i]
      BY <2>5, <3>2
    <3> HIDE DEF i
    <3>4. F[i + 1] = F[i] \o s[i + 1]
      BY <2>2, <3>2
    <3>5. g[i + 1] = g[i] \o s[i + 1]
      BY <1>5, <3>2
    <3> QED
      BY <3>3, <3>4, <3>5 DEF i
  <2> HIDE DEF Same
  <2>6. Nat \subseteq Same
    BY <2>4, <2>5, Induction
  <2>7. F[n] = g[n]
    <3>1. n - 1 \in Nat /\ (n - 1) + 1 = n /\ n \in 1..n
      BY <1>1, <1>8
    <3>2. n - 1 \in Same
      BY <2>6, <3>1
    <3> QED
      BY <3>1, <3>2 DEF Same
  <2> QED
    BY <1>6, <2>3, <2>7
<1> QED
  BY <1>7, <1>8

(* What is joined follows from the parts.                                        *)
LEMMA JoinedOnce ==
  ASSUME NEW s \in Seq(Seq(Octet)), NEW f, JoinedParts(f, s), NEW g, NEW n \in 0..Len(s),
         g[0] = <<>>, \A i \in 1..n : g[i] = g[i - 1] \o s[i]
  PROVE  g[n] = f[n]
<1> DEFINE Same == {k \in Nat : k \in 0..n => g[k] = f[k]}
<1>1. 0 \in Same
  BY DEF JoinedParts
<1>2. ASSUME NEW k \in Nat, k \in Same
      PROVE  k + 1 \in Same
  <2>1. SUFFICES ASSUME k + 1 \in 0..n
                 PROVE  g[k + 1] = f[k + 1]
    OBVIOUS
  <2>2. k \in 0..n /\ k + 1 \in 1..n /\ k + 1 \in 1..Len(s) /\ (k + 1) - 1 = k
    BY <2>1
  <2>3. g[k] = f[k]
    BY <1>2, <2>2
  <2>4. g[k + 1] = g[k] \o s[k + 1]
    BY <2>2
  <2>5. f[k + 1] = f[k] \o s[k + 1]
    BY <2>2 DEF JoinedParts
  <2> QED
    BY <2>3, <2>4, <2>5
<1> HIDE DEF Same
<1>3. Nat \subseteq Same
  BY <1>1, <1>2, Induction
<1>4. n \in Same
  BY <1>3
<1> QED
  BY <1>4 DEF Same

(* One part more at the end is joined to the others.                             *)
LEMMA FlattenAppend ==
  ASSUME NEW s \in Seq(Seq(Octet)), NEW x \in Seq(Octet)
  PROVE  FlattenSeq(Append(s, x)) = FlattenSeq(s) \o x /\ FlattenSeq(s) \in Seq(Octet)
<1> DEFINE n == Len(s)
           t == Append(s, x)
<1>1. /\ n \in Nat /\ t \in Seq(Seq(Octet)) /\ Len(t) = n + 1 /\ t[n + 1] = x
      /\ \A i \in 1..n : t[i] = s[i]
  OBVIOUS
<1> HIDE DEF t
<1>2. PICK f : JoinedParts(f, s) /\ FlattenSeq(s) = f[n]
  BY FlattenUnfolds
<1>3. PICK g : JoinedParts(g, t) /\ FlattenSeq(t) = g[n + 1]
  BY <1>1, FlattenUnfolds
<1>4. g[n + 1] = g[n] \o x
  <2>1. n + 1 \in 1..Len(t) /\ (n + 1) - 1 = n
    BY <1>1
  <2>2. g[n + 1] = g[(n + 1) - 1] \o t[n + 1]
    BY <1>3, <2>1 DEF JoinedParts
  <2> QED
    BY <1>1, <2>1, <2>2
<1>5. g[n] = f[n]
  <2>1. g[0] = <<>> /\ n \in 0..n
    BY <1>1, <1>3 DEF JoinedParts
  <2>2. ASSUME NEW i \in 1..n
        PROVE  g[i] = g[i - 1] \o s[i]
    <3>1. i \in 1..Len(t)
      BY <1>1
    <3>2. g[i] = g[i - 1] \o t[i]
      BY <1>3, <3>1 DEF JoinedParts
    <3> QED
      BY <1>1, <3>2
  <2> QED
    BY <1>2, <2>1, <2>2, JoinedOnce
<1>6. f[n] \in Seq(Octet)
  BY <1>1, <1>2 DEF JoinedParts
<1> QED
  BY <1>2, <1>3, <1>4, <1>5, <1>6 DEF t

(* Behind the first i parts come the others.                                     *)
LEMMA FlattenParts ==
  ASSUME NEW s \in Seq(Seq(Octet)), NEW f, JoinedParts(f, s), NEW i \in 0..Len(s)
  PROVE  \E t \in Seq(Octet) : f[Len(s)] = f[i] \o t
<1> DEFINE n == Len(s)
           S == {k \in Nat : k \in 0..n => \E t \in Seq(Octet) : f[n] = f[n - k] \o t}
<1>1. n \in Nat
  OBVIOUS
<1>2. 0 \in S
  <2>1. f[n] \in Seq(Octet) /\ n - 0 = n
    BY <1>1 DEF JoinedParts
  <2>2. f[n] = f[n] \o <<>> /\ <<>> \in Seq(Octet)
    BY <2>1
  <2> QED
    BY <2>1, <2>2
<1>3. ASSUME NEW k \in Nat, k \in S
      PROVE  k + 1 \in S
  <2>1. SUFFICES ASSUME k + 1 \in 0..n
                 PROVE  \E t \in Seq(Octet) : f[n] = f[n - (k + 1)] \o t
    <3>1. k + 1 \in Nat
      OBVIOUS
    <3> QED
      BY <3>1, Zenon
  <2> DEFINE j == n - (k + 1)
  <2>2. k \in 0..n /\ n - k = j + 1 /\ j \in 0..n /\ j + 1 \in 1..n /\ (j + 1) - 1 = j
    BY <1>1, <2>1
  <2>3. PICK t \in Seq(Octet) : f[n] = f[j + 1] \o t
    <3>1. \E t \in Seq(Octet) : f[n] = f[n - k] \o t
      BY <1>3, <2>2
    <3> HIDE DEF j
    <3> QED
      BY <2>2, <3>1
  <2>4. f[j + 1] = f[j] \o s[j + 1] /\ f[j] \in Seq(Octet) /\ s[j + 1] \in Seq(Octet)
    <3>1. f[j + 1] = f[(j + 1) - 1] \o s[j + 1]
      BY <2>2 DEF JoinedParts
    <3>2. f[j] \in Seq(Octet)
      BY <2>2 DEF JoinedParts
    <3>3. s[j + 1] \in Seq(Octet)
      BY <2>2
    <3> HIDE DEF j
    <3> QED
      BY <2>2, <3>1, <3>2, <3>3
  <2>5. f[n] = f[j] \o (s[j + 1] \o t) /\ s[j + 1] \o t \in Seq(Octet)
    <3> DEFINE a == f[j]
               b == s[j + 1]
    <3>1. f[n] = (a \o b) \o t /\ a \in Seq(Octet) /\ b \in Seq(Octet)
      <4> HIDE DEF j
      <4> QED
        BY <2>3, <2>4, Zenon
    <3> HIDE DEF a, b, j, n
    <3>2. f[n] = a \o (b \o t) /\ b \o t \in Seq(Octet)
      BY <3>1, Associative, Joined
    <3> QED
      BY <3>2 DEF a, b
  <2> QED
    BY <2>5
<1> HIDE DEF S
<1>4. Nat \subseteq S
  BY <1>2, <1>3, Induction
<1>5. n - i \in Nat /\ n - i \in 0..n /\ n - (n - i) = i
  BY <1>1
<1>6. n - i \in S
  BY <1>4, <1>5
<1> QED
  BY <1>5, <1>6 DEF S

(* If no part is longer than `most`, nor empty.                                   *)
LEMMA FlattenLength ==
  ASSUME NEW s \in Seq(Seq(Octet)), NEW f, JoinedParts(f, s), NEW most \in Nat,
         \A i \in 1..Len(s) : Len(s[i]) \in 1..most, NEW n \in 0..Len(s)
  PROVE  Len(f[n]) >= n /\ Len(f[n]) <= n * most
<1> DEFINE S == {k \in Nat : k \in 0..Len(s) => Len(f[k]) >= k /\ Len(f[k]) <= k * most}
<1>1. 0 \in S
  BY DEF JoinedParts
<1>2. ASSUME NEW k \in Nat, k \in S
      PROVE  k + 1 \in S
  <2>1. SUFFICES ASSUME k + 1 \in 0..Len(s)
                 PROVE  Len(f[k + 1]) >= k + 1 /\ Len(f[k + 1]) <= (k + 1) * most
    OBVIOUS
  <2>2. k \in 0..Len(s) /\ k + 1 \in 1..Len(s) /\ (k + 1) - 1 = k
    BY <2>1
  <2>3. Len(f[k]) >= k /\ Len(f[k]) <= k * most
    BY <1>2, <2>2
  <2>4. f[k + 1] = f[k] \o s[k + 1] /\ f[k] \in Seq(Octet) /\ s[k + 1] \in Seq(Octet)
    <3>1. f[k + 1] = f[(k + 1) - 1] \o s[k + 1]
      BY <2>2 DEF JoinedParts
    <3>2. f[k] \in Seq(Octet)
      BY <2>2 DEF JoinedParts
    <3> QED
      BY <2>2, <3>1, <3>2
  <2> DEFINE a == Len(f[k])
             b == Len(s[k + 1])
  <2>5. Len(f[k + 1]) = a + b /\ a \in Nat /\ b \in 1..most
    BY <2>2, <2>4, Joined, LenProperties
  <2>6. a >= k /\ a <= k * most
    BY <2>3
  <2> HIDE DEF a, b
  <2>7. (k + 1) * most = k * most + most /\ k * most \in Nat
    OBVIOUS
  <2> QED
    BY <2>5, <2>6, <2>7
<1> HIDE DEF S
<1>3. Nat \subseteq S
  BY <1>1, <1>2, Induction
<1>4. n \in S
  BY <1>3
<1> QED
  BY <1>4 DEF S

-----------------------------------------------------------------------------
(* The decoding loop of the two batches.                                       *)
Batches == {"requests", "responses"}

NextItem(kind, batch) ==
  IF kind = "requests" THEN with_next(batch, request_size, deserialize_request)
  ELSE with_next(batch, response_size, deserialize_optional)

Turn(kind, result) ==
  IF result.error # "OK" THEN result
  ELSE IF result.value.rest = <<>> THEN Good(result.value) ELSE NextItem(kind, result.value)

Unread(payload) == Good([items |-> <<>>, rest |-> payload])

(* A loop of n turns.                                                           *)
Turns(r, kind, payload, n) ==
  r[0] = Unread(payload) /\ \A i \in 1..n : r[i] = Turn(kind, r[i - 1])

BatchFold(f, kind, start, n) ==
  f = [t \in SUBSET (1..n) |->
         IF t = {} THEN start ELSE LET x == Max(t) IN Turn(kind, f[t \ {x}])]

(* What FoldLeft looks up for the loop exists.                                    *)
LEMMA BatchFoldExists ==
  ASSUME NEW kind, NEW start, NEW n \in Nat
  PROVE  \E f : BatchFold(f, kind, start, n)
<1> DEFINE S == {k \in Nat : \E f : BatchFold(f, kind, start, k)}
<1>1. 0 \in S
  <2> DEFINE f == [t \in SUBSET (1..0) |-> start]
  <2>1. \A t \in SUBSET (1..0) : t = {}
    OBVIOUS
  <2>2. f = [t \in SUBSET (1..0) |->
               IF t = {} THEN start ELSE LET x == Max(t) IN Turn(kind, f[t \ {x}])]
    BY <2>1
  <2>3. BatchFold(f, kind, start, 0)
    BY <2>2 DEF BatchFold
  <2> QED
    BY <2>3
<1>2. ASSUME NEW k \in Nat, k \in S
      PROVE  k + 1 \in S
  <2>1. PICK f : BatchFold(f, kind, start, k)
    BY <1>2
  <2> DEFINE g == [t \in SUBSET (1..(k + 1)) |->
                     IF k + 1 \in t THEN Turn(kind, f[t \ {k + 1}]) ELSE f[t]]
             value(t) == IF t = {} THEN start ELSE LET x == Max(t) IN Turn(kind, g[t \ {x}])
  <2>2. ASSUME NEW t \in SUBSET (1..(k + 1))
        PROVE  g[t] = value(t)
    <3>1. CASE k + 1 \in t
      <4>1. Max(t) = k + 1 /\ t \ {k + 1} \in SUBSET (1..k)
        BY <3>1, LargestOfInitial
      <4>2. t \ {k + 1} \in SUBSET (1..(k + 1)) /\ k + 1 \notin t \ {k + 1}
        OBVIOUS
      <4>3. g[t \ {k + 1}] = f[t \ {k + 1}]
        BY <4>2
      <4>4. g[t] = Turn(kind, f[t \ {k + 1}])
        BY <3>1
      <4> QED
        BY <3>1, <4>1, <4>3, <4>4
    <3>2. CASE k + 1 \notin t
      <4>1. t \in SUBSET (1..k)
        BY <3>2
      <4>2. g[t] = f[t]
        BY <3>2
      <4>3. \A x : t \ {x} \in SUBSET (1..(k + 1)) /\ k + 1 \notin t \ {x}
        BY <3>2
      <4>4. \A x : g[t \ {x}] = f[t \ {x}]
        BY <4>3
      <4>5. f[t] = IF t = {} THEN start ELSE LET x == Max(t) IN Turn(kind, f[t \ {x}])
        BY <2>1, <4>1 DEF BatchFold
      <4> QED
        BY <4>2, <4>4, <4>5
    <3> QED
      BY <3>1, <3>2
  <2>3. g = [t \in SUBSET (1..(k + 1)) |-> g[t]]
    OBVIOUS
  <2> HIDE DEF g
  <2>4. BatchFold(g, kind, start, k + 1)
    BY <2>2, <2>3 DEF BatchFold
  <2> QED
    BY <2>4
<1> HIDE DEF S
<1>3. Nat \subseteq S
  BY <1>1, <1>2, Induction
<1> QED
  BY <1>3 DEF S

LoopFold(kind, payload) ==
  CHOOSE f : f = [t \in SUBSET (1..Len(payload)) |->
                    IF t = {} THEN Unread(payload) ELSE LET x == Max(t) IN Turn(kind, f[t \ {x}])]

(* It has as many turns as the payload has bytes.                                *)
LEMMA LoopUnfolds ==
  ASSUME NEW kind, NEW payload \in Seq(Octet)
  PROVE  \E r : /\ Turns(r, kind, payload, Len(payload))
               /\ LoopFold(kind, payload)[1..Len(payload)] = r[Len(payload)]
<1> DEFINE n == Len(payload)
           start == Unread(payload)
           F == LoopFold(kind, payload)
<1>1. n \in Nat
  OBVIOUS
<1>2. F = CHOOSE f : BatchFold(f, kind, start, n)
  BY DEF LoopFold, BatchFold
<1> HIDE DEF n, start
<1>3. \E f : BatchFold(f, kind, start, n)
  BY <1>1, BatchFoldExists
<1> HIDE DEF F
<1>4. BatchFold(F, kind, start, n)
  BY <1>2, <1>3
<1> DEFINE r == [i \in 0..n |-> F[1..i]]
<1>5. r[0] = start
  <2>1. 1..0 = {} /\ {} \in SUBSET (1..n)
    OBVIOUS
  <2>2. F[{}] = start
    BY <1>4, <2>1 DEF BatchFold
  <2> QED
    BY <1>1, <2>1, <2>2
<1>6. r[n] = F[1..n]
  BY <1>1
<1>7. ASSUME NEW i \in 1..n
      PROVE  r[i] = Turn(kind, r[i - 1])
  <2>1. i - 1 \in Nat /\ (i - 1) + 1 = i /\ i \in 0..n /\ i - 1 \in 0..n /\ i \in 1..i
    BY <1>1
  <2>2. Max(1..i) = i
    BY <2>1, LargestOfInitial
  <2>3. (1..i) \ {i} = 1..(i - 1)
    BY <2>1
  <2>4. 1..i \in SUBSET (1..n) /\ 1..i # {}
    <3>1. \A x \in 1..i : x \in 1..n
      BY <1>1
    <3> QED
      BY <2>1, <3>1
  <2>5. F[1..i] = Turn(kind, F[1..(i - 1)])
    BY <1>4, <2>2, <2>3, <2>4 DEF BatchFold
  <2> QED
    BY <2>1, <2>5
<1> HIDE DEF r
<1>8. Turns(r, kind, payload, n)
  BY <1>5, <1>7 DEF Turns, start
<1> QED
  BY <1>6, <1>8 DEF n, F

(* deserialize of the two batches.                                              *)
ReadBatch(kind, bytes) ==
  IF kind = "requests" THEN deserialize_requests(bytes) ELSE deserialize_responses(bytes)

ItemsOf(result) == IF result.error = "OK" THEN Good(result.value.items) ELSE result

(* What a batch is read as is what the turns of the loop end in.           *)
LEMMA BatchUnfolds ==
  ASSUME NEW kind \in Batches, NEW bytes, NEW payload \in Seq(Octet),
         payload_of(bytes) = Good(payload)
  PROVE  \E r : /\ Turns(r, kind, payload, Len(payload))
               /\ ReadBatch(kind, bytes) = ItemsOf(r[Len(payload)])
<1> DEFINE n == Len(payload)
           D(p) == DOMAIN [i \in 1..Len(p) |-> i]
<1>0. PICK r : Turns(r, kind, payload, n) /\ LoopFold(kind, payload)[1..n] = r[n]
  BY LoopUnfolds
<1>1. D(payload) = 1..n
  OBVIOUS
<1>2. payload_of(bytes).error = "OK" /\ payload_of(bytes).value = payload
  BY DEF Good
<1>3. CASE kind = "requests"
  <2> DEFINE
    turn(result) ==
      IF result.error # "OK" THEN result
      ELSE IF result.value.rest = <<>> THEN Good(result.value)
           ELSE with_next(result.value, request_size, deserialize_request)
    body(f, p) == [t \in SUBSET D(p) |->
                     IF t = {} THEN Unread(p) ELSE LET x == Max(t) IN turn(f[t \ {x}])]
    fold(p) == (CHOOSE f : f = body(f, p))[D(p)]
    looped == IF payload_of(bytes).error # "OK" THEN payload_of(bytes)
              ELSE fold(payload_of(bytes).value)
  <2>1. deserialize_requests(bytes) =
          IF looped.error # "OK" THEN looped ELSE Good(looped.value.items)
    BY DEF deserialize_requests, deserialize_batch, Then, FoldLeft, MapThenFoldSet, Unread
  <2>2. \A result : turn(result) = Turn(kind, result)
    BY <1>3 DEF Turn, NextItem
  <2> HIDE DEF turn, D
  <2>3. \A f : body(f, payload) = [t \in SUBSET (1..n) |->
                                   IF t = {} THEN Unread(payload)
                                   ELSE LET x == Max(t) IN Turn(kind, f[t \ {x}])]
    BY <1>1, <2>2
  <2> HIDE DEF body
  <2>4. (CHOOSE f : f = body(f, payload)) = LoopFold(kind, payload)
    BY <2>3 DEF LoopFold
  <2>5. fold(payload) = r[n]
    BY <1>0, <1>1, <2>4, Zenon
  <2> HIDE DEF fold
  <2>6. looped = r[n]
    BY <1>2, <2>5
  <2> HIDE DEF looped
  <2>7. ReadBatch(kind, bytes) = deserialize_requests(bytes)
    BY <1>3 DEF ReadBatch
  <2>8. ReadBatch(kind, bytes) = ItemsOf(r[n])
    BY <2>1, <2>6, <2>7 DEF ItemsOf
  <2> QED
    BY <1>0, <2>8, Zenon
<1>4. CASE kind = "responses"
  <2> DEFINE
    turn(result) ==
      IF result.error # "OK" THEN result
      ELSE IF result.value.rest = <<>> THEN Good(result.value)
           ELSE with_next(result.value, response_size, deserialize_optional)
    body(f, p) == [t \in SUBSET D(p) |->
                     IF t = {} THEN Unread(p) ELSE LET x == Max(t) IN turn(f[t \ {x}])]
    fold(p) == (CHOOSE f : f = body(f, p))[D(p)]
    looped == IF payload_of(bytes).error # "OK" THEN payload_of(bytes)
              ELSE fold(payload_of(bytes).value)
  <2>1. deserialize_responses(bytes) =
          IF looped.error # "OK" THEN looped ELSE Good(looped.value.items)
    BY DEF deserialize_responses, deserialize_batch, Then, FoldLeft, MapThenFoldSet, Unread
  <2>2. \A result : turn(result) = Turn(kind, result)
    BY <1>4 DEF Turn, NextItem
  <2> HIDE DEF turn, D
  <2>3. \A f : body(f, payload) = [t \in SUBSET (1..n) |->
                                   IF t = {} THEN Unread(payload)
                                   ELSE LET x == Max(t) IN Turn(kind, f[t \ {x}])]
    BY <1>1, <2>2
  <2> HIDE DEF body
  <2>4. (CHOOSE f : f = body(f, payload)) = LoopFold(kind, payload)
    BY <2>3 DEF LoopFold
  <2>5. fold(payload) = r[n]
    BY <1>0, <1>1, <2>4, Zenon
  <2> HIDE DEF fold
  <2>6. looped = r[n]
    BY <1>2, <2>5
  <2> HIDE DEF looped
  <2>7. ReadBatch(kind, bytes) = deserialize_responses(bytes)
    BY <1>4 DEF ReadBatch
  <2>8. ReadBatch(kind, bytes) = ItemsOf(r[n])
    BY <2>1, <2>6, <2>7 DEF ItemsOf
  <2> QED
    BY <1>0, <2>8, Zenon
<1> QED
  BY <1>3, <1>4 DEF Batches

(* Where no payload is found, no batch is.                                       *)
LEMMA NoBatch ==
  ASSUME NEW kind, NEW bytes, payload_of(bytes).error # "OK"
  PROVE  ReadBatch(kind, bytes).error # "OK"
BY DEF ReadBatch, deserialize_requests, deserialize_responses, deserialize_batch, Then

(* What the loop makes of one item.                                             *)
ItemSort(kind) == IF kind = "requests" THEN RequestSort ELSE OptionalSort

WriteItem(kind, x) == IF kind = "requests" THEN serialize_request(x) ELSE serialize_optional(x)

ItemSize(kind, rest) == IF kind = "requests" THEN request_size(rest) ELSE response_size(rest)

ReadItem(kind, bytes) ==
  IF kind = "requests" THEN deserialize_request(bytes) ELSE deserialize_optional(bytes)

MostBytes == 3 + MaxLength + MaxLength

(* An item is found whole, whatever follows it.                                  *)
ItemFound(kind, x) ==
  LET s == WriteItem(kind, x) IN
  /\ s \in Seq(Octet) /\ Len(s) \in 1..MostBytes /\ ReadItem(kind, s) = Good(x)
  /\ \A rest \in Seq(Octet) : ItemSize(kind, s \o rest) = Good(Len(s))

(* The sizes that TokenTypeInfo gives are some bytes, and not too many.            *)
LEMMA SizesFit ==
  /\ MaxLength \in Nat
  /\ \A type \in KnownType :
       /\ type \in 0..MaxLength
       /\ authenticator_size[type] \in 1..MaxLength /\ blinded_element_size[type] \in 1..MaxLength
  /\ \A type \in Rsa : /\ authenticator_size[type] = authenticator_size[BLIND_RSA]
                      /\ blinded_element_size[type] = authenticator_size[BLIND_RSA]
  /\ ProofSize \in 0..MaxLength
<1>1. SizesAssumption
  BY WireAssumption
<1>2. /\ authenticator_size \in [KnownType -> 1..MaxLength]
      /\ blinded_element_size \in [KnownType -> 1..MaxLength]
      /\ KnownType \subseteq 0..MaxLength /\ ProofSize \in 0..MaxLength
  BY <1>1 DEF SizesAssumption
<1>3. \A type \in Rsa :
        {authenticator_size[type], blinded_element_size[type]} = {authenticator_size[BLIND_RSA]}
  BY <1>1 DEF SizesAssumption
<1>4. \A type \in Rsa : /\ authenticator_size[type] = authenticator_size[BLIND_RSA]
                       /\ blinded_element_size[type] = authenticator_size[BLIND_RSA]
  BY <1>3
<1> QED
  BY <1>2, <1>4, Radix

(* A request is as long as its type says.                                        *)
LEMMA RequestItem ==
  ASSUME NEW x \in RequestSort
  PROVE  ItemFound("requests", x)
<1> DEFINE s == serialize_request(x)
           size == blinded_element_size[x.token_type]
<1>1. x \in ReadRequestSort /\ x.token_type \in KnownType
  BY RequestIsReadable DEF RequestSort
<1>2. size \in 1..MaxLength /\ SizeFor(blinded_element_size, x.token_type) = size
  BY <1>1, SizesFit DEF SizeFor
<1> HIDE DEF size
<1>3. s \in Seq(Octet) /\ TypeAt(s) = x.token_type /\ Len(s) = 3 + size
  <2>1. Len(s) = 2 + 1 + SizeFor(blinded_element_size, x.token_type)
    BY <1>1, RequestLength
  <2> QED
    BY <1>1, <1>2, <2>1, RequestLength
<1>4. deserialize_request(s) = Good(x)
  BY <1>1, RequestRoundTrip
<1> HIDE DEF s
<1>5. Len(s) \in 1..MostBytes
  BY <1>2, <1>3, SizesFit DEF MostBytes
<1>6. ASSUME NEW rest \in Seq(Octet)
      PROVE  request_size(s \o rest) = Good(Len(s))
  <2> DEFINE w == s \o rest
  <2>1. w \in Seq(Octet) /\ Len(w) = Len(s) + Len(rest) /\ Len(rest) \in Nat
    BY <1>3, Joined, LenProperties
  <2>2. SubSeq(w, 1, Len(s)) = s
    BY <1>3, PartedOctets
  <2> HIDE DEF w
  <2>3. Len(s) \in 2..Len(w) /\ ~(Len(w) < 3)
    BY <1>2, <1>3, <2>1
  <2>4. TypeAt(w) = x.token_type
    BY <1>3, <2>1, <2>2, <2>3, TypeOfStart
  <2>5. size # 0
    BY <1>2
  <2>6. request_size(w) = Good(3 + size)
    BY <1>1, <1>2, <2>3, <2>4, <2>5 DEF request_size, size
  <2> QED
    BY <1>3, <2>6 DEF w
<1> QED
  BY <1>3, <1>4, <1>5, <1>6 DEF ItemFound, WriteItem, ReadItem, ItemSize, s

(* An absent response is one byte.                                               *)
LEMMA AbsentItem == ItemFound("responses", {})
<1> DEFINE s == <<0>>
<1>1. {} \in OptionalSort
  BY DEF OptionalSort
<1>2. serialize_optional({}) = s /\ deserialize_optional(s) = Good({})
  BY <1>1, OptionalNone
<1>3. s \in Seq(Octet) /\ Len(s) = 1 /\ s[1] = 0
  BY Marks
<1> HIDE DEF s
<1>4. 1 \in 1..MostBytes
  BY SizesFit DEF MostBytes
<1>5. ASSUME NEW rest \in Seq(Octet)
      PROVE  response_size(s \o rest) = Good(Len(s))
  <2>1. (s \o rest)[1] = 0
    <3>1. 1 \in 1..Len(s)
      BY <1>3
    <3>2. (s \o rest)[1] = s[1]
      BY <1>3, <3>1, JoinedAt
    <3> QED
      BY <1>3, <3>2
  <2> QED
    BY <1>3, <2>1 DEF response_size
<1> QED
  BY <1>2, <1>3, <1>4, <1>5 DEF ItemFound, WriteItem, ReadItem, ItemSize

(* A response is as long as its type says.                                        *)
LEMMA PresentItem ==
  ASSUME NEW x \in OptionalSort, x # {}
  PROVE  ItemFound("responses", x)
<1>1. PICK r \in ResponseSort :
        /\ x = {r} /\ r.token_type \in KnownType /\ written(r.token_type, 2) \in Octets(2)
        /\ serialize_optional(x) = Marked(1, written(r.token_type, 2), serialize_response(r))
  BY OptionalOne
<1> DEFINE type == r.token_type
           t == written(type, 2)
           v == serialize_response(r)
           s == Marked(1, t, v)
<1>2. v \in Seq(Octet) /\ Len(v) = ResponseSize(type)
  BY ResponseLength
<1>3. /\ ResponseSize(type) \in 1..(MaxLength + MaxLength) /\ authenticator_size[type] # 0
      /\ ResponseSize(type)
           = IF type = VOPRF_P384_SHA384 THEN VoprfResponseSize ELSE authenticator_size[type]
  <2>1. CASE type \in Rsa
    <3>1. ResponseSize(type) = authenticator_size[type] /\ type # VOPRF_P384_SHA384
      BY <2>1, Sizes, SizesFit DEF ResponseSize
    <3>2. authenticator_size[type] \in 1..MaxLength /\ MaxLength \in Nat
      BY <1>1, SizesFit
    <3> QED
      BY <3>1, <3>2
  <2>2. CASE type \notin Rsa
    <3>1. type = VOPRF_P384_SHA384 /\ ResponseSize(type) = VoprfResponseSize
      BY <2>2, ResponseCases DEF ResponseSize
    <3>2. /\ blinded_element_size[type] \in 1..MaxLength /\ MaxLength \in Nat
          /\ authenticator_size[type] \in 1..MaxLength /\ ProofSize \in 0..MaxLength
      BY <1>1, SizesFit
    <3>3. VoprfResponseSize = blinded_element_size[type] + ProofSize
      BY <3>1 DEF VoprfResponseSize
    <3> QED
      BY <3>1, <3>2, <3>3
  <2> QED
    BY <2>1, <2>2
<1>4. number(t) = type
  BY <1>1, SizesFit, TwoBytesWritten
<1>5. t \in Octets(2) /\ 1 \in Octet /\ t \in Seq(Octet)
  BY <1>1, Marks DEF Octets
<1> HIDE DEF v, t
<1>6. s \in Seq(Octet) /\ Len(s) = 3 + Len(v)
  BY <1>2, <1>5, Headed
<1>7. Len(s) \in 1..MostBytes
  <2> HIDE DEF s
  <2> QED
    BY <1>2, <1>3, <1>6, SizesFit DEF MostBytes
<1>8. ASSUME NEW rest \in Seq(Octet)
      PROVE  response_size(s \o rest) = Good(Len(s))
  <2> DEFINE u == v \o rest
             w == Marked(1, t, u)
  <2>1. u \in Seq(Octet) /\ Len(u) \in Nat
    BY <1>2, Joined, LenProperties
  <2>2. s \o rest = w
    <3> DEFINE a == <<1>> \o t
    <3>1. a \in Seq(Octet)
      BY <1>5, Joined, Marks
    <3>2. s = a \o v /\ w = a \o u
      BY DEF Marked
    <3> HIDE DEF a, s, w
    <3> QED
      BY <1>2, <3>1, <3>2, Associative
  <2> HIDE DEF u
  <2>3. Len(w) = 3 + Len(u) /\ w[1] = 1 /\ Tail(w) = t \o u
    BY <1>5, <2>1, Headed
  <2>4. TypeAt(Tail(w)) = type
    <3>1. HasFront(t, t \o u)
      BY <1>5, <2>1, FrontOfItself, FrontStays
    <3> HIDE DEF w, type
    <3> QED
      BY <1>4, <2>3, <3>1 DEF HasFront
  <2> HIDE DEF w
  <2>5. ~(Len(w) < 3)
    BY <2>1, <2>3
  <2>6. SizeFor(authenticator_size, type) # 0
    BY <1>1, <1>3 DEF SizeFor
  <2> HIDE DEF type
  <2>7. response_size(w)
          = Good(3 + IF type = VOPRF_P384_SHA384 THEN VoprfResponseSize ELSE authenticator_size[type])
    BY <2>3, <2>4, <2>5, <2>6 DEF response_size
  <2> QED
    BY <1>2, <1>3, <1>6, <2>2, <2>7
<1>9. serialize_optional(x) = s /\ deserialize_optional(s) = Good(x)
  BY <1>1, OptionalRoundTrip DEF s, t, v
<1> HIDE DEF s
<1> QED
  BY <1>6, <1>7, <1>8, <1>9 DEF ItemFound, WriteItem, ReadItem, ItemSize

(* Every item of a batch is found whole.                                   *)
LEMMA ItemsFound ==
  ASSUME NEW kind \in Batches, NEW x \in ItemSort(kind)
  PROVE  ItemFound(kind, x)
<1>1. CASE kind = "requests"
  BY <1>1, RequestItem DEF ItemSort
<1>2. CASE kind = "responses"
  BY <1>2, AbsentItem, PresentItem DEF ItemSort
<1> QED
  BY <1>1, <1>2 DEF Batches

(* One turn takes the next item.                                                *)
LEMMA TurnFinds ==
  ASSUME NEW kind \in Batches, NEW items, Len(items) < MaxBatchSize, MaxBatchSize \in Nat,
         Len(items) \in Nat, NEW x, ItemFound(kind, x), NEW rest \in Seq(Octet)
  PROVE  Turn(kind, Good([items |-> items, rest |-> WriteItem(kind, x) \o rest]))
           = Good([items |-> Append(items, x), rest |-> rest])
<1> DEFINE s == WriteItem(kind, x)
           w == s \o rest
           batch == [items |-> items, rest |-> w]
           then == Good([items |-> Append(items, x), rest |-> rest])
<1>1. /\ s \in Seq(Octet) /\ Len(s) >= 1 /\ Len(s) \in Nat /\ ReadItem(kind, s) = Good(x)
      /\ ItemSize(kind, w) = Good(Len(s))
  <2>1. Len(s) \in 1..MostBytes /\ MostBytes \in Nat
    BY SizesFit DEF ItemFound, MostBytes
  <2>2. Len(s) >= 1 /\ Len(s) \in Nat
    <3> DEFINE k == Len(s)
    <3>1. k \in 1..MostBytes
      BY <2>1
    <3> HIDE DEF k
    <3>2. k >= 1 /\ k \in Nat
      BY <2>1, <3>1
    <3> QED
      BY <3>2 DEF k
  <2> QED
    BY <2>2 DEF ItemFound
<1> HIDE DEF s
<1>2. /\ w \in Seq(Octet) /\ Len(w) = Len(s) + Len(rest) /\ Len(rest) \in Nat
      /\ SubSeq(w, 1, Len(s)) = s /\ From(w, Len(s) + 1) = rest
  BY <1>1, Joined, LenProperties, PartedOctets DEF From
<1> HIDE DEF w
<1>3. ~(Len(w) < Len(s)) /\ w # <<>>
  BY <1>1, <1>2
<1>4. batch.items = items /\ batch.rest = w
  OBVIOUS
<1> HIDE DEF batch
<1>5. ~(Len(items) >= MaxBatchSize)
  OBVIOUS
<1>6. \A v : Good(v).error = "OK" /\ Good(v).value = v
  BY DEF Good
<1>7. NextItem(kind, batch) = then
  <2>1. CASE kind = "requests"
    <3>1. request_size(w) = Good(Len(s)) /\ deserialize_request(s) = Good(x)
      BY <1>1, <2>1 DEF ItemSize, ReadItem
    <3>2. with_next(batch, request_size, deserialize_request) = then
      BY <1>2, <1>3, <1>4, <1>5, <1>6, <3>1 DEF with_next, Then
    <3> QED
      BY <2>1, <3>2 DEF NextItem
  <2>2. CASE kind = "responses"
    <3>1. response_size(w) = Good(Len(s)) /\ deserialize_optional(s) = Good(x)
      BY <1>1, <2>2 DEF ItemSize, ReadItem
    <3>2. with_next(batch, response_size, deserialize_optional) = then
      BY <1>2, <1>3, <1>4, <1>5, <1>6, <3>1 DEF with_next, Then
    <3> QED
      BY <2>2, <3>2 DEF NextItem
  <2> QED
    BY <2>1, <2>2 DEF Batches
<1> HIDE DEF then
<1>8. Turn(kind, Good(batch)) = then
  BY <1>3, <1>4, <1>6, <1>7 DEF Turn
<1> QED
  BY <1>8 DEF batch, then, w, s

PartsOf(kind, items) == [i \in DOMAIN items |-> WriteItem(kind, items[i])]

(* The bytes of the items.                                                      *)
LEMMA PartsFit ==
  ASSUME NEW kind \in Batches, NEW items \in Seq(ItemSort(kind))
  PROVE  /\ PartsOf(kind, items) \in Seq(Seq(Octet)) /\ Len(PartsOf(kind, items)) = Len(items)
         /\ \A i \in 1..Len(items) : /\ PartsOf(kind, items)[i] = WriteItem(kind, items[i])
                                    /\ Len(PartsOf(kind, items)[i]) \in 1..MostBytes
                                    /\ ItemFound(kind, items[i])
<1> DEFINE n == Len(items)
           s == PartsOf(kind, items)
<1>1. n \in Nat /\ DOMAIN items = 1..n /\ \A i \in 1..n : items[i] \in ItemSort(kind)
  OBVIOUS
<1>2. s = [i \in 1..n |-> WriteItem(kind, items[i])]
  BY <1>1 DEF PartsOf
<1> HIDE DEF n, s
<1>3. \A i \in 1..n : ItemFound(kind, items[i])
  BY <1>1, ItemsFound
<1>4. \A i \in 1..n : /\ WriteItem(kind, items[i]) \in Seq(Octet)
                     /\ Len(WriteItem(kind, items[i])) \in 1..MostBytes
  BY <1>3 DEF ItemFound
<1>5. s \in [1..n -> Seq(Octet)]
  BY <1>2, <1>4
<1>6. s \in Seq(Seq(Octet)) /\ Len(s) = n
  BY <1>1, <1>5
<1>7. ASSUME NEW i \in 1..n
      PROVE  s[i] = WriteItem(kind, items[i]) /\ Len(s[i]) \in 1..MostBytes
  <2>1. s[i] = WriteItem(kind, items[i])
    BY <1>2
  <2> QED
    BY <1>4, <2>1
<1> QED
  BY <1>3, <1>6, <1>7 DEF n, s

(* What is left behind the first i parts.                                        *)
PartsLeft(rest, s, p) ==
  /\ rest[0] = p /\ rest[Len(s)] = <<>> /\ p \in Seq(Octet)
  /\ \A i \in 0..Len(s) : rest[i] \in Seq(Octet)
  /\ \A i \in 1..Len(s) : rest[i - 1] = s[i] \o rest[i]

(* What is left of a joined sequence, after each of its parts.             *)
LEMMA RestOfParts ==
  ASSUME NEW s \in Seq(Seq(Octet)), NEW p, p = FlattenSeq(s)
  PROVE  \E rest : PartsLeft(rest, s, p)
<1> DEFINE n == Len(s)
<1>1. n \in Nat /\ \A i \in 1..n : s[i] \in Seq(Octet)
  OBVIOUS
<1>2. PICK f : JoinedParts(f, s) /\ p = f[n]
  BY FlattenUnfolds
<1>3. /\ f[0] = <<>> /\ (\A i \in 1..n : f[i] = f[i - 1] \o s[i])
      /\ \A i \in 0..n : f[i] \in Seq(Octet)
  BY <1>2 DEF JoinedParts
<1>4. p \in Seq(Octet)
  BY <1>1, <1>2, <1>3
<1> DEFINE rest == [i \in 0..n |-> SubSeq(p, Len(f[i]) + 1, Len(p))]
<1>5. ASSUME NEW i \in 0..n
      PROVE  rest[i] \in Seq(Octet) /\ p = f[i] \o rest[i]
  <2>1. PICK t \in Seq(Octet) : p = f[i] \o t
    BY <1>2, FlattenParts
  <2>2. SubSeq(f[i] \o t, Len(f[i]) + 1, Len(f[i] \o t)) = t
    BY <1>3, PartedOctets
  <2>3. rest[i] = t
    BY <2>1, <2>2
  <2> QED
    BY <2>1, <2>3
<1>6. ASSUME NEW i \in 0..n, NEW t \in Seq(Octet), p = f[i] \o t
      PROVE  rest[i] = t
  <2>1. SubSeq(f[i] \o t, Len(f[i]) + 1, Len(f[i] \o t)) = t
    BY <1>3, PartedOctets
  <2> QED
    BY <1>6, <2>1
<1> HIDE DEF rest, n
<1>7. rest[0] = p
  <2>1. 0 \in 0..n
    BY <1>1
  <2>2. <<>> \o p = p
    BY <1>4
  <2> QED
    BY <1>3, <1>4, <1>6, <2>1, <2>2
<1>8. rest[n] = <<>>
  <2>1. n \in 0..n /\ <<>> \in Seq(Octet)
    BY <1>1
  <2>2. p \o <<>> = p
    BY <1>4
  <2> QED
    BY <1>2, <1>6, <2>1, <2>2
<1>9. ASSUME NEW i \in 1..n
      PROVE  rest[i - 1] = s[i] \o rest[i]
  <2>1. i \in 0..n /\ i - 1 \in 0..n
    BY <1>1
  <2> DEFINE a == f[i - 1]
             b == s[i]
             c == rest[i]
  <2>2. p = (a \o b) \o c /\ a \in Seq(Octet) /\ b \in Seq(Octet) /\ c \in Seq(Octet)
    BY <1>1, <1>3, <1>5, <2>1
  <2>3. p = a \o (b \o c) /\ b \o c \in Seq(Octet)
    <3> HIDE DEF a, b, c
    <3> QED
      BY <2>2, Associative, Joined
  <2> QED
    BY <1>6, <2>1, <2>3
<1>10. PartsLeft(rest, s, p)
  BY <1>4, <1>5, <1>7, <1>8, <1>9 DEF n, PartsLeft
<1> QED
  BY <1>10

(* The loop reads back every batch that is not too long.                           *)
LEMMA BatchFound ==
  ASSUME NEW kind \in Batches, NEW items \in Seq(ItemSort(kind)), Len(items) <= MaxBatchSize,
         NEW p, p = FlattenSeq(PartsOf(kind, items)), NEW r, Turns(r, kind, p, Len(p))
  PROVE  ItemsOf(r[Len(p)]) = Good(items)
<1> DEFINE n == Len(items)
           s == PartsOf(kind, items)
           Part(i) == SubSeq(items, 1, i)
<1>0. MaxBatchSize \in Nat
  BY WireAssumption DEF SizesAssumption
<1>1. n \in Nat /\ \A i \in 1..n : items[i] \in ItemSort(kind)
  OBVIOUS
<1>2. /\ s \in Seq(Seq(Octet)) /\ Len(s) = n
      /\ \A i \in 1..n : s[i] = WriteItem(kind, items[i]) /\ Len(s[i]) \in 1..MostBytes
                        /\ ItemFound(kind, items[i])
  BY PartsFit
<1> HIDE DEF s
<1>3. PICK rest : /\ rest[0] = p /\ rest[n] = <<>> /\ p \in Seq(Octet)
                  /\ (\A i \in 0..n : rest[i] \in Seq(Octet))
                  /\ (\A i \in 1..n : rest[i - 1] = s[i] \o rest[i])
  <2>1. p = FlattenSeq(s)
    BY DEF s
  <2>2. PICK rest : PartsLeft(rest, s, p)
    BY <1>2, <2>1, RestOfParts
  <2> QED
    BY <1>2, <2>2 DEF PartsLeft
<1>4. Len(p) \in Nat /\ n <= Len(p)
  <2>1. PICK f : JoinedParts(f, s) /\ p = f[n]
    BY <1>2, FlattenUnfolds DEF s
  <2>2. Len(p) >= n
    <3>1. MostBytes \in Nat /\ n \in 0..Len(s)
      BY <1>1, <1>2, SizesFit DEF MostBytes
    <3>2. \A i \in 1..Len(s) : Len(s[i]) \in 1..MostBytes
      BY <1>2
    <3>3. Len(f[n]) >= n
      BY <1>2, <2>1, <3>1, <3>2, FlattenLength
    <3> QED
      BY <2>1, <3>3
  <2> QED
    BY <1>1, <1>3, <2>2, LenProperties
<1>5. /\ Part(0) = <<>> /\ Part(n) = items
      /\ \A k \in 0..n : Len(Part(k)) = k
      /\ \A k \in 0..(n - 1) : Append(Part(k), items[k + 1]) = Part(k + 1)
  OBVIOUS
<1> HIDE DEF n, Part
<1> DEFINE At(k) == Good([items |-> Part(k), rest |-> rest[k]])
           Found == {k \in Nat : k \in 0..n => r[k] = At(k)}
<1>6. 0 \in Found
  BY <1>3, <1>5 DEF Turns, Unread
<1>7. ASSUME NEW k \in Nat, k \in Found
      PROVE  k + 1 \in Found
  <2>1. SUFFICES ASSUME k + 1 \in 0..n
                 PROVE  r[k + 1] = At(k + 1)
    OBVIOUS
  <2>2. /\ k \in 0..n /\ k \in 0..(n - 1) /\ k + 1 \in 1..n /\ k + 1 \in 1..Len(p)
        /\ (k + 1) - 1 = k /\ k + 1 \in 0..n /\ k < n
    BY <1>1, <1>4, <2>1
  <2>3. r[k] = At(k)
    BY <1>7, <2>2
  <2>4. r[k + 1] = Turn(kind, r[k])
    BY <2>2 DEF Turns
  <2>5. rest[k] = WriteItem(kind, items[k + 1]) \o rest[k + 1] /\ rest[k + 1] \in Seq(Octet)
    BY <1>2, <1>3, <2>2
  <2>6. Len(Part(k)) \in Nat /\ Len(Part(k)) < MaxBatchSize
    BY <1>0, <1>1, <1>5, <2>2 DEF n
  <2>7. ItemFound(kind, items[k + 1]) /\ Append(Part(k), items[k + 1]) = Part(k + 1)
    BY <1>2, <1>5, <2>2
  <2>8. Turn(kind, At(k)) = At(k + 1)
    <3> DEFINE a == Part(k)
               x == items[k + 1]
               t == rest[k + 1]
    <3>1. a = Part(k) /\ Len(a) \in Nat /\ Len(a) < MaxBatchSize /\ ItemFound(kind, x) /\ t \in Seq(Octet)
      BY <2>5, <2>6, <2>7
    <3>2. At(k) = Good([items |-> a, rest |-> WriteItem(kind, x) \o t])
      BY <2>5
    <3>3. At(k + 1) = Good([items |-> Append(a, x), rest |-> t])
      BY <2>7
    <3> HIDE DEF a, x, t, At
    <3>4. Turn(kind, Good([items |-> a, rest |-> WriteItem(kind, x) \o t]))
            = Good([items |-> Append(a, x), rest |-> t])
      BY <1>0, <3>1, TurnFinds
    <3> QED
      BY <3>2, <3>3, <3>4
  <2> QED
    BY <2>3, <2>4, <2>8
<1>8. r[n] = At(n)
  <2> HIDE DEF Found
  <2>1. Nat \subseteq Found
    BY <1>6, <1>7, Induction
  <2>2. n \in Found /\ n \in 0..n
    BY <1>1, <2>1
  <2> QED
    BY <2>2 DEF Found
<1> DEFINE Stays == {k \in Nat : k \in 0..(Len(p) - n) => r[n + k] = At(n)}
<1>9. 0 \in Stays
  <2>1. n + 0 = n
    BY <1>1
  <2> QED
    BY <1>8, <2>1
<1>10. ASSUME NEW k \in Nat, k \in Stays
       PROVE  k + 1 \in Stays
  <2>1. SUFFICES ASSUME k + 1 \in 0..(Len(p) - n)
                 PROVE  r[n + (k + 1)] = At(n)
    OBVIOUS
  <2> DEFINE j == n + (k + 1)
  <2>2. k \in 0..(Len(p) - n) /\ j \in 1..Len(p) /\ j - 1 = n + k
    BY <1>1, <1>4, <2>1
  <2>3. r[n + k] = At(n)
    BY <1>10, <2>2
  <2>4. r[j] = Turn(kind, r[j - 1])
    BY <2>2 DEF Turns
  <2>5. r[j] = Turn(kind, At(n))
    <3> HIDE DEF j
    <3> QED
      BY <2>2, <2>3, <2>4
  <2>6. Turn(kind, At(n)) = At(n)
    BY <1>3 DEF Turn, Good
  <2> QED
    BY <2>5, <2>6
<1>11. r[Len(p)] = At(n)
  <2> HIDE DEF Stays
  <2>1. Nat \subseteq Stays
    BY <1>9, <1>10, Induction
  <2>2. Len(p) - n \in Nat /\ Len(p) - n \in 0..(Len(p) - n) /\ n + (Len(p) - n) = Len(p)
    BY <1>1, <1>4
  <2>3. Len(p) - n \in Stays
    BY <2>1, <2>2
  <2> QED
    BY <2>2, <2>3 DEF Stays
<1> QED
  BY <1>5, <1>11 DEF ItemsOf, Good

(* A varint can say how long the items of a batch are.                            *)
LEMMA PayloadFits ==
  ASSUME NEW kind \in Batches, NEW items \in BatchSort(ItemSort(kind)),
         NEW p, p = FlattenSeq(PartsOf(kind, items))
  PROVE  p \in Seq(Octet) /\ Len(p) \in Nat /\ Len(p) < Room(8)
<1> DEFINE n == Len(items)
           s == PartsOf(kind, items)
<1>1. items \in Seq(ItemSort(kind)) /\ n \in Nat /\ n < Values[4]
  BY DEF BatchSort
<1>2. s \in Seq(Seq(Octet)) /\ Len(s) = n /\ \A i \in 1..n : Len(s[i]) \in 1..MostBytes
  BY <1>1, PartsFit
<1>3. p = FlattenSeq(s)
  BY DEF s
<1> HIDE DEF s, n
<1>4. PICK f : JoinedParts(f, s) /\ p = f[n]
  BY <1>2, <1>3, FlattenUnfolds
<1>5. p \in Seq(Octet) /\ Len(p) \in Nat
  <2>1. n \in 0..Len(s)
    BY <1>1, <1>2
  <2> QED
    BY <1>4, <2>1, LenProperties DEF JoinedParts
<1>6. Len(p) <= n * MostBytes
  <2>1. MostBytes \in Nat /\ n \in 0..Len(s)
    BY <1>1, <1>2, SizesFit DEF MostBytes
  <2>2. \A i \in 1..Len(s) : Len(s[i]) \in 1..MostBytes
    BY <1>2
  <2>3. Len(f[n]) <= n * MostBytes
    BY <1>2, <1>4, <2>1, <2>2, FlattenLength
  <2> QED
    BY <1>4, <2>3
<1> DEFINE a == Values[2]
           b == Values[4]
           c == Values[6]
<1>7. /\ a \in Nat \ {0} /\ b \in Nat \ {0} /\ c \in Nat \ {0}
      /\ a = RADIX * RADIX /\ c = b * a /\ Room(8) = Quarter * (RADIX * c) /\ n < b
  <2>1. 0 + 1 = 1 /\ 2 - 1 = 1 /\ 6 - 1 = 5 /\ 5 - 1 = 4 /\ 8 - 1 = 7 /\ 7 - 1 = 6 /\ 1 - 1 = 0
    OBVIOUS
  <2>2. /\ Values[0] = 1 /\ Values[1] = RADIX * Values[0] /\ Values[2] = RADIX * Values[1]
        /\ Values[5] = RADIX * Values[4] /\ Values[6] = RADIX * Values[5]
        /\ Values[7] = RADIX * Values[6]
    <3>1. 1 \in 1..8 /\ 2 \in 1..8 /\ 5 \in 1..8 /\ 6 \in 1..8 /\ 7 \in 1..8
      OBVIOUS
    <3> QED
      BY <2>1, <3>1, ValuesUnfold, Zenon
  <2>3. a \in Nat \ {0} /\ b \in Nat \ {0} /\ c \in Nat \ {0}
    <3>1. 2 \in 0..8 /\ 4 \in 0..8 /\ 6 \in 0..8
      OBVIOUS
    <3> QED
      BY <3>1, ValuesUnfold
  <2>4. Room(8) = Quarter * (RADIX * c)
    BY <2>1, <2>2 DEF Room, Quarter
  <2>5. RADIX * 1 = RADIX /\ a = RADIX * RADIX
    BY <2>2, Radix
  <2>6. c = RADIX * (RADIX * b)
    BY <2>2
  <2> HIDE DEF a, b, c
  <2>7. RADIX * (RADIX * b) = b * (RADIX * RADIX)
    BY <2>3, Radix
  <2> QED
    BY <1>1, <2>3, <2>4, <2>5, <2>6, <2>7 DEF b
<1> HIDE DEF a, b, c
<1>8. MostBytes <= 3 * a /\ MostBytes \in Nat
  <2>1. a > 0 /\ MaxLength = a - 1
    BY <1>7, Radix
  <2> QED
    BY <1>7, <2>1 DEF MostBytes
<1>9. n * MostBytes <= 3 * c
  <2>1. n * MostBytes <= b * MostBytes
    BY <1>1, <1>7, <1>8
  <2>2. b * MostBytes <= b * (3 * a)
    BY <1>7, <1>8
  <2>3. b * (3 * a) = 3 * (b * a)
    BY <1>7
  <2>4. n * MostBytes \in Nat /\ b * MostBytes \in Nat /\ b * (3 * a) \in Nat
    BY <1>1, <1>7, <1>8
  <2> QED
    BY <1>7, <2>1, <2>2, <2>3, <2>4
<1>10. 3 * c < Quarter * (RADIX * c)
  <2> DEFINE d == RADIX * c
  <2>1. d \in Nat /\ d >= c
    BY <1>7, Radix
  <2> HIDE DEF d
  <2>2. Quarter * d >= 4 * d
    BY <2>1, Quarters
  <2>3. Quarter * d \in Nat
    BY <2>1, Quarters
  <2>4. 3 * c < Quarter * d
    BY <1>7, <2>1, <2>2, <2>3
  <2> QED
    BY <2>4 DEF d
<1>11. Len(p) < Room(8)
  <2> DEFINE x == n * MostBytes
             y == Quarter * (RADIX * c)
  <2>1. x \in Nat /\ y \in Nat
    BY <1>1, <1>7, <1>8, Quarters, Radix
  <2>2. Len(p) <= x /\ x <= 3 * c /\ 3 * c < y /\ Room(8) = y
    BY <1>6, <1>7, <1>9, <1>10
  <2> HIDE DEF x, y
  <2> QED
    BY <1>5, <1>7, <2>1, <2>2
<1> QED
  BY <1>5, <1>11

(* serialize of the two batches.                                                *)
WriteBatch(kind, items) ==
  IF kind = "requests" THEN serialize_requests(items) ELSE serialize_responses(items)

PayloadOf(kind, items) == FlattenSeq(PartsOf(kind, items))

(* A batch is the size of its payload and its payload.                     *)
LEMMA BatchWritten ==
  ASSUME NEW kind \in Batches, NEW items
  PROVE  WriteBatch(kind, items) = write_varint(Len(PayloadOf(kind, items))) \o PayloadOf(kind, items)
<1>1. CASE kind = "requests"
  BY <1>1 DEF WriteBatch, serialize_requests, serialize_batch, PayloadOf, PartsOf, WriteItem
<1>2. CASE kind = "responses"
  BY <1>2 DEF WriteBatch, serialize_responses, serialize_batch, PayloadOf, PartsOf, WriteItem
<1> QED
  BY <1>1, <1>2 DEF Batches

(* What becomes of a batch that arrives whole.                                   *)
LEMMA BatchReadBack ==
  ASSUME NEW kind \in Batches, NEW items \in BatchSort(ItemSort(kind)), Len(items) <= MaxBatchSize
  PROVE  /\ Len(PayloadOf(kind, items)) <= MaxLength =>
              ReadBatch(kind, WriteBatch(kind, items)) = Good(items)
         /\ Len(PayloadOf(kind, items)) > MaxLength =>
              ReadBatch(kind, WriteBatch(kind, items)).error # "OK"
<1> DEFINE p == PayloadOf(kind, items)
           w == WriteBatch(kind, items)
<1>1. p \in Seq(Octet) /\ Len(p) \in Nat /\ Len(p) < Room(8) /\ items \in Seq(ItemSort(kind))
  BY PayloadFits DEF PayloadOf, BatchSort
<1>2. w = write_varint(Len(p)) \o p
  BY BatchWritten
<1>3. p = FlattenSeq(PartsOf(kind, items))
  BY DEF PayloadOf
<1> HIDE DEF p, w
<1>4. payload_of(w) = IF Len(p) > MaxLength THEN Bad("MALFORMED_DATA") ELSE Good(p)
  BY <1>1, <1>2, PayloadFound
<1>5. CASE Len(p) <= MaxLength
  <2>1. payload_of(w) = Good(p) /\ ~(Len(p) > MaxLength)
    BY <1>1, <1>4, <1>5, SizesFit
  <2>2. PICK r : Turns(r, kind, p, Len(p)) /\ ReadBatch(kind, w) = ItemsOf(r[Len(p)])
    BY <1>1, <2>1, BatchUnfolds
  <2>3. ItemsOf(r[Len(p)]) = Good(items)
    BY <1>1, <1>3, <2>2, BatchFound
  <2> QED
    BY <2>1, <2>2, <2>3 DEF p, w
<1>6. CASE Len(p) > MaxLength
  <2>1. payload_of(w).error # "OK"
    BY <1>4, <1>6 DEF Bad
  <2>2. ReadBatch(kind, w).error # "OK"
    BY <2>1, NoBatch
  <2>3. ~(Len(p) <= MaxLength)
    BY <1>1, <1>6, SizesFit
  <2> QED
    BY <2>2, <2>3 DEF p, w
<1> QED
  BY <1>1, <1>5, <1>6, SizesFit

(* No part of a batch is taken for a batch.                                      *)
LEMMA BatchTruncated ==
  ASSUME NEW kind \in Batches, NEW items \in BatchSort(ItemSort(kind))
  PROVE  /\ WriteBatch(kind, items) \in Seq(Octet)
         /\ \A n \in 0..(Len(WriteBatch(kind, items)) - 1) :
              ReadBatch(kind, SubSeq(WriteBatch(kind, items), 1, n)).error # "OK"
<1> DEFINE p == PayloadOf(kind, items)
           w == WriteBatch(kind, items)
<1>1. p \in Seq(Octet) /\ Len(p) \in Nat /\ Len(p) < Room(8)
  BY PayloadFits DEF PayloadOf
<1>2. w = write_varint(Len(p)) \o p
  BY BatchWritten
<1> HIDE DEF p, w
<1>3. w \in Seq(Octet)
  BY <1>1, <1>2, VarintBytes, Joined
<1>4. ASSUME NEW n \in 0..(Len(w) - 1)
      PROVE  ReadBatch(kind, SubSeq(w, 1, n)).error # "OK"
  <2>1. payload_of(SubSeq(w, 1, n)).error # "OK"
    BY <1>1, <1>2, PayloadCut
  <2> QED
    BY <2>1, NoBatch
<1> QED
  BY <1>3, <1>4 DEF w

(* A turn over requests takes the bytes of one.                                  *)
TakesRequest(q, items, rest) ==
  /\ ~(Len(items) >= MaxBatchSize)
  /\ \E x \in RequestSort, t \in Seq(Octet) :
       q = Good([items |-> Append(items, x), rest |-> t]) /\ rest = serialize_request(x) \o t

(* A request is taken from the front of what is left, as it was written.   *)
LEMMA RequestTaken ==
  ASSUME NEW items, NEW rest \in Seq(Octet), NEW q,
         q = NextItem("requests", [items |-> items, rest |-> rest]), q.error = "OK"
  PROVE  TakesRequest(q, items, rest)
<1> DEFINE batch == [items |-> items, rest |-> rest]
           size == 3 + blinded_element_size[TypeAt(rest)]
           s == SubSeq(rest, 1, size)
           t == From(rest, size + 1)
<1>1. batch.items = items /\ batch.rest = rest
  OBVIOUS
<1>2. q = with_next(batch, request_size, deserialize_request)
  BY DEF NextItem
<1> HIDE DEF batch
<1>3. \A v : Good(v).error = "OK" /\ Good(v).value = v
  BY DEF Good
<1>4. \A e : Bad(e).error = e
  BY DEF Bad
<1>5. ~(Len(items) >= MaxBatchSize)
  BY <1>1, <1>2, <1>4 DEF with_next
<1>6. request_size(rest).error = "OK"
  BY <1>1, <1>2, <1>4, <1>5 DEF with_next, Then
<1>7. /\ request_size(rest) = Good(size) /\ ~(Len(rest) < 3)
      /\ SizeFor(blinded_element_size, TypeAt(rest)) # 0
  BY <1>4, <1>6 DEF request_size
<1>8. TypeAt(rest) \in KnownType
  BY <1>7 DEF SizeFor
<1>9. blinded_element_size[TypeAt(rest)] \in 1..MaxLength
  BY <1>8, SizesFit
<1>10. size \in Nat /\ size >= 3
  BY <1>9, SizesFit
<1> HIDE DEF size
<1>11. ~(Len(rest) < size) /\ deserialize_request(s).error = "OK"
  <2>1. ~(Len(rest) < size)
    BY <1>1, <1>2, <1>3, <1>4, <1>5, <1>7 DEF with_next, Then
  <2>2. deserialize_request(s).error = "OK"
    BY <1>1, <1>2, <1>3, <1>5, <1>7, <2>1 DEF with_next, Then
  <2> QED
    BY <2>1, <2>2
<1>12. /\ size \in 0..Len(rest) /\ size \in 2..Len(rest)
       /\ s \in Seq(Octet) /\ t \in Seq(Octet) /\ rest = s \o t
  <2>1. Len(rest) \in Nat
    BY LenProperties
  <2>2. size \in 0..Len(rest) /\ size \in 2..Len(rest)
    BY <1>10, <1>11, <2>1
  <2> QED
    BY <2>2, CutOctets DEF From
<1>13. PICK x \in ReadRequestSort : deserialize_request(s) = Good(x) /\ s = serialize_request(x)
  BY <1>11, <1>12, RequestRead
<1>14. x \in RequestSort
  <2>1. TypeAt(s) = TypeAt(rest)
    BY <1>12, TypeOfStart
  <2>2. x.token_type \in KnownType
    BY <1>8, <1>13, <2>1, RequestLength
  <2>3. /\ x \in [token_type : 0..MaxLength, truncated_token_key_id : Octet, blinded_msg : Seq(Octet)]
        /\ Len(x.blinded_msg) = blinded_element_size[x.token_type]
    BY <1>13, <2>2 DEF ReadRequestSort, SizeFor
  <2>4. x \in [token_type : KnownType, truncated_token_key_id : Octet, blinded_msg : Seq(Octet)]
    BY <2>2, <2>3
  <2> QED
    BY <2>3, <2>4 DEF RequestSort
<1>15. q = Good([items |-> Append(items, x), rest |-> t])
  BY <1>1, <1>2, <1>3, <1>5, <1>7, <1>11, <1>13 DEF with_next, Then
<1> QED
  BY <1>5, <1>12, <1>13, <1>14, <1>15 DEF TakesRequest

(* What the loop has taken after i turns.                                        *)
Taken(result, payload, i) ==
  result.error = "OK" =>
    \E items \in Seq(RequestSort), rest \in Seq(Octet) :
      /\ result = Good([items |-> items, rest |-> rest]) /\ Len(items) <= MaxBatchSize
      /\ payload = PayloadOf("requests", items) \o rest
      /\ rest = <<>> \/ Len(rest) <= Len(payload) - i

(* A turn of the loop keeps what was taken so far.                         *)
LEMMA TurnTakes ==
  ASSUME NEW payload \in Seq(Octet), NEW i \in Nat, NEW result, Taken(result, payload, i)
  PROVE  Taken(Turn("requests", result), payload, i + 1)
<1> DEFINE q == Turn("requests", result)
<1>1. SUFFICES ASSUME q.error = "OK"
               PROVE  Taken(q, payload, i + 1)
  BY DEF Taken
<1>2. result.error = "OK"
  BY <1>1 DEF Turn
<1>3. PICK items \in Seq(RequestSort), rest \in Seq(Octet) :
      /\ result = Good([items |-> items, rest |-> rest]) /\ Len(items) <= MaxBatchSize
      /\ payload = PayloadOf("requests", items) \o rest
      /\ rest = <<>> \/ Len(rest) <= Len(payload) - i
  BY <1>2 DEF Taken
<1> DEFINE batch == [items |-> items, rest |-> rest]
<1>4. result.value = batch /\ batch.rest = rest
  BY <1>3 DEF Good
<1> HIDE DEF batch
<1>5. CASE rest = <<>>
  <2>1. q = result
    BY <1>2, <1>3, <1>4, <1>5 DEF Turn, batch
  <2> HIDE DEF q
  <2> QED
    BY <1>3, <1>5, <2>1 DEF Taken
<1>6. CASE rest # <<>>
  <2>1. q = NextItem("requests", batch)
    BY <1>2, <1>4, <1>6 DEF Turn
  <2> HIDE DEF q
  <2>2. PICK x \in RequestSort, t \in Seq(Octet) :
          /\ ~(Len(items) >= MaxBatchSize)
          /\ q = Good([items |-> Append(items, x), rest |-> t]) /\ rest = serialize_request(x) \o t
    <3>1. q = NextItem("requests", [items |-> items, rest |-> rest])
      BY <2>1 DEF batch
    <3>2. TakesRequest(q, items, rest)
      BY <1>1, <3>1, RequestTaken
    <3> QED
      BY <3>2 DEF TakesRequest
  <2> DEFINE more == Append(items, x)
             s == serialize_request(x)
  <2>3. /\ more \in Seq(RequestSort) /\ Len(more) = Len(items) + 1 /\ Len(items) \in Nat
        /\ (\A j \in 1..Len(items) : more[j] = items[j]) /\ more[Len(items) + 1] = x
    OBVIOUS
  <2>4. s \in Seq(Octet) /\ Len(s) >= 1 /\ Len(s) \in Nat
    <3>1. ItemFound("requests", x)
      BY RequestItem
    <3>2. s \in Seq(Octet) /\ Len(s) \in 1..MostBytes
      BY <3>1 DEF ItemFound, WriteItem
    <3> HIDE DEF s
    <3>3. Len(s) \in Nat
      BY <3>2, LenProperties
    <3> QED
      BY <3>2, <3>3, SizesFit DEF MostBytes
  <2> HIDE DEF more, s
  <2>5. PartsOf("requests", more) = Append(PartsOf("requests", items), s)
    <3> DEFINE a == PartsOf("requests", items)
               b == PartsOf("requests", more)
               n == Len(items)
    <3>1. /\ a \in Seq(Seq(Octet)) /\ Len(a) = n
          /\ \A j \in 1..n : a[j] = serialize_request(items[j])
      BY PartsFit DEF ItemSort, WriteItem, Batches
    <3>2. /\ b \in Seq(Seq(Octet)) /\ Len(b) = n + 1
          /\ \A j \in 1..(n + 1) : b[j] = serialize_request(more[j])
      <4>1. "requests" \in Batches /\ ItemSort("requests") = RequestSort
        BY DEF ItemSort, Batches
      <4>2. /\ b \in Seq(Seq(Octet)) /\ Len(b) = Len(more)
            /\ \A j \in 1..Len(more) : b[j] = WriteItem("requests", more[j])
        BY <2>3, <4>1, PartsFit
      <4> QED
        BY <2>3, <4>2 DEF WriteItem
    <3> HIDE DEF a, b
    <3>3. \A j \in 1..n : b[j] = a[j]
      <4>1. \A j \in 1..n : j \in 1..(n + 1)
        BY <2>3
      <4> QED
        BY <2>3, <3>1, <3>2, <4>1
    <3>4. b[n + 1] = s
      <4>1. n + 1 \in 1..(n + 1)
        BY <2>3
      <4> QED
        BY <2>3, <3>2, <4>1 DEF s
    <3>5. Append(a, s) \in Seq(Seq(Octet)) /\ Len(Append(a, s)) = n + 1
      BY <2>4, <3>1
    <3>6. ASSUME NEW j \in 1..(n + 1)
          PROVE  Append(a, s)[j] = b[j]
      <4>1. CASE j = n + 1
        <5>1. Append(a, s)[n + 1] = s
          BY <2>4, <3>1
        <5> QED
          BY <3>4, <4>1, <5>1
      <4>2. CASE j # n + 1
        <5>1. j \in 1..n
          BY <2>3, <4>2
        <5>2. Append(a, s)[j] = a[j]
          BY <2>4, <3>1, <5>1
        <5> QED
          BY <3>3, <5>1, <5>2
      <4> QED
        BY <4>1, <4>2
    <3>7. Append(a, s) = b
      BY <3>2, <3>5, <3>6, SeqEqual
    <3> QED
      BY <3>7 DEF a, b
  <2>6. PayloadOf("requests", more) = PayloadOf("requests", items) \o s /\ PayloadOf("requests", items) \in Seq(Octet)
    <3>1. PartsOf("requests", items) \in Seq(Seq(Octet))
      BY PartsFit DEF ItemSort, Batches
    <3> QED
      BY <2>4, <2>5, <3>1, FlattenAppend DEF PayloadOf
  <2>7. payload = PayloadOf("requests", more) \o t
    <3> DEFINE a == PayloadOf("requests", items)
    <3>1. payload = a \o (s \o t) /\ a \in Seq(Octet)
      BY <1>3, <2>2, <2>6 DEF s
    <3> HIDE DEF a
    <3>2. payload = (a \o s) \o t
      BY <2>4, <3>1, Associative
    <3> QED
      BY <2>6, <3>2 DEF a
  <2>8. Len(more) <= MaxBatchSize
    <3>1. MaxBatchSize \in Nat
      BY WireAssumption DEF SizesAssumption
    <3> QED
      BY <2>2, <2>3, <3>1
  <2>9. Len(t) <= Len(payload) - (i + 1)
    <3>1. Len(rest) = Len(s) + Len(t) /\ Len(t) \in Nat /\ Len(payload) \in Nat
      BY <2>2, <2>4, Joined, LenProperties DEF s
    <3> QED
      BY <1>3, <1>6, <2>4, <3>1
  <2> QED
    BY <2>2, <2>3, <2>7, <2>8, <2>9 DEF Taken, more
<1> QED
  BY <1>5, <1>6

(* BatchedTokenRequest::deserialize: every byte of the payload belongs to a request.  *)
LEMMA RequestsRead ==
  ASSUME NEW bytes \in Seq(Octet), ReadBatch("requests", bytes).error = "OK"
  PROVE  \E items \in Seq(RequestSort), n \in 1..8 :
           /\ ReadBatch("requests", bytes) = Good(items) /\ Len(items) <= MaxBatchSize
           /\ bytes = SubSeq(bytes, 1, n) \o PayloadOf("requests", items)
<1>1. PICK n \in 1..8, p \in Seq(Octet) :
        payload_of(bytes) = Good(p) /\ bytes = SubSeq(bytes, 1, n) \o p
  BY NoBatch, PayloadRead
<1>2. PICK r : Turns(r, "requests", p, Len(p)) /\ ReadBatch("requests", bytes) = ItemsOf(r[Len(p)])
  BY <1>1, BatchUnfolds DEF Batches
<1>3. Len(p) \in Nat
  BY LenProperties
<1> DEFINE S == {k \in Nat : k \in 0..Len(p) => Taken(r[k], p, k)}
<1>4. 0 \in S
  <2>1. r[0] = Good([items |-> <<>>, rest |-> p])
    BY <1>2 DEF Turns, Unread
  <2>2. <<>> \in Seq(RequestSort) /\ Len(<<>>) = 0
    OBVIOUS
  <2>3. PayloadOf("requests", <<>>) = <<>>
    <3> DEFINE s == PartsOf("requests", <<>>)
    <3>1. s \in Seq(Seq(Octet)) /\ Len(s) = 0
      BY <2>2, PartsFit DEF ItemSort, Batches
    <3>2. s = <<>>
      BY <3>1
    <3> QED
      BY <3>1, <3>2 DEF PayloadOf, FlattenSeq
  <2>4. p = <<>> \o p /\ Len(p) <= Len(p) - 0
    BY <1>3
  <2>5. 0 <= MaxBatchSize
    BY WireAssumption DEF SizesAssumption
  <2>6. Taken(r[0], p, 0)
    BY <2>1, <2>2, <2>3, <2>4, <2>5 DEF Taken
  <2> QED
    BY <2>6
<1>5. ASSUME NEW k \in Nat, k \in S
      PROVE  k + 1 \in S
  <2>1. SUFFICES ASSUME k + 1 \in 0..Len(p)
                 PROVE  Taken(r[k + 1], p, k + 1)
    OBVIOUS
  <2>2. k \in 0..Len(p) /\ k + 1 \in 1..Len(p) /\ (k + 1) - 1 = k
    BY <1>3, <2>1
  <2>3. Taken(r[k], p, k)
    BY <1>5, <2>2
  <2>4. r[k + 1] = Turn("requests", r[(k + 1) - 1])
    BY <1>2, <2>2 DEF Turns
  <2>5. Taken(Turn("requests", r[k]), p, k + 1)
    BY <2>3, TurnTakes
  <2> QED
    BY <2>2, <2>4, <2>5
<1>6. Taken(r[Len(p)], p, Len(p))
  <2> HIDE DEF S
  <2>1. Nat \subseteq S
    BY <1>4, <1>5, Induction
  <2>2. Len(p) \in S /\ Len(p) \in 0..Len(p)
    BY <1>3, <2>1
  <2> QED
    BY <2>2 DEF S
<1> DEFINE last == r[Len(p)]
<1>7. last.error = "OK"
  BY <1>2 DEF ItemsOf
<1>8. PICK items \in Seq(RequestSort), rest \in Seq(Octet) :
      /\ last = Good([items |-> items, rest |-> rest]) /\ Len(items) <= MaxBatchSize
      /\ p = PayloadOf("requests", items) \o rest
      /\ rest = <<>> \/ Len(rest) <= Len(p) - Len(p)
  BY <1>6, <1>7 DEF Taken
<1> HIDE DEF last
<1>9. rest = <<>>
  <2>1. Len(rest) \in Nat
    BY LenProperties
  <2>2. rest = <<>> \/ Len(rest) = 0
    BY <1>3, <1>8, <2>1
  <2> QED
    BY <2>2, EmptySeq
<1>10. p = PayloadOf("requests", items)
  <2>1. PayloadOf("requests", items) \in Seq(Octet)
    <3>1. PartsOf("requests", items) \in Seq(Seq(Octet))
      BY PartsFit DEF ItemSort, Batches
    <3> QED
      BY <3>1, FlattenAppend, EmptySeq DEF PayloadOf
  <2>2. \A a \in Seq(Octet) : a \o <<>> = a
    OBVIOUS
  <2> QED
    BY <1>8, <1>9, <2>1, <2>2
<1>11. ReadBatch("requests", bytes) = Good(items)
  <2>1. ReadBatch("requests", bytes) = ItemsOf(last)
    BY <1>2 DEF last
  <2> QED
    BY <1>8, <2>1 DEF ItemsOf, Good
<1> QED
  BY <1>1, <1>8, <1>10, <1>11

(* An issuer answers the batch with one that can be sent: a response of the size that  *)
(* its type has, or none, for every request.                                      *)
LEMMA AnswerFits ==
  ASSUME NEW request \in RequestSort
  PROVE  issue(request, Issuer) \in OptionalSort
<1> DEFINE r == answer(request)
           type == request.token_type
           b == request.blinded_msg
<1>1. /\ type \in KnownType /\ b \in Seq(Octet) /\ Len(b) = blinded_element_size[type]
  BY DEF RequestSort
<1>2. ASSUME type \in Issuer.types
      PROVE  r \in ResponseSort
  <2>1. CASE type \in Rsa
    <3>1. r = [token_type |-> BLIND_RSA, blind_sig |-> b]
      BY <2>1 DEF answer
    <3>2. BLIND_RSA \in Rsa
      BY Sizes
    <3>3. b \in Octets(authenticator_size[BLIND_RSA])
      BY <1>1, <2>1, SizesFit DEF Octets
    <3> HIDE DEF b, r
    <3> QED
      BY <3>1, <3>2, <3>3 DEF ResponseSort
  <2>2. CASE type \notin Rsa
    <3> DEFINE proof == [i \in 1..ProofSize |-> 0]
    <3>1. type = VOPRF_P384_SHA384
      BY <1>2, <2>2, WireAssumption
    <3>2. r = [token_type |-> VOPRF_P384_SHA384, evaluate_msg |-> b, evaluate_proof |-> proof]
      BY <2>2 DEF answer
    <3>3. b \in Octets(blinded_element_size[VOPRF_P384_SHA384])
      BY <1>1, <3>1 DEF Octets
    <3>4. proof \in Octets(ProofSize)
      <4>1. ProofSize \in Nat /\ 0 \in Octet
        BY Sizes, Marks
      <4>2. proof \in [1..ProofSize -> Octet]
        BY <4>1
      <4>3. proof \in Seq(Octet) /\ Len(proof) = ProofSize
        BY <4>1, <4>2
      <4> QED
        BY <4>3 DEF Octets
    <3> HIDE DEF b, r, proof
    <3> QED
      BY <3>2, <3>3, <3>4 DEF ResponseSort
  <2> QED
    BY <2>1, <2>2
<1>3. (issue(request, Issuer) = {r} /\ type \in Issuer.types) \/ issue(request, Issuer) = {}
  BY DEF issue
<1> HIDE DEF r, type
<1>4. issue(request, Issuer) \subseteq ResponseSort
  BY <1>2, <1>3
<1> QED
  BY <1>3, <1>4 DEF OptionalSort

(* The answers to a batch are a batch, and no longer than the requests.    *)
LEMMA AnswersFit ==
  ASSUME NEW requests \in Seq(RequestSort), Len(requests) <= MaxBatchSize
  PROVE  /\ issue_batch(requests, Issuer) \in BatchSort(OptionalSort)
         /\ Len(issue_batch(requests, Issuer)) <= MaxBatchSize
<1> DEFINE n == Len(requests)
           m == issue_batch(requests, Issuer)
<1>1. n \in Nat /\ DOMAIN requests = 1..n /\ \A i \in 1..n : requests[i] \in RequestSort
  OBVIOUS
<1>2. m = [i \in 1..n |-> issue(requests[i], Issuer)]
  BY <1>1 DEF issue_batch
<1> HIDE DEF m, n
<1>3. m \in [1..n -> OptionalSort]
  BY <1>1, <1>2, AnswerFits
<1>4. m \in Seq(OptionalSort) /\ Len(m) = n
  BY <1>1, <1>3
<1>5. n <= MaxBatchSize
  BY DEF n
<1>6. n < Values[4]
  <2> DEFINE a == Values[2]
             b == Values[4]
  <2>1. 1 - 1 = 0 /\ 2 - 1 = 1 /\ 3 - 1 = 2 /\ 4 - 1 = 3 /\ 2 \in 0..8 /\ 4 \in 0..8
        /\ 1 \in 1..8 /\ 2 \in 1..8 /\ 3 \in 1..8 /\ 4 \in 1..8
    OBVIOUS
  <2>2. /\ Values[0] = 1 /\ Values[1] = RADIX * Values[0] /\ Values[2] = RADIX * Values[1]
        /\ Values[3] = RADIX * Values[2] /\ Values[4] = RADIX * Values[3]
    BY <2>1, ValuesUnfold, Zenon
  <2>3. a \in Nat \ {0} /\ a = RADIX * RADIX /\ b = RADIX * (RADIX * a)
    <3>1. RADIX * 1 = RADIX
      BY Radix
    <3> QED
      BY <2>1, <2>2, <3>1, ValuesUnfold
  <2> HIDE DEF a
  <2>4. RADIX * a >= a /\ RADIX * a \in Nat
    BY <2>3, Radix
  <2>5. RADIX * (RADIX * a) >= RADIX * a /\ RADIX * (RADIX * a) \in Nat
    <3> DEFINE c == RADIX * a
    <3>1. c \in Nat
      BY <2>4
    <3> HIDE DEF c
    <3>2. RADIX * c >= c /\ RADIX * c \in Nat
      BY <3>1, Radix
    <3> QED
      BY <3>2 DEF c
  <2>6. MaxBatchSize \in Nat /\ MaxBatchSize <= MaxLength /\ MaxLength = a - 1
    BY <2>3, Radix, WireAssumption DEF SizesAssumption
  <2> HIDE DEF b
  <2>7. n < b
    BY <1>1, <1>5, <2>3, <2>4, <2>5, <2>6
  <2> QED
    BY <2>7 DEF b
<1>7. m \in BatchSort(OptionalSort) /\ Len(m) <= MaxBatchSize
  BY <1>4, <1>5, <1>6 DEF BatchSort
<1> QED
  BY <1>7 DEF m

(* The formats whose bytes say themselves where they end.                          *)
Framed == Sized \cup Batches

FramedMessage(format, m) ==
  /\ format \in Sized => m \in Message[format]
  /\ format \in Batches => m \in BatchSort(ItemSort(format))

(* The two batches among the formats.                                      *)
LEMMA BatchCoding ==
  ASSUME NEW format \in Batches, NEW m, NEW w
  PROVE  encoding(format, m) = WriteBatch(format, m) /\ decoding(format, m, w) = ReadBatch(format, w)
<1>1. CASE format = "requests"
  BY <1>1 DEF encoding, decoding, WriteBatch, ReadBatch
<1>2. CASE format = "responses"
  BY <1>2 DEF encoding, decoding, WriteBatch, ReadBatch
<1> QED
  BY <1>1, <1>2 DEF Batches

(* No part of such a message is read as one.                                      *)
LEMMA FramedTruncated ==
  ASSUME NEW format \in Framed, NEW m, FramedMessage(format, m)
  PROVE  /\ encoding(format, m) \in Seq(Octet)
         /\ \A n \in 0..(Len(encoding(format, m)) - 1) :
              decoding(format, m, SubSeq(encoding(format, m), 1, n)).error # "OK"
<1>1. CASE format \in Sized
  BY <1>1, SizedReadBack DEF ReadsBack, FramedMessage
<1>2. CASE format \in Batches
  <2>1. m \in BatchSort(ItemSort(format))
    BY <1>2 DEF FramedMessage
  <2> DEFINE s == encoding(format, m)
  <2>2. s = WriteBatch(format, m) /\ \A w : decoding(format, m, w) = ReadBatch(format, w)
    BY <1>2, BatchCoding
  <2>3. /\ WriteBatch(format, m) \in Seq(Octet)
        /\ \A n \in 0..(Len(WriteBatch(format, m)) - 1) :
             ReadBatch(format, SubSeq(WriteBatch(format, m), 1, n)).error # "OK"
    BY <1>2, <2>1, BatchTruncated
  <2> HIDE DEF s
  <2>4. /\ s \in Seq(Octet)
        /\ \A n \in 0..(Len(s) - 1) : decoding(format, m, SubSeq(s, 1, n)).error # "OK"
    BY <2>2, <2>3
  <2> QED
    BY <2>4 DEF s
<1> QED
  BY <1>1, <1>2 DEF Framed

(* The batches that Wire sends.                                                  *)
LEMMA MessageFramed ==
  ASSUME NEW format \in Framed, NEW m \in Message[format]
  PROVE  FramedMessage(format, m)
<1>1. CASE format = "requests"
  <2>1. m \in BatchSort(ItemSort(format))
    BY <1>1, MessagesFit DEF ItemSort
  <2> QED
    BY <2>1 DEF FramedMessage
<1>2. CASE format = "responses"
  <2>1. m \in BatchSort(ItemSort(format))
    BY <1>2, MessagesFit DEF ItemSort
  <2> QED
    BY <2>1 DEF FramedMessage
<1>3. CASE format \notin Batches
  BY <1>3 DEF FramedMessage, Framed
<1> QED
  BY <1>1, <1>2, <1>3 DEF Batches
-----------------------------------------------------------------------------
(* The bytes under way are those of the message, or a part of them, until something *)
(* else is done to them; what was received is what the decoder makes of them; and   *)
(* the answers to a batch are those that the issuer gave.                          *)
MessageInv ==
  /\ sent.format \in Framed => FramedMessage(sent.format, sent.message)
  /\ sent.format \in {"info", "origin_info"} => sent.message \in Message[sent.format]

WireInv ==
  sent.format \in Framed =>
    LET s == encoding(sent.format, sent.message) IN
    /\ wire \in Seq(Octet)
    /\ Intact => wire = s
    /\ damage = "truncated" => \E n \in 0..(Len(s) - 1) : wire = SubSeq(s, 1, n)

ReceivedInv ==
  /\ sent.format = "none" => damage = "none" /\ received = NotYet /\ asked = <<>>
  /\ Arrived => received = decoding(sent.format, sent.message, wire)

AskedInv ==
  asked # <<>> => /\ sent.format = "responses" /\ sent.message = issue_batch(asked, Issuer)
                  /\ Len(sent.message) <= MaxBatchSize

Inv == MessageInv /\ WireInv /\ ReceivedInv /\ AskedInv

(* The names of the formats are different names.                                *)
LEMMA FormatsApart ==
  /\ "none" \notin Binary \cup Text /\ Framed \subseteq Binary /\ "none" \notin Framed
  /\ {"www_authenticate", "authorization", "none"} \cap (Framed \cup {"info", "origin_info"}) = {}
  /\ "responses" \in Framed \cap Batches /\ "responses" \notin Sized \cup {"info", "origin_info", "none"}
  /\ "requests" \in Framed \cap Batches
  /\ Framed \cap {"info", "origin_info", "none"} = {}
BY DEF Binary, Text, Strict, Sized, Batches, Framed

(* At first nothing is under way.                                               *)
LEMMA InitInv == Init => Inv
BY FormatsApart DEF Init, Inv, MessageInv, WireInv, ReceivedInv, AskedInv, Arrived

(* A message is sent as it is encoded.                                          *)
LEMMA SendInv ==
  ASSUME Inv, NEW format \in Binary \cup Text, Send(format)
  PROVE  Inv'
<1>1. PICK m \in Message[format] :
        sent' = [format |-> format, message |-> m] /\ wire' = encoding(format, m) /\ received' = NotYet
  BY DEF Send, Under_way
<1>2. damage' = "none" /\ asked' = <<>> /\ format # "none"
  BY FormatsApart DEF Send, Inv, ReceivedInv
<1>3. sent'.format = format /\ sent'.message = m
  BY <1>1
<1>4. MessageInv'
  BY <1>3, MessageFramed DEF MessageInv
<1>5. WireInv'
  <2>1. format \in Framed => encoding(format, m) \in Seq(Octet)
    BY MessageFramed, FramedTruncated
  <2> QED
    BY <1>1, <1>2, <1>3, <2>1 DEF WireInv
<1>6. ReceivedInv' /\ AskedInv'
  BY <1>1, <1>2, <1>3 DEF ReceivedInv, AskedInv, Arrived
<1> QED
  BY <1>4, <1>5, <1>6 DEF Inv

(* What is done to the message on the way leaves the rest alone.                  *)
LEMMA DamagedInv ==
  ASSUME Inv, NEW kind, NEW w, Damaged(kind, w),
         sent.format \in Framed =>
           /\ w \in Seq(Octet) /\ kind \notin {"none", "earlier"}
           /\ kind = "truncated" => \E n \in 0..(Len(wire) - 1) : w = SubSeq(wire, 1, n)
  PROVE  Inv'
<1>1. /\ sent.format # "none" /\ damage = "none" /\ received = NotYet
      /\ damage' = kind /\ wire' = w /\ sent' = sent /\ received' = received /\ asked' = asked
  BY DEF Damaged
<1>2. MessageInv' /\ ReceivedInv' /\ AskedInv'
  BY <1>1 DEF Inv, MessageInv, ReceivedInv, AskedInv, Arrived
<1>3. WireInv'
  BY <1>1 DEF Inv, WireInv, Intact
<1> QED
  BY <1>2, <1>3 DEF Inv

(* A strict format is truncated, extended or tampered with, never annotated.    *)
LEMMA WayInv ==
  ASSUME Inv, Truncate \/ Extend \/ Tamper \/ Annotate
  PROVE  Inv'
<1>1. sent.format \in Framed => wire \in Seq(Octet)
  BY DEF Inv, WireInv
<1>2. CASE Truncate
  <2>1. PICK n \in 0..(Len(wire) - 1) : Damaged("truncated", SubSeq(wire, 1, n))
    BY <1>2 DEF Truncate
  <2>2. sent.format \in Framed => SubSeq(wire, 1, n) \in Seq(Octet)
    BY <1>1
  <2> QED
    BY <2>1, <2>2, DamagedInv
<1>3. CASE Extend
  <2>1. PICK b \in 0..(RADIX - 1) : Damaged("extended", Append(wire, b))
    BY <1>3 DEF Extend
  <2>2. sent.format \in Framed => Append(wire, b) \in Seq(Octet)
    BY <1>1 DEF Octet
  <2> QED
    BY <2>1, <2>2, DamagedInv
<1>4. CASE Tamper
  <2>1. PICK i \in DOMAIN wire, b \in 0..(RADIX - 1) :
          Damaged("tampered", [wire EXCEPT ![i] = b])
    BY <1>4 DEF Tamper
  <2>2. sent.format \in Framed => [wire EXCEPT ![i] = b] \in Seq(Octet)
    BY <1>1 DEF Octet
  <2> QED
    BY <2>1, <2>2, DamagedInv
<1>5. CASE Annotate
  <2>1. sent.format \notin Framed
    BY <1>5, FormatsApart DEF Annotate
  <2>2. PICK w : Damaged("annotated", w)
    BY <1>5 DEF Annotate
  <2> QED
    BY <2>1, <2>2, DamagedInv
<1> QED
  BY <1>2, <1>3, <1>4, <1>5

(* The decoder gets the bytes that are there.                                   *)
LEMMA ReceiveInv ==
  ASSUME Inv, Receive
  PROVE  Inv'
<1>1. /\ sent.format # "none" /\ received' = decoding(sent.format, sent.message, wire)
      /\ sent' = sent /\ wire' = wire /\ damage' = damage /\ asked' = asked
  BY DEF Receive
<1>2. MessageInv' /\ WireInv' /\ AskedInv'
  BY <1>1 DEF Inv, MessageInv, WireInv, AskedInv, Intact
<1>3. ReceivedInv'
  BY <1>1 DEF Inv, ReceivedInv
<1> QED
  BY <1>2, <1>3 DEF Inv

(* An issuer answers the requests it has read.                                  *)
LEMMA AnswerInv ==
  ASSUME Inv, Answer
  PROVE  Inv'
<1> DEFINE m == issue_batch(received.value, Issuer)
<1>1. /\ sent' = [format |-> "responses", message |-> m] /\ received' = NotYet
      /\ wire' = encoding("responses", m) /\ asked' = received.value
      /\ damage' \in {"none", "earlier"}
      /\ sent.format = "requests" /\ received.error = "OK"
  BY DEF Answer, Under_way
<1>2. m \in BatchSort(OptionalSort) /\ Len(m) <= MaxBatchSize
  <2>1. Arrived
    BY <1>1 DEF Arrived, NotYet, Bad
  <2>2. received = decoding("requests", sent.message, wire) /\ wire \in Seq(Octet)
    BY <1>1, <2>1, FormatsApart DEF Inv, ReceivedInv, WireInv
  <2>3. received = ReadBatch("requests", wire)
    BY <2>2, BatchCoding DEF Batches
  <2>4. PICK items \in Seq(RequestSort) : received = Good(items) /\ Len(items) <= MaxBatchSize
    BY <1>1, <2>2, <2>3, RequestsRead
  <2>5. received.value = items
    BY <2>4 DEF Good
  <2> QED
    BY <2>4, <2>5, AnswersFit
<1>3. asked' # <<>> => asked' = received.value /\ m = issue_batch(asked', Issuer)
  BY <1>1
<1> HIDE DEF m
<1>4. sent'.format = "responses" /\ sent'.message = m
  BY <1>1
<1>5. FramedMessage("responses", m)
  BY <1>2, FormatsApart DEF FramedMessage, ItemSort
<1>6. MessageInv'
  BY <1>4, <1>5, FormatsApart DEF MessageInv
<1>7. WireInv'
  <2>1. encoding("responses", m) \in Seq(Octet)
    BY <1>5, FramedTruncated, FormatsApart
  <2>2. wire' = encoding("responses", m) /\ damage' # "truncated"
    BY <1>1
  <2> QED
    BY <1>4, <2>1, <2>2 DEF WireInv
<1>8. ReceivedInv'
  BY <1>1, <1>4, FormatsApart DEF ReceivedInv, Arrived
<1>9. AskedInv'
  BY <1>2, <1>3, <1>4 DEF AskedInv
<1> QED
  BY <1>6, <1>7, <1>8, <1>9 DEF Inv

(* The invariant, from Init and the actions of Next.                            *)
THEOREM Invariant == Spec => []Inv
<1>1. Init => Inv
  BY InitInv
<1>2. Inv /\ [Next]_vars => Inv'
  <2>1. CASE UNCHANGED vars
    BY <2>1 DEF vars, Inv, MessageInv, WireInv, ReceivedInv, AskedInv, Arrived, Intact
  <2>2. ASSUME Inv, Next
        PROVE  Inv'
    BY <2>2, SendInv, WayInv, ReceiveInv, AnswerInv DEF Next
  <2> QED
    BY <2>1, <2>2
<1> QED
  BY <1>1, <1>2, PTL DEF Spec
-----------------------------------------------------------------------------
(* Token, TokenRequest, TokenResponse, OptionalTokenResponse and                   *)
(* AuthenticatorInput: deserialize makes of what serialize wrote the message that    *)
(* was sent, for every size of the fields (token.cpp, token_request.cpp,            *)
(* token_response.cpp).                                                         *)
THEOREM SizedRoundTrip == Spec => [](sent.format \in Sized => RoundTrip)
<1>1. Inv => (sent.format \in Sized => RoundTrip)
  BY SizedReadBack DEF Inv, MessageInv, FramedMessage, Framed, WireInv, ReceivedInv, RoundTrip, ReadsBack
<1> QED
  BY <1>1, Invariant, PTL

(* A batch of at most MAX_BATCH_SIZE items and 65535 bytes is read back item by item,   *)
(* whichever width its varint needs (BatchedTokenRequest and BatchedTokenResponse;      *)
(* ByteWriter::write_varint).  serialize does not check the second limit: a longer     *)
(* batch is written and refused.                                                  *)
THEOREM BatchRoundTrip ==
  Spec => [](/\ sent.format \in Batches /\ Len(sent.message) <= MaxBatchSize
             /\ Len(PayloadOf(sent.format, sent.message)) <= MaxLength
             => RoundTrip)
<1>1. Inv => (/\ sent.format \in Batches /\ Len(sent.message) <= MaxBatchSize
              /\ Len(PayloadOf(sent.format, sent.message)) <= MaxLength
              => RoundTrip)
  <2> SUFFICES ASSUME Inv, sent.format \in Batches, Len(sent.message) <= MaxBatchSize,
                      Len(PayloadOf(sent.format, sent.message)) <= MaxLength, Arrived, Intact
               PROVE  received = Good(sent.message)
    BY DEF RoundTrip
  <2>1. sent.format \in Framed /\ sent.message \in BatchSort(ItemSort(sent.format))
    BY DEF Inv, MessageInv, FramedMessage, Framed
  <2>2. wire = encoding(sent.format, sent.message) /\ received = decoding(sent.format, sent.message, wire)
    BY <2>1 DEF Inv, WireInv, ReceivedInv
  <2>3. received = ReadBatch(sent.format, WriteBatch(sent.format, sent.message))
    BY <2>2, BatchCoding
  <2> QED
    BY <2>1, <2>3, BatchReadBack
<1> QED
  BY <1>1, Invariant, PTL

(* None of these decoders, and neither that of a batch, accepts a message that lost its  *)
(* end: the type in front, or the varint, says how much must follow, and              *)
(* ByteReader::read_bytes refuses what is not there.                               *)
THEOREM PartsAreRefused == Spec => [](sent.format \in Framed => TruncationDetected)
<1>1. Inv /\ sent.format \in Framed => TruncationDetected
  <2> SUFFICES ASSUME Inv, sent.format \in Framed, Arrived, damage = "truncated"
               PROVE  received.error # "OK"
    BY DEF TruncationDetected
  <2> DEFINE s == encoding(sent.format, sent.message)
  <2>1. PICK n \in 0..(Len(s) - 1) : wire = SubSeq(s, 1, n)
    BY DEF Inv, WireInv
  <2>2. received = decoding(sent.format, sent.message, SubSeq(s, 1, n))
    BY <2>1 DEF Inv, ReceivedInv
  <2> QED
    BY <2>1, <2>2, FramedTruncated DEF Inv, MessageInv
<1> QED
  BY <1>1, Invariant, PTL

(* Whatever was done to the bytes, those that the decoder of a token, a request, a     *)
(* response or an optional response accepts are the one encoding of what it makes     *)
(* of them: the check for bytes left over, the marks 0 and 1 and the exact length     *)
(* of a response leave no second form (Token::deserialize and the others).  And of a   *)
(* batch of requests that is accepted, every byte behind the varint belongs to one     *)
(* request (BatchedTokenRequest::deserialize).                                     *)
THEOREM EncodingsAreCanonical == Spec => []Canonical
<1>1. Inv => Canonical
  <2> SUFFICES ASSUME Inv, Understood
               PROVE  Canonical
    BY DEF Canonical
  <2>1. CASE sent.format \in Strict
    <3>1. sent.format # "requests" /\ sent.format \in Framed
      BY <2>1 DEF Strict, Sized, Framed
    <3>2. wire \in Seq(Octet) /\ received = decoding(sent.format, sent.message, wire)
      BY <3>1 DEF Inv, WireInv, ReceivedInv, Understood
    <3>3. Rewrites(sent.format, sent.message, wire)
      BY <2>1, <3>2, StrictRewrites
    <3> QED
      BY <3>1, <3>2, <3>3 DEF Canonical, Rewrites, Understood
  <2>2. CASE sent.format = "requests"
    <3>1. wire \in Seq(Octet) /\ received = decoding("requests", sent.message, wire)
      BY <2>2, FormatsApart DEF Inv, WireInv, ReceivedInv, Understood
    <3>2. received = ReadBatch("requests", wire) /\ received.error = "OK"
      BY <3>1, BatchCoding DEF Batches, Understood
    <3>3. PICK items \in Seq(RequestSort), n \in 1..8 :
            received = Good(items) /\ wire = SubSeq(wire, 1, n) \o PayloadOf("requests", items)
      BY <3>1, <3>2, RequestsRead
    <3>4. received.value = items
      BY <3>3 DEF Good
    <3>5. PayloadOf("requests", items)
            = FlattenSeq([i \in DOMAIN items |-> serialize_request(items[i])])
      BY DEF PayloadOf, PartsOf, WriteItem
    <3>6. "requests" \notin Strict
      BY DEF Strict
    <3> QED
      BY <2>2, <3>3, <3>4, <3>5, <3>6 DEF Canonical
  <2>3. CASE sent.format \notin Strict /\ sent.format # "requests"
    BY <2>3 DEF Canonical
  <2> QED
    BY <2>1, <2>2, <2>3
<1> QED
  BY <1>1, Invariant, PTL

(* The i-th response that the client reads is to the i-th request that the issuer read,  *)
(* whatever key the issuer has and whichever requests it refuses                      *)
(* (PublicIssuer::issue_batch, PrivateIssuer::issue_batch,                           *)
(* BatchedTokenResponse::deserialize).                                             *)
THEOREM AnswersInPlace == Spec => []AnswersStayInPlace
<1>1. Inv => AnswersStayInPlace
  <2> SUFFICES ASSUME Inv, Understood, sent.format = "responses", asked # <<>>, Intact
               PROVE  /\ DOMAIN received.value = DOMAIN asked
                      /\ \A i \in DOMAIN asked : \A response \in received.value[i] :
                           IF response.token_type \in Rsa
                           THEN response.blind_sig = asked[i].blinded_msg
                           ELSE response.evaluate_msg = asked[i].blinded_msg
    BY DEF AnswersStayInPlace
  <2>1. received = Good(issue_batch(asked, Issuer))
    <3> DEFINE m == issue_batch(asked, Issuer)
               s == WriteBatch("responses", m)
    <3>1. sent.message = m /\ Len(m) <= MaxBatchSize
      BY DEF Inv, AskedInv
    <3>2. "responses" \in Batches /\ m \in BatchSort(ItemSort("responses"))
      BY <3>1, FormatsApart DEF Inv, MessageInv, FramedMessage
    <3>3. received = decoding("responses", m, wire) /\ wire = encoding("responses", m)
      BY <3>1, FormatsApart DEF Inv, WireInv, ReceivedInv, Understood
    <3>4. received = ReadBatch("responses", s)
      BY <3>2, <3>3, BatchCoding
    <3> HIDE DEF m, s
    <3>5. Len(PayloadOf("responses", m)) \in Nat
      BY <3>2, PayloadFits DEF PayloadOf
    <3>6. /\ Len(PayloadOf("responses", m)) <= MaxLength => ReadBatch("responses", s) = Good(m)
          /\ Len(PayloadOf("responses", m)) > MaxLength => ReadBatch("responses", s).error # "OK"
      BY <3>1, <3>2, BatchReadBack DEF s
    <3>7. received = Good(m)
      BY <3>4, <3>5, <3>6, SizesFit DEF Understood
    <3> QED
      BY <3>7 DEF m
  <2>2. received.value = [i \in DOMAIN asked |-> issue(asked[i], Issuer)]
    BY <2>1 DEF Good, issue_batch
  <2>3. ASSUME NEW request, NEW response \in issue(request, Issuer)
        PROVE  IF response.token_type \in Rsa THEN response.blind_sig = request.blinded_msg
               ELSE response.evaluate_msg = request.blinded_msg
    <3>1. response = answer(request)
      BY <2>3 DEF issue
    <3>2. CASE request.token_type \in Rsa
      BY <3>1, <3>2 DEF answer, Rsa
    <3>3. CASE request.token_type \notin Rsa
      BY <3>1, <3>3, WireAssumption DEF answer, SizesAssumption
    <3> QED
      BY <3>2, <3>3
  <2> QED
    BY <2>2, <2>3
<1> QED
  BY <1>1, Invariant, PTL

(* If the authorization info arrives as it was sent, AuthInfo::authorizes_all says       *)
(* yes exactly if for every action some scope has it and its rules mean the names       *)
(* asked for: matches_namespace, matches_track and the empty rule, for every pattern    *)
(* and every name (auth_scope.cpp).                                               *)
THEOREM ScopesGrant == Spec => [](RoundTrip => ScopesGrantWhatTheyMean)
<1>1. Inv /\ RoundTrip => ScopesGrantWhatTheyMean
  <2> SUFFICES ASSUME Inv, RoundTrip, Understood, Intact, sent.format \in {"info", "origin_info"},
                      NEW q \in Query
               PROVE  authorizes_all(received.value, q.actions, q.namespace, q.track) <=>
                        \A a \in Range(q.actions) : \E scope \in Range(sent.message) :
                          /\ a \in Range(scope.actions)
                          /\ Means(scope.namespace_match, q.namespace)
                          /\ Means(scope.track_name_match, q.track)
                          /\ scope.track_name_match.match_type = MATCH_CONTAINS => q.track # <<>>
    BY DEF ScopesGrantWhatTheyMean
  <2>1. received = Good(sent.message) /\ sent.message \in Seq(ScopeSort)
    BY MessagesFit DEF RoundTrip, Understood, Inv, MessageInv
  <2>2. received.value = sent.message
    BY <2>1 DEF Good
  <2>3. q.actions \in Seq(Action) /\ q.namespace \in Seq(Seq(Octet)) /\ q.track \in Seq(Octet)
    BY MessagesFit
  <2> QED
    BY <2>1, <2>2, <2>3, InfoGrants DEF Grants
<1> QED
  BY <1>1, Invariant, PTL
=============================================================================
