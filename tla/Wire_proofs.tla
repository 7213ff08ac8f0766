---------------------------- MODULE Wire_proofs ----------------------------
(***************************************************************************)
(* The codecs, for every base, width, length of hash and proof and values. *)
(***************************************************************************)
EXTENDS Wire, SequenceTheorems, WellFoundedInduction, TLAPS

Digits == 0 .. Base - 1

(* A function on 1 .. n is a sequence of length n.                         *)
LEMMA IsASequence ==
  ASSUME NEW n \in Nat, NEW S, NEW f \in [1 .. n -> S]
  PROVE  f \in Seq(S) /\ Len(f) = n
OBVIOUS

(* The arithmetic of two digits.                                           *)
LEMMA ByteOfDigits ==
  ASSUME NEW d \in Digits, NEW e \in Digits
  PROVE  Base * d + e \in Bytes
BY BaseAssumption DEF Digits, Bytes

LEMMA DigitsOfByte ==
  ASSUME NEW b \in Bytes
  PROVE  /\ b \div Base \in Digits /\ b % Base \in Digits
         /\ Base * (b \div Base) + (b % Base) = b
<1>1. b \div Base \in Digits /\ b % Base \in Digits
  BY BaseAssumption DEF Digits, Bytes
<1>2. PICK q \in Digits : q = b \div Base
  BY <1>1
<1>3. PICK r \in Digits : r = b % Base
  BY <1>1
<1>4. Base * q + r = b
  BY <1>2, <1>3, BaseAssumption DEF Bytes, Digits
<1> QED
  BY <1>1, <1>2, <1>3, <1>4, Zenon

---------------------------------------------------------------------------
(* Sequences of digits.                                                    *)

(* Induction over the natural numbers, said of sets: the library's theorem *)
(* on predicates is out of the provers' reach.                             *)
LEMMA NatMin ==
  ASSUME NEW S \in SUBSET Nat, S # {}
  PROVE  \E n \in S : \A m \in S : n <= m
<1> DEFINE R == {ss \in Nat \X Nat : ss[1] < ss[2]}
<1>1. IsWellFoundedOn(R, Nat)
  BY NatLessThanWellFounded DEF OpToRel
<1>2. PICK n \in S : \A m \in S : ~(<<m, n>> \in R)
  BY <1>1, WFMin
<1>3. ASSUME NEW m \in S, m < n PROVE FALSE
  <2>1. <<m, n>> \in Nat \X Nat /\ <<m, n>>[1] = m /\ <<m, n>>[2] = n
    OBVIOUS
  <2> QED
    BY <1>2, <1>3, <2>1
<1> QED
  BY <1>3

LEMMA SetInduction ==
  ASSUME NEW S \in SUBSET Nat, 0 \in S, \A n \in S : n + 1 \in S
  PROVE  S = Nat
<1> SUFFICES ASSUME Nat \ S # {} PROVE FALSE
  OBVIOUS
<1>1. PICK n \in Nat \ S : \A m \in Nat \ S : n <= m
  BY NatMin
<1>2. n # 0 /\ n - 1 \in Nat /\ n - 1 \in S
  BY <1>1
<1> QED
  BY <1>1, <1>2

(* v[i] is the number the first i digits of s denote. *)
IsValue(v, s, b) ==
  /\ v \in [0 .. Len(s) -> Nat]
  /\ v[0] = 0
  /\ \A i \in 0 .. Len(s) - 1 : v[i + 1] = b * v[i] + s[i + 1]

(* There is such a function, so Value is defined by it. *)
LEMMA ValueExists ==
  ASSUME NEW s \in Seq(Nat), NEW b \in Nat
  PROVE  \E v : IsValue(v, s, b)
<1> DEFINE P(n, v) == /\ v \in [0 .. n -> Nat] /\ v[0] = 0
                      /\ \A i \in 0 .. n - 1 : v[i + 1] = b * v[i] + s[i + 1]
           Q(n) == n <= Len(s) => \E v : P(n, v)
           S == {n \in Nat : Q(n)}
<1>1. Q(0)
  <2>1. P(0, [i \in 0 .. 0 |-> 0])
    OBVIOUS
  <2> QED
    BY <2>1
<1>2. ASSUME NEW n \in Nat, Q(n) PROVE Q(n + 1)
  <2> SUFFICES ASSUME n + 1 <= Len(s) PROVE \E w : P(n + 1, w)
    OBVIOUS
  <2>1. PICK v : P(n, v)
    BY <1>2
  <2> DEFINE w == [i \in 0 .. n + 1 |-> IF i = n + 1 THEN b * v[n] + s[n + 1] ELSE v[i]]
  <2>2. s[n + 1] \in Nat /\ v[n] \in Nat
    BY <2>1
  <2>3. b * v[n] \in Nat
    BY <2>2
  <2>4. w \in [0 .. n + 1 -> Nat]
    BY <2>1, <2>2, <2>3
  <2>5. w[0] = 0 /\ w[n + 1] = b * v[n] + s[n + 1] /\ \A i \in 0 .. n : w[i] = v[i]
    BY <2>1
  <2> HIDE DEF w
  <2>6. ASSUME NEW i \in 0 .. n PROVE w[i + 1] = b * w[i] + s[i + 1]
    <3>1. CASE i = n
      BY <2>5, <3>1
    <3>2. CASE i # n
      <4>1. i \in 0 .. n - 1 /\ i + 1 \in 0 .. n
        BY <3>2
      <4> QED
        BY <2>1, <2>5, <4>1
    <3> QED
      BY <3>1, <3>2
  <2>7. P(n + 1, w)
    <3>1. 0 .. (n + 1) - 1 = 0 .. n
      OBVIOUS
    <3> QED
      BY <2>4, <2>5, <2>6, <3>1, Zenon
  <2> QED
    BY <2>7
<1> HIDE DEF Q
<1>3. S = Nat
  <2>1. S \in SUBSET Nat /\ 0 \in S
    BY <1>1
  <2>2. \A k \in S : k + 1 \in S
    BY <1>2
  <2> HIDE DEF S
  <2> QED
    BY <2>1, <2>2, SetInduction
<1>4. Q(Len(s))
  BY <1>3
<1> QED
  BY <1>4 DEF IsValue, Q

LEMMA ValueOf ==
  ASSUME NEW s \in Seq(Nat), NEW b \in Nat
  PROVE  \E v : IsValue(v, s, b) /\ Value(s, b) = v[Len(s)]
<1> DEFINE F(v) == [i \in 0 .. Len(s) |-> IF i = 0 THEN 0 ELSE b * v[i - 1] + s[i]]
           u == CHOOSE v : v = F(v)
<1>1. PICK v : IsValue(v, s, b)
  BY ValueExists
<1>2. v = F(v)
  <2>1. ASSUME NEW i \in 0 .. Len(s), i # 0 PROVE v[i] = b * v[i - 1] + s[i]
    <3>1. i - 1 \in 0 .. Len(s) - 1 /\ (i - 1) + 1 = i
      BY <2>1
    <3> QED
      BY <1>1, <3>1 DEF IsValue
  <2> QED
    BY <1>1, <2>1 DEF IsValue
<1>3. u = F(u)
  BY <1>2
<1>4. Value(s, b) = u[Len(s)]
  BY DEF Value
<1> DEFINE Q(n) == n <= Len(s) => u[n] = v[n]
           S == {n \in Nat : Q(n)}
<1> HIDE DEF u
<1>5. Q(0)
  BY <1>1, <1>3 DEF IsValue
<1>6. ASSUME NEW n \in Nat, Q(n) PROVE Q(n + 1)
  <2> SUFFICES ASSUME n + 1 <= Len(s) PROVE u[n + 1] = v[n + 1]
    OBVIOUS
  <2>1. n + 1 \in 0 .. Len(s) /\ n + 1 # 0 /\ (n + 1) - 1 = n /\ n \in 0 .. Len(s) - 1
    OBVIOUS
  <2>2. u[n + 1] = b * u[n] + s[n + 1]
    BY <1>3, <2>1
  <2> QED
    BY <1>1, <1>6, <2>1, <2>2 DEF IsValue
<1> HIDE DEF Q
<1>7. S = Nat
  <2>1. S \in SUBSET Nat /\ 0 \in S
    BY <1>5
  <2>2. \A k \in S : k + 1 \in S
    BY <1>6
  <2> HIDE DEF S
  <2> QED
    BY <2>1, <2>2, SetInduction
<1>8. Q(Len(s))
  BY <1>7
<1> QED
  BY <1>1, <1>4, <1>8 DEF Q

LEMMA ValueIsNat ==
  ASSUME NEW s \in Seq(Nat), NEW b \in Nat
  PROVE  Value(s, b) \in Nat
<1>1. PICK v : IsValue(v, s, b) /\ Value(s, b) = v[Len(s)]
  BY ValueOf
<1>2. Len(s) \in 0 .. Len(s)
  OBVIOUS
<1> QED
  BY <1>1, <1>2 DEF IsValue

(* Division with remainder is unique. *)
LEMMA DivisionIsUnique ==
  ASSUME NEW b \in Nat, NEW x \in Nat, NEW z \in Nat, NEW y \in 0 .. b - 1, NEW u \in 0 .. b - 1,
         b * x + y = b * z + u
  PROVE  x = z /\ y = u
<1>1. ASSUME NEW p \in Nat, NEW q \in Nat, p < q PROVE b * q >= b * p + b
  <2>1. PICK r \in Nat : q = p + 1 + r
    <3>1. q - p - 1 \in Nat /\ q = p + 1 + (q - p - 1)
      BY <1>1
    <3> QED
      BY <3>1
  <2>2. b * q = b * p + b + b * r
    BY <2>1
  <2>3. b * r \in Nat /\ b * p \in Nat
    OBVIOUS
  <2> QED
    BY <2>2, <2>3
<1>2. b * x \in Nat /\ b * z \in Nat
  OBVIOUS
<1>3. ~(x < z)
  BY <1>1, <1>2
<1>4. ~(z < x)
  BY <1>1, <1>2
<1>5. x = z
  BY <1>3, <1>4
<1> QED
  BY <1>2, <1>5

(* Digit strings of one length denote different numbers. *)
LEMMA ValueIsUnique ==
  ASSUME NEW b \in Nat, NEW s \in Seq(0 .. b - 1), NEW t \in Seq(0 .. b - 1),
         Len(s) = Len(t), Value(s, b) = Value(t, b)
  PROVE  s = t
<1> DEFINE n == Len(s)
<1>0. s \in Seq(Nat) /\ t \in Seq(Nat) /\ n \in Nat
  OBVIOUS
<1>1. PICK v : IsValue(v, s, b) /\ Value(s, b) = v[Len(s)]
  BY <1>0, ValueOf
<1>2. PICK w : IsValue(w, t, b) /\ Value(t, b) = w[Len(t)]
  BY <1>0, ValueOf
<1> DEFINE Q(k) == k <= n /\ v[k] = w[k] => \A i \in 1 .. k : s[i] = t[i]
           S == {k \in Nat : Q(k)}
<1>3. Q(0)
  OBVIOUS
<1>4. ASSUME NEW k \in Nat, Q(k) PROVE Q(k + 1)
  <2> SUFFICES ASSUME k + 1 <= n, v[k + 1] = w[k + 1] PROVE \A i \in 1 .. k + 1 : s[i] = t[i]
    OBVIOUS
  <2>1. /\ k \in 0 .. Len(s) - 1 /\ k \in 0 .. Len(t) - 1
        /\ k \in 0 .. Len(s) /\ k \in 0 .. Len(t)
    BY <1>0
  <2>2. /\ v[k + 1] = b * v[k] + s[k + 1] /\ w[k + 1] = b * w[k] + t[k + 1]
        /\ v[k] \in Nat /\ w[k] \in Nat
    BY <1>1, <1>2, <2>1 DEF IsValue
  <2>3. s[k + 1] \in 0 .. b - 1 /\ t[k + 1] \in 0 .. b - 1
    BY <2>1
  <2>4. b * v[k] + s[k + 1] = b * w[k] + t[k + 1]
    BY <2>2
  <2> DEFINE x == v[k]
             z == w[k]
             y == s[k + 1]
             u == t[k + 1]
  <2>5. x \in Nat /\ z \in Nat /\ y \in 0 .. b - 1 /\ u \in 0 .. b - 1 /\ b * x + y = b * z + u
    BY <2>2, <2>3, <2>4, Zenon
  <2> HIDE DEF x, y, z, u
  <2>6. v[k] = w[k] /\ s[k + 1] = t[k + 1]
    <3>1. x = z /\ y = u
      BY <2>5, DivisionIsUnique
    <3> QED
      BY <3>1, Zenon DEF x, y, z, u
  <2>7. \A i \in 1 .. k : s[i] = t[i]
    BY <1>4, <2>6
  <2> QED
    BY <2>6, <2>7
<1> HIDE DEF Q
<1>5. S = Nat
  <2>1. S \in SUBSET Nat /\ 0 \in S
    BY <1>3
  <2>2. \A k \in S : k + 1 \in S
    BY <1>4
  <2> HIDE DEF S
  <2> QED
    BY <2>1, <2>2, SetInduction
<1>6. Q(n)
  BY <1>0, <1>5
<1>7. \A i \in 1 .. n : s[i] = t[i]
  <2>1. v[n] = w[n]
    BY <1>1, <1>2, Zenon
  <2>2. n <= n
    BY <1>0
  <2> QED
    BY <1>6, <2>1, <2>2 DEF Q
<1> QED
  BY <1>0, <1>7, SeqEqual

(* A zero in front changes nothing. *)
LEMMA ValueOfPadded ==
  ASSUME NEW b \in Nat, NEW s \in Seq(Nat), NEW p \in Seq(Nat), Len(p) = Len(s) + 1,
         p[1] = 0, \A i \in 1 .. Len(s) : p[i + 1] = s[i]
  PROVE  Value(p, b) = Value(s, b)
<1> DEFINE n == Len(s)
<1>0. n \in Nat
  OBVIOUS
<1>1. PICK v : IsValue(v, s, b) /\ Value(s, b) = v[Len(s)]
  BY ValueOf
<1>2. PICK w : IsValue(w, p, b) /\ Value(p, b) = w[Len(p)]
  BY ValueOf
<1> DEFINE Q(k) == k <= n => w[k + 1] = v[k]
           S == {k \in Nat : Q(k)}
<1>3. Q(0)
  <2>1. 0 \in 0 .. Len(p) - 1 /\ 0 + 1 = 1
    BY <1>0
  <2>2. w[1] = b * w[0] + p[1] /\ w[0] = 0 /\ v[0] = 0
    BY <1>1, <1>2, <2>1 DEF IsValue
  <2> QED
    BY <2>2
<1>4. ASSUME NEW k \in Nat, Q(k) PROVE Q(k + 1)
  <2> SUFFICES ASSUME k + 1 <= n PROVE w[(k + 1) + 1] = v[k + 1]
    OBVIOUS
  <2>1. k + 1 \in 0 .. Len(p) - 1 /\ k \in 0 .. Len(s) - 1 /\ k + 1 \in 1 .. Len(s)
    BY <1>0
  <2>2. w[(k + 1) + 1] = b * w[k + 1] + p[(k + 1) + 1] /\ v[k + 1] = b * v[k] + s[k + 1]
    BY <1>1, <1>2, <2>1 DEF IsValue
  <2>3. p[(k + 1) + 1] = s[k + 1]
    BY <2>1
  <2>4. w[k + 1] = v[k]
    BY <1>4
  <2> QED
    BY <2>2, <2>3, <2>4
<1> HIDE DEF Q
<1>5. S = Nat
  <2>1. S \in SUBSET Nat /\ 0 \in S
    BY <1>3
  <2>2. \A k \in S : k + 1 \in S
    BY <1>4
  <2> HIDE DEF S
  <2> QED
    BY <2>1, <2>2, SetInduction
<1>6. Q(n)
  BY <1>0, <1>5
<1> QED
  BY <1>0, <1>1, <1>2, <1>6 DEF Q

(* Two digits of base b are one of base b * b. *)
LEMMA ValueOfPairs ==
  ASSUME NEW b \in Nat, NEW n \in Nat, NEW s \in Seq(Nat), NEW t \in Seq(Nat),
         Len(s) = 2 * n, Len(t) = n, \A i \in 1 .. n : t[i] = b * s[2 * i - 1] + s[2 * i]
  PROVE  Value(t, b * b) = Value(s, b)
<1>0. b * b \in Nat
  OBVIOUS
<1>1. PICK v : IsValue(v, s, b) /\ Value(s, b) = v[Len(s)]
  BY ValueOf
<1>2. PICK w : IsValue(w, t, b * b) /\ Value(t, b * b) = w[Len(t)]
  BY <1>0, ValueOf
<1> DEFINE Q(k) == k <= n => w[k] = v[2 * k]
           S == {k \in Nat : Q(k)}
<1>3. Q(0)
  BY <1>1, <1>2 DEF IsValue
<1>4. ASSUME NEW k \in Nat, Q(k) PROVE Q(k + 1)
  <2> SUFFICES ASSUME k + 1 <= n PROVE w[k + 1] = v[2 * (k + 1)]
    OBVIOUS
  <2>1. /\ k \in 0 .. Len(t) - 1 /\ k + 1 \in 1 .. n
        /\ 2 * k \in 0 .. Len(s) - 1 /\ 2 * k + 1 \in 0 .. Len(s) - 1
        /\ 2 * k \in 0 .. Len(s) /\ 2 * k + 1 \in 1 .. Len(s) /\ 2 * k + 2 \in 1 .. Len(s)
    OBVIOUS
  <2>2. (2 * k + 1) + 1 = 2 * k + 2 /\ 2 * (k + 1) = 2 * k + 2 /\ 2 * (k + 1) - 1 = 2 * k + 1
    OBVIOUS
  <2>3. w[k + 1] = (b * b) * w[k] + t[k + 1]
    BY <1>2, <2>1 DEF IsValue
  <2>4. v[2 * k + 1] = b * v[2 * k] + s[2 * k + 1] /\ v[2 * k] \in Nat
    BY <1>1, <2>1 DEF IsValue
  <2>5. v[(2 * k + 1) + 1] = b * v[2 * k + 1] + s[(2 * k + 1) + 1]
    BY <1>1, <2>1 DEF IsValue
  <2>6. s[2 * k + 1] \in Nat /\ s[2 * k + 2] \in Nat
    BY <2>1, ElementOfSeq, Zenon
  <2>7. t[k + 1] = b * s[2 * k + 1] + s[2 * k + 2]
    BY <2>1, <2>2
  <2>8. w[k] = v[2 * k]
    BY <1>4
  <2>9. ASSUME NEW x \in Nat, NEW y \in Nat, NEW z \in Nat
        PROVE  (b * b) * x + (b * y + z) = b * (b * x + y) + z
    OBVIOUS
  <2>10. v[2 * k + 2] = b * (b * v[2 * k] + s[2 * k + 1]) + s[2 * k + 2]
    BY <2>2, <2>4, <2>5
  <2>11. w[k + 1] = (b * b) * v[2 * k] + (b * s[2 * k + 1] + s[2 * k + 2])
    BY <2>3, <2>7, <2>8
  <2>12. w[k + 1] = v[2 * k + 2]
    BY <2>4, <2>6, <2>9, <2>10, <2>11, Zenon
  <2> QED
    BY <2>2, <2>12
<1> HIDE DEF Q
<1>5. S = Nat
  <2>1. S \in SUBSET Nat /\ 0 \in S
    BY <1>3
  <2>2. \A k \in S : k + 1 \in S
    BY <1>4
  <2> HIDE DEF S
  <2> QED
    BY <2>1, <2>2, SetInduction
<1>6. Q(n)
  BY <1>5
<1> QED
  BY <1>1, <1>2, <1>6 DEF Q

(* One more digit. *)
LEMMA ValueOfAppend ==
  ASSUME NEW b \in Nat, NEW s \in Seq(Nat), NEW p \in Seq(Nat), Len(p) = Len(s) + 1,
         \A i \in 1 .. Len(s) : p[i] = s[i]
  PROVE  Value(p, b) = b * Value(s, b) + p[Len(p)]
<1> DEFINE n == Len(s)
<1>0. n \in Nat
  OBVIOUS
<1>1. PICK v : IsValue(v, s, b) /\ Value(s, b) = v[Len(s)]
  BY ValueOf
<1>2. PICK w : IsValue(w, p, b) /\ Value(p, b) = w[Len(p)]
  BY ValueOf
<1> DEFINE Q(k) == k <= n => w[k] = v[k]
           S == {k \in Nat : Q(k)}
<1>3. Q(0)
  BY <1>1, <1>2 DEF IsValue
<1>4. ASSUME NEW k \in Nat, Q(k) PROVE Q(k + 1)
  <2> SUFFICES ASSUME k + 1 <= n PROVE w[k + 1] = v[k + 1]
    OBVIOUS
  <2>1. k \in 0 .. Len(p) - 1 /\ k \in 0 .. Len(s) - 1 /\ k + 1 \in 1 .. Len(s)
    BY <1>0
  <2>2. w[k + 1] = b * w[k] + p[k + 1] /\ v[k + 1] = b * v[k] + s[k + 1]
    BY <1>1, <1>2, <2>1 DEF IsValue
  <2>3. p[k + 1] = s[k + 1] /\ w[k] = v[k]
    BY <1>4, <2>1
  <2> QED
    BY <2>2, <2>3
<1> HIDE DEF Q
<1>5. S = Nat
  <2>1. S \in SUBSET Nat /\ 0 \in S
    BY <1>3
  <2>2. \A k \in S : k + 1 \in S
    BY <1>4
  <2> HIDE DEF S
  <2> QED
    BY <2>1, <2>2, SetInduction
<1>6. w[n] = v[n]
  <2>1. Q(n)
    BY <1>0, <1>5
  <2> QED
    BY <1>0, <2>1 DEF Q
<1>7. n \in 0 .. Len(p) - 1 /\ n + 1 = Len(p)
  BY <1>0
<1>8. w[n + 1] = b * w[n] + p[n + 1]
  BY <1>2, <1>7 DEF IsValue
<1> QED
  BY <1>1, <1>2, <1>6, <1>7, <1>8

LEMMA ValueOfEmpty ==
  ASSUME NEW b \in Nat
  PROVE  Value(<<>>, b) = 0
<1>1. <<>> \in Seq(Nat) /\ Len(<<>>) = 0
  OBVIOUS
<1>2. PICK v : IsValue(v, <<>>, b) /\ Value(<<>>, b) = v[Len(<<>>)]
  BY <1>1, ValueOf
<1> QED
  BY <1>1, <1>2 DEF IsValue

---------------------------------------------------------------------------
(* Numbers have numerals.                                                  *)

LEMMA PowersGrow ==
  \A m \in 0 .. 2 * HashLength : \A k \in 0 .. m : 2^k \in Nat \ {0} /\ 2^k <= 2^m
<1> DEFINE H == 2 * HashLength
           Q(m) == m <= H => \A k \in 0 .. m : 2^k \in Nat \ {0} /\ 2^k <= 2^m
           S == {m \in Nat : Q(m)}
<1>0. H \in Nat
  BY WidthAssumption
<1>1. Q(0)
  BY PowerAssumption
<1>2. ASSUME NEW m \in Nat, Q(m) PROVE Q(m + 1)
  <2> SUFFICES ASSUME m + 1 <= H, NEW k \in 0 .. m + 1
               PROVE  2^k \in Nat \ {0} /\ 2^k <= 2^(m + 1)
    OBVIOUS
  <2>1. \A j \in 0 .. m : 2^j \in Nat \ {0} /\ 2^j <= 2^m
    BY <1>0, <1>2
  <2>2. 2^m \in Nat \ {0}
    BY <2>1
  <2>3. 2^(m + 1) = 2 * 2^m
    <3>1. m \in 0 .. 2 * HashLength - 1
      BY <1>0
    <3> QED
      BY <3>1, PowerAssumption
  <2>4. 2^(m + 1) \in Nat \ {0} /\ 2^m <= 2^(m + 1)
    BY <2>2, <2>3
  <2>5. CASE k = m + 1
    BY <2>4, <2>5
  <2>6. CASE k # m + 1
    <3>1. k \in 0 .. m
      BY <2>6
    <3> QED
      BY <2>1, <2>2, <2>4, <3>1
  <2> QED
    BY <2>5, <2>6
<1> HIDE DEF Q
<1>3. S = Nat
  <2>1. S \in SUBSET Nat /\ 0 \in S
    BY <1>1
  <2>2. \A k \in S : k + 1 \in S
    BY <1>2
  <2> HIDE DEF S
  <2> QED
    BY <2>1, <2>2, SetInduction
<1> QED
  BY <1>0, <1>3 DEF Q

(* An unsigned integer has room: 2^Width is a positive number.             *)
LEMMA WidthFacts ==
  /\ Width \in Nat \ {0} /\ 2^Width \in Nat \ {0}
  /\ HashLength \in Nat \ {0} /\ Width <= 2 * HashLength
<1>1. Width \in 0 .. 2 * HashLength /\ Width \in 0 .. Width
  BY WidthAssumption
<1> QED
  BY <1>1, WidthAssumption, PowersGrow

(* Division by the base.                                                   *)
LEMMA DivideByBase ==
  ASSUME NEW n \in Nat
  PROVE  /\ n \div Base \in Nat /\ n % Base \in Digits
         /\ Base * (n \div Base) + (n % Base) = n
         /\ \A m \in Nat : n < 2 * m => n \div Base < m
<1>0. Base \in Nat /\ Base >= 2
  BY BaseAssumption
<1>1. n \div Base \in Nat /\ n % Base \in Digits
  BY <1>0 DEF Digits
<1>2. PICK q \in Nat : q = n \div Base
  BY <1>1
<1>3. PICK r \in Digits : r = n % Base
  BY <1>1
<1>4. Base * q + r = n
  BY <1>0, <1>2, <1>3
<1>5. ASSUME NEW m \in Nat, n < 2 * m PROVE q < m
  <2>1. PICK c \in Nat : Base = 2 + c
    <3>1. Base - 2 \in Nat /\ Base = 2 + (Base - 2)
      BY <1>0
    <3> QED
      BY <3>1
  <2>2. Base * q = 2 * q + c * q /\ c * q \in Nat
    BY <2>1
  <2>3. r \in Nat
    BY <1>0 DEF Digits
  <2>4. 2 * q <= n
    BY <1>4, <2>2, <2>3
  <2> QED
    BY <1>5, <2>4
<1> QED
  BY <1>1, <1>2, <1>3, <1>4, <1>5, Zenon

(* A number below 2^k has a shortest numeral of at most k digits.          *)
LEMMA NumeralExists ==
  ASSUME NEW n \in UInts
  PROVE  \E d \in DigitStrings(Width) : IsNumeral(d, n)
<1> DEFINE W == Width
           P(d, k, m) == /\ d \in Seq(Digits) /\ Len(d) \in 1 .. k
                         /\ Value(d, Base) = m /\ (d[1] = 0 => m = 0 /\ Len(d) = 1)
           Q(k) == k + 1 <= W => \A m \in Nat : m < 2^(k + 1) => \E d : P(d, k + 1, m)
           S == {k \in Nat : Q(k)}
<1>0. W \in Nat \ {0} /\ Base \in Nat /\ Base >= 2
  BY WidthFacts, BaseAssumption
<1>1. ASSUME NEW m \in Digits, NEW k \in Nat PROVE P(<<m>>, k + 1, m)
  <2> DEFINE s == <<m>>
             z == <<>>
  <2>1. s \in Seq(Digits) /\ Len(s) = 1 /\ s[1] = m
    OBVIOUS
  <2>2. s \in Seq(Nat) /\ z \in Seq(Nat) /\ Len(z) = 0 /\ m \in Nat
    BY <1>0 DEF Digits
  <2>3. Value(z, Base) = 0
    BY <1>0, ValueOfEmpty
  <2> HIDE DEF s, z
  <2>4. Value(s, Base) = Base * Value(z, Base) + s[Len(s)]
    <3>1. Len(s) = Len(z) + 1 /\ \A i \in 1 .. Len(z) : s[i] = z[i]
      BY <2>1, <2>2
    <3> QED
      BY <1>0, <2>2, <3>1, ValueOfAppend, Zenon
  <2>5. Value(s, Base) = m
    BY <1>0, <2>1, <2>2, <2>3, <2>4
  <2>6. P(s, k + 1, m)
    BY <2>1, <2>5
  <2> QED
    BY <2>6 DEF s
<1>2. Q(0)
  <2> SUFFICES ASSUME NEW m \in Nat, m < 2^(0 + 1) PROVE \E d : P(d, 0 + 1, m)
    OBVIOUS
  <2>1. 2^(0 + 1) = 2
    <3>1. 0 \in 0 .. 2 * HashLength - 1
      BY WidthFacts
    <3> QED
      BY <3>1, PowerAssumption
  <2>2. m \in Digits
    BY <1>0, <2>1 DEF Digits
  <2> QED
    BY <1>1, <2>2
<1>3. ASSUME NEW k \in Nat, Q(k) PROVE Q(k + 1)
  <2> SUFFICES ASSUME (k + 1) + 1 <= W, NEW m \in Nat, m < 2^((k + 1) + 1)
               PROVE  \E d : P(d, (k + 1) + 1, m)
    OBVIOUS
  <2>1. CASE m < Base
    <3>1. m \in Digits /\ k + 1 \in Nat
      BY <1>0, <2>1 DEF Digits
    <3> QED
      BY <1>1, <3>1
  <2>2. CASE m >= Base
    <3>1. k + 1 \in 0 .. 2 * HashLength - 1 /\ k + 1 <= W /\ k + 1 \in 0 .. 2 * HashLength
      BY <1>0, WidthFacts
    <3>2. 2^((k + 1) + 1) = 2 * 2^(k + 1)
      BY <3>1, PowerAssumption
    <3>3. 2^(k + 1) \in Nat
      BY <3>1, PowersGrow
    <3> DEFINE q == m \div Base
               r == m % Base
    <3>4. q \in Nat /\ r \in Digits /\ Base * q + r = m /\ q < 2^(k + 1)
      BY <3>2, <3>3, DivideByBase
    <3>5. q # 0
      BY <1>0, <2>2, <3>4 DEF Digits
    <3> HIDE DEF q, r
    <3>6. PICK d : P(d, k + 1, q)
      BY <1>3, <3>1, <3>4
    <3> DEFINE e == Append(d, r)
    <3>7. /\ e \in Seq(Digits) /\ Len(e) = Len(d) + 1 /\ e[Len(e)] = r
          /\ \A i \in 1 .. Len(d) : e[i] = d[i]
      BY <3>4, <3>6
    <3> HIDE DEF e
    <3>8. d \in Seq(Nat) /\ e \in Seq(Nat)
      BY <1>0, <3>6, <3>7 DEF Digits
    <3>9. Value(e, Base) = Base * Value(d, Base) + e[Len(e)]
      BY <1>0, <3>7, <3>8, ValueOfAppend
    <3>10. Value(e, Base) = m
      BY <3>4, <3>6, <3>7, <3>9
    <3>11. e[1] # 0 /\ Len(e) \in 1 .. (k + 1) + 1
      BY <3>5, <3>6, <3>7
    <3> QED
      BY <3>7, <3>10, <3>11
  <2> QED
    BY <1>0, <2>1, <2>2
<1> HIDE DEF Q
<1>4. S = Nat
  <2>1. S \in SUBSET Nat /\ 0 \in S
    BY <1>2
  <2>2. \A k \in S : k + 1 \in S
    BY <1>3
  <2> HIDE DEF S
  <2> QED
    BY <2>1, <2>2, SetInduction
<1>5. PICK d : P(d, W, n)
  <2>1. W - 1 \in Nat /\ (W - 1) + 1 = W /\ W <= W
    BY <1>0
  <2>2. Q(W - 1)
    BY <1>4, <2>1
  <2>3. n \in Nat /\ n < 2^W
    BY WidthFacts DEF UInts
  <2> QED
    BY <2>1, <2>2, <2>3, Zenon DEF Q
<1>6. d \in [1 .. Len(d) -> 0 .. Base - 1] /\ Len(d) \in 0 .. Width
  BY <1>0, <1>5 DEF Digits
<1>7. d \in DigitStrings(Width)
  BY <1>6 DEF DigitStrings
<1>8. IsNumeral(d, n)
  BY <1>5 DEF IsNumeral
<1> QED
  BY <1>7, <1>8

(* Every unsigned integer fits in a word.                                  *)
LEMMA WordExists ==
  ASSUME NEW n \in UInts
  PROVE  Word(n) \in Hashes /\ Value(Word(n), Base * Base) = n
<1> DEFINE H == 2 * HashLength
           P(d, k, m) == d \in Seq(Digits) /\ Len(d) = k /\ Value(d, Base) = m
           Q(k) == k <= H => \A m \in Nat : m < 2^k => \E d : P(d, k, m)
           S == {k \in Nat : Q(k)}
<1>0. H \in Nat /\ HashLength \in Nat /\ Base \in Nat /\ Base >= 2
  BY WidthFacts, BaseAssumption
<1>1. Q(0)
  <2> SUFFICES ASSUME NEW m \in Nat, m < 2^0 PROVE \E d : P(d, 0, m)
    OBVIOUS
  <2>1. m = 0
    BY PowerAssumption
  <2>2. <<>> \in Seq(Digits) /\ Len(<<>>) = 0
    OBVIOUS
  <2>3. Value(<<>>, Base) = 0
    BY <1>0, ValueOfEmpty
  <2>4. P(<<>>, 0, m)
    BY <2>1, <2>2, <2>3, Zenon
  <2> QED
    BY <2>4
<1>2. ASSUME NEW k \in Nat, Q(k) PROVE Q(k + 1)
  <2> SUFFICES ASSUME k + 1 <= H, NEW m \in Nat, m < 2^(k + 1) PROVE \E d : P(d, k + 1, m)
    OBVIOUS
  <2>1. k \in 0 .. 2 * HashLength - 1 /\ k <= H /\ k \in 0 .. 2 * HashLength
    BY <1>0
  <2>2. 2^(k + 1) = 2 * 2^k /\ 2^k \in Nat
    BY <2>1, PowerAssumption, PowersGrow
  <2> DEFINE q == m \div Base
             r == m % Base
  <2>3. q \in Nat /\ r \in Digits /\ Base * q + r = m /\ q < 2^k
    BY <2>2, DivideByBase
  <2> HIDE DEF q, r
  <2>4. PICK d : P(d, k, q)
    BY <1>2, <2>1, <2>3
  <2> DEFINE e == Append(d, r)
  <2>5. /\ e \in Seq(Digits) /\ Len(e) = Len(d) + 1 /\ e[Len(e)] = r
        /\ \A i \in 1 .. Len(d) : e[i] = d[i]
    BY <2>3, <2>4
  <2> HIDE DEF e
  <2>6. d \in Seq(Nat) /\ e \in Seq(Nat)
    BY <1>0, <2>4, <2>5 DEF Digits
  <2>7. Value(e, Base) = Base * Value(d, Base) + e[Len(e)]
    BY <1>0, <2>5, <2>6, ValueOfAppend
  <2>8. P(e, k + 1, m)
    BY <2>3, <2>4, <2>5, <2>7
  <2> QED
    BY <2>8
<1> HIDE DEF Q
<1>3. S = Nat
  <2>1. S \in SUBSET Nat /\ 0 \in S
    BY <1>1
  <2>2. \A k \in S : k + 1 \in S
    BY <1>2
  <2> HIDE DEF S
  <2> QED
    BY <2>1, <2>2, SetInduction
<1>4. PICK d : P(d, H, n)
  <2>1. Width \in 0 .. H /\ H \in 0 .. 2 * HashLength
    BY <1>0, WidthFacts
  <2>2. 2^Width \in Nat /\ 2^H \in Nat /\ 2^Width <= 2^H
    <3>1. H \in 0 .. H
      BY <1>0
    <3> QED
      BY <2>1, <3>1, PowersGrow
  <2>3. n \in Nat /\ n < 2^H
    BY <2>2 DEF UInts
  <2>4. Q(H)
    BY <1>0, <1>3
  <2> QED
    BY <1>0, <2>3, <2>4 DEF Q
<1> DEFINE w == [i \in 1 .. HashLength |-> Base * d[2 * i - 1] + d[2 * i]]
<1>5. w \in Hashes
  <2>1. ASSUME NEW i \in 1 .. HashLength PROVE Base * d[2 * i - 1] + d[2 * i] \in Bytes
    <3>1. 2 * i - 1 \in 1 .. Len(d) /\ 2 * i \in 1 .. Len(d)
      BY <1>0, <1>4
    <3>2. d[2 * i - 1] \in Digits /\ d[2 * i] \in Digits
      BY <1>4, <3>1, ElementOfSeq, Zenon
    <3> QED
      BY <3>2, ByteOfDigits
  <2> QED
    BY <2>1 DEF Hashes
<1>6. /\ w \in Seq(Nat) /\ Len(w) = HashLength /\ d \in Seq(Nat)
      /\ \A i \in 1 .. HashLength : w[i] = Base * d[2 * i - 1] + d[2 * i]
  <2>1. \A i \in 1 .. HashLength : w[i] = Base * d[2 * i - 1] + d[2 * i]
    OBVIOUS
  <2>2. d \in Seq(Nat)
    BY <1>0, <1>4 DEF Digits
  <2> HIDE DEF w
  <2>3. w \in [1 .. HashLength -> Nat]
    BY <1>0, <1>5 DEF Hashes, Bytes
  <2> QED
    BY <1>0, <2>1, <2>2, <2>3, IsASequence
<1> HIDE DEF w
<1>7. Value(w, Base * Base) = Value(d, Base)
  BY <1>0, <1>4, <1>6, ValueOfPairs
<1>8. Value(w, Base * Base) = n
  BY <1>4, <1>7
<1> QED
  BY <1>5, <1>8 DEF Word

(* strconv.AppendUint writes digits that denote the number.                *)
LEMMA NumeralIsDigits ==
  ASSUME NEW n \in UInts
  PROVE  Numeral(n) \in Seq(Digits) /\ Value(Numeral(n), Base) = n
<1>1. Numeral(n) \in DigitStrings(Width) /\ IsNumeral(Numeral(n), n)
  BY NumeralExists DEF Numeral
<1>2. PICK k \in 0 .. Width : Numeral(n) \in [1 .. k -> Digits]
  BY <1>1 DEF DigitStrings, Digits
<1> QED
  BY <1>1, <1>2, WidthFacts, IsASequence DEF IsNumeral

---------------------------------------------------------------------------
(* The hex codec.                                                          *)

(* hex.EncodeToString makes two digits of each byte.                       *)
LEMMA EncodeDigits ==
  ASSUME NEW b \in Seq(Bytes)
  PROVE  /\ EncodeToString(b) \in Seq(Digits) /\ Len(EncodeToString(b)) = 2 * Len(b)
         /\ \A i \in 1 .. Len(b) : /\ EncodeToString(b)[2 * i - 1] = b[i] \div Base
                                   /\ EncodeToString(b)[2 * i] = b[i] % Base
<1> DEFINE n == 2 * Len(b)
           F(i) == IF i % 2 = 1 THEN b[(i + 1) \div 2] \div Base ELSE b[i \div 2] % Base
<1>1. n \in Nat
  OBVIOUS
<1>2. EncodeToString(b) = [i \in 1 .. n |-> F(i)]
  BY DEF EncodeToString
<1>3. ASSUME NEW i \in 1 .. n PROVE F(i) \in Digits
  <2>1. CASE i % 2 = 1
    <3>1. (i + 1) \div 2 \in 1 .. Len(b)
      BY <2>1
    <3>2. b[(i + 1) \div 2] \in Bytes
      BY <3>1
    <3> QED
      BY <2>1, <3>2, DigitsOfByte
  <2>2. CASE i % 2 # 1
    <3>1. i \div 2 \in 1 .. Len(b)
      BY <2>2
    <3>2. b[i \div 2] \in Bytes
      BY <3>1
    <3> QED
      BY <2>2, <3>2, DigitsOfByte
  <2> QED
    BY <2>1, <2>2
<1>4. ASSUME NEW i \in 1 .. Len(b)
      PROVE  /\ 2 * i - 1 \in 1 .. n /\ F(2 * i - 1) = b[i] \div Base
             /\ 2 * i \in 1 .. n /\ F(2 * i) = b[i] % Base
  <2>1. (2 * i - 1) % 2 = 1 /\ ((2 * i - 1) + 1) \div 2 = i
    OBVIOUS
  <2>2. (2 * i) % 2 # 1 /\ (2 * i) \div 2 = i
    OBVIOUS
  <2>3. 2 * i - 1 \in 1 .. n /\ 2 * i \in 1 .. n
    OBVIOUS
  <2> QED
    BY <2>1, <2>2, <2>3
<1> HIDE DEF F, n
<1>5. EncodeToString(b) \in [1 .. n -> Digits]
  BY <1>2, <1>3
<1> QED
  BY <1>1, <1>2, <1>4, <1>5, IsASequence DEF n

(* hex.DecodeString makes a byte of each two digits.                       *)
LEMMA DecodeDigits ==
  ASSUME NEW n \in Nat, NEW s \in Seq(Digits), Len(s) = 2 * n
  PROVE  /\ DecodeString(s) = Ok([i \in 1 .. n |-> Base * s[2 * i - 1] + s[2 * i]])
         /\ [i \in 1 .. n |-> Base * s[2 * i - 1] + s[2 * i]] \in Seq(Bytes)
         /\ Len([i \in 1 .. n |-> Base * s[2 * i - 1] + s[2 * i]]) = n
<1>1. Len(s) % 2 = 0 /\ Len(s) \div 2 = n
  OBVIOUS
<1>2. IsDigits(s)
  BY BaseAssumption DEF IsDigits, Digits
<1>3. DecodeString(s) = Ok([i \in 1 .. n |-> Base * s[2 * i - 1] + s[2 * i]])
  BY <1>1, <1>2 DEF DecodeString
<1>4. ASSUME NEW i \in 1 .. n PROVE Base * s[2 * i - 1] + s[2 * i] \in Bytes
  <2>1. 2 * i - 1 \in 1 .. Len(s) /\ 2 * i \in 1 .. Len(s)
    OBVIOUS
  <2>2. s[2 * i - 1] \in Digits /\ s[2 * i] \in Digits
    BY <2>1
  <2> QED
    BY <2>2, ByteOfDigits
<1>5. [i \in 1 .. n |-> Base * s[2 * i - 1] + s[2 * i]] \in [1 .. n -> Bytes]
  BY <1>4
<1> QED
  BY <1>3, <1>5, IsASequence

LEMMA DecodeIsBytes ==
  ASSUME NEW s \in Seq(Nat), DecodeString(s).ok
  PROVE  DecodeString(s).val \in Seq(Bytes)
<1>1. Len(s) % 2 = 0 /\ IsDigits(s)
  BY DEF DecodeString, Error
<1>2. s \in Seq(Digits)
  <2>1. \A i \in 1 .. Len(s) : s[i] \in Digits
    BY <1>1, BaseAssumption DEF IsDigits, Digits
  <2>2. s \in [1 .. Len(s) -> Digits]
    BY <2>1
  <2> QED
    BY <2>2, IsASequence
<1>3. PICK n \in Nat : Len(s) = 2 * n
  <2>1. Len(s) \div 2 \in Nat /\ Len(s) = 2 * (Len(s) \div 2)
    BY <1>1
  <2> QED
    BY <2>1
<1> DEFINE v == [i \in 1 .. n |-> Base * s[2 * i - 1] + s[2 * i]]
<1>4. DecodeString(s) = Ok(v) /\ v \in Seq(Bytes)
  BY <1>2, <1>3, DecodeDigits
<1> HIDE DEF v
<1> QED
  BY <1>4 DEF Ok

(* What was encoded is decoded again.                                      *)
LEMMA DecodeOfEncode ==
  ASSUME NEW b \in Seq(Bytes)
  PROVE  DecodeString(EncodeToString(b)) = Ok(b)
<1> DEFINE e == EncodeToString(b)
           n == Len(b)
<1>1. n \in Nat /\ e \in Seq(Digits) /\ Len(e) = 2 * n
  BY EncodeDigits
<1>2. \A i \in 1 .. n : e[2 * i - 1] = b[i] \div Base /\ e[2 * i] = b[i] % Base
  BY EncodeDigits
<1>3. \A i \in 1 .. n : b[i] \in Bytes
  OBVIOUS
<1>4. b = [i \in 1 .. n |-> b[i]]
  OBVIOUS
<1> HIDE DEF e, n
<1>5. \A i \in 1 .. n : Base * e[2 * i - 1] + e[2 * i] = b[i]
  <2> SUFFICES ASSUME NEW i \in 1 .. n PROVE Base * e[2 * i - 1] + e[2 * i] = b[i]
    OBVIOUS
  <2>1. Base * (b[i] \div Base) + (b[i] % Base) = b[i]
    BY <1>3, DigitsOfByte
  <2> QED
    BY <1>2, <2>1, Zenon
<1>6. [i \in 1 .. n |-> Base * e[2 * i - 1] + e[2 * i]] = b
  BY <1>4, <1>5
<1>7. DecodeString(e) = Ok([i \in 1 .. n |-> Base * e[2 * i - 1] + e[2 * i]])
  BY <1>1, DecodeDigits
<1> QED
  BY <1>6, <1>7 DEF e

---------------------------------------------------------------------------
(* The proof in the call data.                                             *)

(* Sequences strung together: what follows the first m elements.           *)
ConcatOf(s, t, S) ==
  /\ s \o t \in Seq(S) /\ Len(s \o t) = Len(s) + Len(t)
  /\ \A i \in 1 .. Len(s) + Len(t) :
       (s \o t)[i] = IF i <= Len(s) THEN s[i] ELSE t[i - Len(s)]

LEMMA SuffixOf ==
  ASSUME NEW S, NEW p \in Seq(S), NEW e \in Seq(S), NEW m \in Nat,
         Len(p) = m + Len(e), \A i \in 1 .. Len(e) : p[i + m] = e[i]
  PROVE  SubSeq(p, m + 1, Len(p)) = e
<1> DEFINE t == SubSeq(p, m + 1, Len(p))
<1>1. \A i \in m + 1 .. Len(p) : p[i] \in S
  OBVIOUS
<1>2. /\ t \in Seq(S) /\ Len(t) = IF m + 1 <= Len(p) THEN Len(p) - (m + 1) + 1 ELSE 0
      /\ \A i \in 1 .. Len(p) - (m + 1) + 1 : t[i] = p[(m + 1) + i - 1]
  BY <1>1, SubSeqProperties
<1> HIDE DEF t
<1>3. Len(t) = Len(e) /\ \A i \in 1 .. Len(e) : t[i] = p[i + m]
  BY <1>2
<1>4. \A i \in 1 .. Len(t) : t[i] = e[i]
  BY <1>3
<1> QED
  BY <1>2, <1>3, <1>4, SeqEqual DEF t

(* strings.TrimPrefix of encodeToHex is the digits again.                  *)
LEMMA TrimHex ==
  ASSUME NEW b \in Seq(Bytes)
  PROVE  /\ TrimPrefix(HexBytes(b)) = EncodeToString(b)
         /\ Len(HexBytes(b)) = 2 * Len(b) + 2
         /\ HexBytes(b) \in Seq(Nat)
<1> DEFINE e == EncodeToString(b)
<1>1. e \in Seq(Digits) /\ Len(e) = 2 * Len(b)
  BY EncodeDigits
<1>2. e \in Seq(Nat) /\ Prefix \in Seq(Nat) /\ Len(Prefix) = 2
  BY <1>1, BaseAssumption DEF Digits, Prefix, X
<1> HIDE DEF e
<1>3. /\ Prefix \o e \in Seq(Nat) /\ Len(Prefix \o e) = 2 + Len(e)
      /\ \A i \in 1 .. Len(e) : (Prefix \o e)[i + 2] = e[i]
  <2>1. ConcatOf(Prefix, e, Nat)
    BY <1>2, ConcatProperties DEF ConcatOf
  <2> QED
    BY <1>2, <2>1 DEF ConcatOf
<1>4. SubSeq(Prefix \o e, 1, 2) = Prefix
  <2>1. 1 \in 1 .. Len(Prefix) /\ 2 \in 1 .. Len(Prefix)
    BY <1>2
  <2>2. SubSeq(Prefix \o e, 1, 2) = SubSeq(Prefix, 1, 2)
    BY <1>2, <2>1, SubSeqOfConcat1, Zenon
  <2>3. SubSeq(Prefix, 1, Len(Prefix)) = Prefix
    BY <1>2, SubSeqFull, Zenon
  <2> QED
    BY <1>2, <2>2, <2>3, Zenon
<1>5. SubSeq(Prefix \o e, 3, Len(Prefix \o e)) = e
  <2>1. 2 \in Nat /\ 2 + 1 = 3
    OBVIOUS
  <2>2. SubSeq(Prefix \o e, 2 + 1, Len(Prefix \o e)) = e
    BY <1>2, <1>3, <2>1, SuffixOf, Zenon
  <2> QED
    BY <2>1, <2>2
<1>6. HexBytes(b) = Prefix \o e
  BY DEF HexBytes, e
<1> DEFINE h == Prefix \o e
<1>7. Len(h) >= 2
  BY <1>1, <1>2, <1>3
<1>8. TrimPrefix(h) = e
  BY <1>4, <1>5, <1>7, Zenon DEF TrimPrefix
<1>9. Len(h) = 2 * Len(b) + 2 /\ h \in Seq(Nat)
  BY <1>1, <1>3
<1> QED
  BY <1>6, <1>8, <1>9, Zenon DEF e

(* Some bytes from the middle have their digits in the middle.             *)
LEMMA EncodeOfPart ==
  ASSUME NEW b \in Seq(Bytes), NEW x \in Nat, NEW y \in Nat, x <= y, y <= Len(b)
  PROVE  /\ SubSeq(b, x + 1, y) \in Seq(Bytes) /\ Len(SubSeq(b, x + 1, y)) = y - x
         /\ \A i \in 1 .. y - x : SubSeq(b, x + 1, y)[i] = b[x + i]
         /\ SubSeq(EncodeToString(b), 2 * x + 1, 2 * y) = EncodeToString(SubSeq(b, x + 1, y))
<1> DEFINE e == EncodeToString(b)
           c == SubSeq(b, x + 1, y)
           f == EncodeToString(c)
           g == SubSeq(e, 2 * x + 1, 2 * y)
<1>1. c \in Seq(Bytes) /\ Len(c) = y - x /\ \A i \in 1 .. y - x : c[i] = b[x + i]
  OBVIOUS
<1>2. e \in Seq(Digits) /\ Len(e) = 2 * Len(b)
  BY EncodeDigits
<1>3. \A i \in 1 .. Len(b) : e[2 * i - 1] = b[i] \div Base /\ e[2 * i] = b[i] % Base
  BY EncodeDigits
<1> HIDE DEF c
<1>4. f \in Seq(Digits) /\ Len(f) = 2 * (y - x)
  BY <1>1, EncodeDigits
<1>5. \A i \in 1 .. y - x : f[2 * i - 1] = c[i] \div Base /\ f[2 * i] = c[i] % Base
  BY <1>1, EncodeDigits
<1> HIDE DEF e, f
<1>6. /\ g \in Seq(Digits) /\ Len(g) = 2 * (y - x)
      /\ \A j \in 1 .. 2 * (y - x) : g[j] = e[2 * x + j]
  BY <1>2
<1> HIDE DEF g
<1>7. ASSUME NEW j \in 1 .. 2 * (y - x) PROVE g[j] = f[j]
  <2>1. PICK i \in 1 .. y - x : j = 2 * i - 1 \/ j = 2 * i
    <3>1. (j + 1) \div 2 \in 1 .. y - x /\ (j = 2 * ((j + 1) \div 2) - 1 \/ j = 2 * ((j + 1) \div 2))
      OBVIOUS
    <3> QED
      BY <3>1
  <2>2. x + i \in 1 .. Len(b)
    OBVIOUS
  <2>3. /\ e[2 * (x + i) - 1] = b[x + i] \div Base /\ e[2 * (x + i)] = b[x + i] % Base
        /\ c[i] = b[x + i]
    BY <1>1, <1>3, <2>2
  <2>4. 2 * x + (2 * i - 1) = 2 * (x + i) - 1 /\ 2 * x + 2 * i = 2 * (x + i)
    OBVIOUS
  <2>5. g[j] = e[2 * x + j]
    BY <1>6
  <2>6. f[2 * i - 1] = c[i] \div Base /\ f[2 * i] = c[i] % Base
    BY <1>5
  <2> QED
    BY <2>1, <2>3, <2>4, <2>5, <2>6, Zenon
<1>8. g = f
  BY <1>4, <1>6, <1>7, SeqEqual
<1> QED
  BY <1>1, <1>8 DEF c, e, f, g

(* Where the parts of n elements begin and end.                            *)
LEMMA PartBounds ==
  ASSUME NEW P \in Nat, NEW H \in Nat, NEW i \in 1 .. P
  PROVE  /\ (i - 1) * H \in Nat /\ i * H \in Nat /\ i * H = (i - 1) * H + H /\ i * H <= P * H
         /\ (i - 1) * (2 * H) = 2 * ((i - 1) * H) /\ i * (2 * H) = 2 * (i * H)
<1>1. PICK j \in Nat : i = j + 1
  <2>1. i - 1 \in Nat /\ i = (i - 1) + 1
    OBVIOUS
  <2> QED
    BY <2>1
<1>2. PICK k \in Nat : P = i + k
  <2>1. P - i \in Nat /\ P = i + (P - i)
    OBVIOUS
  <2> QED
    BY <2>1
<1>3. i - 1 = j
  BY <1>1
<1>4. j * H \in Nat /\ k * H \in Nat
  OBVIOUS
<1>5. i * H = j * H + H
  BY <1>1
<1>6. P * H = i * H + k * H
  BY <1>2
<1>7. j * (2 * H) = 2 * (j * H) /\ i * (2 * H) = 2 * (i * H)
  OBVIOUS
<1> QED
  BY <1>3, <1>4, <1>5, <1>6, <1>7

(* The i-th hash of the bytes of a proof.                                  *)
LEMMA PartOfBytes ==
  ASSUME NEW b \in Seq(Bytes), Len(b) = ProofLength * HashLength, NEW i \in 1 .. ProofLength
  PROVE  /\ Part(b, i, HashLength) \in Seq(Bytes) /\ Len(Part(b, i, HashLength)) = HashLength
         /\ \A k \in 1 .. HashLength : Part(b, i, HashLength)[k] = b[(i - 1) * HashLength + k]
         /\ Part(EncodeToString(b), i, 2 * HashLength) = EncodeToString(Part(b, i, HashLength))
<1> DEFINE H == HashLength
           x == (i - 1) * H
           y == i * H
<1>0. ProofLength \in Nat /\ H \in Nat
  BY RangesAssumption, WidthAssumption
<1>1. /\ x \in Nat /\ y \in Nat /\ y = x + H /\ y <= Len(b)
      /\ (i - 1) * (2 * H) = 2 * x /\ i * (2 * H) = 2 * y
  BY <1>0, PartBounds
<1>2. /\ Part(b, i, H) = SubSeq(b, x + 1, y)
      /\ Part(EncodeToString(b), i, 2 * H) = SubSeq(EncodeToString(b), 2 * x + 1, 2 * y)
  BY <1>1 DEF Part
<1> HIDE DEF x, y
<1>3. x <= y /\ y - x = H
  BY <1>0, <1>1
<1>4. /\ SubSeq(b, x + 1, y) \in Seq(Bytes) /\ Len(SubSeq(b, x + 1, y)) = y - x
      /\ \A k \in 1 .. y - x : SubSeq(b, x + 1, y)[k] = b[x + k]
      /\ SubSeq(EncodeToString(b), 2 * x + 1, 2 * y) = EncodeToString(SubSeq(b, x + 1, y))
  BY <1>1, <1>3, EncodeOfPart
<1> QED
  BY <1>2, <1>3, <1>4, Zenon DEF x

(* Digits of bytes have neither a prefix to be trimmed nor an odd length.  *)
LEMMA DecodeBytesOfEncode ==
  ASSUME NEW b \in Seq(Bytes)
  PROVE  DecodeBytes(EncodeToString(b)) = Ok(b)
<1> DEFINE e == EncodeToString(b)
<1>1. e \in Seq(Digits) /\ Len(e) = 2 * Len(b)
  BY EncodeDigits
<1>2. TrimPrefix(e) = e
  <2>1. ASSUME Len(e) >= 2 PROVE SubSeq(e, 1, 2)[2] = e[2] /\ e[2] # X
    BY <1>1, <2>1, BaseAssumption DEF X, Digits
  <2>2. Prefix[2] = X
    BY DEF Prefix
  <2> QED
    BY <2>1, <2>2 DEF TrimPrefix
<1>3. Len(e) % 2 = 0
  BY <1>1
<1> QED
  BY <1>2, <1>3, DecodeOfEncode DEF DecodeBytes

(* ConvertProof of the text of a proof is BytesToProof of its bytes.       *)
LEMMA ConvertOfHex ==
  ASSUME NEW b \in Seq(Bytes)
  PROVE  ConvertProof(HexBytes(b)) = BytesToProof(b)
<1> DEFINE e == EncodeToString(b)
           P == ProofLength
           H == HashLength
           hash(i) == DecodeBytes(Part(e, i, 2 * H))
<1>1. TrimPrefix(HexBytes(b)) = e /\ Len(HexBytes(b)) = 2 * Len(b) + 2
  BY TrimHex
<1>2. P * H \in Nat
  BY RangesAssumption, WidthAssumption
<1>3. ConvertProof(HexBytes(b)) =
        IF Len(HexBytes(b)) = 2 * (P * H) + 2 /\ \A i \in 1 .. P : hash(i).ok
        THEN Ok([i \in 1 .. P |-> hash(i).val])
        ELSE Error
  BY <1>1 DEF ConvertProof
<1>4. CASE Len(b) # P * H
  <2>1. Len(HexBytes(b)) # 2 * (P * H) + 2
    BY <1>1, <1>2, <1>4
  <2> QED
    BY <1>3, <1>4, <2>1 DEF BytesToProof
<1>5. CASE Len(b) = P * H
  <2>1. ASSUME NEW i \in 1 .. P PROVE hash(i).ok /\ hash(i).val = Part(b, i, H)
    <3>1. Part(b, i, H) \in Seq(Bytes) /\ Part(e, i, 2 * H) = EncodeToString(Part(b, i, H))
      BY <1>5, PartOfBytes
    <3>2. hash(i) = Ok(Part(b, i, H))
      BY <3>1, DecodeBytesOfEncode
    <3> QED
      BY <3>2 DEF Ok
  <2>2. Len(HexBytes(b)) = 2 * (P * H) + 2
    BY <1>1, <1>5
  <2>3. [i \in 1 .. P |-> hash(i).val] = [i \in 1 .. P |-> Part(b, i, H)]
    BY <2>1
  <2> HIDE DEF hash
  <2> QED
    BY <1>3, <1>5, <2>1, <2>2, <2>3 DEF BytesToProof
<1> QED
  BY <1>4, <1>5

(* The words of the hashes in a row are the bytes they were taken from.    *)
LEMMA WordsOfProof ==
  ASSUME NEW b \in Seq(Bytes), BytesToProof(b).ok
  PROVE  Words(BytesToProof(b).val) = b
<1> DEFINE P == ProofLength
           H == HashLength
           p == BytesToProof(b).val
<1>0. P \in Nat /\ H \in Nat \ {0} /\ P * H \in Nat
  BY RangesAssumption, WidthAssumption
<1>1. Len(b) = P * H /\ p = [i \in 1 .. P |-> Part(b, i, H)]
  BY DEF BytesToProof, Ok, Error
<1>2. ASSUME NEW k \in 1 .. P * H
      PROVE  p[1 + ((k - 1) \div H)][1 + ((k - 1) % H)] = b[k]
  <2>0. k - 1 \in Nat
    BY <1>0
  <2>1. PICK q \in Nat : q = (k - 1) \div H
    <3> HIDE DEF H
    <3>1. (k - 1) \div H \in Nat
      BY <1>0, <2>0
    <3> QED
      BY <3>1
  <2>2. PICK r \in 0 .. H - 1 : r = (k - 1) % H
    BY <1>0, <2>0
  <2>3. H * q + r = k - 1
    BY <1>0, <2>1, <2>2
  <2>4. q < P
    <3> SUFFICES ASSUME q >= P PROVE FALSE
      BY <1>0
    <3>1. PICK c \in Nat : q = P + c
      <4>1. q - P \in Nat /\ q = P + (q - P)
        BY <1>0
      <4> QED
        BY <4>1
    <3>2. H * q = P * H + H * c /\ H * c \in Nat
      BY <1>0, <3>1
    <3> QED
      BY <1>0, <2>3, <3>2
  <2>5. 1 + q \in 1 .. P /\ 1 + r \in 1 .. H /\ (1 + q) - 1 = q
    BY <1>0, <2>4
  <2>6. p[1 + q] = Part(b, 1 + q, H)
    BY <1>1, <2>5, Zenon
  <2>7. Part(b, 1 + q, H)[1 + r] = b[q * H + (1 + r)]
    BY <1>1, <2>5, PartOfBytes
  <2>8. q * H + (1 + r) = k
    BY <1>0, <2>3
  <2> QED
    BY <2>1, <2>2, <2>6, <2>7, <2>8, Zenon
<1>3. Words(p) = [k \in 1 .. P * H |-> b[k]]
  BY <1>2, Zenon DEF Words
<1>4. b = [k \in 1 .. P * H |-> b[k]]
  BY <1>1
<1> QED
  BY <1>3, <1>4

---------------------------------------------------------------------------
Received == [rollup : Rollups, last : UInts, new : UInts, root : Roots, exit : Exits,
             proof : Seq(Bytes)]

Mem == [gas : Nat, price : Nat, data : Seq(Bytes)]

(* What is known of the value at each stage.                               *)
WireInv ==
  /\ limit \in Limits
  /\ stage \in {"signed", "posted", "refused", "received", "unbuilt", "built",
                "stored", "loaded"}
  /\ stage \in {"signed", "posted"} => tx \in Txs
  /\ stage = "posted" => /\ text.rollup \in Rollups
                         /\ text.root \in Roots /\ text.exit \in Exits
                         /\ text.last \in Seq(Nat) /\ text.new \in Seq(Nat)
                         /\ text.proof \in Seq(Nat)
  /\ stage \in {"received", "built", "unbuilt"} => got \in Received
  /\ CallCarriesProof
  /\ stage = "built" => data \in Seq(Bytes)
  /\ stage = "stored" => \E m \in Mem : cols = Columns(m) /\ built = EthTx(m)
  /\ stage = "loaded" => mem \in Mem /\ mem.price \in UInts

(* Every spelling is a text.                                               *)
LEMMA SpellingsAreTexts == Spellings \subseteq Seq(Nat)
<1>1. \A n \in Nat : DigitStrings(n) \subseteq Seq(Nat)
  <2> SUFFICES ASSUME NEW n \in Nat, NEW k \in 0 .. n, NEW f \in [1 .. k -> 0 .. Base - 1]
               PROVE  f \in Seq(Nat)
    BY DEF DigitStrings
  <2>1. k \in Nat /\ f \in [1 .. k -> Nat]
    BY BaseAssumption
  <2> QED
    BY <2>1, IsASequence
<1>2. DigitStrings(2) \subseteq Seq(Nat) /\ DigitStrings(MaxDigits) \subseteq Seq(Nat)
  BY <1>1, RangesAssumption
<1>3. Prefix \in Seq(Nat) /\ <<>> \in Seq(Nat) /\ <<Other>> \in Seq(Nat)
  BY BaseAssumption DEF Prefix, X, Other
<1>4. \A s, t \in Seq(Nat) : s \o t \in Seq(Nat)
  BY ConcatProperties
<1>5. ASSUME NEW p \in {<<>>, Prefix, Prefix \o Prefix}, NEW d \in DigitStrings(MaxDigits)
      PROVE  p \o d \in Seq(Nat)
  <2>1. p \in Seq(Nat)
    BY <1>3, <1>4, Zenon
  <2> QED
    BY <1>2, <1>4, <2>1, Zenon
<1>6. ASSUME NEW d \in DigitStrings(2) PROVE d \o <<Other>> \in Seq(Nat)
  BY <1>2, <1>3, <1>4, Zenon
<1>7. ASSUME NEW s \in Spellings PROVE s \in Seq(Nat)
  <2>1. \/ \E p \in {<<>>, Prefix, Prefix \o Prefix}, d \in DigitStrings(MaxDigits) : s = p \o d
        \/ \E d \in DigitStrings(2) : s = d \o <<Other>>
    BY DEF Spellings
  <2> QED
    BY <1>5, <1>6, <2>1, Zenon
<1> QED
  BY <1>7

LEMMA InitWire == Init => WireInv
BY DEF Init, WireInv, CallCarriesProof

(* The client posts a text; the roots are not respelled.                   *)
LEMMA PostWire == WireInv /\ Post => WireInv'
<1> SUFFICES ASSUME WireInv, Post PROVE WireInv'
  OBVIOUS
<1>1. /\ tx \in Txs /\ stage = "signed" /\ stage' = "posted" /\ tx' = tx
      /\ limit' \in Limits
  BY DEF WireInv, Post
<1>2. /\ tx.last \in UInts /\ tx.new \in UInts /\ tx.root \in Roots /\ tx.exit \in Exits
      /\ tx.rollup \in Rollups /\ tx.proof \in Seq(Bytes)
  BY <1>1, RangesAssumption DEF Txs
<1>3. /\ HexUint(tx.last) \in Seq(Nat) /\ HexUint(tx.new) \in Seq(Nat)
      /\ HexBytes(tx.proof) \in Seq(Nat)
  <2>1. Numeral(tx.last) \in Seq(Nat) /\ Numeral(tx.new) \in Seq(Nat)
    BY <1>2, NumeralIsDigits, BaseAssumption DEF Digits
  <2>2. Prefix \in Seq(Nat)
    BY BaseAssumption DEF Prefix, X
  <2>3. \A s, t \in Seq(Nat) : s \o t \in Seq(Nat)
    BY ConcatProperties
  <2>4. HexUint(tx.last) \in Seq(Nat) /\ HexUint(tx.new) \in Seq(Nat)
    BY <2>1, <2>2, <2>3, Zenon DEF HexUint
  <2> QED
    BY <1>2, <2>4, TrimHex
<1> DEFINE Typed(x) == /\ x.rollup \in Rollups /\ x.root \in Roots /\ x.exit \in Exits
                       /\ x.last \in Seq(Nat) /\ x.new \in Seq(Nat) /\ x.proof \in Seq(Nat)
<1>4. Typed(Marshal(tx))
  BY <1>2, <1>3 DEF Marshal
<1>5. ASSUME NEW f \in {"last", "new", "proof"}, NEW s \in Spellings
      PROVE  Typed([Marshal(tx) EXCEPT ![f] = s])
  <2> DEFINE m == Marshal(tx)
             x == [m EXCEPT ![f] = s]
  <2>1. s \in Seq(Nat)
    BY SpellingsAreTexts
  <2>2. DOMAIN m = {"rollup", "last", "new", "root", "exit", "proof"}
    BY DEF Marshal
  <2> HIDE DEF m
  <2>3. \A g \in {"rollup", "last", "new", "root", "exit", "proof"} : x[g] = IF g = f THEN s ELSE m[g]
    BY <2>2
  <2>4. /\ x.rollup = m.rollup /\ x.root = m.root /\ x.exit = m.exit /\ x.last \in {m.last, s} /\ x.new \in {m.new, s}
        /\ x.proof \in {m.proof, s}
    BY <2>3
  <2>5. Typed(m)
    BY <1>4 DEF m
  <2> HIDE DEF x
  <2>6. Typed(x)
    BY <2>1, <2>4, <2>5
  <2> QED
    BY <2>6 DEF x, m
<1>6. Typed(text')
  BY <1>4, <1>5 DEF Post
<1> QED
  BY <1>1, <1>6 DEF WireInv, CallCarriesProof

(* What the decoders of the arguments return are values of their types.    *)
LEMMA DecodeWire == WireInv /\ Decode => WireInv'
<1> SUFFICES ASSUME WireInv, Decode PROVE WireInv'
  OBVIOUS
<1> DEFINE last == ParseUint(text.last)
           new == ParseUint(text.new)
           proof == DecodeBytes(text.proof)
<1>1. /\ text.rollup \in Rollups /\ text.root \in Roots /\ text.exit \in Exits
      /\ text.proof \in Seq(Nat) /\ limit' \in Limits
  BY DEF WireInv, Decode
<1>2. (last.ok => last.val \in UInts) /\ (new.ok => new.val \in UInts)
  BY DEF ParseUint, Ok, Error
<1>3. proof.ok => proof.val \in Seq(Bytes)
  <2> DEFINE str == TrimPrefix(text.proof)
             full == IF Len(str) % 2 = 0 THEN str ELSE <<0>> \o str
  <2>1. str \in Seq(Nat)
    <3>1. ASSUME Len(text.proof) >= 2
          PROVE  SubSeq(text.proof, 3, Len(text.proof)) \in Seq(Nat)
      <4>1. \A i \in 3 .. Len(text.proof) : text.proof[i] \in Nat
        BY <1>1
      <4> QED
        BY <1>1, <4>1, SubSeqProperties
    <3> QED
      BY <1>1, <3>1 DEF TrimPrefix
  <2>2. <<0>> \o str \in Seq(Nat)
    <3>1. <<0>> \in Seq(Nat)
      OBVIOUS
    <3> QED
      BY <2>1, <3>1, ConcatProperties
  <2>3. full \in Seq(Nat)
    BY <2>1, <2>2
  <2>4. proof = DecodeString(full)
    BY DEF DecodeBytes
  <2> HIDE DEF full
  <2> QED
    BY <2>3, <2>4, DecodeIsBytes
<1> HIDE DEF last, new, proof
<1>4. CASE last.ok /\ new.ok /\ proof.ok
  <2>1. /\ stage' = "received"
        /\ got' = [rollup |-> text.rollup, last |-> last.val, new |-> new.val,
                   root |-> text.root, exit |-> text.exit, proof |-> proof.val]
    BY <1>4 DEF Decode, last, new, proof
  <2>2. got' \in Received
    BY <1>1, <1>2, <1>3, <1>4, <2>1 DEF Received
  <2> QED
    BY <1>1, <2>1, <2>2 DEF WireInv, CallCarriesProof
<1>5. CASE ~(last.ok /\ new.ok /\ proof.ok)
  <2>1. stage' = "refused"
    BY <1>5 DEF Decode, last, new, proof
  <2> QED
    BY <1>1, <2>1 DEF WireInv, CallCarriesProof
<1> QED
  BY <1>4, <1>5

(* The call carries the proof: the text and the checks on it give what     *)
(* BytesToProof copies, and refuse what it refuses.                        *)
LEMMA BuildWire == WireInv /\ Build => WireInv'
<1> SUFFICES ASSUME WireInv, Build PROVE WireInv'
  OBVIOUS
<1> DEFINE p == BytesToProof(got.proof)
           d == Word(got.rollup) \o Word(got.last) \o Word(got.new) \o got.exit \o got.root
                  \o got.proof
<1>1. got \in Received /\ got' = got /\ limit' \in Limits
  BY DEF WireInv, Build
<1>2. ConvertProof(HexBytes(got.proof)) = p
  BY <1>1, ConvertOfHex DEF Received
<1>3. p.ok => Words(p.val) = got.proof
  BY <1>1, WordsOfProof DEF Received
<1>4. BuildTxData(got) = IF p.ok THEN Ok(d) ELSE Error
  BY <1>2, <1>3 DEF BuildTxData
<1>5. d \in Seq(Bytes)
  <2>1. HashLength \in Nat /\ \A w \in Hashes : w \in Seq(Bytes)
    BY WidthAssumption, IsASequence DEF Hashes
  <2>2. /\ Word(got.rollup) \in Seq(Bytes) /\ Word(got.last) \in Seq(Bytes) /\ Word(got.new) \in Seq(Bytes)
        /\ got.exit \in Seq(Bytes) /\ got.root \in Seq(Bytes) /\ got.proof \in Seq(Bytes)
    BY <1>1, <2>1, WordExists, RangesAssumption DEF Received
  <2>3. \A s, t \in Seq(Bytes) : s \o t \in Seq(Bytes)
    BY ConcatProperties
  <2> QED
    BY <2>2, <2>3, Zenon
<1> HIDE DEF d
<1>6. CASE p.ok
  <2>1. BuildTxData(got).ok /\ BuildTxData(got).val = d
    BY <1>4, <1>6 DEF Ok
  <2>2. stage' = "built" /\ data' = d
    BY <2>1 DEF Build
  <2>3. CallCarriesProof'
    BY <1>1, <1>6, <2>2 DEF CallCarriesProof, d
  <2> QED
    BY <1>1, <1>5, <2>2, <2>3 DEF WireInv
<1>7. CASE ~p.ok
  <2>1. stage' = "unbuilt"
    BY <1>4, <1>7 DEF Build, Error
  <2>2. CallCarriesProof'
    BY <1>1, <1>7, <2>1 DEF CallCarriesProof
  <2> QED
    BY <1>1, <2>1, <2>2 DEF WireInv
<1> QED
  BY <1>6, <1>7

(* suggestedGasPrice is a natural number, and within the limit if there is *)
(* one.                                                                    *)
LEMMA PriceInLimit ==
  ASSUME NEW s \in Suggestions, limit \in Limits
  PROVE  /\ SuggestedGasPrice(s) \in Nat
         /\ limit > 0 => SuggestedGasPrice(s) \in UInts
<1> DEFINE adjusted == (s * MarginNum) \div MarginDen
<1>1. s \in Nat /\ MarginNum \in Nat /\ MarginDen \in Nat \ {0} /\ limit \in UInts
  BY RangesAssumption
<1>2. s * MarginNum \in Nat
  BY <1>1
<1>3. adjusted \in Nat
  BY <1>1, <1>2
<1> HIDE DEF adjusted
<1>4. SuggestedGasPrice(s) = IF limit > 0 /\ adjusted > limit THEN limit ELSE adjusted
  BY DEF SuggestedGasPrice, M!LimitedGasPrice, adjusted
<1> QED
  BY <1>1, <1>3, <1>4, WidthFacts DEF UInts

LEMMA AddWire == WireInv /\ Add => WireInv'
<1> SUFFICES ASSUME WireInv, Add PROVE WireInv'
  OBVIOUS
<1>1. data \in Seq(Bytes) /\ stage' = "stored" /\ limit \in Limits /\ limit' = limit
  BY DEF WireInv, Add
<1>2. PICK s \in Suggestions, g \in Gases :
        LET m == [gas |-> g, price |-> SuggestedGasPrice(s), data |-> data]
        IN  cols' = Columns(m) /\ built' = EthTx(m)
  BY DEF Add
<1>3. g \in Nat /\ SuggestedGasPrice(s) \in Nat
  BY <1>1, PriceInLimit, RangesAssumption DEF UInts
<1>4. \E m \in Mem : cols' = Columns(m) /\ built' = EthTx(m)
  BY <1>1, <1>2, <1>3 DEF Mem
<1> QED
  BY <1>1, <1>4 DEF WireInv, CallCarriesProof, Columns, EthTx

(* A row that was stored can be loaded; its price is the low bits.         *)
LEMMA ScanOfColumns ==
  ASSUME NEW m \in Mem
  PROVE  scanMtx(Columns(m)) = Ok([gas |-> m.gas, price |-> m.price % 2^Width, data |-> m.data])
<1>1. m.data \in Seq(Bytes)
  BY DEF Mem
<1>2. DecodeString(EncodeToString(m.data)) = Ok(m.data)
  BY <1>1, DecodeOfEncode
<1>3. /\ Columns(m).gas = m.gas /\ Columns(m).price = m.price % 2^Width
      /\ DecodeString(Columns(m).data) = Ok(m.data)
  BY <1>2 DEF Columns
<1>4. Ok(m.data).ok /\ Ok(m.data).val = m.data
  BY DEF Ok
<1> QED
  BY <1>3, <1>4, Zenon DEF scanMtx

LEMMA LoadWire == WireInv /\ Load => WireInv'
<1> SUFFICES ASSUME WireInv, Load PROVE WireInv'
  OBVIOUS
<1>1. PICK m \in Mem : cols = Columns(m)
  BY DEF WireInv, Load
<1>2. mem' = [gas |-> m.gas, price |-> m.price % 2^Width, data |-> m.data]
  BY <1>1, ScanOfColumns DEF Load, Ok
<1>3. m.price % 2^Width \in UInts /\ m.price % 2^Width \in Nat
  BY WidthFacts DEF UInts, Mem
<1>4. mem' \in Mem /\ mem'.price \in UInts
  BY <1>2, <1>3 DEF Mem
<1>5. stage' = "loaded" /\ limit' \in Limits
  BY DEF Load, WireInv
<1> QED
  BY <1>4, <1>5 DEF WireInv, CallCarriesProof

(* The record of Review, field by field.                                   *)
LEMMA ReviewedRow ==
  ASSUME mem \in Mem, limit \in Limits, Review
  PROVE  \E s \in Suggestions, g \in Gases, m \in Mem :
           /\ m.price \in {mem.price, SuggestedGasPrice(s)}
           /\ m.data = mem.data
           /\ cols' = Columns(m) /\ built' = EthTx(m)
<1>1. PICK s \in Suggestions, g \in Gases :
        LET p == SuggestedGasPrice(s)
            m == [mem EXCEPT !.price = IF p > @ THEN p ELSE @,
                             !.gas = IF g > @ THEN g ELSE @]
        IN  cols' = Columns(m) /\ built' = EthTx(m)
  BY DEF Review
<1> DEFINE p == SuggestedGasPrice(s)
           price == IF p > mem.price THEN p ELSE mem.price
           gas == IF g > mem.gas THEN g ELSE mem.gas
           m == [mem EXCEPT !.price = price, !.gas = gas]
<1>2. cols' = Columns(m) /\ built' = EthTx(m)
  BY <1>1
<1>3. p \in Nat /\ g \in Nat
  BY PriceInLimit, RangesAssumption DEF UInts
<1>4. price \in Nat /\ price \in {mem.price, p} /\ gas \in Nat
  BY <1>3 DEF Mem
<1> HIDE DEF price, gas, p
<1>5. m \in Mem /\ m.price = price /\ m.data = mem.data
  BY <1>4 DEF Mem
<1> HIDE DEF m
<1> QED
  BY <1>2, <1>4, <1>5 DEF p

LEMMA ReviewWire == WireInv /\ Review => WireInv'
<1> SUFFICES ASSUME WireInv, Review PROVE WireInv'
  OBVIOUS
<1>1. mem \in Mem /\ stage' = "stored" /\ limit \in Limits /\ limit' = limit
  BY DEF WireInv, Review
<1>2. \E m \in Mem : cols' = Columns(m) /\ built' = EthTx(m)
  BY <1>1, ReviewedRow
<1> QED
  BY <1>1, <1>2 DEF WireInv, CallCarriesProof, Columns, EthTx

(* The inductive invariant.                                                *)
THEOREM WireInvariant == Spec => []WireInv
<1>1. WireInv /\ [Next]_vars => WireInv'
  <2> SUFFICES ASSUME WireInv, [Next]_vars PROVE WireInv'
    OBVIOUS
  <2>1. CASE UNCHANGED vars
    BY <2>1 DEF WireInv, CallCarriesProof, Columns, EthTx, vars
  <2> QED
    BY <2>1, PostWire, DecodeWire, BuildWire, AddWire, LoadWire, ReviewWire DEF Next
<1> QED
  BY <1>1, InitWire, PTL DEF Spec

(* What the server decodes and stores are values of their types.           *)
THEOREM WireTypeCorrect == Spec => []TypeOK
<1>1. WireInv => TypeOK
  <2> SUFFICES ASSUME WireInv PROVE TypeOK
    OBVIOUS
  <2>1. ASSUME stage = "stored" PROVE cols.price \in UInts /\ IsDigits(cols.data)
    <3>1. PICK m \in Mem : cols = Columns(m)
      BY <2>1 DEF WireInv
    <3>2. cols.price = m.price % 2^Width /\ cols.data = EncodeToString(m.data)
      BY <3>1 DEF Columns
    <3>3. m.price \in Nat /\ m.data \in Seq(Bytes)
      BY DEF Mem
    <3>4. EncodeToString(m.data) \in Seq(Digits)
      BY <3>3, EncodeDigits
    <3>5. \A d \in Digits : d < Base
      BY BaseAssumption DEF Digits
    <3>6. IsDigits(cols.data)
      BY <3>2, <3>4, <3>5 DEF IsDigits
    <3>7. cols.price \in UInts
      BY <3>2, <3>3, WidthFacts DEF UInts
    <3> QED
      BY <3>6, <3>7
  <2> QED
    BY <2>1 DEF WireInv, TypeOK, Received
<1> QED
  BY <1>1, WireInvariant, PTL

(* BuildTrustedVerifyBatchesTxData gives the contract the bytes of the     *)
(* proof the server decoded, and fails for exactly the other lengths.      *)
THEOREM ProofIsCarried == Spec => []CallCarriesProof
BY WireInvariant, PTL DEF WireInv

(* A gas price that is stored fits its column when there is a limit.       *)
PricesFit == stage = "stored" /\ limit > 0 => built.price \in UInts

LEMMA PricesStayFit == WireInv /\ PricesFit /\ [Next]_vars => PricesFit'
<1> SUFFICES ASSUME WireInv, PricesFit, [Next]_vars PROVE PricesFit'
  OBVIOUS
<1>1. CASE Add
  <2>1. PICK s \in Suggestions, g \in Gases :
          built' = EthTx([gas |-> g, price |-> SuggestedGasPrice(s), data |-> data])
    BY <1>1 DEF Add
  <2>2. built'.price = SuggestedGasPrice(s)
    BY <2>1 DEF EthTx
  <2>3. limit \in Limits /\ limit' = limit
    BY <1>1 DEF WireInv, Add
  <2> QED
    BY <2>2, <2>3, PriceInLimit DEF PricesFit
<1>2. CASE Review
  <2>1. mem \in Mem /\ mem.price \in UInts /\ limit \in Limits /\ limit' = limit
    BY <1>2 DEF WireInv, Review
  <2>2. PICK s \in Suggestions, m \in Mem :
          m.price \in {mem.price, SuggestedGasPrice(s)} /\ built' = EthTx(m)
    BY <1>2, <2>1, ReviewedRow
  <2>3. built'.price = m.price
    BY <2>2 DEF EthTx
  <2> QED
    BY <2>1, <2>2, <2>3, PriceInLimit DEF PricesFit
<1>3. CASE Post \/ Decode \/ Build \/ Load
  BY <1>3 DEF Post, Decode, Build, Load, PricesFit
<1>4. CASE UNCHANGED vars
  BY <1>4 DEF vars, PricesFit
<1> QED
  BY <1>1, <1>2, <1>3, <1>4 DEF Next

(* With and without a gas price limit: a stored row can be read, and a     *)
(* restart goes on with the Ethereum transaction the process had when it   *)
(* stored the row if and only if its price fits the column; with a limit   *)
(* it does.                                                                *)
THEOREM ReloadKeepsTx == Spec => []ReloadRebuildsTx
<1>1. WireInv /\ PricesFit => ReloadRebuildsTx
  <2> SUFFICES ASSUME WireInv, PricesFit, stage = "stored"
               PROVE  /\ scanMtx(cols).ok
                      /\ EthTx(scanMtx(cols).val) = built <=> built.price \in UInts
                      /\ limit > 0 => built.price \in UInts
    BY DEF ReloadRebuildsTx
  <2>1. PICK m \in Mem : cols = Columns(m) /\ built = EthTx(m)
    BY DEF WireInv
  <2> DEFINE low == [gas |-> m.gas, price |-> m.price % 2^Width, data |-> m.data]
  <2>2. scanMtx(cols) = Ok(low)
    BY <2>1, ScanOfColumns
  <2>3. built.price = m.price /\ m.price \in Nat
    BY <2>1 DEF EthTx, Mem
  <2>4. m.price % 2^Width = m.price <=> m.price \in UInts
    BY <2>3, WidthFacts DEF UInts
  <2>5. EthTx(low) = EthTx(m) <=> m.price % 2^Width = m.price
    BY DEF EthTx
  <2> HIDE DEF low
  <2>6. scanMtx(cols).ok /\ scanMtx(cols).val = low
    BY <2>2 DEF Ok
  <2>7. limit > 0 => built.price \in UInts
    BY DEF PricesFit
  <2> QED
    BY <2>1, <2>3, <2>4, <2>5, <2>6, <2>7, Zenon
<1>2. Init => PricesFit
  BY DEF Init, PricesFit
<1>3. WireInv /\ PricesFit /\ [Next]_vars => PricesFit'
  BY PricesStayFit
<1> QED
  BY <1>1, <1>2, <1>3, WireInvariant, PTL DEF Spec

---------------------------------------------------------------------------
(* The bytes of Tx.Hash.                                                   *)

(* A sequence p with the elements of a two-element head and of tail.       *)
Pair(x, y, t, p) ==
  /\ p \in Seq(Nat) /\ Len(p) = 2 + Len(t) /\ p[1] = x /\ p[2] = y
  /\ \A i \in 1 .. Len(t) : p[2 + i] = t[i]

LEMMA PairOf ==
  ASSUME NEW x \in Nat, NEW y \in Nat, NEW t \in Seq(Nat)
  PROVE  Pair(x, y, t, <<x, y>> \o t)
<1>1. <<x, y>> \in Seq(Nat) /\ Len(<<x, y>>) = 2
  OBVIOUS
<1>2. ConcatOf(<<x, y>>, t, Nat)
  BY <1>1, ConcatProperties DEF ConcatOf
<1> QED
  BY <1>1, <1>2 DEF Pair, ConcatOf

(* Where the parts of the bytes are: a is the length of the first numeral, *)
(* b of the second, k of the roots, n of the proof.                        *)
Shape(h, A, B, R, E) ==
  LET a == Len(A) b == Len(B) k == Len(R) n == Len(E) IN
  /\ Len(h) = a + b + k + n + 6
  /\ \A i \in 1 .. a : h[2 + i] = A[i]
  /\ h[a + 3] = 0 /\ h[a + 4] = X
  /\ \A i \in 1 .. b : h[a + 4 + i] = B[i]
  /\ \A i \in 1 .. k : h[a + b + 4 + i] = R[i]
  /\ h[a + b + k + 6] = X
  /\ \A i \in 1 .. n : h[a + b + k + 6 + i] = E[i]

LEMMA ShapeOf ==
  ASSUME NEW A \in Seq(Digits), NEW B \in Seq(Digits), NEW E \in Seq(Digits),
         NEW R \in Seq(Bytes)
  PROVE  Shape((Prefix \o A) \o (Prefix \o B) \o R \o (Prefix \o E), A, B, R, E)
<1> DEFINE p == Prefix \o A
           q == Prefix \o B
           w == Prefix \o E
           pq == p \o q
           pqr == pq \o R
           h == pqr \o w
<1>1. A \in Seq(Nat) /\ B \in Seq(Nat) /\ E \in Seq(Nat)
  BY BaseAssumption DEF Digits
<1>2. X \in Nat /\ R \in Seq(Nat)
  BY BaseAssumption DEF X, Bytes
<1>3. Pair(0, X, A, p) /\ Pair(0, X, B, q) /\ Pair(0, X, E, w)
  <2>1. 0 \in Nat
    OBVIOUS
  <2>2. \A t \in Seq(Nat) : Pair(0, X, t, <<0, X>> \o t)
    BY <1>2, <2>1, PairOf, Zenon
  <2> QED
    BY <1>1, <2>2, Zenon DEF Prefix
<1> HIDE DEF p, q, w
<1>4. ConcatOf(p, q, Nat)
  <2>1. p \in Seq(Nat) /\ q \in Seq(Nat)
    BY <1>3 DEF Pair
  <2> QED
    BY <2>1, ConcatProperties DEF ConcatOf
<1>5. ConcatOf(pq, R, Nat)
  <2>1. pq \in Seq(Nat) /\ R \in Seq(Nat)
    BY <1>2, <1>4 DEF ConcatOf
  <2> HIDE DEF pq
  <2> QED
    BY <2>1, ConcatProperties DEF ConcatOf
<1>6. ConcatOf(pqr, w, Nat)
  <2>1. pqr \in Seq(Nat) /\ w \in Seq(Nat)
    BY <1>3, <1>5 DEF ConcatOf, Pair
  <2> HIDE DEF pqr
  <2> QED
    BY <2>1, ConcatProperties DEF ConcatOf
<1> DEFINE a == Len(A)
           b == Len(B)
           k == Len(R)
           n == Len(E)
<1>7. a \in Nat /\ b \in Nat /\ k \in Nat /\ n \in Nat
  OBVIOUS
<1>8. /\ Len(p) = 2 + a /\ Len(q) = 2 + b /\ Len(w) = 2 + n
      /\ \A i \in 1 .. a : p[2 + i] = A[i]
      /\ q[1] = 0 /\ q[2] = X /\ \A i \in 1 .. b : q[2 + i] = B[i]
      /\ w[2] = X /\ \A i \in 1 .. n : w[2 + i] = E[i]
  BY <1>3 DEF Pair
<1>9. /\ Len(pq) = a + b + 4
      /\ \A i \in 1 .. a + 2 : pq[i] = p[i]
      /\ \A i \in 1 .. b + 2 : pq[a + 2 + i] = q[i]
  <2>1. /\ Len(pq) = (2 + a) + (2 + b)
        /\ \A i \in 1 .. (2 + a) + (2 + b) :
             pq[i] = IF i <= 2 + a THEN p[i] ELSE q[i - (2 + a)]
    BY <1>4, <1>8, Zenon DEF ConcatOf
  <2> HIDE DEF pq, a, b
  <2>2. ASSUME NEW i \in 1 .. b + 2 PROVE pq[a + 2 + i] = q[i]
    <3>1. /\ a + 2 + i \in 1 .. (2 + a) + (2 + b) /\ ~(a + 2 + i <= 2 + a)
          /\ (a + 2 + i) - (2 + a) = i
      BY <1>7
    <3> QED
      BY <2>1, <3>1, Zenon
  <2>3. ASSUME NEW i \in 1 .. a + 2 PROVE pq[i] = p[i]
    <3>1. i \in 1 .. (2 + a) + (2 + b) /\ i <= 2 + a
      BY <1>7
    <3> QED
      BY <2>1, <3>1, Zenon
  <2> QED
    BY <1>7, <2>1, <2>2, <2>3
<1> HIDE DEF pq, k
<1>10. /\ Len(pqr) = a + b + k + 4
       /\ \A i \in 1 .. a + b + 4 : pqr[i] = pq[i]
       /\ \A i \in 1 .. k : pqr[a + b + 4 + i] = R[i]
  <2>1. /\ Len(pqr) = (a + b + 4) + k
        /\ \A i \in 1 .. (a + b + 4) + k :
             pqr[i] = IF i <= a + b + 4 THEN pq[i] ELSE R[i - (a + b + 4)]
    BY <1>5, <1>9, Zenon DEF ConcatOf, k
  <2> HIDE DEF pqr, a, b
  <2>2. ASSUME NEW i \in 1 .. k PROVE pqr[a + b + 4 + i] = R[i]
    <3>1. /\ a + b + 4 + i \in 1 .. (a + b + 4) + k /\ ~(a + b + 4 + i <= a + b + 4)
          /\ (a + b + 4 + i) - (a + b + 4) = i
      BY <1>7
    <3> QED
      BY <2>1, <3>1, Zenon
  <2>3. ASSUME NEW i \in 1 .. a + b + 4 PROVE pqr[i] = pq[i]
    <3>1. i \in 1 .. (a + b + 4) + k /\ i <= a + b + 4
      BY <1>7
    <3> QED
      BY <2>1, <3>1, Zenon
  <2> QED
    BY <1>7, <2>1, <2>2, <2>3
<1> HIDE DEF pqr
<1>11. /\ Len(h) = a + b + k + n + 6
       /\ \A i \in 1 .. a + b + k + 4 : h[i] = pqr[i]
       /\ \A i \in 1 .. n + 2 : h[a + b + k + 4 + i] = w[i]
  <2>1. /\ Len(h) = (a + b + k + 4) + (2 + n)
        /\ \A i \in 1 .. (a + b + k + 4) + (2 + n) :
             h[i] = IF i <= a + b + k + 4 THEN pqr[i] ELSE w[i - (a + b + k + 4)]
    BY <1>6, <1>8, <1>10, Zenon DEF ConcatOf
  <2> HIDE DEF h, a, b, n
  <2>2. ASSUME NEW i \in 1 .. n + 2 PROVE h[a + b + k + 4 + i] = w[i]
    <3>1. /\ a + b + k + 4 + i \in 1 .. (a + b + k + 4) + (2 + n)
          /\ ~(a + b + k + 4 + i <= a + b + k + 4)
          /\ (a + b + k + 4 + i) - (a + b + k + 4) = i
      BY <1>7
    <3> QED
      BY <2>1, <3>1, Zenon
  <2>3. ASSUME NEW i \in 1 .. a + b + k + 4 PROVE h[i] = pqr[i]
    <3>1. i \in 1 .. (a + b + k + 4) + (2 + n) /\ i <= a + b + k + 4
      BY <1>7
    <3> QED
      BY <2>1, <3>1, Zenon
  <2> QED
    BY <1>7, <2>1, <2>2, <2>3
<1> HIDE DEF h, a, b, n
<1>12. \A i \in 1 .. a : h[2 + i] = A[i]
  <2> SUFFICES ASSUME NEW i \in 1 .. a PROVE h[2 + i] = A[i]
    OBVIOUS
  <2>1. 2 + i \in 1 .. a + 2 /\ 2 + i \in 1 .. a + b + 4 /\ 2 + i \in 1 .. a + b + k + 4
    BY <1>7
  <2> QED
    BY <1>8, <1>9, <1>10, <1>11, <2>1
<1>13. \A i \in 1 .. b + 2 : h[a + 2 + i] = q[i]
  <2> SUFFICES ASSUME NEW i \in 1 .. b + 2 PROVE h[a + 2 + i] = q[i]
    OBVIOUS
  <2>1. a + 2 + i \in 1 .. a + b + 4 /\ a + 2 + i \in 1 .. a + b + k + 4
    BY <1>7
  <2> QED
    BY <1>9, <1>10, <1>11, <2>1, Zenon
<1>14. h[a + 3] = 0 /\ h[a + 4] = X /\ \A i \in 1 .. b : h[a + 4 + i] = B[i]
  <2>1. a + 3 = a + 2 + 1 /\ a + 4 = a + 2 + 2 /\ 1 \in 1 .. b + 2 /\ 2 \in 1 .. b + 2
    BY <1>7
  <2>2. h[a + 3] = 0 /\ h[a + 4] = X
    BY <1>8, <1>13, <2>1, Zenon
  <2>3. ASSUME NEW i \in 1 .. b PROVE h[a + 4 + i] = B[i]
    <3>1. a + 4 + i = a + 2 + (2 + i) /\ 2 + i \in 1 .. b + 2
      BY <1>7
    <3> QED
      BY <1>8, <1>13, <3>1, Zenon
  <2> QED
    BY <2>2, <2>3
<1>15. \A i \in 1 .. k : h[a + b + 4 + i] = R[i]
  <2> SUFFICES ASSUME NEW i \in 1 .. k PROVE h[a + b + 4 + i] = R[i]
    OBVIOUS
  <2>1. a + b + 4 + i \in 1 .. a + b + k + 4
    BY <1>7
  <2> QED
    BY <1>10, <1>11, <2>1, Zenon
<1>16. h[a + b + k + 6] = X /\ \A i \in 1 .. n : h[a + b + k + 6 + i] = E[i]
  <2>1. a + b + k + 6 = a + b + k + 4 + 2 /\ 2 \in 1 .. n + 2
    BY <1>7
  <2>2. h[a + b + k + 6] = X
    BY <1>8, <1>11, <2>1, Zenon
  <2>3. ASSUME NEW i \in 1 .. n PROVE h[a + b + k + 6 + i] = E[i]
    <3>1. a + b + k + 6 + i = a + b + k + 4 + (2 + i) /\ 2 + i \in 1 .. n + 2
      BY <1>7
    <3> QED
      BY <1>8, <1>11, <3>1, Zenon
  <2> QED
    BY <2>2, <2>3
<1> QED
  BY <1>11, <1>12, <1>14, <1>15, <1>16 DEF Shape, h, pqr, pq, p, q, w, a, b, k, n

(* The first numeral ends at the second letter of a prefix and the proof   *)
(* begins after the last one, whatever the roots in between look like.     *)
LEMMA NumeralNotLonger ==
  ASSUME NEW h, NEW A \in Seq(Digits), NEW B \in Seq(Digits), NEW E \in Seq(Digits),
         NEW R \in Seq(Bytes), Shape(h, A, B, R, E),
         NEW A2 \in Seq(Digits), NEW B2 \in Seq(Digits), NEW E2 \in Seq(Digits),
         NEW R2 \in Seq(Bytes), Shape(h, A2, B2, R2, E2), Len(R) = Len(R2)
  PROVE  Len(A2) <= Len(A) /\ Len(E2) <= Len(E)
<1> DEFINE a == Len(A)
           a2 == Len(A2)
           b == Len(B)
           b2 == Len(B2)
           n == Len(E)
           n2 == Len(E2)
           k == Len(R)
<1>1. k \in Nat /\ a \in Nat /\ a2 \in Nat /\ b \in Nat /\ b2 \in Nat /\ n \in Nat /\ n2 \in Nat
  OBVIOUS
<1>2. (\A i \in 1 .. a2 : A2[i] \in Digits) /\ (\A i \in 1 .. n2 : E2[i] \in Digits)
  OBVIOUS
<1>3. h[a + 4] = X /\ h[a + b + k + 6] = X /\ Len(h) = a + b + k + n + 6
  BY DEF Shape
<1>4. /\ \A i \in 1 .. a2 : h[2 + i] = A2[i]
      /\ h[a2 + 3] = 0 /\ Len(h) = a2 + b2 + k + n2 + 6
      /\ \A i \in 1 .. n2 : h[a2 + b2 + k + 6 + i] = E2[i]
  BY DEF Shape
<1>5. X \notin Digits /\ X # 0
  BY BaseAssumption DEF X, Digits
<1> HIDE DEF a, a2, b, b2, n, n2, k
<1>6. ASSUME a2 > a PROVE FALSE
  <2>1. CASE a2 = a + 1
    <3>1. a2 + 3 = a + 4
      BY <1>1, <2>1
    <3> QED
      BY <1>3, <1>4, <1>5, <3>1, Zenon
  <2>2. CASE a2 # a + 1
    <3>1. a + 2 \in 1 .. a2 /\ 2 + (a + 2) = a + 4
      BY <1>1, <1>6, <2>2
    <3>2. h[2 + (a + 2)] = A2[a + 2] /\ A2[a + 2] \in Digits
      BY <1>2, <1>4, <3>1, Zenon
    <3> QED
      BY <1>3, <1>5, <3>1, <3>2, Zenon
  <2> QED
    BY <2>1, <2>2
<1>7. ASSUME n2 > n PROVE FALSE
  <2>1. PICK j \in 1 .. n2 : a2 + b2 + k + 6 + j = a + b + k + 6
    <3>1. n2 - n \in 1 .. n2 /\ a2 + b2 + k + 6 + (n2 - n) = a + b + k + 6
      BY <1>1, <1>3, <1>4, <1>7
    <3> QED
      BY <3>1
  <2>2. h[a2 + b2 + k + 6 + j] = E2[j] /\ E2[j] \in Digits
    BY <1>2, <1>4, Zenon
  <2> QED
    BY <1>3, <1>5, <2>1, <2>2, Zenon
<1>8. a2 <= a /\ n2 <= n
  BY <1>1, <1>6, <1>7
<1> QED
  BY <1>8 DEF a, a2, n, n2

LEMMA ShapeIsUnique ==
  ASSUME NEW h, NEW A \in Seq(Digits), NEW B \in Seq(Digits), NEW E \in Seq(Digits),
         NEW R \in Seq(Bytes), Shape(h, A, B, R, E),
         NEW A2 \in Seq(Digits), NEW B2 \in Seq(Digits), NEW E2 \in Seq(Digits),
         NEW R2 \in Seq(Bytes), Shape(h, A2, B2, R2, E2), Len(R) = Len(R2)
  PROVE  A = A2 /\ B = B2 /\ R = R2 /\ E = E2
<1>1. /\ Len(A2) <= Len(A) /\ Len(E2) <= Len(E)
      /\ Len(A) <= Len(A2) /\ Len(E) <= Len(E2)
  BY NumeralNotLonger
<1>2. Len(A) = Len(A2) /\ Len(E) = Len(E2)
  BY <1>1
<1>3. /\ Len(h) = Len(A) + Len(B) + Len(R) + Len(E) + 6
      /\ Len(h) = Len(A2) + Len(B2) + Len(R2) + Len(E2) + 6
  BY DEF Shape
<1>4. Len(B) = Len(B2)
  BY <1>2, <1>3
<1>5. \A i \in 1 .. Len(A) : A[i] = A2[i]
  BY <1>2, Zenon DEF Shape
<1>6. \A i \in 1 .. Len(B) : B[i] = B2[i]
  BY <1>2, <1>4, Zenon DEF Shape
<1>7. \A i \in 1 .. Len(E) : E[i] = E2[i]
  BY <1>2, <1>4, Zenon DEF Shape
<1>8. \A i \in 1 .. Len(R) : R[i] = R2[i]
  BY <1>2, <1>4, Zenon DEF Shape
<1> QED
  BY <1>2, <1>4, <1>5, <1>6, <1>7, <1>8, SeqEqual

(* Strings of one length are not confused when they are strung together.   *)
LEMMA ConcatIsInjective ==
  ASSUME NEW S, NEW r \in Seq(S), NEW e \in Seq(S), NEW r2 \in Seq(S), NEW e2 \in Seq(S),
         Len(r) = Len(r2), Len(e) = Len(e2), r \o e = r2 \o e2
  PROVE  r = r2 /\ e = e2
<1> DEFINE m == Len(r)
           n == Len(e)
           h == r \o e
<1>1. m \in Nat /\ n \in Nat
  OBVIOUS
<1>2. ConcatOf(r, e, S) /\ ConcatOf(r2, e2, S)
  BY ConcatProperties DEF ConcatOf
<1>3. /\ \A i \in 1 .. m + n : h[i] = IF i <= m THEN r[i] ELSE e[i - m]
      /\ \A i \in 1 .. m + n : h[i] = IF i <= m THEN r2[i] ELSE e2[i - m]
  BY <1>2 DEF ConcatOf
<1> HIDE DEF h, m, n
<1>4. ASSUME NEW i \in 1 .. m PROVE r[i] = r2[i]
  BY <1>1, <1>3
<1>5. ASSUME NEW i \in 1 .. n PROVE e[i] = e2[i]
  <2>1. m + i \in 1 .. m + n /\ ~(m + i <= m) /\ (m + i) - m = i
    BY <1>1
  <2> QED
    BY <1>3, <2>1, Zenon
<1> QED
  BY <1>4, <1>5, SeqEqual DEF m, n

(* The hashed bytes of a transaction.                                      *)
LEMMA PreimageShape ==
  ASSUME NEW t \in Txs
  PROVE  /\ t.root \in Seq(Bytes) /\ Len(t.root) = HashLength
         /\ t.exit \in Seq(Bytes) /\ Len(t.exit) = HashLength
         /\ Numeral(t.last) \in Seq(Digits) /\ Value(Numeral(t.last), Base) = t.last
         /\ Numeral(t.new) \in Seq(Digits) /\ Value(Numeral(t.new), Base) = t.new
         /\ EncodeToString(t.proof) \in Seq(Digits)
         /\ DecodeString(EncodeToString(t.proof)) = Ok(t.proof)
         /\ Shape(Preimage(t), Numeral(t.last), Numeral(t.new), t.root \o t.exit,
                  EncodeToString(t.proof))
<1>1. t.last \in UInts /\ t.new \in UInts /\ t.proof \in Seq(Bytes)
  BY RangesAssumption DEF Txs
<1> DEFINE A == Numeral(t.last)
           B == Numeral(t.new)
           E == EncodeToString(t.proof)
           r == t.root
           e == t.exit
           p == Prefix \o A
           q == Prefix \o B
           w == Prefix \o E
<1>2. r \in Seq(Bytes) /\ Len(r) = HashLength /\ e \in Seq(Bytes) /\ Len(e) = HashLength
  <2>1. r \in [1 .. HashLength -> Bytes] /\ e \in [1 .. HashLength -> Bytes]
    BY RangesAssumption DEF Txs, Hashes
  <2>2. HashLength \in Nat
    BY WidthAssumption
  <2> HIDE DEF r, e
  <2> QED
    BY <2>1, <2>2, IsASequence
<1>3. /\ A \in Seq(Digits) /\ Value(A, Base) = t.last
      /\ B \in Seq(Digits) /\ Value(B, Base) = t.new
  BY <1>1, NumeralIsDigits
<1>4. E \in Seq(Digits) /\ DecodeString(E) = Ok(t.proof)
  BY <1>1, EncodeDigits, DecodeOfEncode
<1>5. Preimage(t) = p \o q \o r \o e \o w
  BY DEF Preimage, HexUint, HexBytes
<1> HIDE DEF A, B, E, r, e
<1>6. \A s, u \in Seq(Nat) : s \o u \in Seq(Nat)
  BY ConcatProperties
<1>7. /\ p \o q \in Seq(Nat) /\ r \in Seq(Nat) /\ e \in Seq(Nat)
  <2>1. Prefix \in Seq(Nat) /\ A \in Seq(Nat) /\ B \in Seq(Nat)
    BY <1>3, BaseAssumption DEF Prefix, X, Digits
  <2>2. p \o q \in Seq(Nat)
    BY <1>6, <2>1, Zenon
  <2> HIDE DEF p, q
  <2> QED
    BY <1>2, <2>2, BaseAssumption DEF Bytes
<1>8. r \o e \in Seq(Bytes)
  BY <1>2, ConcatProperties
<1>9. (p \o q \o r) \o e = p \o q \o (r \o e)
  <2> HIDE DEF p, q, w
  <2>1. \A a, b, c \in Seq(Nat) : (a \o b) \o c = a \o (b \o c)
    BY ConcatAssociative
  <2> QED
    BY <1>7, <2>1, Zenon
<1>10. Shape(p \o q \o (r \o e) \o w, A, B, r \o e, E)
  BY <1>3, <1>4, <1>8, ShapeOf, Zenon
<1>11. Shape(Preimage(t), A, B, r \o e, E)
  BY <1>5, <1>9, <1>10, Zenon
<1> QED
  BY <1>2, <1>3, <1>4, <1>11, Zenon DEF A, B, E, r, e

(* Two transactions with the same bytes agree in every hashed field.       *)
LEMMA PreimageIsInjective ==
  ASSUME NEW t \in Txs, NEW u \in Txs, Preimage(t) = Preimage(u)
  PROVE  [t EXCEPT !.rollup = u.rollup] = u
<1> DEFINE A == Numeral(t.last)
           B == Numeral(t.new)
           E == EncodeToString(t.proof)
           R == t.root \o t.exit
           A2 == Numeral(u.last)
           B2 == Numeral(u.new)
           E2 == EncodeToString(u.proof)
           R2 == u.root \o u.exit
<1>1. /\ t.root \in Seq(Bytes) /\ Len(t.root) = HashLength
      /\ t.exit \in Seq(Bytes) /\ Len(t.exit) = HashLength
      /\ A \in Seq(Digits) /\ Value(A, Base) = t.last
      /\ B \in Seq(Digits) /\ Value(B, Base) = t.new
      /\ E \in Seq(Digits) /\ DecodeString(E) = Ok(t.proof)
      /\ Shape(Preimage(t), A, B, R, E)
  BY PreimageShape, Zenon
<1>2. /\ u.root \in Seq(Bytes) /\ Len(u.root) = HashLength
      /\ u.exit \in Seq(Bytes) /\ Len(u.exit) = HashLength
      /\ A2 \in Seq(Digits) /\ Value(A2, Base) = u.last
      /\ B2 \in Seq(Digits) /\ Value(B2, Base) = u.new
      /\ E2 \in Seq(Digits) /\ DecodeString(E2) = Ok(u.proof)
      /\ Shape(Preimage(t), A2, B2, R2, E2)
  BY PreimageShape, Zenon
<1>3. /\ R \in Seq(Bytes) /\ Len(R) = Len(t.root) + Len(t.exit)
      /\ R2 \in Seq(Bytes) /\ Len(R2) = Len(u.root) + Len(u.exit)
  BY <1>1, <1>2, ConcatProperties
<1>4. Len(R) = Len(R2)
  BY <1>1, <1>2, <1>3, Zenon
<1> HIDE DEF A, B, E, R, A2, B2, E2, R2
<1>5. A = A2 /\ B = B2 /\ R = R2 /\ E = E2
  <2> DEFINE h == Preimage(t)
  <2>1. Shape(h, A, B, R, E) /\ Shape(h, A2, B2, R2, E2)
    BY <1>1, <1>2
  <2> HIDE DEF h
  <2> QED
    BY <1>1, <1>2, <1>3, <1>4, <2>1, ShapeIsUnique
<1>6. t.root = u.root /\ t.exit = u.exit
  <2>1. t.root \o t.exit = u.root \o u.exit
    BY <1>5 DEF R, R2
  <2>2. Len(t.root) = Len(u.root) /\ Len(t.exit) = Len(u.exit)
    BY <1>1, <1>2, Zenon
  <2> DEFINE r == t.root
             e == t.exit
             r2 == u.root
             e2 == u.exit
  <2>3. r \in Seq(Bytes) /\ e \in Seq(Bytes) /\ r2 \in Seq(Bytes) /\ e2 \in Seq(Bytes)
    BY <1>1, <1>2, Zenon
  <2> HIDE DEF r, e, r2, e2
  <2>4. r = r2 /\ e = e2
    BY <2>1, <2>2, <2>3, ConcatIsInjective DEF r, e, r2, e2
  <2> QED
    BY <2>4 DEF r, e, r2, e2
<1>7. t.last = u.last /\ t.new = u.new
  BY <1>1, <1>2, <1>5, Zenon
<1>8. t.proof = u.proof
  <2>1. Ok(t.proof) = Ok(u.proof)
    BY <1>1, <1>2, <1>5, Zenon
  <2> QED
    BY <2>1 DEF Ok
<1> QED
  BY <1>6, <1>7, <1>8 DEF Txs

(* Tx.Hash binds the batch and its proof: transactions with the same       *)
(* bytes, with whatever roots and proofs, differ in the rollup at most.    *)
THEOREM FieldsAreBound == Spec => []HashBindsFields
<1>1. WireInv => HashBindsFields
  BY PreimageIsInjective DEF WireInv, HashBindsFields, PreimageOf
<1> QED
  BY <1>1, WireInvariant, PTL

---------------------------------------------------------------------------
(* The spellings of a value.                                               *)

(* After strings.TrimPrefix are the digits, if the text has any.           *)
LEMMA TrimmedNumeral ==
  ASSUME NEW s \in Seq(Nat)
  PROVE  /\ \A d \in Numerals(s) : TrimPrefix(s) = d /\ d \in Seq(Digits)
         /\ IsDigits(TrimPrefix(s)) => TrimPrefix(s) \in Numerals(s)
         /\ TrimPrefix(s) \in Seq(Nat)
<1> DEFINE n == Len(s)
           t == SubSeq(s, 3, n)
<1>1. n \in Nat /\ X = Base /\ Base \in Nat
  BY BaseAssumption DEF X
<1>2. /\ t \in Seq(Nat) /\ \A i \in 1 .. n - 2 : t[i] = s[i + 2]
      /\ n >= 2 => Len(t) = n - 2
  <2>1. \A i \in 3 .. n : s[i] \in Nat
    OBVIOUS
  <2>2. /\ t \in Seq(Nat) /\ Len(t) = IF 3 <= n THEN n - 3 + 1 ELSE 0
        /\ \A i \in 1 .. n - 3 + 1 : t[i] = s[3 + i - 1]
    BY <2>1, SubSeqProperties
  <2> HIDE DEF t, n
  <2> QED
    BY <1>1, <2>2
<1>3. n >= 2 => Len(t) = n - 2
  BY <1>2
<1>4. SubSeq(s, 1, n) = s
  BY SubSeqFull
<1>5. n >= 2 => (SubSeq(s, 1, 2) = Prefix <=> s[1] = 0 /\ s[2] = X)
  <2> SUFFICES ASSUME n >= 2 PROVE SubSeq(s, 1, 2) = Prefix <=> s[1] = 0 /\ s[2] = X
    OBVIOUS
  <2> DEFINE u == SubSeq(s, 1, 2)
  <2>1. u \in Seq(Nat) /\ Len(u) = 2 /\ u[1] = s[1] /\ u[2] = s[2]
    BY <1>1
  <2>2. Prefix \in Seq(Nat) /\ Len(Prefix) = 2 /\ Prefix[1] = 0 /\ Prefix[2] = X
    BY <1>1 DEF Prefix
  <2> HIDE DEF u
  <2>3. ASSUME u[1] = 0, u[2] = X PROVE u = Prefix
    <3>1. \A i \in 1 .. Len(u) : u[i] = Prefix[i]
      BY <2>1, <2>2, <2>3
    <3> QED
      BY <2>1, <2>2, <3>1, SeqEqual
  <2> QED
    BY <2>1, <2>2, <2>3 DEF u
<1>6. \A d \in Seq(Nat) : IsDigits(d) => d \in Seq(Digits)
  <2> SUFFICES ASSUME NEW d \in Seq(Nat), IsDigits(d) PROVE d \in Seq(Digits)
    OBVIOUS
  <2>1. \A i \in 1 .. Len(d) : d[i] \in Digits
    BY <1>1 DEF IsDigits, Digits
  <2>2. d \in [1 .. Len(d) -> Digits] /\ Len(d) \in Nat
    BY <2>1
  <2> QED
    BY <2>2, IsASequence
<1> HIDE DEF t, n
<1>7. TrimPrefix(s) \in {s, t}
  BY DEF TrimPrefix, t, n
<1>8. ASSUME NEW d \in Numerals(s) PROVE TrimPrefix(s) = d /\ d \in Seq(Digits)
  <2>1. d \in {s, t} /\ IsDigits(d) /\ s \in {d, Prefix \o d}
    BY <1>4 DEF Numerals, t, n
  <2>2. d \in Seq(Nat) /\ d \in Seq(Digits)
    BY <1>2, <1>6, <2>1
  <2>3. CASE s = d
    <3>1. ~(n >= 2 /\ SubSeq(s, 1, 2) = Prefix)
      BY <1>1, <1>5, <2>1, <2>3 DEF IsDigits, n
    <3> QED
      BY <2>2, <2>3, <3>1 DEF TrimPrefix, n
  <2>4. CASE s = Prefix \o d
    <3> DEFINE p == Prefix \o d
    <3>1. Pair(0, X, d, p)
      BY <1>1, <2>2, PairOf DEF Prefix
    <3> HIDE DEF p
    <3>2. Pair(0, X, d, s)
      BY <2>4, <3>1 DEF p
    <3>3. n = 2 + Len(d) /\ s[1] = 0 /\ s[2] = X /\ \A i \in 1 .. Len(d) : s[2 + i] = d[i]
      BY <3>2 DEF Pair, n
    <3>4. n >= 2
      BY <2>2, <3>3
    <3>5. Len(t) = Len(d) /\ \A i \in 1 .. Len(d) : t[i] = d[i]
      BY <1>2, <1>3, <2>2, <3>3, <3>4
    <3>6. t = d
      BY <1>2, <2>2, <3>5, SeqEqual
    <3> QED
      BY <1>5, <2>2, <3>3, <3>4, <3>6 DEF TrimPrefix, t, n
  <2> QED
    BY <2>1, <2>3, <2>4
<1>9. ASSUME IsDigits(TrimPrefix(s)) PROVE TrimPrefix(s) \in Numerals(s)
  <2>1. CASE n >= 2 /\ SubSeq(s, 1, 2) = Prefix
    <3>1. TrimPrefix(s) = t
      BY <2>1 DEF TrimPrefix, t, n
    <3> DEFINE p == Prefix \o t
    <3>2. Pair(0, X, t, p)
      BY <1>1, <1>2, PairOf DEF Prefix
    <3> HIDE DEF p
    <3>3. /\ p \in Seq(Nat) /\ Len(p) = 2 + Len(t) /\ p[1] = 0 /\ p[2] = X
          /\ \A i \in 1 .. Len(t) : p[2 + i] = t[i]
      BY <3>2 DEF Pair
    <3>4. Len(p) = n /\ s[1] = 0 /\ s[2] = X
      BY <1>1, <1>3, <1>5, <2>1, <3>3
    <3>5. ASSUME NEW i \in 1 .. n PROVE p[i] = s[i]
      <4>1. CASE i = 1 \/ i = 2
        BY <3>3, <3>4, <4>1
      <4>2. CASE ~(i = 1 \/ i = 2)
        <5>1. i - 2 \in 1 .. n - 2 /\ 2 + (i - 2) = i /\ (i - 2) + 2 = i
          BY <1>1, <4>2
        <5>2. i - 2 \in 1 .. Len(t)
          BY <1>3, <2>1, <5>1
        <5>3. t[i - 2] = s[i] /\ p[i] = t[i - 2]
          BY <1>2, <3>3, <5>1, <5>2
        <5> QED
          BY <5>3
      <4> QED
        BY <4>1, <4>2
    <3>6. p = s
      BY <3>3, <3>4, <3>5, SeqEqual DEF n
    <3> QED
      BY <1>9, <3>1, <3>6 DEF Numerals, p, t, n
  <2>2. CASE ~(n >= 2 /\ SubSeq(s, 1, 2) = Prefix)
    <3>1. TrimPrefix(s) = s
      BY <2>2 DEF TrimPrefix, n
    <3>2. s \in {SubSeq(s, k, Len(s)) : k \in {1, 3}}
      BY <1>4 DEF n
    <3> QED
      BY <1>9, <3>1, <3>2, Zenon DEF Numerals
  <2> QED
    BY <2>1, <2>2
<1> QED
  BY <1>2, <1>7, <1>8, <1>9

(* ArgUint64.UnmarshalText returns n for exactly the texts that denote n.  *)
LEMMA ParseIsExact ==
  ASSUME NEW s \in Seq(Nat)
  PROVE  /\ \A n \in UInts : DenotesUint(s, n) => ParseUint(s) = Ok(n)
         /\ ParseUint(s).ok => DenotesUint(s, ParseUint(s).val)
<1> DEFINE str == TrimPrefix(s)
<1>1. ASSUME NEW n \in UInts, DenotesUint(s, n) PROVE ParseUint(s) = Ok(n)
  <2>1. PICK d \in Numerals(s) : d # <<>> /\ Value(d, Base) = n
    BY <1>1 DEF DenotesUint
  <2>2. str = d /\ IsDigits(str)
    BY TrimmedNumeral DEF Numerals
  <2> HIDE DEF str
  <2> QED
    BY <2>1, <2>2 DEF ParseUint, str
<1>2. ASSUME ParseUint(s).ok PROVE DenotesUint(s, ParseUint(s).val)
  <2>1. str # <<>> /\ IsDigits(str) /\ ParseUint(s) = Ok(Value(str, Base))
    BY <1>2 DEF ParseUint, Error
  <2>2. str \in Numerals(s)
    BY <2>1, TrimmedNumeral
  <2> HIDE DEF str
  <2>3. ParseUint(s).val = Value(str, Base)
    BY <2>1 DEF Ok
  <2> QED
    BY <2>1, <2>2, <2>3 DEF DenotesUint
<1> QED
  BY <1>1, <1>2

Padded(d) == IF Len(d) % 2 = 0 THEN d ELSE <<0>> \o d

(* A first digit that is missing is a zero: the bytes denote what the      *)
(* digits denote.                                                          *)
LEMMA DecodeOfPadded ==
  ASSUME NEW d \in Seq(Digits)
  PROVE  \E v \in Seq(Bytes) : /\ DecodeString(Padded(d)) = Ok(v)
                               /\ Len(v) = (Len(d) + 1) \div 2
                               /\ Value(v, Base * Base) = Value(d, Base)
<1> DEFINE f == Padded(d)
<1>0. Base \in Nat /\ Base >= 2
  BY BaseAssumption
<1>1. \E n \in Nat : /\ f \in Seq(Digits) /\ Len(f) = 2 * n /\ n = (Len(d) + 1) \div 2
                     /\ Value(f, Base) = Value(d, Base)
  <2>1. CASE Len(d) % 2 = 0
    <3>1. f = d
      BY <2>1 DEF Padded
    <3>2. (Len(d) + 1) \div 2 \in Nat /\ Len(d) = 2 * ((Len(d) + 1) \div 2)
      BY <2>1
    <3> QED
      BY <3>1, <3>2
  <2>2. CASE Len(d) % 2 # 0
    <3> DEFINE z == <<0>>
               p == z \o d
    <3>1. f = p
      BY <2>2 DEF Padded
    <3>2. z \in Seq(Digits) /\ Len(z) = 1 /\ z[1] = 0
      BY <1>0 DEF Digits
    <3> HIDE DEF z
    <3>3. ConcatOf(z, d, Digits)
      BY <3>2, ConcatProperties DEF ConcatOf
    <3>4. /\ p \in Seq(Digits) /\ Len(p) = Len(d) + 1 /\ p[1] = 0
          /\ \A i \in 1 .. Len(d) : p[i + 1] = d[i]
      <4>1. /\ p \in Seq(Digits) /\ Len(p) = 1 + Len(d)
            /\ \A i \in 1 .. 1 + Len(d) : p[i] = IF i <= 1 THEN z[i] ELSE d[i - 1]
        BY <3>2, <3>3, Zenon DEF ConcatOf
      <4> HIDE DEF p
      <4>2. p[1] = 0
        BY <3>2, <4>1
      <4>3. ASSUME NEW i \in 1 .. Len(d) PROVE p[i + 1] = d[i]
        <5>1. i + 1 \in 1 .. 1 + Len(d) /\ ~(i + 1 <= 1) /\ (i + 1) - 1 = i
          OBVIOUS
        <5> QED
          BY <4>1, <5>1, Zenon
      <4> QED
        BY <4>1, <4>2, <4>3
    <3> HIDE DEF p
    <3>5. d \in Seq(Nat) /\ p \in Seq(Nat)
      BY <1>0, <3>4 DEF Digits
    <3>6. Value(p, Base) = Value(d, Base)
      BY <1>0, <3>4, <3>5, ValueOfPadded
    <3>7. (Len(d) + 1) \div 2 \in Nat /\ Len(d) + 1 = 2 * ((Len(d) + 1) \div 2)
      BY <2>2
    <3> QED
      BY <3>1, <3>4, <3>6, <3>7
  <2> QED
    BY <2>1, <2>2
<1> HIDE DEF f
<1>2. PICK n \in Nat : /\ f \in Seq(Digits) /\ Len(f) = 2 * n /\ n = (Len(d) + 1) \div 2
                       /\ Value(f, Base) = Value(d, Base)
  BY <1>1
<1> DEFINE v == [i \in 1 .. n |-> Base * f[2 * i - 1] + f[2 * i]]
<1>3. DecodeString(f) = Ok(v) /\ v \in Seq(Bytes) /\ Len(v) = n
  BY <1>2, DecodeDigits
<1>4. \A i \in 1 .. n : v[i] = Base * f[2 * i - 1] + f[2 * i]
  OBVIOUS
<1> HIDE DEF v
<1>5. f \in Seq(Nat) /\ v \in Seq(Nat)
  BY <1>0, <1>2, <1>3 DEF Digits, Bytes
<1>6. Value(v, Base * Base) = Value(f, Base)
  BY <1>0, <1>2, <1>3, <1>4, <1>5, ValueOfPairs
<1> QED
  BY <1>2, <1>3, <1>6 DEF f

(* ArgBytes.UnmarshalText returns b for exactly the texts that denote b.   *)
LEMMA DecodeIsExact ==
  ASSUME NEW s \in Seq(Nat)
  PROVE  /\ \A b \in Seq(Bytes) : DenotesBytes(s, b) => DecodeBytes(s) = Ok(b)
         /\ DecodeBytes(s).ok => DenotesBytes(s, DecodeBytes(s).val)
<1> DEFINE str == TrimPrefix(s)
<1>0. str \in Seq(Nat) /\ DecodeBytes(s) = DecodeString(Padded(str))
  BY TrimmedNumeral DEF DecodeBytes, Padded
<1>1. ASSUME NEW b \in Seq(Bytes), DenotesBytes(s, b) PROVE DecodeBytes(s) = Ok(b)
  <2>1. PICK d \in Numerals(s) : /\ Len(b) = (Len(d) + 1) \div 2
                                 /\ Value(d, Base) = Value(b, Base * Base)
    BY <1>1 DEF DenotesBytes
  <2>2. str = d /\ d \in Seq(Digits)
    BY TrimmedNumeral
  <2>3. PICK v \in Seq(Bytes) : /\ DecodeString(Padded(d)) = Ok(v)
                                /\ Len(v) = (Len(d) + 1) \div 2
                                /\ Value(v, Base * Base) = Value(d, Base)
    BY <2>2, DecodeOfPadded
  <2>4. Base * Base \in Nat /\ Len(v) = Len(b) /\ Value(v, Base * Base) = Value(b, Base * Base)
    BY <2>1, <2>3, BaseAssumption
  <2>5. v = b
    BY <2>4, ValueIsUnique DEF Bytes
  <2> QED
    BY <1>0, <2>2, <2>3, <2>5
<1>2. ASSUME DecodeBytes(s).ok PROVE DenotesBytes(s, DecodeBytes(s).val)
  <2> HIDE DEF str
  <2>1. IsDigits(Padded(str))
    BY <1>0, <1>2 DEF DecodeString, Error
  <2>2. IsDigits(str)
    <3>1. CASE Len(str) % 2 = 0
      BY <2>1, <3>1 DEF Padded
    <3>2. CASE Len(str) % 2 # 0
      <4> DEFINE z == <<0>>
                 p == z \o str
      <4>1. z \in Seq(Nat) /\ Len(z) = 1
        OBVIOUS
      <4>2. IsDigits(p)
        BY <2>1, <3>2 DEF Padded
      <4> HIDE DEF z
      <4>3. /\ Len(p) = 1 + Len(str)
            /\ \A i \in 1 .. 1 + Len(str) : p[i] = IF i <= 1 THEN z[i] ELSE str[i - 1]
        <5>1. ConcatOf(z, str, Nat)
          BY <1>0, <4>1, ConcatProperties DEF ConcatOf
        <5> QED
          BY <4>1, <5>1, Zenon DEF ConcatOf
      <4> HIDE DEF p
      <4>4. ASSUME NEW i \in 1 .. Len(str) PROVE str[i] < Base
        <5>1. i + 1 \in 1 .. 1 + Len(str) /\ ~(i + 1 <= 1) /\ (i + 1) - 1 = i
          BY <1>0
        <5>2. p[i + 1] = str[i]
          BY <4>3, <5>1, Zenon
        <5>3. p[i + 1] < Base
          BY <4>2, <4>3, <5>1, Zenon DEF IsDigits
        <5> QED
          BY <5>2, <5>3, Zenon
      <4> QED
        BY <4>4 DEF IsDigits
    <3> QED
      BY <3>1, <3>2
  <2>3. str \in Numerals(s) /\ str \in Seq(Digits)
    BY <2>2, TrimmedNumeral DEF str
  <2>4. PICK v \in Seq(Bytes) : /\ DecodeString(Padded(str)) = Ok(v)
                                /\ Len(v) = (Len(str) + 1) \div 2
                                /\ Value(v, Base * Base) = Value(str, Base)
    BY <2>3, DecodeOfPadded
  <2>5. DecodeBytes(s).val = v
    BY <1>0, <2>4 DEF Ok
  <2> QED
    BY <2>3, <2>4, <2>5 DEF DenotesBytes
<1> QED
  BY <1>1, <1>2

(* The server takes a transaction in whatever spelling and decodes the     *)
(* values the text denotes.                                                *)
LEMMA DecodeAgrees == WireInv /\ Decode => HashAgrees'
<1> SUFFICES ASSUME WireInv, Decode PROVE HashAgrees'
  OBVIOUS
<1> DEFINE last == ParseUint(text.last)
           new == ParseUint(text.new)
           proof == DecodeBytes(text.proof)
<1>1. /\ tx \in Txs /\ text' = text /\ tx' = tx
      /\ text.last \in Seq(Nat) /\ text.new \in Seq(Nat) /\ text.proof \in Seq(Nat)
  BY DEF WireInv, Decode
<1>2. tx.last \in UInts /\ tx.new \in UInts /\ tx.proof \in Seq(Bytes)
  BY <1>1, RangesAssumption DEF Txs
<1>3. IF last.ok /\ new.ok /\ proof.ok
      THEN /\ stage' = "received"
           /\ got' = [rollup |-> text.rollup, last |-> last.val, new |-> new.val,
                      root |-> text.root, exit |-> text.exit, proof |-> proof.val]
      ELSE stage' = "refused"
  BY DEF Decode
<1>4. ASSUME Denotes(text, tx) PROVE stage' = "received" /\ Preimage(got') = Preimage(tx)
  <2>1. /\ DenotesUint(text.last, tx.last) /\ DenotesUint(text.new, tx.new)
        /\ DenotesBytes(text.proof, tx.proof)
        /\ text.rollup = tx.rollup /\ text.root = tx.root /\ text.exit = tx.exit
    BY <1>4 DEF Denotes
  <2>2. last = Ok(tx.last) /\ new = Ok(tx.new)
    BY <1>1, <1>2, <2>1, ParseIsExact
  <2>3. proof = Ok(tx.proof)
    BY <1>1, <1>2, <2>1, DecodeIsExact
  <2> HIDE DEF last, new, proof
  <2>4. /\ last.ok /\ last.val = tx.last /\ new.ok /\ new.val = tx.new
        /\ proof.ok /\ proof.val = tx.proof
    BY <2>2, <2>3 DEF Ok
  <2>5. /\ stage' = "received"
        /\ got' = [rollup |-> tx.rollup, last |-> tx.last, new |-> tx.new, root |-> tx.root,
                   exit |-> tx.exit, proof |-> tx.proof]
    BY <1>3, <2>1, <2>4
  <2> QED
    BY <2>5 DEF Preimage
<1>5. ASSUME stage' = "received" PROVE Denotes(text, got')
  <2>1. last.ok => DenotesUint(text.last, last.val)
    BY <1>1, ParseIsExact
  <2>2. new.ok => DenotesUint(text.new, new.val)
    BY <1>1, ParseIsExact
  <2>3. proof.ok => DenotesBytes(text.proof, proof.val)
    BY <1>1, DecodeIsExact
  <2> HIDE DEF last, new, proof
  <2>4. /\ last.ok /\ new.ok /\ proof.ok
        /\ got' = [rollup |-> text.rollup, last |-> last.val, new |-> new.val,
                   root |-> text.root, exit |-> text.exit, proof |-> proof.val]
    BY <1>3, <1>5
  <2>5. /\ got'.last = last.val /\ got'.new = new.val /\ got'.proof = proof.val
        /\ got'.rollup = text.rollup /\ got'.root = text.root /\ got'.exit = text.exit
    BY <2>4
  <2> QED
    BY <2>1, <2>2, <2>3, <2>4, <2>5, Zenon DEF Denotes
<1> QED
  BY <1>1, <1>4, <1>5, Zenon DEF HashAgrees

(* Whatever spelling of the signed transaction a client posts, the server  *)
(* takes it and computes the hash that was signed; and what it takes is    *)
(* what the text denotes.                                                  *)
THEOREM SpellingsHashAlike == Spec => []HashAgrees
<1>1. Init => HashAgrees
  BY DEF Init, HashAgrees
<1>2. WireInv /\ HashAgrees /\ [Next]_vars => HashAgrees'
  <2> SUFFICES ASSUME WireInv, HashAgrees, [Next]_vars PROVE HashAgrees'
    OBVIOUS
  <2>1. CASE Decode
    BY <2>1, DecodeAgrees
  <2>2. CASE Post \/ Build \/ Add \/ Load \/ Review
    <3>1. stage' \notin {"received", "refused"}
      BY <2>2 DEF Post, Build, Add, Load, Review
    <3> QED
      BY <3>1 DEF HashAgrees
  <2>3. CASE UNCHANGED vars
    BY <2>3 DEF vars, HashAgrees, Denotes
  <2> QED
    BY <2>1, <2>2, <2>3 DEF Next
<1> QED
  BY <1>1, <1>2, WireInvariant, PTL DEF Spec

=============================================================================
