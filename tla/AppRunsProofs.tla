--------------------------- MODULE AppRunsProofs ---------------------------
(***************************************************************************)
(* What holds of the programs run after run, for any command lines, keys,  *)
(* machine ids and pepper, and in any order of runs, kills and failures.   *)
(***************************************************************************)
EXTENDS AppRuns, TLAPS, FiniteSetTheorems, SequenceTheorems, WellFoundedInduction

-----------------------------------------------------------------------------
(* Bytes                                                                   *)

Sum(b0, b1, b2, b3, b4, b5, b6, b7) ==
  b0 + 2 * b1 + 4 * b2 + 8 * b3 + 16 * b4 + 32 * b5 + 64 * b6 + 128 * b7

(* The bits of a sum of powers of two *)
LEMMA BitsOfSum ==
  ASSUME NEW b0 \in {0, 1}, NEW b1 \in {0, 1}, NEW b2 \in {0, 1}, NEW b3 \in {0, 1},
         NEW b4 \in {0, 1}, NEW b5 \in {0, 1}, NEW b6 \in {0, 1}, NEW b7 \in {0, 1},
         NEW n, n = Sum(b0, b1, b2, b3, b4, b5, b6, b7)
  PROVE  /\ n \in Byte
         /\ Bit(n, 0) = b0 /\ Bit(n, 1) = b1 /\ Bit(n, 2) = b2 /\ Bit(n, 3) = b3
         /\ Bit(n, 4) = b4 /\ Bit(n, 5) = b5 /\ Bit(n, 6) = b6 /\ Bit(n, 7) = b7
<1>1. n \in Byte
  BY DEF Sum, Byte
<1>2. Bit(n, 0) = b0 /\ Bit(n, 1) = b1 /\ Bit(n, 2) = b2 /\ Bit(n, 3) = b3
  BY DEF Sum, Bit
<1>3. Bit(n, 4) = b4 /\ Bit(n, 5) = b5 /\ Bit(n, 6) = b6 /\ Bit(n, 7) = b7
  BY DEF Sum, Bit
<1> QED BY <1>1, <1>2, <1>3

(* A byte is the sum of its bits. *)
LEMMA SumOfBits ==
  ASSUME NEW n \in Byte
  PROVE  /\ \A i \in 0 .. 7 : Bit(n, i) \in {0, 1}
         /\ n = Sum(Bit(n, 0), Bit(n, 1), Bit(n, 2), Bit(n, 3),
                    Bit(n, 4), Bit(n, 5), Bit(n, 6), Bit(n, 7))
<1>1. /\ Bit(n, 0) \in {0, 1} /\ Bit(n, 1) \in {0, 1} /\ Bit(n, 2) \in {0, 1}
      /\ Bit(n, 3) \in {0, 1} /\ Bit(n, 4) \in {0, 1} /\ Bit(n, 5) \in {0, 1}
      /\ Bit(n, 6) \in {0, 1} /\ Bit(n, 7) \in {0, 1}
  BY DEF Byte, Bit
<1>2. \A i \in 0 .. 7 : Bit(n, i) \in {0, 1}
  <2> TAKE i \in 0 .. 7
  <2>1. i \in {0, 1, 2, 3, 4, 5, 6, 7}
    OBVIOUS
  <2> QED BY <1>1, <2>1
<1>3. n = Sum(Bit(n, 0), Bit(n, 1), Bit(n, 2), Bit(n, 3),
              Bit(n, 4), Bit(n, 5), Bit(n, 6), Bit(n, 7))
  BY DEF Byte, Bit, Sum
<1> QED BY <1>2, <1>3

(* The sum, modulo 2, of two bits *)
Plus(x, y) == (x + y) % 2

LEMMA XorIs ==
  ASSUME NEW a \in Byte, NEW b \in Byte
  PROVE  Xor(a, b) = Sum(Plus(Bit(a, 0), Bit(b, 0)), Plus(Bit(a, 1), Bit(b, 1)),
                         Plus(Bit(a, 2), Bit(b, 2)), Plus(Bit(a, 3), Bit(b, 3)),
                         Plus(Bit(a, 4), Bit(b, 4)), Plus(Bit(a, 5), Bit(b, 5)),
                         Plus(Bit(a, 6), Bit(b, 6)), Plus(Bit(a, 7), Bit(b, 7)))
<1>1. \A i \in 0 .. 7 : Plus(Bit(a, i), Bit(b, i)) \in {0, 1}
  <2> TAKE i \in 0 .. 7
  <2>1. Bit(a, i) \in {0, 1} /\ Bit(b, i) \in {0, 1}
    BY SumOfBits
  <2> QED BY <2>1 DEF Plus
<1> DEFINE p(i) == Plus(Bit(a, i), Bit(b, i))
<1>2. Xor(a, b) = p(0) * 2 ^ 0 + p(1) * 2 ^ 1 + p(2) * 2 ^ 2 + p(3) * 2 ^ 3
                    + p(4) * 2 ^ 4 + p(5) * 2 ^ 5 + p(6) * 2 ^ 6 + p(7) * 2 ^ 7
  BY Zenon DEF Xor, Plus
<1>3. /\ p(0) \in {0, 1} /\ p(1) \in {0, 1} /\ p(2) \in {0, 1} /\ p(3) \in {0, 1}
      /\ p(4) \in {0, 1} /\ p(5) \in {0, 1} /\ p(6) \in {0, 1} /\ p(7) \in {0, 1}
  BY <1>1
<1> HIDE DEF p
<1>4. Xor(a, b) = Sum(p(0), p(1), p(2), p(3), p(4), p(5), p(6), p(7))
  BY <1>2, <1>3 DEF Sum
<1> QED BY <1>4 DEF p

(* A byte that went through the same Xor twice is what it was. *)
LEMMA XorTwice ==
  ASSUME NEW a \in Byte, NEW b \in Byte
  PROVE  Xor(a, b) \in Byte /\ Xor(Xor(a, b), b) = a
<1> DEFINE p(i) == Plus(Bit(a, i), Bit(b, i))
           c == Xor(a, b)
<1>1. \A i \in 0 .. 7 : p(i) \in {0, 1} /\ Plus(p(i), Bit(b, i)) = Bit(a, i)
  <2> TAKE i \in 0 .. 7
  <2>1. Bit(a, i) \in {0, 1} /\ Bit(b, i) \in {0, 1}
    BY SumOfBits
  <2> QED BY <2>1 DEF Plus
<1>2. c = Sum(p(0), p(1), p(2), p(3), p(4), p(5), p(6), p(7))
  BY XorIs
<1>3. /\ p(0) \in {0, 1} /\ p(1) \in {0, 1} /\ p(2) \in {0, 1} /\ p(3) \in {0, 1}
      /\ p(4) \in {0, 1} /\ p(5) \in {0, 1} /\ p(6) \in {0, 1} /\ p(7) \in {0, 1}
  BY <1>1
<1> HIDE DEF p, c
<1>4. /\ c \in Byte
      /\ Bit(c, 0) = p(0) /\ Bit(c, 1) = p(1) /\ Bit(c, 2) = p(2) /\ Bit(c, 3) = p(3)
      /\ Bit(c, 4) = p(4) /\ Bit(c, 5) = p(5) /\ Bit(c, 6) = p(6) /\ Bit(c, 7) = p(7)
  BY <1>2, <1>3, BitsOfSum
<1>5. Xor(c, b) = Sum(Plus(Bit(c, 0), Bit(b, 0)), Plus(Bit(c, 1), Bit(b, 1)),
                      Plus(Bit(c, 2), Bit(b, 2)), Plus(Bit(c, 3), Bit(b, 3)),
                      Plus(Bit(c, 4), Bit(b, 4)), Plus(Bit(c, 5), Bit(b, 5)),
                      Plus(Bit(c, 6), Bit(b, 6)), Plus(Bit(c, 7), Bit(b, 7)))
  BY <1>4, XorIs
<1>6. /\ Plus(p(0), Bit(b, 0)) = Bit(a, 0) /\ Plus(p(1), Bit(b, 1)) = Bit(a, 1)
      /\ Plus(p(2), Bit(b, 2)) = Bit(a, 2) /\ Plus(p(3), Bit(b, 3)) = Bit(a, 3)
      /\ Plus(p(4), Bit(b, 4)) = Bit(a, 4) /\ Plus(p(5), Bit(b, 5)) = Bit(a, 5)
      /\ Plus(p(6), Bit(b, 6)) = Bit(a, 6) /\ Plus(p(7), Bit(b, 7)) = Bit(a, 7)
  BY <1>1
<1>7. a = Sum(Bit(a, 0), Bit(a, 1), Bit(a, 2), Bit(a, 3),
              Bit(a, 4), Bit(a, 5), Bit(a, 6), Bit(a, 7))
  BY SumOfBits
<1>8. Xor(c, b) = a
  BY <1>4, <1>5, <1>6, <1>7
<1> QED BY <1>4, <1>8 DEF c

-----------------------------------------------------------------------------
(* The text of a key                                                       *)

LEMMA XorWithTwice ==
  ASSUME NEW data \in Seq(Byte), NEW pepper \in Seq(Byte), pepper # << >>
  PROVE  /\ XorWith(data, pepper) \in Seq(Byte)
         /\ Len(XorWith(data, pepper)) = Len(data)
         /\ XorWith(XorWith(data, pepper), pepper) = data
<1> DEFINE n == Len(data)
           m == Len(pepper)
           key(i) == pepper[((i - 1) % m) + 1]
           d == XorWith(data, pepper)
<1>1. n \in Nat /\ DOMAIN data = 1 .. n /\ m \in Nat /\ m > 0
  BY EmptySeq, LenProperties
<1>2. \A i \in 1 .. n : data[i] \in Byte /\ key(i) \in Byte
  <2> TAKE i \in 1 .. n
  <2>1. ((i - 1) % m) + 1 \in 1 .. m
    <3> HIDE DEF m
    <3> QED BY <1>1
  <2> QED BY <2>1, ElementOfSeq
<1>3. d = [i \in 1 .. n |-> Xor(data[i], key(i))]
  BY <1>1 DEF XorWith
<1> HIDE DEF n, m, key, d
<1>4. \A i \in 1 .. n : d[i] \in Byte /\ Xor(d[i], key(i)) = data[i]
  <2> TAKE i \in 1 .. n
  <2>1. Xor(data[i], key(i)) \in Byte /\ Xor(Xor(data[i], key(i)), key(i)) = data[i]
    BY <1>2, XorTwice
  <2> QED BY <1>3, <2>1
<1>5. d \in [1 .. n -> Byte]
  BY <1>3, <1>4
<1>6. d \in Seq(Byte) /\ DOMAIN d = 1 .. n
  BY <1>1, <1>5, SeqDef
<1>7. Len(d) = n
  <2>1. Len(d) \in Nat /\ 1 .. Len(d) = 1 .. n
    BY <1>6, LenProperties
  <2> QED BY <1>1, <2>1
<1>8. XorWith(d, pepper) = data
  <2>1. XorWith(d, pepper) = [i \in 1 .. n |-> Xor(d[i], key(i))]
    BY <1>6 DEF XorWith, key, m
  <2>2. data = [i \in 1 .. n |-> data[i]]
    BY <1>1
  <2> QED BY <1>4, <2>1, <2>2
<1> QED BY <1>6, <1>7, <1>8 DEF d, n

(* Three bytes, and the four symbols they make *)
Word(b1, b2, b3) == b1 * 65536 + b2 * 256 + b3
Sextet(word, j) == (word \div (64 ^ (3 - j))) % 64

LEMMA WordFacts ==
  ASSUME NEW b1 \in Byte, NEW b2 \in Byte, NEW b3 \in Byte
  PROVE  Word(b1, b2, b3) \in Nat
BY DEF Word, Byte

LEMMA SextetFacts ==
  ASSUME NEW w \in Nat, NEW j \in 0 .. 3
  PROVE  Sextet(w, j) \in 0 .. 63
<1>1. j \in {0, 1, 2, 3}
  OBVIOUS
<1>2. 64 ^ (3 - 0) = 262144 /\ 64 ^ (3 - 1) = 4096 /\ 64 ^ (3 - 2) = 64 /\ 64 ^ (3 - 3) = 1
  OBVIOUS
<1>3. /\ Sextet(w, 0) = (w \div 262144) % 64 /\ Sextet(w, 1) = (w \div 4096) % 64
      /\ Sextet(w, 2) = (w \div 64) % 64 /\ Sextet(w, 3) = (w \div 1) % 64
  BY <1>2 DEF Sextet
<1> QED BY <1>1, <1>3

LEMMA Sextets ==
  ASSUME NEW b1 \in Byte, NEW b2 \in Byte, NEW b3 \in Byte,
         NEW w, w = Word(b1, b2, b3)
  PROVE  /\ ((Sextet(w, 0) * 64 + Sextet(w, 1)) \div (2 ^ 4)) % 256 = b1
         /\ ((Sextet(w, 1) * 64 + Sextet(w, 2)) \div (2 ^ 2)) % 256 = b2
         /\ ((Sextet(w, 2) * 64 + Sextet(w, 3)) \div (2 ^ 0)) % 256 = b3
<1>1. w \in Nat
  BY DEF Word, Byte
<1>2. /\ Sextet(w, 0) = (w \div 262144) % 64
      /\ Sextet(w, 1) = (w \div 4096) % 64
      /\ Sextet(w, 2) = (w \div 64) % 64
      /\ Sextet(w, 3) = w % 64
  <2>1. 64 ^ (3 - 0) = 262144 /\ 64 ^ (3 - 1) = 4096 /\ 64 ^ (3 - 2) = 64 /\ 64 ^ (3 - 3) = 1
    OBVIOUS
  <2>2. w \div 1 = w
    BY <1>1
  <2> QED BY <2>1, <2>2 DEF Sextet
<1> DEFINE h2 == b2 \div 16
           l2 == b2 % 16
           h3 == b3 \div 64
           l3 == b3 % 64
           h1 == b1 \div 4
           l1 == b1 % 4
<1>4. /\ h1 \in 0 .. 63 /\ l1 \in 0 .. 3 /\ b1 = h1 * 4 + l1
      /\ h2 \in 0 .. 15 /\ l2 \in 0 .. 15 /\ b2 = h2 * 16 + l2
      /\ h3 \in 0 .. 3 /\ l3 \in 0 .. 63 /\ b3 = h3 * 64 + l3
  BY DEF Byte
<1> HIDE DEF h1, l1, h2, l2, h3, l3
<1>5. /\ w \div 262144 = h1
      /\ w \div 4096 = h1 * 64 + (l1 * 16 + h2)
      /\ w \div 64 = (h1 * 64 + l1 * 16 + h2) * 64 + (l2 * 4 + h3)
      /\ w = ((h1 * 64 + l1 * 16 + h2) * 64 + l2 * 4 + h3) * 64 + l3
  BY <1>4 DEF Word
<1>6. /\ Sextet(w, 0) = h1 /\ Sextet(w, 1) = l1 * 16 + h2
      /\ Sextet(w, 2) = l2 * 4 + h3 /\ Sextet(w, 3) = l3
  <2>1. Sextet(w, 0) = h1
    BY <1>2, <1>4, <1>5
  <2>2. Sextet(w, 1) = l1 * 16 + h2
    BY <1>2, <1>4, <1>5
  <2>3. Sextet(w, 2) = l2 * 4 + h3
    <3> DEFINE x == h1 * 64 + l1 * 16 + h2
               y == l2 * 4 + h3
    <3>1. x \in Nat /\ y \in 0 .. 63 /\ w \div 64 = x * 64 + y
      BY <1>4, <1>5
    <3> HIDE DEF x, y
    <3>2. (x * 64 + y) % 64 = y
      BY <3>1
    <3> QED BY <1>2, <3>1, <3>2 DEF y
  <2>4. Sextet(w, 3) = l3
    BY <1>2, <1>4, <1>5
  <2> QED BY <2>1, <2>2, <2>3, <2>4
<1>7. ((Sextet(w, 0) * 64 + Sextet(w, 1)) \div 16) % 256 = b1
  <2>1. Sextet(w, 0) * 64 + Sextet(w, 1) = b1 * 16 + h2
    BY <1>4, <1>6
  <2>2. b1 \in 0 .. 255 /\ (b1 * 16 + h2) \div 16 = b1
    BY <1>4 DEF Byte
  <2> QED BY <2>1, <2>2
<1>8. ((Sextet(w, 1) * 64 + Sextet(w, 2)) \div 4) % 256 = b2
  <2>1. Sextet(w, 1) * 64 + Sextet(w, 2) = (l1 * 256 + b2) * 4 + h3
    BY <1>4, <1>6
  <2>2. b2 \in 0 .. 255 /\ ((l1 * 256 + b2) * 4 + h3) \div 4 = l1 * 256 + b2
    BY <1>4 DEF Byte
  <2>3. (l1 * 256 + b2) % 256 = b2
    BY <1>4, <2>2
  <2> QED BY <2>1, <2>2, <2>3
<1>9. ((Sextet(w, 2) * 64 + Sextet(w, 3)) \div 1) % 256 = b3
  <2>1. Sextet(w, 2) * 64 + Sextet(w, 3) = l2 * 256 + b3
    BY <1>4, <1>6
  <2>2. b3 \in 0 .. 255 /\ (l2 * 256 + b3) \div 1 = l2 * 256 + b3
    BY <1>4 DEF Byte
  <2>3. (l2 * 256 + b3) % 256 = b3
    BY <1>4, <2>2
  <2> QED BY <2>1, <2>2, <2>3
<1>10. 2 ^ 4 = 16 /\ 2 ^ 2 = 4 /\ 2 ^ 0 = 1
  OBVIOUS
<1> QED BY <1>7, <1>8, <1>9, <1>10

(* How many symbols n bytes make, without the padding *)
Symbols(n) == (8 * n + 5) \div 6

(* Where the i-th byte is in them *)
FirstSymbol(i) == ((8 * (i - 1)) \div 6) + 1
Shift(i) == 4 - ((8 * (i - 1)) % 6)

LEMMA SymbolsFacts ==
  ASSUME NEW n \in Nat
  PROVE  /\ Symbols(n) \in Nat /\ Symbols(n) <= 4 * ((n + 2) \div 3)
         /\ (6 * Symbols(n)) \div 8 = n
         /\ n > 0 => Symbols(n) > 0
         /\ \A q \in Nat, r \in 0 .. 2 : n = 3 * q + r =>
               Symbols(n) = IF r = 0 THEN 4 * q ELSE 4 * q + r + 1
<1>1. PICK q \in Nat, r \in 0 .. 2 : n = 3 * q + r
  <2>1. n \div 3 \in Nat /\ n % 3 \in 0 .. 2 /\ n = 3 * (n \div 3) + (n % 3)
    OBVIOUS
  <2> QED BY <2>1
<1>2. Symbols(n) = IF r = 0 THEN 4 * q ELSE 4 * q + r + 1
  <2>1. CASE r = 0
    BY <1>1, <2>1 DEF Symbols
  <2>2. CASE r = 1
    BY <1>1, <2>2 DEF Symbols
  <2>3. CASE r = 2
    BY <1>1, <2>3 DEF Symbols
  <2> QED BY <2>1, <2>2, <2>3
<1>3. Symbols(n) \in Nat
  BY <1>2
<1>4. (6 * Symbols(n)) \div 8 = n
  <2>1. CASE r = 0
    BY <1>1, <1>2, <2>1
  <2>2. CASE r = 1
    BY <1>1, <1>2, <2>2
  <2>3. CASE r = 2
    BY <1>1, <1>2, <2>3
  <2> QED BY <2>1, <2>2, <2>3
<1>5. Symbols(n) <= 4 * ((n + 2) \div 3)
  <2>1. CASE r = 0
    BY <1>1, <1>2, <2>1
  <2>2. CASE r = 1
    BY <1>1, <1>2, <2>2
  <2>3. CASE r = 2
    BY <1>1, <1>2, <2>3
  <2> QED BY <2>1, <2>2, <2>3
<1>6. n > 0 => Symbols(n) > 0
  BY <1>1, <1>2
<1>7. ASSUME NEW p \in Nat, NEW s \in 0 .. 2, n = 3 * p + s
      PROVE  p = q /\ r = s
  BY <1>1, <1>7
<1> QED BY <1>2, <1>3, <1>4, <1>5, <1>6, <1>7

(* The bytes of a word, and its symbols *)
LEMMA PlacesFacts ==
  ASSUME NEW n \in Nat, NEW i \in 1 .. n
  PROVE  \E q \in Nat, r \in 0 .. 2 :
            /\ i = 3 * q + r + 1
            /\ FirstSymbol(i) = 4 * q + r + 1
            /\ Shift(i) = 4 - 2 * r
            /\ FirstSymbol(i) + 1 <= Symbols(n)
<1>1. PICK q \in Nat, r \in 0 .. 2 : i = 3 * q + r + 1
  <2>1. /\ (i - 1) \div 3 \in Nat /\ (i - 1) % 3 \in 0 .. 2
        /\ i = 3 * ((i - 1) \div 3) + ((i - 1) % 3) + 1
    OBVIOUS
  <2> QED BY <2>1
<1>2. FirstSymbol(i) = 4 * q + r + 1 /\ Shift(i) = 4 - 2 * r
  <2>1. CASE r = 0
    BY <1>1, <2>1 DEF FirstSymbol, Shift
  <2>2. CASE r = 1
    BY <1>1, <2>2 DEF FirstSymbol, Shift
  <2>3. CASE r = 2
    BY <1>1, <2>3 DEF FirstSymbol, Shift
  <2> QED BY <2>1, <2>2, <2>3
<1>3. 4 * q + r + 2 <= Symbols(n)
  <2>1. PICK p \in Nat, s \in 0 .. 2 : n = 3 * p + s
    <3>1. n \div 3 \in Nat /\ n % 3 \in 0 .. 2 /\ n = 3 * (n \div 3) + (n % 3)
      OBVIOUS
    <3> QED BY <3>1
  <2>2. Symbols(n) = IF s = 0 THEN 4 * p ELSE 4 * p + s + 1
    BY <2>1, SymbolsFacts
  <2>3. 3 * q + r + 1 <= 3 * p + s
    BY <1>1, <2>1
  <2>4. q <= p /\ (q = p => r + 1 <= s)
    BY <2>3
  <2> QED BY <2>2, <2>4
<1> QED BY <1>1, <1>2, <1>3

LEMMA EncodedText ==
  ASSUME NEW data \in Seq(Byte), NEW e, e = Base64Encode(data)
  PROVE  /\ Len(data) \in Nat
         /\ e \in Seq(0 .. Pad) /\ Len(e) = 4 * ((Len(data) + 2) \div 3)
         /\ \A k \in 1 .. Symbols(Len(data)) : e[k] \in 0 .. 63
         /\ \A k \in 1 .. Len(e) : k > Symbols(Len(data)) => e[k] = Pad
         /\ \A i \in 1 .. Len(data) :
               ((e[FirstSymbol(i)] * 64 + e[FirstSymbol(i) + 1]) \div (2 ^ Shift(i))) % 256
                  = data[i]
<1> DEFINE n == Len(data)
           byte(i) == IF i <= n THEN data[i] ELSE 0
           word(q) == Word(byte(3 * q + 1), byte(3 * q + 2), byte(3 * q + 3))
           size == 4 * ((n + 2) \div 3)
           symbol(q, j) == IF j >= 2 /\ 3 * q + j > n THEN Pad ELSE Sextet(word(q), j)
<1>1. n \in Nat /\ DOMAIN data = 1 .. n /\ \A i \in 1 .. n : data[i] \in Byte
  BY LenProperties, ElementOfSeq
<1>2. \A i \in Nat : i > 0 => byte(i) \in Byte
  BY <1>1 DEF Byte
<1>3. e = [k \in 1 .. size |-> symbol((k - 1) \div 4, (k - 1) % 4)]
  <2>1. Base64Encode(data) = [k \in 1 .. size |-> symbol((k - 1) \div 4, (k - 1) % 4)]
    BY DEF Base64Encode, Sextet, Word
  <2> HIDE DEF size, symbol
  <2> QED BY <2>1
<1> HIDE DEF n
<1>4. size \in Nat
  BY <1>1
<1>5. \A q \in Nat : \A j \in 0 .. 3 : Sextet(word(q), j) \in 0 .. 63
  <2> TAKE q \in Nat
  <2>1. /\ byte(3 * q + 1) \in Byte /\ byte(3 * q + 2) \in Byte
        /\ byte(3 * q + 3) \in Byte
    <3>1. /\ 3 * q + 1 \in Nat /\ 3 * q + 1 > 0 /\ 3 * q + 2 \in Nat /\ 3 * q + 2 > 0
          /\ 3 * q + 3 \in Nat /\ 3 * q + 3 > 0
      OBVIOUS
    <3> HIDE DEF byte
    <3> QED BY <1>2, <3>1
  <2> HIDE DEF byte
  <2>2. word(q) \in Nat
    <3>1. word(q) = Word(byte(3 * q + 1), byte(3 * q + 2), byte(3 * q + 3))
      OBVIOUS
    <3> HIDE DEF word
    <3> QED BY <2>1, <3>1, WordFacts
  <2> HIDE DEF word
  <2> QED BY <2>2, SextetFacts
<1> HIDE DEF byte, word
<1>6. \A k \in 1 .. size :
         \E q \in Nat, j \in 0 .. 3 : k = 4 * q + j + 1 /\ e[k] = symbol(q, j)
  <2> TAKE k \in 1 .. size
  <2>1. /\ (k - 1) \div 4 \in Nat /\ (k - 1) % 4 \in 0 .. 3
        /\ k = 4 * ((k - 1) \div 4) + ((k - 1) % 4) + 1
    BY <1>4
  <2>2. e[k] = symbol((k - 1) \div 4, (k - 1) % 4)
    BY <1>3
  <2> HIDE DEF symbol
  <2> QED BY <2>1, <2>2

<1>7. PICK p \in Nat, s \in 0 .. 2 : n = 3 * p + s
  <2>1. n \div 3 \in Nat /\ n % 3 \in 0 .. 2 /\ n = 3 * (n \div 3) + (n % 3)
    BY <1>1
  <2> QED BY <2>1
<1>8. Symbols(n) = IF s = 0 THEN 4 * p ELSE 4 * p + s + 1
  BY <1>1, <1>7, SymbolsFacts
<1>9. size = IF s = 0 THEN 4 * p ELSE 4 * p + 4
  BY <1>7
<1> HIDE DEF size
<1>10. ASSUME NEW k \in 1 .. size
       PROVE  IF k <= Symbols(n) THEN e[k] \in 0 .. 63 ELSE e[k] = Pad
  <2>1. PICK q \in Nat, j \in 0 .. 3 : k = 4 * q + j + 1 /\ e[k] = symbol(q, j)
    BY <1>6
  <2>2. k <= Symbols(n) <=> ~ (j >= 2 /\ 3 * q + j > n)
    <3>1. CASE s = 0
      BY <1>7, <1>8, <1>9, <2>1, <3>1
    <3>2. CASE s # 0
      BY <1>7, <1>8, <1>9, <2>1, <3>2
    <3> QED BY <3>1, <3>2
  <2>3. Sextet(word(q), j) \in 0 .. 63
    BY <1>5
  <2> QED BY <2>1, <2>2, <2>3
<1>11. ASSUME NEW q \in Nat, NEW j \in 0 .. 3, 4 * q + j + 1 <= Symbols(n)
       PROVE  e[4 * q + j + 1] = Sextet(word(q), j)
  <2>1. 4 * q + j + 1 \in 1 .. size
    BY <1>8, <1>9, <1>11
  <2>2. PICK x \in Nat, y \in 0 .. 3 :
           4 * q + j + 1 = 4 * x + y + 1 /\ e[4 * q + j + 1] = symbol(x, y)
    BY <1>6, <2>1
  <2>3. x = q /\ y = j
    BY <2>2
  <2>4. ~ (j >= 2 /\ 3 * q + j > n)
    BY <1>7, <1>8, <1>11
  <2> QED BY <2>2, <2>3, <2>4
<1>12. ASSUME NEW i \in 1 .. n
       PROVE  ((e[FirstSymbol(i)] * 64 + e[FirstSymbol(i) + 1]) \div (2 ^ Shift(i))) % 256
                 = data[i]
  <2>1. PICK q \in Nat, r \in 0 .. 2 :
           /\ i = 3 * q + r + 1
           /\ FirstSymbol(i) = 4 * q + r + 1
           /\ Shift(i) = 4 - 2 * r
           /\ FirstSymbol(i) + 1 <= Symbols(n)
    BY <1>1, PlacesFacts
  <2>2. e[FirstSymbol(i)] = Sextet(word(q), r)
    <3>1. 4 * q + r + 1 <= Symbols(n) /\ r \in 0 .. 3
      BY <1>7, <1>8, <2>1
    <3> QED BY <1>11, <2>1, <3>1
  <2>3. e[FirstSymbol(i) + 1] = Sextet(word(q), r + 1)
    <3>1. 4 * q + (r + 1) + 1 <= Symbols(n) /\ r + 1 \in 0 .. 3
      BY <1>7, <1>8, <2>1
    <3>2. FirstSymbol(i) + 1 = 4 * q + (r + 1) + 1
      BY <2>1
    <3> QED BY <1>11, <3>1, <3>2
  <2>4. byte(i) = data[i]
    BY DEF byte
  <2>5. /\ ((Sextet(word(q), 0) * 64 + Sextet(word(q), 1)) \div (2 ^ 4)) % 256 = byte(3 * q + 1)
        /\ ((Sextet(word(q), 1) * 64 + Sextet(word(q), 2)) \div (2 ^ 2)) % 256 = byte(3 * q + 2)
        /\ ((Sextet(word(q), 2) * 64 + Sextet(word(q), 3)) \div (2 ^ 0)) % 256 = byte(3 * q + 3)
    <3>1. /\ byte(3 * q + 1) \in Byte /\ byte(3 * q + 2) \in Byte /\ byte(3 * q + 3) \in Byte
      <4>1. /\ 3 * q + 1 \in Nat /\ 3 * q + 1 > 0 /\ 3 * q + 2 \in Nat /\ 3 * q + 2 > 0
            /\ 3 * q + 3 \in Nat /\ 3 * q + 3 > 0
        OBVIOUS
      <4> QED BY <1>2, <4>1
    <3>2. word(q) = Word(byte(3 * q + 1), byte(3 * q + 2), byte(3 * q + 3))
      BY DEF word
    <3> QED BY <3>1, <3>2, Sextets
  <2> DEFINE a == e[FirstSymbol(i)]
             b == e[FirstSymbol(i) + 1]
  <2>6. CASE r = 0
    <3>1. r = 0 /\ r + 1 = 1 /\ Shift(i) = 4 /\ i = 3 * q + 1
      BY <2>1, <2>6
    <3>2. /\ a = Sextet(word(q), 0) /\ b = Sextet(word(q), 1)
          /\ 2 ^ Shift(i) = 2 ^ 4 /\ byte(3 * q + 1) = data[i]
      BY <2>2, <2>3, <2>4, <3>1, Zenon
    <3> HIDE DEF a, b
    <3> QED BY <2>5, <3>2, Zenon DEF a, b
  <2>7. CASE r = 1
    <3>1. r = 1 /\ r + 1 = 2 /\ Shift(i) = 2 /\ i = 3 * q + 2
      BY <2>1, <2>7
    <3>2. /\ a = Sextet(word(q), 1) /\ b = Sextet(word(q), 2)
          /\ 2 ^ Shift(i) = 2 ^ 2 /\ byte(3 * q + 2) = data[i]
      BY <2>2, <2>3, <2>4, <3>1, Zenon
    <3> HIDE DEF a, b
    <3> QED BY <2>5, <3>2, Zenon DEF a, b
  <2>8. CASE r = 2
    <3>1. r = 2 /\ r + 1 = 3 /\ Shift(i) = 0 /\ i = 3 * q + 3
      BY <2>1, <2>8
    <3>2. /\ a = Sextet(word(q), 2) /\ b = Sextet(word(q), 3)
          /\ 2 ^ Shift(i) = 2 ^ 0 /\ byte(3 * q + 3) = data[i]
      BY <2>2, <2>3, <2>4, <3>1, Zenon
    <3> HIDE DEF a, b
    <3> QED BY <2>5, <3>2, Zenon DEF a, b
  <2> QED BY <2>6, <2>7, <2>8
<1>13. e \in Seq(0 .. Pad) /\ Len(e) = size
  <2> DEFINE S == 0 .. Pad
  <2>1. \A k \in 1 .. size : e[k] \in S
    BY <1>10 DEF Pad
  <2> HIDE DEF S
  <2>2. DOMAIN e = 1 .. size
    BY <1>3 DEF size
  <2>3. e \in [1 .. size -> S]
    BY <1>3, <2>1 DEF size
  <2>4. e \in Seq(S)
    BY <1>4, <2>3, SeqDef
  <2>5. Len(e) \in Nat /\ 1 .. Len(e) = 1 .. size
    BY <2>2, <2>4, LenProperties
  <2> QED BY <1>4, <2>4, <2>5 DEF S
<1>14. \A k \in 1 .. Symbols(n) : k \in 1 .. size
  BY <1>8, <1>9
<1>15. \A k \in 1 .. Symbols(n) : e[k] \in 0 .. 63
  BY <1>8, <1>10, <1>14
<1>16. \A k \in 1 .. Len(e) : k > Symbols(n) => e[k] = Pad
  BY <1>8, <1>10, <1>13
<1> QED BY <1>1, <1>12, <1>13, <1>15, <1>16 DEF size, n

LEMMA NotMarks ==
  ASSUME NEW x \in 0 .. 63
  PROVE  x \notin {Pad, Blank, Invalid}
BY DEF Pad, Blank, Invalid

(* A set of natural numbers that is not empty has a least element. *)
LEMMA LeastNumber ==
  ASSUME NEW S, S \subseteq Nat, S # {}
  PROVE  \E x \in S : \A y \in S : x <= y
<1>1. PICK x \in S : \A y \in S : ~ (<<y, x>> \in OpToRel(<, Nat))
  BY NatLessThanWellFounded, WFMin
<1>2. \A y \in S : ~ (y < x)
  BY <1>1 DEF OpToRel
<1> QED BY <1>2

(* What holds before a loop and is kept by every round of it *)
LEMMA LoopInduction ==
  ASSUME NEW n \in Nat, NEW I, 0 \in I,
         \A i \in 1 .. n : i - 1 \in I => i \in I
  PROVE  \A i \in 0 .. n : i \in I
<1> DEFINE Bad == {i \in 0 .. n : i \notin I}
<1>1. SUFFICES ASSUME NEW b \in 0 .. n, b \notin I PROVE FALSE
  OBVIOUS
<1>2. PICK x \in Bad : \A y \in Bad : x <= y
  <2>1. Bad \subseteq Nat /\ Bad # {}
    BY <1>1
  <2> HIDE DEF Bad
  <2> QED BY <2>1, LeastNumber
<1>3. x \in 1 .. n /\ x - 1 \in 0 .. n /\ ~ (x <= x - 1)
  BY <1>2
<1>4. x - 1 \in I
  BY <1>2, <1>3
<1> QED BY <1>2, <1>3, <1>4

(* A loop of n rounds on values of S: round i turns v into step[i][v], and *)
(* g[i] is the value after its first i rounds.                             *)
Loops(n, S) == [1 .. n -> [S -> S]]

LoopRun(n, S, e, step, g) ==
  /\ g \in [0 .. n -> S]
  /\ g[0] = e
  /\ \A i \in 1 .. n : g[i] = step[i][g[i - 1]]

LEMMA LoopValues ==
  ASSUME NEW n \in Nat, NEW S, NEW e \in S, NEW step \in Loops(n, S)
  PROVE  \E g : LoopRun(n, S, e, step, g)
<1> DEFINE Rounds(m, g) == \A i \in 1 .. m : g[i] = step[i][g[i - 1]]
           Runs(m, g) == g[0] = e /\ Rounds(m, g)
           I == {m \in 0 .. n : \E g \in [0 .. m -> S] : Runs(m, g)}
<1>5. step \in [1 .. n -> [S -> S]]
  BY DEF Loops
<1>1. 0 \in I
  <2> DEFINE g == [i \in 0 .. 0 |-> e]
  <2>1. g \in [0 .. 0 -> S] /\ g[0] = e /\ 0 \in 0 .. n
    OBVIOUS
  <2>2. 1 .. 0 = {}
    OBVIOUS
  <2>3. Rounds(0, g)
    BY <2>2
  <2> HIDE DEF Rounds, g
  <2> QED BY <2>1, <2>3
<1>2. ASSUME NEW m \in 1 .. n, m - 1 \in I
      PROVE  m \in I
  <2>1. PICK g \in [0 .. m - 1 -> S] : Runs(m - 1, g)
    BY <1>2
  <2>2. m - 1 \in 0 .. m - 1 /\ m \notin 0 .. m - 1
        /\ \A i \in 1 .. m : i - 1 \in 0 .. m - 1 /\ i \in 0 .. m /\ i - 1 # m
    OBVIOUS
  <2>3. step[m][g[m - 1]] \in S
    BY <1>5, <2>2
  <2> DEFINE h == [i \in 0 .. m |-> IF i = m THEN step[m][g[m - 1]] ELSE g[i]]
  <2>4. h \in [0 .. m -> S]
    BY <2>3
  <2>5. h[0] = e
    BY <2>1
  <2>6. ASSUME NEW i \in 1 .. m
        PROVE  h[i] = step[i][h[i - 1]]
    <3>1. h[i - 1] = g[i - 1]
      BY <2>2
    <3>2. CASE i = m
      BY <3>1, <3>2
    <3>3. CASE i # m
      <4>1. i \in 1 .. m - 1 /\ i \in 0 .. m
        BY <3>3
      <4>2. h[i] = g[i]
        BY <3>3, <4>1
      <4> QED BY <2>1, <3>1, <4>1, <4>2
    <3> QED BY <3>2, <3>3
  <2>7. m \in 0 .. n
    OBVIOUS
  <2>8. Rounds(m, h)
    BY <2>6
  <2> HIDE DEF Rounds, h
  <2> QED BY <2>4, <2>5, <2>7, <2>8
<1> HIDE DEF I
<1>3. n \in I
  <2>1. \A i \in 0 .. n : i \in I
    BY <1>1, <1>2, LoopInduction
  <2> QED BY <2>1
<1>4. PICK g \in [0 .. n -> S] : Runs(n, g)
  BY <1>3 DEF I
<1> QED BY <1>4 DEF LoopRun

(* What is read of a text: the symbols before the padding *)
LEMMA ReadSymbols ==
  ASSUME NEW t \in Seq(Int), NEW m \in Nat, m > 0, m <= Len(t),
         \A k \in 1 .. m : t[k] \in 0 .. 63,
         \A k \in 1 .. Len(t) : k > m => t[k] \in {Pad, Blank}
  PROVE  /\ Base64Symbols(t).ok
         /\ Base64Symbols(t).kept \in Seq(0 .. 63)
         /\ Len(Base64Symbols(t).kept) = m
         /\ \A k \in 1 .. m : Base64Symbols(t).kept[k] = t[k]
<1> DEFINE ends == {i \in DOMAIN t : t[i] \in {Pad, Invalid}}
           Keeps(i) == t[i] # Blank /\ \A j \in ends : i < j
           Reads(f) == f = [n \in 0 .. Len(t) |->
                              IF n = 0 THEN << >>
                              ELSE IF Keeps(n) THEN Append(f[n - 1], t[n]) ELSE f[n - 1]]
           read == CHOOSE f : Reads(f)
           ok   == t # << >> /\ \A i \in ends : t[i] = Invalid => \E j \in ends : j < i
<1>1. Len(t) \in Nat /\ DOMAIN t = 1 .. Len(t) /\ t # << >>
  BY EmptySeq, LenProperties
<1>2. \A i \in ends : i \in 1 .. Len(t) /\ i > m /\ t[i] # Invalid
  <2> TAKE i \in ends
  <2>1. i \in 1 .. Len(t) /\ t[i] \in {Pad, Invalid}
    BY <1>1
  <2>2. ~ i \in 1 .. m
    <3>1. i \in 1 .. m => t[i] \in 0 .. 63
      OBVIOUS
    <3> QED BY <2>1, <3>1, NotMarks
  <2>3. i > m
    BY <1>1, <2>1, <2>2
  <2>4. t[i] \in {Pad, Blank}
    BY <2>1, <2>3
  <2> QED BY <2>1, <2>3, <2>4 DEF Pad, Blank, Invalid
<1>3. ok
  BY <1>1, <1>2
<1>4. \A i \in 1 .. m : Keeps(i)
  <2> TAKE i \in 1 .. m
  <2>1. t[i] # Blank
    <3>1. t[i] \in 0 .. 63
      OBVIOUS
    <3> QED BY <3>1, NotMarks
  <2>2. \A j \in ends : i < j
    BY <1>2
  <2> QED BY <2>1, <2>2
<1>5. \A i \in 1 .. Len(t) : i > m => ~ Keeps(i)
  <2> SUFFICES ASSUME NEW i \in 1 .. Len(t), i > m, Keeps(i)
               PROVE  FALSE
    OBVIOUS
  <2>1. i \in ends
    BY <1>1
  <2>2. i < i
    BY <2>1
  <2> QED BY <1>1, <2>2
<1>6. Base64Symbols(t) = [ok |-> ok, kept |-> read[Len(t)]]
  BY Zenon DEF Base64Symbols
<1> DEFINE S == 0 .. 63
           Upto(n) == IF n <= m THEN n ELSE m
           g == [n \in 0 .. Len(t) |-> SubSeq(t, 1, Upto(n))]
<1> HIDE DEF ends, ok, Keeps
<1>7. \A n \in 1 .. m : t[n] \in S
  OBVIOUS
<1>8. Len(t) \in Nat /\ m \in 0 .. Len(t)
  BY <1>1
<1> HIDE DEF S
<1>9. ASSUME NEW n \in 0 .. m
      PROVE  /\ SubSeq(t, 1, n) \in Seq(S) /\ Len(SubSeq(t, 1, n)) = n
             /\ \A k \in 1 .. n : SubSeq(t, 1, n)[k] = t[k]
  <2>1. n \in Nat /\ \A k \in 1 .. n : t[k] \in S
    BY <1>7
  <2> DEFINE p == SubSeq(t, 1, n)
  <2>2. /\ p \in Seq(S)
        /\ Len(p) = IF 1 <= n THEN n - 1 + 1 ELSE 0
        /\ \A k \in 1 .. n - 1 + 1 : p[k] = t[1 + k - 1]
    BY <2>1, SubSeqProperties
  <2> HIDE DEF p
  <2>3. Len(p) = n /\ \A k \in 1 .. n : p[k] = t[k]
    BY <2>1, <2>2
  <2> QED BY <2>2, <2>3 DEF p
<1>10. ASSUME NEW n \in 1 .. m
       PROVE  SubSeq(t, 1, n) = Append(SubSeq(t, 1, n - 1), t[n])
  <2> DEFINE p == SubSeq(t, 1, n)
             q == SubSeq(t, 1, n - 1)
             r == Append(q, t[n])
  <2>1. n \in 0 .. m /\ n - 1 \in 0 .. m /\ t[n] \in S
    BY <1>7
  <2>2. p \in Seq(S) /\ Len(p) = n /\ \A k \in 1 .. n : p[k] = t[k]
    BY <1>9, <2>1
  <2>3. q \in Seq(S) /\ Len(q) = n - 1 /\ \A k \in 1 .. n - 1 : q[k] = t[k]
    BY <1>9, <2>1
  <2> HIDE DEF p, q
  <2>4. /\ r \in Seq(S) /\ Len(r) = Len(q) + 1
        /\ \A k \in 1 .. Len(q) : r[k] = q[k]
        /\ r[Len(q) + 1] = t[n]
    BY <2>1, <2>3, AppendProperties
  <2> HIDE DEF r
  <2>5. Len(r) = n /\ \A k \in 1 .. n : r[k] = t[k]
    BY <2>3, <2>4
  <2>6. p = r
    BY <2>2, <2>4, <2>5, SeqEqual
  <2> QED BY <2>6 DEF p, q, r
<1>11. SubSeq(t, 1, 0) = << >>
  <2>1. SubSeq(t, 1, 0) \in Seq(S) /\ Len(SubSeq(t, 1, 0)) = 0
    BY <1>9
  <2> QED BY <2>1, EmptySeq
<1>12. g[0] = << >>
  BY <1>1, <1>11
<1>13. ASSUME NEW n \in 1 .. Len(t)
       PROVE  g[n] = IF Keeps(n) THEN Append(g[n - 1], t[n]) ELSE g[n - 1]
  <2>1. n \in 0 .. Len(t) /\ n - 1 \in 0 .. Len(t)
    BY <1>1
  <2>2. g[n] = SubSeq(t, 1, Upto(n)) /\ g[n - 1] = SubSeq(t, 1, Upto(n - 1))
    BY <2>1
  <2> HIDE DEF g
  <2>3. CASE n <= m
    <3>1. Upto(n) = n /\ Upto(n - 1) = n - 1 /\ n \in 1 .. m
      BY <2>1, <2>3
    <3> QED BY <1>4, <1>10, <2>2, <3>1
  <2>4. CASE n > m
    <3>1. Upto(n) = m /\ Upto(n - 1) = m
      BY <2>1, <2>4
    <3> QED BY <1>5, <2>2, <2>4, <3>1
  <2> QED BY <2>1, <2>3, <2>4
<1>14. g[Len(t)] = SubSeq(t, 1, m)
  BY <1>8
<1>15. Reads(g)
  <2> DEFINE body(n) == IF n = 0 THEN << >>
                        ELSE IF Keeps(n) THEN Append(g[n - 1], t[n]) ELSE g[n - 1]
  <2>1. g = [n \in 0 .. Len(t) |-> g[n]]
    OBVIOUS
  <2> HIDE DEF g
  <2>2. ASSUME NEW n \in 0 .. Len(t)
        PROVE  g[n] = body(n)
    <3>1. n = 0 \/ n \in 1 .. Len(t)
      BY <1>1
    <3>2. n \in 1 .. Len(t) => n # 0
      OBVIOUS
    <3> QED BY <1>12, <1>13, <3>1, <3>2
  <2> HIDE DEF body
  <2>3. g = [n \in 0 .. Len(t) |-> body(n)]
    BY <2>1, <2>2
  <2> QED BY <2>3 DEF body
<1> HIDE DEF g
<1>16. Reads(read)
  <2> HIDE DEF Reads
  <2> QED BY <1>15
<1> HIDE DEF read
<1>17. read[0] = << >>
  BY <1>8, <1>16
<1>18. ASSUME NEW n \in 1 .. Len(t)
       PROVE  read[n] = IF Keeps(n) THEN Append(read[n - 1], t[n]) ELSE read[n - 1]
  <2>1. n \in 0 .. Len(t) /\ n # 0
    BY <1>1
  <2> QED BY <1>16, <2>1
<1> DEFINE I == {n \in 0 .. Len(t) : read[n] = g[n]}
<1>19. 0 \in I
  BY <1>8, <1>12, <1>17
<1>20. ASSUME NEW n \in 1 .. Len(t), n - 1 \in I
       PROVE  n \in I
  <2>1. n \in 0 .. Len(t) /\ read[n - 1] = g[n - 1]
    BY <1>1, <1>20
  <2> QED BY <1>13, <1>18, <2>1
<1> HIDE DEF I
<1>21. \A n \in 0 .. Len(t) : n \in I
  BY <1>8, <1>19, <1>20, LoopInduction
<1>22. read[Len(t)] = SubSeq(t, 1, m)
  BY <1>8, <1>14, <1>21 DEF I
<1>23. m \in 0 .. m
  OBVIOUS
<1>24. /\ read[Len(t)] \in Seq(S) /\ Len(read[Len(t)]) = m
       /\ \A k \in 1 .. m : read[Len(t)][k] = t[k]
  BY <1>9, <1>22, <1>23
<1> DEFINE kept == read[Len(t)]
           b    == Base64Symbols(t)
<1>25. b.ok = ok /\ b.kept = kept
  BY <1>6
<1> HIDE DEF kept, b
<1>26. kept \in Seq(0 .. 63) /\ Len(kept) = m /\ \A k \in 1 .. m : kept[k] = t[k]
  BY <1>24 DEF S, kept
<1>27. /\ b.ok /\ b.kept \in Seq(0 .. 63) /\ Len(b.kept) = m
       /\ \A k \in 1 .. m : b.kept[k] = t[k]
  BY <1>3, <1>25, <1>26
<1> QED BY <1>27, Zenon DEF b

(* What is read of the text of some bytes is those bytes. *)
LEMMA DecodeEncoded ==
  ASSUME NEW data \in Seq(Byte), NEW e, e = Base64Encode(data),
         NEW s, Len(s) = Symbols(Len(data)),
         \A k \in 1 .. Symbols(Len(data)) : s[k] = e[k]
  PROVE  Base64Decode(s) = data
<1> DEFINE n == Len(data)
           byte(i) == ((s[FirstSymbol(i)] * 64 + s[FirstSymbol(i) + 1])
                         \div (2 ^ Shift(i))) % 256
<1>1. n \in Nat /\ DOMAIN data = 1 .. n /\ data = [i \in 1 .. n |-> data[i]]
  BY LenProperties
<1>2. (6 * Len(s)) \div 8 = n
  BY <1>1, SymbolsFacts
<1>3. Base64Decode(s) = [i \in 1 .. (6 * Len(s)) \div 8 |-> byte(i)]
  BY DEF Base64Decode, FirstSymbol, Shift
<1>4. ASSUME NEW i \in 1 .. n
      PROVE  byte(i) = data[i]
  <2>1. ((e[FirstSymbol(i)] * 64 + e[FirstSymbol(i) + 1]) \div (2 ^ Shift(i))) % 256 = data[i]
    BY EncodedText
  <2>2. FirstSymbol(i) \in 1 .. Symbols(n) /\ FirstSymbol(i) + 1 \in 1 .. Symbols(n)
    <3>1. PICK q \in Nat, r \in 0 .. 2 :
             /\ i = 3 * q + r + 1
             /\ FirstSymbol(i) = 4 * q + r + 1
             /\ Shift(i) = 4 - 2 * r
             /\ FirstSymbol(i) + 1 <= Symbols(n)
      BY <1>1, PlacesFacts
    <3>2. Symbols(n) \in Nat
      BY <1>1, SymbolsFacts
    <3> QED BY <3>1, <3>2
  <2>3. s[FirstSymbol(i)] = e[FirstSymbol(i)] /\ s[FirstSymbol(i) + 1] = e[FirstSymbol(i) + 1]
    BY <2>2
  <2> QED BY <2>1, <2>3, Zenon
<1> HIDE DEF n, byte
<1>5. Base64Decode(s) = [i \in 1 .. n |-> byte(i)]
  BY <1>2, <1>3
<1> QED BY <1>1, <1>4, <1>5

(* The text that saveApiKey() makes *)
KeyTextOf(key, pepper) == Append(Encode(key, pepper), Blank)

(* An API key comes back from its text whole, whatever its bytes and those *)
(* of the pepper are, with the newline at the end of the text or without:  *)
(* EaSecretObfuscator::decode() undoes encode().                           *)
THEOREM KeyComesBack ==
  ASSUME NEW key \in Seq(Byte), key # NoKey,
         NEW pepper \in Seq(Byte), pepper # << >>,
         NEW text, NEW n \in Nat,
         Len(KeyTextOf(key, pepper)) - n <= 1, n <= Len(KeyTextOf(key, pepper)),
         text = SubSeq(KeyTextOf(key, pepper), 1, n)
  PROVE  Decode(text, pepper) = key
<1> DEFINE data == XorWith(key, pepper)
           e == Base64Encode(data)
           full == Append(e, Blank)
           m == Symbols(Len(data))
<1>1. /\ data \in Seq(Byte) /\ Len(data) = Len(key) /\ XorWith(data, pepper) = key
  BY XorWithTwice
<1>2. KeyTextOf(key, pepper) = full
  BY DEF KeyTextOf, Encode
<1> HIDE DEF data
<1>3. /\ Len(data) \in Nat
      /\ e \in Seq(0 .. Pad) /\ Len(e) = 4 * ((Len(data) + 2) \div 3)
      /\ \A k \in 1 .. m : e[k] \in 0 .. 63
      /\ \A k \in 1 .. Len(e) : k > m => e[k] = Pad
  BY <1>1, EncodedText
<1>4. m \in Nat /\ m > 0 /\ m <= Len(e)
  <2>1. Len(data) > 0
    BY <1>1, EmptySeq, LenProperties DEF NoKey
  <2> QED BY <1>3, <2>1, SymbolsFacts
<1> HIDE DEF m
<1>5. e \in Seq(Int) /\ Len(e) \in Nat
  <2> DEFINE S == 0 .. Pad
  <2>1. S \subseteq Int
    BY DEF Pad
  <2>2. e \in Seq(S)
    BY <1>3
  <2> HIDE DEF S
  <2>3. PICK k \in Nat : e \in [1 .. k -> S]
    BY <2>2, SeqDef
  <2>4. e \in [1 .. k -> Int]
    BY <2>1, <2>3
  <2>5. e \in Seq(Int)
    BY <2>4, SeqDef
  <2> QED BY <2>5, LenProperties
<1> HIDE DEF e
<1>6. /\ full \in Seq(Int) /\ Len(full) = Len(e) + 1
      /\ \A k \in 1 .. Len(e) : full[k] = e[k]
      /\ full[Len(e) + 1] = Blank
  <2>1. Blank \in Int
    BY DEF Blank
  <2> QED BY <1>5, <2>1, AppendProperties
<1> HIDE DEF full
<1>7. n \in {Len(e), Len(e) + 1}
  BY <1>2, <1>5, <1>6
<1>8. /\ text \in Seq(Int) /\ Len(text) = n /\ \A k \in 1 .. n : text[k] = full[k]
  <2>1. \A k \in 1 .. n : full[k] \in Int
    BY <1>5, <1>6, <1>7, ElementOfSeq
  <2>2. /\ text \in Seq(Int)
        /\ Len(text) = IF 1 <= n THEN n - 1 + 1 ELSE 0
        /\ \A k \in 1 .. n - 1 + 1 : text[k] = full[1 + k - 1]
    BY <1>2, <2>1, SubSeqProperties
  <2> QED BY <2>2
<1>9. \A k \in 1 .. m : text[k] = e[k] /\ text[k] \in 0 .. 63
  <2> TAKE k \in 1 .. m
  <2>1. k \in 1 .. n /\ k \in 1 .. Len(e)
    BY <1>4, <1>5, <1>7
  <2> QED BY <1>3, <1>6, <1>8, <2>1
<1>10. \A k \in 1 .. Len(text) : k > m => text[k] \in {Pad, Blank}
  <2> SUFFICES ASSUME NEW k \in 1 .. n, k > m PROVE text[k] \in {Pad, Blank}
    BY <1>8
  <2>1. CASE k <= Len(e)
    <3>1. k \in 1 .. Len(e)
      BY <1>5, <2>1
    <3> QED BY <1>3, <1>6, <1>8, <3>1
  <2>2. CASE ~ k <= Len(e)
    <3>1. k = Len(e) + 1
      BY <1>5, <1>7, <2>2
    <3> QED BY <1>6, <1>8, <3>1
  <2> QED BY <2>1, <2>2
<1> DEFINE r == Base64Symbols(text)
<1>11. /\ r.ok /\ Len(r.kept) = m /\ \A k \in 1 .. m : r.kept[k] = text[k]
  <2>1. m <= Len(text)
    BY <1>4, <1>5, <1>7, <1>8
  <2> QED BY <1>4, <1>8, <1>9, <1>10, <2>1, ReadSymbols
<1> HIDE DEF r
<1>12. Base64Decode(r.kept) = data
  <2>1. Len(r.kept) = Symbols(Len(data)) /\ \A k \in 1 .. Symbols(Len(data)) : r.kept[k] = e[k]
    BY <1>9, <1>11 DEF m
  <2> QED BY <1>1, <2>1, DecodeEncoded DEF e
<1> QED BY <1>1, <1>11, <1>12 DEF Decode, r

-----------------------------------------------------------------------------
(* Paths                                                                   *)

LEMMA AppendedTwice ==
  ASSUME NEW S, NEW s \in Seq(S), NEW a \in S, NEW b \in S
  PROVE  /\ Append(Append(s, a), b)[Len(s) + 1] = a
         /\ Append(Append(s, a), b)[Len(s) + 2] = b
<1> DEFINE t == Append(s, a)
           u == Append(t, b)
           n == Len(s)
<1>1. n \in Nat /\ t \in Seq(S) /\ Len(t) = n + 1 /\ t[n + 1] = a
  BY LenProperties, AppendProperties
<1> HIDE DEF t
<1>2. /\ \A i \in 1 .. Len(t) : u[i] = t[i]
      /\ u[Len(t) + 1] = b
  BY <1>1, AppendProperties
<1> HIDE DEF u, n
<1>3. u[n + 1] = a /\ u[n + 2] = b
  <2>1. n + 1 \in 1 .. Len(t) /\ Len(t) + 1 = n + 2
    BY <1>1
  <2> QED BY <1>1, <1>2, <2>1
<1> QED BY <1>3 DEF u, t, n

(* The directories and names in a path, and one more *)
Names(x) == {DataDir[i] : i \in DOMAIN DataDir} \cup {"kv", "secrets", "api_key.enc", x}

LEMMA DirOfNames == ASSUME NEW x PROVE DataDir \in Seq(Names(x))
<1>1. DataDir \in Seq(STRING)
  BY AppConstants
<1>2. Len(DataDir) \in Nat /\ DOMAIN DataDir = 1 .. Len(DataDir)
      /\ DataDir = [i \in 1 .. Len(DataDir) |-> DataDir[i]]
  BY <1>1, LenProperties
<1>3. DataDir \in [1 .. Len(DataDir) -> Names(x)]
  <2>1. \A i \in 1 .. Len(DataDir) : DataDir[i] \in Names(x)
    BY <1>2 DEF Names
  <2> HIDE DEF Names
  <2> QED BY <1>2, <2>1
<1> QED BY <1>2, <1>3, SeqDef

(* The file of a value is not the file of the key. *)
LEMMA KvIsNotKey == ASSUME NEW key PROVE KvPath(key) # KeyPath
<1> DEFINE S == Names(SanitizeKey(key))
<1>1. /\ DataDir \in Seq(S)
      /\ "kv" \in S /\ "secrets" \in S /\ "api_key.enc" \in S /\ SanitizeKey(key) \in S
  BY DirOfNames DEF Names
<1> HIDE DEF S
<1>2. KvPath(key)[Len(DataDir) + 1] = "kv"
  BY <1>1, AppendedTwice DEF KvPath, KvDir
<1>3. KeyPath[Len(DataDir) + 1] = "secrets"
  BY <1>1, AppendedTwice DEF KeyPath, SecretsDir
<1> QED BY <1>2, <1>3

(* Two keys have the same file exactly when they look the same. *)
LEMMA SamePath ==
  ASSUME NEW a \in KvKeys, NEW b \in KvKeys
  PROVE  KvPath(a) = KvPath(b) <=> LooksLike(a, b)
<1>1. /\ Len(a) \in Nat /\ DOMAIN a = 1 .. Len(a)
      /\ Len(b) \in Nat /\ DOMAIN b = 1 .. Len(b)
  BY AppConstants, LenProperties
<1>2. KvPath(a) = KvPath(b) <=> SanitizeKey(a) = SanitizeKey(b)
  <2> SUFFICES ASSUME KvPath(a) = KvPath(b) PROVE SanitizeKey(a) = SanitizeKey(b)
    BY DEF KvPath
  <2>1. KvPath(a)[Len(DataDir) + 2] = SanitizeKey(a)
    <3> DEFINE S == Names(SanitizeKey(a))
    <3>1. DataDir \in Seq(S) /\ "kv" \in S /\ SanitizeKey(a) \in S
      BY DirOfNames DEF Names
    <3> HIDE DEF S
    <3> QED BY <3>1, AppendedTwice DEF KvPath, KvDir
  <2>2. KvPath(b)[Len(DataDir) + 2] = SanitizeKey(b)
    <3> DEFINE S == Names(SanitizeKey(b))
    <3>1. DataDir \in Seq(S) /\ "kv" \in S /\ SanitizeKey(b) \in S
      BY DirOfNames DEF Names
    <3> HIDE DEF S
    <3> QED BY <3>1, AppendedTwice DEF KvPath, KvDir
  <2> QED BY <2>1, <2>2
<1> DEFINE c(x) == IF x \in Safe THEN x ELSE "_"
<1>3. \A x, y : c(x) = c(y) <=> x = y \/ {x, y} \cap (Safe \ {"_"}) = {}
  <2> TAKE x, y
  <2>1. {x, y} \cap (Safe \ {"_"}) = {}
          <=> (x \notin Safe \/ x = "_") /\ (y \notin Safe \/ y = "_")
    BY Zenon
  <2>2. c(x) = c(y)
          <=> x = y \/ ((x \notin Safe \/ x = "_") /\ (y \notin Safe \/ y = "_"))
    OBVIOUS
  <2> HIDE DEF c
  <2> QED BY <2>1, <2>2
<1>4. /\ SanitizeKey(a) = [i \in 1 .. Len(a) |-> c(a[i])]
      /\ SanitizeKey(b) = [i \in 1 .. Len(b) |-> c(b[i])]
  BY <1>1 DEF SanitizeKey
<1> HIDE DEF c
<1>5. SanitizeKey(a) = SanitizeKey(b)
        <=> Len(a) = Len(b) /\ \A i \in 1 .. Len(a) : c(a[i]) = c(b[i])
  <2>1. ASSUME SanitizeKey(a) = SanitizeKey(b)
        PROVE  Len(a) = Len(b) /\ \A i \in 1 .. Len(a) : c(a[i]) = c(b[i])
    <3>1. 1 .. Len(a) = 1 .. Len(b)
      BY <1>4, <2>1
    <3>2. Len(a) = Len(b)
      <4> DEFINE n == Len(a)
                 m == Len(b)
      <4>1. n \in Nat /\ m \in Nat /\ \A i \in Nat : i \in 1 .. n <=> i \in 1 .. m
        BY <1>1, <3>1
      <4> HIDE DEF n, m
      <4>2. (n \in 1 .. n <=> n \in 1 .. m) /\ (m \in 1 .. n <=> m \in 1 .. m)
        BY <4>1
      <4>3. n = m
        BY <4>1, <4>2
      <4> QED BY <4>3 DEF n, m
    <3> QED BY <1>4, <2>1, <3>2
  <2>2. ASSUME Len(a) = Len(b), \A i \in 1 .. Len(a) : c(a[i]) = c(b[i])
        PROVE  SanitizeKey(a) = SanitizeKey(b)
    BY <1>4, <2>2
  <2> QED BY <2>1, <2>2
<1> QED BY <1>1, <1>2, <1>3, <1>5 DEF LooksLike

-----------------------------------------------------------------------------
(* States and steps                                                        *)

DiskFields == {"dirs", "key", "session", "queue", "kv"}
ProcFields == {"line", "env", "key", "session", "unread", "turn", "result"}

Starting == {"off", "boot", "rename", "dirs", "start"}
Working  == {"turn", "put", "save", "replace", "done"}
Ending   == {"quitting", "waiting"}

Types ==
  /\ pc \in Starting \cup Working \cup Ending
  /\ machine \in {<< >>} \cup MachineIds
  /\ runs \in Nat
  /\ DOMAIN disk = DiskFields
  /\ disk.session # Nothing => disk.session \in Seq(Nat)
  /\ pc # "off" =>
       /\ DOMAIN proc = ProcFields
       /\ proc.line \in CommandLines /\ proc.env \in EnvKeys
       /\ proc.session \in Seq(Nat)
  /\ pc = "put" => writing \in KvKeys
  /\ pc = "replace" => writing \in Seq(Nat)
  /\ puts \in Seq(KvKeys)

(* A step in which the process, if any, goes on with what it is about *)
SameProc ==
  /\ proc'.line = proc.line /\ proc'.env = proc.env
  /\ DOMAIN proc' = DOMAIN proc

(* Which steps change what *)
Changes ==
  /\ disk'.key = disk.key \/ RenameKey \/ DeleteKey
  /\ disk'.session = disk.session \/ ReplaceSession
  /\ disk'.kv = disk.kv \/ (\E key \in KvKeys : PutOpen(key)) \/ PutWrite
  /\ saved' = saved \/ RenameKey \/ DeleteKey
  /\ puts' = puts \/ PutWrite
  /\ spoilt' = spoilt \/ RenameKey \/ PutWrite \/ Kill \/ DeleteKey
  /\ machine' = machine \/ MachineIdWritten

LEMMA WithAgentFacts ==
  ASSUME Types, pc = "start", NEW key, NEW p \in WithAgent(key)
  PROVE  /\ DOMAIN p = ProcFields
         /\ p.line = proc.line /\ p.env = proc.env /\ p.key = key
         /\ p.session \in Seq(Nat)
         /\ p.line.persist /\ ~ p.unread /\ disk.session # Nothing => p.session = disk.session
<1>1. /\ DOMAIN proc = ProcFields /\ proc.session \in Seq(Nat)
      /\ disk.session # Nothing => disk.session \in Seq(Nat)
  BY DEF Types
<1> DEFINE fresh == [proc EXCEPT !.key = key]
<1>2. /\ DOMAIN fresh = ProcFields /\ fresh.line = proc.line /\ fresh.env = proc.env
      /\ fresh.key = key /\ fresh.session = proc.session
  BY <1>1 DEF ProcFields
<1>3. CASE disk.session = Nothing \/ ~ proc.line.persist
  BY <1>1, <1>2, <1>3 DEF WithAgent
<1>4. CASE ~ (disk.session = Nothing \/ ~ proc.line.persist)
  <2> HIDE DEF fresh
  <2>1. p \in {[fresh EXCEPT !.session = disk.session], [fresh EXCEPT !.unread = TRUE]}
    BY <1>4 DEF WithAgent, fresh
  <2>2. CASE p = [fresh EXCEPT !.session = disk.session]
    BY <1>1, <1>2, <1>4, <2>2 DEF ProcFields
  <2>3. CASE p = [fresh EXCEPT !.unread = TRUE]
    BY <1>1, <1>2, <1>4, <2>3 DEF ProcFields
  <2> QED BY <2>1, <2>2, <2>3
<1> QED BY <1>3, <1>4

(* What the steps up to the first turn do *)
LEMMA StartingSteps ==
  ASSUME Types, SaveKey \/ RenameKey \/ MakeDirs \/ StartAgent \/ StartDemo
  PROVE  Types' /\ Changes /\ SameProc
<1>1. CASE SaveKey
  BY <1>1 DEF SaveKey, Types, Changes, SameProc, DiskFields, Starting, Working, Ending
<1>2. CASE RenameKey
  BY <1>2 DEF RenameKey, Types, Changes, SameProc, DiskFields, Starting, Working, Ending
<1>3. CASE MakeDirs
  BY <1>3 DEF MakeDirs, Types, Changes, SameProc, DiskFields, Starting, Working, Ending
<1>4. CASE StartAgent
  <2>1. \/ pc' = "quitting" /\ UNCHANGED proc
        \/ pc' = "turn" /\ \E key : proc' \in WithAgent(key)
    BY <1>4 DEF StartAgent, QuitAtStart
  <2>2. pc = "start" /\ UNCHANGED <<disk, writing, machine, runs, saved, puts, spoilt>>
    BY <1>4 DEF StartAgent, QuitAtStart
  <2>3. CASE pc' = "quitting" /\ UNCHANGED proc
    BY <2>2, <2>3 DEF Types, Changes, SameProc, Starting, Working, Ending
  <2>4. ASSUME pc' = "turn", NEW key, proc' \in WithAgent(key)
        PROVE  Types' /\ Changes /\ SameProc
    <3>1. /\ DOMAIN proc' = ProcFields /\ proc'.line = proc.line /\ proc'.env = proc.env
          /\ proc'.session \in Seq(Nat)
      BY <2>2, <2>4, WithAgentFacts
    <3> QED BY <2>2, <2>4, <3>1 DEF Types, Changes, SameProc, Starting, Working, Ending
  <2> QED BY <2>1, <2>3, <2>4
<1>5. CASE StartDemo
  <2>1. PICK key, next, queue :
           /\ proc' \in WithAgent(key)
           /\ next \in {"quitting", "waiting", "turn"}
           /\ Queue(queue, next)
    BY <1>5 DEF StartDemo, AfterItem
  <2>2. pc = "start" /\ UNCHANGED <<writing, machine, runs, saved, puts, spoilt>>
    BY <1>5 DEF StartDemo
  <2>3. /\ DOMAIN proc' = ProcFields /\ proc'.line = proc.line /\ proc'.env = proc.env
        /\ proc'.session \in Seq(Nat)
    BY <2>1, <2>2, WithAgentFacts
  <2>4. disk' = [disk EXCEPT !.queue = queue] /\ pc' = next
    BY <2>1 DEF Queue
  <2> QED BY <2>1, <2>2, <2>3, <2>4
          DEF Types, Changes, SameProc, DiskFields, Starting, Working, Ending
<1> QED BY <1>1, <1>2, <1>3, <1>4, <1>5

(* What the steps of a turn do, and those after it *)
LEMMA WorkingSteps ==
  ASSUME Types, Turn \/ SaveSession \/ ReplaceSession \/ AfterTurn
  PROVE  Types' /\ Changes /\ SameProc
<1>1. CASE Turn
  <2>1. PICK result \in Outcomes :
           /\ proc' = [proc EXCEPT !.result = result, !.turn = @ + 1,
                         !.session = IF result = "ok" THEN Append(@, runs) ELSE @]
           /\ pc' = IF result = "ok" /\ proc.line.persist THEN "save" ELSE "done"
    BY <1>1 DEF Turn
  <2>2. pc = "turn" /\ UNCHANGED <<writing, disk, machine, runs, saved, puts, spoilt>>
    BY <1>1 DEF Turn
  <2>3. DOMAIN proc = ProcFields /\ proc.session \in Seq(Nat) /\ runs \in Nat
    BY <2>2 DEF Types
  <2>4. Append(proc.session, runs) \in Seq(Nat)
    BY <2>3, AppendProperties
  <2>5. /\ DOMAIN proc' = ProcFields /\ proc'.line = proc.line /\ proc'.env = proc.env
        /\ proc'.session = IF result = "ok" THEN Append(proc.session, runs) ELSE proc.session
    BY <2>1, <2>3 DEF ProcFields
  <2> QED BY <2>1, <2>2, <2>3, <2>4, <2>5 DEF Types, Changes, SameProc, Starting, Working, Ending
<1>2. CASE SaveSession
  BY <1>2 DEF SaveSession, Types, Changes, SameProc, DiskFields, Starting, Working, Ending
<1>3. CASE ReplaceSession
  BY <1>3 DEF ReplaceSession, Types, Changes, SameProc, DiskFields, Starting, Working, Ending
<1>4. CASE AfterTurn
  <2>1. PICK queue, next : next \in {"quitting", "turn"} /\ Queue(queue, next)
    BY <1>4 DEF AfterTurn, AfterItem
  <2>2. pc = "done" /\ UNCHANGED <<proc, writing, machine, runs, saved, puts, spoilt>>
    BY <1>4 DEF AfterTurn
  <2>3. disk' = [disk EXCEPT !.queue = queue] /\ pc' = next
    BY <2>1 DEF Queue
  <2> QED BY <2>1, <2>2, <2>3
          DEF Types, Changes, SameProc, DiskFields, Starting, Working, Ending
<1> QED BY <1>1, <1>2, <1>3, <1>4

(* What putString() does *)
LEMMA PutSteps ==
  ASSUME Types, (\E key \in KvKeys : PutOpen(key)) \/ PutWrite
  PROVE  Types' /\ Changes /\ SameProc
<1>1. ASSUME NEW key \in KvKeys, PutOpen(key)
      PROVE  Types' /\ Changes /\ SameProc
  <2>1. /\ pc = "turn" /\ UNCHANGED <<proc, machine, runs, saved, puts, spoilt>>
        /\ \/ UNCHANGED <<pc, writing>>
           \/ pc' = "put" /\ writing' = key
    BY <1>1 DEF PutOpen
  <2>2. DOMAIN disk' = DiskFields /\ disk'.key = disk.key /\ disk'.session = disk.session
    BY <1>1 DEF PutOpen, Types, DiskFields
  <2>3. Changes
    BY <1>1, <2>1, <2>2 DEF Changes
  <2> QED BY <2>1, <2>2, <2>3 DEF Types, SameProc, Starting, Working, Ending
<1>2. CASE PutWrite
  <2>1. /\ pc = "put" /\ pc' = "turn" /\ puts' = Append(puts, writing)
        /\ UNCHANGED <<proc, machine, runs, saved>>
    BY <1>2 DEF PutWrite
  <2>2. DOMAIN disk' = DiskFields /\ disk'.key = disk.key /\ disk'.session = disk.session
    BY <1>2 DEF PutWrite, Types, DiskFields
  <2>3. puts' \in Seq(KvKeys)
    BY <2>1, AppendProperties DEF Types
  <2>4. Changes
    BY <1>2, <2>1, <2>2 DEF Changes
  <2> QED BY <2>1, <2>2, <2>3, <2>4 DEF Types, SameProc, Starting, Working, Ending
<1> QED BY <1>1, <1>2

(* A process starts or ends; the device gets its id; the key is deleted. *)
LEMMA OtherSteps ==
  ASSUME Types,
         \/ \E line \in CommandLines, env \in EnvKeys : Boot(line, env)
         \/ Quit \/ Kill \/ DeleteKey \/ MachineIdWritten
  PROVE  Types' /\ Changes
<1>1. ASSUME NEW line \in CommandLines, NEW env \in EnvKeys, Boot(line, env)
      PROVE  Types' /\ Changes
  <2>1. << >> \in Seq(Nat)
    BY EmptySeq
  <2>2. runs \in Nat /\ runs' = runs + 1
    BY <1>1 DEF Boot, Types
  <2>3. /\ pc' = "boot" /\ UNCHANGED <<writing, disk, machine, saved, puts, spoilt>>
        /\ DOMAIN proc' = ProcFields /\ proc'.line = line /\ proc'.env = env
        /\ proc'.session = << >>
    BY <1>1 DEF Boot, ProcFields
  <2> QED BY <2>1, <2>2, <2>3 DEF Types, Changes, Starting, Working, Ending
<1>2. CASE Quit
  BY <1>2 DEF Quit, Off, Types, Changes, Starting
<1>3. CASE Kill
  BY <1>3 DEF Kill, Off, Types, Changes, Starting
<1>4. CASE DeleteKey
  BY <1>4 DEF DeleteKey, Types, Changes, DiskFields
<1>5. CASE MachineIdWritten
  BY <1>5 DEF MachineIdWritten, Types, Changes
<1> QED BY <1>1, <1>2, <1>3, <1>4, <1>5

LEMMA TypesStep ==
  ASSUME Types, [Next]_vars
  PROVE  Types' /\ Changes
<1>1. CASE UNCHANGED vars
  BY <1>1 DEF vars, Types, Changes
<1>2. CASE Next
  BY <1>2, StartingSteps, WorkingSteps, PutSteps, OtherSteps DEF Next, Process
<1> QED BY <1>1, <1>2

LEMMA InitialTypes == Init => Types
<1> SUFFICES ASSUME Init PROVE Types
  OBVIOUS
<1>1. << >> \in Seq(KvKeys)
  BY EmptySeq
<1> QED BY <1>1 DEF Init, Types, DiskFields, Starting

-----------------------------------------------------------------------------
(* The key                                                                 *)

(* The key that was saved last, and what its text is made with *)
Saved == [key : Seq(Byte), machine : {<< >>} \cup MachineIds]

(* All of a text, but for the newline perhaps *)
AllBut1(text, full) ==
  \E n \in Nat : n <= Len(full) /\ Len(full) - n <= 1 /\ text = SubSeq(full, 1, n)

KeyInv ==
  /\ pc = "rename" => proc.line.key # NoKey /\ writing \in Written(KeyText)
  /\ saved # Nothing => saved \in Saved /\ saved.key # NoKey
  /\ saved # Nothing /\ KeyPath \notin spoilt =>
       AllBut1(disk.key, KeyTextOf(saved.key, Pepper \o saved.machine))
  /\ disk.key # Nothing => saved # Nothing

LEMMA PepperFacts ==
  ASSUME NEW id \in {<< >>} \cup MachineIds
  PROVE  Pepper \o id \in Seq(Byte) /\ Pepper \o id # << >>
<1>1. id \in Seq(Byte) /\ Pepper \in Seq(Byte) /\ Pepper # << >>
  BY EmptySeq, AppConstants
<1>2. Len(Pepper) \in Nat /\ Len(Pepper) > 0 /\ Len(id) \in Nat
  BY <1>1, EmptySeq, LenProperties
<1>3. Pepper \o id \in Seq(Byte) /\ Len(Pepper \o id) = Len(Pepper) + Len(id)
  BY <1>1, ConcatProperties
<1>4. Pepper \o id # << >>
  BY <1>2, <1>3, EmptySeq
<1> QED BY <1>3, <1>4

(* What is written of a text is the beginning of it. *)
LEMMA WrittenFacts ==
  ASSUME NEW key \in Seq(Byte), NEW pepper \in Seq(Byte), pepper # << >>,
         NEW text \in Written(KeyTextOf(key, pepper)),
         Len(KeyTextOf(key, pepper)) - Len(text) <= 1
  PROVE  AllBut1(text, KeyTextOf(key, pepper))
<1> DEFINE data == XorWith(key, pepper)
           e == Base64Encode(data)
           full == Append(e, Blank)
           S == 0 .. Blank
<1>1. data \in Seq(Byte)
  BY XorWithTwice
<1>2. KeyTextOf(key, pepper) = full
  BY DEF KeyTextOf, Encode
<1> HIDE DEF data
<1>3. e \in Seq(0 .. Pad)
  BY <1>1, EncodedText
<1>4. e \in Seq(S)
  <2> DEFINE T == 0 .. Pad
  <2>1. T \subseteq S
    BY DEF Pad, Blank
  <2>2. e \in Seq(T)
    BY <1>3
  <2> HIDE DEF S, T, e
  <2>3. PICK k \in Nat : e \in [1 .. k -> T]
    BY <2>2, SeqDef
  <2>4. e \in [1 .. k -> S]
    BY <2>1, <2>3
  <2> QED BY <2>4, SeqDef
<1>5. Blank \in S
  BY DEF Blank
<1> HIDE DEF S, e
<1>6. full \in Seq(S)
  BY <1>4, <1>5, AppendProperties
<1> HIDE DEF full
<1>7. Len(full) \in Nat
  BY <1>6, LenProperties
<1>8. PICK n \in 0 .. Len(full) : text = SubSeq(full, 1, n)
  BY <1>2 DEF Written
<1>9. Len(text) = n
  <2>1. \A i \in 1 .. n : full[i] \in S
    BY <1>6, <1>7, ElementOfSeq
  <2>2. Len(text) = IF 1 <= n THEN n - 1 + 1 ELSE 0
    BY <1>7, <1>8, <2>1, SubSeqProperties
  <2> QED BY <2>2
<1>10. n \in Nat /\ n <= Len(full) /\ Len(full) - n <= 1
  BY <1>2, <1>7, <1>9
<1> QED BY <1>2, <1>8, <1>10 DEF AllBut1

LEMMA KeyLoads ==
  ASSUME Types, KeyInv
  PROVE  SavedKeyLoads
<1> SUFFICES ASSUME KeyPath \notin spoilt, saved # Nothing, saved.machine = machine
             PROVE  Decode(disk.key, FilePepper) = saved.key
  BY DEF SavedKeyLoads
<1> DEFINE pepper == Pepper \o saved.machine
           full == KeyTextOf(saved.key, pepper)
<1>1. /\ saved.key \in Seq(Byte) /\ saved.key # NoKey
      /\ saved.machine \in {<< >>} \cup MachineIds
  BY DEF KeyInv, Saved
<1>2. pepper \in Seq(Byte) /\ pepper # << >> /\ FilePepper = pepper
  BY <1>1, PepperFacts DEF FilePepper
<1>3. PICK n \in Nat :
         n <= Len(full) /\ Len(full) - n <= 1 /\ disk.key = SubSeq(full, 1, n)
  BY DEF KeyInv, AllBut1
<1> HIDE DEF pepper
<1>4. Decode(disk.key, pepper) = saved.key
  BY <1>1, <1>2, <1>3, KeyComesBack
<1> QED BY <1>2, <1>4

LEMMA KeyInvStep ==
  ASSUME Types, KeyInv, [Next]_vars
  PROVE  KeyInv'
<1>1. Types' /\ Changes
  BY TypesStep
<1>2. CASE SaveKey
  <2>1. /\ UNCHANGED <<proc, machine, saved, spoilt>>
        /\ pc' = "dirs" \/ (pc' = "rename" /\ writing' \in Written(KeyText))
        /\ Saves
    BY <1>2 DEF SaveKey
  <2>2. disk'.key = disk.key
    BY <1>2 DEF SaveKey, Types, DiskFields
  <2>3. KeyText' = KeyText
    BY <2>1 DEF KeyText, FilePepper
  <2>4. pc' = "rename" => proc'.line.key # NoKey /\ writing' \in Written(KeyText')
    BY <2>1, <2>3 DEF Saves
  <2>5. Written(KeyText') = Written(KeyText)'
    BY DEF Written
  <2> QED BY <2>1, <2>2, <2>4, <2>5 DEF KeyInv
<1>3. CASE RenameKey
  <2>1. /\ pc = "rename" /\ pc' = "dirs" /\ UNCHANGED <<proc, machine>>
        /\ \/ UNCHANGED <<disk, saved, spoilt>>
           \/ /\ disk' = [disk EXCEPT !.key = writing]
              /\ saved' = [key |-> proc.line.key, machine |-> machine]
              /\ spoilt' = IF Whole(writing) THEN spoilt \ {KeyPath} ELSE spoilt \cup {KeyPath}
    BY <1>3 DEF RenameKey
  <2>2. CASE UNCHANGED <<disk, saved, spoilt>>
    BY <2>1, <2>2 DEF KeyInv
  <2>3. CASE /\ disk' = [disk EXCEPT !.key = writing]
             /\ saved' = [key |-> proc.line.key, machine |-> machine]
             /\ spoilt' = IF Whole(writing) THEN spoilt \ {KeyPath} ELSE spoilt \cup {KeyPath}
    <3> DEFINE key == proc.line.key
               pepper == Pepper \o machine
    <3>1. /\ proc.line.key \in Seq(Byte) /\ machine \in {<< >>} \cup MachineIds
          /\ proc.line.key # NoKey /\ writing \in Written(KeyText)
      BY <2>1, AppConstants DEF Types, KeyInv
    <3>2. pepper \in Seq(Byte) /\ pepper # << >>
      BY <3>1, PepperFacts
    <3>3. KeyText = KeyTextOf(key, pepper)
      BY DEF KeyText, KeyTextOf, FilePepper
    <3>4. disk'.key = writing /\ saved'.key = key /\ Pepper \o saved'.machine = pepper
      BY <2>3 DEF Types, DiskFields
    <3>5. saved' \in Saved /\ saved' # Nothing /\ saved'.key # NoKey
      <4>1. saved' \in Saved
        BY <2>3, <3>1 DEF Saved
      <4>2. saved' \in [key : Seq(Byte), machine : Seq(Byte)]
        <5>1. machine \in Seq(Byte)
          BY <3>1, EmptySeq, AppConstants
        <5> QED BY <2>3, <3>1, <5>1
      <4> QED BY <3>1, <3>4, <4>1, <4>2, AppConstants
    <3>6. KeyPath \notin spoilt' =>
            AllBut1(disk'.key, KeyTextOf(saved'.key, Pepper \o saved'.machine))
      <4> SUFFICES ASSUME KeyPath \notin spoilt'
                   PROVE  AllBut1(writing, KeyTextOf(key, pepper))
        BY <3>4
      <4>1. Whole(writing)
        BY <2>3
      <4>2. Len(KeyTextOf(key, pepper)) - Len(writing) <= 1
        BY <3>3, <4>1 DEF Whole
      <4>3. key \in Seq(Byte) /\ writing \in Written(KeyTextOf(key, pepper))
        BY <3>1, <3>3
      <4> HIDE DEF key, pepper
      <4> QED BY <3>2, <4>2, <4>3, WrittenFacts
    <3>7. Pepper' = Pepper
      OBVIOUS
    <3> HIDE DEF key, pepper
    <3> QED BY <2>1, <3>5, <3>6 DEF KeyInv
  <2> QED BY <2>1, <2>2, <2>3
<1>4. CASE DeleteKey
  BY <1>4 DEF DeleteKey, KeyInv, Types, DiskFields
<1>5. CASE ~ SaveKey /\ ~ RenameKey /\ ~ DeleteKey
  <2>1. disk'.key = disk.key /\ saved' = saved
    BY <1>1, <1>5 DEF Changes
  <2>2. KeyPath \in spoilt' <=> KeyPath \in spoilt
    <3>1. CASE spoilt' = spoilt
      BY <3>1
    <3>2. CASE PutWrite
      BY <3>2, KvIsNotKey DEF PutWrite
    <3>3. CASE Kill
      BY <3>3, KvIsNotKey DEF Kill
    <3> QED BY <1>1, <1>5, <3>1, <3>2, <3>3 DEF Changes
  <2>3. pc' # "rename" \/ UNCHANGED <<pc, proc, writing, machine>>
    <3>1. CASE UNCHANGED vars
      BY <3>1 DEF vars
    <3>2. CASE Next
      BY <1>5, <3>2 DEF Next, Process, Boot, MakeDirs, StartAgent, StartDemo, QuitAtStart,
                        Queue, AfterItem, Turn, SaveSession, ReplaceSession, AfterTurn, Quit,
                        PutWrite, PutOpen, Kill, Off, MachineIdWritten
    <3> QED BY <3>1, <3>2
  <2>4. pc' = "rename" => proc'.line.key # NoKey /\ writing' \in Written(KeyText)'
    <3> SUFFICES ASSUME pc' = "rename"
                 PROVE  proc'.line.key # NoKey /\ writing' \in Written(KeyText)'
      OBVIOUS
    <3>1. UNCHANGED <<pc, proc, writing, machine>>
      BY <2>3
    <3>2. Written(KeyText)' = Written(KeyText)
      BY <3>1 DEF Written, KeyText, FilePepper
    <3> QED BY <3>1, <3>2 DEF KeyInv
  <2> QED BY <2>1, <2>2, <2>4 DEF KeyInv
<1> QED BY <1>2, <1>3, <1>4, <1>5

LEMMA InitialKey == Init => KeyInv
BY DEF Init, KeyInv

(* The key file gives the key that was saved last, whole, after any number *)
(* of runs, of which any may have been killed while it saved another:      *)
(* EaFileStorage::saveApiKey() renames, and the obfuscator loses nothing.  *)
THEOREM KeySurvives == FairSpec => []SavedKeyLoads
<1>1. Types /\ KeyInv => SavedKeyLoads
  BY KeyLoads
<1>2. Init => Types /\ KeyInv
  BY InitialTypes, InitialKey
<1>3. Types /\ KeyInv /\ [Next]_vars => (Types /\ KeyInv)'
  BY TypesStep, KeyInvStep
<1> QED BY <1>1, <1>2, <1>3, PTL DEF FairSpec

(* A process that works goes on with what it found when it started. *)
LEMMA WorkingOn ==
  ASSUME Types, [Next]_vars, pc' \in Working, ~ StartAgent, ~ StartDemo
  PROVE  /\ pc \in Working
         /\ proc'.line = proc.line /\ proc'.env = proc.env
         /\ proc'.key = proc.key /\ proc'.unread = proc.unread
         /\ proc'.session = proc.session \/ Turn
         /\ saved' = saved /\ machine' = machine
         /\ KeyPath \in spoilt' <=> KeyPath \in spoilt
<1>1. CASE UNCHANGED vars
  BY <1>1 DEF vars
<1>2. CASE Turn
  <2>1. PICK result :
           proc' = [proc EXCEPT !.result = result, !.turn = @ + 1,
                      !.session = IF result = "ok" THEN Append(@, runs) ELSE @]
    BY <1>2 DEF Turn
  <2>2. pc = "turn" /\ UNCHANGED <<machine, saved, spoilt>>
    BY <1>2 DEF Turn
  <2>3. DOMAIN proc = ProcFields
    BY <2>2 DEF Types
  <2>4. /\ proc'.line = proc.line /\ proc'.env = proc.env
        /\ proc'.key = proc.key /\ proc'.unread = proc.unread
    BY <2>1, <2>3 DEF ProcFields
  <2> QED BY <1>2, <2>2, <2>4 DEF Working
<1>3. CASE SaveSession
  BY <1>3 DEF SaveSession, Working
<1>4. CASE ReplaceSession
  BY <1>4 DEF ReplaceSession, Working
<1>5. CASE AfterTurn
  BY <1>5 DEF AfterTurn, Working
<1>6. ASSUME NEW key \in KvKeys, PutOpen(key)
      PROVE  pc = "turn" /\ UNCHANGED <<proc, saved, machine, spoilt>>
  BY <1>6 DEF PutOpen
<1>7. CASE PutWrite
  BY <1>7, KvIsNotKey DEF PutWrite, Working
<1>8. CASE SaveKey \/ RenameKey \/ MakeDirs \/ Quit \/ Kill \/ DeleteKey \/ MachineIdWritten
           \/ \E line \in CommandLines, env \in EnvKeys : Boot(line, env)
  BY <1>8 DEF SaveKey, RenameKey, MakeDirs, Quit, Kill, Off, DeleteKey, MachineIdWritten, Boot,
              Working
<1> QED BY <1>1, <1>2, <1>3, <1>4, <1>5, <1>6, <1>7, <1>8 DEF Next, Process, Working

(* The key of the command line, of the environment, or the one saved last  *)
KeyOf(key, line, env) ==
  \/ key = line.key /\ key # NoKey
  \/ line.key = NoKey /\ key = env /\ key # NoKey
  \/ /\ line.key = NoKey /\ env = NoKey
     /\ saved # Nothing
     /\ key = saved.key \/ saved.machine # machine

KeyUsed ==
  pc \in Working /\ ~ proc.line.mock /\ KeyPath \notin spoilt =>
    \/ KeyOf(proc.key, proc.line, proc.env)
    \/ proc.key = NoKey /\ proc.line.app = "offline_queue_demo"

LEMMA KeyFound ==
  ASSUME Types, KeyInv, KeyPath \notin spoilt, NEW line, NEW env,
         NEW key \in ResolveApiKey(line.key, env), key # NoKey
  PROVE  KeyOf(key, line, env)
<1>1. SavedKeyLoads
  BY KeyLoads
<1>2. CASE line.key # NoKey
  BY <1>2 DEF ResolveApiKey, KeyOf
<1>3. CASE line.key = NoKey /\ env # NoKey
  BY <1>3 DEF ResolveApiKey, KeyOf
<1>4. CASE line.key = NoKey /\ env = NoKey
  <2>1. key \in LoadApiKey
    BY <1>4 DEF ResolveApiKey
  <2>2. disk.key # Nothing /\ key = Decode(disk.key, FilePepper)
    BY <2>1 DEF LoadApiKey
  <2>3. saved # Nothing
    BY <2>2 DEF KeyInv
  <2> QED BY <1>1, <1>4, <2>2, <2>3 DEF SavedKeyLoads, KeyOf
<1> QED BY <1>2, <1>3, <1>4

LEMMA KeyUsedStep ==
  ASSUME Types, KeyInv, KeyUsed, [Next]_vars
  PROVE  KeyUsed'
<1> SUFFICES ASSUME pc' \in Working, ~ proc'.line.mock, KeyPath \notin spoilt'
             PROVE  \/ KeyOf(proc.key, proc.line, proc.env)'
                    \/ proc'.key = NoKey /\ proc'.line.app = "offline_queue_demo"
  BY DEF KeyUsed
<1>1. CASE StartAgent
  <2>1. /\ pc = "start" /\ pc' # "quitting"
        /\ UNCHANGED <<saved, machine, spoilt>>
    BY <1>1 DEF StartAgent, Working
  <2>2. \/ /\ proc.line.mock /\ proc' \in WithAgent(NoKey)
        \/ \E key \in ResolveApiKey(proc.line.key, proc.env) :
              key # NoKey /\ proc' \in WithAgent(key)
    BY <1>1, <2>1 DEF StartAgent, QuitAtStart
  <2>3. CASE proc.line.mock /\ proc' \in WithAgent(NoKey)
    <3>1. proc'.line = proc.line
      BY <2>1, <2>3, WithAgentFacts
    <3> QED BY <2>3, <3>1
  <2>4. ASSUME NEW key \in ResolveApiKey(proc.line.key, proc.env),
               key # NoKey, proc' \in WithAgent(key)
        PROVE  KeyOf(proc.key, proc.line, proc.env)'
    <3>1. proc'.line = proc.line /\ proc'.env = proc.env /\ proc'.key = key
      BY <2>1, <2>4, WithAgentFacts
    <3>2. KeyOf(key, proc.line, proc.env)
      BY <2>1, <2>4, KeyFound
    <3> QED BY <2>1, <3>1, <3>2 DEF KeyOf
  <2> QED BY <2>2, <2>3, <2>4
<1>2. CASE StartDemo
  <2>1. /\ pc = "start" /\ proc.line.app = "offline_queue_demo"
        /\ UNCHANGED <<saved, machine, spoilt>>
    BY <1>2 DEF StartDemo
  <2>2. PICK key \in IF proc.line.mock THEN {NoKey} ELSE ResolveApiKey(proc.line.key, proc.env) :
           proc' \in WithAgent(key)
    BY <1>2 DEF StartDemo
  <2>3. proc'.line = proc.line /\ proc'.env = proc.env /\ proc'.key = key
    BY <2>1, <2>2, WithAgentFacts
  <2>4. CASE key = NoKey
    BY <2>1, <2>3, <2>4
  <2>5. CASE key # NoKey
    <3>1. key \in ResolveApiKey(proc.line.key, proc.env)
      BY <2>2, <2>3
    <3>2. KeyOf(key, proc.line, proc.env)
      BY <2>1, <2>5, <3>1, KeyFound
    <3> QED BY <2>1, <2>3, <3>2 DEF KeyOf
  <2> QED BY <2>4, <2>5
<1>3. CASE ~ StartAgent /\ ~ StartDemo
  <2>1. /\ pc \in Working
        /\ proc'.line = proc.line /\ proc'.env = proc.env /\ proc'.key = proc.key
        /\ saved' = saved /\ machine' = machine
        /\ KeyPath \notin spoilt
    BY <1>3, WorkingOn
  <2> QED BY <2>1 DEF KeyUsed, KeyOf
<1> QED BY <1>1, <1>2, <1>3

(* A turn with a server uses the key of the command line, or else of the   *)
(* environment, or else the one that an earlier run saved:                 *)
(* EaRuntimeConfig::resolveApiKey(), whatever became of the runs between.  *)
THEOREM KeysComeInOrder == FairSpec => []KeyInUse
<1> DEFINE Inv == Types /\ KeyInv /\ KeyUsed
<1>1. Inv => KeyInUse
  BY DEF KeyUsed, KeyInUse, KeyOf, Working
<1>2. Init => Inv
  BY InitialTypes, InitialKey DEF Init, KeyUsed, Working
<1>3. Inv /\ [Next]_vars => Inv'
  BY TypesStep, KeyInvStep, KeyUsedStep
<1> HIDE DEF Inv
<1> QED BY <1>1, <1>2, <1>3, PTL DEF FairSpec

-----------------------------------------------------------------------------
(* The session                                                             *)

LEMMA PrefixSelf ==
  ASSUME NEW s \in Seq(Nat)
  PROVE  IsPrefix(s, s)
<1>1. Len(s) \in Nat
  BY LenProperties
<1> QED BY <1>1 DEF IsPrefix

LEMMA PrefixAppend ==
  ASSUME NEW s \in Seq(Nat), NEW t \in Seq(Nat), IsPrefix(s, t), NEW x \in Nat
  PROVE  IsPrefix(s, Append(t, x))
<1> DEFINE n == Len(s)
           u == Append(t, x)
<1>1. n \in Nat /\ Len(t) \in Nat /\ n <= Len(t) /\ SubSeq(s, 1, n) = SubSeq(t, 1, n)
  BY LenProperties DEF IsPrefix
<1>2. /\ u \in Seq(Nat) /\ Len(u) = Len(t) + 1
      /\ \A i \in 1 .. Len(t) : u[i] = t[i]
  BY AppendProperties
<1> HIDE DEF n, u
<1> DEFINE a == SubSeq(t, 1, n)
           b == SubSeq(u, 1, n)
<1>3. /\ \A i \in 1 .. n : t[i] \in Nat
      /\ \A i \in 1 .. n : u[i] \in Nat
  <2>1. \A i \in 1 .. n : i \in 1 .. Len(t) /\ i \in 1 .. Len(u)
    BY <1>1, <1>2
  <2>2. \A i \in 1 .. n : t[i] \in Nat
    BY <2>1, ElementOfSeq
  <2>3. \A i \in 1 .. n : u[i] \in Nat
    BY <1>2, <2>1, ElementOfSeq
  <2> QED BY <2>2, <2>3
<1>4. /\ a \in Seq(Nat) /\ Len(a) = n /\ \A i \in 1 .. n : a[i] = t[i]
  <2>1. /\ a \in Seq(Nat)
        /\ Len(a) = IF 1 <= n THEN n - 1 + 1 ELSE 0
        /\ \A i \in 1 .. n - 1 + 1 : a[i] = t[1 + i - 1]
    BY <1>1, <1>3, SubSeqProperties
  <2> HIDE DEF a
  <2> QED BY <1>1, <2>1
<1>5. /\ b \in Seq(Nat) /\ Len(b) = n /\ \A i \in 1 .. n : b[i] = u[i]
  <2>1. /\ b \in Seq(Nat)
        /\ Len(b) = IF 1 <= n THEN n - 1 + 1 ELSE 0
        /\ \A i \in 1 .. n - 1 + 1 : b[i] = u[1 + i - 1]
    BY <1>1, <1>2, <1>3, SubSeqProperties
  <2> HIDE DEF b
  <2> QED BY <1>1, <2>1
<1> HIDE DEF a, b
<1>6. \A i \in 1 .. Len(a) : a[i] = b[i]
  <2> TAKE i \in 1 .. Len(a)
  <2>1. i \in 1 .. n /\ i \in 1 .. Len(t)
    BY <1>1, <1>4
  <2> QED BY <1>2, <1>4, <1>5, <2>1
<1>7. a = b
  BY <1>4, <1>5, <1>6, SeqEqual
<1>8. n <= Len(u)
  BY <1>1, <1>2
<1> QED BY <1>1, <1>7, <1>8 DEF IsPrefix, a, b, n, u

SessionInv ==
  /\ pc \in Working /\ proc.line.persist /\ ~ proc.unread /\ disk.session # Nothing =>
       IsPrefix(disk.session, proc.session)
  /\ pc \in {"save", "replace"} => proc.line.persist
  /\ pc = "replace" => writing = proc.session

(* A step that writes no session, and whose session goes on from the one   *)
(* there is, keeps it so.                                                  *)
LEMMA SessionInvStep ==
  ASSUME Types, SessionInv, [Next]_vars
  PROVE  SessionInv'
<1>1. Types' /\ Changes
  BY TypesStep
<1>2. CASE StartAgent \/ StartDemo
  <2>1. /\ pc = "start" /\ UNCHANGED writing /\ disk'.session = disk.session
        /\ pc' \notin {"save", "replace"}
        /\ pc' \in Working => \E key : proc' \in WithAgent(key)
    <3>1. CASE StartAgent
      BY <3>1 DEF StartAgent, QuitAtStart, Working
    <3>2. CASE StartDemo
      BY <3>2 DEF StartDemo, Queue, AfterItem, Types, DiskFields
    <3> QED BY <1>2, <3>1, <3>2
  <2>2. ASSUME pc' \in Working, proc'.line.persist, ~ proc'.unread, disk'.session # Nothing
        PROVE  IsPrefix(disk'.session, proc'.session)
    <3>1. PICK key : proc' \in WithAgent(key)
      BY <2>1, <2>2
    <3>2. proc'.session = disk.session
      BY <2>1, <2>2, <3>1, WithAgentFacts
    <3>3. disk.session \in Seq(Nat)
      BY <2>1, <2>2 DEF Types
    <3> QED BY <2>1, <3>2, <3>3, PrefixSelf
  <2> QED BY <2>1, <2>2 DEF SessionInv
<1>3. CASE Turn
  <2>1. PICK result \in Outcomes :
           /\ proc' = [proc EXCEPT !.result = result, !.turn = @ + 1,
                         !.session = IF result = "ok" THEN Append(@, runs) ELSE @]
           /\ pc' = IF result = "ok" /\ proc.line.persist THEN "save" ELSE "done"
    BY <1>3 DEF Turn
  <2>2. pc = "turn" /\ UNCHANGED <<disk, runs>>
    BY <1>3 DEF Turn
  <2>3. DOMAIN proc = ProcFields /\ proc.session \in Seq(Nat) /\ runs \in Nat
    BY <2>2 DEF Types
  <2>4. /\ proc'.line = proc.line /\ proc'.unread = proc.unread
        /\ proc'.session \in {proc.session, Append(proc.session, runs)}
    BY <2>1, <2>3 DEF ProcFields
  <2>5. ASSUME proc.line.persist, ~ proc.unread, disk.session # Nothing
        PROVE  IsPrefix(disk.session, proc'.session)
    <3>1. IsPrefix(disk.session, proc.session) /\ disk.session \in Seq(Nat)
      BY <2>2, <2>5 DEF SessionInv, Types, Working
    <3>2. IsPrefix(disk.session, Append(proc.session, runs))
      BY <2>3, <3>1, PrefixAppend
    <3> QED BY <2>4, <3>1, <3>2
  <2> QED BY <2>1, <2>2, <2>4, <2>5 DEF SessionInv
<1>4. CASE SaveSession
  <2>1. /\ pc = "save" /\ UNCHANGED proc
        /\ pc' = "done" \/ (pc' = "replace" /\ writing' = proc.session)
    BY <1>4 DEF SaveSession
  <2>2. disk'.session = disk.session
    BY <1>4 DEF SaveSession, Types, DiskFields
  <2> QED BY <2>1, <2>2 DEF SessionInv, Working
<1>5. CASE ReplaceSession
  <2>1. /\ pc = "replace" /\ pc' = "done" /\ UNCHANGED proc
        /\ disk'.session \in {disk.session, writing}
    BY <1>5 DEF ReplaceSession, Types, DiskFields
  <2>2. writing = proc.session /\ proc.session \in Seq(Nat)
    BY <2>1 DEF SessionInv, Types
  <2>3. IsPrefix(proc.session, proc.session)
    BY <2>2, PrefixSelf
  <2> QED BY <2>1, <2>2, <2>3 DEF SessionInv, Working
<1>6. CASE ~ StartAgent /\ ~ StartDemo /\ ~ Turn /\ ~ SaveSession /\ ~ ReplaceSession
  <2>1. disk'.session = disk.session
    BY <1>1, <1>6 DEF Changes
  <2>2. pc' \in Working =>
           /\ pc \in Working
           /\ proc'.line = proc.line /\ proc'.unread = proc.unread
           /\ proc'.session = proc.session
    BY <1>6, WorkingOn
  <2>3. pc' \in {"save", "replace"} => UNCHANGED <<pc, writing>>
    <3>1. CASE UNCHANGED vars
      BY <3>1 DEF vars
    <3>2. CASE Next
      BY <1>6, <3>2 DEF Next, Process, Boot, SaveKey, RenameKey, MakeDirs, AfterTurn, AfterItem,
                        Queue, Quit, PutWrite, PutOpen, Kill, Off, MachineIdWritten, DeleteKey
    <3> QED BY <3>1, <3>2
  <2> QED BY <2>1, <2>2, <2>3 DEF SessionInv, Working
<1> QED BY <1>2, <1>3, <1>4, <1>5, <1>6

(* A session on disk only grows, whichever runs fail or are killed:        *)
(* saveSession() puts a whole file in place, and withAgent() begins with   *)
(* the session it loads.  A run that could not read it is the exception.   *)
THEOREM SessionGrows == FairSpec => SessionKept
<1> DEFINE Grows == disk.session # disk'.session /\ disk.session # Nothing
                      => proc.unread \/ IsPrefix(disk.session, disk'.session)
<1>1. Init => Types /\ SessionInv
  BY InitialTypes DEF Init, SessionInv, Working
<1>2. Types /\ SessionInv /\ [Next]_vars => (Types /\ SessionInv)'
  BY TypesStep, SessionInvStep
<1>3. Types /\ SessionInv /\ [Next]_vars => [Grows]_vars
  <2> SUFFICES ASSUME Types, SessionInv, [Next]_vars,
                      disk.session # disk'.session, disk.session # Nothing, ~ proc.unread
               PROVE  IsPrefix(disk.session, disk'.session)
    OBVIOUS
  <2>1. ReplaceSession
    BY TypesStep DEF Changes
  <2>2. pc = "replace" /\ disk'.session = writing
    BY <2>1 DEF ReplaceSession, Types, DiskFields
  <2> QED BY <2>2 DEF SessionInv, Working
<1> QED BY <1>1, <1>2, <1>3, PTL DEF FairSpec, SessionKept

-----------------------------------------------------------------------------
(* The values                                                              *)

(* GetString, of any values. *)
ValueIn(kv, path) == IF path \in DOMAIN kv THEN kv[path] ELSE Nothing

ValuesInv ==
  /\ LastPutStays
  /\ pc = "put" => KvPath(writing) \in DOMAIN disk.kv

(* Nothing but another value comes between a value and its reader. *)
LEMMA ValuesInvStep ==
  ASSUME Types, ValuesInv, [Next]_vars
  PROVE  ValuesInv'
<1>1. Types' /\ Changes
  BY TypesStep
<1>2. \A n \in DOMAIN puts : n \in 1 .. Len(puts) /\ puts[n] \in KvKeys
  BY ElementOfSeq, LenProperties DEF Types
<1>3. Len(puts) \in Nat /\ DOMAIN puts = 1 .. Len(puts)
  BY LenProperties DEF Types
<1>4. ASSUME NEW key \in KvKeys, PutOpen(key)
      PROVE  ValuesInv'
  <2>1. pc = "turn" /\ UNCHANGED <<puts, spoilt>>
    BY <1>4 DEF PutOpen
  <2>2. CASE disk'.kv = disk.kv /\ pc' = "turn"
    BY <2>1, <2>2 DEF ValuesInv, LastPutStays, GetString
  <2>3. CASE disk'.kv = Truncated(KvPath(key)) /\ writing' = key /\ pc' = "put"
    <3>1. KvPath(key) \in DOMAIN disk'.kv
      BY <2>3 DEF Truncated
    <3>2. ASSUME NEW n \in DOMAIN puts,
                 \A m \in n + 1 .. Len(puts) : ~ LooksLike(puts[m], puts[n]),
                 KvPath(puts[n]) \notin spoilt,
                 ~ LooksLike(key, puts[n])
          PROVE  GetString(puts[n])' = n
      <4> DEFINE path == KvPath(puts[n])
      <4>1. path # KvPath(key)
        BY <1>2, <1>4, <3>2, SamePath
      <4>2. GetString(puts[n]) = n
        BY <2>1, <3>2 DEF ValuesInv, LastPutStays
      <4> HIDE DEF path
      <4>3. /\ path \in DOMAIN disk'.kv <=> path \in DOMAIN disk.kv
            /\ path \in DOMAIN disk.kv => disk'.kv[path] = disk.kv[path]
        BY <2>3, <4>1 DEF Truncated
      <4> QED BY <2>1, <4>2, <4>3 DEF GetString, path
    <3> QED BY <2>1, <2>3, <3>1, <3>2 DEF ValuesInv, LastPutStays
  <2>4. \/ disk'.kv = disk.kv /\ pc' = "turn"
        \/ disk'.kv = Truncated(KvPath(key)) /\ writing' = key /\ pc' = "put"
    BY <1>4, <2>1 DEF PutOpen, Types, DiskFields
  <2> QED BY <2>2, <2>3, <2>4
<1>5. CASE PutWrite
  <2> DEFINE path == KvPath(writing)
             k == Len(puts)
  <2>1. /\ pc = "put" /\ pc' = "turn" /\ puts' = Append(puts, writing) /\ writing \in KvKeys
        /\ path \in DOMAIN disk.kv
    BY <1>5 DEF PutWrite, Types, ValuesInv
  <2>2. /\ Len(puts') = k + 1 /\ DOMAIN puts' = 1 .. k + 1
        /\ puts'[k + 1] = writing
        /\ \A n \in 1 .. k : puts'[n] = puts[n]
    <3>1. /\ puts' \in Seq(KvKeys) /\ Len(puts') = k + 1 /\ puts'[k + 1] = writing
          /\ \A n \in 1 .. k : puts'[n] = puts[n]
      BY <2>1, AppendProperties DEF Types
    <3>2. DOMAIN puts' = 1 .. Len(puts')
      BY <3>1, LenProperties
    <3> QED BY <3>1, <3>2
  <2>3. \/ /\ disk'.kv = [disk.kv EXCEPT ![path] = k + 1]
           /\ spoilt' = spoilt \ {path}
        \/ /\ disk'.kv = disk.kv
           /\ spoilt' = spoilt \cup {path}
    BY <1>5, <2>2 DEF PutWrite, Types, DiskFields
  <2>4. ASSUME NEW n \in 1 .. k + 1,
               \A m \in n + 1 .. k + 1 : ~ LooksLike(puts'[m], puts'[n]),
               KvPath(puts'[n]) \notin spoilt'
        PROVE  ValueIn(disk'.kv, KvPath(puts'[n])) = n
    <3>1. CASE n = k + 1
      <4>1. KvPath(puts'[n]) = path
        BY <2>2, <3>1
      <4>2. disk'.kv = [disk.kv EXCEPT ![path] = k + 1]
        BY <2>3, <2>4, <4>1
      <4> HIDE DEF path
      <4>3. path \in DOMAIN disk'.kv /\ disk'.kv[path] = n
        BY <2>1, <3>1, <4>2
      <4> QED BY <4>1, <4>3 DEF ValueIn
    <3>2. CASE n # k + 1
      <4>1. n \in 1 .. k /\ puts'[n] = puts[n] /\ puts[n] \in KvKeys
        BY <1>2, <1>3, <2>2, <3>2
      <4>2. ~ LooksLike(writing, puts[n])
        <5>1. k + 1 \in n + 1 .. k + 1
          BY <1>3, <4>1
        <5> QED BY <2>2, <2>4, <4>1, <5>1
      <4>3. KvPath(puts[n]) # path
        BY <2>1, <4>1, <4>2, SamePath
      <4>4. KvPath(puts[n]) \notin spoilt
        BY <2>3, <2>4, <4>1, <4>3
      <4>5. \A m \in n + 1 .. Len(puts) : ~ LooksLike(puts[m], puts[n])
        <5> TAKE m \in n + 1 .. Len(puts)
        <5>1. m \in n + 1 .. k + 1 /\ m \in 1 .. k
          BY <1>3, <4>1
        <5> QED BY <2>2, <2>4, <4>1, <5>1
      <4>6. GetString(puts[n]) = n
        BY <1>3, <4>1, <4>2, <4>4, <4>5 DEF ValuesInv, LastPutStays
      <4> DEFINE file == KvPath(puts[n])
      <4>7. file # path
        BY <4>3
      <4> HIDE DEF file, path
      <4>8. /\ file \in DOMAIN disk'.kv <=> file \in DOMAIN disk.kv
            /\ file \in DOMAIN disk.kv => disk'.kv[file] = disk.kv[file]
        BY <2>3, <4>7
      <4>9. ValueIn(disk.kv, file) = n
        BY <4>6 DEF GetString, ValueIn, file
      <4>10. ValueIn(disk'.kv, file) = n
        BY <4>8, <4>9 DEF ValueIn
      <4> QED BY <4>1, <4>10 DEF file
    <3> QED BY <3>1, <3>2
  <2> HIDE DEF path, k
  <2> QED BY <2>1, <2>2, <2>4 DEF ValuesInv, LastPutStays, GetString, ValueIn
<1>6. CASE ~ (\E key \in KvKeys : PutOpen(key)) /\ ~ PutWrite
  <2>1. disk'.kv = disk.kv /\ puts' = puts
    BY <1>1, <1>6 DEF Changes
  <2>2. CASE Kill /\ pc = "put"
    <3>1. spoilt' = spoilt \cup {KvPath(writing)} /\ pc' = "off" /\ writing \in KvKeys
      BY <2>2 DEF Kill, Off, Types
    <3>2. ASSUME NEW n \in DOMAIN puts,
                 \A m \in n + 1 .. Len(puts) : ~ LooksLike(puts[m], puts[n]),
                 KvPath(puts[n]) \notin spoilt'
          PROVE  GetString(puts[n])' = n
      <4>1. KvPath(puts[n]) \notin spoilt /\ KvPath(puts[n]) # KvPath(writing)
        BY <3>1, <3>2
      <4>2. ~ LooksLike(writing, puts[n])
        BY <1>2, <3>1, <4>1, SamePath
      <4>3. GetString(puts[n]) = n
        BY <3>2, <4>1, <4>2 DEF ValuesInv, LastPutStays
      <4> QED BY <2>1, <4>3 DEF GetString
    <3> QED BY <2>1, <3>1, <3>2 DEF ValuesInv, LastPutStays
  <2>3. CASE ~ (Kill /\ pc = "put")
    <3>1. \A n \in DOMAIN puts : KvPath(puts[n]) \in spoilt' <=> KvPath(puts[n]) \in spoilt
      <4>1. CASE spoilt' = spoilt
        BY <4>1
      <4>2. CASE RenameKey
        BY <4>2, KvIsNotKey DEF RenameKey
      <4>3. CASE DeleteKey
        BY <4>3, KvIsNotKey DEF DeleteKey
      <4>4. CASE Kill
        BY <2>3, <4>4 DEF Kill
      <4> QED BY <1>1, <1>6, <4>1, <4>2, <4>3, <4>4 DEF Changes
    <3>2. IF pc = "put" THEN pc' = "put" /\ writing' = writing ELSE pc' # "put"
      <4>1. CASE UNCHANGED vars
        BY <4>1 DEF vars
      <4>2. CASE Next
        BY <1>6, <2>3, <4>2
           DEF Next, Process, Boot, SaveKey, RenameKey, MakeDirs, StartAgent, QuitAtStart,
               StartDemo, Queue, AfterItem, Turn, SaveSession, ReplaceSession, AfterTurn, Quit,
               Kill, Off, MachineIdWritten, DeleteKey
      <4> QED BY <4>1, <4>2
    <3>3. ASSUME NEW n \in DOMAIN puts,
                 \A m \in n + 1 .. Len(puts) : ~ LooksLike(puts[m], puts[n]),
                 KvPath(puts[n]) \notin spoilt',
                 ~ (pc' = "put" /\ LooksLike(writing', puts[n]))
          PROVE  GetString(puts[n])' = n
      <4>1. GetString(puts[n]) = n
        BY <3>1, <3>2, <3>3 DEF ValuesInv, LastPutStays
      <4> QED BY <2>1, <4>1 DEF GetString
    <3> QED BY <2>1, <3>2, <3>3 DEF ValuesInv, LastPutStays
  <2> QED BY <2>2, <2>3
<1> QED BY <1>4, <1>5, <1>6

(* getString() gives what was put last under a key, run after run, for any *)
(* keys and any others that sanitizeKey() gives the same file, unless a    *)
(* write was cut short, which putString() does not notice.                 *)
THEOREM ValuesStay == FairSpec => []LastPutStays
<1>1. Init => Types /\ ValuesInv
  <2>1. Init => DOMAIN puts = {}
    BY DEF Init
  <2> QED BY <2>1, InitialTypes DEF Init, ValuesInv, LastPutStays
<1>2. Types /\ ValuesInv /\ [Next]_vars => (Types /\ ValuesInv)'
  BY TypesStep, ValuesInvStep
<1>3. ValuesInv => LastPutStays
  BY DEF ValuesInv
<1> QED BY <1>1, <1>2, <1>3, PTL DEF FairSpec

-----------------------------------------------------------------------------
(* Mock mode                                                               *)

Called(tools, name) == \E i \in DOMAIN tools : tools[i].name = name

(* A tool that is registered is there, unless it has no name, and the      *)
(* others stay.                                                            *)
LEMMA RegisterFacts ==
  ASSUME NEW S, NEW tools \in Seq(S), NEW spec \in S, NEW u,
         u = ToolSet!RegisterTool(tools, spec)
  PROVE  /\ u \in Seq(S)
         /\ \A name : Called(tools, name) => Called(u, name)
         /\ spec.name # "" => Called(u, spec.name)
<1>1. CASE spec.name = "" \/ Called(tools, spec.name)
  <2>1. u = tools
    BY <1>1 DEF ToolSet!RegisterTool, Called
  <2> QED BY <1>1, <2>1
<1>2. CASE ~ (spec.name = "" \/ Called(tools, spec.name))
  <2>1. u = Append(tools, spec)
    BY <1>2 DEF ToolSet!RegisterTool, Called
  <2>2. /\ u \in Seq(S) /\ Len(u) = Len(tools) + 1 /\ Len(tools) \in Nat
        /\ \A i \in 1 .. Len(tools) : u[i] = tools[i]
        /\ u[Len(tools) + 1] = spec
    BY <2>1, AppendProperties, LenProperties
  <2>3. DOMAIN u = 1 .. Len(tools) + 1 /\ DOMAIN tools = 1 .. Len(tools)
    BY <2>2, LenProperties
  <2>4. Len(tools) + 1 \in DOMAIN u /\ \A i \in DOMAIN tools : i \in DOMAIN u /\ u[i] = tools[i]
    BY <2>2, <2>3
  <2> QED BY <2>2, <2>4 DEF Called
<1> QED BY <1>1, <1>2

(* What Registry() unfolds to *)
Builds(specs, f) ==
  f = [n \in 0 .. Len(specs) |->
         IF n = 0 THEN << >> ELSE ToolSet!RegisterTool(f[n - 1], specs[n])]

BuildSteps(specs, f) ==
  /\ f[0] = << >>
  /\ \A n \in 1 .. Len(specs) : f[n] = ToolSet!RegisterTool(f[n - 1], specs[n])

LEMMA BuildsSteps ==
  ASSUME NEW S, NEW specs \in Seq(S), NEW f, Builds(specs, f)
  PROVE  BuildSteps(specs, f)
<1>1. Len(specs) \in Nat
  BY LenProperties
<1>2. 0 \in 0 .. Len(specs) /\ \A n \in 1 .. Len(specs) : n \in 0 .. Len(specs) /\ n # 0
  BY <1>1
<1>3. f[0] = << >>
  BY <1>2 DEF Builds
<1>4. \A n \in 1 .. Len(specs) : f[n] = ToolSet!RegisterTool(f[n - 1], specs[n])
  BY <1>2 DEF Builds
<1> QED BY <1>3, <1>4 DEF BuildSteps

LEMMA CanBuild ==
  ASSUME NEW S, NEW specs \in Seq(S)
  PROVE  \E f : Builds(specs, f)
<1> DEFINE L == Len(specs)
           T == Seq(S)
           step == [n \in 1 .. L |-> [t \in T |-> ToolSet!RegisterTool(t, specs[n])]]
<1>1. L \in Nat /\ \A n \in 1 .. L : specs[n] \in S
  BY LenProperties, ElementOfSeq
<1>2. \A n \in 1 .. L, t \in T : ToolSet!RegisterTool(t, specs[n]) \in T
  BY <1>1, RegisterFacts
<1>3. << >> \in T
  BY EmptySeq
<1>4. step \in [1 .. L -> [T -> T]]
  BY <1>2
<1>5. \A n \in 1 .. L, t \in T : step[n][t] = ToolSet!RegisterTool(t, specs[n])
  OBVIOUS
<1> HIDE DEF L, T, step
<1>6. PICK g : g \in [0 .. L -> T] /\ g[0] = << >> /\ \A n \in 1 .. L : g[n] = step[n][g[n - 1]]
  <2>1. step \in Loops(L, T)
    BY <1>4 DEF Loops
  <2>2. \E g : LoopRun(L, T, << >>, step, g)
    BY <1>1, <1>3, <2>1, LoopValues
  <2> QED BY <2>2 DEF LoopRun
<1>7. \A n \in 1 .. L : g[n] = ToolSet!RegisterTool(g[n - 1], specs[n])
  <2> TAKE n \in 1 .. L
  <2>1. n - 1 \in 0 .. L
    BY <1>1
  <2>2. g[n - 1] \in T
    BY <1>6, <2>1
  <2> QED BY <1>5, <1>6, <2>2
<1> DEFINE body(n) == IF n = 0 THEN << >> ELSE ToolSet!RegisterTool(g[n - 1], specs[n])
<1>8. g = [n \in 0 .. L |-> g[n]]
  BY <1>6
<1>9. ASSUME NEW n \in 0 .. L PROVE g[n] = body(n)
  <2>1. n = 0 \/ (n \in 1 .. L /\ n # 0)
    BY <1>1
  <2> QED BY <1>6, <1>7, <2>1
<1> HIDE DEF body
<1>10. g = [n \in 0 .. L |-> body(n)]
  BY <1>8, <1>9
<1>11. Builds(specs, g)
  BY <1>10 DEF Builds, body, L
<1> QED BY <1>11

(* So are all of them in the end. *)
LEMMA AllRegistered ==
  ASSUME NEW S, NEW specs \in Seq(S), NEW tools, tools = CHOOSE f : Builds(specs, f)
  PROVE  \A k \in 1 .. Len(specs) :
           specs[k].name # "" => Called(tools[Len(specs)], specs[k].name)
<1> DEFINE L == Len(specs)
           T == Seq(S)
<1>1. L \in Nat /\ \A n \in 1 .. L : specs[n] \in S
  BY LenProperties, ElementOfSeq
<1>2. << >> \in T
  BY EmptySeq
<1>3. Builds(specs, tools)
  BY CanBuild
<1>4. BuildSteps(specs, tools)
  BY <1>3, BuildsSteps
<1>5. tools[0] = << >> /\ \A n \in 1 .. L : tools[n] = ToolSet!RegisterTool(tools[n - 1], specs[n])
  BY <1>4 DEF BuildSteps
<1> DEFINE All(n) == \A k \in 1 .. n : specs[k].name # "" => Called(tools[n], specs[k].name)
           Built(n) == tools[n] \in T /\ All(n)
           I == {n \in 0 .. L : Built(n)}
<1> HIDE DEF L, All
<1>6. Built(0)
  <2>1. 1 .. 0 = {}
    OBVIOUS
  <2> QED BY <1>2, <1>5, <2>1 DEF All
<1>7. ASSUME NEW n \in 1 .. L, Built(n - 1)
      PROVE  Built(n)
  <2>1. specs[n] \in S /\ tools[n - 1] \in Seq(S) /\ All(n - 1)
    BY <1>1, <1>7
  <2>2. tools[n] = ToolSet!RegisterTool(tools[n - 1], specs[n])
    BY <1>5
  <2>3. /\ tools[n] \in Seq(S)
        /\ \A name : Called(tools[n - 1], name) => Called(tools[n], name)
        /\ specs[n].name # "" => Called(tools[n], specs[n].name)
    <3> DEFINE before == tools[n - 1]
               spec   == specs[n]
               after  == tools[n]
    <3>1. before \in Seq(S) /\ spec \in S /\ after = ToolSet!RegisterTool(before, spec)
      BY <2>1, <2>2
    <3> HIDE DEF before, spec, after
    <3>2. /\ after \in Seq(S)
          /\ \A name : Called(before, name) => Called(after, name)
          /\ spec.name # "" => Called(after, spec.name)
      BY <3>1, RegisterFacts
    <3> QED BY <3>2, Zenon DEF before, spec, after
  <2>4. \A k \in 1 .. n : k \in 1 .. n - 1 \/ k = n
    BY <1>1
  <2>5. All(n)
    BY <2>1, <2>3, <2>4 DEF All
  <2> QED BY <2>3, <2>5
<1> HIDE DEF Built
<1>8. 0 \in I
  BY <1>1, <1>6
<1>9. \A n \in 1 .. L : n - 1 \in I => n \in I
  BY <1>1, <1>7
<1> HIDE DEF I
<1>10. \A n \in 0 .. L : n \in I
  BY <1>1, <1>8, <1>9, LoopInduction
<1>11. All(L)
  <2>1. L \in I
    BY <1>1, <1>10
  <2>2. Built(L)
    BY <2>1 DEF I
  <2> QED BY <2>2 DEF Built
<1> QED BY <1>11 DEF All, L

(* The tools that a program has registered when its agent is made *)
LEMMA ToolsAre ==
  ASSUME NEW app \in Apps, NEW S, ToolSet!Specs(app) \in Seq(S), NEW name, name # "",
         Called(ToolSet!Specs(app), name)
  PROVE  name \in Tools[app]
<1> DEFINE specs == ToolSet!Specs(app)
           tools == CHOOSE f : Builds(specs, f)
           registry == ToolSet!Registry(app)
<1>1. registry = tools[Len(specs)]
  BY Zenon DEF ToolSet!Registry, Builds
<1>2. Tools[app] = {spec.name : spec \in Range(registry)}
  BY DEF Tools
<1>3. specs \in Seq(S) /\ Called(specs, name)
  OBVIOUS
<1> HIDE DEF specs, registry
<1> SUFFICES Called(registry, name)
  BY <1>2 DEF Called, Range
<1>4. PICK k \in 1 .. Len(specs) : specs[k].name = name
  BY <1>3, LenProperties DEF Called
<1>5. tools = CHOOSE f : Builds(specs, f)
  OBVIOUS
<1> HIDE DEF tools
<1>6. \A i \in 1 .. Len(specs) : specs[i].name # "" => Called(tools[Len(specs)], specs[i].name)
  BY <1>3, <1>5, AllRegistered
<1> QED BY <1>1, <1>4, <1>6

LEMMA ConcatFacts ==
  ASSUME NEW S, NEW s \in Seq(S), NEW t \in Seq(S)
  PROVE  /\ s \o t \in Seq(S)
         /\ \A name : Called(s, name) \/ Called(t, name) => Called(s \o t, name)
<1> DEFINE u == s \o t
<1>1. /\ u \in Seq(S) /\ Len(u) = Len(s) + Len(t)
      /\ \A i \in 1 .. Len(s) + Len(t) : u[i] = IF i <= Len(s) THEN s[i] ELSE t[i - Len(s)]
  BY ConcatProperties
<1>2. /\ Len(s) \in Nat /\ DOMAIN s = 1 .. Len(s)
      /\ Len(t) \in Nat /\ DOMAIN t = 1 .. Len(t)
      /\ DOMAIN u = 1 .. Len(u)
  BY <1>1, LenProperties
<1> HIDE DEF u
<1>3. \A i \in DOMAIN s : i \in DOMAIN u /\ u[i] = s[i]
  BY <1>1, <1>2
<1>4. \A i \in DOMAIN t : i + Len(s) \in DOMAIN u /\ u[i + Len(s)] = t[i]
  <2> TAKE i \in DOMAIN t
  <2>1. /\ i + Len(s) \in 1 .. Len(s) + Len(t) /\ ~ (i + Len(s) <= Len(s))
        /\ (i + Len(s)) - Len(s) = i
    BY <1>2
  <2> QED BY <1>1, <1>2, <2>1
<1>5. \A name : Called(s, name) \/ Called(t, name) => Called(u, name)
  BY <1>3, <1>4 DEF Called
<1> QED BY <1>1, <1>5 DEF u

(* Sequences of given tools *)
LEMMA Tuples ==
  ASSUME NEW S, NEW a \in S, NEW b \in S, NEW c \in S, NEW d \in S
  PROVE  /\ << a >> \in Seq(S) /\ Called(<< a >>, a.name)
         /\ << a, b >> \in Seq(S) /\ Called(<< a, b >>, a.name) /\ Called(<< a, b >>, b.name)
         /\ /\ << a, b, c >> \in Seq(S)
            /\ Called(<< a, b, c >>, a.name) /\ Called(<< a, b, c >>, b.name)
            /\ Called(<< a, b, c >>, c.name)
         /\ /\ << a, b, c, d >> \in Seq(S)
            /\ Called(<< a, b, c, d >>, a.name) /\ Called(<< a, b, c, d >>, b.name)
            /\ Called(<< a, b, c, d >>, c.name) /\ Called(<< a, b, c, d >>, d.name)
<1>1. << a >> \in Seq(S) /\ Called(<< a >>, a.name)
  BY DEF Called
<1>2. << a, b >> \in Seq(S) /\ Called(<< a, b >>, a.name) /\ Called(<< a, b >>, b.name)
  BY DEF Called
<1>3. << a, b, c >> \in Seq(S)
  OBVIOUS
<1>4. /\ Called(<< a, b, c >>, a.name) /\ Called(<< a, b, c >>, b.name)
      /\ Called(<< a, b, c >>, c.name)
  BY DEF Called
<1>5. << a, b, c, d >> \in Seq(S)
  OBVIOUS
<1>6. /\ Called(<< a, b, c, d >>, a.name) /\ Called(<< a, b, c, d >>, b.name)
      /\ Called(<< a, b, c, d >>, c.name) /\ Called(<< a, b, c, d >>, d.name)
  BY DEF Called
<1> QED BY <1>1, <1>2, <1>3, <1>4, <1>5, <1>6

(* A sequence of any tools, with some of the names there are *)
Tooling(s, names) == (\E S : s \in Seq(S)) /\ \A name \in names : Called(s, name)

LEMMA ConcatTooling ==
  ASSUME NEW s, NEW t, NEW a, NEW b, Tooling(s, a), Tooling(t, b)
  PROVE  Tooling(s \o t, a \cup b)
<1>1. PICK A : s \in Seq(A)
  BY DEF Tooling
<1>2. PICK B : t \in Seq(B)
  BY DEF Tooling
<1> DEFINE S == A \cup B
<1>3. A \subseteq S /\ B \subseteq S
  OBVIOUS
<1> HIDE DEF S
<1>4. s \in Seq(S) /\ t \in Seq(S)
  BY <1>1, <1>2, <1>3
<1>5. /\ s \o t \in Seq(S)
      /\ \A name : Called(s, name) \/ Called(t, name) => Called(s \o t, name)
  BY <1>4, ConcatFacts
<1> QED BY <1>5 DEF Tooling

LEMMA Tooling1 ==
  ASSUME NEW a
  PROVE  Tooling(<< a >>, {a.name})
<1> DEFINE S == {a}
           s == << a >>
<1>1. s \in Seq(S)
  OBVIOUS
<1>2. Called(s, a.name)
  <2>1. 1 \in DOMAIN s /\ s[1] = a
    OBVIOUS
  <2> HIDE DEF s
  <2> QED BY <2>1 DEF Called
<1> HIDE DEF s, S
<1>3. Tooling(s, {a.name})
  BY <1>1, <1>2 DEF Tooling
<1> QED BY <1>3 DEF s

LEMMA Tooling2 ==
  ASSUME NEW a, NEW b
  PROVE  Tooling(<< a, b >>, {a.name, b.name})
<1> DEFINE S == {a, b}
           s == << a, b >>
<1>1. s \in Seq(S)
  OBVIOUS
<1>2. Called(s, a.name)
  <2>1. 1 \in DOMAIN s /\ s[1] = a
    OBVIOUS
  <2> HIDE DEF s
  <2> QED BY <2>1 DEF Called
<1>3. Called(s, b.name)
  <2>1. 2 \in DOMAIN s /\ s[2] = b
    OBVIOUS
  <2> HIDE DEF s
  <2> QED BY <2>1 DEF Called
<1> HIDE DEF s, S
<1>4. Tooling(s, {a.name, b.name})
  BY <1>1, <1>2, <1>3 DEF Tooling
<1> QED BY <1>4 DEF s

LEMMA Tooling3 ==
  ASSUME NEW a, NEW b, NEW c
  PROVE  Tooling(<< a, b, c >>, {a.name, b.name, c.name})
<1> DEFINE S == {a, b, c}
           s == << a, b, c >>
<1>1. s \in Seq(S)
  OBVIOUS
<1>2. Called(s, a.name)
  <2>1. 1 \in DOMAIN s /\ s[1] = a
    OBVIOUS
  <2> HIDE DEF s
  <2> QED BY <2>1 DEF Called
<1>3. Called(s, b.name)
  <2>1. 2 \in DOMAIN s /\ s[2] = b
    OBVIOUS
  <2> HIDE DEF s
  <2> QED BY <2>1 DEF Called
<1>4. Called(s, c.name)
  <2>1. 3 \in DOMAIN s /\ s[3] = c
    OBVIOUS
  <2> HIDE DEF s
  <2> QED BY <2>1 DEF Called
<1> HIDE DEF s, S
<1>5. Tooling(s, {a.name, b.name, c.name})
  BY <1>1, <1>2, <1>3, <1>4 DEF Tooling
<1> QED BY <1>5 DEF s

LEMMA Tooling4 ==
  ASSUME NEW a, NEW b, NEW c, NEW d
  PROVE  Tooling(<< a, b, c, d >>, {a.name, b.name, c.name, d.name})
<1> DEFINE S == {a, b, c, d}
           s == << a, b, c, d >>
<1>1. s \in Seq(S)
  OBVIOUS
<1>2. Called(s, a.name)
  <2>1. 1 \in DOMAIN s /\ s[1] = a
    OBVIOUS
  <2> HIDE DEF s
  <2> QED BY <2>1 DEF Called
<1>3. Called(s, b.name)
  <2>1. 2 \in DOMAIN s /\ s[2] = b
    OBVIOUS
  <2> HIDE DEF s
  <2> QED BY <2>1 DEF Called
<1>4. Called(s, c.name)
  <2>1. 3 \in DOMAIN s /\ s[3] = c
    OBVIOUS
  <2> HIDE DEF s
  <2> QED BY <2>1 DEF Called
<1>5. Called(s, d.name)
  <2>1. 4 \in DOMAIN s /\ s[4] = d
    OBVIOUS
  <2> HIDE DEF s
  <2> QED BY <2>1 DEF Called
<1> HIDE DEF s, S
<1>6. Tooling(s, {a.name, b.name, c.name, d.name})
  BY <1>1, <1>2, <1>3, <1>4, <1>5 DEF Tooling
<1> QED BY <1>6 DEF s

LEMMA SpecName ==
  ASSUME NEW name, NEW params
  PROVE  ToolSet!ToolSpec(name, params).name = name
BY DEF ToolSet!ToolSpec

LEMMA QueueTools ==
  Tooling(ToolSet!QueueSpecs, {"get_device_status"})
<1> DEFINE a == ToolSet!ToolSpec("get_device_status", << >>)
<1>1. ToolSet!QueueSpecs = << a >>
  BY DEF ToolSet!QueueSpecs
<1>2. a.name = "get_device_status"
  BY SpecName
<1> HIDE DEF a
<1>3. Tooling(<< a >>, {a.name})
  BY Tooling1
<1> QED BY <1>1, <1>2, <1>3

LEMMA ChatTools ==
  Tooling(ToolSet!ChatSpecs,
          {"get_device_status", "set_gpio_pin", "read_sensor", "get_network_info"})
<1> DEFINE a == ToolSet!ToolSpec("get_device_status", << >>)
           b == ToolSet!ToolSpec("set_gpio_pin", << ToolSet!Param("pin", "integer", TRUE),
                              ToolSet!EnumParam("value", "integer", {0, 1}, TRUE) >>)
           c == ToolSet!ToolSpec("read_sensor", << ToolSet!Param("sensor_id", "integer", TRUE),
                              ToolSet!EnumParam("unit", "string",
                                                {"celsius", "fahrenheit", "raw"}, FALSE) >>)
           d == ToolSet!ToolSpec("get_network_info", << >>)
<1>1. ToolSet!ChatSpecs = << a, b, c, d >>
  BY DEF ToolSet!ChatSpecs
<1>2. /\ a.name = "get_device_status" /\ b.name = "set_gpio_pin"
      /\ c.name = "read_sensor" /\ d.name = "get_network_info"
  BY SpecName
<1> HIDE DEF a, b, c, d
<1>3. Tooling(<< a, b, c, d >>, {a.name, b.name, c.name, d.name})
  BY Tooling4
<1> QED BY <1>1, <1>2, <1>3

LEMMA SysinfoTools ==
  Tooling(ToolSet!SysinfoSpecs, {"get_system_info", "get_memory_info", "get_disk_usage"})
<1> DEFINE a == ToolSet!ToolSpec("get_system_info", << >>)
           b == ToolSet!ToolSpec("get_memory_info", << >>)
           c == ToolSet!ToolSpec("get_disk_usage", << ToolSet!Param("path", "string", FALSE) >>)
<1>1. ToolSet!SysinfoSpecs = << a, b, c >>
  BY DEF ToolSet!SysinfoSpecs
<1>2. a.name = "get_system_info" /\ b.name = "get_memory_info" /\ c.name = "get_disk_usage"
  BY SpecName
<1> HIDE DEF a, b, c
<1>3. Tooling(<< a, b, c >>, {a.name, b.name, c.name})
  BY Tooling3
<1> QED BY <1>1, <1>2, <1>3

LEMMA ThermalTools ==
  Tooling(ToolSet!ThermalSpecs, {"read_cpu_temperature", "list_thermal_zones"})
<1> DEFINE a == ToolSet!ToolSpec("read_cpu_temperature", << >>)
           b == ToolSet!ToolSpec("list_thermal_zones", << >>)
<1>1. ToolSet!ThermalSpecs = << a, b >>
  BY DEF ToolSet!ThermalSpecs
<1>2. a.name = "read_cpu_temperature" /\ b.name = "list_thermal_zones"
  BY SpecName
<1> HIDE DEF a, b
<1>3. Tooling(<< a, b >>, {a.name, b.name})
  BY Tooling2
<1> QED BY <1>1, <1>2, <1>3

LEMMA GpioTools ==
  Tooling(ToolSet!GpioSpecs, {"gpio_read", "gpio_write", "gpio_set_direction"})
<1> DEFINE a == ToolSet!ToolSpec("gpio_read", << ToolSet!Param("pin", "integer", TRUE) >>)
           b == ToolSet!ToolSpec("gpio_write", << ToolSet!Param("pin", "integer", TRUE),
                              ToolSet!EnumParam("value", "integer", {0, 1}, TRUE) >>)
           c == ToolSet!ToolSpec("gpio_set_direction", << ToolSet!Param("pin", "integer", TRUE),
                              ToolSet!EnumParam("direction", "string", {"in", "out"}, TRUE) >>)
<1>1. ToolSet!GpioSpecs = << a, b, c >>
  BY DEF ToolSet!GpioSpecs
<1>2. a.name = "gpio_read" /\ b.name = "gpio_write" /\ c.name = "gpio_set_direction"
  BY SpecName
<1> HIDE DEF a, b, c
<1>3. Tooling(<< a, b, c >>, {a.name, b.name, c.name})
  BY Tooling3
<1> QED BY <1>1, <1>2, <1>3

LEMMA NetworkTools ==
  Tooling(ToolSet!NetworkSpecs, {"get_network_interfaces", "get_interface_stats"})
<1> DEFINE a == ToolSet!ToolSpec("get_network_interfaces", << >>)
           b == ToolSet!ToolSpec("get_interface_stats",
                                 << ToolSet!Param("iface", "string", TRUE) >>)
<1>1. ToolSet!NetworkSpecs = << a, b >>
  BY DEF ToolSet!NetworkSpecs
<1>2. a.name = "get_network_interfaces" /\ b.name = "get_interface_stats"
  BY SpecName
<1> HIDE DEF a, b
<1>3. Tooling(<< a, b >>, {a.name, b.name})
  BY Tooling2
<1> QED BY <1>1, <1>2, <1>3

LEMMA ProcessTools ==
  Tooling(ToolSet!ProcessSpecs, {"list_top_processes", "get_process_info"})
<1> DEFINE a == ToolSet!ToolSpec("list_top_processes",
                                 << ToolSet!Param("count", "integer", FALSE) >>)
           b == ToolSet!ToolSpec("get_process_info", << ToolSet!Param("pid", "integer", TRUE) >>)
<1>1. ToolSet!ProcessSpecs = << a, b >>
  BY DEF ToolSet!ProcessSpecs
<1>2. a.name = "list_top_processes" /\ b.name = "get_process_info"
  BY SpecName
<1> HIDE DEF a, b
<1>3. Tooling(<< a, b >>, {a.name, b.name})
  BY Tooling2
<1> QED BY <1>1, <1>2, <1>3

LEMMA DemoTools ==
  Tooling(ToolSet!DemoSpecs,
          {"get_system_info", "get_memory_info", "read_cpu_temperature", "list_top_processes",
           "gpio_write", "gpio_read"})
<1> DEFINE s1 == ToolSet!SysinfoSpecs
           s2 == ToolSet!ThermalSpecs
           s3 == ToolSet!GpioSpecs
           s4 == ToolSet!NetworkSpecs
           s5 == ToolSet!ProcessSpecs
<1>1. ToolSet!DemoSpecs = (((s1 \o s2) \o s3) \o s4) \o s5
  BY DEF ToolSet!DemoSpecs
<1>2. /\ Tooling(s1, {"get_system_info", "get_memory_info"})
      /\ Tooling(s2, {"read_cpu_temperature"})
      /\ Tooling(s3, {"gpio_write", "gpio_read"})
      /\ Tooling(s4, {})
      /\ Tooling(s5, {"list_top_processes"})
  BY SysinfoTools, ThermalTools, GpioTools, NetworkTools, ProcessTools DEF Tooling
<1> HIDE DEF s1, s2, s3, s4, s5
<1>3. Tooling(s1 \o s2, {"get_system_info", "get_memory_info"} \cup {"read_cpu_temperature"})
  BY <1>2, ConcatTooling
<1>4. Tooling((s1 \o s2) \o s3,
              ({"get_system_info", "get_memory_info"} \cup {"read_cpu_temperature"})
                \cup {"gpio_write", "gpio_read"})
  BY <1>2, <1>3, ConcatTooling
<1>5. Tooling(((s1 \o s2) \o s3) \o s4,
              (({"get_system_info", "get_memory_info"} \cup {"read_cpu_temperature"})
                 \cup {"gpio_write", "gpio_read"}) \cup {})
  BY <1>2, <1>4, ConcatTooling
<1>6. Tooling((((s1 \o s2) \o s3) \o s4) \o s5,
              ((({"get_system_info", "get_memory_info"} \cup {"read_cpu_temperature"})
                  \cup {"gpio_write", "gpio_read"}) \cup {}) \cup {"list_top_processes"})
  BY <1>2, <1>5, ConcatTooling
<1> QED BY <1>1, <1>6 DEF Tooling

LEMMA ToolingFacts ==
  ASSUME NEW app \in Apps, NEW names, Tooling(ToolSet!Specs(app), names), "" \notin names
  PROVE  names \subseteq Tools[app]
<1>1. PICK S : ToolSet!Specs(app) \in Seq(S)
  BY DEF Tooling
<1> SUFFICES ASSUME NEW name \in names PROVE name \in Tools[app]
  OBVIOUS
<1>2. Called(ToolSet!Specs(app), name) /\ name # ""
  BY DEF Tooling
<1> QED BY <1>1, <1>2, ToolsAre

(* A script succeeds whose tools are all registered, and which ends. *)
LEMMA ScriptSucceeds ==
  ASSUME NEW app \in Apps, {} \in Range(Script(app)),
         NEW names, UNION Range(Script(app)) \subseteq names,
         Tooling(ToolSet!Specs(app), names), "" \notin names
  PROVE  MockOutcome(app, 1) = "ok"
<1>1. names \subseteq Tools[app]
  BY ToolingFacts
<1>2. UNION Range(Script(app)) \subseteq Tools[app]
  BY <1>1
<1> QED BY <1>2 DEF MockOutcome

LEMMA ScriptsSucceed == ASSUME NEW app \in Apps PROVE MockOutcome(app, 1) = "ok"
<1>1. CASE app = "chat_agent"
  <2> DEFINE names == {"get_device_status", "set_gpio_pin", "read_sensor"}
  <2>1. Script(app) = ChatScript /\ ToolSet!Specs(app) = ToolSet!ChatSpecs
    BY <1>1 DEF Script, ToolSet!Specs
  <2>2. Range(ChatScript) = {{"get_device_status", "read_sensor"}, {"set_gpio_pin"}, {}}
    BY DEF ChatScript, Range
  <2>3. Tooling(ToolSet!ChatSpecs, names) /\ "" \notin names
    BY ChatTools DEF Tooling
  <2>4. {} \in Range(ChatScript) /\ UNION Range(ChatScript) \subseteq names
    BY <2>2
  <2> HIDE DEF names
  <2> QED BY <2>1, <2>3, <2>4, ScriptSucceeds
<1>2. CASE app = "tool_call_demo"
  <2> DEFINE names == {"get_system_info", "get_memory_info", "read_cpu_temperature",
                       "list_top_processes", "gpio_write", "gpio_read"}
  <2>1. Script(app) = DemoScript /\ ToolSet!Specs(app) = ToolSet!DemoSpecs
    BY <1>2 DEF Script, ToolSet!Specs
  <2>2. Range(DemoScript) = {{"get_system_info", "get_memory_info", "read_cpu_temperature"},
                             {"list_top_processes"}, {"gpio_write", "gpio_read"}, {}}
    BY DEF DemoScript, Range
  <2>3. Tooling(ToolSet!DemoSpecs, names) /\ "" \notin names
    BY DemoTools DEF Tooling
  <2>4. {} \in Range(DemoScript) /\ UNION Range(DemoScript) \subseteq names
    BY <2>2
  <2> HIDE DEF names
  <2> QED BY <2>1, <2>3, <2>4, ScriptSucceeds
<1>3. CASE app = "offline_queue_demo"
  <2> DEFINE names == {"get_device_status"}
  <2>1. Script(app) = QueueScript /\ ToolSet!Specs(app) = ToolSet!QueueSpecs
    BY <1>3 DEF Script, ToolSet!Specs
  <2>2. Range(QueueScript) = {{"get_device_status"}, {}}
    BY DEF QueueScript, Range
  <2>3. Tooling(ToolSet!QueueSpecs, names) /\ "" \notin names
    BY QueueTools DEF Tooling
  <2>4. {} \in Range(QueueScript) /\ UNION Range(QueueScript) \subseteq names
    BY <2>2
  <2> HIDE DEF names
  <2> QED BY <2>1, <2>3, <2>4, ScriptSucceeds
<1> QED BY <1>1, <1>2, <1>3 DEF Apps

(* In mock mode the turn counted last is the one whose result there is. *)
MockInv ==
  pc # "off" =>
    /\ proc.turn \in Nat \ {0}
    /\ proc.line.mock /\ proc.turn = 2 => proc.result = "ok"

LEMMA WithAgentTurn ==
  ASSUME Types, pc = "start", NEW key, NEW p \in WithAgent(key)
  PROVE  p.turn = proc.turn /\ p.result = proc.result /\ p.line = proc.line
<1>1. DOMAIN proc = ProcFields
  BY DEF Types
<1> DEFINE fresh == [proc EXCEPT !.key = key]
<1>2. /\ DOMAIN fresh = ProcFields /\ fresh.line = proc.line
      /\ fresh.turn = proc.turn /\ fresh.result = proc.result
  BY <1>1 DEF ProcFields
<1>3. \/ p = fresh
      \/ p = [fresh EXCEPT !.session = disk.session]
      \/ p = [fresh EXCEPT !.unread = TRUE]
  BY DEF WithAgent
<1> HIDE DEF fresh
<1> QED BY <1>2, <1>3 DEF ProcFields

LEMMA MockInvStep ==
  ASSUME Types, MockInv, [Next]_vars
  PROVE  MockInv'
<1>1. CASE StartAgent \/ StartDemo
  <2>1. pc = "start" /\ (proc' = proc \/ \E key : proc' \in WithAgent(key))
    BY <1>1 DEF StartAgent, QuitAtStart, StartDemo
  <2>2. proc'.turn = proc.turn /\ proc'.result = proc.result /\ proc'.line = proc.line
    BY <2>1, WithAgentTurn
  <2> QED BY <2>1, <2>2 DEF MockInv
<1>2. CASE Turn
  <2>1. PICK result \in Outcomes :
           proc' = [proc EXCEPT !.result = result, !.turn = @ + 1,
                      !.session = IF result = "ok" THEN Append(@, runs) ELSE @]
    BY <1>2 DEF Turn
  <2>2. /\ pc = "turn" /\ DOMAIN proc = ProcFields /\ proc.line \in CommandLines
        /\ proc.turn \in Nat \ {0}
    BY <1>2 DEF Turn, Types, MockInv
  <2>3. proc'.turn = proc.turn + 1 /\ proc'.result = result /\ proc'.line = proc.line
    BY <2>1, <2>2 DEF ProcFields
  <2>4. ASSUME proc.line.mock, proc.turn = 1
        PROVE  result = "ok"
    <3>1. proc.line.app \in Apps
      BY <2>2, AppConstants
    <3>2. result = MockOutcome(proc.line.app, 1)
      BY <2>1, <2>4 DEF Outcomes
    <3> QED BY <3>1, <3>2, ScriptsSucceed
  <2> QED BY <2>2, <2>3, <2>4 DEF MockInv
<1>3. CASE \E line \in CommandLines, env \in EnvKeys : Boot(line, env)
  BY <1>3 DEF Boot, MockInv
<1>4. CASE UNCHANGED proc /\ (pc = "off" => pc' = "off")
  BY <1>4 DEF MockInv
<1>5. CASE pc' = "off"
  BY <1>5 DEF MockInv
<1>6. CASE UNCHANGED vars
  BY <1>6, <1>4 DEF vars
<1>7. ASSUME Next, ~ (StartAgent \/ StartDemo), ~ Turn,
             ~ (\E line \in CommandLines, env \in EnvKeys : Boot(line, env))
      PROVE  (UNCHANGED proc /\ (pc = "off" => pc' = "off")) \/ pc' = "off"
  BY <1>7 DEF Next, Process, SaveKey, RenameKey, MakeDirs, SaveSession, ReplaceSession, AfterTurn,
              Queue, Quit, PutWrite, PutOpen, Kill, Off, DeleteKey, MachineIdWritten
<1> QED BY <1>1, <1>2, <1>3, <1>4, <1>5, <1>6, <1>7

(* Without a server the first turn of every program succeeds, whatever the *)
(* command line and earlier runs: every tool that its script calls is      *)
(* registered before (registerTools() and the fixtures, written apart).    *)
THEOREM MocksSucceed == FairSpec => []MockTurnSucceeds
<1>1. Init => Types /\ MockInv
  BY InitialTypes DEF Init, MockInv
<1>2. Types /\ MockInv /\ [Next]_vars => (Types /\ MockInv)'
  BY TypesStep, MockInvStep
<1>3. MockInv => MockTurnSucceeds
  BY DEF MockInv, MockTurnSucceeds
<1> QED BY <1>1, <1>2, <1>3, PTL DEF FairSpec
=============================================================================
