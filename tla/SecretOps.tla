------------------------------ MODULE SecretOps ------------------------------
(***************************************************************************)
(* EaSecretObfuscator, what an API key goes through on its way to a file   *)
(* and back.  A key and the pepper are sequences of bytes.  A text in      *)
(* base 64 is a sequence of symbols: 0 .. 63 stands for the characters of  *)
(* the alphabet in their order, Pad for "=", Blank for white space.        *)
(***************************************************************************)
EXTENDS Integers, SequencesExt

Byte == 0 .. 255

Pad == 64
Blank == 65
Invalid == 66   (* any other character *)

NoKey == << >>   (* the empty string *)

Bit(n, i) == (n \div (2 ^ i)) % 2

Xor(a, b) ==
  LET bit(i) == ((Bit(a, i) + Bit(b, i)) % 2) * (2 ^ i)
  IN  bit(0) + bit(1) + bit(2) + bit(3) + bit(4) + bit(5) + bit(6) + bit(7)

XorWith(data, pepper) ==
  [i \in DOMAIN data |-> Xor(data[i], pepper[((i - 1) % Len(pepper)) + 1])]

(* Mutant of Base64Encode: a group that is not full is left out. *)
Base64EncodeFull(data) ==
  [k \in 1 .. 4 * (Len(data) \div 3) |->
     LET first == 3 * ((k - 1) \div 4)
     IN  ((data[first + 1] * 65536 + data[first + 2] * 256 + data[first + 3])
            \div (64 ^ (3 - ((k - 1) % 4)))) % 64]

(* Three bytes make four symbols; the last group is filled up. *)
Base64Encode(data) ==
  LET byte(i) == IF i <= Len(data) THEN data[i] ELSE 0
      symbol(first, j) ==
        IF j >= 2 /\ first + j > Len(data) THEN Pad
        ELSE ((byte(first + 1) * 65536 + byte(first + 2) * 256 + byte(first + 3))
                \div (64 ^ (3 - j))) % 64
  IN  [k \in 1 .. 4 * ((Len(data) + 2) \div 3) |->
         symbol(3 * ((k - 1) \div 4), (k - 1) % 4)]

(* The symbols before the first that ends the text, blanks left out: six  *)
(* bits each, and eight make a byte.  val, an int that overflows on long   *)
(* keys, is read for its low 12 bits at most, which are two symbols.       *)
Base64Symbols(text) ==
  LET ends == {i \in DOMAIN text : text[i] \in {Pad, Invalid}}
      Keeps(i) == text[i] # Blank /\ \A j \in ends : i < j
      read[n \in 0 .. Len(text)] ==
        IF n = 0 THEN << >>
        ELSE IF Keeps(n) THEN Append(read[n - 1], text[n]) ELSE read[n - 1]
  IN  [ok   |-> text # << >> /\ \A i \in ends : text[i] = Invalid => \E j \in ends : j < i,
       kept |-> read[Len(text)]]

Base64Decode(symbols) ==
  [n \in 1 .. (6 * Len(symbols)) \div 8 |->
     LET start == 8 * (n - 1)
         first == (start \div 6) + 1
     IN  ((symbols[first] * 64 + symbols[first + 1]) \div (2 ^ (4 - (start % 6)))) % 256]

Encode(key, pepper) == Base64Encode(XorWith(key, pepper))

(* The key, or NoKey when the text is not one. *)
Decode(text, pepper) ==
  LET symbols == Base64Symbols(text)
  IN  IF symbols.ok THEN XorWith(Base64Decode(symbols.kept), pepper) ELSE NoKey
=============================================================================
