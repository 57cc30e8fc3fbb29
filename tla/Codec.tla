------------------------------- MODULE Codec -------------------------------
(***************************************************************************)
(* The deterministic transformations of knowledge_artifacts.cpp: what each *)
(* makes of a string of bytes, which strings it refuses, and how the exact *)
(* comparison of a validator finds the first difference.  Text is bytes as *)
(* well: its characters are their codes.                                   *)
(***************************************************************************)
EXTENDS Integers, Sequences, Bitwise

CONSTANTS
  Inputs,      \* byte strings that are transformed
  Plain,       \* byte strings whose encodings are transformed
  Keys,        \* XOR keys
  Expected,    \* what a validator's case expects
  Refused      \* the exception

VARIABLES method, input, key, output, done
vars == <<method, input, key, output, done>>

Pad == 61
Digit(c) == c \in 48..57 \/ c \in 65..70 \/ c \in 97..102
ValueOf(c) == IF c <= 57 THEN c - 48 ELSE (IF c >= 97 THEN c - 97 ELSE c - 65) + 10
Joined(n, piece(_)) ==
  LET f[i \in 0..n] == IF i = 0 THEN <<>> ELSE f[i - 1] \o piece(i) IN f[n]

\* unhex
Unhex(s) ==
  IF Len(s) % 2 # 0 \/ \E i \in DOMAIN s : ~Digit(s[i]) THEN Refused
  ELSE Joined(Len(s) \div 2, LAMBDA i : <<16 * ValueOf(s[2 * i - 1]) + ValueOf(s[2 * i])>>)

\* hex
HexDigit(n) == IF n < 10 THEN 48 + n ELSE 87 + n
Hex(b) == Joined(Len(b), LAMBDA i : <<HexDigit(b[i] \div 16), HexDigit(b[i] % 16)>>)

\* The key is repeated along the input.
XorWith(s, k) == IF k = <<>> THEN Refused ELSE [i \in DOMAIN s |-> s[i] ^^ k[((i - 1) % Len(k)) + 1]]

\* The place of a character in the alphabet, 64 for one that is not in it.
Place(c) ==
  CASE c \in 65..90 -> c - 65 [] c \in 97..122 -> c - 71 [] c \in 48..57 -> c + 4
    [] c = 43 -> 62 [] c = 47 -> 63 [] OTHER -> 64
Letter(n) ==
  CASE n < 26 -> n + 65 [] n < 52 -> n + 71 [] n < 62 -> n - 4 [] n = 62 -> 43 [] n = 63 -> 47

\* One group of four characters: how many of them are padding, and the 24 bits.
Padding(g) == IF g[4] # Pad THEN 0 ELSE IF g[3] # Pad THEN 1 ELSE 2
Bits(g) ==
  LET v(j) == IF g[j] = Pad THEN 0 ELSE Place(g[j])
  IN v(1) * 262144 + v(2) * 4096 + v(3) * 64 + v(4)

\* Padding ends the last group, and leaves no bits over.
Proper(g, last) ==
  /\ \A j \in 1..4 : g[j] = Pad => last /\ j > 2 /\ \A k \in j..4 : g[k] = Pad
  /\ \A j \in 1..4 : g[j] # Pad => Place(g[j]) # 64
  /\ Padding(g) = 2 => Bits(g) % 65536 = 0
  /\ Padding(g) = 1 => Bits(g) % 256 = 0

BytesOf(g) ==
  SubSeq(<<Bits(g) \div 65536, (Bits(g) \div 256) % 256, Bits(g) % 256>>, 1, 3 - Padding(g))

Unbase64(s) ==
  LET group(i) == SubSeq(s, 4 * i - 3, 4 * i)
      n == Len(s) \div 4
  IN IF Len(s) % 4 # 0 \/ \E i \in 1..n : ~Proper(group(i), i = n) THEN Refused
     ELSE Joined(n, LAMBDA i : BytesOf(group(i)))

\* The encoding it is the inverse of.
Base64(b) ==
  LET at(i) == IF i <= Len(b) THEN b[i] ELSE 0
      word(i) == at(3 * i - 2) * 65536 + at(3 * i - 1) * 256 + at(3 * i)
      quad(i) == <<Letter(word(i) \div 262144), Letter((word(i) \div 4096) % 64),
                   IF 3 * i - 1 > Len(b) THEN Pad ELSE Letter((word(i) \div 64) % 64),
                   IF 3 * i > Len(b) THEN Pad ELSE Letter(word(i) % 64)>>
  IN Joined((Len(b) + 2) \div 3, quad)

Init ==
  /\ method \in {"slice", "xor", "hex_decode", "base64_decode"}
  /\ input \in Inputs \cup CASE method = "hex_decode" -> {Hex(b) : b \in Plain}
                             [] method = "base64_decode" -> {Base64(b) : b \in Plain}
                             [] OTHER -> Plain
  /\ key \in IF method = "xor" THEN Keys ELSE {<<>>}
  /\ output = Refused /\ done = FALSE

\* transform
Transform ==
  /\ ~done /\ done' = TRUE
  /\ output' = CASE method = "slice" -> input [] method = "xor" -> XorWith(input, key)
                 [] method = "hex_decode" -> Unhex(input) [] method = "base64_decode" -> Unbase64(input)
  /\ UNCHANGED <<method, input, key>>
Done(m) == done /\ method = m

Spec == Init /\ [][Transform]_vars

\* std::mismatch over both strings
FirstDifference(a, b) ==
  CHOOSE i \in 0..Len(a) :
    /\ i = Len(a) \/ i = Len(b) \/ a[i + 1] # b[i + 1]
    /\ \A j \in 1..i : a[j] = b[j]

-----------------------------------------------------------------------------
\* transform: what a decoder accepts is the one encoding of what it returns, and
\* an output never has more bytes than the input, which is what is reserved for it.
Canonical ==
  /\ Done("base64_decode") /\ output # Refused => Base64(output) = input
  /\ Done("hex_decode") /\ output # Refused => 2 * Len(output) = Len(input) /\ Unhex(Hex(output)) = output
  /\ output # Refused => Len(output) <= Len(input)

\* transform: every encoding is decoded to what was encoded, and a key applied
\* twice gives the input back.
Inverse ==
  /\ Done("hex_decode") => \A b \in Plain : input = Hex(b) => output = b
  /\ Done("base64_decode") => \A b \in Plain : input = Base64(b) => output = b
  /\ Done("xor") /\ output # Refused => XorWith(output, key) = input

\* validate (knowledge_artifacts.cpp:246): the difference that is shown is one,
\* and everything before it is the same, whichever of the two ends first.
DifferenceIsOne ==
  Done("slice") => \A b \in Expected : output # b =>
    LET i == FirstDifference(output, b) IN
      /\ i <= Len(b) /\ SubSeq(output, 1, i) = SubSeq(b, 1, i)
      /\ i = Len(output) \/ i = Len(b) \/ output[i + 1] # b[i + 1]
=============================================================================
