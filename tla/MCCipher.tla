----------------------------- MODULE MCCipher -----------------------------
(* Model checking instance of Cipher: texts of every length up to two      *)
(* blocks and a byte, in one of several bytes (a line end, ESC, digits     *)
(* that look like padding, a letter, a byte with the highest bit).         *)
EXTENDS Cipher, Bitwise

MCTexts == {[i \in 1 .. n |-> IF i % 2 = 1 THEN b ELSE 49] : n \in 0 .. 9, b \in {10, 27, 52, 97, 228}}

MCKeys == {[i \in 0 .. 3 |-> 0], [i \in 0 .. 3 |-> (i + 7) * 9001 % 65536]}

(* ^ itself.                                                               *)
MCXor(a, b) == a ^^ b

MCBlocks == { <<0, 0, 0, 0>>, <<255, 49, 200, 7>> }

=============================================================================
