------------------------------- MODULE Cipher -------------------------------
(***************************************************************************)
(* The embedded configuration: the editor encrypts its text with XTEA in   *)
(* CBC mode behind a random block and writes it in hex (makeconf's         *)
(* encrypt), the bouncer undoes both (Config_decryptEmbedded).  Two        *)
(* programs, each with its own arithmetic of buffer sizes, must agree.     *)
(*                                                                         *)
(* Bytes are numbers below 256.  A word has two of them, not four, so that *)
(* a block has 4 bytes and TLC's integers suffice; shifts, rounds, padding *)
(* and buffer sizes are the code's.  <<>> stands for the result -1 or      *)
(* NULL, <<x>> for x.  Memory suffices (MakeConf has the failures).        *)
(***************************************************************************)
EXTENDS Integers, Sequences

CONSTANTS
  Texts,   \* configuration texts, as sequences of bytes
  Keys,    \* keys, as the four words XTEA reads
  Blocks,  \* what /dev/urandom may return
  Rounds,  \* XTEA_NUM_ROUNDS
  Delta,   \* XTEA_DELTA, cut to a word
  ByteXor(_, _) \* what ^ makes of two bytes

Byte == 0 .. 255
Word == {n \in Nat : n < 65536}
Block == 4

(* iscntrl and not isspace, in the C locale.  The editor takes them: an    *)
(* arrow key, for one, enters ESC.                                         *)
Control == (1 .. 8) \cup (14 .. 31) \cup {127}

ASSUME CipherAssumption ==
  /\ Texts \subseteq Seq(Byte \ {0})
  /\ Keys \subseteq [0 .. 3 -> Word]
  /\ Blocks \subseteq [1 .. Block -> Byte]
  /\ Rounds \in Nat /\ Delta \in Word
  /\ \A a, b \in Byte : ByteXor(a, b) \in Byte /\ ByteXor(ByteXor(a, b), b) = a

VARIABLES
  stage,    \* what comes next, "loaded", or "failed"
  plain,    \* the text the editor made
  key,      \* the key, the same in both programs
  data,     \* what the text has become
  size,     \* the size of the buffer that data is in
  written   \* how many bytes of it were written to

vars == <<stage, plain, key, data, size, written>>

Init ==
  /\ stage = "encrypt"
  /\ plain \in Texts /\ key \in Keys
  /\ data = plain /\ size = 0 /\ written = 0

-----------------------------------------------------------------------------
(* xtea.c.                                                                 *)

Cut(n) == n % 65536

XorWord(a, b) == ByteXor(a % 256, b % 256) + 256 * ByteXor(a \div 256, b \div 256)

Mix(v, sum, k) == XorWord(Cut(XorWord(Cut(v * 16), v \div 32) + v), Cut(sum + k))

(* The uint32_t view of a block, and back; the byte order cancels out.     *)
Words(b) == << b[1] + 256 * b[2], b[3] + 256 * b[4] >>
Bytes(s) == << s[1] % 256, s[1] \div 256, s[2] % 256, s[2] \div 256 >>

(* One turn of each loop; s is s0, s1 and sum.                             *)
EncryptRound(s, k) ==
  LET s0  == Cut(s[1] + Mix(s[2], s[3], k[s[3] % 4]))
      sum == Cut(s[3] + Delta)
      s1  == Cut(s[2] + Mix(s0, sum, k[(sum \div 2048) % 4]))
  IN  << s0, s1, sum >>

(* Mutant: sum goes back before it is used, not in between.                *)
DecryptRoundEarly(s, k) ==
  LET sum == Cut(s[3] - Delta)
      s1  == Cut(s[2] - Mix(s[1], sum, k[(sum \div 2048) % 4]))
      s0  == Cut(s[1] - Mix(s1, sum, k[sum % 4]))
  IN  << s0, s1, sum >>

DecryptRound(s, k) ==
  LET s1  == Cut(s[2] - Mix(s[1], s[3], k[(s[3] \div 2048) % 4]))
      sum == Cut(s[3] - Delta)
      s0  == Cut(s[1] - Mix(s1, sum, k[sum % 4]))
  IN  << s0, s1, sum >>

(* The loops: s0, s1 and sum after n turns.                                *)
Encrypting(b, k) ==
  LET s[n \in 0 .. Rounds] ==
        IF n = 0 THEN << Words(b)[1], Words(b)[2], 0 >> ELSE EncryptRound(s[n - 1], k)
  IN  s

Decrypting(b, k) ==
  LET s[n \in 0 .. Rounds] ==
        IF n = 0 THEN << Words(b)[1], Words(b)[2], Cut(Delta * Rounds) >>
        ELSE DecryptRound(s[n - 1], k)
  IN  s

XTeaEncrypt(b, k) == Bytes(Encrypting(b, k)[Rounds])
XTeaDecrypt(b, k) == Bytes(Decrypting(b, k)[Rounds])

XorBlock(a, b) == [i \in 1 .. Block |-> ByteXor(a[i], b[i])]
BlockOf(s, n) == [i \in 1 .. Block |-> s[(n - 1) * Block + i]]

(* The first n bytes of blocks one behind the other.                       *)
Joined(blocks, n) == [i \in 1 .. n |-> blocks[(i - 1) \div Block + 1][((i - 1) % Block) + 1]]

(* A text that fills its last block gets a block of padding.               *)
Padding(src) == Block - (Len(src) % Block)
Padded(src) == src \o [i \in 1 .. Padding(src) |-> 48 + Padding(src)]

(* The blocks of the cipher text, the random one before them.              *)
Chain(src, iv, k) ==
  LET c[n \in 0 .. Len(src) \div Block] ==
        IF n = 0 THEN iv ELSE XTeaEncrypt(XorBlock(BlockOf(src, n), c[n - 1]), k)
  IN  c

(* XTeaEncryptCBC.  The size is checked where a block is added to a text   *)
(* that fills its last one, and not where a block is filled up.            *)
XTeaEncryptCBC(src, dstSize, iv, k) ==
  IF dstSize < Len(src) \/ (Padding(src) = Block /\ dstSize < Len(src) + Block) THEN <<>>
  ELSE << Joined(Chain(Padded(src), iv, k), Len(Padded(src))) >>

Unchained(src, iv, k) ==
  [n \in 1 .. Len(src) \div Block |->
     XorBlock(XTeaDecrypt(BlockOf(src, n), k), IF n = 1 THEN iv ELSE BlockOf(src, n - 1))]

XTeaDecryptCBC(src, dstSize, iv, k) ==
  LET dst == Joined(Unchained(src, iv, k), Len(src))
      padding == dst[Len(src)] - 48
  IN  IF dstSize < Len(src) \/ Len(src) % Block # 0 \/ padding \notin 1 .. Block THEN <<>>
      ELSE << SubSeq(dst, 1, Len(src) - padding) >>

-----------------------------------------------------------------------------
(* hex.c.                                                                  *)

Digit(d) == IF d < 10 THEN 48 + d ELSE 55 + d

hexEncode(src, dstSize) ==
  IF 2 * Len(src) >= dstSize THEN <<>>
  ELSE << [i \in 1 .. 2 * Len(src) |->
             IF i % 2 = 1 THEN Digit(src[(i + 1) \div 2] \div 16) ELSE Digit(src[i \div 2] % 16)] >>

(* Whatever is not a digit is taken for a capital letter.                  *)
hexDecodeChar(ch) == IF ch \in 48 .. 57 THEN ch - 48 ELSE ch - 55

hexDecode(src, dstSize) ==
  IF Len(src) % 2 # 0 \/ Len(src) \div 2 >= dstSize THEN <<>>
  ELSE << [i \in 1 .. Len(src) \div 2 |->
             (hexDecodeChar(src[2 * i - 1]) * 16 + hexDecodeChar(src[2 * i])) % 256] >>

-----------------------------------------------------------------------------
(* The way of a text.                                                      *)

(* The step's result, for which w bytes of a buffer of n were written.     *)
Becomes(result, w, n, next) ==
  /\ \/ /\ result = <<>>
        /\ stage' = "failed" /\ UNCHANGED <<data, size, written>>
     \/ /\ result # <<>>
        /\ data' = result[1] /\ size' = n /\ written' = w
        /\ stage' = next
  /\ UNCHANGED <<plain, key>>

(* Mutant: the random block is left out of the size.                       *)
cipherSizeTight == Len(plain) + Block

cipherSize == Len(plain) + Block * 2

(* makeconf's encrypt: the random block, then the cipher text, ...         *)
Encrypt ==
  /\ stage = "encrypt"
  /\ \E iv \in Blocks :
       LET c == XTeaEncryptCBC(plain, cipherSize - Block, iv, key)
       IN  Becomes(IF c = <<>> THEN c ELSE << iv \o c[1] >>, Block + Len(c[1]), cipherSize, "encode")

(* ... and its digits with a NUL.                                          *)
Encode ==
  /\ stage = "encode"
  /\ LET n == Len(data) * 2 + 1
         c == hexEncode(data, n)
     IN  Becomes(c, Len(c[1]) + 1, n, "decode")

(* Config_decryptEmbedded: the cipher text, and a NUL, ...                 *)
Decode ==
  /\ stage = "decode"
  /\ LET n == Len(data) \div 2 + 1
         c == hexDecode(data, n)
     IN  Becomes(IF c # <<>> /\ Len(c[1]) < Block THEN <<>> ELSE c, Len(c[1]) + 1, n, "decrypt")

Printable(s) == \A i \in 1 .. Len(s) : s[i] \notin Control

(* ... and the text, with its padding, which is refused if it has a        *)
(* control character (as from a wrong key).                                *)
Decrypt ==
  /\ stage = "decrypt"
  /\ LET n == Len(data)
         p == XTeaDecryptCBC(SubSeq(data, Block + 1, n), n, SubSeq(data, 1, Block), key)
     IN  Becomes(p, n - Block, n, IF Printable(p[1]) THEN "loaded" ELSE "failed")

Next == Encrypt \/ Encode \/ Decode \/ Decrypt

Spec == Init /\ [][Next]_vars

-----------------------------------------------------------------------------
(* Properties.                                                             *)

(* With the same key the bouncer gets back the very text that the editor   *)
(* made, whatever the random block, if it has no control character but     *)
(* white space, and refuses it if it has one.  Nothing else on the way is  *)
(* refused or changed.                                                     *)
TextComesBack ==
  /\ stage = "loaded" => data = plain /\ Printable(plain)
  /\ stage = "failed" => ~Printable(plain)

(* No step writes behind the end of its buffer: XTeaEncryptCBC does not    *)
(* check the room for the block it fills up, and three callers work out    *)
(* the sizes, with a NUL or without.                                       *)
FitsBuffers == written <= size

=============================================================================
