---------------------------- MODULE CipherProofs ----------------------------
(* Proofs about Cipher: for every text, key, random block and number of    *)
(* rounds the bouncer decrypts what the editor encrypted.  Of the          *)
(* exclusive or they use that it gives back one side, given the other.     *)
EXTENDS Cipher, SequenceTheorems, WellFoundedInduction, TLAPS

(* The state of a loop of rounds, and what a key and a block are.          *)
State == Word \X Word \X Word
Key == [0 .. 3 -> Word]
ByteBlock == [1 .. Block -> Byte]

-----------------------------------------------------------------------------
(* Counting up to m.                                                       *)
LEMMA Counting ==
  ASSUME NEW m \in Nat, NEW S, 0 \in S, \A n \in 0 .. m - 1 : n \in S => n + 1 \in S
  PROVE  \A n \in 0 .. m : n \in S
<1> SUFFICES ASSUME NEW bad \in 0 .. m, bad \notin S
             PROVE  FALSE
  OBVIOUS
<1> DEFINE T == {n \in 0 .. m : n \notin S}
<1>1. PICK n \in T : \A i \in T : ~ (i < n)
  <2>1. IsWellFoundedOn(OpToRel(<, Nat), Nat)
    BY NatLessThanWellFounded
  <2>2. T \in SUBSET Nat /\ T # {}
    OBVIOUS
  <2>3. PICK n \in T : \A i \in T : <<i, n>> \notin OpToRel(<, Nat)
    BY <2>1, <2>2, WFMin
  <2> QED BY <2>2, <2>3 DEF OpToRel
<1>2. n \in 0 .. m /\ n # 0
  OBVIOUS
<1>3. n - 1 \in 0 .. m - 1 /\ (n - 1) + 1 = n
  BY <1>2
<1>4. n - 1 \notin T
  BY <1>1, <1>2
<1>5. n - 1 \in 0 .. m
  BY <1>2
<1> QED BY <1>3, <1>4, <1>5

(* A recursive function exists: F says what comes after what.              *)
RunOf(r, m, S, a, F) ==
  r \in [0 .. m -> S] /\ r[0] = a /\ \A n \in 1 .. m : r[n] = F[n][r[n - 1]]

LEMMA Recursion ==
  ASSUME NEW m \in Nat, NEW S, NEW a \in S, NEW F \in [1 .. m -> [S -> S]]
  PROVE  \E r : RunOf(r, m, S, a, F)
<1> DEFINE Good(n, r) == r \in [0 .. n -> S] /\ r[0] = a
                         /\ \A i \in 1 .. n : r[i] = F[i][r[i - 1]]
           T == {n \in 0 .. m : \E r \in [0 .. n -> S] : Good(n, r)}
<1>1. 0 \in T
  <2> DEFINE r == [i \in 0 .. 0 |-> a]
  <2>1. Good(0, r)
    OBVIOUS
  <2>2. 0 \in 0 .. m
    OBVIOUS
  <2> QED BY <2>1, <2>2
<1>2. ASSUME NEW n \in 0 .. m - 1, n \in T
      PROVE  n + 1 \in T
  <2>1. PICK r \in [0 .. n -> S] : Good(n, r)
    BY <1>2
  <2> DEFINE q == [i \in 0 .. n + 1 |-> IF i = n + 1 THEN F[n + 1][r[n]] ELSE r[i]]
  <2>2. n + 1 \in 1 .. m /\ n \in 0 .. n /\ n \in Nat
    OBVIOUS
  <2>3. F[n + 1][r[n]] \in S
    BY <2>2
  <2>4. \A i \in 0 .. n : q[i] = r[i] /\ r[i] \in S
    OBVIOUS
  <2>5. q[n + 1] = F[n + 1][q[n]]
    BY <2>2, <2>4
  <2>6. q \in [0 .. n + 1 -> S]
    BY <2>2, <2>3
  <2>7. q[0] = a
    BY <2>1, <2>2, <2>4
  <2> HIDE DEF q
  <2>8. ASSUME NEW i \in 1 .. n + 1
        PROVE  q[i] = F[i][q[i - 1]]
    <3>1. CASE i = n + 1
      BY <2>2, <2>5, <3>1
    <3>2. CASE i # n + 1
      <4>1. i \in 1 .. n /\ i \in 0 .. n /\ i - 1 \in 0 .. n
        BY <2>2, <3>2
      <4> QED BY <2>1, <2>4, <4>1
    <3> QED BY <3>1, <3>2
  <2> QED BY <2>2, <2>6, <2>7, <2>8
<1>3. m \in T
  <2> HIDE DEF T
  <2>1. \A n \in 0 .. m : n \in T
    BY <1>1, <1>2, Counting
  <2> QED BY <2>1
<1> QED BY <1>3 DEF RunOf

-----------------------------------------------------------------------------
(* Words: what is added can be subtracted, and the two bytes of a word are *)
(* the word.                                                               *)
LEMMA ByteRange == \A n : n \in Byte <=> n \in Nat /\ n < 256
BY DEF Byte

LEMMA WordsAreInts == \A w \in Word : w \in Int
BY DEF Word

LEMMA WordShifted == \A w \in Word : w \div 32 \in Word
BY DEF Word

LEMMA CutWord ==
  ASSUME NEW n \in Int
  PROVE  Cut(n) \in Word
BY DEF Cut, Word

LEMMA CutTurns == \A w \in Word, q, n \in Int : n = w - 65536 * q => Cut(n) = w
BY DEF Cut, Word

LEMMA CutBack ==
  ASSUME NEW a \in Word, NEW m \in Int
  PROVE  Cut(Cut(a + m) - m) = a
<1> DEFINE q == (a + m) \div 65536
           x == Cut(a + m) - m
<1>1. q \in Int
  BY DEF Word
<1>2. x = a - 65536 * q /\ x \in Int
  BY DEF Cut, Word
<1> HIDE DEF q, x
<1>3. Cut(x) = a
  BY <1>1, <1>2, CutTurns
<1> QED BY <1>3, Zenon DEF x

LEMMA WordHalves ==
  ASSUME NEW w \in Word
  PROVE  /\ w % 256 \in Byte /\ w \div 256 \in Byte
         /\ (w % 256) + 256 * (w \div 256) = w
BY ByteRange DEF Word

LEMMA HalvesWord ==
  ASSUME NEW a \in Byte, NEW b \in Byte
  PROVE  /\ a + 256 * b \in Word
         /\ (a + 256 * b) % 256 = a /\ (a + 256 * b) \div 256 = b
BY ByteRange DEF Word

LEMMA XorWordIsWord ==
  ASSUME NEW a \in Word, NEW b \in Word
  PROVE  XorWord(a, b) \in Word
<1> DEFINE x == ByteXor(a % 256, b % 256)
           y == ByteXor(a \div 256, b \div 256)
<1>1. x \in Byte /\ y \in Byte
  BY WordHalves, CipherAssumption
<1> HIDE DEF x, y
<1>2. x + 256 * y \in Word
  BY <1>1, HalvesWord
<1> QED BY <1>2 DEF XorWord, x, y

LEMMA MixWord ==
  ASSUME NEW v \in Word, NEW sum \in Word, NEW k \in Word
  PROVE  Mix(v, sum, k) \in Word
<1> DEFINE x == XorWord(Cut(v * 16), v \div 32)
<1>1. Cut(v * 16) \in Word /\ v \div 32 \in Word
  <2>1. v * 16 \in Int
    BY WordsAreInts
  <2>2. v \div 32 \in Word
    BY WordShifted, Zenon
  <2> QED BY <2>1, <2>2, CutWord, Zenon
<1>2. x \in Word
  BY <1>1, XorWordIsWord
<1> HIDE DEF x
<1>3. Cut(x + v) \in Word /\ Cut(sum + k) \in Word
  <2>1. x + v \in Int /\ sum + k \in Int
    BY <1>2, WordsAreInts
  <2> QED BY <2>1, CutWord, Zenon
<1>4. XorWord(Cut(x + v), Cut(sum + k)) \in Word
  BY <1>3, XorWordIsWord
<1> QED BY <1>4 DEF Mix, x

-----------------------------------------------------------------------------
(* A round, and the other one that undoes it.                              *)
LEMMA KeyWords ==
  ASSUME NEW k \in Key, NEW sum \in Word
  PROVE  k[sum % 4] \in Word /\ k[(sum \div 2048) % 4] \in Word
<1>1. sum % 4 \in 0 .. 3 /\ (sum \div 2048) % 4 \in 0 .. 3
  BY DEF Word
<1> QED BY <1>1 DEF Key

LEMMA RoundBack ==
  ASSUME NEW s \in State, NEW k \in Key
  PROVE  /\ EncryptRound(s, k) \in State /\ EncryptRound(s, k)[3] = Cut(s[3] + Delta)
         /\ DecryptRound(EncryptRound(s, k), k) = s
<1> DEFINE m0 == Mix(s[2], s[3], k[s[3] % 4])
           s0 == Cut(s[1] + m0)
           sum == Cut(s[3] + Delta)
           m1 == Mix(s0, sum, k[(sum \div 2048) % 4])
           s1 == Cut(s[2] + m1)
           e == << s0, s1, sum >>
<1>1. s[1] \in Word /\ s[2] \in Word /\ s[3] \in Word /\ s = << s[1], s[2], s[3] >>
  BY DEF State
<1>2. m0 \in Word
  <2>1. k[s[3] % 4] \in Word
    BY <1>1, KeyWords
  <2> QED BY <1>1, <2>1, MixWord, Zenon
<1> HIDE DEF m0
<1>3. s0 \in Word /\ sum \in Word /\ Delta \in Int
  <2>1. s[1] + m0 \in Int /\ s[3] + Delta \in Int /\ Delta \in Int
    <3>1. Delta \in Word
      BY CipherAssumption
    <3> QED BY ONLY <1>1, <1>2, <3>1, WordsAreInts
  <2> QED BY <2>1, CutWord, Zenon
<1>4. Cut(s0 - m0) = s[1] /\ Cut(sum - Delta) = s[3]
  BY <1>1, <1>2, <1>3, CutBack, WordsAreInts, Zenon
<1> HIDE DEF s0, sum
<1>5. m1 \in Word
  <2>1. k[(sum \div 2048) % 4] \in Word
    BY <1>3, KeyWords
  <2> QED BY <1>3, <2>1, MixWord
<1> HIDE DEF m1
<1>6. s1 \in Word /\ Cut(s1 - m1) = s[2]
  <2>1. s[2] + m1 \in Int
    BY ONLY <1>1, <1>5, WordsAreInts
  <2> QED BY <1>1, <1>5, <2>1, CutWord, CutBack, WordsAreInts, Zenon
<1> HIDE DEF s1
<1>7. EncryptRound(s, k) = e
  BY Zenon DEF EncryptRound, e, s0, s1, sum, m0, m1
<1>8. e[1] = s0 /\ e[2] = s1 /\ e[3] = sum /\ e \in State
  BY <1>3, <1>6 DEF State
<1> HIDE DEF e
<1>9. DecryptRound(e, k) = << s[1], s[2], s[3] >>
  <2>1. Cut(e[2] - Mix(e[1], e[3], k[(e[3] \div 2048) % 4])) = s[2]
    BY <1>6, <1>8 DEF m1
  <2>2. Cut(e[3] - Delta) = s[3]
    BY <1>4, <1>8
  <2>3. Cut(e[1] - Mix(s[2], s[3], k[s[3] % 4])) = s[1]
    BY <1>4, <1>8 DEF m0
  <2> DEFINE t1 == Cut(e[2] - Mix(e[1], e[3], k[(e[3] \div 2048) % 4]))
             t3 == Cut(e[3] - Delta)
             t0 == Cut(e[1] - Mix(t1, t3, k[t3 % 4]))
  <2>4. DecryptRound(e, k) = << t0, t1, t3 >>
    BY Zenon DEF DecryptRound
  <2>5. t1 = s[2] /\ t3 = s[3]
    BY <2>1, <2>2
  <2> HIDE DEF t1, t3
  <2>6. t0 = s[1]
    BY <2>3, <2>5
  <2> HIDE DEF t0
  <2> QED BY <2>4, <2>5, <2>6
<1> QED BY <1>1, <1>7, <1>8, <1>9 DEF sum

LEMMA DecryptRoundState ==
  ASSUME NEW s \in State, NEW k \in Key
  PROVE  DecryptRound(s, k) \in State
<1> DEFINE s1 == Cut(s[2] - Mix(s[1], s[3], k[(s[3] \div 2048) % 4]))
           sum == Cut(s[3] - Delta)
           s0 == Cut(s[1] - Mix(s1, sum, k[sum % 4]))
<1>1. s[1] \in Word /\ s[2] \in Word /\ s[3] \in Word /\ Delta \in Word
  BY CipherAssumption DEF State
<1>2. s1 \in Word
  <2> DEFINE m == Mix(s[1], s[3], k[(s[3] \div 2048) % 4])
  <2>1. k[(s[3] \div 2048) % 4] \in Word
    BY <1>1, KeyWords
  <2>2. m \in Word
    BY <1>1, <2>1, MixWord
  <2> HIDE DEF m
  <2>3. s[2] - m \in Int
    BY ONLY <1>1, <2>2, WordsAreInts
  <2> QED BY <2>3, CutWord DEF m
<1>3. sum \in Word
  <2>1. s[3] - Delta \in Int
    BY ONLY <1>1, WordsAreInts
  <2> QED BY <2>1, CutWord
<1> HIDE DEF s1, sum
<1>4. s0 \in Word
  <2> DEFINE m == Mix(s1, sum, k[sum % 4])
  <2>1. k[sum % 4] \in Word
    <3>1. sum % 4 \in 0 .. 3
      BY <1>3 DEF Word
    <3> QED BY <3>1 DEF Key
  <2>2. m \in Word
    BY <1>2, <1>3, <2>1, MixWord
  <2> HIDE DEF m
  <2>3. s[1] - m \in Int
    BY ONLY <1>1, <2>2, WordsAreInts
  <2> QED BY <2>3, CutWord DEF m
<1> HIDE DEF s0
<1>5. DecryptRound(s, k) = << s0, s1, sum >>
  BY Zenon DEF DecryptRound, s0, s1, sum
<1>6. << s0, s1, sum >> \in State
  BY <1>2, <1>3, <1>4 DEF State
<1> QED BY <1>5, <1>6, Zenon

-----------------------------------------------------------------------------
(* The loops of rounds, turn by turn.                                      *)
LEMMA BlockWords ==
  ASSUME NEW b \in ByteBlock
  PROVE  Words(b)[1] \in Word /\ Words(b)[2] \in Word /\ Bytes(Words(b)) = b
<1>1. /\ b[1] \in Byte /\ b[2] \in Byte /\ b[3] \in Byte /\ b[4] \in Byte
      /\ b = << b[1], b[2], b[3], b[4] >>
  BY DEF ByteBlock, Block
<1> DEFINE x == b[1] + 256 * b[2]
           y == b[3] + 256 * b[4]
<1>2. x \in Word /\ x % 256 = b[1] /\ x \div 256 = b[2]
  BY <1>1, HalvesWord
<1>3. y \in Word /\ y % 256 = b[3] /\ y \div 256 = b[4]
  BY <1>1, HalvesWord
<1> HIDE DEF x, y
<1>4. Words(b) = << x, y >>
  BY DEF Words, x, y
<1>5. Words(b)[1] = x /\ Words(b)[2] = y
  BY <1>4
<1> HIDE DEF Words
<1>6. Bytes(Words(b)) = << x % 256, x \div 256, y % 256, y \div 256 >>
  BY <1>5, Zenon DEF Bytes
<1> QED BY <1>1, <1>2, <1>3, <1>5, <1>6

LEMMA WordsBlock ==
  ASSUME NEW s \in State
  PROVE  Bytes(s) \in ByteBlock /\ Words(Bytes(s)) = << s[1], s[2] >>
<1>1. s[1] \in Word /\ s[2] \in Word
  BY DEF State
<1>2. /\ s[1] % 256 \in Byte /\ s[1] \div 256 \in Byte
      /\ (s[1] % 256) + 256 * (s[1] \div 256) = s[1]
  BY <1>1, WordHalves
<1>3. /\ s[2] % 256 \in Byte /\ s[2] \div 256 \in Byte
      /\ (s[2] % 256) + 256 * (s[2] \div 256) = s[2]
  BY <1>1, WordHalves
<1> DEFINE b1 == s[1] % 256  b2 == s[1] \div 256  b3 == s[2] % 256  b4 == s[2] \div 256
<1>4. Bytes(s) = << b1, b2, b3, b4 >>
  BY DEF Bytes
<1>5. Words(Bytes(s)) = << b1 + 256 * b2, b3 + 256 * b4 >>
  <2> HIDE DEF b1, b2, b3, b4
  <2> QED BY <1>4 DEF Words
<1>6. << b1, b2, b3, b4 >> \in ByteBlock
  <2>1. b1 \in Byte /\ b2 \in Byte /\ b3 \in Byte /\ b4 \in Byte
    BY <1>2, <1>3
  <2> HIDE DEF b1, b2, b3, b4
  <2> QED BY <2>1 DEF ByteBlock, Block
<1> QED BY <1>2, <1>3, <1>4, <1>5, <1>6

LEMMA EncryptingTurns ==
  ASSUME NEW b \in ByteBlock, NEW k \in Key, NEW e, e = Encrypting(b, k)
  PROVE  /\ e[0] = << Words(b)[1], Words(b)[2], 0 >>
         /\ \A n \in 1 .. Rounds : e[n] = EncryptRound(e[n - 1], k)
<1> DEFINE a == << Words(b)[1], Words(b)[2], 0 >>
           F == [n \in 1 .. Rounds |-> [s \in State |-> EncryptRound(s, k)]]
           Runs(s) == s = [n \in 0 .. Rounds |-> IF n = 0 THEN a ELSE EncryptRound(s[n - 1], k)]
<1>1. a \in State
  <2>1. 0 \in Word
    BY DEF Word
  <2> QED BY <2>1, BlockWords DEF State
<1>2. F \in [1 .. Rounds -> [State -> State]]
  BY RoundBack
<1>3. Rounds \in Nat
  BY CipherAssumption
<1> HIDE DEF a
<1>4. PICK r : RunOf(r, Rounds, State, a, F)
  <2> HIDE DEF F
  <2> QED BY <1>1, <1>2, <1>3, Recursion, Zenon
<1>5. Runs(r)
  <2>2. r = [n \in 0 .. Rounds |-> r[n]]
    BY <1>4 DEF RunOf
  <2>1. ASSUME NEW n \in 0 .. Rounds
        PROVE  r[n] = IF n = 0 THEN a ELSE EncryptRound(r[n - 1], k)
    <3>1. CASE n = 0
      BY <1>4, <3>1 DEF RunOf
    <3>2. CASE n # 0
      <4>1. n \in 1 .. Rounds /\ n - 1 \in 0 .. Rounds
        BY <1>3, <3>2
      <4>2. r[n] = F[n][r[n - 1]] /\ r[n - 1] \in State
        BY <1>4, <4>1 DEF RunOf
      <4> QED BY <3>2, <4>1, <4>2
    <3> QED BY <3>1, <3>2
  <2> QED BY <2>1, <2>2
<1>6. Runs(e)
  <2>1. e = CHOOSE s : Runs(s)
    BY DEF Encrypting, a
  <2> HIDE DEF Runs
  <2> QED BY <1>5, <2>1, Zenon
<1>7. e[0] = a
  <2>1. 0 \in 0 .. Rounds
    BY <1>3
  <2> QED BY <1>6, <2>1
<1>8. ASSUME NEW n \in 1 .. Rounds
      PROVE  e[n] = EncryptRound(e[n - 1], k)
  <2>1. n \in 0 .. Rounds /\ n # 0
    BY <1>3
  <2> QED BY <1>6, <2>1
<1> QED BY <1>7, <1>8 DEF a

LEMMA DecryptingTurns ==
  ASSUME NEW b \in ByteBlock, NEW k \in Key, NEW d, d = Decrypting(b, k)
  PROVE  /\ d[0] = << Words(b)[1], Words(b)[2], Cut(Delta * Rounds) >>
         /\ \A n \in 1 .. Rounds : d[n] = DecryptRound(d[n - 1], k)
<1> DEFINE a == << Words(b)[1], Words(b)[2], Cut(Delta * Rounds) >>
           F == [n \in 1 .. Rounds |-> [s \in State |-> DecryptRound(s, k)]]
           Runs(s) == s = [n \in 0 .. Rounds |-> IF n = 0 THEN a ELSE DecryptRound(s[n - 1], k)]
<1>1. a \in State
  <2>1. Delta * Rounds \in Int
    BY CipherAssumption, WordsAreInts
  <2>2. Cut(Delta * Rounds) \in Word
    BY <2>1, CutWord, Zenon
  <2> QED BY <2>2, BlockWords DEF State
<1>2. F \in [1 .. Rounds -> [State -> State]]
  BY DecryptRoundState
<1>3. Rounds \in Nat
  BY CipherAssumption
<1> HIDE DEF a
<1>4. PICK r : RunOf(r, Rounds, State, a, F)
  <2> HIDE DEF F
  <2> QED BY <1>1, <1>2, <1>3, Recursion, Zenon
<1>5. Runs(r)
  <2>2. r = [n \in 0 .. Rounds |-> r[n]]
    BY <1>4 DEF RunOf
  <2>1. ASSUME NEW n \in 0 .. Rounds
        PROVE  r[n] = IF n = 0 THEN a ELSE DecryptRound(r[n - 1], k)
    <3>1. CASE n = 0
      BY <1>4, <3>1 DEF RunOf
    <3>2. CASE n # 0
      <4>1. n \in 1 .. Rounds /\ n - 1 \in 0 .. Rounds
        BY <1>3, <3>2
      <4>2. r[n] = F[n][r[n - 1]] /\ r[n - 1] \in State
        BY <1>4, <4>1 DEF RunOf
      <4> QED BY <3>2, <4>1, <4>2
    <3> QED BY <3>1, <3>2
  <2> QED BY <2>1, <2>2
<1>6. Runs(d)
  <2>1. d = CHOOSE s : Runs(s)
    BY DEF Decrypting, a
  <2> HIDE DEF Runs
  <2> QED BY <1>5, <2>1, Zenon
<1>7. d[0] = a
  <2>1. 0 \in 0 .. Rounds
    BY <1>3
  <2> QED BY <1>6, <2>1
<1>8. ASSUME NEW n \in 1 .. Rounds
      PROVE  d[n] = DecryptRound(d[n - 1], k)
  <2>1. n \in 0 .. Rounds /\ n # 0
    BY <1>3
  <2> QED BY <1>6, <2>1
<1> QED BY <1>7, <1>8 DEF a

(* What sum has come to after n turns.                                     *)
LEMMA SumTurns ==
  ASSUME NEW n \in Nat
  PROVE  Cut(Cut(Delta * n) + Delta) = Cut(Delta * (n + 1))
<1> DEFINE x == Delta * n
<1>1. x \in Int /\ Delta \in Int /\ Delta * (n + 1) = x + Delta
  BY CipherAssumption, WordsAreInts
<1> HIDE DEF x
<1>2. \A i, j \in Int : ((i % 65536) + j) % 65536 = (i + j) % 65536
  OBVIOUS
<1>3. Cut(Cut(x) + Delta) = Cut(x + Delta)
  BY <1>1, <1>2 DEF Cut
<1> QED BY <1>1, <1>3 DEF x

LEMMA EncryptingStates ==
  ASSUME NEW b \in ByteBlock, NEW k \in Key, NEW e, e = Encrypting(b, k)
  PROVE  \A n \in 0 .. Rounds : e[n] \in State /\ e[n][3] = Cut(Delta * n)
<1> DEFINE S == {n \in Nat : e[n] \in State /\ e[n][3] = Cut(Delta * n)}
<1>1. Rounds \in Nat /\ Delta \in Int
  BY CipherAssumption, WordsAreInts
<1>2. 0 \in S
  <2> DEFINE w1 == Words(b)[1]
             w2 == Words(b)[2]
  <2>1. w1 \in Word /\ w2 \in Word /\ e[0] = << w1, w2, 0 >>
    BY BlockWords, EncryptingTurns, Zenon
  <2> HIDE DEF w1, w2
  <2>2. 0 \in Word /\ Cut(Delta * 0) = 0
    BY <1>1 DEF Word, Cut
  <2>3. e[0] \in State /\ e[0][3] = 0
    BY <2>1, <2>2 DEF State
  <2> QED BY <2>2, <2>3
<1>3. ASSUME NEW n \in 0 .. Rounds - 1, n \in S
      PROVE  n + 1 \in S
  <2>1. n + 1 \in 1 .. Rounds /\ (n + 1) - 1 = n /\ n \in Nat /\ n + 1 \in Nat
    BY <1>1
  <2>2. e[n + 1] = EncryptRound(e[n], k)
    BY <2>1, EncryptingTurns
  <2>3. e[n] \in State /\ e[n][3] = Cut(Delta * n)
    BY <1>3
  <2>4. e[n + 1] \in State /\ e[n + 1][3] = Cut(Cut(Delta * n) + Delta)
    BY <2>2, <2>3, RoundBack, Zenon
  <2>5. e[n + 1][3] = Cut(Delta * (n + 1))
    BY <2>1, <2>4, SumTurns, Zenon
  <2> QED BY <2>1, <2>4, <2>5
<1>4. \A n \in 0 .. Rounds : n \in S
  <2> HIDE DEF S
  <2> QED BY <1>1, <1>2, <1>3, Counting
<1> QED BY <1>4

(* One loop takes back what the other did, turn by turn.                   *)
THEOREM DecryptsBlock ==
  ASSUME NEW b \in ByteBlock, NEW k \in Key
  PROVE  XTeaEncrypt(b, k) \in ByteBlock /\ XTeaDecrypt(XTeaEncrypt(b, k), k) = b
<1> DEFINE e == Encrypting(b, k)
           c == Bytes(e[Rounds])
           d == Decrypting(c, k)
           S == {n \in Nat : d[n] = e[Rounds - n]}
<1>1. Rounds \in Nat /\ Rounds - Rounds = 0 /\ Rounds \in 0 .. Rounds
  BY CipherAssumption
<1>2. \A n \in 0 .. Rounds : e[n] \in State /\ e[n][3] = Cut(Delta * n)
  BY EncryptingStates
<1>3. /\ e[0] = << Words(b)[1], Words(b)[2], 0 >>
      /\ \A n \in 1 .. Rounds : e[n] = EncryptRound(e[n - 1], k)
  BY EncryptingTurns
<1> HIDE DEF e
<1>4. c \in ByteBlock /\ Words(c) = << e[Rounds][1], e[Rounds][2] >>
  BY <1>1, <1>2, WordsBlock
<1> HIDE DEF c
<1>5. /\ d[0] = << Words(c)[1], Words(c)[2], Cut(Delta * Rounds) >>
      /\ \A n \in 1 .. Rounds : d[n] = DecryptRound(d[n - 1], k)
  BY <1>4, DecryptingTurns
<1> HIDE DEF d
<1>6. 0 \in S
  <2>1. e[Rounds] \in State /\ e[Rounds][3] = Cut(Delta * Rounds)
    BY <1>1, <1>2
  <2>2. e[Rounds] = << e[Rounds][1], e[Rounds][2], e[Rounds][3] >>
    BY <2>1 DEF State
  <2>3. Words(c)[1] = e[Rounds][1] /\ Words(c)[2] = e[Rounds][2]
    BY <1>4
  <2>4. d[0] = e[Rounds]
    BY <1>5, <2>1, <2>2, <2>3
  <2>5. Rounds - 0 = Rounds
    BY <1>1
  <2> QED BY <2>4, <2>5
<1>7. ASSUME NEW n \in 0 .. Rounds - 1, n \in S
      PROVE  n + 1 \in S
  <2> DEFINE i == Rounds - (n + 1)
  <2>1. /\ n + 1 \in 1 .. Rounds /\ (n + 1) - 1 = n /\ n + 1 \in Nat
        /\ i \in 0 .. Rounds /\ i + 1 \in 1 .. Rounds /\ (i + 1) - 1 = i /\ Rounds - n = i + 1
    BY <1>1
  <2> HIDE DEF i
  <2>2. d[n] = e[i + 1]
    BY <1>7, <2>1
  <2>3. d[n + 1] = DecryptRound(d[n], k)
    BY <1>5, <2>1
  <2>4. e[i + 1] = EncryptRound(e[i], k)
    BY <1>3, <2>1
  <2>5. DecryptRound(EncryptRound(e[i], k), k) = e[i]
    BY <1>2, <2>1, RoundBack
  <2>6. d[n + 1] = e[i]
    BY <2>2, <2>3, <2>4, <2>5, Zenon
  <2> QED BY <2>1, <2>6 DEF i
<1>8. d[Rounds] = e[0]
  <2>1. \A n \in 0 .. Rounds : n \in S
    <3> HIDE DEF S
    <3> QED BY <1>1, <1>6, <1>7, Counting
  <2> QED BY <1>1, <2>1
<1>9. Bytes(d[Rounds]) = b
  <2>1. e[0][1] = Words(b)[1] /\ e[0][2] = Words(b)[2]
    BY <1>3
  <2>2. Bytes(e[0]) = Bytes(Words(b))
    BY <2>1, Zenon DEF Bytes
  <2> QED BY <1>8, <2>2, BlockWords, Zenon
<1> QED BY <1>4, <1>9, Zenon DEF XTeaEncrypt, XTeaDecrypt, c, d, e
-----------------------------------------------------------------------------
(* Blocks and the bytes they are made of.                                  *)
BlockAt(i) == (i - 1) \div Block + 1
PlaceAt(i) == ((i - 1) % Block) + 1
At(n, j) == (n - 1) * Block + j

LEMMA ByteAt ==
  \A N \in Nat, i \in Int : i \in 1 .. Block * N =>
    /\ BlockAt(i) \in 1 .. N /\ PlaceAt(i) \in 1 .. Block /\ At(BlockAt(i), PlaceAt(i)) = i
BY DEF Block, BlockAt, PlaceAt, At

LEMMA ByteOf ==
  \A N \in Nat, n, j \in Int : n \in 1 .. N /\ j \in 1 .. Block =>
    /\ At(n, j) \in 1 .. Block * N /\ BlockAt(At(n, j)) = n /\ PlaceAt(At(n, j)) = j
BY DEF Block, BlockAt, PlaceAt, At

LEMMA JoinedBlocks ==
  ASSUME NEW N \in Nat, NEW blocks, \A n \in 1 .. N : blocks[n] \in ByteBlock,
         NEW s, s = Joined(blocks, Block * N)
  PROVE  /\ s \in Seq(Byte) /\ Len(s) = Block * N
         /\ \A n \in 1 .. N : BlockOf(s, n) = blocks[n]
<1> DEFINE M == Block * N
<1>1. M \in Nat /\ \A i \in 1 .. M : i \in Int
  BY DEF Block
<1>2. s = [i \in 1 .. M |-> blocks[BlockAt(i)][PlaceAt(i)]]
  BY DEF Joined, BlockAt, PlaceAt
<1>3. \A i \in 1 .. M : BlockAt(i) \in 1 .. N /\ PlaceAt(i) \in 1 .. Block
  BY <1>1, ByteAt, Zenon
<1>4. \A n \in 1 .. N, j \in 1 .. Block :
        At(n, j) \in 1 .. M /\ BlockAt(At(n, j)) = n /\ PlaceAt(At(n, j)) = j
  <2>1. \A n \in 1 .. N : n \in Int
    OBVIOUS
  <2>2. \A j \in 1 .. Block : j \in Int
    BY DEF Block
  <2> QED BY <2>1, <2>2, ByteOf, Zenon
<1> HIDE DEF M
<1>5. \A i \in 1 .. M : blocks[BlockAt(i)][PlaceAt(i)] \in Byte
  BY <1>3 DEF ByteBlock
<1>6. s \in [1 .. M -> Byte]
  BY <1>2, <1>5
<1>7. s \in Seq(Byte) /\ Len(s) = M
  BY <1>1, <1>6
<1>8. ASSUME NEW n \in 1 .. N
      PROVE  BlockOf(s, n) = blocks[n]
  <2>1. \A j \in 1 .. Block : s[At(n, j)] = blocks[n][j]
    BY <1>2, <1>4, Zenon
  <2>2. blocks[n] = [j \in 1 .. Block |-> blocks[n][j]]
    BY DEF ByteBlock
  <2> QED BY <2>1, <2>2, Zenon DEF BlockOf, At
<1> QED BY <1>7, <1>8 DEF M

LEMMA BlocksJoined ==
  ASSUME NEW N \in Nat, NEW s \in Seq(Byte), Len(s) = Block * N,
         NEW blocks, \A n \in 1 .. N : blocks[n] = BlockOf(s, n)
  PROVE  Joined(blocks, Len(s)) = s
<1> DEFINE M == Len(s)
<1>1. \A i \in 1 .. M : /\ BlockAt(i) \in 1 .. N /\ PlaceAt(i) \in 1 .. Block
                        /\ At(BlockAt(i), PlaceAt(i)) = i
  <2>1. \A i \in 1 .. M : i \in Int
    OBVIOUS
  <2> QED BY <2>1, ByteAt, Zenon
<1>2. \A n, j : j \in 1 .. Block => BlockOf(s, n)[j] = s[At(n, j)]
  BY Zenon DEF BlockOf, At
<1>3. \A i \in 1 .. M : blocks[BlockAt(i)][PlaceAt(i)] = s[i]
  <2> TAKE i \in 1 .. M
  <2>1. blocks[BlockAt(i)] = BlockOf(s, BlockAt(i))
    BY <1>1
  <2>2. BlockOf(s, BlockAt(i))[PlaceAt(i)] = s[At(BlockAt(i), PlaceAt(i))]
    BY <1>1, <1>2, Zenon
  <2> QED BY <1>1, <2>1, <2>2
<1>4. Joined(blocks, M) = [i \in 1 .. M |-> blocks[BlockAt(i)][PlaceAt(i)]]
  BY Zenon DEF Joined, BlockAt, PlaceAt
<1>5. s = [i \in 1 .. M |-> s[i]]
  OBVIOUS
<1> QED BY <1>3, <1>4, <1>5, Zenon

LEMMA BlockOfBytes ==
  ASSUME NEW N \in Nat, NEW s \in Seq(Byte), Len(s) = Block * N, NEW n \in 1 .. N
  PROVE  BlockOf(s, n) \in ByteBlock
<1>1. \A j \in 1 .. Block : At(n, j) \in 1 .. Len(s)
  <2>1. \A j \in 1 .. Block : j \in Int
    BY DEF Block
  <2>2. n \in Int
    OBVIOUS
  <2> QED BY <2>1, <2>2, ByteOf, Zenon
<1>2. \A j \in 1 .. Block : s[At(n, j)] \in Byte
  BY <1>1
<1> QED BY <1>2, Zenon DEF BlockOf, ByteBlock, At

LEMMA XorBack ==
  ASSUME NEW a \in ByteBlock, NEW b \in ByteBlock
  PROVE  XorBlock(a, b) \in ByteBlock /\ XorBlock(XorBlock(a, b), b) = a
<1>1. \A i \in 1 .. Block : /\ a[i] \in Byte /\ b[i] \in Byte /\ ByteXor(a[i], b[i]) \in Byte
                            /\ ByteXor(ByteXor(a[i], b[i]), b[i]) = a[i]
  BY CipherAssumption DEF ByteBlock
<1>2. a = [i \in 1 .. Block |-> a[i]]
  BY DEF ByteBlock
<1> QED BY <1>1, <1>2 DEF XorBlock, ByteBlock

(* Every text is padded to whole blocks, and the last byte says by how     *)
(* much.                                                                   *)
LEMMA PaddedBlocks ==
  ASSUME NEW src \in Seq(Byte), NEW p, p = Padded(src)
  PROVE  /\ p \in Seq(Byte) /\ Padding(src) \in 1 .. Block
         /\ Len(p) = Len(src) + Padding(src) /\ Len(p) = Block * (Len(src) \div Block + 1)
         /\ p[Len(p)] = 48 + Padding(src)
         /\ SubSeq(p, 1, Len(p) - Padding(src)) = src
<1> DEFINE k == Padding(src)
           t == [i \in 1 .. k |-> 48 + k]
<1>1. Len(src) \in Nat
  OBVIOUS
<1>2. k \in 1 .. Block /\ Len(src) + k = Block * (Len(src) \div Block + 1)
  BY <1>1 DEF Padding, Block
<1>3. k \in Nat /\ k > 0 /\ 48 + k \in Byte
  BY <1>2, ByteRange DEF Block
<1>4. p = src \o t
  BY DEF Padded
<1> HIDE DEF k
<1>5. t \in Seq(Byte) /\ Len(t) = k /\ t[k] = 48 + k
  BY <1>3
<1> HIDE DEF t
<1>6. p \in Seq(Byte) /\ Len(p) = Len(src) + k /\ \A i \in 1 .. Len(src) : p[i] = src[i]
  <2>1. p \in Seq(Byte) /\ Len(p) = Len(src) + Len(t)
    BY <1>4, <1>5, ConcatProperties, Zenon
  <2>2. \A i \in 1 .. Len(src) : p[i] = src[i]
    BY <1>4
  <2> QED BY <1>5, <2>1, <2>2, Zenon
<1>7. p[Len(p)] = 48 + k
  BY <1>3, <1>4, <1>5, <1>6
<1>8. SubSeq(p, 1, Len(p) - k) = src
  <2>1. Len(p) - k = Len(src) /\ Len(src) <= Len(p)
    BY <1>1, <1>3, <1>6
  <2>2. SubSeq(p, 1, Len(src)) = src
    <3> DEFINE q == SubSeq(p, 1, Len(src))
    <3>1. q \in Seq(Byte) /\ Len(q) = Len(src) /\ \A i \in 1 .. Len(src) : q[i] = p[i]
      BY <1>1, <1>6, <2>1
    <3> HIDE DEF q
    <3>2. q = src
      BY <1>6, <3>1
    <3> QED BY <3>2 DEF q
  <2> QED BY <2>1, <2>2
<1> QED BY <1>2, <1>6, <1>7, <1>8 DEF k
-----------------------------------------------------------------------------
(* The chain of blocks, and the way back along it.                         *)
LEMMA ChainTurns ==
  ASSUME NEW N \in Nat, NEW s \in Seq(Byte), Len(s) = Block * N,
         NEW iv \in ByteBlock, NEW k \in Key, NEW c, c = Chain(s, iv, k)
  PROVE  /\ c[0] = iv /\ \A n \in 0 .. N : c[n] \in ByteBlock
         /\ \A n \in 1 .. N : c[n] = XTeaEncrypt(XorBlock(BlockOf(s, n), c[n - 1]), k)
<1> DEFINE F == [n \in 1 .. N |-> [b \in ByteBlock |-> XTeaEncrypt(XorBlock(BlockOf(s, n), b), k)]]
           Runs(t) == t = [n \in 0 .. N |->
                             IF n = 0 THEN iv ELSE XTeaEncrypt(XorBlock(BlockOf(s, n), t[n - 1]), k)]
<1>1. Len(s) \div Block = N
  BY DEF Block
<1>2. F \in [1 .. N -> [ByteBlock -> ByteBlock]]
  BY BlockOfBytes, XorBack, DecryptsBlock
<1>3. PICK r : RunOf(r, N, ByteBlock, iv, F)
  <2> HIDE DEF F
  <2> QED BY <1>2, Recursion, Zenon
<1>4. Runs(r)
  <2>1. ASSUME NEW n \in 0 .. N
        PROVE  r[n] = IF n = 0 THEN iv ELSE XTeaEncrypt(XorBlock(BlockOf(s, n), r[n - 1]), k)
    <3>1. CASE n = 0
      BY <1>3, <3>1 DEF RunOf
    <3>2. CASE n # 0
      <4>1. n \in 1 .. N /\ n - 1 \in 0 .. N
        BY <3>2
      <4>2. r[n] = F[n][r[n - 1]] /\ r[n - 1] \in ByteBlock
        BY <1>3, <4>1 DEF RunOf
      <4> QED BY <3>2, <4>1, <4>2
    <3> QED BY <3>1, <3>2
  <2>2. r = [n \in 0 .. N |-> r[n]]
    BY <1>3 DEF RunOf
  <2> QED BY <2>1, <2>2
<1>5. Runs(c)
  <2>1. c = CHOOSE t : Runs(t)
    BY <1>1 DEF Chain
  <2> HIDE DEF Runs
  <2> QED BY <1>4, <2>1, Zenon
<1>6. c[0] = iv
  <2>1. 0 \in 0 .. N
    OBVIOUS
  <2> QED BY <1>5, <2>1
<1>7. ASSUME NEW n \in 1 .. N
      PROVE  c[n] = XTeaEncrypt(XorBlock(BlockOf(s, n), c[n - 1]), k)
  <2>1. n \in 0 .. N /\ n # 0
    OBVIOUS
  <2> QED BY <1>5, <2>1
<1>8. ASSUME NEW n \in 0 .. N
      PROVE  c[n] \in ByteBlock
  <2> DEFINE S == {i \in Nat : c[i] \in ByteBlock}
  <2>1. 0 \in S
    BY <1>6
  <2>2. ASSUME NEW i \in 0 .. N - 1, i \in S
        PROVE  i + 1 \in S
    <3>1. i + 1 \in 1 .. N /\ (i + 1) - 1 = i /\ i + 1 \in Nat
      OBVIOUS
    <3>2. c[i + 1] = XTeaEncrypt(XorBlock(BlockOf(s, i + 1), c[i]), k)
      BY <1>7, <3>1
    <3>3. BlockOf(s, i + 1) \in ByteBlock
      BY <3>1, BlockOfBytes
    <3>4. XorBlock(BlockOf(s, i + 1), c[i]) \in ByteBlock
      BY <2>2, <3>3, XorBack
    <3> QED BY <3>1, <3>2, <3>4, DecryptsBlock
  <2> HIDE DEF S
  <2>3. \A i \in 0 .. N : i \in S
    BY <2>1, <2>2, Counting
  <2> QED BY <2>3 DEF S
<1> QED BY <1>6, <1>7, <1>8

LEMMA UnchainsBack ==
  ASSUME NEW N \in Nat, NEW s \in Seq(Byte), Len(s) = Block * N,
         NEW iv \in ByteBlock, NEW k \in Key,
         NEW e, e = Joined(Chain(s, iv, k), Len(s))
  PROVE  /\ e \in Seq(Byte) /\ Len(e) = Len(s)
         /\ Joined(Unchained(e, iv, k), Len(e)) = s
<1> DEFINE c == Chain(s, iv, k)
           u == Unchained(e, iv, k)
<1>1. /\ c[0] = iv /\ \A n \in 0 .. N : c[n] \in ByteBlock
      /\ \A n \in 1 .. N : c[n] = XTeaEncrypt(XorBlock(BlockOf(s, n), c[n - 1]), k)
  BY ChainTurns
<1> HIDE DEF c
<1>2. /\ e \in Seq(Byte) /\ Len(e) = Block * N
      /\ \A n \in 1 .. N : BlockOf(e, n) = c[n]
  <2>1. e = Joined(c, Block * N)
    BY DEF c
  <2>2. \A n \in 1 .. N : c[n] \in ByteBlock
    BY <1>1
  <2> QED BY <2>1, <2>2, JoinedBlocks
<1>3. Len(e) \div Block = N
  BY <1>2 DEF Block
<1>4. ASSUME NEW n \in 1 .. N
      PROVE  u[n] = BlockOf(s, n)
  <2> DEFINE b == BlockOf(s, n)
             x == c[n - 1]
  <2>1. b \in ByteBlock /\ x \in ByteBlock
    <3>1. n - 1 \in 0 .. N
      OBVIOUS
    <3> QED BY <1>1, <3>1, BlockOfBytes
  <2>2. u[n] = XorBlock(XTeaDecrypt(BlockOf(e, n), k), IF n = 1 THEN iv ELSE BlockOf(e, n - 1))
    BY <1>3 DEF Unchained
  <2>3. (IF n = 1 THEN iv ELSE BlockOf(e, n - 1)) = x
    <3>1. CASE n = 1
      BY <1>1, <3>1
    <3>2. CASE n # 1
      <4>1. n - 1 \in 1 .. N
        BY <3>2
      <4> QED BY <1>2, <3>2, <4>1
    <3> QED BY <3>1, <3>2
  <2>4. BlockOf(e, n) = XTeaEncrypt(XorBlock(b, x), k)
    BY <1>1, <1>2
  <2> HIDE DEF b, x, u
  <2>5. XorBlock(b, x) \in ByteBlock /\ XorBlock(XorBlock(b, x), x) = b
    BY <2>1, XorBack
  <2>6. XTeaDecrypt(BlockOf(e, n), k) = XorBlock(b, x)
    BY <2>4, <2>5, DecryptsBlock
  <2> QED BY <2>2, <2>3, <2>5, <2>6, Zenon DEF b
<1> HIDE DEF u
<1>5. Joined(u, Len(s)) = s
  BY <1>4, BlocksJoined
<1> QED BY <1>2, <1>5, Zenon DEF u
(* A text in CBC mode, and what XTeaEncryptCBC and XTeaDecryptCBC make of  *)
(* it when they have room.                                                 *)
CBC(src, iv, k) == Joined(Chain(Padded(src), iv, k), Len(Padded(src)))

LEMMA EncryptsCBC ==
  ASSUME NEW src \in Seq(Byte), NEW iv \in ByteBlock, NEW k \in Key,
         NEW n \in Nat, n >= Len(src) + Block
  PROVE  XTeaEncryptCBC(src, n, iv, k) = << CBC(src, iv, k) >>
<1>1. ~ (n < Len(src)) /\ ~ (n < Len(src) + Block)
  <2>1. Len(src) \in Nat
    OBVIOUS
  <2> QED BY <2>1 DEF Block
<1> QED BY <1>1, Zenon DEF XTeaEncryptCBC, CBC

LEMMA CBCBytes ==
  ASSUME NEW src \in Seq(Byte), NEW iv \in ByteBlock, NEW k \in Key,
         NEW e, e = CBC(src, iv, k)
  PROVE  /\ e \in Seq(Byte) /\ Len(e) = Len(Padded(src))
         /\ Len(e) \in Len(src) + 1 .. Len(src) + Block /\ Len(e) % Block = 0
         /\ Joined(Unchained(e, iv, k), Len(e)) = Padded(src)
<1> DEFINE p == Padded(src)
           N == Len(src) \div Block + 1
           pad == Padding(src)
<1>1. Len(src) \in Nat /\ N \in Nat
  <2>1. Len(src) \in Nat
    OBVIOUS
  <2> QED BY <2>1 DEF Block
<1>2. /\ p \in Seq(Byte) /\ pad \in 1 .. Block
      /\ Len(p) = Len(src) + pad /\ Len(p) = Block * N
  BY PaddedBlocks
<1> HIDE DEF p, N, pad
<1>3. /\ e \in Seq(Byte) /\ Len(e) = Len(p)
      /\ Joined(Unchained(e, iv, k), Len(e)) = p
  <2>1. e = Joined(Chain(p, iv, k), Len(p))
    BY DEF CBC, p
  <2> QED BY ONLY <1>1, <1>2, <2>1, iv \in ByteBlock, k \in Key, UnchainsBack
<1>4. Len(p) \in Len(src) + 1 .. Len(src) + Block /\ Len(p) % Block = 0
  BY <1>1, <1>2 DEF Block
<1> QED BY <1>3, <1>4 DEF p

LEMMA DecryptsCBC ==
  ASSUME NEW src \in Seq(Byte), NEW iv \in ByteBlock, NEW k \in Key,
         NEW e, e = CBC(src, iv, k), NEW n \in Nat, n >= Len(e)
  PROVE  XTeaDecryptCBC(e, n, iv, k) = << src >>
<1> DEFINE p == Padded(src)
           pad == Padding(src)
           dst == Joined(Unchained(e, iv, k), Len(e))
<1>1. pad \in 1 .. Block /\ p[Len(p)] = 48 + pad /\ SubSeq(p, 1, Len(p) - pad) = src
  BY PaddedBlocks
<1>2. Len(e) \in Nat /\ Len(e) = Len(p) /\ dst = p /\ Len(e) % Block = 0
  BY CBCBytes
<1>3. pad \in Int
  BY <1>1 DEF Block
<1> HIDE DEF p, pad, dst
<1>4. ~ (n < Len(e))
  BY <1>2
<1>5. dst[Len(e)] - 48 = pad
  BY <1>1, <1>2, <1>3
<1>6. SubSeq(dst, 1, Len(e) - pad) = src
  BY <1>1, <1>2
<1>7. XTeaDecryptCBC(e, n, iv, k)
        = IF n < Len(e) \/ Len(e) % Block # 0 \/ dst[Len(e)] - 48 \notin 1 .. Block THEN <<>>
          ELSE << SubSeq(dst, 1, Len(e) - (dst[Len(e)] - 48)) >>
  BY Zenon DEF XTeaDecryptCBC, dst
<1> QED BY <1>1, <1>2, <1>4, <1>5, <1>6, <1>7

-----------------------------------------------------------------------------
(* A byte's two digits are the byte.                                       *)
LEMMA DigitBack ==
  \A d \in 0 .. 15 : Digit(d) \in Int /\ hexDecodeChar(Digit(d)) = d
BY DEF Digit, hexDecodeChar

LEMMA DigitsBack ==
  \A b \in Byte : (hexDecodeChar(Digit(b \div 16)) * 16 + hexDecodeChar(Digit(b % 16))) % 256 = b
<1> TAKE b \in Byte
<1>1. b \div 16 \in 0 .. 15 /\ b % 16 \in 0 .. 15 /\ ((b \div 16) * 16 + (b % 16)) % 256 = b
  BY ByteRange
<1>2. hexDecodeChar(Digit(b \div 16)) = b \div 16 /\ hexDecodeChar(Digit(b % 16)) = b % 16
  BY <1>1, DigitBack
<1> QED BY <1>1, <1>2

Hex(x) == [i \in 1 .. 2 * Len(x) |->
             IF i % 2 = 1 THEN Digit(x[(i + 1) \div 2] \div 16) ELSE Digit(x[i \div 2] % 16)]

LEMMA HexBack ==
  ASSUME NEW x \in Seq(Byte), NEW n \in Nat, n > Len(x), NEW m \in Nat, m > 2 * Len(x)
  PROVE  hexEncode(x, m) = << Hex(x) >> /\ Len(Hex(x)) = 2 * Len(x) /\ hexDecode(Hex(x), n) = << x >>
<1> DEFINE h == Hex(x)
<1>1. Len(x) \in Nat /\ \A i \in 1 .. Len(x) : x[i] \in Byte
  OBVIOUS
<1>2. hexEncode(x, m) = << h >>
  <2>1. ~ (2 * Len(x) >= m)
    BY <1>1
  <2> QED BY <2>1, Zenon DEF hexEncode, Hex
<1>3. Len(h) = 2 * Len(x)
  BY <1>1 DEF Hex
<1>4. \A i \in 1 .. Len(x) : h[2 * i - 1] = Digit(x[i] \div 16) /\ h[2 * i] = Digit(x[i] % 16)
  <2> TAKE i \in 1 .. Len(x)
  <2>1. /\ 2 * i - 1 \in 1 .. 2 * Len(x) /\ 2 * i \in 1 .. 2 * Len(x)
        /\ (2 * i - 1) % 2 = 1 /\ ((2 * i - 1) + 1) \div 2 = i
        /\ (2 * i) % 2 # 1 /\ (2 * i) \div 2 = i
    BY <1>1
  <2> QED BY <2>1 DEF Hex
<1> HIDE DEF h
<1>5. \A i \in 1 .. Len(x) :
        (hexDecodeChar(h[2 * i - 1]) * 16 + hexDecodeChar(h[2 * i])) % 256 = x[i]
  BY <1>1, <1>4, DigitsBack
<1>6. Len(h) % 2 = 0 /\ Len(h) \div 2 = Len(x)
  BY <1>1, <1>3
<1>7. hexDecode(h, n) = << [i \in 1 .. Len(x) |->
        (hexDecodeChar(h[2 * i - 1]) * 16 + hexDecodeChar(h[2 * i])) % 256] >>
  <2>1. ~ (Len(x) >= n)
    BY <1>1
  <2> QED BY <1>6, <2>1, Zenon DEF hexDecode
<1>8. x = [i \in 1 .. Len(x) |-> x[i]]
  OBVIOUS
<1> QED BY <1>2, <1>3, <1>5, <1>7, <1>8 DEF h
-----------------------------------------------------------------------------
(* On its way the text is behind its random block, in bytes or in digits.  *)
Sent(iv) == iv \o CBC(plain, iv, key)

WayInv ==
  \/ stage = "encrypt" /\ data = plain
  \/ stage = "loaded" /\ data = plain /\ Printable(plain)
  \/ stage = "failed" /\ ~Printable(plain)
  \/ stage \in {"encode", "decrypt"} /\ \E iv \in Blocks : data = Sent(iv)
  \/ stage = "decode" /\ \E iv \in Blocks : data = Hex(Sent(iv))

CipherInv ==
  /\ plain \in Texts /\ key \in Keys
  /\ written \in Nat /\ size \in Nat /\ FitsBuffers
  /\ WayInv

(* Two texts, one behind the other, are found again.                       *)
LEMMA Halves ==
  ASSUME NEW S, NEW s1 \in Seq(S), NEW s2 \in Seq(S), NEW t, t = s1 \o s2
  PROVE  /\ t \in Seq(S) /\ Len(t) = Len(s1) + Len(s2)
         /\ SubSeq(t, 1, Len(s1)) = s1 /\ SubSeq(t, Len(s1) + 1, Len(t)) = s2
<1> DEFINE n == Len(s1)
           m == Len(s2)
           u == SubSeq(t, 1, n)
           v == SubSeq(t, n + 1, Len(t))
<1>1. n \in Nat /\ m \in Nat
  OBVIOUS
<1>2. t \in Seq(S) /\ Len(t) = n + m
  BY ConcatProperties, Zenon
<1>3. /\ \A i \in 1 .. n : t[i] = s1[i]
      /\ \A i \in 1 .. m : t[n + i] = s2[i]
  OBVIOUS
<1> HIDE DEF n, m
<1>4. u \in Seq(S) /\ Len(u) = n /\ \A i \in 1 .. n : u[i] = t[i]
  BY <1>1, <1>2
<1>5. v \in Seq(S) /\ Len(v) = m /\ \A i \in 1 .. m : v[i] = t[n + i]
  BY <1>1, <1>2
<1> HIDE DEF u, v
<1>6. u = s1
  <2>1. Len(u) = Len(s1) /\ \A i \in 1 .. Len(u) : u[i] = s1[i]
    BY <1>3, <1>4 DEF n
  <2> QED BY <1>4, <2>1, SeqEqual, Zenon
<1>7. v = s2
  <2>1. Len(v) = Len(s2) /\ \A i \in 1 .. Len(v) : v[i] = s2[i]
    BY <1>3, <1>5 DEF m
  <2> QED BY <1>5, <2>1, SeqEqual, Zenon
<1> QED BY <1>2, <1>6, <1>7, Zenon DEF u, v, n, m

(* The parts of what the editor writes into the source.                    *)
LEMMA SentParts ==
  ASSUME plain \in Texts, key \in Keys, NEW iv \in Blocks, NEW s, s = Sent(iv)
  PROVE  /\ plain \in Seq(Byte) /\ key \in Key /\ iv \in ByteBlock
         /\ CBC(plain, iv, key) \in Seq(Byte) /\ s \in Seq(Byte)
         /\ Len(s) = Block + Len(CBC(plain, iv, key))
         /\ Len(CBC(plain, iv, key)) \in 1 .. Len(plain) + Block
         /\ SubSeq(s, 1, Block) = iv
         /\ SubSeq(s, Block + 1, Len(s)) = CBC(plain, iv, key)
<1> DEFINE e == CBC(plain, iv, key)
<1>1. /\ plain \in Seq(Byte) /\ key \in Key /\ iv \in ByteBlock
  <2>1. plain \in Seq(Byte \ {0})
    BY CipherAssumption
  <2>2. plain \in Seq(Byte)
    BY <2>1
  <2> QED BY <2>2, CipherAssumption DEF Key, ByteBlock
<1>2. e \in Seq(Byte) /\ Len(e) \in Nat /\ Len(e) \in Len(plain) + 1 .. Len(plain) + Block
  <2>1. e \in Seq(Byte) /\ Len(e) \in Len(plain) + 1 .. Len(plain) + Block
    BY <1>1, CBCBytes, Zenon
  <2> HIDE DEF e
  <2> QED BY <2>1
<1> HIDE DEF e
<1> DEFINE n == Block
<1>3. /\ n \in Nat /\ iv \in Seq(Byte) /\ Len(iv) = n
  <2>1. n \in Nat /\ iv \in [1 .. n -> Byte]
    BY <1>1 DEF ByteBlock, Block
  <2> HIDE DEF n
  <2> QED BY ONLY <2>1
<1>4. s = iv \o e
  BY DEF Sent, e
<1>5. /\ s \in Seq(Byte) /\ Len(s) = n + Len(e)
      /\ SubSeq(s, 1, n) = iv /\ SubSeq(s, n + 1, Len(s)) = e
  <2>1. /\ s \in Seq(Byte) /\ Len(s) = Len(iv) + Len(e)
        /\ SubSeq(s, 1, Len(iv)) = iv /\ SubSeq(s, Len(iv) + 1, Len(s)) = e
    <3>1. iv \in Seq(Byte) /\ e \in Seq(Byte)
      BY <1>2, <1>3
    <3> QED BY ONLY <1>4, <3>1, Halves
  <2> HIDE DEF n
  <2> QED BY <1>3, <2>1, Zenon
<1>8. Len(e) \in 1 .. Len(plain) + Block
  <2>1. Len(plain) \in Nat
    BY <1>1
  <2> QED BY <1>2, <2>1 DEF Block
<1> QED BY <1>1, <1>2, <1>5, <1>8, Zenon DEF e, n
-----------------------------------------------------------------------------
(* The four steps.                                                         *)
LEMMA Accepted ==
  ASSUME NEW x, NEW w, NEW n, NEW next, Becomes(<< x >>, w, n, next)
  PROVE  size' = n /\ data' = x /\ written' = w /\ stage' = next /\ UNCHANGED <<plain, key>>
<1>1. << x >> # <<>> /\ << x >>[1] = x
  OBVIOUS
<1> QED BY <1>1, Zenon DEF Becomes

LEMMA EncryptStep ==
  ASSUME CipherInv, Encrypt
  PROVE  CipherInv'
<1>1. plain \in Texts /\ key \in Keys /\ stage = "encrypt"
  BY DEF CipherInv, Encrypt
<1>2. PICK iv \in Blocks :
        LET c == XTeaEncryptCBC(plain, cipherSize - Block, iv, key)
        IN  Becomes(IF c = <<>> THEN c ELSE << iv \o c[1] >>, Block + Len(c[1]), cipherSize, "encode")
  BY DEF Encrypt
<1> DEFINE e == CBC(plain, iv, key)
<1>3. /\ plain \in Seq(Byte) /\ key \in Key /\ iv \in ByteBlock
      /\ e \in Seq(Byte) /\ Len(e) \in 1 .. Len(plain) + Block
  BY <1>1, SentParts, Zenon
<1>4. Len(plain) \in Nat /\ Len(e) \in Nat
  BY <1>3
<1>5. cipherSize \in Nat /\ cipherSize - Block = Len(plain) + Block /\ Len(plain) + Block \in Nat
  BY <1>4 DEF cipherSize, Block
<1>6. XTeaEncryptCBC(plain, cipherSize - Block, iv, key) = << e >>
  <2>1. Len(plain) + Block >= Len(plain) + Block
    BY <1>5
  <2>2. XTeaEncryptCBC(plain, Len(plain) + Block, iv, key) = << e >>
    BY <1>3, <1>5, <2>1, EncryptsCBC, Zenon
  <2> QED BY <1>5, <2>2, Zenon
<1> HIDE DEF e
<1>7. Becomes(<< iv \o e >>, Block + Len(e), cipherSize, "encode")
  <2>1. << e >> # <<>> /\ << e >>[1] = e
    OBVIOUS
  <2> QED BY <1>2, <1>6, <2>1, Zenon
<1>8. /\ size' = cipherSize /\ data' = iv \o e /\ written' = Block + Len(e)
      /\ stage' = "encode" /\ UNCHANGED <<plain, key>>
  BY <1>7, Accepted, Zenon
<1>9. written' \in Nat /\ size' \in Nat /\ FitsBuffers'
  <2>1. Block + Len(e) \in Nat /\ Block + Len(e) <= cipherSize
    BY <1>3, <1>4 DEF cipherSize, Block
  <2> QED BY <1>5, <1>8, <2>1, Zenon DEF FitsBuffers
<1>10. WayInv'
  <2>1. data' = Sent(iv)'
    BY <1>8, Zenon DEF Sent, e
  <2> QED BY <1>8, <2>1, Zenon DEF WayInv
<1> QED BY <1>1, <1>8, <1>9, <1>10, Zenon DEF CipherInv

LEMMA EncodeStep ==
  ASSUME CipherInv, Encode
  PROVE  CipherInv'
<1>1. plain \in Texts /\ key \in Keys /\ stage = "encode"
  BY DEF CipherInv, Encode
<1>2. PICK iv \in Blocks : data = Sent(iv)
  BY <1>1 DEF CipherInv, WayInv
<1>3. data \in Seq(Byte)
  BY <1>1, <1>2, SentParts, Zenon
<1> DEFINE n == Len(data) * 2 + 1
<1>4. Len(data) \in Nat /\ n \in Nat /\ n > 2 * Len(data) /\ n > Len(data)
  <2>1. Len(data) \in Nat
    BY <1>3
  <2> QED BY <2>1
<1>5. hexEncode(data, n) = << Hex(data) >> /\ Len(Hex(data)) = 2 * Len(data)
  BY <1>3, <1>4, HexBack, Zenon
<1>6. Becomes(hexEncode(data, n), Len(hexEncode(data, n)[1]) + 1, n, "decode")
  BY Zenon DEF Encode
<1> DEFINE h == Hex(data)
<1> HIDE DEF n, h
<1>7. Becomes(<< h >>, Len(h) + 1, n, "decode")
  <2>1. hexEncode(data, n) = << h >>
    BY <1>5 DEF h
  <2>2. << h >>[1] = h
    OBVIOUS
  <2> QED BY <1>6, <2>1, <2>2, Zenon
<1>8. size' = n /\ data' = h /\ written' = Len(h) + 1 /\ stage' = "decode" /\ UNCHANGED <<plain, key>>
  BY <1>7, Accepted, Zenon
<1>9. written' \in Nat /\ size' \in Nat /\ FitsBuffers'
  <2>1. Len(h) + 1 \in Nat /\ Len(h) + 1 <= n
    BY <1>4, <1>5 DEF h, n
  <2> QED BY <1>4, <1>8, <2>1, Zenon DEF FitsBuffers
<1>10. WayInv'
  <2>1. Sent(iv)' = Sent(iv)
    BY <1>8, Zenon DEF Sent
  <2>2. data' = Hex(Sent(iv)')
    BY <1>2, <1>8, <2>1, Zenon DEF h
  <2> QED BY <1>8, <2>2, Zenon DEF WayInv
<1> QED BY <1>1, <1>8, <1>9, <1>10, Zenon DEF CipherInv

LEMMA DecodeStep ==
  ASSUME CipherInv, Decode
  PROVE  CipherInv'
<1>1. plain \in Texts /\ key \in Keys /\ stage = "decode"
  BY DEF CipherInv, Decode
<1>2. PICK iv \in Blocks : data = Hex(Sent(iv))
  BY <1>1 DEF CipherInv, WayInv
<1> DEFINE s == Sent(iv)
           n == Len(data) \div 2 + 1
           c == hexDecode(data, n)
<1>3. s \in Seq(Byte) /\ Len(s) = Block + Len(CBC(plain, iv, key)) /\ CBC(plain, iv, key) \in Seq(Byte)
  BY <1>1, SentParts, Zenon
<1>4. Len(s) \in Nat /\ ~ (Len(s) < Block)
  <2>1. Len(s) \in Nat /\ Len(CBC(plain, iv, key)) \in Nat
    BY <1>3
  <2> QED BY <1>3, <2>1 DEF Block
<1> HIDE DEF s
<1>5. Len(data) = 2 * Len(s)
  <2>1. 2 * Len(s) + 1 \in Nat /\ 2 * Len(s) + 1 > 2 * Len(s) /\ Len(s) + 1 \in Nat /\ Len(s) + 1 > Len(s)
    BY <1>4
  <2>2. Len(Hex(s)) = 2 * Len(s)
    BY <1>3, <2>1, HexBack, Zenon
  <2> QED BY <1>2, <2>2, Zenon DEF s
<1>6. n = Len(s) + 1
  BY <1>4, <1>5
<1>7. Becomes(IF c # <<>> /\ Len(c[1]) < Block THEN <<>> ELSE c, Len(c[1]) + 1, n, "decrypt")
  BY Zenon DEF Decode
<1> HIDE DEF n
<1>8. c = << s >>
  <2>1. n \in Nat /\ n > Len(s) /\ 2 * Len(s) + 1 \in Nat /\ 2 * Len(s) + 1 > 2 * Len(s)
    BY <1>4, <1>6
  <2>2. hexDecode(Hex(s), n) = << s >>
    BY <1>3, <2>1, HexBack, Zenon
  <2> QED BY <1>2, <2>2, Zenon DEF s
<1> HIDE DEF c
<1>9. Becomes(<< s >>, Len(s) + 1, n, "decrypt")
  <2>1. << s >>[1] = s
    OBVIOUS
  <2> QED BY <1>4, <1>7, <1>8, <2>1, Zenon
<1>10. size' = n /\ data' = s /\ written' = Len(s) + 1 /\ stage' = "decrypt" /\ UNCHANGED <<plain, key>>
  BY <1>9, Accepted, Zenon
<1>11. written' \in Nat /\ size' \in Nat /\ FitsBuffers'
  <2>1. Len(s) + 1 \in Nat /\ Len(s) + 1 <= n /\ n \in Nat
    BY <1>4, <1>6
  <2> QED BY <1>10, <2>1, Zenon DEF FitsBuffers
<1>12. WayInv'
  <2>1. data' = Sent(iv)'
    BY <1>10, Zenon DEF Sent, s
  <2> QED BY <1>10, <2>1, Zenon DEF WayInv
<1> QED BY <1>1, <1>10, <1>11, <1>12, Zenon DEF CipherInv

LEMMA DecryptStep ==
  ASSUME CipherInv, Decrypt
  PROVE  CipherInv'
<1>1. plain \in Texts /\ key \in Keys /\ stage = "decrypt"
  BY DEF CipherInv, Decrypt
<1>2. PICK iv \in Blocks : data = Sent(iv)
  BY <1>1 DEF CipherInv, WayInv
<1> DEFINE n == Len(data)
           e == CBC(plain, iv, key)
           p == XTeaDecryptCBC(SubSeq(data, Block + 1, n), n, SubSeq(data, 1, Block), key)
           end == IF Printable(plain) THEN "loaded" ELSE "failed"
<1>3. /\ plain \in Seq(Byte) /\ key \in Key /\ iv \in ByteBlock
      /\ e \in Seq(Byte) /\ data \in Seq(Byte) /\ n = Block + Len(e)
      /\ SubSeq(data, 1, Block) = iv /\ SubSeq(data, Block + 1, n) = e
  BY <1>1, <1>2, SentParts, Zenon
<1>4. Becomes(p, n - Block, n, IF Printable(p[1]) THEN "loaded" ELSE "failed")
  BY Zenon DEF Decrypt
<1>5. n \in Nat /\ n >= Len(e) /\ n - Block \in Nat /\ n - Block <= n
  <2>1. n \in Nat /\ Len(e) \in Nat
    BY <1>3
  <2> QED BY <1>3, <2>1 DEF Block
<1>6. p = << plain >>
  <2> HIDE DEF n
  <2>1. XTeaDecryptCBC(e, n, iv, key) = << plain >>
    <3>1. e = CBC(plain, iv, key)
      BY DEF e
    <3> HIDE DEF e
    <3>2. plain \in Seq(Byte) /\ iv \in ByteBlock /\ key \in Key /\ n \in Nat /\ n >= Len(e)
      BY <1>3, <1>5, Zenon
    <3> QED BY ONLY <3>1, <3>2, DecryptsCBC
  <2> QED BY <1>3, <2>1, Zenon
<1> HIDE DEF p, n
<1>7. Becomes(<< plain >>, n - Block, n, end)
  <2>1. << plain >>[1] = plain
    OBVIOUS
  <2> QED BY <1>4, <1>6, <2>1, Zenon
<1> HIDE DEF end
<1>8. size' = n /\ data' = plain /\ written' = n - Block /\ stage' = end /\ UNCHANGED <<plain, key>>
  BY <1>7, Accepted, Zenon
<1>9. written' \in Nat /\ size' \in Nat /\ FitsBuffers'
  BY <1>5, <1>8, Zenon DEF FitsBuffers
<1>10. WayInv'
  <2>1. Printable(plain)' = Printable(plain)
    BY <1>8 DEF Printable
  <2>2. CASE Printable(plain)
    BY <1>8, <2>1, <2>2, Zenon DEF WayInv, end
  <2>3. CASE ~Printable(plain)
    BY <1>8, <2>1, <2>3, Zenon DEF WayInv, end
  <2> QED BY <2>2, <2>3
<1> QED BY <1>1, <1>8, <1>9, <1>10, Zenon DEF CipherInv

LEMMA CipherInvariant == Spec => []CipherInv
<1>1. Init => CipherInv
  BY SMT DEF Init, CipherInv, WayInv, FitsBuffers
<1>2. CipherInv /\ [Next]_vars => CipherInv'
  <2> SUFFICES ASSUME CipherInv, [Next]_vars
               PROVE  CipherInv'
    OBVIOUS
  <2>1. CASE Next
    BY <2>1, EncryptStep, EncodeStep, DecodeStep, DecryptStep, Zenon DEF Next
  <2>2. CASE UNCHANGED vars
    <3>1. \A iv : Sent(iv)' = Sent(iv)
      BY <2>2 DEF vars, Sent
    <3>2. Printable(plain)' = Printable(plain)
      BY <2>2 DEF vars, Printable
    <3> QED BY <2>2, <3>1, <3>2 DEF vars, CipherInv, WayInv, FitsBuffers
  <2> QED BY <2>1, <2>2
<1> QED BY <1>1, <1>2, PTL DEF Spec

(* With the same key a text comes back as it was, unless it has a control  *)
(* character, and then it is refused, however long it is, whatever the     *)
(* random block, the key and the number of rounds.                         *)
THEOREM TextsComeBack == Spec => []TextComesBack
<1>1. CipherInv => TextComesBack
  BY DEF CipherInv, WayInv, TextComesBack
<1> QED BY <1>1, CipherInvariant, PTL

(* For every text the three callers' buffers have room for what is written *)
(* to them, the NUL and the random block included.                         *)
THEOREM BuffersFit == Spec => []FitsBuffers
<1>1. CipherInv => FitsBuffers
  BY DEF CipherInv
<1> QED BY <1>1, CipherInvariant, PTL
=============================================================================
