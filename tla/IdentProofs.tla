---------------------------- MODULE IdentProofs ----------------------------
(* Proofs about Ident, for every set of answers, names and ports.          *)
EXTENDS Ident, SequenceTheorems, FiniteSetTheorems, TLAPS

(* What scanf has matched in the k-th place is what it takes there.        *)
FieldsInv ==
  /\ fields \in Seq(Token) /\ Len(fields) <= 4 + MaxName
  /\ \A k \in 1 .. Len(fields) : Takes(k, fields[k])

(* scanf has taken a token for each field and skipped white space only.    *)
TakenInOrder ==
  /\ Len(fields) = NumberOf(read)
  /\ \A k \in 1 .. Len(fields) :
       \E i \in 1 .. read : answer[i] = fields[k] /\ ~Blank(answer[i]) /\ NumberOf(i) = k

(* The letters scanf has taken are next to each other in the answer, from  *)
(* the i-th token on, and white space is behind them or they are the last  *)
(* that was read.                                                          *)
NameFrom(i) ==
  LET e == i + (Len(fields) - 4) IN
  /\ NumberOf(i) = 5 /\ e <= read + 1
  /\ \A n \in 1 .. Len(fields) - 4 : answer[i + n - 1] = fields[4 + n]
  /\ e <= read => Blank(answer[e]) /\ Blank(answer[read])

NameInv == Len(fields) > 4 => \E i \in 1 .. read : NameFrom(i)

IdentInv ==
  /\ TypeOK /\ FieldsInv /\ TakenInOrder /\ NameInv /\ SocketClosed
  /\ pc # "done" => user = Failed

-----------------------------------------------------------------------------
(* The tokens that are taken.                                              *)
LEMMA TakenTokens ==
  ASSUME NEW t \in Token
  PROVE  /\ \A k \in {1, 2} : Takes(k, t) => t = <<"port", t[2]>>
         /\ Takes(3, t) => t = <<"word", "USERID">>
         /\ Takes(4, t) => t = <<"system">>
         /\ \A k \in Nat : k > 4 /\ Takes(k, t) => t = <<"letter", t[2]>> /\ t[2] \in Letters
         /\ \A k \in Nat : Takes(k, t) => k <= 4 + MaxName
         /\ Blank(t) => t[1] = "eol"
<1>0. MaxName \in Nat
  BY IdentAssumption
<1>1. CASE t = <<"system">> \/ t = <<"eol">>
  BY <1>0, <1>1 DEF Takes, Blank
<1>2. CASE t \in {"port"} \X Ports
  BY <1>0, <1>2 DEF Takes, Blank
<1>3. CASE t \in {"word"} \X {"USERID", "ERROR"}
  BY <1>0, <1>3 DEF Takes, Blank
<1>4. CASE t \in {"letter"} \X Letters
  BY <1>0, <1>4 DEF Takes, Blank
<1> QED BY <1>1, <1>2, <1>3, <1>4 DEF Token

LEMMA TokensOfAnswer ==
  ASSUME TypeOK, read < arrived
  PROVE  /\ Next1 \in Token /\ read + 1 \in 0 .. arrived
         /\ arrived \in Nat /\ arrived <= Len(answer)
<1>1. answer \in Seq(Token) /\ Len(answer) \in Nat
  BY IdentAssumption DEF TypeOK
<1>2. read + 1 \in 1 .. Len(answer)
  BY <1>1 DEF TypeOK
<1> QED BY <1>1, <1>2 DEF TypeOK, Next1

(* The fields one by one.                                                  *)
LEMMA FieldTokens ==
  ASSUME FieldsInv
  PROVE  /\ Len(fields) \in Nat /\ MaxName \in Nat /\ MaxName >= 1
         /\ \A k \in 1 .. Len(fields) : fields[k] \in Token
         /\ Len(fields) >= 1 => fields[1] = <<"port", fields[1][2]>>
         /\ Len(fields) >= 2 => fields[2] = <<"port", fields[2][2]>>
         /\ Len(fields) >= 3 => fields[3] = <<"word", "USERID">>
         /\ Len(fields) >= 4 => fields[4] = <<"system">>
         /\ \A n \in 1 .. Len(fields) - 4 :
              fields[4 + n] = <<"letter", fields[4 + n][2]>> /\ fields[4 + n][2] \in Letters
<1>1. Len(fields) \in Nat /\ MaxName \in Nat /\ MaxName >= 1
  BY IdentAssumption DEF FieldsInv
<1>2. \A k \in 1 .. Len(fields) : fields[k] \in Token /\ Takes(k, fields[k])
  <2>1. fields \in Seq(Token)
    BY DEF FieldsInv
  <2>2. \A k \in 1 .. Len(fields) : fields[k] \in Token
    BY <2>1, ElementOfSeq
  <2> QED BY <2>2 DEF FieldsInv
<1> DEFINE l == Len(fields)
<1>3. /\ l >= 1 => fields[1] = <<"port", fields[1][2]>>
      /\ l >= 2 => fields[2] = <<"port", fields[2][2]>>
      /\ l >= 3 => fields[3] = <<"word", "USERID">>
      /\ l >= 4 => fields[4] = <<"system">>
  BY <1>1, <1>2, TakenTokens
<1>4. ASSUME NEW n \in 1 .. l - 4
      PROVE  fields[4 + n] = <<"letter", fields[4 + n][2]>> /\ fields[4 + n][2] \in Letters
  <2>1. 4 + n \in 1 .. l /\ 4 + n \in Nat /\ 4 + n > 4
    BY <1>1
  <2> QED BY <1>2, <2>1, TakenTokens
<1> QED BY <1>1, <1>2, <1>3, <1>4

(* What identLookup makes of the fields.                                   *)
LEMMA VerdictValue ==
  ASSUME FieldsInv
  PROVE  /\ Verdict(fields) \in Names \cup {Failed}
         /\ Verdict(fields) # Failed =>
              /\ Len(fields) > 4
              /\ \A k \in 1 .. 4 : fields[k] = Header[k]
              /\ Verdict(fields) = Spelling(fields)
<1> DEFINE u == Spelling(fields)
<1>1. CASE ~(Len(fields) > 4 /\ fields[2][2] = Local /\ fields[1][2] = Remote)
  BY <1>1 DEF Verdict
<1>2. CASE Len(fields) > 4 /\ fields[2][2] = Local /\ fields[1][2] = Remote
  <2>1. Verdict(fields) = u
    BY <1>2 DEF Verdict
  <2>2. \A k \in 1 .. 4 : fields[k] = Header[k]
    BY <1>2, FieldTokens DEF Header
  <2>3. Len(fields) - 4 \in 1 .. MaxName
    BY <1>2, FieldTokens DEF FieldsInv
  <2>4. u \in [1 .. Len(fields) - 4 -> Letters]
    BY FieldTokens DEF Spelling
  <2>5. u \in Names
    BY <2>3, <2>4 DEF Names
  <2> QED BY <1>2, <2>1, <2>2, <2>5
<1> QED BY <1>1, <1>2

(* A name is not the mark of a failed lookup.                              *)
LEMMA NameIs ==
  ASSUME NEW u \in Names
  PROVE  /\ u # Failed /\ Len(u) \in 1 .. MaxName /\ MaxName \in Nat
         /\ u = [n \in 1 .. Len(u) |-> u[n]] /\ \A n \in 1 .. Len(u) : u[n] \in Letters
<1>1. PICK m \in 1 .. MaxName : u \in [1 .. m -> Letters]
  BY DEF Names
<1>2. MaxName \in Nat /\ m \in Nat /\ m >= 1
  BY <1>1, IdentAssumption
<1>3. Len(u) = m
  BY <1>1, <1>2
<1>4. u[1] \in Letters
  BY <1>1, <1>2
<1> QED BY <1>1, <1>2, <1>3, <1>4, IdentAssumption DEF Failed

-----------------------------------------------------------------------------
(* The tokens of an answer are numbered, white space aside.                *)
LEMMA Numbers ==
  ASSUME NEW i \in Nat
  PROVE  /\ NumberOf(i) \in Nat /\ NumberOf(0) = 0
         /\ Blank(answer[i + 1]) => NumberOf(i + 1) = NumberOf(i)
         /\ ~Blank(answer[i + 1]) => NumberOf(i + 1) = NumberOf(i) + 1
<1> DEFINE s == {j \in 1 .. i : ~Blank(answer[j])}
           t == {j \in 1 .. i + 1 : ~Blank(answer[j])}
<1>1. IsFiniteSet(s) /\ i + 1 \notin s
  <2>1. s \subseteq 1 .. i /\ i + 1 \notin s
    OBVIOUS
  <2>2. IsFiniteSet(1 .. i)
    BY FS_Interval
  <2> HIDE DEF s
  <2> QED BY <2>1, <2>2, FS_Subset
<1>2. /\ Blank(answer[i + 1]) => t = s
      /\ ~Blank(answer[i + 1]) => t = s \cup {i + 1}
  OBVIOUS
<1>3. {j \in 1 .. 0 : ~Blank(answer[j])} = {}
  OBVIOUS
<1>4. NumberOf(i) = Cardinality(s) /\ NumberOf(i + 1) = Cardinality(t) /\ NumberOf(0) = 0
  BY <1>3, FS_EmptySet DEF NumberOf
<1> HIDE DEF s, t
<1>5. NumberOf(i) \in Nat
  BY <1>1, <1>4, FS_CardinalityType, Zenon
<1>6. Cardinality(s \cup {i + 1}) = Cardinality(s) + 1
  <2> DEFINE x == i + 1
  <2>1. x \notin s
    BY <1>1
  <2> HIDE DEF x
  <2>2. Cardinality(s \cup {x}) = Cardinality(s) + 1
    BY <1>1, <2>1, FS_AddElement, Zenon
  <2> QED BY <2>2 DEF x
<1> QED BY <1>2, <1>4, <1>5, <1>6, Zenon

LEMMA NumbersGrow ==
  ASSUME NEW i \in Nat, NEW m \in Nat, i < m, ~Blank(answer[m])
  PROVE  NumberOf(i) < NumberOf(m)
<1> DEFINE s == {j \in 1 .. i : ~Blank(answer[j])}
           t == {j \in 1 .. m : ~Blank(answer[j])}
<1>1. IsFiniteSet(s) /\ IsFiniteSet(t)
  <2>1. s \subseteq 1 .. i /\ t \subseteq 1 .. m
    OBVIOUS
  <2> QED BY <2>1, FS_Interval, FS_Subset
<1>2. s \cup {m} \subseteq t /\ m \notin s
  OBVIOUS
<1>3. NumberOf(i) = Cardinality(s) /\ NumberOf(m) = Cardinality(t)
  BY DEF NumberOf
<1> HIDE DEF s, t
<1>4. Cardinality(s \cup {m}) = Cardinality(s) + 1 /\ Cardinality(s) \in Nat
  BY <1>1, <1>2, FS_AddElement, FS_CardinalityType
<1>5. Cardinality(s \cup {m}) <= Cardinality(t) /\ Cardinality(t) \in Nat
  BY <1>1, <1>2, FS_Subset, FS_CardinalityType
<1> QED BY <1>3, <1>4, <1>5

LEMMA NumbersDoNotShrink ==
  ASSUME NEW i \in Nat, NEW m \in Nat, i <= m
  PROVE  NumberOf(i) <= NumberOf(m)
<1> DEFINE s == {j \in 1 .. i : ~Blank(answer[j])}
           t == {j \in 1 .. m : ~Blank(answer[j])}
<1>1. s \subseteq t /\ IsFiniteSet(t)
  <2>1. s \subseteq t /\ t \subseteq 1 .. m
    OBVIOUS
  <2>2. IsFiniteSet(1 .. m)
    BY FS_Interval
  <2> HIDE DEF s, t
  <2> QED BY <2>1, <2>2, FS_Subset
<1>2. NumberOf(i) = Cardinality(s) /\ NumberOf(m) = Cardinality(t)
  BY DEF NumberOf
<1> HIDE DEF s, t
<1>3. Cardinality(s) <= Cardinality(t)
  BY <1>1, FS_Subset
<1> QED BY <1>2, <1>3

LEMMA SameNumber ==
  ASSUME NEW i \in Nat, NEW m \in Nat, ~Blank(answer[i]), ~Blank(answer[m]),
         NumberOf(i) = NumberOf(m)
  PROVE  i = m
<1>1. NumberOf(i) \in Nat
  BY Numbers
<1>2. ~(i < m) /\ ~(m < i)
  BY <1>1, NumbersGrow
<1> QED BY <1>2

(* Letters and what is in front of the name are no white space.            *)
LEMMA NoBlanks ==
  /\ \A c : ~Blank(<<"letter", c>>) /\ <<"letter", c>>[1] = "letter"
  /\ \A k \in 1 .. 4 : ~Blank(Header[k]) /\ Takes(k, Header[k])
  /\ \A t : Blank(t) => t[1] = "eol"
  /\ \A k, t : k \in 5 .. 4 + MaxName /\ t[1] = "letter" => Takes(k, t)
BY DEF Blank, Header, Takes

LEMMA NumbersHere ==
  ASSUME TypeOK, FieldsInv, TakenInOrder
  PROVE  /\ read \in Nat /\ Len(fields) \in Nat /\ MaxName \in Nat /\ MaxName >= 1
         /\ Len(fields) = NumberOf(read) /\ Len(fields) <= 4 + MaxName
<1>1. Len(answer) \in Nat
  BY IdentAssumption DEF TypeOK
<1> QED BY <1>1, FieldTokens DEF TypeOK, FieldsInv, TakenInOrder

(* When scanf stops at a token it does not want, or at the m-th, the name  *)
(* is the one the first m tokens give.                                     *)
LEMMA VerdictIsNamed ==
  ASSUME TypeOK, FieldsInv, TakenInOrder, NameInv,
         NEW m \in Nat, read <= m, read < m => ~Wanted,
         NEW u \in Names, Verdict(fields) = u
  PROVE  Named(m, u)
<1> DEFINE l == Len(fields) - 4
<1>1. /\ read \in Nat /\ l \in Nat /\ l >= 1 /\ Len(fields) = 4 + l
      /\ MaxName \in Nat /\ Len(fields) <= 4 + MaxName
      /\ u = Spelling(fields) /\ \A k \in 1 .. 4 : fields[k] = Header[k]
  BY NumbersHere, VerdictValue, NameIs
<1>2. ASSUME NEW k \in 1 .. 4 PROVE \E i \in 1 .. m : NumberOf(i) = k /\ answer[i] = Header[k]
  <2>1. PICK i \in 1 .. read : answer[i] = fields[k] /\ NumberOf(i) = k
    <3>1. k \in 1 .. Len(fields)
      BY <1>1
    <3> QED BY <3>1 DEF TakenInOrder
  <2>2. i \in 1 .. m
    BY <1>1
  <2> QED BY <1>1, <2>1, <2>2
<1>3. PICK i \in 1 .. read : NameFrom(i)
  BY <1>1 DEF NameInv
<1>4. /\ NumberOf(i) = 5 /\ i + l <= read + 1
      /\ \A n \in 1 .. l : answer[i + n - 1] = fields[4 + n]
      /\ i + l <= read => Blank(answer[i + l]) /\ Blank(answer[read])
  BY <1>3 DEF NameFrom
<1>5. Len(u) = l /\ \A n \in 1 .. l : u[n] = fields[4 + n][2]
  BY <1>1 DEF Spelling
<1>6. \A n \in 1 .. l : answer[i + n - 1] = <<"letter", u[n]>>
  <2> SUFFICES ASSUME NEW n \in 1 .. l PROVE answer[i + n - 1] = <<"letter", u[n]>>
    OBVIOUS
  <2>1. fields[4 + n] = <<"letter", fields[4 + n][2]>>
    BY FieldTokens
  <2> QED BY <1>4, <1>5, <2>1
<1> HIDE DEF l
<1>7. l = MaxName \/ i + l > m \/ answer[i + l][1] # "letter"
  <2> SUFFICES ASSUME l # MaxName, i + l <= m, answer[i + l][1] = "letter" PROVE FALSE
    BY <1>1, <1>4
  <2>1. ~(i + l <= read)
    BY <1>4, NoBlanks
  <2>2. i + l = read + 1 /\ read < m
    BY <1>1, <1>4, <2>1
  <2>3. Takes(Len(fields) + 1, Next1)
    <3>1. Len(fields) + 1 \in 5 .. 4 + MaxName
      BY <1>1
    <3>2. Next1[1] = "letter"
      BY <2>2 DEF Next1
    <3> QED BY <3>1, <3>2, NoBlanks
  <2>4. answer[read] = <<"letter", u[l]>>
    <3>1. l \in 1 .. l /\ i + l - 1 = read
      BY <1>1, <2>2
    <3> QED BY <1>6, <3>1
  <2> QED BY <2>2, <2>3, <2>4, NoBlanks DEF Wanted
<1>8. NameAt(m, i, u)
  <2>1. i + l - 1 <= m
    BY <1>1, <1>4
  <2> QED BY <1>5, <1>6, <1>7, <2>1 DEF NameAt
<1>9. i \in 1 .. m
  BY <1>1
<1> QED BY <1>2, <1>4, <1>8, <1>9 DEF Named

LEMMA NamedIsVerdict ==
  ASSUME TypeOK, FieldsInv, TakenInOrder, NameInv,
         NEW m \in Nat, read <= m, read < m => ~Wanted,
         NEW u \in Names, Named(m, u)
  PROVE  Verdict(fields) = u
<1> DEFINE l == Len(fields) - 4
           p == Len(u)
<1>1. /\ read \in Nat /\ Len(fields) \in Nat /\ Len(fields) = NumberOf(read)
      /\ MaxName \in Nat /\ Len(fields) <= 4 + MaxName
      /\ p \in Nat /\ p >= 1 /\ p <= MaxName
  BY NumbersHere, NameIs
<1>2. PICK i \in 1 .. m : NumberOf(i) = 5 /\ NameAt(m, i, u)
  BY DEF Named
<1>3. /\ i + p - 1 <= m /\ \A n \in 1 .. p : answer[i + n - 1] = <<"letter", u[n]>>
      /\ p = MaxName \/ i + p > m \/ answer[i + p][1] # "letter"
  BY <1>2 DEF NameAt
<1> HIDE DEF p
<1>4. answer[i] = <<"letter", u[1]>>
  <2>1. 1 \in 1 .. p /\ i + 1 - 1 = i
    BY <1>1
  <2> QED BY <1>3, <2>1
<1>5. ASSUME NEW k \in 1 .. 5
      PROVE  \E j \in 1 .. m : NumberOf(j) = k /\ ~Blank(answer[j]) /\ Takes(k, answer[j])
                              /\ (k # 5 => answer[j] = Header[k])
  <2>1. CASE k = 5
    <3>1. Takes(5, answer[i])
      BY <1>1, <1>4, NoBlanks
    <3> QED BY <1>2, <1>4, <2>1, <3>1, NoBlanks
  <2>2. CASE k # 5
    <3>1. k \in 1 .. 4
      BY <2>2
    <3>2. PICK j \in 1 .. m : NumberOf(j) = k /\ answer[j] = Header[k]
      BY <3>1 DEF Named
    <3> QED BY <2>2, <3>1, <3>2, NoBlanks
  <2> QED BY <2>1, <2>2
<1>6. ~(Len(fields) <= 4)
  <2> SUFFICES ASSUME Len(fields) <= 4 PROVE FALSE
    OBVIOUS
  <2> DEFINE k == Len(fields) + 1
  <2>1. k \in 1 .. 5 /\ k = NumberOf(read) + 1
    BY <1>1
  <2>2. PICK j \in 1 .. m : NumberOf(j) = k /\ ~Blank(answer[j]) /\ Takes(k, answer[j])
    BY <1>5, <2>1
  <2> HIDE DEF k
  <2>3. read < j
    <3>1. CASE j = read
      BY <1>1, <2>1, <2>2, <3>1, Numbers
    <3>2. CASE j < read
      <4>1. NumberOf(read) \in Nat /\ NumberOf(j) \in Nat
        <5>1. read \in Nat /\ j \in Nat
          BY <1>1
        <5> QED BY <5>1, Numbers
      <4>2. NumberOf(j) <= NumberOf(read)
        BY <1>1, <3>2, NumbersDoNotShrink
      <4> QED BY <2>1, <2>2, <4>1, <4>2
    <3> QED BY <1>1, <3>1, <3>2
  <2>4. read < m /\ ~Wanted
    BY <1>1, <2>3
  <2>5. ~Blank(answer[read + 1]) /\ ~Takes(k, answer[read + 1])
    BY <1>1, <2>4 DEF Wanted, Next1, k
  <2>6. NumberOf(read + 1) = k
    BY <1>1, <2>1, <2>5, Numbers
  <2>7. read + 1 = j
    BY <1>1, <2>2, <2>5, <2>6, SameNumber
  <2> QED BY <2>2, <2>5, <2>7
<1>7. ASSUME NEW k \in 1 .. 4 PROVE fields[k] = Header[k]
  <2>1. PICK a \in 1 .. read : answer[a] = fields[k] /\ ~Blank(answer[a]) /\ NumberOf(a) = k
    <3>1. k \in 1 .. Len(fields)
      BY <1>1, <1>6
    <3> QED BY <3>1 DEF TakenInOrder
  <2>2. PICK j \in 1 .. m : NumberOf(j) = k /\ ~Blank(answer[j]) /\ answer[j] = Header[k]
    <3>1. k \in 1 .. 5 /\ k # 5
      OBVIOUS
    <3> QED BY <1>5, <3>1
  <2>3. a = j
    BY <1>1, <2>1, <2>2, SameNumber
  <2> QED BY <2>1, <2>2, <2>3
<1>8. l \in Nat /\ l >= 1 /\ Len(fields) = 4 + l /\ l <= MaxName
  BY <1>1, <1>6
<1>9. PICK b \in 1 .. read : NameFrom(b)
  BY <1>1, <1>6 DEF NameInv
<1>10. /\ NumberOf(b) = 5 /\ b + l <= read + 1
       /\ \A n \in 1 .. l : answer[b + n - 1] = fields[4 + n]
       /\ b + l <= read => Blank(answer[b + l]) /\ Blank(answer[read])
  BY <1>9 DEF NameFrom
<1>11. \A n \in 1 .. l : fields[4 + n] = <<"letter", fields[4 + n][2]>>
  BY FieldTokens
<1> HIDE DEF l
<1>12. b = i
  <2>1. 1 \in 1 .. l /\ b + 1 - 1 = b
    BY <1>1, <1>8
  <2>2. answer[b] = fields[4 + 1] /\ fields[4 + 1] = <<"letter", fields[4 + 1][2]>>
    BY <1>10, <1>11, <2>1
  <2>3. ~Blank(answer[b])
    BY <2>2, NoBlanks
  <2> QED BY <1>1, <1>2, <1>4, <1>10, <2>3, NoBlanks, SameNumber
<1>13. ~(l < p)
  <2> SUFFICES ASSUME l < p PROVE FALSE
    OBVIOUS
  <2>1. answer[i + l] = <<"letter", u[l + 1]>>
    <3>1. l + 1 \in 1 .. p /\ i + (l + 1) - 1 = i + l
      BY <1>1, <1>8
    <3> QED BY <1>3, <3>1
  <2>2. i + l = read + 1 /\ read < m
    <3>1. ~(i + l <= read)
      BY <1>10, <1>12, <2>1, NoBlanks
    <3> QED BY <1>1, <1>3, <1>8, <1>10, <1>12, <3>1
  <2>3. Takes(Len(fields) + 1, Next1)
    <3>1. Len(fields) + 1 \in 5 .. 4 + MaxName
      BY <1>1, <1>8
    <3>2. Next1[1] = "letter"
      BY <2>1, <2>2, NoBlanks DEF Next1
    <3> QED BY <3>1, <3>2, NoBlanks
  <2>4. answer[read] = <<"letter", u[l]>>
    <3>1. l \in 1 .. p /\ i + l - 1 = read
      BY <1>1, <1>8, <2>2
    <3> QED BY <1>3, <3>1
  <2> QED BY <2>2, <2>3, <2>4, NoBlanks DEF Wanted
<1>14. ~(l > p)
  <2> SUFFICES ASSUME l > p PROVE FALSE
    OBVIOUS
  <2>1. p # MaxName /\ ~(i + p > m)
    BY <1>1, <1>8, <1>10, <1>12
  <2>2. answer[i + p] = <<"letter", fields[4 + (p + 1)][2]>>
    <3>1. p + 1 \in 1 .. l /\ i + (p + 1) - 1 = i + p
      BY <1>1, <1>8
    <3> QED BY <1>10, <1>11, <1>12, <3>1
  <2> QED BY <1>3, <2>1, <2>2, NoBlanks
<1>15. l = p
  BY <1>1, <1>8, <1>13, <1>14
<1>16. \A n \in 1 .. p : fields[4 + n][2] = u[n]
  <2> SUFFICES ASSUME NEW n \in 1 .. p PROVE fields[4 + n][2] = u[n]
    OBVIOUS
  <2>1. fields[4 + n] = <<"letter", u[n]>>
    BY <1>3, <1>10, <1>12, <1>15
  <2> QED BY <2>1
<1>17. Spelling(fields) = u
  <2>1. u = [n \in 1 .. p |-> u[n]]
    BY NameIs DEF p
  <2>2. Spelling(fields) = [n \in 1 .. p |-> fields[4 + n][2]]
    BY <1>15 DEF Spelling, l
  <2> QED BY <1>16, <2>1, <2>2
<1>18. fields[1] = <<"port", Remote>> /\ fields[2] = <<"port", Local>> /\ Len(fields) > 4
  BY <1>1, <1>6, <1>7 DEF Header
<1> QED BY <1>17, <1>18 DEF Verdict

-----------------------------------------------------------------------------
LEMMA TakenStays ==
  ASSUME TakenInOrder, UNCHANGED <<answer, read, fields>>
  PROVE  TakenInOrder'
<1>1. \A i : NumberOf(i)' = NumberOf(i)
  BY DEF NumberOf
<1> QED BY <1>1, Zenon DEF TakenInOrder

LEMMA NameStays ==
  ASSUME NameInv, UNCHANGED <<answer, read, fields>>
  PROVE  NameInv'
<1>1. \A i : NumberOf(i)' = NumberOf(i)
  BY DEF NumberOf
<1>2. \A i : NameFrom(i)' = NameFrom(i)
  BY <1>1, Zenon DEF NameFrom, Blank
<1> QED BY <1>2, Zenon DEF NameInv

(* A token more, a letter of the name among them.                          *)
LEMMA NameGrows ==
  ASSUME TypeOK, FieldsInv, TakenInOrder, NameInv, Next1 \in Token, Wanted,
         read' = read + 1, UNCHANGED answer,
         fields' = IF Blank(Next1) THEN fields ELSE Append(fields, Next1)
  PROVE  NameInv'
<1> DEFINE l == Len(fields) - 4
<1>1. /\ read \in Nat /\ Len(fields) \in Nat /\ Len(fields) = NumberOf(read)
      /\ fields \in Seq(Token) /\ Len(fields) = l + 4 /\ l \in Int
  BY NumbersHere DEF FieldsInv
<1>2. \A i : NumberOf(i)' = NumberOf(i)
  BY DEF NumberOf
<1>3. SUFFICES ASSUME Len(fields') > 4
               PROVE  \E i \in 1 .. read + 1 : NameFrom(i)'
  BY DEF NameInv
<1>4. CASE Blank(Next1)
  <2>1. UNCHANGED fields /\ l >= 1
    BY <1>1, <1>3, <1>4
  <2>2. PICK i \in 1 .. read : NameFrom(i)
    BY <1>1, <2>1 DEF NameInv
  <2>3. /\ NumberOf(i) = 5 /\ i + l <= read + 1
        /\ \A n \in 1 .. l : answer[i + n - 1] = fields[4 + n]
        /\ i + l <= read => Blank(answer[i + l])
    BY <2>2 DEF NameFrom
  <2>4. Blank(answer[read + 1])
    BY <1>4 DEF Next1
  <2> HIDE DEF l
  <2>5. i + l <= (read + 1) + 1 /\ i \in 1 .. read + 1
    BY <1>1, <2>3
  <2>6. i + l <= read + 1 => Blank(answer[i + l]) /\ Blank(answer[read + 1])
    <3>1. i + l <= read \/ i + l = read + 1
      BY <1>1, <2>3
    <3> QED BY <2>3, <2>4, <3>1
  <2>7. NameFrom(i)'
    <3>1. Len(fields') - 4 = l
      BY <1>1, <2>1 DEF l
    <3> QED BY <1>2, <2>1, <2>3, <2>5, <2>6, <3>1 DEF NameFrom, Blank
  <2> QED BY <2>5, <2>7
<1>5. CASE ~Blank(Next1)
  <2>1. /\ Len(fields') = l + 5 /\ fields'[l + 5] = Next1
        /\ \A k \in 1 .. l + 4 : fields'[k] = fields[k]
    <3>1. fields' = Append(fields, Next1)
      BY <1>5
    <3> QED BY <1>1, <3>1
  <2>2. answer[read + 1] = Next1 /\ NumberOf(read + 1) = l + 5
    <3>1. answer[read + 1] = Next1
      BY DEF Next1
    <3>2. NumberOf(read + 1) = NumberOf(read) + 1
      BY <1>1, <1>5, <3>1, Numbers
    <3>3. NumberOf(read) = l + 4 /\ l \in Int
      BY <1>1
    <3> HIDE DEF l
    <3>4. NumberOf(read + 1) = l + 5
      BY ONLY <3>2, <3>3
    <3> QED BY <3>1, <3>4
  <2>3. CASE l = 0
    <3> HIDE DEF l
    <3>1. Len(fields') = 5 /\ fields'[5] = Next1 /\ NumberOf(read + 1) = 5
      BY ONLY <2>1, <2>2, <2>3
    <3> PICK e \in Nat : e = read + 1
      BY <1>1
    <3>2. NameFrom(e)'
      <4>1. e \in Nat /\ read' = e
        OBVIOUS
      <4>2. answer'[e] = fields'[5] /\ NumberOf(e)' = 5
        BY <1>2, <2>2, <3>1
      <4>3. ~(e + (5 - 4) <= read') /\ e + (5 - 4) <= read' + 1
        BY ONLY <4>1
      <4>4. \A n \in 1 .. 5 - 4 : answer'[e + n - 1] = fields'[4 + n]
        <5> SUFFICES ASSUME NEW n \in 1 .. 5 - 4 PROVE answer'[e + n - 1] = fields'[4 + n]
          OBVIOUS
        <5>1. n = 1 /\ e + n - 1 = e /\ 4 + n = 5
          BY ONLY <4>1, n \in 1 .. 5 - 4
        <5> QED BY <4>2, <5>1
      <4> QED BY <3>1, <4>2, <4>3, <4>4 DEF NameFrom
    <3>3. read + 1 \in 1 .. read + 1
      BY <1>1
    <3> QED BY <3>2, <3>3
  <2>4. CASE l # 0
    <3>1. l >= 1 /\ l \in Nat
      BY <1>1, <1>3, <2>1, <2>4
    <3>2. ~Blank(answer[read])
      BY <1>1, <1>5, <3>1 DEF Wanted
    <3>3. PICK i \in 1 .. read : NameFrom(i)
      BY <1>1, <3>1 DEF NameInv
    <3>4. /\ NumberOf(i) = 5 /\ i + l <= read + 1
          /\ \A n \in 1 .. l : answer[i + n - 1] = fields[4 + n]
          /\ i + l <= read => Blank(answer[read])
      BY <3>3 DEF NameFrom
    <3> HIDE DEF l
    <3>5. i + l = read + 1
      BY <1>1, <3>1, <3>2, <3>4
    <3>6. ASSUME NEW n \in 1 .. l + 1 PROVE answer[i + n - 1] = fields'[4 + n]
      <4>1. CASE n = l + 1
        <5>1. i + n - 1 = read + 1 /\ 4 + n = l + 5
          BY <1>1, <3>1, <3>5, <4>1
        <5> QED BY <2>1, <2>2, <5>1
      <4>2. CASE n \in 1 .. l
        <5>1. 4 + n \in 1 .. l + 4
          BY <3>1, <4>2
        <5> QED BY <2>1, <3>4, <4>2, <5>1
      <4>3. n = l + 1 \/ n \in 1 .. l
        BY ONLY <3>1, n \in 1 .. l + 1
      <4> QED BY <4>1, <4>2, <4>3
    <3>7. NameFrom(i)'
      <4>1. Len(fields') - 4 = l + 1
        BY <2>1, <3>1
      <4>2. i + (l + 1) <= read' + 1 /\ ~(i + (l + 1) <= read')
        BY <1>1, <3>1, <3>5
      <4> QED BY <1>2, <3>4, <3>6, <4>1, <4>2 DEF NameFrom
    <3>8. i \in 1 .. read + 1
      BY <1>1
    <3> QED BY <3>7, <3>8
  <2> QED BY <2>3, <2>4
<1> QED BY <1>4, <1>5

LEMMA TakesInOrder ==
  ASSUME TypeOK, FieldsInv, TakenInOrder, Next1 \in Token,
         read' = read + 1, UNCHANGED answer,
         fields' = IF Blank(Next1) THEN fields ELSE Append(fields, Next1)
  PROVE  TakenInOrder'
<1> DEFINE n == Len(fields)
<1>1. read \in Nat /\ n \in Nat /\ n = NumberOf(read) /\ fields \in Seq(Token)
  <2>1. Len(answer) \in Nat
    BY IdentAssumption DEF TypeOK
  <2> QED BY <2>1 DEF TypeOK, FieldsInv, TakenInOrder
<1>2. \A i : NumberOf(i)' = NumberOf(i)
  BY DEF NumberOf
<1>3. \A k \in 1 .. n :
        \E i \in 1 .. read + 1 : answer[i] = fields[k] /\ ~Blank(answer[i]) /\ NumberOf(i) = k
  <2>1. \A i \in 1 .. read : i \in 1 .. read + 1
    BY <1>1
  <2> QED BY <2>1 DEF TakenInOrder
<1>4. CASE Blank(Next1)
  <2>1. NumberOf(read + 1) = n /\ UNCHANGED fields
    BY <1>1, <1>4, Numbers DEF Next1
  <2>2. NumberOf(read)' = NumberOf(read + 1)
    BY DEF NumberOf
  <2>3. \A k \in 1 .. Len(fields') :
          \E i \in 1 .. read' : answer'[i] = fields'[k] /\ ~Blank(answer'[i]) /\ NumberOf(i)' = k
    BY <1>2, <1>3, <2>1, Zenon
  <2>4. Len(fields') = NumberOf(read)'
    BY <2>1, <2>2, Zenon
  <2> QED BY <2>3, <2>4, Zenon DEF TakenInOrder
<1>5. CASE ~Blank(Next1)
  <2>1. NumberOf(read + 1) = n + 1 /\ answer[read + 1] = Next1
    BY <1>1, <1>5, Numbers DEF Next1
  <2>2. /\ Len(fields') = n + 1 /\ fields'[n + 1] = Next1
        /\ \A k \in 1 .. n : fields'[k] = fields[k]
    <3>1. fields' = Append(fields, Next1)
      BY <1>5
    <3> QED BY <1>1, <3>1
  <2>3. ASSUME NEW k \in 1 .. n + 1
        PROVE  \E i \in 1 .. read + 1 :
                 answer[i] = fields'[k] /\ ~Blank(answer[i]) /\ NumberOf(i) = k
    <3>1. CASE k = n + 1
      <4>1. read + 1 \in 1 .. read + 1
        BY <1>1
      <4> QED BY <1>5, <2>1, <2>2, <3>1, <4>1
    <3>2. CASE k \in 1 .. n
      <4>1. PICK i \in 1 .. read + 1 :
              answer[i] = fields[k] /\ ~Blank(answer[i]) /\ NumberOf(i) = k
        BY <1>3, <3>2
      <4>2. fields'[k] = fields[k]
        BY <2>2, <3>2
      <4> QED BY <4>1, <4>2
    <3>3. k = n + 1 \/ k \in 1 .. n
      <4> HIDE DEF n
      <4>1. n \in Nat /\ k \in 1 .. n + 1
        BY <1>1
      <4> QED BY ONLY <4>1
    <3> QED BY <3>1, <3>2, <3>3, Zenon
  <2>4. NumberOf(read)' = NumberOf(read + 1)
    BY DEF NumberOf
  <2>5. \A k \in 1 .. Len(fields') :
          \E i \in 1 .. read' : answer'[i] = fields'[k] /\ ~Blank(answer'[i]) /\ NumberOf(i)' = k
    BY <1>2, <2>2, <2>3, Zenon
  <2>6. Len(fields') = NumberOf(read)'
    BY <2>1, <2>2, <2>4, Zenon
  <2> QED BY <2>5, <2>6, Zenon DEF TakenInOrder
<1> QED BY <1>4, <1>5

LEMMA IdentStep ==
  ASSUME IdentInv, [Next]_vars PROVE IdentInv'
<1> USE DEF IdentInv
<1>1. ASSUME Socket \/ Connect \/ Ask \/ Send PROVE IdentInv'
  <2>1. UNCHANGED <<timeout, answer, arrived, read, fields, user>>
    BY <1>1 DEF Socket, Connect, Ask, Send
  <2>2. pc # "done"
    BY <1>1 DEF Socket, Connect, Ask, Send
  <2>3. /\ pc' \in {"connect", "ask", "send", "read", "done"}
        /\ sock' \in {"none", "open", "closed"} /\ server' \in {"none", "open", "ended"}
        /\ pc' = "done" => sock' # "open"
    BY <1>1 DEF Socket, Connect, Ask, Send, Close, TypeOK
  <2>4. TypeOK'
    BY <2>1, <2>3 DEF TypeOK
  <2>5. TakenInOrder' /\ NameInv'
    BY <2>1, TakenStays, NameStays
  <2> QED BY <2>1, <2>2, <2>3, <2>4, <2>5 DEF FieldsInv, SocketClosed
<1>2. ASSUME ReadToken PROVE IdentInv'
  <2>1. /\ pc = "read" /\ read < arrived /\ Wanted /\ read' = read + 1
        /\ fields' = IF Blank(Next1) THEN fields ELSE Append(fields, Next1)
        /\ UNCHANGED <<timeout, pc, sock, server, answer, arrived, user>>
    BY <1>2 DEF ReadToken
  <2>2. Next1 \in Token /\ read + 1 \in 0 .. arrived
    BY <2>1, TokensOfAnswer
  <2>3. FieldsInv'
    <3>1. CASE Blank(Next1)
      BY <2>1, <3>1 DEF FieldsInv
    <3>2. CASE ~Blank(Next1)
      <4> DEFINE t == Next1
                 n == Len(fields)
      <4>1. fields \in Seq(Token) /\ n \in Nat /\ Takes(n + 1, t)
        BY <2>1, <3>2 DEF FieldsInv, Wanted
      <4>2. n + 1 <= 4 + MaxName
        BY <2>2, <4>1, TakenTokens
      <4>3. fields' = Append(fields, t)
        BY <2>1, <3>2
      <4>4. fields' \in Seq(Token) /\ Len(fields') = n + 1 /\ fields'[n + 1] = t
            /\ \A k \in 1 .. n : fields'[k] = fields[k]
        BY <2>2, <4>1, <4>3
      <4> HIDE DEF t
      <4> QED BY <4>1, <4>2, <4>4 DEF FieldsInv
    <3> QED BY <3>1, <3>2
  <2>4. TypeOK'
    BY <2>1, <2>2, <2>3 DEF TypeOK, FieldsInv
  <2>5. TakenInOrder' /\ NameInv'
    BY <2>1, <2>2, TakesInOrder, NameGrows
  <2> QED BY <2>1, <2>3, <2>4, <2>5 DEF SocketClosed
<1>3. ASSUME ReadEnds PROVE IdentInv'
  <2>1. /\ pc' = "done" /\ sock' = "closed" /\ user' = Verdict(fields)
        /\ UNCHANGED <<timeout, server, answer, arrived, read, fields>>
    BY <1>3 DEF ReadEnds, Close
  <2>2. user' \in Names \cup {Failed}
    BY <2>1, VerdictValue
  <2>3. TypeOK'
    BY <2>1, <2>2 DEF TypeOK
  <2>4. TakenInOrder' /\ NameInv'
    BY <2>1, TakenStays, NameStays
  <2> QED BY <2>1, <2>2, <2>3, <2>4 DEF FieldsInv, SocketClosed
<1>4. ASSUME ServerSends PROVE IdentInv'
  <2>1. /\ arrived < Len(answer) /\ arrived' = arrived + 1
        /\ UNCHANGED <<timeout, pc, sock, server, answer, read, fields, user>>
    BY <1>4 DEF ServerSends
  <2>2. Len(answer) \in Nat
    BY IdentAssumption DEF TypeOK
  <2>3. arrived' \in 0 .. Len(answer) /\ read \in 0 .. arrived'
    BY <2>1, <2>2 DEF TypeOK
  <2>4. TakenInOrder' /\ NameInv'
    BY <2>1, TakenStays, NameStays
  <2> QED BY <2>1, <2>3, <2>4 DEF TypeOK, FieldsInv, SocketClosed
<1>5. ASSUME ServerEnds PROVE IdentInv'
  <2>1. TakenInOrder' /\ NameInv'
    BY <1>5, TakenStays, NameStays DEF ServerEnds
  <2> QED BY <1>5, <2>1 DEF ServerEnds, TypeOK, FieldsInv, SocketClosed
<1>6. ASSUME UNCHANGED vars PROVE IdentInv'
  <2>1. TakenInOrder' /\ NameInv'
    BY <1>6, TakenStays, NameStays DEF vars
  <2> QED BY <1>6, <2>1 DEF vars, TypeOK, FieldsInv, SocketClosed
<1> QED BY <1>1, <1>2, <1>3, <1>4, <1>5, <1>6 DEF Next, Lookup

LEMMA IdentInvariant == Spec => []IdentInv
<1>1. Init => IdentInv
  <2> SUFFICES ASSUME Init PROVE IdentInv
    OBVIOUS
  <2>1. answer \in Seq(Token) /\ Len(answer) \in Nat
    BY IdentAssumption DEF Init
  <2>2. fields \in Seq(Token) /\ Len(fields) = 0
    BY DEF Init
  <2>3. TakenInOrder /\ NameInv
    BY <2>2, Numbers DEF Init, TakenInOrder, NameInv
  <2>4. TypeOK
    BY <2>1, <2>2, IdentAssumption DEF Init, TypeOK
  <2>5. FieldsInv
    BY <2>2, IdentAssumption DEF FieldsInv
  <2>6. SocketClosed /\ user = Failed
    BY DEF Init, SocketClosed
  <2> QED BY <2>3, <2>4, <2>5, <2>6 DEF IdentInv
<1> QED BY <1>1, IdentStep, PTL DEF Spec

(* The types of the variables of a lookup, whatever the server says.       *)
THEOREM IdentTypeCorrect == Spec => []TypeOK
<1>1. IdentInv => TypeOK
  BY DEF IdentInv
<1> QED BY <1>1, IdentInvariant, PTL

(* identLookup closes the socket it has opened, on every way out.          *)
THEOREM SocketIsClosed == Spec => []SocketClosed
<1>1. IdentInv => SocketClosed
  BY DEF IdentInv
<1> QED BY <1>1, IdentInvariant, PTL

(* Whatever made scanf stop, it has not passed by what it wants.           *)
LEMMA StopsAt ==
  ASSUME IdentInv, [Next]_vars, pc = "read", pc' = "done"
  PROVE  /\ user' = Verdict(fields) /\ (read < arrived => ~Wanted)
         /\ server = "open" /\ ~timeout => read < arrived
         /\ read \in Nat /\ arrived \in Nat /\ read <= arrived
         /\ Len(answer) \in Nat /\ arrived <= Len(answer)
<1>1. ReadEnds
  BY DEF Next, Lookup, vars, Socket, Connect, Ask, Send, ReadToken, ServerSends, ServerEnds
<1>2. Len(answer) \in Nat
  BY IdentAssumption DEF IdentInv, TypeOK
<1>3. read \in Nat /\ arrived \in Nat /\ read <= arrived /\ arrived <= Len(answer)
  BY <1>2 DEF IdentInv, TypeOK
<1> QED BY <1>1, <1>2, <1>3 DEF ReadEnds

(* identLookup and Client_sendIdnt name a user if and only if what had     *)
(* arrived when scanf came to its end, whatever made it stop, is an answer *)
(* for this connection as far as a name, and that name, white space aside. *)
THEOREM NamesWhoWasHeard == Spec => HeardOut
<1>1. ASSUME IdentInv, [Next]_vars, pc = "read", pc' = "done", NEW u \in Names
      PROVE  user' = u <=> Named(arrived, u)
  BY <1>1, StopsAt, VerdictIsNamed, NamedIsVerdict DEF IdentInv
<1>2. IdentInv /\ [Next]_vars =>
        [pc = "read" /\ pc' = "done" =>
           \A u \in Names : user' = u <=> Named(arrived, u)]_vars
  BY <1>1
<1> QED BY <1>2, IdentInvariant, PTL DEF Spec, HeardOut

(* As long as the server keeps the connection open and no read times out,  *)
(* the name is the one in the whole answer, however it comes in pieces.    *)
THEOREM WaitsForTheRest == Spec => WaitedOut
<1>1. ASSUME IdentInv, [Next]_vars, pc = "read", pc' = "done", server = "open", ~timeout,
             NEW u \in Names
      PROVE  user' = u <=> Named(Len(answer), u)
  BY <1>1, StopsAt, VerdictIsNamed, NamedIsVerdict DEF IdentInv
<1>2. IdentInv /\ [Next]_vars =>
        [pc = "read" /\ pc' = "done" /\ server = "open" /\ ~timeout =>
           \A u \in Names : user' = u <=> Named(Len(answer), u)]_vars
  BY <1>1
<1> QED BY <1>2, IdentInvariant, PTL DEF Spec, WaitedOut

=============================================================================
