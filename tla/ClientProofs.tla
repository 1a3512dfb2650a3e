---------------------------- MODULE ClientProofs ----------------------------
(* Proofs about Client, for every set of configurations and users and      *)
(* every buffer size.                                                      *)
EXTENDS Client, SequenceTheorems, TLAPS

-----------------------------------------------------------------------------
(* Lemmas about the data.                                                  *)

(* The lines of the bouncer are sequences of tokens.                       *)
LEMMA LinesAreTokens ==
  /\ \A u \in Lookups : IdntLine(u) \in Seq(Token) /\ Len(IdntLine(u)) = 2
  /\ << Welcome >> \in Seq(Token)
  /\ \A c \in Causes : << Reply(c) >> \in Seq(Token)
<1>1. ASSUME NEW u \in Lookups
      PROVE  IdntLine(u) \in Seq(Token) /\ Len(IdntLine(u)) = 2
  <2> DEFINE a == IdntLine(u)[1]
             b == IdntLine(u)[2]
  <2>1. a \in Token /\ b \in Token
    BY DEF Token
  <2>2. IdntLine(u) = << a, b >>
    BY DEF IdntLine
  <2> HIDE DEF a, b
  <2> QED BY <2>1, <2>2
<1>2. Welcome \in Token
  BY DEF Token
<1>3. \A c \in Causes : Reply(c) \in Token
  BY DEF Token
<1> QED BY <1>1, <1>2, <1>3

(* What one read returns is the next bytes of the peer, at least one, at   *)
(* most all that have arrived.                                             *)
LEMMA ChunkProperties ==
  ASSUME TypeOK, NEW s \in Sides, Unread(s)
  PROVE  /\ Chunk(s) \in Seq(Token)
         /\ Len(Chunk(s)) \in 1 .. (sent[s] - taken[s])
         /\ \A i \in 1 .. Len(Chunk(s)) : Chunk(s)[i] = Data(taken[s] + i)
<1> DEFINE avail == sent[s] - taken[s]
           n == IF avail < BufSiz THEN avail ELSE BufSiz
<1>1. /\ sent[s] \in 0 .. MaxBytes /\ taken[s] \in 0 .. MaxBytes
      /\ taken[s] < sent[s] /\ MaxBytes \in Nat /\ BufSiz \in Nat \ {0}
  BY ClientAssumption DEF TypeOK, Unread
<1>2. n \in 1 .. avail /\ n \in Nat
  BY <1>1
<1>3. Chunk(s) = [i \in 1 .. n |-> Data(taken[s] + i)]
  BY DEF Chunk
<1>4. \A i \in 1 .. n : Data(taken[s] + i) \in Token
  <2>1. \A i \in 1 .. n : taken[s] + i \in 1 .. MaxBytes
    BY <1>1, <1>2
  <2>2. \A j \in 1 .. MaxBytes : Data(j) \in Token
    BY DEF Token
  <2> QED BY <2>1, <2>2
<1> HIDE DEF n
<1>5. Chunk(s) \in [1 .. n -> Token]
  BY <1>3, <1>4
<1>6. Chunk(s) \in Seq(Token)
  BY <1>2, <1>5, SeqDef
<1>7. Len(Chunk(s)) = n
  BY <1>2, <1>5, <1>6, LenProperties
<1> QED BY <1>2, <1>3, <1>6, <1>7

-----------------------------------------------------------------------------
(* Type correctness.                                                       *)

(* The part of TypeOK that the control operators establish.                *)
ControlType ==
  /\ pc \in PcLabels
  /\ buf \in Seq(Token) /\ put \in 0 .. Len(buf)
  /\ after \in {"free", "poll"}

(* And the rest of it, which most steps of the thread leave alone.         *)
NetType ==
  /\ sock \in [Sides -> {"none", "open", "closed", "aborted"}]
  /\ peer \in [Sides -> {"none", "open", "fin", "rst"}]
  /\ sent \in [Sides -> 0 .. MaxBytes]
  /\ taken \in [Sides -> 0 .. MaxBytes]
  /\ to \in [Sides -> Seq(Token)]
  /\ got \in [Sides -> Nat]
  /\ \A s \in Sides : taken[s] <= sent[s] /\ got[s] <= Len(to[s])

LEMMA TypeParts ==
  TypeOK <=> /\ ControlType /\ NetType
             /\ config \in Configs /\ ready \in BOOLEAN /\ user \in Lookups
BY DEF TypeOK, ControlType, NetType

LEMMA GotoType ==
  ASSUME NEW label \in PcLabels, Goto(label), ControlType PROVE ControlType'
<1>1. <<>> \in Seq(Token) /\ Len(<<>>) = 0
  OBVIOUS
<1> QED BY <1>1 DEF Goto, ControlType

LEMMA StartWriteType ==
  ASSUME NEW label \in PcLabels, NEW tokens \in Seq(Token),
         StartWrite(label, tokens), ControlType
  PROVE  ControlType'
<1>1. Len(tokens) \in Nat
  OBVIOUS
<1> QED BY <1>1 DEF StartWrite, ControlType

LEMMA ErrorReplyType ==
  ASSUME NEW c \in Causes, NEW next \in {"free", "poll"},
         ErrorReply(c, next), ControlType
  PROVE  ControlType'
<1>1. CASE Goto(next)
  BY <1>1, GotoType DEF PcLabels
<1>2. CASE /\ pc' = "reply"
           /\ buf' = << Reply(c) >> /\ put' = 0
           /\ after' = next
  <2>1. << Reply(c) >> \in Seq(Token) /\ Len(<< Reply(c) >>) = 1
    BY LinesAreTokens
  <2> QED BY <1>2, <2>1 DEF ControlType, PcLabels
<1> QED BY <1>1, <1>2 DEF ErrorReply

(* A step that leaves the network alone keeps its types.                   *)
LEMMA NetTypeUnchanged ==
  ASSUME NetType, UNCHANGED net PROVE NetType'
BY DEF NetType, net

(* A read moves the position forward, not past what has arrived.           *)
LEMMA ReadChunkType ==
  ASSUME TypeOK, NEW s \in Sides, NEW label \in PcLabels, ReadChunk(s, label),
         UNCHANGED <<sock, peer, sent, to, got>>
  PROVE  ControlType' /\ NetType'
<1>0. ControlType /\ NetType
  BY TypeParts
<1>1. PICK n \in 1 .. (sent[s] - taken[s]) : n = Len(Chunk(s))
  BY ChunkProperties DEF ReadChunk
<1>2. taken' = [taken EXCEPT ![s] = taken[s] + n]
  BY <1>1 DEF ReadChunk
<1>3. taken' \in [Sides -> 0 .. MaxBytes] /\ \A r \in Sides : taken'[r] <= sent[r]
  BY <1>0, <1>1, <1>2, ClientAssumption DEF NetType
<1>4. NetType'
  BY <1>0, <1>3 DEF NetType
<1>5. ControlType'
  BY <1>0, ChunkProperties, StartWriteType DEF ReadChunk
<1> QED BY <1>4, <1>5

(* write(2) has four outcomes.                                             *)
LEMMA OutcomeValues ==
  /\ Outcome \in {"full", "short", "again", "error"}
  /\ Outcome = "full" <=> put = Len(buf)
BY DEF Outcome

(* The variables of a session keep their types, whatever the thread, the   *)
(* kernel and the peers do (the Client structure and the locals of         *)
(* Client_relay).                                                          *)
THEOREM TypeCorrect == Spec => []TypeOK
<1>1. Init => TypeOK
  <2> SUFFICES ASSUME Init PROVE TypeOK
    OBVIOUS
  <2>1. <<>> \in Seq(Token) /\ Len(<<>>) = 0
    OBVIOUS
  <2>2. ControlType
    BY <2>1 DEF Init, ControlType, PcLabels
  <2>3. NetType
    BY <2>1, ClientAssumption DEF Init, NetType, Sides
  <2> QED BY <2>2, <2>3, TypeParts DEF Init, Lookups
<1>2. TypeOK /\ [Next]_vars => TypeOK'
  <2> SUFFICES ASSUME TypeOK, [Next]_vars
               PROVE  /\ ControlType' /\ NetType'
                      /\ config' \in Configs /\ ready' \in BOOLEAN /\ user' \in Lookups
    BY TypeParts DEF ControlType, NetType, TypeOK
  <2>0. ControlType /\ NetType /\ config \in Configs /\ ready \in BOOLEAN /\ user \in Lookups
    BY TypeParts
  <2> USE NetTypeUnchanged, GotoType, ErrorReplyType, <2>0
  <2>1. CASE Resolve
    BY <2>1 DEF Resolve, PcLabels, Causes
  <2>2. CASE OpenSocket
    <3>1. ControlType'
      BY <2>2 DEF OpenSocket, PcLabels, Causes
    <3>2. NetType'
      BY <2>2 DEF OpenSocket, NetType, Sides
    <3> QED BY <2>2, <3>1, <3>2 DEF OpenSocket
  <2>3. CASE Connect
    <3>1. ControlType'
      BY <2>3 DEF Connect, PcLabels, Causes
    <3>2. NetType'
      BY <2>3 DEF Connect, NetType, Sides
    <3> QED BY <2>3, <3>1, <3>2 DEF Connect
  <2>4. CASE SendIdnt
    BY <2>4 DEF SendIdnt, PcLabels
  <2>4a. CASE IdentLookup
    BY <2>4a, LinesAreTokens, StartWriteType DEF IdentLookup, PcLabels
  <2>5. CASE IdntWritten
    BY <2>5 DEF IdntWritten, PcLabels
  <2>6. CASE SendWelcome
    BY <2>6, LinesAreTokens, StartWriteType DEF SendWelcome, PcLabels
  <2>7. CASE WelcomeWritten
    BY <2>7 DEF WelcomeWritten, PcLabels
  <2>8. CASE PollReady
    BY <2>8 DEF PollReady, PcLabels, Readable, Unread
  <2>9. CASE PollTimeout
    BY <2>9 DEF PollTimeout, Causes
  <2>10. CASE PollFails
    BY <2>10 DEF PollFails, Causes
  <2>11. CASE ReadClient
    <3>1. CASE ReadChunk("client", "write_remote")
      BY <2>11, <3>1, ReadChunkType DEF ReadClient, PcLabels, Sides
    <3>2. CASE Goto("free") /\ UNCHANGED taken
      BY <2>11, <3>2 DEF ReadClient, PcLabels, net
    <3> QED BY <2>11, <3>1, <3>2 DEF ReadClient
  <2>12. CASE RemoteWritten
    BY <2>12, OutcomeValues DEF RemoteWritten, PcLabels, Causes
  <2>13. CASE ReadRemote
    <3>1. CASE ReadChunk("remote", "write_client")
      BY <2>13, <3>1, ReadChunkType DEF ReadRemote, PcLabels, Sides
    <3>2. CASE /\ \/ ErrorReply("Connection closed", "free")
                  \/ ErrorReply("read", "free")
               /\ UNCHANGED taken
      BY <2>13, <3>2 DEF ReadRemote, Causes, net
    <3> QED BY <2>13, <3>1, <3>2 DEF ReadRemote
  <2>14. CASE ClientWritten
    BY <2>14, OutcomeValues DEF ClientWritten, PcLabels, Causes
  <2>15. CASE ReplyWritten
    BY <2>15 DEF ReplyWritten, ControlType, PcLabels
  <2>16. CASE KernelTakes
    <3> DEFINE s == WriteTo(pc)
    <3>1. s \in Sides /\ put \in 0 .. Len(buf) /\ put < Len(buf) /\ buf \in Seq(Token)
      BY <2>16 DEF KernelTakes, WriteTo, Sides, ControlType
    <3>2. buf[put + 1] \in Token /\ to[s] \in Seq(Token)
      BY <3>1 DEF NetType
    <3>3. /\ Append(to[s], buf[put + 1]) \in Seq(Token)
          /\ Len(Append(to[s], buf[put + 1])) = Len(to[s]) + 1
      BY <3>2
    <3>4. to' = [to EXCEPT ![s] = Append(to[s], buf[put + 1])] /\ put' = put + 1
      BY <2>16 DEF KernelTakes
    <3>5. ControlType'
      BY <2>16, <3>1, <3>4 DEF KernelTakes, ControlType
    <3> HIDE DEF s
    <3>6. /\ to' \in [Sides -> Seq(Token)]
          /\ Len(to'[s]) = Len(to[s]) + 1
          /\ \A r \in Sides : r # s => to'[r] = to[r]
      BY <3>1, <3>3, <3>4 DEF NetType
    <3>7. \A r \in Sides : got[r] <= Len(to'[r])
      <4> TAKE r \in Sides
      <4>1. Len(to[r]) \in Nat /\ got[r] \in Nat /\ got[r] <= Len(to[r])
        BY DEF NetType
      <4> QED BY <3>6, <4>1
    <3>8. NetType'
      BY <2>16, <3>6, <3>7 DEF KernelTakes, NetType
    <3> QED BY <2>16, <3>5, <3>8 DEF KernelTakes
  <2>17. CASE Free
    <3>1. NetType'
      BY <2>17 DEF Free, NetType
    <3> QED BY <2>17, <3>1 DEF Free, PcLabels
  <2>18. CASE \E s \in Sides : PeerSends(s)
    BY <2>18, ClientAssumption DEF PeerSends, thread, ControlType, NetType
  <2>19. CASE \E s \in Sides : PeerReceives(s)
    BY <2>19 DEF PeerReceives, thread, ControlType, NetType
  <2>20. CASE \E s \in Sides : PeerFinishes(s) \/ PeerResets(s)
    BY <2>20 DEF PeerFinishes, PeerResets, thread, ControlType, NetType
  <2>21. CASE UNCHANGED vars
    BY <2>21 DEF vars, net, ControlType
  <2> QED BY <2>1, <2>2, <2>3, <2>4, <2>4a, <2>5, <2>6, <2>7, <2>8, <2>9, <2>10, <2>11,
             <2>12, <2>13, <2>14, <2>15, <2>16, <2>17, <2>18, <2>19, <2>20, <2>21
          DEF Next, Thread, Setup, Relay, Peers
<1> QED BY <1>1, <1>2, PTL DEF Spec

-----------------------------------------------------------------------------
(* The stream towards the remote host.  That it is exact is not inductive: *)
(* the invariant ties its length to what the thread has read from the      *)
(* client and to the progress of the write under way.                      *)

HeadLen == Len(Preamble("remote"))
Written == Len(to["remote"])

(* While a chunk is being written, buf holds the last bytes taken from the *)
(* client and put says how many of them have gone.                         *)
ChunkUnderWay ==
  /\ Len(buf) <= taken["client"]
  /\ Written = HeadLen + (taken["client"] - Len(buf)) + put
  /\ \A i \in 1 .. Len(buf) : buf[i] = Data((taken["client"] - Len(buf)) + i)

StreamInv ==
  /\ pc \in {"resolve", "socket", "connect", "ident", "lookup"} => Written = 0 /\ taken["client"] = 0
  /\ pc = "lookup" => config.idnt
  /\ pc = "write_idnt" => /\ config.idnt /\ buf = IdntLine(user)
                          /\ Written = put /\ taken["client"] = 0
  /\ pc \in {"welcome", "write_welcome"} => Written = HeadLen /\ taken["client"] = 0
  /\ NothingHeldBack
  /\ pc = "write_remote" => ChunkUnderWay
  /\ RemoteStreamExact

LEMMA HeadProperties ==
  ASSUME TypeOK
  PROVE  /\ Preamble("remote") = IF config.idnt THEN IdntLine(user) ELSE <<>>
         /\ HeadLen = IF config.idnt THEN 2 ELSE 0
         /\ HeadLen \in Nat /\ Written \in Nat
<1>1. Preamble("remote") = IF config.idnt THEN IdntLine(user) ELSE <<>>
  BY DEF Preamble
<1>2. Len(IdntLine(user)) = 2 /\ Len(<<>>) = 0
  BY LinesAreTokens DEF TypeOK
<1>3. Written \in Nat
  BY DEF Written, TypeOK, Sides
<1> QED BY <1>1, <1>2, <1>3 DEF HeadLen

(* The token that a write to the remote host passes on is the next one of  *)
(* the IDNT line or of what the client has sent.                           *)
LEMMA NextItem ==
  ASSUME TypeOK, StreamInv, KernelTakes, pc \in {"write_idnt", "write_remote"}
  PROVE  /\ to' = [to EXCEPT !["remote"] = Append(@, buf[put + 1])]
         /\ Written < HeadLen + sent["client"]
         /\ buf[put + 1] = IF Written < HeadLen THEN Preamble("remote")[Written + 1]
                           ELSE Data((Written - HeadLen) + 1)
<1>1. /\ to' = [to EXCEPT !["remote"] = Append(@, buf[put + 1])]
      /\ put < Len(buf)
  BY DEF KernelTakes, WriteTo
<1>2. /\ put \in Nat /\ Len(buf) \in Nat /\ HeadLen \in Nat /\ Written \in Nat
      /\ taken["client"] \in Nat /\ sent["client"] \in Nat /\ taken["client"] <= sent["client"]
  BY HeadProperties, ClientAssumption DEF TypeOK, Sides
<1>3. CASE pc = "write_idnt"
  <2>1. /\ config.idnt /\ buf = IdntLine(user) /\ Written = put
    BY <1>3 DEF StreamInv
  <2>2. Len(buf) = HeadLen /\ buf = Preamble("remote")
    BY <2>1, HeadProperties, LinesAreTokens DEF TypeOK
  <2> QED BY <1>1, <1>2, <2>1, <2>2
<1>4. CASE pc = "write_remote"
  <2>1. ChunkUnderWay
    BY <1>4 DEF StreamInv
  <2>2. PICK k \in Nat : k = taken["client"] - Len(buf)
    BY <1>2, <2>1 DEF ChunkUnderWay
  <2>3. Written = HeadLen + k + put /\ put + 1 \in 1 .. Len(buf)
    BY <1>1, <1>2, <2>1, <2>2 DEF ChunkUnderWay
  <2>4. buf[put + 1] = Data(k + (put + 1))
    BY <2>1, <2>2, <2>3 DEF ChunkUnderWay
  <2>5. ~(Written < HeadLen) /\ (Written - HeadLen) + 1 = k + (put + 1)
    BY <1>2, <2>3
  <2>6. Written < HeadLen + sent["client"]
    BY <1>1, <1>2, <2>2, <2>3, SMTT(30)
  <2> QED BY <1>1, <2>4, <2>5, <2>6
<1> QED BY <1>3, <1>4

(* A step that writes nothing leaves the stream as it is.                  *)
LEMMA QuietStep ==
  ASSUME UNCHANGED <<config, user, to>>
  PROVE  HeadLen' = HeadLen /\ Written' = Written /\ RemoteStreamExact' = RemoteStreamExact
BY DEF HeadLen, Written, RemoteStreamExact, Preamble

LEMMA StreamInvStep == TypeOK /\ StreamInv /\ [Next]_vars => StreamInv'
<1> SUFFICES ASSUME TypeOK, StreamInv, [Next]_vars PROVE StreamInv'
  OBVIOUS
<1>0. /\ HeadLen = IF config.idnt THEN 2 ELSE 0
      /\ HeadLen \in Nat /\ Written \in Nat
  BY HeadProperties
<1> USE DEF StreamInv, NothingHeldBack, Relaying, HeadLen, Written
<1>1. CASE Resolve
  BY <1>1, QuietStep DEF Resolve, Goto, ErrorReply, net
<1>2. CASE OpenSocket
  BY <1>2, QuietStep DEF OpenSocket, Goto, ErrorReply
<1>3. CASE Connect
  BY <1>3, QuietStep DEF Connect, Goto, ErrorReply
<1>4. CASE SendIdnt
  BY <1>4, <1>0, QuietStep DEF SendIdnt, Goto, net
<1>4a. CASE IdentLookup
  <2>1. UNCHANGED <<config, to, taken>> /\ pc = "lookup"
    BY <1>4a DEF IdentLookup, net
  <2>2. Written = 0 /\ taken["client"] = 0
    BY <2>1
  <2>3. RemoteStreamExact'
    BY <2>1, <2>2 DEF RemoteStreamExact
  <2> QED BY <1>4a, <1>0, <2>1, <2>2, <2>3, QuietStep DEF IdentLookup, Goto, StartWrite
<1>5. CASE IdntWritten
  <2>1. Outcome = "full" => Written = HeadLen
    BY <1>5, <1>0, OutcomeValues, LinesAreTokens DEF IdntWritten, WriteReturns, TypeOK
  <2> QED BY <1>5, <2>1, QuietStep DEF IdntWritten, WriteReturns, Goto, net
<1>6. CASE SendWelcome
  BY <1>6, <1>0, QuietStep DEF SendWelcome, Goto, StartWrite, net
<1>7. CASE WelcomeWritten
  BY <1>7, <1>0, QuietStep DEF WelcomeWritten, WriteReturns, Goto, net
<1>8. CASE PollReady
  BY <1>8, QuietStep DEF PollReady, Goto, net
<1>9. CASE PollTimeout
  BY <1>9, QuietStep DEF PollTimeout, Goto, ErrorReply, net
<1>10. CASE PollFails
  BY <1>10, QuietStep DEF PollFails, Goto, ErrorReply, net
<1>11. CASE ReadClient
  <2>1. CASE ReadChunk("client", "write_remote")
    <3>1. PICK n \in 1 .. (sent["client"] - taken["client"]) : n = Len(Chunk("client"))
      BY <2>1, ChunkProperties DEF ReadChunk, Sides
    <3>2. taken["client"] \in Nat /\ sent["client"] \in Nat
      BY ClientAssumption DEF TypeOK, Sides
    <3>3. /\ buf' = Chunk("client") /\ put' = 0 /\ pc' = "write_remote"
          /\ taken' = [taken EXCEPT !["client"] = taken["client"] + n]
      BY <2>1, <3>1 DEF ReadChunk, StartWrite
    <3>4. taken'["client"] = taken["client"] + n
      BY <3>3 DEF TypeOK, Sides
    <3>5. \A i \in 1 .. n : Chunk("client")[i] = Data(taken["client"] + i)
      BY <2>1, <3>1, ChunkProperties DEF ReadChunk, Sides
    <3>6. ChunkUnderWay'
      <4>1. HeadLen' = HeadLen /\ Written' = Written
        BY <1>11, QuietStep DEF ReadClient
      <4>2. Written = HeadLen + taken["client"]
        BY <1>11 DEF ReadClient
      <4>3. Len(buf') = n /\ taken'["client"] - n = taken["client"]
        BY <3>1, <3>2, <3>3, <3>4
      <4> QED BY <1>0, <3>1, <3>2, <3>3, <3>4, <3>5, <4>1, <4>2, <4>3 DEF ChunkUnderWay
    <3> QED BY <1>11, <3>3, <3>6, QuietStep DEF ReadClient
  <2>2. CASE Goto("free") /\ UNCHANGED taken
    BY <1>11, <2>2, QuietStep DEF ReadClient, Goto
  <2> QED BY <1>11, <2>1, <2>2 DEF ReadClient
<1>12. CASE RemoteWritten
  <2>1. Outcome = "full" => Written = HeadLen + taken["client"]
    <3>1. put \in Nat /\ Len(buf) \in Nat /\ taken["client"] \in Nat
      BY ClientAssumption DEF TypeOK, Sides
    <3> QED BY <1>12, <1>0, <3>1, OutcomeValues DEF RemoteWritten, WriteReturns, ChunkUnderWay
  <2>2. \/ pc' \in {"read_remote", "poll"} /\ Outcome = "full"
        \/ pc' = "free"
        \/ pc' = "reply" /\ after' = "free"
    BY <1>12, OutcomeValues DEF RemoteWritten, Goto, ErrorReply
  <2> QED BY <1>12, <2>1, <2>2, QuietStep DEF RemoteWritten, net
<1>13. CASE ReadRemote
  <2>1. taken'["client"] = taken["client"] /\ Written = HeadLen + taken["client"]
    BY <1>13 DEF ReadRemote, ReadChunk, TypeOK, Sides
  <2>2. pc' = "write_client" \/ pc' = "free" \/ (pc' = "reply" /\ after' = "free")
    BY <1>13 DEF ReadRemote, ReadChunk, StartWrite, Goto, ErrorReply
  <2> QED BY <1>13, <2>1, <2>2, QuietStep DEF ReadRemote
<1>14. CASE ClientWritten
  <2>1. pc' = "poll" \/ (pc' = "reply" /\ after' = "poll")
    BY <1>14, OutcomeValues DEF ClientWritten, Goto, ErrorReply
  <2> QED BY <1>14, <2>1, QuietStep DEF ClientWritten, WriteReturns, net
<1>15. CASE ReplyWritten
  <2>1. pc = "reply" /\ pc' = after /\ after \in {"free", "poll"}
    BY <1>15 DEF ReplyWritten, WriteReturns, Goto, TypeOK
  <2> QED BY <1>15, <2>1, QuietStep DEF ReplyWritten, net
<1>16. CASE KernelTakes
  <2>1. CASE pc \notin {"write_idnt", "write_remote"}
    <3>1. to'["remote"] = to["remote"] /\ UNCHANGED <<config, user, pc, taken, after>>
      BY <1>16, <2>1 DEF KernelTakes, WriteTo, TypeOK, Sides
    <3>2. RemoteStreamExact' /\ HeadLen' = HeadLen
      BY <3>1 DEF RemoteStreamExact, Preamble
    <3> QED BY <2>1, <3>1, <3>2
  <2>2. CASE pc \in {"write_idnt", "write_remote"}
    <3> DEFINE item == buf[put + 1]
    <3>1. /\ to'["remote"] = Append(to["remote"], item)
          /\ put' = put + 1 /\ put < Len(buf)
          /\ UNCHANGED <<config, user, pc, buf, taken, after>>
      BY <1>16, <2>2 DEF KernelTakes, WriteTo, TypeOK, Sides
    <3>2. /\ put \in Nat /\ Len(buf) \in Nat /\ taken["client"] \in Nat
          /\ to["remote"] \in Seq(Token)
      BY ClientAssumption DEF TypeOK, Sides
    <3>3. Preamble("remote")' = Preamble("remote") /\ HeadLen' = HeadLen
      BY <3>1 DEF Preamble
    <3>4. /\ Written' = Written + 1
          /\ \A i \in 1 .. Written : to'["remote"][i] = to["remote"][i]
          /\ to'["remote"][Written + 1] = item
      BY <3>1, <3>2
    <3>5. item = IF Written + 1 <= HeadLen THEN Preamble("remote")[Written + 1]
                 ELSE Data((Written + 1) - HeadLen)
      <4>1. (Written - HeadLen) + 1 = (Written + 1) - HeadLen
        BY <1>0
      <4>2. Written < HeadLen <=> Written + 1 <= HeadLen
        BY <1>0
      <4>3. item = IF Written < HeadLen THEN Preamble("remote")[Written + 1]
                   ELSE Data((Written - HeadLen) + 1)
        BY <1>16, <2>2, NextItem
      <4> QED BY <4>1, <4>2, <4>3
    <3>6. RemoteStreamExact'
      <4> SUFFICES ASSUME NEW i \in 1 .. Written'
                   PROVE  to'["remote"][i] = IF i <= HeadLen THEN Preamble("remote")[i]
                                             ELSE Data(i - HeadLen)
        BY <3>3 DEF RemoteStreamExact
      <4>1. CASE i = Written + 1
        BY <4>1, <3>4, <3>5
      <4>2. CASE i \in 1 .. Written
        BY <4>2, <3>4 DEF RemoteStreamExact
      <4> QED BY <1>0, <3>4, <4>1, <4>2
    <3>7. pc = "write_idnt" => Written' = put'
      BY <3>1, <3>4
    <3>8. ASSUME pc = "write_remote" PROVE ChunkUnderWay'
      <4>1. ChunkUnderWay
        BY <3>8
      <4>2. PICK k \in Nat : k = taken["client"] - Len(buf)
        BY <3>2, <4>1 DEF ChunkUnderWay
      <4>3. Written = HeadLen + k + put
        BY <4>1, <4>2 DEF ChunkUnderWay
      <4>4. Written' = HeadLen + k + put'
        BY <1>0, <3>1, <3>2, <3>4, <4>3
      <4>5. Written' = HeadLen' + (taken["client"] - Len(buf))' + put'
        BY <3>1, <3>3, <4>2, <4>4
      <4> QED BY <3>1, <4>1, <4>5 DEF ChunkUnderWay
    <3>9. pc = "write_idnt" => config'.idnt /\ buf' = IdntLine(user)' /\ taken'["client"] = 0
      BY <3>1
    <3> HIDE DEF item
    <3> QED BY <2>2, <3>1, <3>6, <3>7, <3>8, <3>9
  <2> QED BY <2>1, <2>2
<1>17. CASE Free
  BY <1>17, QuietStep DEF Free, Goto
<1>18. CASE Peers \/ UNCHANGED vars
  <2>1. UNCHANGED <<config, user, to, taken, pc, buf, put, after>>
    BY <1>18 DEF Peers, PeerSends, PeerReceives, PeerFinishes, PeerResets, thread, vars
  <2> QED BY <2>1, QuietStep DEF ChunkUnderWay
<1> QED BY <1>1, <1>2, <1>3, <1>4, <1>4a, <1>5, <1>6, <1>7, <1>8, <1>9, <1>10, <1>11,
           <1>12, <1>13, <1>14, <1>15, <1>16, <1>17, <1>18
        DEF Next, Thread, Setup, Relay

LEMMA StreamInvariant == Spec => []StreamInv
<1>1. Init => StreamInv
  <2> SUFFICES ASSUME Init PROVE StreamInv
    OBVIOUS
  <2>1. Written = 0 /\ taken["client"] = 0 /\ pc = "resolve"
    BY DEF Init, Written, Sides
  <2> QED BY <2>1 DEF StreamInv, RemoteStreamExact, NothingHeldBack, Relaying, Written
<1> QED BY <1>1, StreamInvStep, TypeCorrect, PTL DEF Spec

(* What the remote host is sent is the IDNT line, if there is one, and     *)
(* then the client's bytes, exactly (Client_sendIdnt, Client_relay).       *)
THEOREM RemoteStreamCorrect == Spec => []RemoteStreamExact
BY StreamInvariant, PTL DEF StreamInv

(* While the loop runs, whatever was read from the client has been passed  *)
(* on by the time the thread turns to anything else (Client_relay).        *)
THEOREM NothingIsHeldBack == Spec => []NothingHeldBack
BY StreamInvariant, PTL DEF StreamInv

(* When the loop is left because the client finished, all that the client  *)
(* sent has been written to the remote host (the break of client.c:209).   *)
THEOREM OrderlyEndHolds == Spec => OrderlyEnd
<1>1. TypeOK /\ StreamInv /\ [Next]_vars =>
        [pc = "read_client" /\ pc' = "free"
          => Len(to["remote"]) = Len(Preamble("remote")) + sent["client"]]_vars
  <2> SUFFICES ASSUME TypeOK, StreamInv, [Next]_vars, pc = "read_client", pc' = "free"
               PROVE  Len(to["remote"]) = Len(Preamble("remote")) + sent["client"]
    OBVIOUS
  <2>1. ReadClient
    BY DEF Next, Thread, Setup, Relay, Peers, Resolve, OpenSocket, Connect, SendIdnt,
           IdentLookup, IdntWritten, SendWelcome, WelcomeWritten, PollReady, PollTimeout, PollFails,
           RemoteWritten, ReadRemote, ClientWritten, ReplyWritten, WriteReturns, Free,
           KernelTakes, PeerSends, PeerReceives, PeerFinishes, PeerResets, thread, vars
  <2>2. ~Unread("client")
    BY <2>1 DEF ReadClient, ReadChunk, StartWrite
  <2>3. taken["client"] = sent["client"]
    BY <2>2, ClientAssumption DEF Unread, TypeOK, Sides
  <2> QED BY <2>3 DEF StreamInv, NothingHeldBack, Relaying
<1> QED BY <1>1, TypeCorrect, StreamInvariant, PTL DEF Spec, OrderlyEnd

-----------------------------------------------------------------------------
(* The direction towards the remote host implements Stream.                *)

(* Until the thread is done its client's socket is open.                   *)
UpInv == pc # "done" => sock["client"] = "open"

LEMMA UpInvStep == TypeOK /\ UpInv /\ [Next]_vars => UpInv'
<1> SUFFICES ASSUME TypeOK, UpInv, [Next]_vars PROVE UpInv'
  OBVIOUS
<1>1. CASE OpenSocket
  BY <1>1 DEF OpenSocket, UpInv, TypeOK, Sides
<1>2. CASE Free
  BY <1>2 DEF Free, Goto, UpInv
<1>3. CASE UNCHANGED sock /\ pc # "done"
  BY <1>3 DEF UpInv
<1>4. CASE Peers \/ UNCHANGED vars
  <2>1. UNCHANGED pc /\ UNCHANGED sock
    BY <1>4 DEF Peers, PeerSends, PeerReceives, PeerFinishes, PeerResets, thread, vars
  <2> QED BY <2>1 DEF UpInv
<1>5. ASSUME \/ Resolve \/ Connect \/ SendIdnt \/ IdentLookup
             \/ IdntWritten \/ SendWelcome \/ WelcomeWritten
      PROVE  UNCHANGED sock /\ pc # "done"
  BY <1>5 DEF Resolve, Connect, SendIdnt, IdentLookup, IdntWritten, SendWelcome, WelcomeWritten,
              WriteReturns, net
<1>6. ASSUME PollReady \/ PollTimeout \/ PollFails \/ ReadClient \/ ReadRemote
      PROVE  UNCHANGED sock /\ pc # "done"
  BY <1>6 DEF PollReady, PollTimeout, PollFails, ReadClient, ReadRemote, net
<1>7. ASSUME RemoteWritten \/ ClientWritten \/ ReplyWritten
      PROVE  UNCHANGED sock /\ pc # "done"
  <2>1. CASE RemoteWritten
    BY <2>1 DEF RemoteWritten, WriteReturns, net
  <2>2. CASE ClientWritten
    BY <2>2 DEF ClientWritten, WriteReturns, net
  <2>3. CASE ReplyWritten
    BY <2>3 DEF ReplyWritten, WriteReturns, net
  <2> QED BY <1>7, <2>1, <2>2, <2>3
<1>8. ASSUME KernelTakes PROVE UNCHANGED sock /\ pc # "done"
  BY <1>8 DEF KernelTakes, Writing
<1> QED BY <1>1, <1>2, <1>3, <1>4, <1>5, <1>6, <1>7, <1>8 DEF Next, Thread, Setup, Relay

LEMMA UpInvariant == Spec => []UpInv
<1>1. Init => UpInv
  BY DEF Init, UpInv, Sides
<1> QED BY <1>1, UpInvStep, TypeCorrect, PTL DEF Spec

(* A step that the receiver cannot see is a stutter of Stream.             *)
LEMMA InvisibleStep ==
  ASSUME UNCHANGED <<config, user, to, sock>>, sent'["client"] = sent["client"]
  PROVE  UNCHANGED ToRemote!streamVars
BY DEF ToRemote!streamVars, Preamble

(* The possible head lines.                                                *)
LEMMA HeadIsPossible ==
  ASSUME config.idnt => user \in Lookups
  PROVE  Preamble("remote") \in {<<>>} \cup {IdntLine(u) : u \in Lookups}
BY DEF Preamble

LEMMA StreamStep ==
  TypeOK /\ StreamInv /\ UpInv /\ [Next]_vars => [ToRemote!StreamNext]_(ToRemote!streamVars)
<1> SUFFICES ASSUME TypeOK, StreamInv, UpInv, [Next]_vars
             PROVE  ToRemote!StreamNext \/ UNCHANGED ToRemote!streamVars
  OBVIOUS
<1>1. CASE IdentLookup
  <2>1. UNCHANGED <<config, to, sent, sock>> /\ user' \in Lookups /\ pc = "lookup"
    BY <1>1 DEF IdentLookup, net, TypeOK
  <2>2. to["remote"] = <<>>
    BY <2>1 DEF StreamInv, Written, TypeOK, Sides
  <2>3. Preamble("remote")' \in {<<>>} \cup {IdntLine(u) : u \in Lookups}
    BY <2>1 DEF Preamble
  <2>4. ToRemote!Settle
    BY <2>1, <2>2, <2>3 DEF ToRemote!Settle, UpInv
  <2> QED BY <2>4 DEF ToRemote!StreamNext
<1>2. CASE KernelTakes
  <2>1. CASE pc \notin {"write_idnt", "write_remote"}
    <3>1. UNCHANGED <<config, user, sock, sent>> /\ to'["remote"] = to["remote"]
      BY <1>2, <2>1 DEF KernelTakes, WriteTo, TypeOK, Sides
    <3> QED BY <3>1 DEF ToRemote!streamVars, Preamble
  <2>2. CASE pc \in {"write_idnt", "write_remote"}
    <3> DEFINE P == Preamble("remote")
               n == Written - HeadLen
    <3>1. UNCHANGED <<config, user, sock, sent>> /\ sock["client"] = "open"
      BY <1>2, <2>2 DEF KernelTakes, UpInv
    <3>2. /\ to'["remote"] = Append(to["remote"], buf[put + 1])
          /\ Written < HeadLen + sent["client"]
          /\ buf[put + 1] = IF Written < HeadLen THEN P[Written + 1] ELSE Data(n + 1)
      BY <1>2, <2>2, NextItem DEF TypeOK, Sides
    <3>3. ~(Written < HeadLen) => [i \in Nat |-> Data(i)][n + 1] = Data(n + 1)
      <4>1. HeadLen \in Nat /\ Written \in Nat
        BY HeadProperties
      <4> QED BY <4>1
    <3>4. ToRemote!Deliver
      BY <3>1, <3>2, <3>3 DEF ToRemote!Deliver, Preamble, Written, HeadLen
    <3> QED BY <3>4 DEF ToRemote!StreamNext
  <2> QED BY <2>1, <2>2
<1>3. CASE Free
  <2>1. sock'["client"] # "open" /\ UNCHANGED <<config, user, to, sent>>
    BY <1>3 DEF Free, Sides
  <2>2. ToRemote!GoDown
    BY <2>1 DEF ToRemote!GoDown, Preamble
  <2> QED BY <2>2 DEF ToRemote!StreamNext
<1>4. CASE PeerSends("client")
  <2>1. /\ sock["client"] = "open" /\ sent'["client"] = sent["client"] + 1
        /\ UNCHANGED <<config, user, to, sock>>
    BY <1>4 DEF PeerSends, thread, TypeOK, Sides
  <2>2. ToRemote!Arrive
    BY <2>1 DEF ToRemote!Arrive, Preamble
  <2> QED BY <2>2 DEF ToRemote!StreamNext
<1>5. CASE OpenSocket
  <2>1. UNCHANGED <<config, user, to, sent>> /\ sock'["client"] = sock["client"]
    BY <1>5 DEF OpenSocket, TypeOK, Sides
  <2> QED BY <2>1 DEF ToRemote!streamVars, Preamble
<1>6. CASE PeerSends("remote")
  <2>1. UNCHANGED <<config, user, to, sock>> /\ sent'["client"] = sent["client"]
    BY <1>6 DEF PeerSends, thread, TypeOK, Sides
  <2> QED BY <2>1, InvisibleStep
<1>7. ASSUME \/ Resolve \/ Connect \/ SendIdnt \/ IdntWritten \/ SendWelcome \/ WelcomeWritten
             \/ PollReady \/ PollTimeout \/ PollFails \/ ReadClient \/ ReadRemote
      PROVE  UNCHANGED <<config, user, to, sock, sent>>
  BY <1>7 DEF Resolve, Connect, SendIdnt, IdntWritten, SendWelcome, WelcomeWritten, PollReady,
              PollTimeout, PollFails, ReadClient, ReadRemote, net
<1>8. ASSUME RemoteWritten \/ ClientWritten \/ ReplyWritten
      PROVE  UNCHANGED <<config, user, to, sock, sent>>
  <2>1. CASE RemoteWritten
    BY <2>1 DEF RemoteWritten, net
  <2>2. CASE ClientWritten
    BY <2>2 DEF ClientWritten, net
  <2>3. CASE ReplyWritten
    BY <2>3 DEF ReplyWritten, net
  <2> QED BY <1>8, <2>1, <2>2, <2>3
<1>9. ASSUME \/ \E s \in Sides : PeerReceives(s) \/ PeerFinishes(s) \/ PeerResets(s)
             \/ UNCHANGED vars
      PROVE  UNCHANGED <<config, user, to, sock, sent>>
  BY <1>9 DEF PeerReceives, PeerFinishes, PeerResets, thread, vars
<1>10. UNCHANGED <<config, user, to, sock, sent>> => UNCHANGED ToRemote!streamVars
  BY InvisibleStep
<1> QED BY <1>1, <1>2, <1>3, <1>4, <1>5, <1>6, <1>7, <1>8, <1>9, <1>10
        DEF Next, Thread, Setup, Relay, Peers, Sides

(* Every session implements Stream for its remote host: one IDNT line, the *)
(* client's bytes after it, and nothing once the thread has closed its     *)
(* sockets (Client_sendIdnt, Client_relay, Client_free).                   *)
THEOREM ClientImplementsStream == Spec => ImplementsStream
<1>1. Init => ToRemote!StreamInit
  <2> SUFFICES ASSUME Init PROVE ToRemote!StreamInit
    OBVIOUS
  <2>1. Preamble("remote") \in {<<>>} \cup {IdntLine(u) : u \in Lookups}
    BY HeadIsPossible DEF Init, Lookups
  <2> QED BY <2>1 DEF Init, ToRemote!StreamInit, Sides
<1> QED BY <1>1, StreamStep, TypeCorrect, StreamInvariant, UpInvariant, PTL
        DEF Spec, ImplementsStream, ToRemote!StreamSpec

=============================================================================
