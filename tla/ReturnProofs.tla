---------------------------- MODULE ReturnProofs ----------------------------
(* Proofs about the other direction of Client, from the remote host to the *)
(* client, which the thread's own lines share.                             *)
EXTENDS ClientProofs

Down == to["client"]

(* Nothing in the client's stream announces the end of the session yet.    *)
Quiet == \A i \in 1 .. Len(Down) :
           IsReply(Down[i]) => Down[i] = Reply("Client write timeout")

(* The bytes of the remote host that may be in the client's stream: of a   *)
(* chunk that is being written, those the kernel has taken.                *)
Limit == IF pc = "write_client" THEN (taken["remote"] - Len(buf)) + put
         ELSE taken["remote"]

Early == {"resolve", "socket", "connect", "ident", "lookup", "write_idnt", "welcome"}

(* What a write to the client is given.  A reply after which the loop goes *)
(* on is either the report of a timeout or cannot be written any more.     *)
BufInv ==
  /\ pc = "write_welcome" => buf = << Welcome >>
  /\ pc = "write_client" =>
       /\ Len(buf) <= taken["remote"]
       /\ \A i \in 1 .. Len(buf) : buf[i] = Data((taken["remote"] - Len(buf)) + i)
  /\ pc = "reply" => \E c \in Causes :
       /\ buf = << Reply(c) >>
       /\ after = "free" \/ c = "Client write timeout" \/ peer["client"] = "rst"

(* The thread writes a reply only into a quiet stream, and none after it.  *)
QuietInv ==
  /\ pc \in {"free", "done"} \/ (pc = "reply" /\ after = "free" /\ put = 1) \/ Quiet
  /\ RepliesEndTheSession

(* The welcome line comes first, and the bytes stay below Limit.           *)
OrderInv ==
  /\ pc \in Early => Len(Down) = 0
  /\ pc = "write_welcome" => Len(Down) = put /\ (put = 1 => Down[1] = Welcome)
  /\ config.welcome /\ Relaying => Len(Down) >= 1 /\ Down[1] = Welcome
  /\ \A i \in 1 .. Len(Down) : IsData(Down[i]) => Down[i][2] \in 1 .. Limit
  /\ ClientStreamOrdered

DownInv == BufInv /\ QuietInv /\ OrderInv

-----------------------------------------------------------------------------
(* A step that writes nothing to the client leaves its stream as it is.    *)
LEMMA DownUnchanged ==
  ASSUME UNCHANGED <<config, to>>
  PROVE  /\ Down' = Down /\ Quiet' = Quiet
         /\ RepliesEndTheSession' = RepliesEndTheSession
         /\ ClientStreamOrdered' = ClientStreamOrdered
BY DEF Down, Quiet, RepliesEndTheSession, ClientStreamOrdered

(* A step that neither reads from the remote host nor writes to the client *)
(* nor is in the middle of either.                                         *)
LEMMA ThreadMoves ==
  ASSUME DownInv, UNCHANGED <<config, to>>, taken'["remote"] = taken["remote"],
         pc' # "write_client", pc # "write_client",
         pc' \in {"write_welcome", "reply"} => BufInv',
         pc' \in Early => pc \in Early,
         pc' = "write_welcome" => pc \in Early /\ put' = 0,
         config.welcome /\ Relaying' => Len(Down) >= 1 /\ Down[1] = Welcome,
         Quiet \/ pc' \in {"free", "done"}
  PROVE  DownInv'
<1>1. BufInv'
  BY DEF BufInv
<1>2. QuietInv'
  BY DownUnchanged DEF DownInv, QuietInv
<1>3. Limit' = Limit
  BY DEF Limit
<1>4. OrderInv'
  BY <1>3, DownUnchanged DEF DownInv, OrderInv, Early
<1> QED BY <1>1, <1>2, <1>4 DEF DownInv

(* The replies of the code, and where the thread goes from them.           *)
LEMMA ReplyStep ==
  ASSUME NEW c \in Causes, NEW next \in {"free", "poll"}, ErrorReply(c, next),
         next = "free" \/ c = "Client write timeout" \/ peer'["client"] = "rst"
  PROVE  /\ pc' = next \/ (pc' = "reply" /\ after' = next)
         /\ BufInv'
BY DEF ErrorReply, Goto, BufInv

LEMMA SetupDown ==
  ASSUME TypeOK, DownInv, Setup PROVE DownInv'
<1> USE DEF Early, Relaying
<1>0. pc \in Early => Len(Down) = 0
  BY DEF DownInv, OrderInv
<1>1. pc \in Early => Quiet /\ Len(Down) = 0
  BY <1>0 DEF DownInv, QuietInv
<1>2. CASE Resolve
  <2>1. UNCHANGED <<config, to, taken>> /\ pc = "resolve"
    BY <1>2 DEF Resolve, net
  <2>2. Goto("socket") \/ ErrorReply("hostPortToSockaddr", "free")
    BY <1>2 DEF Resolve
  <2>3. pc' \in {"socket", "free"} \/ (pc' = "reply" /\ after' = "free" /\ BufInv')
    BY <2>2, ReplyStep DEF Goto, Causes
  <2> QED BY <1>1, <2>1, <2>3, ThreadMoves
<1>3. CASE OpenSocket
  <2>1. UNCHANGED <<config, to, taken>> /\ pc = "socket"
    BY <1>3 DEF OpenSocket
  <2>2. Goto("connect") \/ ErrorReply("socket", "free") \/ ErrorReply("bind", "free")
    BY <1>3 DEF OpenSocket
  <2>3. pc' \in {"connect", "free"} \/ (pc' = "reply" /\ after' = "free" /\ BufInv')
    BY <2>2, ReplyStep DEF Goto, Causes
  <2> QED BY <1>1, <2>1, <2>3, ThreadMoves
<1>4. CASE Connect
  <2>1. UNCHANGED <<config, to, taken>> /\ pc = "connect"
    BY <1>4 DEF Connect
  <2>2. Goto("ident") \/ ErrorReply("connect", "free")
    BY <1>4 DEF Connect
  <2>3. pc' \in {"ident", "free"} \/ (pc' = "reply" /\ after' = "free" /\ BufInv')
    BY <2>2, ReplyStep DEF Goto, Causes
  <2> QED BY <1>1, <2>1, <2>3, ThreadMoves
<1>5. CASE SendIdnt \/ IdentLookup \/ IdntWritten
  <2>1. /\ UNCHANGED <<config, to, taken>> /\ pc \in {"ident", "lookup", "write_idnt"}
        /\ pc' \in {"lookup", "welcome", "write_idnt", "free"}
    BY <1>5 DEF SendIdnt, IdentLookup, IdntWritten, WriteReturns, Goto, StartWrite, net
  <2> QED BY <1>1, <2>1, ThreadMoves
<1>6. CASE SendWelcome
  <2>1. UNCHANGED <<config, to, taken>> /\ pc = "welcome"
    BY <1>6 DEF SendWelcome, net
  <2>2. \/ pc' = "poll" /\ ~config.welcome
        \/ pc' = "free"
        \/ pc' = "write_welcome" /\ put' = 0 /\ buf' = << Welcome >>
    BY <1>6 DEF SendWelcome, Goto, StartWrite
  <2>3. pc' \in {"write_welcome", "reply"} => BufInv'
    BY <2>2 DEF BufInv
  <2> QED BY <1>1, <2>1, <2>2, <2>3, ThreadMoves
<1>7. CASE WelcomeWritten
  <2>1. UNCHANGED <<config, to, taken>> /\ pc = "write_welcome"
    BY <1>7 DEF WelcomeWritten, WriteReturns, net
  <2>2. pc' \in {"poll", "free"} /\ (pc' = "poll" => put = Len(buf))
    BY <1>7, OutcomeValues DEF WelcomeWritten, Goto
  <2>3. Quiet
    BY <2>1 DEF DownInv, QuietInv
  <2>4. buf = << Welcome >> /\ Len(buf) = 1
    BY <2>1 DEF DownInv, BufInv
  <2>5. pc' = "poll" => Len(Down) >= 1 /\ Down[1] = Welcome
    BY <2>1, <2>2, <2>4 DEF DownInv, OrderInv
  <2> QED BY <2>1, <2>2, <2>3, <2>5, ThreadMoves
<1> QED BY <1>2, <1>3, <1>4, <1>5, <1>6, <1>7 DEF Setup
LEMMA RelayMovesDown ==
  ASSUME TypeOK, DownInv,
         PollReady \/ PollTimeout \/ PollFails \/ ReadClient \/ RemoteWritten
  PROVE  DownInv'
<1> USE DEF Early, Relaying
<1>1. /\ UNCHANGED <<config, to>> /\ taken'["remote"] = taken["remote"]
      /\ pc \in {"poll", "read_client", "write_remote"}
  <2>1. CASE PollReady \/ PollTimeout \/ PollFails
    BY <2>1 DEF PollReady, PollTimeout, PollFails, net
  <2>2. CASE ReadClient
    BY <2>2 DEF ReadClient, ReadChunk, TypeOK, Sides
  <2>3. CASE RemoteWritten
    BY <2>3 DEF RemoteWritten, WriteReturns, net
  <2> QED BY <2>1, <2>2, <2>3
<1>2. Quiet /\ (config.welcome => Len(Down) >= 1 /\ Down[1] = Welcome)
  BY <1>1 DEF DownInv, QuietInv, OrderInv
<1>3. \/ pc' \in {"poll", "read_client", "write_remote", "read_remote", "free"}
      \/ (pc' = "reply" /\ after' = "free" /\ BufInv')
  <2>1. CASE PollReady
    BY <2>1 DEF PollReady, Goto
  <2>2. CASE PollTimeout
    BY <2>2, ReplyStep DEF PollTimeout, Causes
  <2>3. CASE PollFails
    BY <2>3, ReplyStep DEF PollFails, Causes
  <2>4. CASE ReadClient
    BY <2>4 DEF ReadClient, ReadChunk, StartWrite, Goto
  <2>5. CASE RemoteWritten
    <3>1. \/ Goto(IF ready THEN "read_remote" ELSE "poll")
          \/ \E c \in Causes : ErrorReply(c, "free")
      BY <2>5, OutcomeValues DEF RemoteWritten, Causes
    <3> QED BY <3>1, ReplyStep DEF Goto
  <2> QED BY <2>1, <2>2, <2>3, <2>4, <2>5
<1> QED BY <1>1, <1>2, <1>3, ThreadMoves

(* A chunk from the remote host: its bytes are those above Limit.          *)
LEMMA ReadRemoteDown ==
  ASSUME TypeOK, DownInv, ReadRemote PROVE DownInv'
<1>1. UNCHANGED <<config, to>> /\ pc = "read_remote"
  BY DEF ReadRemote
<1>2. Quiet /\ (config.welcome => Len(Down) >= 1 /\ Down[1] = Welcome)
  BY <1>1 DEF DownInv, QuietInv, OrderInv, Relaying
<1>3. CASE ReadChunk("remote", "write_client")
  <2>1. PICK n \in 1 .. (sent["remote"] - taken["remote"]) : n = Len(Chunk("remote"))
    BY <1>3, ChunkProperties DEF ReadChunk, Sides
  <2>2. taken["remote"] \in Nat /\ sent["remote"] \in Nat
    BY ClientAssumption DEF TypeOK, Sides
  <2>3. /\ buf' = Chunk("remote") /\ put' = 0 /\ pc' = "write_client"
        /\ taken' = [taken EXCEPT !["remote"] = taken["remote"] + n]
    BY <1>3, <2>1 DEF ReadChunk, StartWrite
  <2>4. taken'["remote"] = taken["remote"] + n /\ Len(buf') = n
    BY <2>1, <2>3 DEF TypeOK, Sides
  <2>5. \A i \in 1 .. n : buf'[i] = Data(taken["remote"] + i)
    BY <1>3, <2>1, <2>3, ChunkProperties DEF ReadChunk, Sides
  <2>6. (taken'["remote"] - Len(buf')) = taken["remote"] /\ Len(buf') <= taken'["remote"]
    BY <2>1, <2>2, <2>4
  <2>7. BufInv'
    BY <2>3, <2>4, <2>5, <2>6 DEF BufInv
  <2>8. Limit' = Limit
    BY <1>1, <2>2, <2>3, <2>6 DEF Limit
  <2>9. QuietInv'
    BY <1>1, <1>2, <2>3, DownUnchanged DEF DownInv, QuietInv
  <2>10. OrderInv'
    BY <1>1, <1>2, <2>3, <2>8, DownUnchanged DEF DownInv, OrderInv, Early
  <2> QED BY <2>7, <2>9, <2>10 DEF DownInv
<1>4. CASE /\ ErrorReply("Connection closed", "free") \/ ErrorReply("read", "free")
           /\ UNCHANGED taken
  <2>1. pc' = "free" \/ (pc' = "reply" /\ after' = "free" /\ BufInv')
    BY <1>4, ReplyStep DEF Causes
  <2> QED BY <1>1, <1>2, <1>4, <2>1, ThreadMoves DEF Early, Relaying
<1> QED BY <1>3, <1>4 DEF ReadRemote

(* What of the chunk was not written is lost, and Limit jumps over it.     *)
LEMMA ClientWrittenDown ==
  ASSUME TypeOK, DownInv, ClientWritten PROVE DownInv'
<1>1. UNCHANGED <<config, net, to, taken, peer>> /\ pc = "write_client"
  BY DEF ClientWritten, WriteReturns, net
<1>2. /\ Goto("poll") \/ ErrorReply("Client write timeout", "poll")
           \/ (ErrorReply("write", "poll") /\ Outcome = "error")
  BY OutcomeValues DEF ClientWritten
<1>3. Outcome = "error" => peer["client"] = "rst"
  BY <1>1 DEF Outcome, WriteTo
<1>4. pc' = "poll" \/ (pc' = "reply" /\ after' = "poll" /\ BufInv')
  <2>1. CASE Goto("poll")
    BY <2>1 DEF Goto
  <2>2. CASE ErrorReply("Client write timeout", "poll")
    BY <2>2, ReplyStep DEF Causes
  <2>3. CASE ErrorReply("write", "poll") /\ Outcome = "error"
    BY <2>3, <1>1, <1>3, ReplyStep DEF Causes
  <2> QED BY <1>2, <2>1, <2>2, <2>3
<1>5. BufInv'
  BY <1>4 DEF BufInv
<1>6. QuietInv'
  BY <1>1, <1>4, DownUnchanged DEF DownInv, QuietInv
<1>7. 1 .. Limit \subseteq 1 .. Limit'
  <2>1. put <= Len(buf) /\ put \in Nat /\ Len(buf) \in Nat /\ taken["remote"] \in Nat
    BY ClientAssumption DEF TypeOK, Sides
  <2>2. Limit = (taken["remote"] - Len(buf)) + put /\ Limit' = taken["remote"]
    BY <1>1, <1>4 DEF Limit
  <2> QED BY <2>1, <2>2
<1>8. OrderInv'
  BY <1>1, <1>4, <1>7, DownUnchanged DEF DownInv, OrderInv, Early, Relaying
<1> QED BY <1>5, <1>6, <1>8 DEF DownInv

LEMMA ReplyWrittenDown ==
  ASSUME TypeOK, DownInv, ReplyWritten PROVE DownInv'
<1>1. /\ UNCHANGED <<config, to, taken>> /\ pc = "reply"
      /\ pc' = after /\ after \in {"free", "poll"}
  BY DEF ReplyWritten, WriteReturns, Goto, net, TypeOK
<1>2. Quiet \/ pc' = "free"
  BY <1>1 DEF DownInv, QuietInv
<1>3. config.welcome /\ Relaying' => Len(Down) >= 1 /\ Down[1] = Welcome
  BY <1>1 DEF DownInv, OrderInv, Relaying
<1> QED BY <1>1, <1>2, <1>3, ThreadMoves DEF Early

LEMMA FreeDown ==
  ASSUME TypeOK, DownInv, Free PROVE DownInv'
<1>1. UNCHANGED <<config, to, taken>> /\ pc = "free" /\ pc' = "done"
  BY DEF Free, Goto
<1> QED BY <1>1, ThreadMoves DEF Early, Relaying

(* The peers leave the thread and what it has written alone, and a reset   *)
(* is final.                                                               *)
LEMMA PeersDown ==
  ASSUME DownInv, UNCHANGED <<config, pc, buf, put, after, to, taken>>,
         peer["client"] = "rst" => peer'["client"] = "rst"
  PROVE  DownInv'
<1>1. BufInv'
  BY DEF DownInv, BufInv
<1>2. QuietInv'
  BY DownUnchanged DEF DownInv, QuietInv
<1>3. Limit' = Limit
  BY DEF Limit
<1>4. OrderInv'
  BY <1>3, DownUnchanged DEF DownInv, OrderInv, Relaying
<1> QED BY <1>1, <1>2, <1>4 DEF DownInv

LEMMA ButTheLast == \A m \in Nat : \A i \in 1 .. m - 1 : i \in 1 .. m
OBVIOUS

(* A stream whose only replies are the reports of timed out writes.        *)
LEMMA QuietStream ==
  ASSUME Len(Down') \in Nat,
         \A i \in 1 .. Len(Down') :
           IsReply(Down'[i]) => Down'[i] = Reply("Client write timeout")
  PROVE  QuietInv'
<1>1. Quiet'
  BY DEF Quiet
<1>2. RepliesEndTheSession'
  BY ButTheLast DEF RepliesEndTheSession, Down
<1> QED BY <1>1, <1>2 DEF QuietInv

(* The kernel takes a token of a line or of a chunk.                       *)
LEMMA KernelTakesDown ==
  ASSUME TypeOK, DownInv, KernelTakes PROVE DownInv'
<1>1. /\ UNCHANGED <<config, pc, buf, after, taken, peer>> /\ put' = put + 1
      /\ put \in Nat /\ put < Len(buf) /\ Len(buf) \in Nat
  BY DEF KernelTakes, TypeOK
<1>2. CASE WriteTo(pc) = "remote"
  <2>1. Down' = Down /\ pc \in {"write_idnt", "write_remote"}
    BY <1>2 DEF KernelTakes, Down, WriteTo
  <2>2. Limit' = Limit /\ BufInv'
    BY <1>1, <2>1 DEF Limit, BufInv
  <2>3. QuietInv'
    BY <1>1, <2>1 DEF DownInv, QuietInv, Quiet, RepliesEndTheSession, Down
  <2>4. OrderInv'
    BY <1>1, <2>1, <2>2 DEF DownInv, OrderInv, Relaying, ClientStreamOrdered, Down
  <2> QED BY <2>2, <2>3, <2>4 DEF DownInv
<1>3. CASE WriteTo(pc) = "client"
  <2> DEFINE t == buf[put + 1]
             n == Len(Down)
  <2>1. Down \in Seq(Token) /\ n \in Nat
    BY DEF Down, TypeOK, Sides
  <2>2. to' = [to EXCEPT !["client"] = Append(Down, t)] /\ peer["client"] # "rst"
    BY <1>3 DEF KernelTakes, Down
  <2>3. Down' = Append(Down, t)
    BY <2>2 DEF Down, TypeOK, Sides
  <2>4. Len(Down') = n + 1 /\ Down'[n + 1] = t /\ \A i \in 1 .. n : Down'[i] = Down[i]
    BY <2>1, <2>3
  <2>5. pc \in {"write_welcome", "write_client", "reply"}
    BY <1>3 DEF KernelTakes, Writing, WriteTo
  <2>6. BufInv /\ QuietInv /\ OrderInv
    BY DEF DownInv
  <2>7. BufInv'
    BY <1>1, <2>5, <2>6 DEF BufInv
  <2>8. Quiet /\ (pc \in {"write_welcome", "reply"} => put = 0)
    <3> HIDE DEF t, n
    <3>1. pc = "write_welcome" => Len(buf) = 1
      BY <2>6 DEF BufInv
    <3>2. CASE pc = "reply"
      <4>1. PICK c \in Causes : buf = << Reply(c) >>
        BY <2>6, <3>2 DEF BufInv
      <4>2. Len(buf) = 1
        BY <4>1
      <4>3. put = 0
        BY <1>1, <4>2
      <4> QED BY <2>6, <3>2, <4>3 DEF QuietInv
    <3>3. CASE pc = "write_welcome"
      <4>1. Len(buf) = 1
        BY <3>1, <3>3
      <4>2. put = 0
        BY <1>1, <4>1
      <4> QED BY <2>6, <3>3, <4>2 DEF QuietInv
    <3>4. CASE pc = "write_client"
      BY <2>6, <3>4 DEF QuietInv
    <3> QED BY <2>5, <3>2, <3>3, <3>4
  <2>9. CASE pc = "write_welcome"
    <3>1. t = Welcome /\ n = 0 /\ ~IsReply(t) /\ ~IsData(t)
      BY <2>6, <2>8, <2>9 DEF BufInv, OrderInv, Welcome, IsReply, IsData
    <3>2. Len(Down') = 1 /\ Down'[1] = Welcome /\ ~IsReply(Down'[1]) /\ ~IsData(Down'[1])
      BY <2>4, <3>1
    <3> HIDE DEF t, n
    <3>3. QuietInv'
      <4>1. \A i \in 1 .. Len(Down') : ~IsReply(Down'[i])
        BY <3>2
      <4>2. Len(Down') \in Nat
        BY <3>2
      <4> QED BY <4>1, <4>2, QuietStream
    <3>4. OrderInv'
      BY <1>1, <2>8, <2>9, <3>2 DEF OrderInv, ClientStreamOrdered, Down, Relaying, Early
    <3> QED BY <2>7, <3>3, <3>4 DEF DownInv
  <2>10. CASE pc = "write_client"
    <3>1. /\ taken["remote"] \in Nat /\ Len(buf) <= taken["remote"]
          /\ put + 1 \in 1 .. Len(buf)
      BY <1>1, <2>6, <2>10, ClientAssumption DEF BufInv, TypeOK, Sides
    <3>2. t = Data((taken["remote"] - Len(buf)) + (put + 1))
      BY <2>6, <2>10, <3>1 DEF BufInv
    <3>3. Limit \in Nat /\ Limit' = Limit + 1 /\ (taken["remote"] - Len(buf)) + (put + 1) = Limit + 1
      BY <1>1, <2>10, <3>1 DEF Limit
    <3>4. t = Data(Limit + 1) /\ ~IsReply(t) /\ t[2] = Limit + 1
      BY <3>2, <3>3 DEF Data, IsReply
    <3> HIDE DEF t, n
    <3>5. \A i \in 1 .. Len(Down') :
             IsReply(Down'[i]) => Down'[i] = Reply("Client write timeout")
      <4> TAKE i \in 1 .. Len(Down')
      <4>1. i = n + 1 \/ (i \in 1 .. n /\ Down'[i] = Down[i])
        BY <2>1, <2>4
      <4>2. i \in 1 .. n => (IsReply(Down[i]) => Down[i] = Reply("Client write timeout"))
        BY <2>8 DEF Quiet, n
      <4> QED BY <2>4, <3>4, <4>1, <4>2
    <3>6. QuietInv'
      <4>1. Len(Down') \in Nat
        BY <2>1, <2>4
      <4> QED BY <3>5, <4>1, QuietStream
    <3>7. \A i \in 1 .. n : IsData(Down[i]) => Down[i][2] \in 1 .. Limit
      BY <2>6 DEF OrderInv, n
    <3>8. \A i \in 1 .. Len(Down') : IsData(Down'[i]) => Down'[i][2] \in 1 .. Limit'
      BY <2>1, <2>4, <3>3, <3>4, <3>7
    <3>9. \A i, j \in 1 .. Len(Down') :
            i < j /\ IsData(Down'[i]) /\ IsData(Down'[j]) => Down'[i][2] < Down'[j][2]
      <4> TAKE i, j \in 1 .. Len(Down')
      <4> HAVE i < j /\ IsData(Down'[i]) /\ IsData(Down'[j])
      <4>1. i \in 1 .. n /\ Down'[i] = Down[i]
        BY <2>1, <2>4
      <4>2. CASE j = n + 1
        BY <2>4, <3>3, <3>4, <3>7, <4>1, <4>2
      <4>3. CASE j # n + 1
        <5>1. j \in 1 .. n /\ Down'[j] = Down[j]
          BY <2>1, <2>4, <4>3
        <5> QED BY <2>6, <4>1, <5>1 DEF OrderInv, ClientStreamOrdered, Down, n
      <4> QED BY <4>2, <4>3
    <3>10. config.welcome => Len(Down') >= 1 /\ Down'[1] = Welcome
      BY <2>1, <2>4, <2>6, <2>10 DEF OrderInv, Relaying, n
    <3>11. ClientStreamOrdered'
      BY <1>1, <3>9, <3>10 DEF ClientStreamOrdered, Down
    <3>12. OrderInv'
      BY <1>1, <2>10, <3>8, <3>10, <3>11 DEF OrderInv, Early
    <3> QED BY <2>7, <3>6, <3>12 DEF DownInv
  <2>11. CASE pc = "reply"
    <3>1. PICK c \in Causes : /\ buf = << Reply(c) >>
                              /\ after = "free" \/ c = "Client write timeout"
      BY <2>2, <2>6, <2>11 DEF BufInv
    <3>2. t = Reply(c) /\ ~IsData(t)
      <4>1. put = 0
        BY <2>8, <2>11
      <4>2. t = Reply(c)
        <5>1. put + 1 = 1
          BY <4>1
        <5>2. t = buf[1]
          BY <5>1 DEF t
        <5> HIDE DEF t
        <5>3. buf[1] = Reply(c)
          BY <3>1
        <5> QED BY <5>2, <5>3
      <4> QED BY <4>2 DEF Reply, IsData
    <3> HIDE DEF t, n
    <3>3. after = "free" \/ Quiet'
      <4> SUFFICES ASSUME after # "free" PROVE Quiet'
        OBVIOUS
      <4>1. t = Reply("Client write timeout")
        BY <3>1, <3>2
      <4>2. \A i \in 1 .. Len(Down') :
               IsReply(Down'[i]) => Down'[i] = Reply("Client write timeout")
        <5> TAKE i \in 1 .. Len(Down')
        <5>1. i = n + 1 \/ (i \in 1 .. n /\ Down'[i] = Down[i])
          BY <2>1, <2>4
        <5>2. i \in 1 .. n => (IsReply(Down[i]) => Down[i] = Reply("Client write timeout"))
          BY <2>8 DEF Quiet, n
        <5> QED BY <2>4, <4>1, <5>1, <5>2
      <4> QED BY <4>2 DEF Quiet
    <3>4. RepliesEndTheSession'
      <4>1. \A i \in 1 .. n : IsReply(Down'[i]) => Down'[i] = Reply("Client write timeout")
        BY <2>4, <2>8 DEF Quiet, n
      <4>2. (n + 1) - 1 = n
        BY <2>1
      <4> QED BY <2>4, <4>1, <4>2 DEF RepliesEndTheSession, Down
    <3>5. QuietInv'
      BY <1>1, <2>8, <2>11, <3>3, <3>4 DEF QuietInv
    <3>6. Limit' = Limit
      BY <1>1, <2>11 DEF Limit
    <3>7. \A i \in 1 .. Len(Down') : IsData(Down'[i]) => i \in 1 .. n /\ Down'[i] = Down[i]
      BY <2>1, <2>4, <3>2
    <3>8. \A i \in 1 .. Len(Down') : IsData(Down'[i]) => Down'[i][2] \in 1 .. Limit'
      BY <2>6, <3>6, <3>7 DEF OrderInv, n
    <3>9. n >= 1 => Down'[1] = Down[1]
      BY <2>1, <2>4
    <3>10. ClientStreamOrdered'
      <4>1. \A i, j \in 1 .. Len(Down') :
              i < j /\ IsData(Down'[i]) /\ IsData(Down'[j]) => Down'[i][2] < Down'[j][2]
        BY <2>6, <3>7 DEF OrderInv, ClientStreamOrdered, Down, n
      <4>2. config.welcome => \A i \in 1 .. Len(Down') : IsData(Down'[i]) => Down'[1] = Welcome
        BY <2>1, <2>6, <3>7, <3>9 DEF OrderInv, ClientStreamOrdered, Down, n
      <4> QED BY <1>1, <4>1, <4>2 DEF ClientStreamOrdered, Down
    <3>11. config.welcome /\ Relaying' => Len(Down') >= 1 /\ Down'[1] = Welcome
      BY <1>1, <2>1, <2>4, <2>6, <3>9 DEF OrderInv, Relaying, n
    <3>12. OrderInv'
      BY <1>1, <2>11, <3>8, <3>10, <3>11 DEF OrderInv, Early
    <3> QED BY <2>7, <3>5, <3>12 DEF DownInv
  <2> QED BY <2>5, <2>9, <2>10, <2>11
<1> QED BY <1>2, <1>3 DEF WriteTo

-----------------------------------------------------------------------------
LEMMA DownInvariant == Spec => []DownInv
<1>1. Init => DownInv
  <2> SUFFICES ASSUME Init PROVE DownInv
    OBVIOUS
  <2>1. Down = <<>> /\ Len(Down) = 0 /\ pc = "resolve"
    BY DEF Init, Down, Sides
  <2> QED BY <2>1 DEF DownInv, BufInv, QuietInv, OrderInv, Quiet, Relaying,
                      RepliesEndTheSession, ClientStreamOrdered, Down
<1>2. TypeOK /\ DownInv /\ [Next]_vars => DownInv'
  <2> SUFFICES ASSUME TypeOK, DownInv, [Next]_vars PROVE DownInv'
    OBVIOUS
  <2>1. CASE Setup
    BY <2>1, SetupDown
  <2>2. CASE Relay \/ PollFails
    BY <2>2, RelayMovesDown, ReadRemoteDown, ClientWrittenDown DEF Relay
  <2>3. CASE KernelTakes \/ ReplyWritten \/ Free
    BY <2>3, KernelTakesDown, ReplyWrittenDown, FreeDown
  <2>4. CASE Peers
    BY <2>4, PeersDown DEF Peers, PeerSends, PeerReceives, PeerFinishes, PeerResets,
                           thread, TypeOK, Sides
  <2>5. CASE UNCHANGED vars
    BY <2>5, PeersDown DEF vars
  <2> QED BY <2>1, <2>2, <2>3, <2>4, <2>5 DEF Next, Thread
<1> QED BY <1>1, <1>2, TypeCorrect, PTL DEF Spec

(* The client gets the remote host's bytes in order and at most once,      *)
(* behind the welcome line, whatever writes to it fail or fall short       *)
(* (Client_relay, which goes on after both).                               *)
THEOREM ClientStreamIsOrdered == Spec => []ClientStreamOrdered
<1>1. DownInv => ClientStreamOrdered
  BY DEF DownInv, OrderInv
<1> QED BY <1>1, DownInvariant, PTL

(* Nothing follows a 421 reply but the reports of timed out writes, of     *)
(* which there may be many (Client_errorReply and its callers).            *)
THEOREM RepliesAreLast == Spec => []RepliesEndTheSession
<1>1. DownInv => RepliesEndTheSession
  BY DEF DownInv, QuietInv
<1> QED BY <1>1, DownInvariant, PTL

-----------------------------------------------------------------------------
(* What the client gets when no write to it can fail.                      *)

(* No write to the client can fail or fall short.                          *)
Intact == ~config.wtimeout /\ peer["client"] # "rst"
WelcomeLen == Len(Preamble("client"))

(* The remote host will send nothing more.                                 *)
Over == peer["remote"] \in {"fin", "rst"} /\ sent["remote"] = taken["remote"]

(* The thread reads from the remote host only what poll reported, so read  *)
(* finds bytes or the end of the stream.                                   *)
ReadyInv ==
  /\ pc = "read_remote" => Readable("remote")
  /\ pc \in {"read_client", "write_remote"} /\ ready => Readable("remote")

(* How much of the remote host's stream the client was sent.               *)
LengthInv ==
  /\ Relaying /\ pc # "write_client" => Len(Down) = WelcomeLen + taken["remote"]
  /\ pc = "write_client" => Len(Down) = WelcomeLen + ((taken["remote"] - Len(buf)) + put)
  /\ pc \in Early \cup {"write_welcome"} => taken["remote"] = 0
  /\ pc = "write_welcome" => config.welcome

(* The last reply to a session that the remote host ended.                 *)
LastInv ==
  /\ pc = "reply" => after = "free"
  /\ pc = "reply" /\ buf = << Reply("Connection closed") >> =>
       Over /\ (put = 0 => Len(Down) = WelcomeLen + taken["remote"])
  /\ \A i \in 1 .. Len(Down) : Down[i] = Reply("Connection closed") =>
       /\ Over /\ i = WelcomeLen + taken["remote"] + 1
       /\ pc \in {"free", "done"} \/ (pc = "reply" /\ put = 1)

PlaceInv == \A i \in 1 .. Len(Down) : IsData(Down[i]) => Down[i] = Data(i - WelcomeLen)

ExactInv == ReadyInv /\ (Intact => LengthInv /\ LastInv /\ PlaceInv)

-----------------------------------------------------------------------------
(* Lemmas about the data.                                                  *)

LEMMA WelcomeLenValue == WelcomeLen = IF config.welcome THEN 1 ELSE 0
BY DEF WelcomeLen, Preamble

LEMMA Counts ==
  ASSUME TypeOK
  PROVE  /\ taken["remote"] \in Nat /\ sent["remote"] \in Nat /\ WelcomeLen \in Nat
         /\ taken["remote"] <= sent["remote"]
         /\ put \in Nat /\ Len(buf) \in Nat /\ Len(Down) \in Nat
BY ClientAssumption, WelcomeLenValue DEF TypeOK, Sides, Down

LEMMA ZeroIsNotOne == 0 # 1
OBVIOUS

LEMMA ReplyNames ==
  /\ \A c : Reply(c) = Reply("Connection closed") <=> c = "Connection closed"
  /\ \A c, i : Reply(c) # Data(i) /\ Reply(c) # Welcome /\ ~IsData(Reply(c))
  /\ \A i : IsData(Data(i)) /\ ~IsData(Welcome)
BY DEF Reply, Data, Welcome, IsData

(* A reply for a reason other than the end of the remote host's stream.    *)
LEMMA OtherReply ==
  ASSUME NEW c \in Causes \ {"Connection closed"}, ErrorReply(c, "free")
  PROVE  \/ pc' = "free"
         \/ pc' = "reply" /\ after' = "free" /\ buf' # << Reply("Connection closed") >>
<1>1. << Reply(c) >> # << Reply("Connection closed") >>
  BY ReplyNames
<1> QED BY <1>1 DEF ErrorReply, Goto

(* Without a write timeout a write returns only when it has written all,   *)
(* or its peer is gone.                                                    *)
LEMMA WritesWhole ==
  ASSUME Intact, NEW label \in {"write_welcome", "write_client", "reply"}, WriteReturns(label)
  PROVE  put = Len(buf) /\ Outcome = "full"
<1>1. WriteTo(label) = "client"
  BY DEF WriteTo
<1> QED BY <1>1, OutcomeValues DEF WriteReturns, Intact

-----------------------------------------------------------------------------
(* What poll reported stays true until the thread reads.                   *)
LEMMA ReadyStep ==
  ASSUME TypeOK, ReadyInv, [Next]_vars PROVE ReadyInv'
<1> USE DEF ReadyInv, Readable, Unread
<1>1. CASE PollReady
  BY <1>1 DEF PollReady, Goto, net, Sides
<1>2. CASE ReadClient
  <2>1. taken'["remote"] = taken["remote"] /\ UNCHANGED <<ready, sent, peer>>
    BY <1>2 DEF ReadClient, ReadChunk, TypeOK, Sides
  <2>2. pc = "read_client" /\ pc' \in {"write_remote", "free"}
    BY <1>2 DEF ReadClient, ReadChunk, StartWrite, Goto
  <2> QED BY <2>1, <2>2
<1>3. CASE RemoteWritten
  <2>1. pc = "write_remote" /\ UNCHANGED <<ready, sent, taken, peer>>
    BY <1>3 DEF RemoteWritten, WriteReturns, net
  <2>2. pc' \in {"poll", "reply", "free"} \/ (pc' = "read_remote" /\ ready)
    BY <1>3, OutcomeValues DEF RemoteWritten, ErrorReply, Goto
  <2> QED BY <2>1, <2>2
<1>4. CASE KernelTakes
  BY <1>4 DEF KernelTakes
<1>5. CASE Peers
  <2>1. UNCHANGED <<pc, ready, taken>>
    BY <1>5 DEF Peers, PeerSends, PeerReceives, PeerFinishes, PeerResets, thread
  <2>2. Unread("remote") => Unread("remote")'
    BY <1>5, <2>1, Counts DEF Peers, PeerSends, PeerReceives, PeerFinishes, PeerResets,
                              TypeOK, Sides
  <2>3. peer["remote"] \in {"fin", "rst"} => peer'["remote"] \in {"fin", "rst"}
    BY <1>5 DEF Peers, PeerSends, PeerReceives, PeerFinishes, PeerResets, TypeOK, Sides
  <2> QED BY <2>1, <2>2, <2>3
<1>6. CASE UNCHANGED vars
  BY <1>6 DEF vars
<1>7. CASE Setup
  <2>1. pc' \notin {"read_remote", "read_client", "write_remote"}
    BY <1>7 DEF Setup, Resolve, OpenSocket, Connect, SendIdnt, IdentLookup, IdntWritten, SendWelcome,
                WelcomeWritten, ErrorReply, StartWrite, Goto
  <2> QED BY <2>1
<1>8. CASE PollTimeout \/ PollFails \/ ReadRemote \/ ClientWritten \/ ReplyWritten \/ Free
  <2>1. pc' \notin {"read_remote", "read_client", "write_remote"}
    BY <1>8, OutcomeValues DEF PollTimeout, PollFails, ReadRemote, ReadChunk, ClientWritten,
                ReplyWritten, Free, ErrorReply, StartWrite, Goto, TypeOK
  <2> QED BY <2>1
<1> QED BY <1>1, <1>2, <1>3, <1>4, <1>5, <1>6, <1>7, <1>8 DEF Next, Thread, Relay

-----------------------------------------------------------------------------
(* The steps of a session that is intact.                                  *)

IntactInv == LengthInv /\ LastInv /\ PlaceInv

(* The thread goes on, or leaves for another reason than the end of the    *)
(* remote host's stream.                                                   *)
LEMMA GoesOn ==
  ASSUME TypeOK, IntactInv, UNCHANGED <<config, to>>, taken'["remote"] = taken["remote"],
         pc \notin {"reply", "free", "done"}, pc' # "write_client",
         Relaying' => Len(Down) = WelcomeLen + taken["remote"],
         pc' \in Early \cup {"write_welcome"} => pc \in Early,
         pc' = "write_welcome" => config.welcome,
         pc' = "reply" => after' = "free" /\ buf' # << Reply("Connection closed") >>
  PROVE  IntactInv'
<1>1. Down' = Down /\ WelcomeLen' = WelcomeLen
  BY WelcomeLenValue DEF Down, WelcomeLen, Preamble
<1>2. LengthInv'
  BY <1>1 DEF IntactInv, LengthInv
<1>3. \A i \in 1 .. Len(Down) : Down[i] # Reply("Connection closed")
  BY DEF IntactInv, LastInv
<1>4. LastInv'
  BY <1>1, <1>3 DEF LastInv
<1>5. PlaceInv'
  BY <1>1 DEF IntactInv, PlaceInv
<1> QED BY <1>2, <1>4, <1>5 DEF IntactInv

LEMMA SetupExact ==
  ASSUME TypeOK, DownInv, IntactInv, Intact, Setup PROVE IntactInv'
<1> USE DEF Early, Relaying
<1>1. pc \in Early => Len(Down) = 0 /\ taken["remote"] = 0
  BY DEF DownInv, OrderInv, IntactInv, LengthInv
<1>2. CASE Resolve \/ OpenSocket \/ Connect
  <2>1. /\ UNCHANGED <<config, to, taken>> /\ pc \in Early
    BY <1>2 DEF Resolve, OpenSocket, Connect, net
  <2>2. \/ pc' \in {"socket", "connect", "ident"}
        \/ \E c \in Causes \ {"Connection closed"} : ErrorReply(c, "free")
    BY <1>2 DEF Resolve, OpenSocket, Connect, Goto, Causes
  <2>3. \/ pc' \in {"socket", "connect", "ident", "free"}
        \/ pc' = "reply" /\ after' = "free" /\ buf' # << Reply("Connection closed") >>
    BY <2>2, OtherReply
  <2> QED BY <2>1, <2>3, GoesOn
<1>3. CASE SendIdnt \/ IdentLookup \/ IdntWritten
  <2>1. /\ UNCHANGED <<config, to, taken>> /\ pc \in {"ident", "lookup", "write_idnt"}
        /\ pc' \in {"lookup", "welcome", "write_idnt", "free"}
    BY <1>3 DEF SendIdnt, IdentLookup, IdntWritten, WriteReturns, Goto, StartWrite, net
  <2> QED BY <2>1, GoesOn
<1>4. CASE SendWelcome
  <2>1. /\ UNCHANGED <<config, to, taken>> /\ pc = "welcome"
        /\ \/ pc' = "write_welcome" /\ config.welcome
           \/ pc' = "free"
           \/ pc' = "poll" /\ ~config.welcome
    BY <1>4 DEF SendWelcome, Goto, StartWrite, net
  <2>2. pc' = "poll" => Len(Down) = WelcomeLen + taken["remote"]
    <3>1. pc' = "poll" => WelcomeLen = 0
      BY <2>1, WelcomeLenValue
    <3>2. Len(Down) = 0 /\ taken["remote"] = 0
      BY <1>1, <2>1
    <3> QED BY <3>1, <3>2
  <2> QED BY <2>1, <2>2, GoesOn
<1>5. CASE WelcomeWritten
  <2>1. /\ UNCHANGED <<config, to, taken>> /\ pc = "write_welcome" /\ put = Len(buf)
        /\ pc' \in {"poll", "free"}
    BY <1>5, WritesWhole DEF WelcomeWritten, WriteReturns, Goto, net
  <2>2. buf = << Welcome >> /\ Len(buf) = 1
    BY <2>1 DEF DownInv, BufInv
  <2>3. Len(Down) = 1
    BY <2>1, <2>2 DEF DownInv, OrderInv
  <2>4. taken["remote"] = 0 /\ config.welcome
    BY <2>1 DEF IntactInv, LengthInv
  <2>5. WelcomeLen = 1
    BY <2>4, WelcomeLenValue
  <2>6. Len(Down) = WelcomeLen + taken["remote"]
    BY <2>3, <2>4, <2>5
  <2> QED BY <2>1, <2>6, GoesOn
<1> QED BY <1>2, <1>3, <1>4, <1>5 DEF Setup

LEMMA RelayMovesExact ==
  ASSUME TypeOK, IntactInv, PollReady \/ PollTimeout \/ PollFails \/ ReadClient \/ RemoteWritten
  PROVE  IntactInv'
<1> USE DEF Early, Relaying
<1>1. /\ UNCHANGED <<config, to>> /\ taken'["remote"] = taken["remote"]
      /\ pc \in {"poll", "read_client", "write_remote"}
  <2>1. CASE PollReady \/ PollTimeout \/ PollFails
    BY <2>1 DEF PollReady, PollTimeout, PollFails, net
  <2>2. CASE ReadClient
    BY <2>2 DEF ReadClient, ReadChunk, TypeOK, Sides
  <2>3. CASE RemoteWritten
    BY <2>3 DEF RemoteWritten, WriteReturns, net
  <2> QED BY <2>1, <2>2, <2>3
<1>2. Len(Down) = WelcomeLen + taken["remote"]
  BY <1>1 DEF IntactInv, LengthInv
<1>3. \/ pc' \in {"poll", "read_client", "write_remote", "read_remote", "free"}
      \/ \E c \in Causes \ {"Connection closed"} : ErrorReply(c, "free")
  <2>1. CASE PollReady
    BY <2>1 DEF PollReady, Goto
  <2>2. CASE PollTimeout \/ PollFails
    BY <2>2 DEF PollTimeout, PollFails, Causes
  <2>3. CASE ReadClient
    BY <2>3 DEF ReadClient, ReadChunk, StartWrite, Goto
  <2>4. CASE RemoteWritten
    BY <2>4, OutcomeValues DEF RemoteWritten, Goto, Causes
  <2> QED BY <2>1, <2>2, <2>3, <2>4
<1>4. \/ pc' \in {"poll", "read_client", "write_remote", "read_remote", "free"}
      \/ pc' = "reply" /\ after' = "free" /\ buf' # << Reply("Connection closed") >>
  BY <1>3, OtherReply
<1> QED BY <1>1, <1>2, <1>4, GoesOn

(* A chunk, or the end of the remote host's stream: read returns nothing   *)
(* only when the remote host has ended and everything was read.            *)
LEMMA ReadRemoteExact ==
  ASSUME TypeOK, DownInv, ReadyInv, IntactInv, ReadRemote PROVE IntactInv'
<1>1. UNCHANGED <<config, to, sent, peer>> /\ pc = "read_remote"
  BY DEF ReadRemote
<1>2. Down' = Down /\ WelcomeLen' = WelcomeLen
  BY <1>1, WelcomeLenValue DEF Down, WelcomeLen, Preamble
<1>3. /\ Len(Down) = WelcomeLen + taken["remote"]
      /\ \A i \in 1 .. Len(Down) : Down[i] # Reply("Connection closed")
  BY <1>1 DEF IntactInv, LengthInv, LastInv, Relaying
<1>4. PlaceInv'
  BY <1>2 DEF IntactInv, PlaceInv
<1>5. CASE ReadChunk("remote", "write_client")
  <2>1. PICK n \in 1 .. (sent["remote"] - taken["remote"]) : n = Len(Chunk("remote"))
    BY <1>5, ChunkProperties DEF ReadChunk, Sides
  <2>2. /\ buf' = Chunk("remote") /\ put' = 0 /\ pc' = "write_client"
        /\ taken' = [taken EXCEPT !["remote"] = taken["remote"] + n]
    BY <1>5, <2>1 DEF ReadChunk, StartWrite
  <2>3. taken'["remote"] = taken["remote"] + n /\ Len(buf') = n
    BY <2>1, <2>2 DEF TypeOK, Sides
  <2>4. n \in Nat /\ taken["remote"] \in Nat /\ WelcomeLen \in Nat
    BY <2>1, Counts
  <2>5. Len(Down) = WelcomeLen + ((taken'["remote"] - Len(buf')) + put')
    <3>1. taken'["remote"] - Len(buf') = taken["remote"]
      BY <2>3, <2>4
    <3>2. (taken'["remote"] - Len(buf')) + put' = taken["remote"]
      BY <2>2, <2>4, <3>1
    <3> QED BY <1>3, <3>2
  <2>6. LengthInv' /\ LastInv'
    BY <1>2, <1>3, <2>2, <2>5 DEF LengthInv, LastInv, Relaying, Early
  <2> QED BY <1>4, <2>6 DEF IntactInv
<1>6. CASE /\ ~Unread("remote") /\ UNCHANGED taken
           /\ ErrorReply("Connection closed", "free") \/ ErrorReply("read", "free")
  <2>1. Over'
    <3>1. peer["remote"] \in {"fin", "rst"}
      BY <1>1, <1>6 DEF ReadyInv, Readable
    <3>2. sent["remote"] = taken["remote"]
      <4>1. ~(taken["remote"] < sent["remote"])
        BY <1>6 DEF Unread
      <4> QED BY <4>1, Counts
    <3> QED BY <1>1, <1>6, <3>1, <3>2 DEF Over
  <2>2. pc' = "free" \/ (pc' = "reply" /\ after' = "free")
    BY <1>6 DEF ErrorReply, Goto
  <2>3. LengthInv'
    BY <2>2 DEF LengthInv, Relaying, Early
  <2>4. LastInv'
    BY <1>2, <1>3, <1>6, <2>1, <2>2 DEF LastInv
  <2> QED BY <1>4, <2>3, <2>4 DEF IntactInv
<1> QED BY <1>5, <1>6 DEF ReadRemote

LEMMA ClientWrittenExact ==
  ASSUME TypeOK, IntactInv, Intact, ClientWritten PROVE IntactInv'
<1>1. /\ UNCHANGED <<config, to, taken>> /\ pc = "write_client"
      /\ put = Len(buf) /\ Outcome = "full"
  BY WritesWhole DEF ClientWritten, WriteReturns, net
<1>2. pc' = "poll"
  BY <1>1 DEF ClientWritten, Goto
<1>3. Len(Down) = WelcomeLen + ((taken["remote"] - Len(buf)) + put)
  BY <1>1 DEF IntactInv, LengthInv
<1>4. Len(Down) = WelcomeLen + taken["remote"]
  BY <1>1, <1>3, Counts
<1> QED BY <1>1, <1>2, <1>4, GoesOn DEF Early

LEMMA EndsExact ==
  ASSUME TypeOK, IntactInv, ReplyWritten \/ Free PROVE IntactInv'
<1>1. UNCHANGED <<config, to, taken, sent, peer>> /\ pc \in {"reply", "free"} /\ pc' \in {"free", "done"}
  <2>1. CASE ReplyWritten
    BY <2>1 DEF ReplyWritten, WriteReturns, Goto, net, IntactInv, LastInv
  <2>2. CASE Free
    BY <2>2 DEF Free, Goto
  <2> QED BY <2>1, <2>2
<1>2. Down' = Down /\ WelcomeLen' = WelcomeLen /\ Over' = Over
  BY <1>1, WelcomeLenValue DEF Down, WelcomeLen, Preamble, Over
<1>3. LengthInv'
  BY <1>1 DEF LengthInv, Relaying, Early
<1>4. LastInv' /\ PlaceInv'
  BY <1>1, <1>2 DEF IntactInv, LastInv, PlaceInv
<1> QED BY <1>3, <1>4 DEF IntactInv

LEMMA PeersExact ==
  ASSUME TypeOK, IntactInv, Peers PROVE IntactInv'
<1>1. UNCHANGED <<config, pc, buf, put, after, to, taken>>
  BY DEF Peers, PeerSends, PeerReceives, PeerFinishes, PeerResets, thread
<1>2. Down' = Down /\ WelcomeLen' = WelcomeLen
  BY <1>1, WelcomeLenValue DEF Down, WelcomeLen, Preamble
<1>3. Over => Over'
  BY <1>1 DEF Peers, PeerSends, PeerReceives, PeerFinishes, PeerResets, TypeOK, Sides, Over
<1>4. LengthInv'
  BY <1>1, <1>2 DEF IntactInv, LengthInv, Relaying
<1>5. LastInv' /\ PlaceInv'
  BY <1>1, <1>2, <1>3 DEF IntactInv, LastInv, PlaceInv
<1> QED BY <1>4, <1>5 DEF IntactInv

(* The kernel takes a token, of a chunk at its place, of a reply behind    *)
(* everything else.                                                        *)
LEMMA KernelTakesExact ==
  ASSUME TypeOK, DownInv, IntactInv, KernelTakes PROVE IntactInv'
<1>1. /\ UNCHANGED <<config, pc, buf, after, taken, sent, peer>> /\ put' = put + 1
      /\ put < Len(buf)
  BY DEF KernelTakes
<1>2. put \in Nat /\ Len(buf) \in Nat /\ WelcomeLen \in Nat /\ taken["remote"] \in Nat
  BY Counts
<1>3. WelcomeLen' = WelcomeLen /\ Over' = Over
  BY <1>1, WelcomeLenValue DEF WelcomeLen, Preamble, Over
<1>4. CASE WriteTo(pc) = "remote"
  <2>1. Down' = Down /\ pc \in {"write_idnt", "write_remote"}
    BY <1>4 DEF KernelTakes, Down, WriteTo
  <2> QED BY <1>1, <1>3, <2>1 DEF IntactInv, LengthInv, LastInv, PlaceInv, Relaying
<1>5. CASE WriteTo(pc) = "client"
  <2> DEFINE t == buf[put + 1]
             n == Len(Down)
  <2>1. Down \in Seq(Token) /\ n \in Nat
    BY DEF Down, TypeOK, Sides
  <2>2. to' = [to EXCEPT !["client"] = Append(Down, t)]
    BY <1>5 DEF KernelTakes, Down
  <2>3. Down' = Append(Down, t)
    BY <2>2 DEF Down, TypeOK, Sides
  <2>4. Len(Down') = n + 1 /\ Down'[n + 1] = t /\ \A i \in 1 .. n : Down'[i] = Down[i]
    BY <2>1, <2>3
  <2>5. pc \in {"write_welcome", "write_client", "reply"}
    BY <1>5 DEF KernelTakes, Writing, WriteTo
  <2>6. \A i \in 1 .. Len(Down') : i = n + 1 \/ (i \in 1 .. n /\ Down'[i] = Down[i])
    BY <2>1, <2>4
  <2>7. pc = "reply" => put = 0 /\ put' = 1
    <3> SUFFICES ASSUME pc = "reply" PROVE put = 0
      BY <1>1, <1>2
    <3>1. PICK c \in Causes : buf = << Reply(c) >>
      BY DEF DownInv, BufInv
    <3>2. Len(buf) = 1
      BY <3>1
    <3> QED BY <1>1, <1>2, <3>2
  <2>8. \A i \in 1 .. n : Down[i] # Reply("Connection closed")
    <3> SUFFICES ASSUME NEW i \in 1 .. n, Down[i] = Reply("Connection closed") PROVE FALSE
      OBVIOUS
    <3>1. pc \in {"free", "done"} \/ (pc = "reply" /\ put = 1)
      BY DEF IntactInv, LastInv
    <3>2. pc = "reply" /\ put = 1
      BY <2>5, <3>1
    <3>3. put = 0
      BY <2>7, <3>2
    <3> HIDE DEF n, t
    <3> QED BY <3>2, <3>3, ZeroIsNotOne
  <2>9. CASE pc = "write_welcome"
    <3>1. buf = << Welcome >>
      BY <2>9 DEF DownInv, BufInv
    <3>2. Len(buf) = 1
      BY <3>1
    <3>3. put + 1 = 1
      BY <1>1, <1>2, <3>2
    <3>4. t = Welcome
      BY <3>1, <3>3
    <3> HIDE DEF t, n
    <3>5. LengthInv'
      BY <1>1, <2>9 DEF IntactInv, LengthInv, Relaying
    <3>6. LastInv'
      <4>1. \A i \in 1 .. Len(Down') : Down'[i] # Reply("Connection closed")
        BY <2>4, <2>6, <2>8, <3>4, ReplyNames
      <4> QED BY <1>1, <2>9, <4>1 DEF LastInv
    <3>7. PlaceInv'
      BY <1>3, <2>4, <2>6, <3>4, ReplyNames DEF IntactInv, PlaceInv, n
    <3> QED BY <3>5, <3>6, <3>7 DEF IntactInv
  <2>10. CASE pc = "write_client"
    <3> DEFINE k == (taken["remote"] - Len(buf)) + put
    <3>1. put + 1 \in 1 .. Len(buf) /\ Len(buf) <= taken["remote"]
      BY <1>1, <1>2, <2>10 DEF DownInv, BufInv
    <3>2. t = Data((taken["remote"] - Len(buf)) + (put + 1))
      BY <2>10, <3>1 DEF DownInv, BufInv
    <3>3. n = WelcomeLen + k
      BY <2>10 DEF IntactInv, LengthInv
    <3>4. k \in Nat /\ (taken["remote"] - Len(buf)) + (put + 1) = k + 1
      BY <1>2, <3>1
    <3>5. (n + 1) - WelcomeLen = k + 1 /\ n + 1 = WelcomeLen + (k + 1)
      BY <1>2, <3>3, <3>4, SMTT(30)
    <3>6. t = Data((n + 1) - WelcomeLen)
      BY <3>2, <3>4, <3>5
    <3>7. Len(Down') = WelcomeLen + ((taken["remote"] - Len(buf)) + (put + 1))
      BY <2>4, <3>4, <3>5
    <3> HIDE DEF t, n, k
    <3>8. LengthInv'
      BY <1>1, <1>3, <2>10, <3>7 DEF IntactInv, LengthInv, Early
    <3>9. LastInv'
      <4>1. \A i \in 1 .. Len(Down') : Down'[i] # Reply("Connection closed")
        BY <2>4, <2>6, <2>8, <3>6, ReplyNames
      <4> QED BY <1>1, <2>10, <4>1 DEF LastInv
    <3>10. PlaceInv'
      <4> SUFFICES ASSUME NEW i \in 1 .. Len(Down'), IsData(Down'[i])
                   PROVE  Down'[i] = Data(i - WelcomeLen)
        BY <1>3 DEF PlaceInv
      <4>1. CASE i = n + 1
        BY <2>4, <3>6, <4>1
      <4>2. CASE i # n + 1
        BY <2>6, <4>2 DEF IntactInv, PlaceInv, n
      <4> QED BY <4>1, <4>2
    <3> QED BY <3>8, <3>9, <3>10 DEF IntactInv
  <2>11. CASE pc = "reply"
    <3>1. PICK c \in Causes : buf = << Reply(c) >>
      BY <2>11 DEF DownInv, BufInv
    <3>2. put + 1 = 1
      BY <2>7, <2>11
    <3>3. t = buf[1]
      BY <3>2
    <3> HIDE DEF t
    <3>4. t = Reply(c)
      BY <3>1, <3>3
    <3>5. after = "free"
      BY <2>11 DEF IntactInv, LastInv
    <3>6. t = Reply("Connection closed") => Over /\ n = WelcomeLen + taken["remote"]
      BY <2>7, <2>11, <3>1, <3>4, ReplyNames DEF IntactInv, LastInv
    <3> HIDE DEF n
    <3>7. LengthInv'
      BY <1>1, <2>11, <3>5 DEF LengthInv, Relaying, Early
    <3>8. LastInv'
      <4>1. buf = << Reply("Connection closed") >> => t = Reply("Connection closed")
        <5> SUFFICES ASSUME buf = << Reply("Connection closed") >>
                     PROVE  t = Reply("Connection closed")
          OBVIOUS
        <5>1. buf[1] = Reply("Connection closed")
          OBVIOUS
        <5> QED BY <3>3, <5>1
      <4>2. \A i \in 1 .. Len(Down') : Down'[i] = Reply("Connection closed") =>
              Over /\ i = WelcomeLen + taken["remote"] + 1
        BY <2>4, <2>6, <2>8, <3>6
      <4>3. pc' = "reply" /\ after' = "free" /\ put' = 1 /\ buf' = buf
        BY <1>1, <2>7, <2>11, <3>5
      <4>4. buf' = << Reply("Connection closed") >> => Over'
        BY <1>3, <3>6, <4>1, <4>3
      <4>5. \A i \in 1 .. Len(Down') : Down'[i] = Reply("Connection closed") =>
              Over' /\ i = (WelcomeLen + taken["remote"] + 1)'
        BY <1>1, <1>3, <4>2
      <4>6. (pc = "reply" => after = "free")'
        BY <4>3
      <4>7. (pc = "reply" /\ buf = << Reply("Connection closed") >> =>
               Over /\ (put = 0 => Len(Down) = WelcomeLen + taken["remote"]))'
        BY <4>3, <4>4, ZeroIsNotOne
      <4> QED BY <4>3, <4>5, <4>6, <4>7 DEF LastInv
    <3>9. PlaceInv'
      BY <1>3, <2>4, <2>6, <3>4, ReplyNames DEF IntactInv, PlaceInv, n
    <3> QED BY <3>7, <3>8, <3>9 DEF IntactInv
  <2> QED BY <2>5, <2>9, <2>10, <2>11
<1> QED BY <1>4, <1>5 DEF WriteTo

(* A reset is final.                                                       *)
LEMMA ResetIsFinal ==
  ASSUME TypeOK, [Next]_vars, peer["client"] = "rst" PROVE peer'["client"] = "rst"
<1> USE DEF TypeOK, Sides
<1>1. CASE Setup
  BY <1>1 DEF Setup, Resolve, OpenSocket, Connect, SendIdnt, IdentLookup, IdntWritten, SendWelcome,
              WelcomeWritten, net
<1>2. CASE Relay \/ PollFails \/ KernelTakes \/ ReplyWritten \/ Free
  BY <1>2 DEF Relay, PollReady, PollTimeout, PollFails, ReadClient, RemoteWritten, ReadRemote,
              ClientWritten, KernelTakes, ReplyWritten, Free, net
<1>3. CASE Peers
  BY <1>3 DEF Peers, PeerSends, PeerReceives, PeerFinishes, PeerResets
<1> QED BY <1>1, <1>2, <1>3 DEF Next, Thread, vars

-----------------------------------------------------------------------------
LEMMA ExactInvariant == Spec => []ExactInv
<1>1. Init => ExactInv
  <2> SUFFICES ASSUME Init PROVE ExactInv
    OBVIOUS
  <2>1. pc = "resolve" /\ Len(Down) = 0 /\ taken["remote"] = 0
    BY DEF Init, Down, Sides
  <2> QED BY <2>1 DEF ExactInv, ReadyInv, LengthInv, LastInv, PlaceInv, Relaying, Early
<1>2. TypeOK /\ DownInv /\ ExactInv /\ [Next]_vars => ExactInv'
  <2> SUFFICES ASSUME TypeOK, DownInv, ExactInv, [Next]_vars PROVE ExactInv'
    OBVIOUS
  <2>1. ReadyInv'
    BY ReadyStep DEF ExactInv
  <2>2. Intact' => Intact
    <3>1. config' = config
      BY DEF Next, Thread, Setup, Relay, Resolve, OpenSocket, Connect, SendIdnt, IdentLookup, IdntWritten,
             SendWelcome, WelcomeWritten, PollReady, PollTimeout, PollFails, ReadClient,
             RemoteWritten, ReadRemote, ClientWritten, ReplyWritten, KernelTakes, Free, Peers,
             PeerSends, PeerReceives, PeerFinishes, PeerResets, vars
    <3>2. peer["client"] = "rst" => peer'["client"] = "rst"
      BY ResetIsFinal
    <3> QED BY <3>1, <3>2 DEF Intact
  <2>3. ASSUME Intact, IntactInv PROVE IntactInv'
    <3>1. ReadyInv
      BY DEF ExactInv
    <3>2. CASE Setup
      BY <2>3, <3>2, SetupExact
    <3>3. CASE Relay \/ PollFails
      BY <2>3, <3>1, <3>3, RelayMovesExact, ReadRemoteExact, ClientWrittenExact DEF Relay
    <3>4. CASE KernelTakes \/ ReplyWritten \/ Free
      BY <2>3, <3>4, KernelTakesExact, EndsExact
    <3>5. CASE Peers
      BY <2>3, <3>5, PeersExact
    <3>6. CASE UNCHANGED vars
      <4>1. UNCHANGED <<config, pc, buf, put, after, peer, sent, taken, to>>
        BY <3>6 DEF vars
      <4>2. Down' = Down /\ WelcomeLen' = WelcomeLen /\ Over' = Over
        BY <4>1, WelcomeLenValue DEF Down, WelcomeLen, Preamble, Over
      <4> QED BY <2>3, <4>1, <4>2 DEF IntactInv, LengthInv, LastInv, PlaceInv, Relaying
    <3> QED BY <3>2, <3>3, <3>4, <3>5, <3>6 DEF Next, Thread
  <2> QED BY <2>1, <2>2, <2>3 DEF ExactInv, IntactInv
<1> QED BY <1>1, <1>2, TypeCorrect, DownInvariant, PTL DEF Spec

(* When no write to the client can fail or fall short, the client misses   *)
(* nothing of what was read, and "Connection closed" comes after all of it *)
(* (the remote half of Client_relay).                                      *)
THEOREM ClientStreamIsExact == Spec => []ClientStreamExact
<1>1. TypeOK /\ ExactInv => ClientStreamExact
  <2> SUFFICES ASSUME TypeOK, ExactInv, Intact PROVE
        /\ \A i \in 1 .. Len(Down) : IsData(Down[i]) => Down[i] = Data(i - WelcomeLen)
        /\ pc \in {"poll", "read_client"} => Len(Down) = WelcomeLen + taken["remote"]
        /\ \A i \in 1 .. Len(Down) :
             Down[i] = Reply("Connection closed") => i = WelcomeLen + sent["remote"] + 1
    BY DEF ClientStreamExact, Intact, Down, WelcomeLen
  <2> QED BY DEF ExactInv, LengthInv, LastInv, PlaceInv, Over, Relaying
<1> QED BY <1>1, TypeCorrect, ExactInvariant, PTL

=============================================================================
