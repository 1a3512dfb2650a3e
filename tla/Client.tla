------------------------------- MODULE Client -------------------------------
(***************************************************************************)
(* One bounced connection: the detached thread that Client_launch starts   *)
(* for an accepted socket (client.c).  The thread connects to the remote   *)
(* host, sends it the IDNT line, welcomes the client, and then relays      *)
(* bytes both ways with one poll loop and one buffer until either end      *)
(* goes away, a write times out or the session has been idle too long.     *)
(*                                                                         *)
(* The two TCP connections are symmetric, so their state is indexed by the *)
(* peer: "client" (cSock) and "remote" (rSock).  A direction is an         *)
(* immutable stream with read positions.  What a peer sends is just a      *)
(* count, because its i-th byte is the token Data(i); what the thread      *)
(* writes is a sequence of tokens, because the thread also writes lines of *)
(* its own (IDNT, the welcome, 421 replies).                               *)
(***************************************************************************)
EXTENDS Integers, Sequences

CONSTANTS
  Configs,   \* the Config values to consider, see ConfigType
  Users,     \* the user names an ident server may return
  SndBuf,    \* tokens in flight to a peer before a write has to wait
  RcvBuf,    \* capacity of a socket's receive buffer, in bytes
  BufSiz,    \* BUFSIZ, the size of Client_relay's buffer
  IntMod,    \* 2^w, w the width of an int
  Second,    \* the milliseconds of a second
  MaxBytes   \* bound on the bytes each peer sends

(* The fields of Config the thread reads: idnt, identTimeout (> 0),        *)
(* welcome (welcomeMsg is set), idleTimeout and wtimeout (writeTimeout     *)
(* > 0).                                                                   *)
ConfigType == [idnt: BOOLEAN, identTimeout: BOOLEAN, welcome: BOOLEAN,
               idleTimeout: Nat, wtimeout: BOOLEAN]

ASSUME ClientAssumption ==
  /\ Configs \subseteq ConfigType
  /\ SndBuf \in Nat \ {0}
  /\ RcvBuf \in Nat \ {0}
  /\ BufSiz \in Nat \ {0}
  /\ IntMod \in Nat \ {0} /\ Second \in Nat \ {0}
  /\ MaxBytes \in Nat

Sides == {"client", "remote"}

(* Tokens.  The IDNT line has two, so that a write can cut it short.       *)
Data(i) == <<"data", i>>
IdntLine(u) == << <<"IDNT", u>>, <<"IDNT", "eol">> >>
Welcome == <<"220", "welcome">>
Reply(cause) == <<"421", cause>>

IsData(t) == t[1] = "data"
IsReply(t) == t[1] = "421"

Causes == {"hostPortToSockaddr", "socket", "bind", "connect", "Idle timeout",
           "poll", "Server write timeout", "Client write timeout", "write",
           "Short write", "Connection closed", "read"}

Lookups == Users \cup {"*"}     \* "*" when the ident lookup fails

Token == {Data(i) : i \in 1 .. MaxBytes} \cup {Reply(c) : c \in Causes}
           \cup {IdntLine(u)[i] : u \in Lookups, i \in 1 .. 2} \cup {Welcome}

VARIABLES
  config,   \* client->config, fixed when the thread starts
  pc,       \* what the thread is doing
  buf,      \* what the write in progress was given, <<>> if there is none
  put,      \* how many tokens of buf the kernel has taken
  after,    \* where the thread goes once a 421 reply is written
  ready,    \* fds[1].revents & POLLIN, as the last poll left it
  user,     \* the user of the IDNT line
  sock,     \* the thread's two sockets
  peer,     \* what is known of the other end of each connection
  sent,     \* bytes from the peer that reached the socket's receive buffer
  taken,    \* of these, how many read() has returned
  to,       \* everything written to the peer and taken by the kernel
  got       \* how many tokens of to the peer has received

vars == <<config, pc, buf, put, after, ready, user, sock, peer, sent, taken, to, got>>
thread == <<pc, buf, put, after, ready, user>>
net == <<sock, peer, sent, taken, to, got>>

-----------------------------------------------------------------------------
(* Client_new and Client_launch: cSock is the accepted socket, rSock is -1. *)
Init ==
  /\ config \in Configs
  /\ pc = "resolve"
  /\ buf = <<>> /\ put = 0 /\ after = "free" /\ ready = FALSE /\ user = "*"
  /\ sock = [s \in Sides |-> IF s = "client" THEN "open" ELSE "none"]
  /\ peer = [s \in Sides |-> IF s = "client" THEN "open" ELSE "none"]
  /\ sent = [s \in Sides |-> 0]
  /\ taken = [s \in Sides |-> 0]
  /\ to = [s \in Sides |-> <<>>]
  /\ got = [s \in Sides |-> 0]

-----------------------------------------------------------------------------
(* Control of the thread.                                                  *)

Goto(label) ==
  /\ pc' = label
  /\ buf' = <<>> /\ put' = 0
  /\ UNCHANGED after

StartWrite(label, tokens) ==
  /\ pc' = label
  /\ buf' = tokens /\ put' = 0
  /\ UNCHANGED after

(* Client_errorReply and Client_errnoReply: without memory for the text    *)
(* nothing is written; otherwise a write to the client whose result is     *)
(* ignored.                                                                *)
ErrorReply(cause, next) ==
  \/ Goto(next)
  \/ /\ pc' = "reply"
     /\ buf' = << Reply(cause) >> /\ put' = 0
     /\ after' = next

-----------------------------------------------------------------------------
(* Blocking write(2) on a stream socket, one token at a time.  It returns  *)
(* when everything is taken, when the send timeout expires with the buffer *)
(* full, or when the connection was reset.  (SIGPIPE is ignored, so a      *)
(* write to a reset connection is an error return.)                        *)

WriteTo(label) == IF label \in {"write_idnt", "write_remote"} THEN "remote" ELSE "client"
Writing == pc \in {"write_idnt", "write_welcome", "write_remote", "write_client", "reply"}
Room(s) == Len(to[s]) - got[s] < SndBuf

KernelTakes ==
  LET s == WriteTo(pc) IN
  /\ Writing
  /\ put < Len(buf)
  /\ peer[s] # "rst" /\ Room(s)
  /\ to' = [to EXCEPT ![s] = Append(@, buf[put + 1])]
  /\ put' = put + 1
  /\ UNCHANGED <<config, pc, buf, after, ready, user, sock, peer, sent, taken, got>>

WriteReturns(label) ==
  LET s == WriteTo(label) IN
  /\ pc = label
  /\ \/ put = Len(buf)
     \/ peer[s] = "rst"
     \/ config.wtimeout /\ ~Room(s)

(* The value of write: the length asked for, a short count, or -1 with     *)
(* EAGAIN (timed out before anything was taken) or another error.          *)
Outcome == CASE put = Len(buf) -> "full"
             [] put # Len(buf) /\ put > 0 -> "short"
             [] put # Len(buf) /\ put = 0 /\ peer[WriteTo(pc)] = "rst" -> "error"
             [] OTHER -> "again"

-----------------------------------------------------------------------------
(* Client_connect: three calls that block or fail.  The cause "bind" also  *)
(* stands for "invalid localip"; neither needs the bytes of the address.   *)

Resolve ==
  /\ pc = "resolve"
  /\ \/ Goto("socket")
     \/ ErrorReply("hostPortToSockaddr", "free")
  /\ UNCHANGED <<config, ready, user, net>>

OpenSocket ==
  /\ pc = "socket"
  /\ \/ /\ ErrorReply("socket", "free")
        /\ UNCHANGED sock
     \/ /\ sock' = [sock EXCEPT !["remote"] = "open"]
        /\ Goto("connect") \/ ErrorReply("bind", "free")
  /\ UNCHANGED <<config, ready, user, peer, sent, taken, to, got>>

Connect ==
  /\ pc = "connect"
  /\ \/ /\ Goto("ident")
        /\ peer' = [peer EXCEPT !["remote"] = "open"]
     \/ /\ ErrorReply("connect", "free")
        /\ UNCHANGED peer
  /\ UNCHANGED <<config, ready, user, sock, sent, taken, to, got>>

(* Client_sendIdnt up to the lookup; getsockname may fail, which ends the  *)
(* session without a reply.                                                *)
SendIdnt ==
  /\ pc = "ident"
  /\ \/ ~config.idnt /\ Goto("welcome")
     \/ config.idnt /\ Goto("free")
     \/ config.idnt /\ Goto("lookup")
  /\ UNCHANGED <<config, ready, user, net>>

(* The return of identLookup, which is module Ident, and the rest up to    *)
(* the write.  The lookup either names the user or fails ("*"); a failing  *)
(* system call or allocation after it ends the session without a reply.    *)
IdentLookup ==
  /\ pc = "lookup"
  /\ \/ /\ Goto("free")
        /\ UNCHANGED user
     \/ /\ user' \in Lookups
        /\ StartWrite("write_idnt", IdntLine(user'))
  /\ UNCHANGED <<config, ready, net>>

(* Without an ident timeout nothing makes an ident server answer, and the  *)
(* thread may stay in the fscanf of identLookup for ever.                  *)
WaitsForIdent == pc = "lookup" /\ ~config.identTimeout

(* Mutant: the result of the IDNT write is ignored.                        *)
IdntWrittenUnchecked ==
  /\ WriteReturns("write_idnt")
  /\ Goto("welcome")
  /\ UNCHANGED <<config, ready, user, net>>

IdntWritten ==
  /\ WriteReturns("write_idnt")
  /\ Goto(IF Outcome = "full" THEN "welcome" ELSE "free")
  /\ UNCHANGED <<config, ready, user, net>>

(* Client_welcome.                                                         *)
SendWelcome ==
  /\ pc = "welcome"
  /\ \/ ~config.welcome /\ Goto("poll")
     \/ config.welcome /\ Goto("free")
     \/ config.welcome /\ StartWrite("write_welcome", << Welcome >>)
  /\ UNCHANGED <<config, ready, user, net>>

WelcomeWritten ==
  /\ WriteReturns("write_welcome")
  /\ Goto(IF Outcome = "full" THEN "poll" ELSE "free")
  /\ UNCHANGED <<config, ready, user, net>>

-----------------------------------------------------------------------------
(* Client_relay.                                                           *)

IntMax == IntMod \div 2 - 1

(* The number of seconds in an int, in milliseconds: the product wraps     *)
(* round.  poll waits for ever if it is negative.                          *)
AsInt(n) == ((n + IntMod \div 2) % IntMod) - IntMod \div 2
Timeout == IF config.idleTimeout = 0 THEN -1 ELSE AsInt(config.idleTimeout * Second)

Unread(s) == taken[s] < sent[s]
Readable(s) == Unread(s) \/ peer[s] \in {"fin", "rst"}

(* Mutant: the client's socket is missing from the poll set.               *)
PollReadyOneSided ==
  /\ pc = "poll"
  /\ Readable("remote")
  /\ ready' = TRUE
  /\ Goto("read_remote")
  /\ UNCHANGED <<config, user, net>>

PollReady ==
  /\ pc = "poll"
  /\ \E s \in Sides : Readable(s)
  /\ ready' = Readable("remote")
  /\ Goto(IF Readable("client") THEN "read_client" ELSE "read_remote")
  /\ UNCHANGED <<config, user, net>>

(* Mutants: the loop goes on after the idle reply; the test of idleTimeout *)
(* is inverted.                                                            *)
PollTimeoutGoesOn ==
  /\ pc = "poll"
  /\ Timeout >= 0
  /\ \A s \in Sides : ~Readable(s)
  /\ ErrorReply("Idle timeout", "poll")
  /\ UNCHANGED <<config, ready, user, net>>

PollTimeoutInverted ==
  /\ pc = "poll"
  /\ Timeout < 0
  /\ \A s \in Sides : ~Readable(s)
  /\ ErrorReply("Idle timeout", "free")
  /\ UNCHANGED <<config, ready, user, net>>

PollTimeout ==
  /\ pc = "poll"
  /\ Timeout >= 0
  /\ \A s \in Sides : ~Readable(s)
  /\ ErrorReply("Idle timeout", "free")
  /\ UNCHANGED <<config, ready, user, net>>

PollFails ==
  /\ pc = "poll"
  /\ ErrorReply("poll", "free")
  /\ UNCHANGED <<config, ready, user, net>>

(* The bytes one read(2) returns.                                          *)
Chunk(s) == LET avail == sent[s] - taken[s]
                n == IF avail < BufSiz THEN avail ELSE BufSiz
            IN  [i \in 1 .. n |-> Data(taken[s] + i)]

(* Mutant: the whole buffer is accounted for, not what read returned.      *)
ReadChunkWholeBuffer(s, label) ==
  /\ Unread(s)
  /\ StartWrite(label, Chunk(s))
  /\ taken' = [taken EXCEPT ![s] = @ + BufSiz]

ReadChunk(s, label) ==
  /\ Unread(s)
  /\ StartWrite(label, Chunk(s))
  /\ taken' = [taken EXCEPT ![s] = @ + Len(Chunk(s))]

(* Mutants: the hang-up is looked at before the data; the end of the       *)
(* client's stream is not an error (len < 0).                              *)
ReadClientHangupFirst ==
  /\ pc = "read_client"
  /\ \/ ReadChunk("client", "write_remote")
     \/ /\ peer["client"] \in {"fin", "rst"}
        /\ Goto("free")
        /\ UNCHANGED taken
  /\ UNCHANGED <<config, ready, user, sock, peer, sent, to, got>>

ReadClientIgnoresEnd ==
  /\ pc = "read_client"
  /\ \/ ReadChunk("client", "write_remote")
     \/ /\ ~Unread("client")
        /\ Goto(IF peer["client"] = "rst" THEN "free" ELSE "poll")
        /\ UNCHANGED taken
  /\ UNCHANGED <<config, ready, user, sock, peer, sent, to, got>>

ReadClient ==
  /\ pc = "read_client"
  /\ \/ ReadChunk("client", "write_remote")
     \/ /\ ~Unread("client")
        /\ Goto("free")
        /\ UNCHANGED taken
  /\ UNCHANGED <<config, ready, user, sock, peer, sent, to, got>>

(* Mutants: the loop goes on after a short write; after a write timeout.   *)
RemoteWrittenShortGoesOn ==
  /\ WriteReturns("write_remote")
  /\ CASE Outcome \in {"full", "short"} -> Goto(IF ready THEN "read_remote" ELSE "poll")
       [] Outcome = "again" -> ErrorReply("Server write timeout", "free")
       [] Outcome = "error" -> ErrorReply("write", "free")
  /\ UNCHANGED <<config, ready, user, net>>

RemoteWrittenTimeoutGoesOn ==
  /\ WriteReturns("write_remote")
  /\ CASE Outcome = "full"  -> Goto(IF ready THEN "read_remote" ELSE "poll")
       [] Outcome = "short" -> ErrorReply("Short write", "free")
       [] Outcome = "again" -> ErrorReply("Server write timeout", "poll")
       [] Outcome = "error" -> ErrorReply("write", "free")
  /\ UNCHANGED <<config, ready, user, net>>

RemoteWritten ==
  /\ WriteReturns("write_remote")
  /\ CASE Outcome = "full"  -> Goto(IF ready THEN "read_remote" ELSE "poll")
       [] Outcome = "short" -> ErrorReply("Short write", "free")
       [] Outcome = "again" -> ErrorReply("Server write timeout", "free")
       [] Outcome = "error" -> ErrorReply("write", "free")
  /\ UNCHANGED <<config, ready, user, net>>

(* Mutant: the remote's hang-up is looked at before its data.              *)
ReadRemoteHangupFirst ==
  /\ pc = "read_remote"
  /\ \/ ReadChunk("remote", "write_client")
     \/ /\ peer["remote"] \in {"fin", "rst"}
        /\ ErrorReply("Connection closed", "free")
        /\ UNCHANGED taken
  /\ UNCHANGED <<config, ready, user, sock, peer, sent, to, got>>

(* At the end of the remote's stream read returns 0, or -1 after a reset   *)
(* (0 again if an earlier write already reported the reset).               *)
ReadRemote ==
  /\ pc = "read_remote"
  /\ \/ ReadChunk("remote", "write_client")
     \/ /\ ~Unread("remote")
        /\ \/ ErrorReply("Connection closed", "free")
           \/ peer["remote"] = "rst" /\ ErrorReply("read", "free")
        /\ UNCHANGED taken
  /\ UNCHANGED <<config, ready, user, sock, peer, sent, to, got>>

(* Mutant: a write to the client that fell short is repeated from the      *)
(* start of the buffer.                                                    *)
ClientWrittenRepeats ==
  /\ WriteReturns("write_client")
  /\ CASE Outcome = "full"  -> Goto("poll")
       [] Outcome = "short" -> StartWrite("write_client", buf)
       [] Outcome = "again" -> ErrorReply("Client write timeout", "poll")
       [] Outcome = "error" -> ErrorReply("write", "poll")
  /\ UNCHANGED <<config, ready, user, net>>

(* A write to the client that fails is reported, but neither that nor a    *)
(* short count leaves the loop.                                            *)
ClientWritten ==
  /\ WriteReturns("write_client")
  /\ CASE Outcome \in {"full", "short"} -> Goto("poll")
       [] Outcome = "again" -> ErrorReply("Client write timeout", "poll")
       [] Outcome = "error" -> ErrorReply("write", "poll")
  /\ UNCHANGED <<config, ready, user, net>>

ReplyWritten ==
  /\ WriteReturns("reply")
  /\ Goto(after)
  /\ UNCHANGED <<config, ready, user, net>>

(* Client_free.  Closing a socket with unread input makes TCP abort the    *)
(* connection instead of finishing it, and what the peer has not received  *)
(* yet is gone.                                                            *)
Free ==
  /\ pc = "free"
  /\ Goto("done")
  /\ sock' = [s \in Sides |-> CASE sock[s] = "none" -> "none"
                                [] sock[s] # "none" /\ Unread(s) -> "aborted"
                                [] OTHER -> "closed"]
  /\ UNCHANGED <<config, ready, user, peer, sent, taken, to, got>>

-----------------------------------------------------------------------------
(* The peers.                                                              *)

PeerSends(s) ==
  /\ sock[s] = "open" /\ peer[s] = "open"
  /\ sent[s] < MaxBytes
  /\ sent[s] - taken[s] < RcvBuf
  /\ sent' = [sent EXCEPT ![s] = @ + 1]
  /\ UNCHANGED <<config, thread, sock, peer, taken, to, got>>

PeerReceives(s) ==
  /\ sock[s] # "aborted" /\ peer[s] \in {"open", "fin"}
  /\ got[s] < Len(to[s])
  /\ got' = [got EXCEPT ![s] = @ + 1]
  /\ UNCHANGED <<config, thread, sock, peer, sent, taken, to>>

PeerFinishes(s) ==
  /\ sock[s] = "open" /\ peer[s] = "open"
  /\ peer' = [peer EXCEPT ![s] = "fin"]
  /\ UNCHANGED <<config, thread, sock, sent, taken, to, got>>

PeerResets(s) ==
  /\ sock[s] = "open" /\ peer[s] \in {"open", "fin"}
  /\ peer' = [peer EXCEPT ![s] = "rst"]
  /\ UNCHANGED <<config, thread, sock, sent, taken, to, got>>

Peers == \E s \in Sides : \/ PeerSends(s) \/ PeerReceives(s)
                          \/ PeerFinishes(s) \/ PeerResets(s)

-----------------------------------------------------------------------------
Setup == Resolve \/ OpenSocket \/ Connect \/ SendIdnt \/ IdentLookup
           \/ IdntWritten \/ SendWelcome \/ WelcomeWritten
Relay == PollReady \/ PollTimeout \/ ReadClient \/ RemoteWritten
           \/ ReadRemote \/ ClientWritten

(* Everything the thread does but fail in poll, which nothing obliges it   *)
(* to do.                                                                  *)
Thread == Setup \/ Relay \/ KernelTakes \/ ReplyWritten \/ Free

Next == Thread \/ PollFails \/ Peers

Spec == Init /\ [][Next]_vars

-----------------------------------------------------------------------------
(* Properties.                                                             *)

PcLabels == {"resolve", "socket", "connect", "ident", "lookup", "write_idnt",
             "welcome", "write_welcome", "poll", "read_client", "write_remote",
             "read_remote", "write_client", "reply", "free", "done"}

(* The types of the variables of a session.                                *)
TypeOK ==
  /\ config \in Configs
  /\ pc \in PcLabels
  /\ buf \in Seq(Token) /\ put \in 0 .. Len(buf)
  /\ after \in {"free", "poll"} /\ ready \in BOOLEAN /\ user \in Lookups
  /\ sock \in [Sides -> {"none", "open", "closed", "aborted"}]
  /\ peer \in [Sides -> {"none", "open", "fin", "rst"}]
  /\ sent \in [Sides -> 0 .. MaxBytes]
  /\ taken \in [Sides -> 0 .. MaxBytes]
  /\ to \in [Sides -> Seq(Token)]
  /\ got \in [Sides -> Nat]
  /\ \A s \in Sides : taken[s] <= sent[s] /\ got[s] <= Len(to[s])

Preamble(s) == CASE s = "remote" /\ config.idnt    -> IdntLine(user)
             [] s = "client" /\ config.welcome -> << Welcome >>
             [] OTHER -> <<>>

Forwarded(s) == SelectSeq(to[s], IsData)

(* The thread is in the loop of Client_relay and has not decided to leave. *)
Relaying ==
  \/ pc \in {"poll", "read_client", "write_remote", "read_remote", "write_client"}
  \/ pc = "reply" /\ after = "poll"

(* What the remote host is sent is the IDNT line when the configuration    *)
(* asks for it, then the client's bytes, each once and in order, and       *)
(* nothing else: no reply of the bouncer, no byte ahead of the IDNT line,  *)
(* no gap after a short, failed or timed out write (Client_sendIdnt, and   *)
(* the client half of Client_relay, which leaves on any partial write).    *)
RemoteStreamExact ==
  \A i \in 1 .. Len(to["remote"]) :
    to["remote"][i] = IF i <= Len(Preamble("remote")) THEN Preamble("remote")[i]
                      ELSE Data(i - Len(Preamble("remote")))

(* As long as the loop runs, whatever read() took from the client is on    *)
(* its way to the remote host: when the thread polls, reads from the       *)
(* remote or writes to the client it holds no byte of the client's.        *)
NothingHeldBack ==
  Relaying /\ pc # "write_remote"
    => Len(to["remote"]) = Len(Preamble("remote")) + taken["client"]

(* The bytes of the remote host that do reach the client are in order and  *)
(* come at most once, behind the welcome line, whatever writes failed.     *)
ClientStreamOrdered ==
  LET T == to["client"] IN
  /\ \A i, j \in 1 .. Len(T) : i < j /\ IsData(T[i]) /\ IsData(T[j]) => T[i][2] < T[j][2]
  /\ config.welcome => \A i \in 1 .. Len(T) : IsData(T[i]) => T[1] = Welcome

(* Without a write timeout, and until the client resets its connection, no *)
(* write to the client can fail or fall short, and then the client misses  *)
(* nothing: the bytes it was sent have no gap, the poll loop holds none    *)
(* back, and "Connection closed" comes after the remote's last byte.       *)
ClientStreamExact ==
  LET T == to["client"]
      h == Len(Preamble("client"))
  IN  ~config.wtimeout /\ peer["client"] # "rst" =>
        /\ \A i \in 1 .. Len(T) : IsData(T[i]) => T[i] = Data(i - h)
        /\ pc \in {"poll", "read_client"} => Len(T) = h + taken["remote"]
        /\ \A i \in 1 .. Len(T) :
             T[i] = Reply("Connection closed") => i = h + sent["remote"] + 1

(* A 421 reply announces the end of the session: it is the last thing the  *)
(* client is sent, except for the report that a write to the client timed  *)
(* out (Client_relay stays in the loop there).                             *)
RepliesEndTheSession ==
  \A i \in 1 .. Len(to["client"]) - 1 :
    IsReply(to["client"][i]) => to["client"][i] = Reply("Client write timeout")

(* The port bouncer of README:1 passes on what the remote host sends: the  *)
(* bytes the client is sent have no gap.                                   *)
BouncesEveryByte ==
  \A i \in 1 .. Len(Forwarded("client")) : Forwarded("client")[i] = Data(i)

(* When the loop is left because the client finished, everything the       *)
(* client sent has been written to the remote host: the buffer and the     *)
(* poll snapshot never make the thread see the end before the data.        *)
OrderlyEnd ==
  [][ pc = "read_client" /\ pc' = "free"
        => Len(to["remote"]) = Len(Preamble("remote")) + sent["client"] ]_vars

-----------------------------------------------------------------------------
(* The thread runs when it can, but for the wait for an ident server that  *)
(* no timeout ends.  (With an ident timeout each read has its own; that an *)
(* ident server does not send for ever, a byte at a time, is assumed here: *)
(* see Ident!LookupEnds.)  Nothing is assumed of the peers.  A poll that   *)
(* fails ends the session at once; nothing obliges it to, and it is left   *)
(* out here.                                                               *)
FairSpec == Init /\ [][Thread \/ Peers]_vars /\ WF_vars(Thread /\ ~WaitsForIdent)

(* The lookup of the user has a timeout, or there is none.                 *)
LookupReturns == config.idnt => config.identTimeout

(* With a write timeout, and an ident timeout where there is a lookup, a   *)
(* session whose client is gone ends, whatever the remote host does: no    *)
(* wait of the setup and no write blocks for ever, and the loop comes back *)
(* to reading the client.                                                  *)
ClientGoneEndsSession ==
  config.wtimeout /\ LookupReturns /\ peer["client"] \in {"fin", "rst"} ~> pc = "done"

(* With all three timeouts every session ends once the peers have nothing  *)
(* left to send (MaxBytes bounds what they send).  The largest idle        *)
(* timeout that does strike is that whose milliseconds still fit in an     *)
(* int.                                                                    *)
IdleSessionEnds ==
  config.idleTimeout \in 1 .. IntMax \div Second /\ config.wtimeout /\ LookupReturns
    ~> pc = "done"

(* Both peers go on reading what they are sent.                            *)
PeersRead == \A s \in Sides : WF_vars(PeerReceives(s))

(* Without a write timeout ("0 to disable", ebbnc.conf:22), one thread     *)
(* that blocks in write for one side while it serves both is not a         *)
(* deadlock as long as both peers go on reading: what a client sends to an *)
(* established session reaches the remote host, unless the remote goes     *)
(* away, the client resets, the idle timeout strikes first, or Client_free *)
(* aborts the remote's connection because input of its was left unread.    *)
RelayIsNotStuck ==
  PeersRead => \A n \in 1 .. MaxBytes :
    ~config.wtimeout /\ Relaying /\ sent["client"] >= n ~>
      \/ got["remote"] >= Len(Preamble("remote")) + n
      \/ peer["remote"] \in {"fin", "rst"} \/ sock["remote"] = "aborted"
      \/ peer["client"] = "rst"
      \/ config.idleTimeout # 0 /\ pc = "done"

-----------------------------------------------------------------------------
(* The direction towards the remote host implements Stream.                *)
ToRemote == INSTANCE Stream WITH
  Preambles <- {<<>>} \cup {IdntLine(u) : u \in Lookups},
  Item <- [i \in Nat |-> Data(i)],
  preamble <- Preamble("remote"),
  arrived <- sent["client"],
  out <- to["remote"],
  up <- sock["client"] = "open"

(* Every step of a session is, for the remote host, a step of Stream.      *)
ImplementsStream == ToRemote!StreamSpec

=============================================================================
