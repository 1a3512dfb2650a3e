------------------------------- MODULE Ident -------------------------------
(***************************************************************************)
(* identLookup: one question to the ident server of the client's host      *)
(* about one connection.  The session's thread waits meanwhile, and the    *)
(* server is not under anybody's control: it may be absent, slow or        *)
(* silent, answer in pieces or for another connection, or keep the         *)
(* connection open when it has answered.                                   *)
(*                                                                         *)
(* An answer is a sequence of tokens, one for each field scanf is asked    *)
(* for (with the punctuation around it), but one for each character of the *)
(* name, and "eol" for white space, which scanf skips in front of any      *)
(* field.  The other fields are whole: when one of them is cut, scanf does *)
(* not get as far as the name.                                             *)
(***************************************************************************)
EXTENDS Integers, Sequences, FiniteSets

CONSTANTS
  Answers,   \* what an ident server may have to say, in full
  Letters,   \* the characters of names
  MaxName,   \* the longest name scanf takes (255, in "%255s")
  Ports,     \* port numbers, as the ints that %i stores
  Remote,    \* the client's port of the connection asked about
  Local,     \* the bouncer's port of it
  Timeouts   \* the values of identTimeout > 0 to consider

Failed == << "*" >>
Names == UNION {[1 .. n -> Letters] : n \in 1 .. MaxName}

Token == {<<"system">>, <<"eol">>} \cup ({"port"} \X Ports)
           \cup ({"word"} \X {"USERID", "ERROR"}) \cup ({"letter"} \X Letters)

ASSUME IdentAssumption ==
  /\ Answers \subseteq Seq(Token)
  /\ "*" \notin Letters
  /\ MaxName \in Nat \ {0}
  /\ {Remote, Local} \subseteq Ports
  /\ Timeouts \subseteq BOOLEAN

VARIABLES
  timeout,  \* identTimeout > 0: a connect, write or read may time out
  pc,       \* the call identLookup is in
  sock,     \* identSock: "none", "open" or "closed"
  server,   \* the other end: "none", "open" or "ended" (closed or reset)
  answer,   \* what this server has to say
  arrived,  \* how many tokens of it have arrived
  read,     \* how many of these scanf has taken
  fields,   \* the tokens scanf has matched: four fields, and the name
  user      \* the name for the IDNT line

vars == <<timeout, pc, sock, server, answer, arrived, read, fields, user>>

Init ==
  /\ timeout \in Timeouts
  /\ pc = "socket" /\ sock = "none" /\ server = "none"
  /\ answer \in Answers /\ arrived = 0 /\ read = 0 /\ fields = <<>>
  /\ user = Failed

-----------------------------------------------------------------------------
(* The question.  Every failure closes what is open.                       *)

Close(how) == pc' = "done" /\ sock' = how /\ UNCHANGED server

(* getpeername, getsockname, the switch on the address family, socket.     *)
Socket ==
  /\ pc = "socket"
  /\ \/ pc' = "connect" /\ sock' = "open" /\ UNCHANGED server
     \/ Close("none")
  /\ UNCHANGED <<timeout, answer, arrived, read, fields, user>>

(* Mutant: connect fails, and the socket is forgotten.                     *)
ConnectLeaks ==
  /\ pc = "connect"
  /\ \/ pc' = "ask" /\ server' = "open" /\ UNCHANGED sock
     \/ Close("open")
  /\ UNCHANGED <<timeout, answer, arrived, read, fields, user>>

Connect ==
  /\ pc = "connect"
  /\ \/ pc' = "ask" /\ server' = "open" /\ UNCHANGED sock
     \/ Close("closed")
  /\ UNCHANGED <<timeout, answer, arrived, read, fields, user>>

(* fdopen and fprintf; the question is still in the stream's buffer.       *)
Ask ==
  /\ pc = "ask"
  /\ \/ pc' = "send" /\ UNCHANGED <<sock, server>>
     \/ Close("closed")
  /\ UNCHANGED <<timeout, answer, arrived, read, fields, user>>

(* scanf turns the stream round and sends the question first.              *)
Send ==
  /\ pc = "send"
  /\ \/ pc' = "read" /\ UNCHANGED <<sock, server>>
     \/ (server = "ended" \/ timeout) /\ Close("closed")
  /\ UNCHANGED <<timeout, answer, arrived, read, fields, user>>

-----------------------------------------------------------------------------
(* The answer.                                                             *)

Blank(t) == t = <<"eol">>

(* Mutant: "%s" in place of "%255s".                                       *)
TakesAnyLength(k, t) ==
  \/ k \in {1, 2} /\ t[1] = "port"
  \/ k = 3 /\ t = <<"word", "USERID">>
  \/ k = 4 /\ t = <<"system">>
  \/ k > 4 /\ t[1] = "letter"

(* The k-th place of scanf's format, white space aside, takes t.           *)
Takes(k, t) ==
  \/ k \in {1, 2} /\ t[1] = "port"
  \/ k = 3 /\ t = <<"word", "USERID">>
  \/ k = 4 /\ t = <<"system">>
  \/ k \in 5 .. 4 + MaxName /\ t[1] = "letter"

Spelling(f) == [n \in 1 .. Len(f) - 4 |-> f[4 + n][2]]

(* Mutant: the bouncer's own port is not compared.                         *)
VerdictRemoteOnly(f) ==
  IF Len(f) > 4 /\ f[1][2] = Remote THEN Spelling(f) ELSE Failed

(* identLookup's result and what Client_sendIdnt makes of it.  That the    *)
(* name is whole, or the line ended, is not looked at.                     *)
Verdict(f) ==
  IF Len(f) > 4 /\ f[2][2] = Local /\ f[1][2] = Remote THEN Spelling(f) ELSE Failed

Next1 == answer[read + 1]

(* White space ends a name.                                                *)
Wanted ==
  \/ Blank(Next1)
  \/ /\ Takes(Len(fields) + 1, Next1)
     /\ Len(fields) > 4 => ~Blank(answer[read])

(* scanf goes on, also through the white space behind the last field.      *)
ReadToken ==
  /\ pc = "read" /\ read < arrived /\ Wanted
  /\ read' = read + 1
  /\ fields' = IF Blank(Next1) THEN fields ELSE Append(fields, Next1)
  /\ UNCHANGED <<timeout, pc, sock, server, answer, arrived, user>>

(* Mutant: the socket has no read timeout.                                 *)
ReadEndsNoTimeout ==
  /\ pc = "read"
  /\ \/ read < arrived /\ ~Wanted
     \/ read = arrived /\ server = "ended"
  /\ Close("closed")
  /\ user' = Verdict(fields)
  /\ UNCHANGED <<timeout, answer, arrived, read, fields>>

(* Mutant: scanf does not wait for more.                                   *)
ReadEndsEarly ==
  /\ pc = "read"
  /\ read < arrived => ~Wanted
  /\ Close("closed")
  /\ user' = Verdict(fields)
  /\ UNCHANGED <<timeout, answer, arrived, read, fields>>

(* scanf meets something else, the end of the connection, or silence for   *)
(* identTimeout since the last read; then fclose.                          *)
ReadEnds ==
  /\ pc = "read"
  /\ \/ read < arrived /\ ~Wanted
     \/ read = arrived /\ (server = "ended" \/ timeout)
  /\ Close("closed")
  /\ user' = Verdict(fields)
  /\ UNCHANGED <<timeout, answer, arrived, read, fields>>

-----------------------------------------------------------------------------
(* The ident server, which may answer before it is asked.                  *)
ServerSends ==
  /\ server = "open" /\ sock = "open" /\ arrived < Len(answer)
  /\ arrived' = arrived + 1
  /\ UNCHANGED <<timeout, pc, sock, server, answer, read, fields, user>>

ServerEnds ==
  /\ server = "open"
  /\ server' = "ended"
  /\ UNCHANGED <<timeout, pc, sock, answer, arrived, read, fields, user>>

Lookup == Socket \/ Connect \/ Ask \/ Send \/ ReadToken \/ ReadEnds

Next == Lookup \/ ServerSends \/ ServerEnds

(* The thread runs when it can; nothing is assumed of the server.          *)
Spec == Init /\ [][Next]_vars /\ WF_vars(Lookup)

-----------------------------------------------------------------------------
(* Properties.                                                             *)

(* The types of the variables; scanf takes what has arrived, no more.      *)
TypeOK ==
  /\ timeout \in Timeouts
  /\ pc \in {"socket", "connect", "ask", "send", "read", "done"}
  /\ sock \in {"none", "open", "closed"} /\ server \in {"none", "open", "ended"}
  /\ answer \in Answers
  /\ arrived \in 0 .. Len(answer) /\ read \in 0 .. arrived
  /\ fields \in Seq(Token) /\ Len(fields) <= 4 + MaxName
  /\ user \in Names \cup {Failed}

(* "Fixed leaking socket in ident check when ident connect fails."         *)
(* (CHANGELOG:11): on every way out of identLookup the socket is closed or *)
(* was never opened.                                                       *)
SocketClosed == pc = "done" => sock # "open"

(* What an answer for this very connection has in front of the name.       *)
Header == << <<"port", Remote>>, <<"port", Local>>, <<"word", "USERID">>, <<"system">> >>

(* How many of the first i tokens are not white space.                     *)
NumberOf(i) == Cardinality({j \in 1 .. i : ~Blank(answer[j])})

(* Of the first m tokens, those from the i-th on spell u, and u is all of  *)
(* the name they have, or all that scanf takes.                            *)
NameAt(m, i, u) ==
  /\ i + Len(u) - 1 <= m
  /\ \A n \in 1 .. Len(u) : answer[i + n - 1] = <<"letter", u[n]>>
  /\ Len(u) = MaxName \/ i + Len(u) > m \/ answer[i + Len(u)][1] # "letter"

(* The first m tokens are an answer for this connection, as far as the     *)
(* name and with u for the name, white space aside.                        *)
Named(m, u) ==
  /\ \A k \in 1 .. 4 : \E i \in 1 .. m : NumberOf(i) = k /\ answer[i] = Header[k]
  /\ \E i \in 1 .. m : NumberOf(i) = 5 /\ NameAt(m, i, u)

(* When scanf is through, the name is u if and only if what has arrived is *)
(* an answer for this connection that names u: an answer for another       *)
(* connection, or one that stops in front of the name, names nobody, and a *)
(* good one counts however the server behaves behind it.  (One that stops  *)
(* inside the name names whom that much of it spells.)                     *)
HeardOut ==
  [][ pc = "read" /\ pc' = "done" => \A u \in Names : user' = u <=> Named(arrived, u) ]_vars

(* An answer that comes in pieces is waited for: unless the connection     *)
(* ends or the timeout strikes, the name is the one of the whole answer,   *)
(* whatever part of it has arrived (and scanf does not stop short of what  *)
(* could still change it).                                                 *)
WaitedOut ==
  [][ pc = "read" /\ pc' = "done" /\ server = "open" /\ ~timeout =>
        \A u \in Names : user' = u <=> Named(Len(answer), u) ]_vars

(* The session is not kept waiting for ever: with an ident timeout by no   *)
(* server, and without one by none that ends the connection.  (The timeout *)
(* runs anew for each read: Answers bounds how often a server that sends   *)
(* drop by drop can put it off.)                                           *)
LookupEnds == timeout \/ server = "ended" ~> pc = "done"

=============================================================================
