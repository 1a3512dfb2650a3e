------------------------------- MODULE Server -------------------------------
(***************************************************************************)
(* The accept loop (Server_loop, Server_accept and Client_launch): one     *)
(* thread selects on all listening sockets and then walks their list,      *)
(* accepting one connection from each that was ready when select returned  *)
(* and starting a session for it.  The listening sockets block, and the    *)
(* sessions, which run beside this thread (module Client), hold the        *)
(* descriptors that the next accept may lack.                              *)
(***************************************************************************)
EXTENDS Integers, Sequences, FiniteSets

CONSTANTS
  Listeners,    \* the servers, one per bouncer
  List,         \* the linked list of servers, in its order
  Conns,        \* the clients; each has one connection at a time
  MaxOpen,      \* how many accepted sockets fit in the descriptor table
  Backlog,      \* SOMAXCONN, the connections a listening socket can hold
  Platforms,    \* see PlatformType
  LaunchFails   \* may Client_new or pthread_create fail

(* What a system does with a connection that is reset before accept has    *)
(* returned it: accept returns it all the same ("kept", as on Linux), or   *)
(* fails with ECONNABORTED ("aborted").                                    *)
PlatformType == {"kept", "aborted"}

ASSUME ServerAssumption ==
  /\ IsFiniteSet(Conns)
  /\ List \in Seq(Listeners)
  /\ \A l \in Listeners : \E i \in 1 .. Len(List) : List[i] = l
  /\ \A i, j \in 1 .. Len(List) : List[i] = List[j] => i = j
  /\ MaxOpen \in Nat \ {0} /\ Backlog \in Nat \ {0}
  /\ Platforms \subseteq PlatformType
  /\ LaunchFails \in BOOLEAN

VARIABLES
  platform,  \* the system the program runs on
  pc,        \* "select", or "visit" while the list is walked
  at,        \* where in List the walk is
  set,       \* the fd_set as select left it
  backlog,   \* the connections each listening socket holds
  conn       \* what became of each client's connection

vars == <<platform, pc, at, set, backlog, conn>>

ConnState == {"idle", "pending", "reset", "running", "orphan", "over"}

(* The accepted sockets that nobody has closed.                            *)
Open == {c \in Conns : conn[c] \in {"running", "orphan"}}

Init ==
  /\ platform \in Platforms
  /\ pc = "select" /\ at = 1 /\ set = {}
  /\ backlog = [l \in Listeners |-> <<>>]
  /\ conn = [c \in Conns |-> "idle"]

-----------------------------------------------------------------------------
(* Server_accept.                                                          *)

(* Mutant: only the first server of the list is put in the fd_set.         *)
SelectFirstOnly ==
  /\ pc = "select"
  /\ set' = {l \in {List[1]} : backlog[l] # <<>>}
  /\ set' # {}
  /\ pc' = "visit" /\ at' = 1
  /\ UNCHANGED <<platform, backlog, conn>>

Select ==
  /\ pc = "select"
  /\ set' = {l \in Listeners : backlog[l] # <<>>}
  /\ set' # {}
  /\ pc' = "visit" /\ at' = 1
  /\ UNCHANGED <<platform, backlog, conn>>

Here == List[at]
Visiting == pc = "visit" /\ at <= Len(List)

Pass ==
  /\ Visiting
  /\ Here \notin set
  /\ at' = at + 1
  /\ UNCHANGED <<platform, pc, set, backlog, conn>>

Pop(l) == backlog' = [backlog EXCEPT ![l] = Tail(@)]

(* Client_launch: the session starts; or Client_new or pthread_create      *)
(* fails, and nobody has the socket.                                       *)
Launch(c) ==
  \/ conn' = [conn EXCEPT ![c] = "running"]
  \/ LaunchFails /\ conn' = [conn EXCEPT ![c] = "orphan"]

(* Mutant: the walk stays at the server after a connection.                *)
AcceptAgain ==
  /\ Visiting /\ Here \in set
  /\ backlog[Here] # <<>>
  /\ Cardinality(Open) < MaxOpen
  /\ conn[Head(backlog[Here])] = "pending" \/ platform # "aborted"
  /\ Pop(Here)
  /\ Launch(Head(backlog[Here]))
  /\ UNCHANGED <<platform, pc, at, set>>

(* accept returns a connection, perhaps one that was reset meanwhile.      *)
Accept ==
  /\ Visiting /\ Here \in set
  /\ backlog[Here] # <<>>
  /\ Cardinality(Open) < MaxOpen
  /\ conn[Head(backlog[Here])] = "pending" \/ platform # "aborted"
  /\ Pop(Here)
  /\ Launch(Head(backlog[Here]))
  /\ at' = at + 1
  /\ UNCHANGED <<platform, pc, set>>

(* Mutant: a reset connection that accept reports is not used up.          *)
AcceptAbortedKeeps ==
  /\ Visiting /\ Here \in set
  /\ backlog[Here] # <<>>
  /\ Cardinality(Open) < MaxOpen
  /\ conn[Head(backlog[Here])] = "reset" /\ platform = "aborted"
  /\ conn' = [conn EXCEPT ![Head(backlog[Here])] = "over"]
  /\ pc' = "select"
  /\ UNCHANGED <<platform, at, set, backlog>>

(* Mutant: a failing accept ends the loop.                                 *)
AcceptFailsForGood ==
  /\ Visiting /\ Here \in set
  /\ Cardinality(Open) >= MaxOpen
  /\ pc' = "stopped"
  /\ UNCHANGED <<platform, at, set, backlog, conn>>

(* Out of descriptors: the connection stays where it is, and the round is  *)
(* over.                                                                   *)
AcceptFails ==
  /\ Visiting /\ Here \in set
  /\ Cardinality(Open) >= MaxOpen
  /\ pc' = "select"
  /\ UNCHANGED <<platform, at, set, backlog, conn>>

(* ECONNABORTED: the connection is used up, and the round is over.         *)
AcceptAborted ==
  /\ Visiting /\ Here \in set
  /\ backlog[Here] # <<>>
  /\ Cardinality(Open) < MaxOpen
  /\ conn[Head(backlog[Here])] = "reset" /\ platform = "aborted"
  /\ Pop(Here)
  /\ conn' = [conn EXCEPT ![Head(backlog[Here])] = "over"]
  /\ pc' = "select"
  /\ UNCHANGED <<platform, at, set>>

EndOfList ==
  /\ pc = "visit" /\ at > Len(List)
  /\ pc' = "select"
  /\ UNCHANGED <<platform, at, set, backlog, conn>>

-----------------------------------------------------------------------------
(* The clients, and the threads of their sessions.                         *)

Connects(c, l) ==
  /\ conn[c] \in {"idle", "over"}
  /\ Len(backlog[l]) < Backlog
  /\ conn' = [conn EXCEPT ![c] = "pending"]
  /\ backlog' = [backlog EXCEPT ![l] = Append(@, c)]
  /\ UNCHANGED <<platform, pc, at, set>>

Resets(c) ==
  /\ conn[c] = "pending"
  /\ conn' = [conn EXCEPT ![c] = "reset"]
  /\ UNCHANGED <<platform, pc, at, set, backlog>>

(* The thread of the session has closed its sockets (Client_free).         *)
SessionEnds(c) ==
  /\ conn[c] = "running"
  /\ conn' = [conn EXCEPT ![c] = "over"]
  /\ UNCHANGED <<platform, pc, at, set, backlog>>

-----------------------------------------------------------------------------
Loop == Select \/ Pass \/ Accept \/ AcceptFails \/ AcceptAborted \/ EndOfList

Clients == \E c \in Conns : Resets(c) \/ \E l \in Listeners : Connects(c, l)

Next == Loop \/ Clients \/ \E c \in Conns : SessionEnds(c)

Spec == Init /\ [][Next]_vars

(* The accept thread runs when it can.  Nothing is assumed of the clients, *)
(* nor of the sessions: with the default idletimeout=0 one may last for    *)
(* ever.                                                                   *)
LoopSpec == Spec /\ WF_vars(Loop)

-----------------------------------------------------------------------------
(* Properties.                                                             *)

(* The types of the variables, and each connection in at most one queue,   *)
(* once, exactly while it waits to be accepted.                            *)
TypeOK ==
  /\ platform \in Platforms
  /\ pc \in {"select", "visit"} /\ at \in 1 .. Len(List) + 1
  /\ set \subseteq Listeners
  /\ backlog \in [Listeners -> Seq(Conns)]
  /\ conn \in [Conns -> ConnState]
  /\ \A c \in Conns :
       conn[c] \in {"pending", "reset"}
         <=> \E l \in Listeners : \E i \in 1 .. Len(backlog[l]) : backlog[l][i] = c
  /\ \A l, m \in Listeners : \A i \in 1 .. Len(backlog[l]), j \in 1 .. Len(backlog[m]) :
       backlog[l][i] = backlog[m][j] => l = m /\ i = j

(* accept never waits: a socket that select reported ready still holds a   *)
(* connection when the walk comes to it.  One waiting accept would keep    *)
(* every other bouncer's clients out (Server_accept: sockets that block, a *)
(* set that is stale).                                                     *)
AcceptNeverWaits == Visiting /\ Here \in set => backlog[Here] # <<>>

(* While there are descriptors left, a client that has connected to any of *)
(* the bouncers is accepted, however long the sessions last and however    *)
(* many clients, of this or of other bouncers, come and come back: no      *)
(* server of the list is passed over for good.  Not so where accept        *)
(* reports a reset connection: there each such report ends the round       *)
(* before the later servers (server.c:161).                                *)
ServedWhileThereIsRoom ==
  platform = "kept" /\ <>[](Cardinality(Open) < MaxOpen) =>
    \A c \in Conns : conn[c] = "pending" ~> conn[c] # "pending"

(* Sessions end: what ClientLive shows of Client when its timeouts are set.*)
SessionsEnd == \A c \in Conns : []<>(conn[c] # "running")

(* In the end no client connects any more.                                 *)
ClientsStop == <>[][\A c \in Conns : conn'[c] = "pending" => conn[c] = "pending"]_conn

(* "Added support for multiple bouncers in single instance" (CHANGELOG:4): *)
(* if sessions end, a client that has connected to any of the bouncers is  *)
(* accepted in the end, even if it has to wait for a descriptor - unless   *)
(* sockets that Client_launch has lost take up the whole table.  Not so    *)
(* while others keep coming back to a full table: each round starts at the *)
(* head of the list and ends at the first accept that fails, so that those *)
(* of a server in front take every descriptor.                             *)
EveryConnectionServed ==
  SessionsEnd /\ ClientsStop =>
    \A c \in Conns : conn[c] = "pending" ~>
      conn[c] # "pending" \/ Cardinality({d \in Conns : conn[d] = "orphan"}) >= MaxOpen

=============================================================================
