---------------------------- MODULE ServerProofs ----------------------------
(* Proofs about Server, for any number of servers, connections and         *)
(* descriptors and any length of the queues.                               *)
EXTENDS Server, SequenceTheorems, TLAPS

Types ==
  /\ platform \in Platforms
  /\ pc \in {"select", "visit"} /\ at \in 1 .. Len(List) + 1
  /\ set \subseteq Listeners
  /\ backlog \in [Listeners -> Seq(Conns)]
  /\ conn \in [Conns -> ConnState]

InQueue(c, l, i) == i \in 1 .. Len(backlog[l]) /\ backlog[l][i] = c

(* A connection is in a queue exactly while it waits, and in one place.    *)
Queued ==
  /\ \A c \in Conns : conn[c] \in {"pending", "reset"} =>
       \E l \in Listeners : \E i \in Nat : InQueue(c, l, i)
  /\ \A c \in Conns, l \in Listeners, i \in Nat :
       InQueue(c, l, i) => conn[c] \in {"pending", "reset"}
  /\ \A c \in Conns, l, m \in Listeners, i, j \in Nat :
       InQueue(c, l, i) /\ InQueue(c, m, j) => l = m /\ i = j

(* The part of the list that is still to be walked has no ready server     *)
(* whose queue is empty: only the walk takes from the queues, once from    *)
(* each, and the list names no server twice.                               *)
Ahead == pc = "visit" => \A k \in at .. Len(List) : List[k] \in set => backlog[List[k]] # <<>>

ServerInv == Types /\ Queued /\ Ahead

-----------------------------------------------------------------------------
LEMMA TypeOKParts == Types /\ Queued <=> TypeOK
<1>1. ASSUME Types
      PROVE  /\ \A c, l, i : InQueue(c, l, i) => i \in Nat
             /\ \A l \in Listeners : \A i \in 1 .. Len(backlog[l]) :
                  i \in Nat /\ backlog[l][i] \in Conns
  BY <1>1 DEF Types, InQueue
<1>2. ASSUME Types, Queued PROVE TypeOK
  <2>1. \A c \in Conns :
          conn[c] \in {"pending", "reset"}
            <=> \E l \in Listeners : \E i \in 1 .. Len(backlog[l]) : backlog[l][i] = c
    BY <1>1, <1>2 DEF Queued, InQueue
  <2>2. \A l, m \in Listeners : \A i \in 1 .. Len(backlog[l]), j \in 1 .. Len(backlog[m]) :
          backlog[l][i] = backlog[m][j] => l = m /\ i = j
    <3> TAKE l, m \in Listeners
    <3> TAKE i \in 1 .. Len(backlog[l]), j \in 1 .. Len(backlog[m])
    <3> HAVE backlog[l][i] = backlog[m][j]
    <3>1. InQueue(backlog[l][i], l, i) /\ InQueue(backlog[l][i], m, j)
      BY DEF InQueue
    <3> QED BY <1>1, <1>2, <3>1 DEF Queued
  <2> QED BY <1>2, <2>1, <2>2 DEF Types, TypeOK
<1>3. ASSUME TypeOK PROVE Types /\ Queued
  <2>1. Types
    BY <1>3 DEF TypeOK, Types
  <2> QED BY <1>1, <1>3, <2>1 DEF TypeOK, Queued, InQueue
<1> QED BY <1>2, <1>3

(* Steps that leave the queues and who waits in them alone.                *)
LEMMA QueuesStay ==
  ASSUME Queued, UNCHANGED backlog,
         \A c \in Conns : conn'[c] \in {"pending", "reset"} <=> conn[c] \in {"pending", "reset"}
  PROVE  Queued'
BY DEF Queued, InQueue

(* accept takes the connection at the head of a queue, and that one waits  *)
(* no longer.                                                              *)
LEMMA PopStep ==
  ASSUME Types, Queued, NEW l \in Listeners, backlog[l] # <<>>, Pop(l),
         NEW new \in ConnState \ {"pending", "reset"},
         conn' = [conn EXCEPT ![Head(backlog[l])] = new]
  PROVE  /\ Queued'
         /\ backlog' \in [Listeners -> Seq(Conns)] /\ conn' \in [Conns -> ConnState]
         /\ \A m \in Listeners : m # l => backlog'[m] = backlog[m]
<1> DEFINE q == backlog[l]
           h == Head(q)
<1>1. q \in Seq(Conns) /\ q # <<>>
  BY DEF Types
<1>2. /\ Len(q) \in Nat \ {0} /\ h = q[1] /\ h \in Conns
      /\ Tail(q) \in Seq(Conns) /\ Len(Tail(q)) = Len(q) - 1
      /\ \A i \in 1 .. Len(q) - 1 : Tail(q)[i] = q[i + 1]
  BY <1>1
<1>3. /\ backlog'[l] = Tail(q) /\ backlog' \in [Listeners -> Seq(Conns)]
      /\ \A m \in Listeners : m # l => backlog'[m] = backlog[m]
  BY <1>2 DEF Pop, Types
<1>4. /\ conn' \in [Conns -> ConnState] /\ conn'[h] = new
      /\ \A c \in Conns : c # h => conn'[c] = conn[c]
  BY <1>2 DEF Types
<1>5. InQueue(h, l, 1)
  BY <1>2 DEF InQueue
<1>6. \A c, i : i \in Nat => (InQueue(c, l, i)' <=> InQueue(c, l, i + 1) /\ i # 0)
  <2> TAKE c, i
  <2> HAVE i \in Nat
  <2>1. i \in 1 .. Len(Tail(q)) <=> (i + 1 \in 1 .. Len(q) /\ i # 0)
    BY <1>2
  <2>2. i \in 1 .. Len(Tail(q)) => Tail(q)[i] = q[i + 1]
    BY <1>2
  <2> HIDE DEF q
  <2>3. InQueue(c, l, i)' <=> i \in 1 .. Len(Tail(q)) /\ Tail(q)[i] = c
    BY <1>3 DEF InQueue
  <2>4. InQueue(c, l, i + 1) <=> i + 1 \in 1 .. Len(q) /\ q[i + 1] = c
    BY DEF InQueue, q
  <2> QED BY <2>1, <2>2, <2>3, <2>4
<1>7. \A c, i, m : m \in Listeners /\ m # l => (InQueue(c, m, i)' <=> InQueue(c, m, i))
  BY <1>3 DEF InQueue
<1> HIDE DEF q, h
<1>8. \A c \in Conns, m \in Listeners, i \in Nat :
        InQueue(c, m, i)' => c # h /\ \E j \in Nat : InQueue(c, m, j)
  <2> TAKE c \in Conns, m \in Listeners, i \in Nat
  <2> HAVE InQueue(c, m, i)'
  <2>1. CASE m = l
    <3>1. InQueue(c, l, i + 1) /\ i # 0 /\ i + 1 \in Nat /\ i + 1 # 1
      BY <1>6, <2>1
    <3> QED BY <1>2, <1>5, <2>1, <3>1 DEF Queued
  <2>2. CASE m # l
    BY <1>2, <1>5, <1>7, <2>2 DEF Queued
  <2> QED BY <2>1, <2>2
<1>9. \A c \in Conns : conn'[c] \in {"pending", "reset"} =>
        \E m \in Listeners : \E i \in Nat : InQueue(c, m, i)'
  <2> TAKE c \in Conns
  <2> HAVE conn'[c] \in {"pending", "reset"}
  <2>1. c # h /\ conn[c] \in {"pending", "reset"}
    BY <1>4
  <2>2. PICK m \in Listeners, j \in Nat : InQueue(c, m, j)
    BY <2>1 DEF Queued
  <2>3. CASE m # l
    BY <1>7, <2>2, <2>3
  <2>4. CASE m = l
    <3>1. j \in 1 .. Len(q) /\ q[j] = c
      BY <2>2, <2>4 DEF InQueue, q
    <3>2. j # 1
      BY <1>2, <2>1, <3>1
    <3>3. j - 1 \in Nat /\ (j - 1) + 1 = j /\ j - 1 # 0
      BY <3>1, <3>2
    <3>4. InQueue(c, l, j - 1)'
      BY <1>6, <2>2, <2>4, <3>3
    <3> QED BY <3>3, <3>4
  <2> QED BY <2>3, <2>4
<1>10. \A c \in Conns, m \in Listeners, i \in Nat :
         InQueue(c, m, i)' => conn'[c] \in {"pending", "reset"}
  BY <1>4, <1>8 DEF Queued
<1>11. \A c \in Conns, m, n \in Listeners, i, j \in Nat :
         InQueue(c, m, i)' /\ InQueue(c, n, j)' => m = n /\ i = j
  <2> TAKE c \in Conns, m, n \in Listeners, i, j \in Nat
  <2> HAVE InQueue(c, m, i)' /\ InQueue(c, n, j)'
  <2>1. \A x \in Listeners, k \in Nat : InQueue(c, x, k)' =>
          InQueue(c, x, IF x = l THEN k + 1 ELSE k)
    BY <1>6, <1>7
  <2>2. \A k \in Nat : k + 1 \in Nat
    OBVIOUS
  <2>3. m = n
    BY <2>1, <2>2 DEF Queued
  <2>4. CASE m = l
    <3>1. InQueue(c, l, i + 1) /\ InQueue(c, l, j + 1)
      BY <2>1, <2>3, <2>4
    <3>2. i + 1 = j + 1
      BY <2>2, <3>1 DEF Queued
    <3> QED BY <2>3, <3>2
  <2>5. CASE m # l
    BY <2>1, <2>3, <2>5 DEF Queued
  <2> QED BY <2>4, <2>5
<1>12. Queued'
  BY <1>9, <1>10, <1>11 DEF Queued
<1> QED BY <1>3, <1>4, <1>12 DEF h, q

(* A client's connection goes to the end of a queue.                       *)
LEMMA AppendStep ==
  ASSUME Types, Queued, NEW d \in Conns, NEW l \in Listeners, Connects(d, l)
  PROVE  /\ Queued'
         /\ backlog' \in [Listeners -> Seq(Conns)] /\ conn' \in [Conns -> ConnState]
         /\ \A m \in Listeners : backlog[m] # <<>> => backlog'[m] # <<>>
<1> DEFINE q == backlog[l]
           n == Len(q)
<1>1. q \in Seq(Conns) /\ n \in Nat
  BY DEF Types
<1>2. /\ Len(Append(q, d)) = n + 1 /\ Append(q, d)[n + 1] = d
      /\ \A i \in 1 .. n : Append(q, d)[i] = q[i]
      /\ Append(q, d) \in Seq(Conns) /\ Append(q, d) # <<>>
  BY <1>1
<1>3. /\ backlog'[l] = Append(q, d) /\ backlog' \in [Listeners -> Seq(Conns)]
      /\ \A m \in Listeners : m # l => backlog'[m] = backlog[m]
  BY <1>2 DEF Connects, Types
<1>4. /\ conn' \in [Conns -> ConnState] /\ conn'[d] = "pending" /\ conn[d] \in {"idle", "over"}
      /\ \A c \in Conns : c # d => conn'[c] = conn[c]
  BY DEF Types, Connects, ConnState
<1>5. \A c, i : i \in Nat =>
        (InQueue(c, l, i)' <=> InQueue(c, l, i) \/ (i = n + 1 /\ c = d))
  <2> TAKE c, i
  <2> HAVE i \in Nat
  <2>1. i \in 1 .. n + 1 <=> i \in 1 .. n \/ i = n + 1
    BY <1>1
  <2>2. n + 1 \notin 1 .. n
    BY <1>1
  <2>3. InQueue(c, l, i) <=> i \in 1 .. n /\ q[i] = c
    BY DEF InQueue
  <2> HIDE DEF q, n
  <2>4. InQueue(c, l, i)' <=> i \in 1 .. n + 1 /\ Append(q, d)[i] = c
    BY <1>2, <1>3 DEF InQueue
  <2> QED BY <1>2, <2>1, <2>2, <2>3, <2>4
<1>6. \A c, i, m : m \in Listeners /\ m # l => (InQueue(c, m, i)' <=> InQueue(c, m, i))
  BY <1>3 DEF InQueue
<1>7. \A m \in Listeners, i \in Nat : ~InQueue(d, m, i)
  BY <1>4 DEF Queued
<1> HIDE DEF q, n
<1>8. n + 1 \in Nat
  BY <1>1
<1>9. \A c \in Conns, m \in Listeners, i \in Nat :
        c # d => (InQueue(c, m, i)' <=> InQueue(c, m, i))
  BY <1>5, <1>6
<1>10. \A m \in Listeners, i \in Nat : InQueue(d, m, i)' <=> m = l /\ i = n + 1
  BY <1>5, <1>6, <1>7
<1>11. Queued'
  <2>1. \A c \in Conns : conn'[c] \in {"pending", "reset"} =>
          \E m \in Listeners : \E i \in Nat : InQueue(c, m, i)'
    BY <1>4, <1>8, <1>9, <1>10 DEF Queued
  <2>2. \A c \in Conns, m \in Listeners, i \in Nat :
          InQueue(c, m, i)' => conn'[c] \in {"pending", "reset"}
    BY <1>4, <1>9 DEF Queued
  <2>3. \A c \in Conns, m, k \in Listeners, i, j \in Nat :
          InQueue(c, m, i)' /\ InQueue(c, k, j)' => m = k /\ i = j
    BY <1>9, <1>10 DEF Queued
  <2> QED BY <2>1, <2>2, <2>3 DEF Queued
<1>12. \A m \in Listeners : backlog[m] # <<>> => backlog'[m] # <<>>
  BY <1>2, <1>3
<1> QED BY <1>3, <1>4, <1>11, <1>12

-----------------------------------------------------------------------------
(* The steps.                                                              *)

LEMMA LoopKeeps ==
  ASSUME ServerInv, Loop PROVE ServerInv'
<1>1. Types /\ Queued /\ Ahead
  BY DEF ServerInv
<1>2. Len(List) \in Nat /\ \A k \in 1 .. Len(List) : List[k] \in Listeners
  BY ServerAssumption
<1>3. at \in Nat /\ at >= 1
  BY <1>1, <1>2 DEF Types
<1>4. CASE Select
  <2>1. Types'
    BY <1>1, <1>2, <1>4 DEF Types, Select
  <2>2. Queued'
    BY <1>1, <1>4, QueuesStay DEF Select
  <2>3. Ahead'
    BY <1>4 DEF Ahead, Select
  <2> QED BY <2>1, <2>2, <2>3 DEF ServerInv
<1>5. CASE Pass
  <2>1. Types' /\ at' = at + 1
    BY <1>1, <1>2, <1>5 DEF Types, Pass, Visiting
  <2>2. Queued'
    BY <1>1, <1>5, QueuesStay DEF Pass
  <2>3. at' .. Len(List) \subseteq at .. Len(List)
    BY <1>2, <1>3, <2>1
  <2>4. Ahead'
    BY <1>1, <1>5, <2>3 DEF Ahead, Pass
  <2> QED BY <2>1, <2>2, <2>4 DEF ServerInv
<1>6. CASE AcceptFails \/ EndOfList
  <2>1. UNCHANGED <<platform, at, set, backlog, conn>> /\ pc' = "select"
    BY <1>6 DEF AcceptFails, EndOfList
  <2>2. Queued'
    BY <1>1, <2>1, QueuesStay
  <2> QED BY <1>1, <2>1, <2>2 DEF ServerInv, Types, Ahead
<1>7. CASE Accept
  <2>1. /\ pc = "visit" /\ at \in 1 .. Len(List) /\ backlog[Here] # <<>>
        /\ Pop(Here) /\ Launch(Head(backlog[Here])) /\ at' = at + 1
        /\ UNCHANGED <<platform, pc, set>>
    BY <1>2, <1>3, <1>7 DEF Accept, Visiting
  <2>2. Here \in Listeners
    BY <1>2, <2>1 DEF Here
  <2>3. PICK new \in {"running", "orphan"} : conn' = [conn EXCEPT ![Head(backlog[Here])] = new]
    BY <2>1 DEF Launch
  <2>4. new \in ConnState \ {"pending", "reset"}
    BY <2>3 DEF ConnState
  <2>5. /\ Queued'
        /\ backlog' \in [Listeners -> Seq(Conns)] /\ conn' \in [Conns -> ConnState]
        /\ \A m \in Listeners : m # Here => backlog'[m] = backlog[m]
    BY <1>1, <2>1, <2>2, <2>3, <2>4, PopStep
  <2>6. at' \in 1 .. Len(List) + 1
    BY <1>2, <1>3, <2>1
  <2>7. Types'
    BY <1>1, <2>1, <2>5, <2>6 DEF Types
  <2>8. Ahead'
    <3> SUFFICES ASSUME NEW k \in at' .. Len(List), List[k] \in set PROVE backlog'[List[k]] # <<>>
      BY <2>1 DEF Ahead
    <3>1. k \in at .. Len(List) /\ k \in 1 .. Len(List) /\ k # at
      BY <1>2, <1>3, <2>1
    <3>2. List[k] # Here /\ List[k] \in Listeners
      BY <1>2, <2>1, <3>1, ServerAssumption DEF Here
    <3> QED BY <1>1, <2>1, <2>5, <3>1, <3>2 DEF Ahead
  <2> QED BY <2>5, <2>7, <2>8 DEF ServerInv
<1>8. CASE AcceptAborted
  <2>1. /\ pc = "visit" /\ at \in 1 .. Len(List) /\ backlog[Here] # <<>> /\ Pop(Here)
        /\ conn' = [conn EXCEPT ![Head(backlog[Here])] = "over"]
        /\ pc' = "select" /\ UNCHANGED <<platform, at, set>>
    BY <1>2, <1>3, <1>8 DEF AcceptAborted, Visiting
  <2>2. Here \in Listeners
    BY <1>2, <2>1 DEF Here
  <2>3. "over" \in ConnState \ {"pending", "reset"}
    BY DEF ConnState
  <2>4. /\ Queued'
        /\ backlog' \in [Listeners -> Seq(Conns)] /\ conn' \in [Conns -> ConnState]
    BY <1>1, <2>1, <2>2, <2>3, PopStep
  <2> QED BY <1>1, <2>1, <2>4 DEF ServerInv, Types, Ahead
<1> QED BY <1>4, <1>5, <1>6, <1>7, <1>8 DEF Loop

LEMMA OthersKeep ==
  ASSUME ServerInv, Clients \/ \E c \in Conns : SessionEnds(c) PROVE ServerInv'
<1>1. Types /\ Queued /\ Ahead
  BY DEF ServerInv
<1>2. ASSUME NEW c \in Conns, NEW l \in Listeners, Connects(c, l) PROVE ServerInv'
  <2>1. UNCHANGED <<platform, pc, at, set>>
    BY <1>2 DEF Connects
  <2>2. /\ Queued'
        /\ backlog' \in [Listeners -> Seq(Conns)] /\ conn' \in [Conns -> ConnState]
        /\ \A m \in Listeners : backlog[m] # <<>> => backlog'[m] # <<>>
    BY <1>1, <1>2, AppendStep
  <2>3. Ahead'
    BY <1>1, <2>1, <2>2 DEF Ahead, Types
  <2> QED BY <1>1, <2>1, <2>2, <2>3 DEF ServerInv, Types
<1>3. ASSUME NEW c \in Conns, Resets(c) \/ SessionEnds(c) PROVE ServerInv'
  <2>1. UNCHANGED <<platform, pc, at, set, backlog>>
    BY <1>3 DEF Resets, SessionEnds
  <2>2. conn' \in [Conns -> ConnState] /\
        \A d \in Conns : conn'[d] \in {"pending", "reset"} <=> conn[d] \in {"pending", "reset"}
    BY <1>1, <1>3 DEF Resets, SessionEnds, Types, ConnState
  <2>3. Queued'
    BY <1>1, <2>1, <2>2, QueuesStay
  <2> QED BY <1>1, <2>1, <2>2, <2>3 DEF ServerInv, Types, Ahead
<1> QED BY <1>2, <1>3 DEF Clients

-----------------------------------------------------------------------------
LEMMA ServerInvariant == Spec => []ServerInv
<1>1. Init => ServerInv
  <2> SUFFICES ASSUME Init PROVE ServerInv
    OBVIOUS
  <2>1. Types
    BY ServerAssumption DEF Init, Types, ConnState
  <2>2. \A l \in Listeners : Len(backlog[l]) = 0
    BY DEF Init
  <2>3. Queued
    BY <2>2 DEF Init, Queued, InQueue
  <2> QED BY <2>1, <2>3 DEF Init, Ahead, ServerInv
<1>2. ServerInv /\ [Next]_vars => ServerInv'
  <2> SUFFICES ASSUME ServerInv, [Next]_vars PROVE ServerInv'
    OBVIOUS
  <2>1. CASE UNCHANGED vars
    BY <2>1 DEF vars, ServerInv, Types, Queued, InQueue, Ahead
  <2> QED BY <2>1, LoopKeeps, OthersKeep DEF Next
<1> QED BY <1>1, <1>2, PTL DEF Spec

(* The types of the variables, and each waiting connection in one queue,   *)
(* once (Server_accept, and the kernel's queues).                          *)
THEOREM ServerTypeCorrect == Spec => []TypeOK
<1>1. ServerInv => TypeOK
  BY TypeOKParts DEF ServerInv
<1> QED BY <1>1, ServerInvariant, PTL

(* The walk over the servers never waits in accept (Server_accept, whose   *)
(* sockets block and whose set may be stale).                              *)
THEOREM AcceptDoesNotWait == Spec => []AcceptNeverWaits
<1>1. ServerInv => AcceptNeverWaits
  <2> SUFFICES ASSUME ServerInv, Visiting, Here \in set PROVE backlog[Here] # <<>>
    BY DEF AcceptNeverWaits
  <2>1. at \in at .. Len(List) /\ pc = "visit"
    BY ServerAssumption DEF ServerInv, Types, Visiting
  <2> QED BY <2>1 DEF ServerInv, Ahead, Here
<1> QED BY <1>1, ServerInvariant, PTL

=============================================================================
