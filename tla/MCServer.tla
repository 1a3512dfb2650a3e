------------------------------ MODULE MCServer ------------------------------
(* Model checking instances of Server: two bouncers, listed in the order   *)
(* in which Server_listenAll puts them at the head of the list.            *)
EXTENDS Server

MCList == << "l2", "l1" >>

=============================================================================
