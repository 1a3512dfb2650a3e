----------------------------- MODULE MCStartup -----------------------------
(* Model checking instances of Startup: two bouncers.                      *)
EXTENDS Startup, TLC

MCAddrs == << "a1", "a2" >>

(* The runs are interchangeable, and so are the pids.                      *)
MCSymmetry == Permutations(Runs) \cup Permutations(Pids)

=============================================================================
