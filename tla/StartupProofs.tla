--------------------------- MODULE StartupProofs ---------------------------
(* Proofs about Startup, for any number of runs, pids and addresses and    *)
(* whatever faults there are.                                              *)
EXTENDS Startup, TLAPS

Active(i) == stage[i] \in {"check", "probe", "listen", "open", "write"}

(* A live launcher is the process of its pid, and a daemon that of the pid *)
(* fork returned; a pid kept from a dead process may be anybody's.         *)
ProcInv ==
  /\ \A i \in Runs : Active(i) => self[i] \in Pids /\ proc[self[i]] = Launcher(i)
  /\ \A i \in Runs, p \in Pids : proc[p] = Launcher(i) => Active(i) /\ self[i] = p
  /\ \A i \in Runs, p \in Pids : proc[p] = Daemon(i) => daemon[i] = p
  /\ \A i \in Runs : stage[i] \in {"idle", "check", "probe", "listen"} => daemon[i] = None
  /\ \A i \in Runs : stage[i] \in {"open", "write"} => daemon[i] \in Pids

(* The process p is of run i.                                              *)
OfRun(p, i) == proc[p] = Launcher(i) \/ proc[p] = Daemon(i)

(* A listening socket belongs to the processes of one run.                 *)
OneRunHolds ==
  \A a \in Addresses : \A p, q \in holds[a] :
    /\ \E i \in Runs : OfRun(p, i)
    /\ \A i \in Runs : OfRun(p, i) => OfRun(q, i)

(* What a launcher has bound so far it holds, and a daemon holds the whole *)
(* list.                                                                   *)
HoldsBound ==
  /\ \A i \in Runs : stage[i] \in {"idle", "check", "probe"} => bound[i] = 0
  /\ \A i \in Runs : stage[i] = "listen" =>
       \A k \in 1 .. bound[i] : self[i] \in holds[Addrs[k]]
  /\ \A i \in Runs : stage[i] \in {"open", "write"} => \A a \in Addresses : self[i] \in holds[a]
  /\ \A i \in Runs : Serving(i) => \A a \in Addresses : daemon[i] \in holds[a]

(* From fopen to fclose the pid file is empty.                             *)
EmptyInv == \A i \in Runs : stage[i] = "write" => file = "empty"

FileInv == EmptyInv /\ FileNamesDaemon

StartInv == TypeOK /\ ProcInv /\ OneRunHolds /\ HoldsBound /\ FileInv

Stages == Ended \cup {"idle", "check", "probe", "listen", "open", "write"}

-----------------------------------------------------------------------------
(* Whose a process is can be told from proc.                               *)
LEMMA Kinds ==
  /\ \A i, j : Launcher(i) # Daemon(j)
  /\ \A i : Launcher(i) \notin {Free, Other} /\ Daemon(i) \notin {Free, Other}
  /\ \A i, j : (Launcher(i) = Launcher(j) => i = j) /\ (Daemon(i) = Daemon(j) => i = j)
  /\ Free # Other
BY DEF Launcher, Daemon, Free, Other

(* None is not a pid.                                                      *)
LEMMA NoneIsNoPid == None \notin Pids /\ "absent" \notin Pids /\ "empty" \notin Pids
BY NoneAssumption

(* While a launcher has all the sockets, no daemon but its own serves.     *)
LEMMA Alone ==
  ASSUME StartInv, NEW i \in Runs, NEW j \in Runs, Serving(j),
         stage[i] \in {"open", "write"} \/ (stage[i] = "listen" /\ bound[i] = Len(Addrs))
                                      \/ Serving(i)
  PROVE  i = j
<1>1. 1 \in 1 .. Len(Addrs) /\ Addrs[1] \in Addresses
  BY StartupAssumption DEF Addresses
<1>2. daemon[j] \in holds[Addrs[1]] /\ proc[daemon[j]] = Daemon(j)
  BY <1>1 DEF StartInv, HoldsBound, Serving
<1>3. PICK p \in holds[Addrs[1]] : OfRun(p, i)
  <2>1. CASE Serving(i)
    BY <1>1, <2>1 DEF StartInv, HoldsBound, Serving, OfRun
  <2>2. CASE stage[i] \in {"open", "write"} \/ (stage[i] = "listen" /\ bound[i] = Len(Addrs))
    <3>1. self[i] \in holds[Addrs[1]]
      BY <1>1, <2>2 DEF StartInv, HoldsBound
    <3>2. Active(i)
      BY <2>2 DEF Active
    <3>3. OfRun(self[i], i)
      BY <3>2 DEF StartInv, ProcInv, OfRun
    <3> QED BY <3>1, <3>3
  <2> QED BY <2>1, <2>2
<1>4. OfRun(daemon[j], i)
  BY <1>1, <1>2, <1>3 DEF StartInv, OneRunHolds
<1> QED BY <1>2, <1>4, Kinds DEF OfRun

(* Only one launcher at a time may touch the pid file.                     *)
LEMMA OneRecords ==
  ASSUME StartInv, NEW i \in Runs, NEW j \in Runs,
         stage[i] \in {"open", "write"}, stage[j] \in {"open", "write"}
  PROVE  i = j
<1>1. 1 \in 1 .. Len(Addrs) /\ Addrs[1] \in Addresses
  BY StartupAssumption DEF Addresses
<1>2. self[i] \in holds[Addrs[1]] /\ self[j] \in holds[Addrs[1]]
  BY <1>1 DEF StartInv, HoldsBound
<1>3. proc[self[i]] = Launcher(i) /\ proc[self[j]] = Launcher(j)
  BY DEF StartInv, ProcInv, Active
<1>4. OfRun(self[j], i)
  BY <1>1, <1>2, <1>3 DEF StartInv, OneRunHolds, OfRun
<1> QED BY <1>3, <1>4, Kinds DEF OfRun

-----------------------------------------------------------------------------
(* Processes disappear, launchers among them if and only if their stage    *)
(* says so.                                                                *)
LEMMA GoneStep ==
  ASSUME StartInv, NEW ps, Gone(ps), UNCHANGED <<self, daemon, bound>>,
         \A i \in Runs : stage'[i] = stage[i] \/ stage'[i] \in Ended,
         \A i \in Runs : Active(i) => (self[i] \in ps <=> stage'[i] \in Ended)
  PROVE  ProcInv' /\ OneRunHolds' /\ HoldsBound'
<1>1. \A p \in Pids : proc'[p] = IF p \in ps THEN Free ELSE proc[p]
  BY DEF Gone
<1>2. \A a \in Addresses : holds'[a] = holds[a] \ ps /\ holds[a] \subseteq Pids
  BY DEF Gone, StartInv, TypeOK
<1>3. \A i \in Runs : Active(i)' => Active(i) /\ stage'[i] = stage[i] /\ self[i] \notin ps
  BY DEF Active, Ended
<1>4. \A i \in Runs : stage'[i] \notin Ended => stage'[i] = stage[i]
  OBVIOUS
<1>5. ProcInv'
  <2>1. (\A i \in Runs : Active(i) => self[i] \in Pids /\ proc[self[i]] = Launcher(i))'
    BY <1>1, <1>3 DEF StartInv, ProcInv
  <2>2. (\A i \in Runs, p \in Pids : proc[p] = Launcher(i) => Active(i) /\ self[i] = p)'
    <3> TAKE i \in Runs, p \in Pids
    <3> HAVE proc'[p] = Launcher(i)
    <3>1. p \notin ps /\ proc[p] = Launcher(i)
      BY <1>1, Kinds
    <3>2. Active(i) /\ self[i] = p
      BY <3>1 DEF StartInv, ProcInv
    <3>3. stage'[i] = stage[i]
      BY <3>1, <3>2
    <3> QED BY <3>2, <3>3 DEF Active
  <2>3. (\A i \in Runs, p \in Pids : proc[p] = Daemon(i) => daemon[i] = p)'
    BY <1>1, Kinds DEF StartInv, ProcInv
  <2>4. (\A i \in Runs : stage[i] \in {"idle", "check", "probe", "listen"} => daemon[i] = None)'
    BY <1>4 DEF StartInv, ProcInv, Ended
  <2>5. (\A i \in Runs : stage[i] \in {"open", "write"} => daemon[i] \in Pids)'
    BY <1>4 DEF StartInv, ProcInv, Ended
  <2> QED BY <2>1, <2>2, <2>3, <2>4, <2>5 DEF ProcInv
<1>6. OneRunHolds'
  <2>1. \A a \in Addresses : \A p \in holds'[a] : p \in holds[a] /\ \A i : OfRun(p, i)' = OfRun(p, i)
    BY <1>1, <1>2 DEF OfRun
  <2> QED BY <2>1 DEF StartInv, OneRunHolds
<1>7. HoldsBound'
  <2>1. (\A i \in Runs : stage[i] \in {"idle", "check", "probe"} => bound[i] = 0)'
    BY <1>4 DEF StartInv, HoldsBound, Ended
  <2>2. (\A i \in Runs : stage[i] = "listen" => \A k \in 1 .. bound[i] : self[i] \in holds[Addrs[k]])'
    <3> TAKE i \in Runs
    <3> HAVE stage'[i] = "listen"
    <3>1. stage[i] = "listen" /\ self[i] \notin ps
      BY <1>3 DEF Active
    <3>2. \A k \in 1 .. bound[i] : Addrs[k] \in Addresses
      BY StartupAssumption DEF StartInv, TypeOK, Addresses
    <3> QED BY <1>2, <3>1, <3>2 DEF StartInv, HoldsBound
  <2>3. (\A i \in Runs : stage[i] \in {"open", "write"} => \A a \in Addresses : self[i] \in holds[a])'
    BY <1>2, <1>3 DEF StartInv, HoldsBound, Active
  <2>4. (\A i \in Runs : Serving(i) => \A a \in Addresses : daemon[i] \in holds[a])'
    <3> TAKE i \in Runs
    <3> HAVE Serving(i)'
    <3>1. daemon[i] \in Pids /\ proc'[daemon[i]] = Daemon(i)
      BY DEF Serving, StartInv, TypeOK
    <3>2. Serving(i) /\ daemon[i] \notin ps
      BY <1>1, <3>1, Kinds DEF Serving
    <3> QED BY <1>2, <3>2 DEF StartInv, HoldsBound
  <2> QED BY <2>1, <2>2, <2>3, <2>4 DEF HoldsBound
<1> QED BY <1>5, <1>6, <1>7

(* The exit of a live launcher.                                            *)
LEMMA ExitStep ==
  ASSUME StartInv, NEW i \in Runs, Active(i), NEW how \in Ended, Exit(i, how),
         UNCHANGED <<self, daemon, bound>>
  PROVE  /\ ProcInv' /\ OneRunHolds' /\ HoldsBound'
         /\ stage' \in [Runs -> Stages] /\ stage'[i] = how
         /\ \A j \in Runs : j # i => stage'[j] = stage[j]
         /\ \A j \in Runs : Serving(j)' => Serving(j)
<1>1. stage \in [Runs -> Stages] /\ stage' = [stage EXCEPT ![i] = how]
  BY DEF StartInv, TypeOK, Stages, Exit
<1>2. /\ stage' \in [Runs -> Stages] /\ stage'[i] = how
      /\ \A j \in Runs : j # i => stage'[j] = stage[j]
  BY <1>1 DEF Stages
<1>3. Gone({self[i]})
  BY DEF Exit
<1>4. \A j \in Runs : Active(j) => (self[j] \in {self[i]} <=> stage'[j] \in Ended)
  <2> TAKE j \in Runs
  <2> HAVE Active(j)
  <2>1. proc[self[j]] = Launcher(j) /\ proc[self[i]] = Launcher(i)
    BY DEF StartInv, ProcInv
  <2>2. self[j] = self[i] <=> i = j
    BY <2>1, Kinds
  <2>3. j # i => stage'[j] \notin Ended
    BY <1>2 DEF Active, Ended
  <2> QED BY <1>2, <2>2, <2>3
<1>5. ProcInv' /\ OneRunHolds' /\ HoldsBound'
  BY <1>2, <1>3, <1>4, GoneStep
<1>6. \A j \in Runs : Serving(j)' => Serving(j)
  <2> TAKE j \in Runs
  <2> HAVE Serving(j)'
  <2>1. daemon[j] \in Pids /\ proc'[daemon[j]] = Daemon(j)
    BY DEF Serving, StartInv, TypeOK
  <2> QED BY <1>3, <2>1, Kinds DEF Serving, Gone
<1> QED BY <1>2, <1>5, <1>6

(* A launcher goes on to its next stage, and no process comes or goes.     *)
LEMMA MoveStep ==
  ASSUME StartInv, NEW i \in Runs, NEW next, UNCHANGED <<self, daemon, bound, proc, holds>>,
         stage' = [stage EXCEPT ![i] = next],
         \/ stage[i] \in {"check", "probe"} /\ next \in {"probe", "listen"}
         \/ stage[i] = "open" /\ next = "write"
  PROVE  /\ ProcInv' /\ OneRunHolds' /\ HoldsBound'
         /\ stage' \in [Runs -> Stages] /\ stage'[i] = next
         /\ \A j \in Runs : j # i => stage'[j] = stage[j]
         /\ \A j \in Runs : Serving(j)' => Serving(j)
<1>1. stage \in [Runs -> Stages]
  BY DEF StartInv, TypeOK, Stages
<1>2. /\ stage' \in [Runs -> Stages] /\ stage'[i] = next
      /\ \A j \in Runs : j # i => stage'[j] = stage[j]
  BY <1>1 DEF Stages
<1>3. \A j \in Runs : Active(j)' <=> Active(j)
  BY <1>2 DEF Active
<1>4. \A p, j : OfRun(p, j)' = OfRun(p, j)
  BY DEF OfRun
<1>5. \A j \in Runs : Serving(j)' = Serving(j)
  BY DEF Serving
<1>6. ProcInv'
  BY <1>2, <1>3 DEF StartInv, ProcInv
<1>7. OneRunHolds'
  BY <1>4 DEF StartInv, OneRunHolds
<1>8. HoldsBound'
  <2>1. (\A j \in Runs : stage[j] \in {"idle", "check", "probe"} => bound[j] = 0)'
    BY <1>2 DEF StartInv, HoldsBound
  <2>2. (\A j \in Runs : stage[j] = "listen" => \A k \in 1 .. bound[j] : self[j] \in holds[Addrs[k]])'
    <3> TAKE j \in Runs
    <3> HAVE stage'[j] = "listen"
    <3>1. stage[j] = "listen" \/ bound[j] = 0
      BY <1>2 DEF StartInv, HoldsBound
    <3> QED BY <3>1 DEF StartInv, HoldsBound
  <2>3. (\A j \in Runs : stage[j] \in {"open", "write"} => \A a \in Addresses : self[j] \in holds[a])'
    BY <1>2 DEF StartInv, HoldsBound
  <2>4. (\A j \in Runs : Serving(j) => \A a \in Addresses : daemon[j] \in holds[a])'
    BY <1>5 DEF StartInv, HoldsBound
  <2> QED BY <2>1, <2>2, <2>3, <2>4 DEF HoldsBound
<1> QED BY <1>2, <1>5, <1>6, <1>7, <1>8

(* The types that the removal of processes leaves.                         *)
LEMMA GoneTypes ==
  ASSUME TypeOK, NEW ps, Gone(ps)
  PROVE  /\ proc' \in [Pids -> {Free, Other} \cup {Launcher(i) : i \in Runs}
                                          \cup {Daemon(i) : i \in Runs}]
         /\ holds' \in [Addresses -> SUBSET Pids]
BY DEF TypeOK, Gone

(* The pid file keeps naming the daemon where nobody writes it.            *)
LEMMA FileKept ==
  ASSUME FileInv, UNCHANGED <<file, daemon>>,
         \A i \in Runs : stage'[i] \in {"started", "write"} => stage'[i] = stage[i],
         \A i \in Runs : Serving(i)' => Serving(i)
  PROVE  FileInv'
BY DEF FileInv, EmptyInv, FileNamesDaemon

-----------------------------------------------------------------------------
(* The steps.                                                              *)

LEMMA TypeStep ==
  ASSUME StartInv, [Next]_vars PROVE TypeOK'
<1>0. TypeOK
  BY DEF StartInv
<1> USE <1>0 DEF TypeOK
<1> DEFINE Procs == {Free, Other} \cup {Launcher(i) : i \in Runs} \cup {Daemon(i) : i \in Runs}
<1>1. ASSUME NEW i \in Runs, NEW how \in Ended, Exit(i, how)
      PROVE  /\ stage' \in [Runs -> Stages] /\ proc' \in [Pids -> Procs]
             /\ holds' \in [Addresses -> SUBSET Pids]
  BY <1>1, GoneTypes DEF Exit, Stages
<1>2. NewPids \subseteq Pids
  BY DEF NewPids
<1>3. ASSUME NEW i \in Runs, Launch(i) PROVE TypeOK'
  BY <1>2, <1>3 DEF Launch
<1>4. ASSUME NEW i \in Runs, ReadFile(i) PROVE TypeOK'
  <2>1. CASE Exit(i, "unable") /\ UNCHANGED seen
    BY <1>1, <1>4, <2>1 DEF ReadFile, Ended, Stages
  <2>2. CASE stage' = [stage EXCEPT ![i] = "listen"] /\ UNCHANGED <<seen, proc, holds>>
    BY <1>4, <2>2 DEF ReadFile
  <2>3. CASE /\ file \in Pids /\ seen' = [seen EXCEPT ![i] = file]
             /\ stage' = [stage EXCEPT ![i] = "probe"] /\ UNCHANGED <<proc, holds>>
    BY <1>4, <2>3 DEF ReadFile
  <2> QED BY <1>4, <2>1, <2>2, <2>3 DEF ReadFile
<1>5. ASSUME NEW i \in Runs, Probe(i) PROVE TypeOK'
  <2>1. CASE Exit(i, "refused") \/ Exit(i, "unable")
    BY <1>1, <1>5, <2>1 DEF Probe, Ended, Stages
  <2>2. CASE stage' = [stage EXCEPT ![i] = "listen"] /\ UNCHANGED <<proc, holds>>
    BY <1>5, <2>2 DEF Probe
  <2> QED BY <1>5, <2>1, <2>2 DEF Probe
<1>6. ASSUME NEW i \in Runs, Listen(i) PROVE TypeOK'
  <2>1. CASE Exit(i, "failed") /\ UNCHANGED bound
    BY <1>1, <1>6, <2>1 DEF Listen, Ended, Stages
  <2>2. CASE /\ holds' = [holds EXCEPT ![Addrs[bound[i] + 1]] = {self[i]}]
             /\ bound' = [bound EXCEPT ![i] = @ + 1] /\ UNCHANGED <<stage, proc>>
    <3>1. bound[i] \in 0 .. Len(Addrs) /\ bound[i] < Len(Addrs) /\ stage[i] = "listen"
      BY <1>6 DEF Listen
    <3>2. bound[i] + 1 \in 0 .. Len(Addrs)
      BY <3>1, StartupAssumption
    <3>3. self[i] \in Pids
      BY <3>1 DEF StartInv, ProcInv, Active
    <3>4. holds' \in [Addresses -> SUBSET Pids] /\ bound' \in [Runs -> 0 .. Len(Addrs)]
      BY <2>2, <3>2, <3>3
    <3> QED BY <1>6, <2>2, <3>4 DEF Listen
  <2> QED BY <1>6, <2>1, <2>2 DEF Listen
<1>7. ASSUME NEW i \in Runs, Fork(i) PROVE TypeOK'
  <2>1. CASE Exit(i, "failed") /\ UNCHANGED <<daemon, used>>
    BY <1>1, <1>7, <2>1 DEF Fork, Ended, Stages
  <2>2. CASE \E p \in NewPids :
               /\ daemon' = [daemon EXCEPT ![i] = p]
               /\ proc' = [proc EXCEPT ![p] = Daemon(i)]
               /\ used' = used \cup {p}
               /\ holds' = [a \in Addresses |-> holds[a] \cup {p}]
               /\ stage' = [stage EXCEPT ![i] = "open"]
    <3>1. PICK p \in Pids :
               /\ daemon' = [daemon EXCEPT ![i] = p]
               /\ proc' = [proc EXCEPT ![p] = Daemon(i)]
               /\ used' = used \cup {p}
               /\ holds' = [a \in Addresses |-> holds[a] \cup {p}]
               /\ stage' = [stage EXCEPT ![i] = "open"]
      BY <1>2, <2>2
    <3>2. proc' \in [Pids -> Procs] /\ daemon' \in [Runs -> Pids \cup {None}]
      BY <3>1
    <3>3. used' \subseteq Pids /\ holds' \in [Addresses -> SUBSET Pids]
      BY <3>1
    <3>4. stage' \in [Runs -> Stages]
      BY <3>1 DEF Stages
    <3> QED BY <1>7, <3>2, <3>3, <3>4 DEF Fork, Stages
  <2> QED BY <1>7, <2>1, <2>2 DEF Fork
<1>8. ASSUME NEW i \in Runs, OpenFile(i) PROVE TypeOK'
  <2>1. CASE Exit(i, "unrecorded") /\ UNCHANGED file
    BY <1>1, <1>8, <2>1 DEF OpenFile, Ended, Stages
  <2>2. CASE file' = "empty" /\ stage' = [stage EXCEPT ![i] = "write"] /\ UNCHANGED <<proc, holds>>
    BY <1>8, <2>2 DEF OpenFile
  <2> QED BY <1>8, <2>1, <2>2 DEF OpenFile
<1>9. ASSUME NEW i \in Runs, WriteFile(i) PROVE TypeOK'
  <2>1. daemon[i] \in Pids
    BY <1>9 DEF WriteFile, StartInv, ProcInv
  <2>2. Exit(i, "started") \/ Exit(i, "unrecorded")
    BY <1>9 DEF WriteFile
  <2> QED BY <1>1, <1>9, <2>1, <2>2 DEF WriteFile, Ended, Stages
<1>10. ASSUME NEW i \in Runs, DaemonKilled(i) PROVE TypeOK'
  BY <1>10, GoneTypes DEF DaemonKilled
<1>11. ASSUME NEW i \in Runs, LauncherKilled(i) PROVE TypeOK'
  BY <1>1, <1>11 DEF LauncherKilled, Ended, Stages
<1>12. CASE Reboot
  <2>1. stage' \in [Runs -> Stages]
    BY <1>12 DEF Reboot, Stages, Ended
  <2> QED BY <1>12, <2>1, GoneTypes DEF Reboot, Stages
<1>13. CASE OtherStarts \/ OtherExits
  BY <1>2, <1>13 DEF OtherStarts, OtherExits
<1>14. CASE UNCHANGED vars
  BY <1>14 DEF vars
<1> QED BY <1>3, <1>4, <1>5, <1>6, <1>7, <1>8, <1>9, <1>10, <1>11, <1>12, <1>13, <1>14
        DEF Next, Machine, Run

(* What a step must leave true beside the types.                           *)
Rest == ProcInv /\ OneRunHolds /\ HoldsBound /\ FileInv

(* A launcher that exits and leaves the pid file alone.                    *)
LEMMA ExitKeeps ==
  ASSUME StartInv, NEW i \in Runs, Active(i), NEW how \in Ended \ {"started"},
         Exit(i, how), UNCHANGED <<self, daemon, bound, file>>
  PROVE  Rest'
<1>1. /\ ProcInv' /\ OneRunHolds' /\ HoldsBound' /\ stage'[i] = how
      /\ \A j \in Runs : j # i => stage'[j] = stage[j]
      /\ \A j \in Runs : Serving(j)' => Serving(j)
  BY ExitStep
<1>2. how \notin {"started", "open", "write"}
  BY DEF Ended
<1>3. \A j \in Runs : stage'[j] \in {"started", "open", "write"} => stage'[j] = stage[j]
  BY <1>1, <1>2
<1>4. FileInv'
  BY <1>1, <1>3, FileKept DEF StartInv
<1> QED BY <1>1, <1>4 DEF Rest

LEMMA LaunchKeeps ==
  ASSUME StartInv, NEW i \in Runs, Launch(i) PROVE Rest'
<1>1. PICK p \in Pids : /\ proc[p] = Free
                        /\ self' = [self EXCEPT ![i] = p]
                        /\ proc' = [proc EXCEPT ![p] = Launcher(i)]
  BY DEF Launch, NewPids
<1>2. /\ self'[i] = p /\ \A j \in Runs : j # i => self'[j] = self[j]
      /\ proc'[p] = Launcher(i) /\ \A q \in Pids : q # p => proc'[q] = proc[q]
  BY <1>1 DEF StartInv, TypeOK
<1>3. /\ stage[i] = "idle" /\ stage'[i] = "check"
      /\ \A j \in Runs : j # i => stage'[j] = stage[j]
      /\ UNCHANGED <<daemon, bound, holds, file>>
  BY DEF Launch, StartInv, TypeOK
<1>4. ProcInv'
  <2>1. (\A j \in Runs : Active(j) => self[j] \in Pids /\ proc[self[j]] = Launcher(j))'
    <3> TAKE j \in Runs
    <3> HAVE Active(j)'
    <3>1. CASE j = i
      BY <1>2, <3>1
    <3>2. CASE j # i
      <4>1. self[j] \in Pids /\ proc[self[j]] = Launcher(j)
        BY <1>3, <3>2 DEF Active, StartInv, ProcInv
      <4> QED BY <1>1, <1>2, <3>2, <4>1, Kinds
    <3> QED BY <3>1, <3>2
  <2>2. (\A j \in Runs, q \in Pids : proc[q] = Launcher(j) => Active(j) /\ self[j] = q)'
    <3> TAKE j \in Runs, q \in Pids
    <3> HAVE proc'[q] = Launcher(j)
    <3>1. CASE q = p
      BY <1>2, <1>3, <3>1, Kinds DEF Active
    <3>2. CASE q # p
      <4>1. proc[q] = Launcher(j)
        BY <1>2, <3>2
      <4>2. Active(j) /\ self[j] = q
        BY <4>1 DEF StartInv, ProcInv
      <4>3. j # i
        BY <1>3, <4>2 DEF Active
      <4> QED BY <1>2, <1>3, <4>2, <4>3 DEF Active
    <3> QED BY <3>1, <3>2
  <2>3. (\A j \in Runs, q \in Pids : proc[q] = Daemon(j) => daemon[j] = q)'
    BY <1>2, <1>3, Kinds DEF StartInv, ProcInv
  <2>4. (\A j \in Runs : stage[j] \in {"idle", "check", "probe", "listen"} => daemon[j] = None)'
    BY <1>3 DEF StartInv, ProcInv
  <2>5. (\A j \in Runs : stage[j] \in {"open", "write"} => daemon[j] \in Pids)'
    BY <1>3 DEF StartInv, ProcInv
  <2> QED BY <2>1, <2>2, <2>3, <2>4, <2>5 DEF ProcInv
<1>5. \A a \in Addresses : \A q \in holds[a] : q # p /\ q \in Pids
  BY <1>1, Kinds DEF StartInv, OneRunHolds, OfRun, TypeOK
<1>6. OneRunHolds'
  <2>1. \A a \in Addresses : \A q \in holds[a] : \A j : OfRun(q, j)' = OfRun(q, j)
    BY <1>2, <1>5 DEF OfRun
  <2> QED BY <1>3, <2>1 DEF StartInv, OneRunHolds
<1>7. \A j \in Runs : Serving(j)' => Serving(j)
  BY <1>2, <1>3, Kinds DEF Serving, StartInv, TypeOK
<1>8. HoldsBound'
  BY <1>2, <1>3, <1>7 DEF StartInv, HoldsBound
<1>9. FileInv'
  BY <1>3, <1>7, FileKept DEF StartInv
<1> QED BY <1>4, <1>6, <1>8, <1>9 DEF Rest

LEMMA CheckKeeps ==
  ASSUME StartInv, NEW i \in Runs, ReadFile(i) \/ Probe(i) PROVE Rest'
<1>1. /\ stage[i] \in {"check", "probe"} /\ Active(i)
      /\ UNCHANGED <<self, daemon, bound, file>>
  BY DEF ReadFile, Probe, Active
<1>2. CASE Exit(i, "unable") \/ Exit(i, "refused")
  BY <1>1, <1>2, ExitKeeps DEF Ended
<1>3. ASSUME NEW next \in {"probe", "listen"},
             stage' = [stage EXCEPT ![i] = next], UNCHANGED <<proc, holds>>
      PROVE  Rest'
  <2>1. /\ ProcInv' /\ OneRunHolds' /\ HoldsBound' /\ stage'[i] = next
        /\ \A j \in Runs : j # i => stage'[j] = stage[j]
        /\ \A j \in Runs : Serving(j)' => Serving(j)
    BY <1>1, <1>3, MoveStep
  <2>2. FileInv'
    BY <1>1, <2>1, FileKept DEF StartInv
  <2> QED BY <2>1, <2>2 DEF Rest
<1>4. \/ Exit(i, "unable") \/ Exit(i, "refused")
      \/ \E next \in {"probe", "listen"} :
           stage' = [stage EXCEPT ![i] = next] /\ UNCHANGED <<proc, holds>>
  BY DEF ReadFile, Probe
<1> QED BY <1>2, <1>3, <1>4

LEMMA ListenKeeps ==
  ASSUME StartInv, NEW i \in Runs, Listen(i) PROVE Rest'
<1> DEFINE b == bound[i] + 1
           a == Addrs[b]
<1>1. /\ stage[i] = "listen" /\ Active(i) /\ b \in 1 .. Len(Addrs)
      /\ UNCHANGED <<self, daemon, file>>
  BY StartupAssumption DEF Listen, Active, StartInv, TypeOK
<1>2. CASE Exit(i, "failed") /\ UNCHANGED bound
  BY <1>1, <1>2, ExitKeeps DEF Ended
<1>3. CASE /\ holds[a] = {} /\ holds' = [holds EXCEPT ![a] = {self[i]}]
           /\ bound' = [bound EXCEPT ![i] = @ + 1] /\ UNCHANGED <<stage, proc>>
  <2>1. a \in Addresses
    BY <1>1 DEF Addresses
  <2>2. holds'[a] = {self[i]} /\ \A x \in Addresses : x # a => holds'[x] = holds[x]
    BY <1>3, <2>1 DEF StartInv, TypeOK
  <2>3. bound'[i] = b /\ \A j \in Runs : j # i => bound'[j] = bound[j]
    BY <1>3 DEF StartInv, TypeOK
  <2>4. bound[i] \in Nat
    BY DEF StartInv, TypeOK
  <2> HIDE DEF a
  <2>5. ProcInv'
    BY <1>1, <1>3 DEF StartInv, ProcInv, Active
  <2>6. OneRunHolds'
    <3>1. \A p, j : OfRun(p, j)' = OfRun(p, j)
      BY <1>3 DEF OfRun
    <3>2. OfRun(self[i], i)
      BY <1>1 DEF StartInv, ProcInv, OfRun
    <3> QED BY <2>2, <3>1, <3>2 DEF StartInv, OneRunHolds
  <2>7. \A x \in Addresses : holds[x] \subseteq holds'[x]
    BY <1>3, <2>2
  <2>8. HoldsBound'
    <3>1. (\A j \in Runs : stage[j] \in {"idle", "check", "probe"} => bound[j] = 0)'
      BY <1>1, <1>3, <2>3 DEF StartInv, HoldsBound
    <3>2. (\A j \in Runs : stage[j] = "listen" => \A k \in 1 .. bound[j] : self[j] \in holds[Addrs[k]])'
      <4> TAKE j \in Runs
      <4> HAVE stage'[j] = "listen"
      <4> TAKE k \in 1 .. bound'[j]
      <4>1. CASE j = i /\ k = b
        BY <1>1, <2>2, <4>1 DEF a
      <4>2. CASE j # i \/ k # b
        <5>1. k \in 1 .. bound[j]
          BY <2>3, <2>4, <4>2
        <5>2. self[j] \in holds[Addrs[k]]
          BY <1>3, <5>1 DEF StartInv, HoldsBound
        <5>3. Addrs[k] \in Addresses
          BY <5>1, StartupAssumption DEF StartInv, TypeOK, Addresses
        <5> QED BY <1>1, <2>7, <5>2, <5>3
      <4> QED BY <4>1, <4>2
    <3>3. (\A j \in Runs : stage[j] \in {"open", "write"} => \A x \in Addresses : self[j] \in holds[x])'
      BY <1>1, <1>3, <2>7 DEF StartInv, HoldsBound
    <3>4. (\A j \in Runs : Serving(j) => \A x \in Addresses : daemon[j] \in holds[x])'
      BY <1>1, <1>3, <2>7 DEF StartInv, HoldsBound, Serving
    <3> QED BY <3>1, <3>2, <3>3, <3>4 DEF HoldsBound
  <2>9. FileInv'
    BY <1>1, <1>3 DEF StartInv, FileInv, EmptyInv, FileNamesDaemon, Serving
  <2> QED BY <2>5, <2>6, <2>8, <2>9 DEF Rest
<1> QED BY <1>2, <1>3 DEF Listen

(* The launcher has bound the whole list, so the daemon's copy of the      *)
(* sockets is one of that list, and nobody else has any of them.           *)
LEMMA ForkKeeps ==
  ASSUME StartInv, NEW i \in Runs, Fork(i) PROVE Rest'
<1>1. /\ stage[i] = "listen" /\ bound[i] = Len(Addrs) /\ Active(i)
      /\ UNCHANGED <<self, bound, file>>
  BY DEF Fork, Active
<1>2. CASE Exit(i, "failed") /\ UNCHANGED <<daemon, used>>
  BY <1>1, <1>2, ExitKeeps DEF Ended
<1>3. CASE \E p \in NewPids :
             /\ daemon' = [daemon EXCEPT ![i] = p]
             /\ proc' = [proc EXCEPT ![p] = Daemon(i)]
             /\ holds' = [a \in Addresses |-> holds[a] \cup {p}]
             /\ stage' = [stage EXCEPT ![i] = "open"]
  <2>1. PICK p \in Pids : /\ proc[p] = Free
                          /\ daemon' = [daemon EXCEPT ![i] = p]
                          /\ proc' = [proc EXCEPT ![p] = Daemon(i)]
                          /\ holds' = [a \in Addresses |-> holds[a] \cup {p}]
                          /\ stage' = [stage EXCEPT ![i] = "open"]
    BY <1>3 DEF NewPids
  <2>2. /\ proc'[p] = Daemon(i) /\ \A q \in Pids : q # p => proc'[q] = proc[q]
        /\ daemon'[i] = p /\ \A j \in Runs : j # i => daemon'[j] = daemon[j]
    BY <2>1 DEF StartInv, TypeOK
  <2>3. stage'[i] = "open" /\ \A j \in Runs : j # i => stage'[j] = stage[j]
    BY <2>1 DEF StartInv, TypeOK
  <2>4. \A a \in Addresses : holds'[a] = holds[a] \cup {p}
    BY <2>1
  <2>5. daemon[i] = None
    BY <1>1 DEF StartInv, ProcInv
  <2>6. \A j \in Runs : Active(j) => self[j] # p /\ self[j] \in Pids
    BY <2>1, Kinds DEF StartInv, ProcInv
  <2>7. \A a \in Addresses : self[i] \in holds[a]
    <3> TAKE a \in Addresses
    <3>1. PICK k \in 1 .. Len(Addrs) : a = Addrs[k]
      BY DEF Addresses
    <3> QED BY <1>1, <3>1 DEF StartInv, HoldsBound
  <2>8. ProcInv'
    <3>1. (\A j \in Runs : Active(j) => self[j] \in Pids /\ proc[self[j]] = Launcher(j))'
      <4> TAKE j \in Runs
      <4> HAVE Active(j)'
      <4>1. Active(j)
        BY <1>1, <2>3 DEF Active
      <4> QED BY <1>1, <2>2, <2>6, <4>1 DEF StartInv, ProcInv
    <3>2. (\A j \in Runs, q \in Pids : proc[q] = Launcher(j) => Active(j) /\ self[j] = q)'
      <4> TAKE j \in Runs, q \in Pids
      <4> HAVE proc'[q] = Launcher(j)
      <4>1. proc[q] = Launcher(j)
        BY <2>2, Kinds
      <4>2. Active(j) /\ self[j] = q
        BY <4>1 DEF StartInv, ProcInv
      <4> QED BY <1>1, <2>3, <4>2 DEF Active
    <3>3. (\A j \in Runs, q \in Pids : proc[q] = Daemon(j) => daemon[j] = q)'
      <4> TAKE j \in Runs, q \in Pids
      <4> HAVE proc'[q] = Daemon(j)
      <4>1. CASE q = p
        BY <2>2, <4>1, Kinds
      <4>2. CASE q # p
        <5>1. daemon[j] = q
          BY <2>2, <4>2 DEF StartInv, ProcInv
        <5> QED BY <2>2, <2>5, <5>1, NoneIsNoPid
      <4> QED BY <4>1, <4>2
    <3>4. (\A j \in Runs : stage[j] \in {"idle", "check", "probe", "listen"} => daemon[j] = None)'
      BY <2>2, <2>3 DEF StartInv, ProcInv
    <3>5. (\A j \in Runs : stage[j] \in {"open", "write"} => daemon[j] \in Pids)'
      BY <2>2, <2>3 DEF StartInv, ProcInv
    <3> QED BY <3>1, <3>2, <3>3, <3>4, <3>5 DEF ProcInv
  <2>9. OneRunHolds'
    <3>1. \A a \in Addresses : \A q \in holds[a] : OfRun(q, i)
      <4>1. OfRun(self[i], i)
        BY <1>1 DEF StartInv, ProcInv, OfRun
      <4> QED BY <2>7, <4>1 DEF StartInv, OneRunHolds
    <3>2. \A a \in Addresses : \A q \in holds[a] : q # p /\ q \in Pids
      BY <2>1, <3>1, Kinds DEF StartInv, TypeOK, OfRun
    <3>3. \A a \in Addresses : \A q \in holds'[a] : OfRun(q, i)'
      BY <2>2, <2>4, <3>1, <3>2 DEF OfRun
    <3>4. \A q, j : OfRun(q, i)' /\ OfRun(q, j)' => i = j
      BY Kinds DEF OfRun
    <3> QED BY <3>3, <3>4 DEF OneRunHolds
  <2>10. HoldsBound'
    <3>1. (\A j \in Runs : stage[j] \in {"idle", "check", "probe"} => bound[j] = 0)'
      BY <1>1, <2>3 DEF StartInv, HoldsBound
    <3>2. (\A j \in Runs : stage[j] = "listen" => \A k \in 1 .. bound[j] : self[j] \in holds[Addrs[k]])'
      <4> TAKE j \in Runs
      <4> HAVE stage'[j] = "listen"
      <4> TAKE k \in 1 .. bound'[j]
      <4>1. stage[j] = "listen" /\ k \in 1 .. bound[j] /\ self'[j] = self[j]
        BY <1>1, <2>3
      <4>2. Addrs[k] \in Addresses
        BY <4>1, StartupAssumption DEF StartInv, TypeOK, Addresses
      <4> QED BY <2>4, <4>1, <4>2 DEF StartInv, HoldsBound
    <3>3. (\A j \in Runs : stage[j] \in {"open", "write"} => \A a \in Addresses : self[j] \in holds[a])'
      BY <1>1, <2>3, <2>4, <2>7 DEF StartInv, HoldsBound
    <3>4. (\A j \in Runs : Serving(j) => \A a \in Addresses : daemon[j] \in holds[a])'
      <4> TAKE j \in Runs
      <4> HAVE Serving(j)'
      <4>1. CASE j = i
        BY <2>2, <2>4, <4>1
      <4>2. CASE j # i
        <5>1. Serving(j) /\ daemon'[j] = daemon[j]
          BY <2>2, <4>2, Kinds DEF Serving, StartInv, TypeOK
        <5> QED BY <2>4, <5>1 DEF StartInv, HoldsBound
      <4> QED BY <4>1, <4>2
    <3> QED BY <3>1, <3>2, <3>3, <3>4 DEF HoldsBound
  <2>11. FileInv'
    <3>1. ASSUME NEW j \in Runs, stage'[j] = "started", Serving(j)'
          PROVE  stage[j] = "started" /\ Serving(j) /\ daemon'[j] = daemon[j]
      <4>1. j # i /\ stage[j] = "started"
        BY <2>3, <3>1
      <4>2. Serving(j) /\ daemon'[j] = daemon[j]
        BY <2>2, <3>1, <4>1, Kinds DEF Serving, StartInv, TypeOK
      <4> QED BY <4>1, <4>2
    <3>2. FileNamesDaemon'
      BY <1>1, <3>1 DEF StartInv, FileInv, FileNamesDaemon
    <3>3. EmptyInv'
      BY <1>1, <2>3 DEF StartInv, FileInv, EmptyInv
    <3> QED BY <3>2, <3>3 DEF FileInv
  <2> QED BY <2>8, <2>9, <2>10, <2>11 DEF Rest
<1> QED BY <1>2, <1>3 DEF Fork

(* createPIDFile, and then the launcher's exit.  It has all the sockets,   *)
(* so no daemon of another run serves whose name it could overwrite.       *)
LEMMA FileKeeps ==
  ASSUME StartInv, NEW i \in Runs, OpenFile(i) \/ WriteFile(i) PROVE Rest'
<1>1. /\ stage[i] \in {"open", "write"} /\ Active(i)
      /\ UNCHANGED <<self, daemon, bound>>
  BY DEF OpenFile, WriteFile, Active
<1>2. CASE Exit(i, "unrecorded") /\ UNCHANGED file
  BY <1>1, <1>2, ExitKeeps DEF Ended
<1>3. \A j \in Runs : Serving(j) => j = i
  BY <1>1, Alone
<1>4. \A j \in Runs : stage[j] \in {"open", "write"} => j = i
  BY <1>1, OneRecords
<1>5. CASE /\ OpenFile(i) /\ stage' = [stage EXCEPT ![i] = "write"]
           /\ file' = "empty" /\ UNCHANGED <<proc, holds>>
  <2>1. /\ ProcInv' /\ OneRunHolds' /\ HoldsBound' /\ stage'[i] = "write"
        /\ \A j \in Runs : Serving(j)' => Serving(j)
    BY <1>1, <1>5, MoveStep DEF OpenFile
  <2>2. FileInv'
    BY <1>3, <1>5, <2>1 DEF FileInv, EmptyInv, FileNamesDaemon
  <2> QED BY <2>1, <2>2 DEF Rest
<1>6. CASE /\ WriteFile(i) /\ Exit(i, "started")
           /\ file' = daemon[i] \/ (file' = file /\ "file fails" \in Faults)
  <2>1. /\ ProcInv' /\ OneRunHolds' /\ HoldsBound' /\ stage'[i] = "started"
        /\ \A j \in Runs : j # i => stage'[j] = stage[j]
        /\ \A j \in Runs : Serving(j)' => Serving(j)
    BY <1>1, <1>6, ExitStep DEF Ended
  <2>2. file = "empty"
    BY <1>6 DEF WriteFile, StartInv, FileInv, EmptyInv
  <2>3. FileNamesDaemon'
    BY <1>1, <1>3, <1>6, <2>1, <2>2 DEF FileNamesDaemon
  <2>4. EmptyInv'
    BY <1>4, <2>1 DEF EmptyInv
  <2> QED BY <2>1, <2>3, <2>4 DEF Rest, FileInv
<1> QED BY <1>2, <1>5, <1>6 DEF OpenFile, WriteFile

(* A process that is no bouncer appears or disappears.                     *)
LEMMA StrangerStep ==
  ASSUME StartInv, NEW p \in Pids, NEW old \in {Free, Other}, NEW new \in {Free, Other},
         proc[p] = old, proc' = [proc EXCEPT ![p] = new],
         UNCHANGED <<stage, self, daemon, bound, holds, file>>
  PROVE  Rest'
<1>1. \A q \in Pids, i \in Runs : /\ proc'[q] = Launcher(i) <=> proc[q] = Launcher(i)
                                  /\ proc'[q] = Daemon(i) <=> proc[q] = Daemon(i)
  BY Kinds DEF StartInv, TypeOK
<1>2. ProcInv'
  BY <1>1 DEF StartInv, ProcInv, Active
<1>3. OneRunHolds'
  BY <1>1 DEF StartInv, OneRunHolds, OfRun, TypeOK
<1>4. \A i \in Runs : Serving(i)' <=> Serving(i)
  BY <1>1, NoneIsNoPid DEF Serving, StartInv, TypeOK
<1>5. HoldsBound'
  BY <1>4 DEF StartInv, HoldsBound
<1>6. FileInv'
  BY <1>4 DEF StartInv, FileInv, EmptyInv, FileNamesDaemon
<1> QED BY <1>2, <1>3, <1>5, <1>6 DEF Rest

LEMMA MachineKeeps ==
  ASSUME StartInv, Machine PROVE Rest'
<1>1. ASSUME NEW i \in Runs, LauncherKilled(i) PROVE Rest'
  <2>1. Active(i) /\ UNCHANGED <<self, daemon, bound, file>>
    BY <1>1 DEF LauncherKilled, Active, StartInv, TypeOK
  <2>2. Exit(i, "killed")
    BY <1>1 DEF LauncherKilled
  <2> QED BY <2>1, <2>2, ExitKeeps DEF Ended
<1>2. ASSUME NEW ps, Gone(ps), UNCHANGED <<self, daemon, bound, file>>,
             \A i \in Runs : stage'[i] = stage[i] \/ stage'[i] = "killed",
             \A i \in Runs : Active(i) => (self[i] \in ps <=> stage'[i] = "killed")
      PROVE  Rest'
  <2>1. /\ \A i \in Runs : stage'[i] = stage[i] \/ stage'[i] \in Ended
        /\ \A i \in Runs : Active(i) => (self[i] \in ps <=> stage'[i] \in Ended)
    BY <1>2 DEF Ended, Active
  <2>2. ProcInv' /\ OneRunHolds' /\ HoldsBound'
    BY <1>2, <2>1, GoneStep
  <2>3. \A i \in Runs : Serving(i)' => Serving(i)
    BY <1>2, Kinds DEF Serving, Gone, StartInv, TypeOK
  <2>4. FileInv'
    BY <1>2, <2>3, FileKept DEF StartInv
  <2> QED BY <2>2, <2>4 DEF Rest
<1>3. ASSUME NEW i \in Runs, DaemonKilled(i) PROVE Rest'
  <2>1. /\ Gone({daemon[i]}) /\ proc[daemon[i]] = Daemon(i)
        /\ UNCHANGED <<stage, self, daemon, bound, file>>
    BY <1>3 DEF DaemonKilled
  <2>2. \A j \in Runs : Active(j) => self[j] # daemon[i] /\ stage[j] # "killed"
    BY <2>1, Kinds DEF StartInv, ProcInv, Active
  <2> QED BY <1>2, <2>1, <2>2
<1>4. CASE Reboot
  <2>1. \A i \in Runs : stage'[i] = IF stage[i] \in Ended \cup {"idle"} THEN stage[i] ELSE "killed"
    BY <1>4 DEF Reboot
  <2>2. \A i \in Runs : Active(i) => self[i] \in Pids /\ stage'[i] = "killed"
    BY <2>1 DEF StartInv, ProcInv, Active, Ended
  <2>3. \A i \in Runs : stage'[i] = stage[i] \/ stage'[i] = "killed"
    BY <2>1
  <2> QED BY <1>2, <1>4, <2>2, <2>3 DEF Reboot
<1>5. CASE OtherStarts
  <2>1. PICK p \in Pids : /\ proc[p] = Free /\ proc' = [proc EXCEPT ![p] = Other]
                          /\ UNCHANGED <<stage, self, daemon, bound, holds, file>>
    BY <1>5 DEF OtherStarts, NewPids
  <2> QED BY <2>1, StrangerStep
<1>6. CASE OtherExits
  <2>1. PICK p \in Pids : /\ proc[p] = Other /\ proc' = [proc EXCEPT ![p] = Free]
                          /\ UNCHANGED <<stage, self, daemon, bound, holds, file>>
    BY <1>6 DEF OtherExits
  <2> QED BY <2>1, StrangerStep
<1> QED BY <1>1, <1>3, <1>4, <1>5, <1>6 DEF Machine

-----------------------------------------------------------------------------
LEMMA StartInvariant == Spec => []StartInv
<1>1. Init => StartInv
  <2> SUFFICES ASSUME Init PROVE StartInv
    OBVIOUS
  <2>1. TypeOK
    BY StartupAssumption DEF Init, TypeOK
  <2>2. \A p \in Pids : proc[p] = Free
    BY DEF Init
  <2>3. \A i \in Runs : stage[i] = "idle" /\ daemon[i] = None /\ bound[i] = 0
    BY DEF Init
  <2>4. ProcInv
    BY <2>2, <2>3, Kinds DEF ProcInv, Active
  <2>5. OneRunHolds
    BY DEF Init, OneRunHolds
  <2>6. HoldsBound /\ FileInv
    BY <2>3 DEF HoldsBound, Serving, FileInv, EmptyInv, FileNamesDaemon
  <2> QED BY <2>1, <2>4, <2>5, <2>6 DEF StartInv
<1>2. StartInv /\ [Next]_vars => StartInv'
  <2> SUFFICES ASSUME StartInv, [Next]_vars PROVE StartInv'
    OBVIOUS
  <2>1. TypeOK'
    BY TypeStep
  <2>2. Rest'
    <3>1. CASE \E i \in Runs : Run(i)
      BY <3>1, LaunchKeeps, CheckKeeps, ListenKeeps, ForkKeeps, FileKeeps DEF Run
    <3>2. CASE Machine
      BY <3>2, MachineKeeps
    <3>3. CASE UNCHANGED vars
      <4>1. UNCHANGED <<stage, self, daemon, seen, bound, proc, used, holds, file>>
        BY <3>3 DEF vars
      <4>2. ProcInv'
        BY ONLY <4>1, StartInv DEF StartInv, ProcInv, Active
      <4>3. OneRunHolds'
        BY ONLY <4>1, StartInv DEF StartInv, OneRunHolds, OfRun
      <4>4. HoldsBound'
        BY ONLY <4>1, StartInv DEF StartInv, HoldsBound, Serving
      <4>5. FileInv'
        BY ONLY <4>1, StartInv DEF StartInv, FileInv, EmptyInv, FileNamesDaemon, Serving
      <4> QED BY <4>2, <4>3, <4>4, <4>5 DEF Rest
    <3> QED BY <3>1, <3>2, <3>3 DEF Next
  <2> QED BY <2>1, <2>2 DEF StartInv, Rest
<1> QED BY <1>1, <1>2, PTL DEF Spec

(* The types of the variables, for any number of runs, pids and addresses. *)
THEOREM StartupTypeCorrect == Spec => []TypeOK
<1>1. StartInv => TypeOK
  BY DEF StartInv
<1> QED BY <1>1, StartInvariant, PTL

(* However the runs of the program interleave and die, at most one daemon  *)
(* serves, and it serves every bouncer (main, Server_listenAll).           *)
THEOREM OneDaemonServes == Spec => []OneDaemon
<1>1. StartInv => OneDaemon
  <2> SUFFICES ASSUME StartInv PROVE OneDaemon
    OBVIOUS
  <2>1. \A i \in Runs : Serving(i) => \A a \in Addresses : daemon[i] \in holds[a]
    BY DEF StartInv, HoldsBound
  <2>2. \A i, j \in Runs : Serving(i) /\ Serving(j) => i = j
    BY Alone
  <2> QED BY <2>1, <2>2 DEF OneDaemon
<1> QED BY <1>1, StartInvariant, PTL

(* While the daemon of a run that ended without a warning lives, the pid   *)
(* file names it and never anybody else; it is empty only where a write    *)
(* to the file may fail (createPIDFile, and the exit of main).             *)
THEOREM TheFileNamesTheDaemon == Spec => []FileNamesDaemon
<1>1. StartInv => FileNamesDaemon
  BY DEF StartInv, FileInv
<1> QED BY <1>1, StartInvariant, PTL

=============================================================================
