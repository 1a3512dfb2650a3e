------------------------------ MODULE Startup ------------------------------
(***************************************************************************)
(* Starting the bouncer (main, and Server_listenAll, daemonise,            *)
(* isAlreadyRunning and createPIDFile, which it calls).  Several runs of   *)
(* the program with one config file share the pid file and compete for the *)
(* listening addresses; any of them may be killed or the machine rebooted  *)
(* at any point.  A run has two processes: the launcher, which the user    *)
(* started, and the daemon it forks; both hold the listening sockets until *)
(* they exit.                                                              *)
(***************************************************************************)
EXTENDS Integers, Sequences, FiniteSets

CONSTANTS
  Runs,     \* the runs of the program
  Pids,     \* process ids
  Addrs,    \* the listenip:port of each bouncer, as Server_listenAll goes
            \* through them (fixed ports: port 0 would never be taken)
  Faults    \* what may go wrong beside a daemon that is killed

FaultType == {"launcher killed", "reboot", "pid reused", "file fails"}

ASSUME StartupAssumption ==
  /\ IsFiniteSet(Pids)
  /\ Len(Addrs) \in Nat \ {0}
  /\ Faults \subseteq FaultType

None == "none"
ASSUME NoneAssumption == Pids \cap {None, "absent", "empty"} = {}

VARIABLES
  stage,    \* where each launcher is, or how it ended
  self,     \* the pid of each launcher
  daemon,   \* what fork returned to each launcher
  seen,     \* the pid each launcher read from the pid file
  bound,    \* how many addresses each launcher has bound
  proc,     \* which process has each pid
  used,     \* the pids given out since the machine was booted
  holds,    \* the pids that hold the listening socket of each address
  file      \* the pid file: its content, "absent", or "empty"

vars == <<stage, self, daemon, seen, bound, proc, used, holds, file>>

Addresses == {Addrs[k] : k \in 1 .. Len(Addrs)}
Free == <<"free">>
Other == <<"other">>
Launcher(i) == <<"launcher", i>>
Daemon(i) == <<"daemon", i>>

Ended == {"refused", "unable", "failed", "started", "unrecorded", "killed"}

Init ==
  /\ stage = [i \in Runs |-> "idle"]
  /\ self = [i \in Runs |-> None]
  /\ daemon = [i \in Runs |-> None]
  /\ seen = [i \in Runs |-> None]
  /\ bound = [i \in Runs |-> 0]
  /\ proc = [p \in Pids |-> Free]
  /\ used = {}
  /\ holds = [a \in Addresses |-> {}]
  /\ file = "absent"

-----------------------------------------------------------------------------
(* Processes.                                                              *)

(* Pids the kernel may give to a new process.                              *)
NewPids == {p \in Pids : proc[p] = Free /\ (p \notin used \/ "pid reused" \in Faults)}

(* The processes ps are gone, and their sockets with them.                 *)
Gone(ps) ==
  /\ proc' = [p \in Pids |-> IF p \in ps THEN Free ELSE proc[p]]
  /\ holds' = [a \in Addresses |-> holds[a] \ ps]

(* The launcher exits, with the sockets it holds.                          *)
Exit(i, how) ==
  /\ stage' = [stage EXCEPT ![i] = how]
  /\ Gone({self[i]})

-----------------------------------------------------------------------------
(* main, up to the check of the pid file.                                  *)
Launch(i) ==
  /\ stage[i] = "idle"
  /\ \E p \in NewPids :
       /\ self' = [self EXCEPT ![i] = p]
       /\ proc' = [proc EXCEPT ![p] = Launcher(i)]
       /\ used' = used \cup {p}
  /\ stage' = [stage EXCEPT ![i] = "check"]
  /\ UNCHANGED <<daemon, seen, bound, holds, file>>

(* isAlreadyRunning: fopen, which may fail although there is a file, and   *)
(* fscanf.                                                                 *)
ReadFile(i) ==
  /\ stage[i] = "check"
  /\ \/ /\ file = "absent"
        /\ stage' = [stage EXCEPT ![i] = "listen"]
        /\ UNCHANGED <<seen, proc, holds>>
     \/ /\ file \in Pids
        /\ seen' = [seen EXCEPT ![i] = file]
        /\ stage' = [stage EXCEPT ![i] = "probe"]
        /\ UNCHANGED <<proc, holds>>
     \/ /\ file = "empty" \/ "file fails" \in Faults
        /\ Exit(i, "unable")
        /\ UNCHANGED seen
  /\ UNCHANGED <<self, daemon, bound, used, file>>

(* isAlreadyRunning: kill(pid, 0), which finds no process, finds one, or   *)
(* finds one of another user.                                              *)
Probe(i) ==
  /\ stage[i] = "probe"
  /\ \/ /\ proc[seen[i]] = Free
        /\ stage' = [stage EXCEPT ![i] = "listen"]
        /\ UNCHANGED <<proc, holds>>
     \/ /\ proc[seen[i]] # Free
        /\ Exit(i, "refused")
     \/ /\ proc[seen[i]] = Other
        /\ Exit(i, "unable")
  /\ UNCHANGED <<self, daemon, seen, bound, used, file>>

(* Mutant: a bouncer that cannot listen is skipped.                        *)
ListenSkips(i) ==
  /\ stage[i] = "listen" /\ bound[i] < Len(Addrs)
  /\ LET a == Addrs[bound[i] + 1] IN
     \/ holds[a] = {} /\ holds' = [holds EXCEPT ![a] = {self[i]}]
     \/ holds[a] # {} /\ UNCHANGED holds
  /\ bound' = [bound EXCEPT ![i] = @ + 1]
  /\ UNCHANGED <<stage, self, daemon, seen, proc, used, file>>

(* Server_listenAll, one bouncer at a time: bind fails when another        *)
(* process listens there, and any failure closes what was opened.          *)
Listen(i) ==
  /\ stage[i] = "listen" /\ bound[i] < Len(Addrs)
  /\ LET a == Addrs[bound[i] + 1] IN
     \/ /\ holds[a] = {}
        /\ holds' = [holds EXCEPT ![a] = {self[i]}]
        /\ bound' = [bound EXCEPT ![i] = @ + 1]
        /\ UNCHANGED <<stage, proc>>
     \/ /\ Exit(i, "failed")
        /\ UNCHANGED bound
  /\ UNCHANGED <<self, daemon, seen, used, file>>

(* Mutants: the launcher closes the sockets as soon as it has forked; a    *)
(* failing fork is taken for the launcher's side of a successful one.      *)
ForkCloses(i) ==
  /\ stage[i] = "listen" /\ bound[i] = Len(Addrs)
  /\ \E p \in NewPids :
       /\ daemon' = [daemon EXCEPT ![i] = p]
       /\ proc' = [proc EXCEPT ![p] = Daemon(i)]
       /\ used' = used \cup {p}
       /\ holds' = [a \in Addresses |-> {p}]
       /\ stage' = [stage EXCEPT ![i] = "open"]
  /\ UNCHANGED <<self, seen, bound, file>>

ForkUnchecked(i) ==
  /\ stage[i] = "listen" /\ bound[i] = Len(Addrs)
  /\ stage' = [stage EXCEPT ![i] = "open"]
  /\ UNCHANGED <<self, daemon, seen, bound, proc, used, holds, file>>

(* daemonise: the child has a copy of every listening socket.              *)
Fork(i) ==
  /\ stage[i] = "listen" /\ bound[i] = Len(Addrs)
  /\ \/ \E p \in NewPids :
          /\ daemon' = [daemon EXCEPT ![i] = p]
          /\ proc' = [proc EXCEPT ![p] = Daemon(i)]
          /\ used' = used \cup {p}
          /\ holds' = [a \in Addresses |-> holds[a] \cup {p}]
          /\ stage' = [stage EXCEPT ![i] = "open"]
     \/ /\ Exit(i, "failed")
        /\ UNCHANGED <<daemon, used>>
  /\ UNCHANGED <<self, seen, bound, file>>

(* createPIDFile: fopen(pidFile, "w") truncates or creates the file; the   *)
(* pid gets there with fclose.  A failure is not fatal.                    *)
OpenFile(i) ==
  /\ stage[i] = "open"
  /\ \/ /\ file' = "empty"
        /\ stage' = [stage EXCEPT ![i] = "write"]
        /\ UNCHANGED <<proc, holds>>
     \/ /\ "file fails" \in Faults
        /\ Exit(i, "unrecorded")
        /\ UNCHANGED file
  /\ UNCHANGED <<self, daemon, seen, bound, used>>

(* Only a failing fprintf is reported.  It fills a buffer; whether the pid *)
(* gets to the file is decided by fclose, whose result is not looked at.   *)
WriteFile(i) ==
  /\ stage[i] = "write"
  /\ \/ file' = daemon[i] /\ Exit(i, "started")
     \/ /\ "file fails" \in Faults
        /\ file' = file
        /\ Exit(i, "started") \/ Exit(i, "unrecorded")
  /\ UNCHANGED <<self, daemon, seen, bound, used>>

-----------------------------------------------------------------------------
(* The rest of the machine.                                                *)

DaemonKilled(i) ==
  /\ daemon[i] # None /\ proc[daemon[i]] = Daemon(i)
  /\ Gone({daemon[i]})
  /\ UNCHANGED <<stage, self, daemon, seen, bound, used, file>>

LauncherKilled(i) ==
  /\ "launcher killed" \in Faults
  /\ stage[i] \notin Ended \cup {"idle"}
  /\ Exit(i, "killed")
  /\ UNCHANGED <<self, daemon, seen, bound, used, file>>

Reboot ==
  /\ "reboot" \in Faults
  /\ used # {}
  /\ Gone(Pids)
  /\ used' = {}
  /\ stage' = [i \in Runs |-> IF stage[i] \in Ended \cup {"idle"} THEN stage[i] ELSE "killed"]
  /\ UNCHANGED <<self, daemon, seen, bound, file>>

OtherStarts ==
  /\ \E p \in NewPids : proc' = [proc EXCEPT ![p] = Other] /\ used' = used \cup {p}
  /\ UNCHANGED <<stage, self, daemon, seen, bound, holds, file>>

OtherExits ==
  /\ \E p \in Pids : proc[p] = Other /\ proc' = [proc EXCEPT ![p] = Free]
  /\ UNCHANGED <<stage, self, daemon, seen, bound, used, holds, file>>

Run(i) ==
  \/ Launch(i) \/ ReadFile(i) \/ Probe(i) \/ Listen(i) \/ Fork(i)
  \/ OpenFile(i) \/ WriteFile(i)

Machine ==
  \/ Reboot \/ OtherStarts \/ OtherExits
  \/ \E i \in Runs : DaemonKilled(i) \/ LauncherKilled(i)

Next == Machine \/ \E i \in Runs : Run(i)

Spec == Init /\ [][Next]_vars

-----------------------------------------------------------------------------
(* Properties.                                                             *)

(* The types of the variables.                                             *)
TypeOK ==
  /\ stage \in [Runs -> Ended \cup {"idle", "check", "probe", "listen", "open", "write"}]
  /\ self \in [Runs -> Pids \cup {None}]
  /\ daemon \in [Runs -> Pids \cup {None}]
  /\ seen \in [Runs -> Pids \cup {None}]
  /\ bound \in [Runs -> 0 .. Len(Addrs)]
  /\ proc \in [Pids -> {Free, Other} \cup {Launcher(i) : i \in Runs} \cup {Daemon(i) : i \in Runs}]
  /\ used \subseteq Pids
  /\ holds \in [Addresses -> SUBSET Pids]
  /\ file \in Pids \cup {"absent", "empty"}

Serving(i) == daemon[i] # None /\ proc[daemon[i]] = Daemon(i)

(* A daemon serves every bouncer of the config file, and no two daemons    *)
(* serve at once, however the checks of two launchers interleave (the pid  *)
(* file is checked long before it is written; what excludes the second run *)
(* is that Server_listenAll gives up on the first address it cannot bind). *)
OneDaemon ==
  \A i \in Runs : Serving(i) =>
    /\ \A a \in Addresses : daemon[i] \in holds[a]
    /\ \A j \in Runs : Serving(j) => i = j

(* Once a run has ended without a warning, the pid file never names        *)
(* anything but its daemon for as long as that daemon lives: no other run, *)
(* however late, overwrites it (the launcher holds the sockets until the   *)
(* file is written, so nobody can get as far as createPIDFile before it    *)
(* exits).  It is empty only if fclose could not write it: that is the one *)
(* failure of which main.c:125 gives no warning.                           *)
FileNamesDaemon ==
  \A i \in Runs : stage[i] = "started" /\ Serving(i) =>
    file \in {daemon[i]} \cup IF "file fails" \in Faults THEN {"empty"} ELSE {}

(* "Bouncer already running!" (main.c:95), and a check that could not be   *)
(* made, happen only while another run serves or is recording its daemon.  *)
(* The crontab entry of README:12, "to start at boot", relies on it: what  *)
(* an earlier life of the machine left in the file must not keep the       *)
(* bouncer down.                                                           *)
RefusedOnlyIfRunning ==
  [][ \A i \in Runs :
        stage[i] \in {"check", "probe"} /\ stage'[i] \in {"refused", "unable"} =>
          \E j \in Runs : Serving(j) \/ stage[j] \in {"open", "write"} ]_vars

=============================================================================
