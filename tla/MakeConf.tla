------------------------------ MODULE MakeConf ------------------------------
(***************************************************************************)
(* The conf editor (makeconf.c) and the start of the bouncer that embeds   *)
(* its result (Config_loadEmbedded).  The editor is a loop over a stage    *)
(* counter: each round asks the stage's question, and then counts on,      *)
(* asks again, or gives up.  When all is answered the configuration is     *)
(* saved, encrypted under the password, and built into the bouncer, which  *)
(* later asks for the password, decrypts and loads it (module Config).     *)
(***************************************************************************)
EXTENDS Integers, Sequences

CONSTANTS
  IPs, IntMod, MaxPort,   \* as in Config
  EditorHosts,  \* texts that getaddrinfo resolves while the editor runs
  Hosts,        \* the same when the bouncer starts, as in Config
  Unprintable,  \* texts with a control character that is no white space
  Answers,      \* what the user may type at each stage
  MaxBouncers   \* bound on the bouncers entered

(* enum Stage; past the password comes the default case.                   *)
Stages == << "next", "listen", "remote", "local", "another", "idnt", "identtimeout",
             "idletimeout", "writetimeout", "dnslookup", "pidfile", "welcomemsg",
             "password", "end" >>

Number(name) == CHOOSE n \in 1 .. Len(Stages) : Stages[n] = name

VARIABLES
  stage,     \* the stage counter
  config,    \* the Config under construction
  bouncer,   \* << the Bouncer under construction >>, <<>> for NULL
  key,       \* the kind of password given: at least 16 characters or not
  phase,     \* "asking", how the editor ended, or the bouncer's start
             \* and how it ended
  asked,     \* the stages whose question was asked
  entered,   \* the bouncers the user has entered, in order
  file, at, conf, status   \* the loader of the bouncer

editor == <<stage, config, bouncer, key, asked, entered>>
loader == <<file, at, conf, status>>
vars == <<editor, phase, loader>>

C == INSTANCE Config WITH Files <- {<<>>}

(* Constants as in Config; and answers as promptInput returns them while   *)
(* there is input: an empty line stands for the default, so no text is     *)
(* empty, and none is the pointer NULL.  A terminal ends the line at a     *)
(* carriage return, so none is inside a text.                              *)
ASSUME MakeConfAssumption ==
  /\ IPs \subseteq Hosts
  /\ IntMod \in Nat /\ IntMod % 2 = 0 /\ MaxPort \in 0 .. (IntMod \div 2 - 1)
  /\ C!Null \notin Hosts /\ "(null)" \notin Hosts
  /\ \A t \in C!Timeouts : C!Default[t] < IntMod \div 2
  /\ MaxBouncers \in Nat

ASSUME AnswersAssumption ==
  /\ \A ans \in Answers["listen"] \cup Answers["remote"] : ans[2] # <<>> => ans[2][1] \in Int
  /\ \A t \in C!Timeouts : \A ans \in Answers[t] : ans # <<>> => ans[1] \in Int
  /\ \A t \in C!Texts : \A ans \in Answers[t] : ans # "" /\ ans # C!Null
  /\ Answers["password"] \subseteq {"tiny", "short", "full"}

(* Bouncer_new.                                                            *)
BouncerNew == [listenIP |-> C!Null, listenPort |-> -1, remoteHost |-> C!Null,
               remotePort |-> -1, localIP |-> C!Null]

Init ==
  /\ stage = Number("listen")
  /\ config = C!Default
  /\ bouncer = << BouncerNew >>
  /\ key = "none"
  /\ phase = "asking"
  /\ asked = {} /\ entered = <<>>
  /\ C!Init

-----------------------------------------------------------------------------
(* The outcomes of a stage.                                                *)

At(name) == phase = "asking" /\ stage = Number(name)
Ask == asked' = asked \cup {Stages[stage]}

Advance == stage' = stage + 1 /\ UNCHANGED phase
AskAgain == UNCHANGED <<stage, phase>>
GiveUp == phase' = "failed" /\ UNCHANGED stage

(* One option of the configuration is set.                                 *)
Set(option, v) == config' = [config EXCEPT ![option] = v]

-----------------------------------------------------------------------------
(* The questions about a bouncer.  A number is as in Config.  A wrong      *)
(* answer is asked for again; the host stored with a wrong port is taken   *)
(* back, and the port, which the next answer overwrites, left out here.    *)

Listen ==
  /\ At("listen") /\ Ask
  /\ \E ans \in Answers["listen"] :
       LET good == C!IsNumber(ans[2]) /\ C!isValidPort(ans[2][1]) IN
       \/ /\ ans[1] \in IPs /\ good
          /\ bouncer' = << [bouncer[1] EXCEPT !.listenIP = ans[1], !.listenPort = ans[2][1]] >>
          /\ Advance
       \/ /\ ans[1] \in IPs /\ good
          /\ GiveUp /\ UNCHANGED bouncer
       \/ /\ ans[1] \in IPs /\ ~good
          /\ bouncer' = << [bouncer[1] EXCEPT !.listenIP = C!Null] >>
          /\ AskAgain
       \/ /\ ans[1] \notin IPs
          /\ AskAgain /\ UNCHANGED bouncer
  /\ UNCHANGED <<config, key, entered, loader>>

(* Mutant: the port of the remote host is not checked.                     *)
RemoteAnyPort ==
  /\ At("remote") /\ Ask
  /\ \E ans \in Answers["remote"] :
       \/ /\ ans[1] \in EditorHosts /\ ans[2] # <<>>
          /\ bouncer' = << [bouncer[1] EXCEPT !.remoteHost = ans[1], !.remotePort = ans[2][1]] >>
          /\ Advance
       \/ /\ ans[1] \notin EditorHosts
          /\ AskAgain /\ UNCHANGED bouncer
  /\ UNCHANGED <<config, key, entered, loader>>

Remote ==
  /\ At("remote") /\ Ask
  /\ \E ans \in Answers["remote"] :
       LET good == C!IsNumber(ans[2]) /\ C!isValidPort(ans[2][1]) IN
       \/ /\ ans[1] \in EditorHosts /\ good
          /\ bouncer' = << [bouncer[1] EXCEPT !.remoteHost = ans[1], !.remotePort = ans[2][1]] >>
          /\ Advance
       \/ /\ ans[1] \in EditorHosts /\ good
          /\ GiveUp /\ UNCHANGED bouncer
       \/ /\ ans[1] \in EditorHosts /\ ~good
          /\ bouncer' = << [bouncer[1] EXCEPT !.remoteHost = C!Null] >>
          /\ AskAgain
       \/ /\ ans[1] \notin EditorHosts
          /\ AskAgain /\ UNCHANGED bouncer
  /\ UNCHANGED <<config, key, entered, loader>>

Local ==
  /\ At("local") /\ Ask
  /\ \E ans \in Answers["local"] :
       \/ ans = "None" /\ Advance /\ UNCHANGED bouncer
       \/ /\ ans \in IPs
          /\ bouncer' = << [bouncer[1] EXCEPT !.localIP = ans] >>
          /\ Advance
       \/ ans \in IPs /\ GiveUp /\ UNCHANGED bouncer
       \/ ans \notin IPs \cup {"None"} /\ AskAgain /\ UNCHANGED bouncer
  /\ UNCHANGED <<config, key, entered, loader>>

(* Mutants: the list keeps the order of entry; the next bouncer is not     *)
(* allocated.                                                              *)
AnotherAppends ==
  /\ At("another") /\ bouncer # <<>> /\ Ask
  /\ config' = [config EXCEPT !.bouncers = @ \o bouncer]
  /\ entered' = entered \o bouncer
  /\ \E ans \in Answers["another"] :
       \/ /\ ans = "yes" /\ Len(entered') < MaxBouncers
          /\ stage' = Number("next") + 1
          /\ bouncer' = << BouncerNew >>
       \/ /\ ans = "no"
          /\ stage' = stage + 2
          /\ bouncer' = <<>>
  /\ UNCHANGED <<phase, key, loader>>

AnotherNotNew ==
  /\ At("another") /\ bouncer # <<>> /\ Ask
  /\ config' = [config EXCEPT !.bouncers = bouncer \o @]
  /\ entered' = entered \o bouncer
  /\ bouncer' = <<>>
  /\ \E ans \in Answers["another"] :
       \/ ans = "yes" /\ Len(entered') < MaxBouncers /\ stage' = Number("next") + 1
       \/ ans = "no" /\ stage' = stage + 2
  /\ UNCHANGED <<phase, key, loader>>

(* The bouncer goes into the list before the question is asked.  A "no"    *)
(* counts the stage on here and once more after the switch.                *)
Another ==
  /\ At("another") /\ bouncer # <<>> /\ Ask
  /\ config' = [config EXCEPT !.bouncers = bouncer \o @]
  /\ entered' = entered \o bouncer
  /\ \E ans \in Answers["another"] :
       \/ /\ ans = "yes" /\ Len(entered') < MaxBouncers
          /\ stage' = Number("next") + 1
          /\ bouncer' = << BouncerNew >>
       \/ /\ ans = "no"
          /\ stage' = stage + 2
          /\ bouncer' = <<>>
       \/ /\ ans \notin {"yes", "no"}
          /\ UNCHANGED stage
          /\ bouncer' = <<>>
  /\ UNCHANGED <<phase, key, loader>>

(* The same with bouncer = NULL.                                           *)
AnotherNull ==
  /\ At("another") /\ bouncer = <<>>
  /\ phase' = "crashed"
  /\ UNCHANGED <<editor, loader>>

-----------------------------------------------------------------------------
(* The questions about options.                                            *)

(* Mutant: an answer that is understood counts the stage on twice, as "no" *)
(* does in Another.                                                        *)
FlagStageTwice(option) ==
  /\ At(option) /\ Ask
  /\ \E ans \in Answers[option] :
       \/ /\ ans \in {"true", "false"} /\ Set(option, ans = "true")
          /\ stage' = stage + 2 /\ UNCHANGED phase
       \/ ans \notin {"true", "false"} /\ AskAgain /\ UNCHANGED config
  /\ UNCHANGED <<bouncer, key, entered, loader>>

FlagStage(option) ==
  /\ At(option) /\ Ask
  /\ \E ans \in Answers[option] :
       \/ ans \in {"true", "false"} /\ Set(option, ans = "true") /\ Advance
       \/ ans \notin {"true", "false"} /\ AskAgain /\ UNCHANGED config
  /\ UNCHANGED <<bouncer, key, entered, loader>>

(* Without idnt there is nothing to ask about ident.  A number that is not *)
(* accepted has been stored all the same.                                  *)
TimeoutStage(option) ==
  /\ At(option)
  /\ IF option = "identtimeout" /\ ~config.idnt
     THEN Advance /\ UNCHANGED <<config, asked>>
     ELSE /\ Ask
          /\ \E ans \in Answers[option] :
               \/ /\ C!IsNumber(ans)
                  /\ Set(option, C!AsInt(ans[1]))
                  /\ IF C!AsInt(ans[1]) >= 0 THEN Advance ELSE AskAgain
               \/ /\ ~C!IsNumber(ans)
                  /\ AskAgain /\ UNCHANGED config
  /\ UNCHANGED <<bouncer, key, entered, loader>>

TextStage(option) ==
  /\ At(option) /\ Ask
  /\ \E ans \in Answers[option] :
       \/ ans = "none" /\ Advance /\ UNCHANGED config
       \/ ans # "none" /\ Set(option, ans) /\ Advance
       \/ ans # "none" /\ GiveUp /\ UNCHANGED config
  /\ UNCHANGED <<bouncer, key, entered, loader>>

(* Passwords are "tiny" (below MINIMUM_PASSLEN), "short" (below the 16     *)
(* bytes of a key) or "full".                                              *)
Password ==
  /\ At("password") /\ Ask
  /\ \E ans \in Answers["password"] :
       \/ ans # "tiny" /\ key' = ans /\ Advance
       \/ ans = "tiny" /\ AskAgain /\ UNCHANGED key
  /\ UNCHANGED <<config, bouncer, entered, loader>>

-----------------------------------------------------------------------------
(* The default case ends the loop; the text is saved, encrypted, and       *)
(* written to the header, unless one of these fails.  fclose writes the    *)
(* header, and when it fails the header is lost, but reported as saved.    *)
Save ==
  /\ At("end")
  /\ \/ phase' = "saved" /\ file' = C!Config_saveBuffer(config)
     \/ phase' \in {"failed", "lost"} /\ UNCHANGED file
  /\ UNCHANGED <<editor, at, conf, status>>

HasControl(text) ==
  \E i \in 1 .. Len(text) : text[i][1] \in C!Texts /\ text[i][2] \in Unprintable

(* The start of the bouncer that was built from it, given the password     *)
(* again.  XTEA takes 16 bytes: the editor's key is padded with zeros, but *)
(* the bouncer takes what follows the password in getpass's buffer, which  *)
(* nothing has set.  The check for control characters is there for what    *)
(* another key makes of the text, and meets those the user entered too.    *)
Decrypt ==
  /\ phase = "saved"
  /\ \/ \E padded \in IF key = "full" THEN {TRUE} ELSE BOOLEAN :
          phase' = IF padded /\ ~HasControl(file) THEN "loading" ELSE "rejected"
     \/ phase' = "no memory"
  /\ UNCHANGED <<editor, loader>>

Load ==
  /\ phase = "loading"
  /\ C!Next
  /\ phase' = CASE status' = "reading"   -> "loading"
                [] status' = "loaded"    -> "running"
                [] status' = "no memory" -> "no memory"
                [] OTHER                 -> "rejected"
  /\ UNCHANGED editor

-----------------------------------------------------------------------------
Questions ==
  \/ Listen \/ Remote \/ Local \/ Another \/ AnotherNull
  \/ \E option \in C!Flags : FlagStage(option)
  \/ \E option \in C!Timeouts : TimeoutStage(option)
  \/ \E option \in C!Texts : TextStage(option)
  \/ Password

Next == Questions \/ Save \/ Decrypt \/ Load

Spec == Init /\ [][Next]_vars

-----------------------------------------------------------------------------
(* Properties.                                                             *)

(* The types of the variables; there is a bouncer to fill in until the     *)
(* list is complete.                                                       *)
TypeOK ==
  /\ stage \in 1 .. Len(Stages)
  /\ phase \in {"asking", "failed", "crashed", "lost", "saved", "loading", "running",
                "no memory", "rejected"}
  /\ key \in {"none", "short", "full"}
  /\ asked \subseteq {Stages[n] : n \in 1 .. Len(Stages)}
  /\ Len(bouncer) <= 1 /\ Len(entered) <= MaxBouncers + 1
  /\ stage < Number("another") => bouncer # <<>>
  /\ status = "reading" \/ phase \in {"running", "no memory", "rejected"}

(* A bouncer that starts runs exactly what the user entered: the list of   *)
(* bouncers is turned round when it is entered and when it is loaded, and  *)
(* is then in the user's order again, and no option is lost on the way.    *)
LoadedIsEntered ==
  phase = "running" =>
    /\ conf.bouncers = [i \in 1 .. Len(entered) |-> C!PortsAsInts(entered[i])]
    /\ \A option \in DOMAIN conf \ {"bouncers"} : conf[option] = config[option]

(* What the editor lets through and the bouncer refuses.                   *)
ShortKey == key = "short"
ControlEntered == {config.pidfile, config.welcomemsg} \cap Unprintable # {}
HostIsGone == \E i \in 1 .. Len(entered) : entered[i].remoteHost \notin Hosts
NoLocalIP == \E i \in 1 .. Len(entered) : entered[i].localIP = C!Null

(* Once the editor has saved its configuration, what it accepted the       *)
(* loader accepts too, memory permitting, but for four reasons: a password *)
(* too short to be the whole key, a control character in one of the two    *)
(* texts, a remote host that no longer resolves, and the editor's default  *)
(* answer for the local ip.                                                *)
RejectedOnlyFor ==
  phase = "rejected" => ShortKey \/ ControlEntered \/ HostIsGone \/ NoLocalIP

(* "Run the bouncer './ebbnc'" (README:20) is all that is left to do once  *)
(* the editor has saved a configuration: a remote host that has gone aside,*)
(* which nobody can know beforehand, the bouncer takes what the editor     *)
(* took.                                                                   *)
SavedConfigStarts == phase = "rejected" => HostIsGone

(* "Invalid value." (makeconf.c:328): an answer that is not understood is  *)
(* asked for again, and the editor goes on.                                *)
EditorSurvives == phase # "crashed"

(* The questions of the editor: every stage is asked before the text is    *)
(* saved, but idnt, which a "no" to "Another bouncer?" passes over.  The   *)
(* counter is moved in two places (makeconf.c:214 and :319) and passes     *)
(* over nothing else.                                                      *)
OnlyIdntIsSkipped ==
  phase = "saved" => asked = {Stages[n] : n \in 1 .. Len(Stages)} \ {"next", "idnt", "end"}

=============================================================================
