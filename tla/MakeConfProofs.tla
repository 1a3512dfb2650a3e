--------------------------- MODULE MakeConfProofs ---------------------------
(***************************************************************************)
(* Theorems about MakeConf: its types, that the bouncer that starts has    *)
(* what the user entered, and why one may not start.  What the loader      *)
(* makes of the saved text is proved in ConfigProofs, which is cited here  *)
(* for the loader the editor's bouncer contains.                           *)
(***************************************************************************)
EXTENDS MakeConf, TLAPS

CP == INSTANCE ConfigProofs WITH Files <- {<<>>}

-----------------------------------------------------------------------------
(* The inductive invariant.                                                *)

(* A bouncer under construction has what has been asked for so far.        *)
HasListen(b) == b.listenIP \in IPs /\ CP!isValidPort(b.listenPort)
HasRemote(b) == b.remoteHost \in EditorHosts /\ CP!isValidPort(b.remotePort)
HasLocal(b) == b.localIP \in IPs \cup {CP!Null}

BouncerInv ==
  /\ bouncer = <<>> \/ bouncer = << bouncer[1] >>
  /\ stage < Number("another") => bouncer # <<>>
  /\ bouncer # <<>> =>
       /\ CP!IsBouncer(bouncer[1]) /\ HasLocal(bouncer[1])
       /\ stage >= Number("remote") => HasListen(bouncer[1])
       /\ stage >= Number("local") => HasRemote(bouncer[1])
       /\ Len(entered) <= MaxBouncers

IsComplete(b) == CP!IsBouncer(b) /\ HasListen(b) /\ HasRemote(b) /\ HasLocal(b)

Reversed(s) == [i \in 1 .. Len(s) |-> s[Len(s) + 1 - i]]

EnteredInv ==
  /\ entered \in Seq({entered[i] : i \in 1 .. Len(entered)})
  /\ Len(entered) <= MaxBouncers + 1
  /\ \A i \in 1 .. Len(entered) : IsComplete(entered[i])
  /\ config.bouncers = Reversed(entered)
  /\ stage > Number("another") => entered # <<>>

(* A timeout that is not accepted has been stored, but is asked for again. *)
OptionsInv ==
  /\ CP!IsConfig(config)
  /\ \A option \in CP!Flags : config[option] \in BOOLEAN
  /\ \A option \in CP!Timeouts :
       /\ config[option] \in CP!Ints
       /\ \/ config[option] >= 0
          \/ stage = Number(option) /\ (option = "identtimeout" => config["idnt"] = TRUE)
  /\ \A option \in CP!Texts : config[option] # ""

StageInv ==
  /\ stage \in Number("listen") .. Number("end")
  /\ key \in {"none", "short", "full"} /\ (stage = Number("end") => key # "none")
  /\ asked \subseteq {Stages[n] : n \in 1 .. Len(Stages)}

(* What keeps a bouncer from starting.                                     *)
Cause == ShortKey \/ ControlEntered \/ HostIsGone \/ NoLocalIP

(* The loader goes through the text saved for config.                      *)
PhaseInv ==
  /\ phase \in {"asking", "failed", "crashed", "lost", "saved", "loading", "running",
                "no memory", "rejected"}
  /\ phase \in {"asking", "failed", "crashed", "saved"} => at = 1 /\ conf = CP!Default
  /\ phase \notin {"running", "no memory", "rejected"} => status = "reading"
  /\ phase \in {"saved", "loading", "running", "rejected"} =>
       stage = Number("end") /\ file = CP!Config_saveBuffer(config)
  /\ phase = "loading" => at \in 1 .. Len(file) + 1 /\ conf = CP!After(config, at - 1)
  /\ phase = "running" => conf = CP!After(config, Len(file)) /\ CP!Config_sanityCheck(conf)
  /\ phase = "rejected" => Cause

Inv == BouncerInv /\ EnteredInv /\ OptionsInv /\ StageInv /\ PhaseInv

-----------------------------------------------------------------------------
(* The constants satisfy what Config assumes of them, and the loader in    *)
(* MakeConf is the one of ConfigProofs.                                    *)

LEMMA ConstantsFit ==
  /\ IPs \subseteq Hosts
  /\ IntMod \in Nat /\ IntMod % 2 = 0 /\ MaxPort \in 0 .. (IntMod \div 2 - 1)
  /\ "NULL" \notin Hosts /\ "(null)" \notin Hosts
  BY MakeConfAssumption DEF C!Null

LEMMA DefaultFits == \A t \in CP!Timeouts : CP!Default[t] < IntMod \div 2
<1>1. C!Timeouts = CP!Timeouts /\ C!Default = CP!Default
  BY DEF C!Timeouts, CP!Timeouts, C!Default, CP!Default, C!Null, CP!Null
<1> QED BY <1>1, MakeConfAssumption

LEMMA NoText ==
  \A f \in {<<>>} : /\ f \in Seq({f[i] : i \in 1 .. Len(f)})
                    /\ \A i \in 1 .. Len(f) : CP!IsLine(f[i])
  OBVIOUS

LEMMA SameNames ==
  /\ C!Flags = CP!Flags /\ C!Timeouts = CP!Timeouts /\ C!Texts = CP!Texts
  /\ C!Null = CP!Null /\ C!Default = CP!Default
  BY DEF C!Flags, CP!Flags, C!Timeouts, CP!Timeouts, C!Texts, CP!Texts, C!Null, CP!Null,
         C!Default, CP!Default

LEMMA SameInts ==
  /\ \A n : C!AsInt(n) = CP!AsInt(n)
  /\ \A p : C!isValidPort(p) = CP!isValidPort(p)
  /\ \A b : C!PortsAsInts(b) = CP!PortsAsInts(b)
<1>1. ASSUME NEW n PROVE C!AsInt(n) = CP!AsInt(n)
  BY DEF C!AsInt, CP!AsInt
<1>2. ASSUME NEW p PROVE C!isValidPort(p) = CP!isValidPort(p)
  BY Zenon DEF C!AsInt, CP!AsInt, C!isValidPort, CP!isValidPort
<1>3. ASSUME NEW b PROVE C!PortsAsInts(b) = CP!PortsAsInts(b)
  BY Zenon DEF C!AsInt, CP!AsInt, C!PortsAsInts, CP!PortsAsInts
<1> QED BY <1>1, <1>2, <1>3, Zenon

LEMMA SameLoader ==
  ASSUME NEW c, NEW l
  PROVE  /\ C!Config_saveBuffer(c) = CP!Config_saveBuffer(c)
         /\ C!LoadLine(c, l) = CP!LoadLine(c, l)
         /\ C!Config_sanityCheck(c) = CP!Config_sanityCheck(c)
<1>1. C!Config_saveBuffer(c) = CP!Config_saveBuffer(c)
  BY Zenon DEF C!Config_saveBuffer, CP!Config_saveBuffer, C!FlagText, CP!FlagText,
     C!Numeral, CP!Numeral, C!AsInt, CP!AsInt, C!Optional, CP!Optional,
     C!BouncerLine, CP!BouncerLine, C!Printed, CP!Printed, C!Null, CP!Null
<1>2. C!LoadLine(c, l) = CP!LoadLine(c, l)
  BY Zenon DEF C!LoadLine, CP!LoadLine, C!LoadBouncer, CP!LoadBouncer, C!LoadFlag, CP!LoadFlag,
     C!LoadTimeout, CP!LoadTimeout, C!LoadText, CP!LoadText, C!Flags, CP!Flags,
     C!Timeouts, CP!Timeouts, C!Texts, CP!Texts, C!Bouncer_parse, CP!Bouncer_parse,
     C!IsNumber, CP!IsNumber, C!AsInt, CP!AsInt
<1>3. C!Config_sanityCheck(c) = CP!Config_sanityCheck(c)
  BY Zenon DEF C!AsInt, CP!AsInt, C!isValidPort, CP!isValidPort, C!Config_sanityCheck,
     CP!Config_sanityCheck, C!SaneBouncer, CP!SaneBouncer
<1> QED BY <1>1, <1>2, <1>3, Zenon

(* The stages by number.                                                   *)
LEMMA StageNumbers ==
  /\ Len(Stages) = 14
  /\ Number("next") = 1 /\ Number("listen") = 2 /\ Number("remote") = 3 /\ Number("local") = 4
  /\ Number("another") = 5 /\ Number("idnt") = 6 /\ Number("identtimeout") = 7
  /\ Number("idletimeout") = 8 /\ Number("writetimeout") = 9 /\ Number("dnslookup") = 10
  /\ Number("pidfile") = 11 /\ Number("welcomemsg") = 12 /\ Number("password") = 13
  /\ Number("end") = 14
<1>1. /\ Len(Stages) = 14
      /\ Stages[1] = "next" /\ Stages[2] = "listen" /\ Stages[3] = "remote" /\ Stages[4] = "local"
      /\ Stages[5] = "another" /\ Stages[6] = "idnt" /\ Stages[7] = "identtimeout"
      /\ Stages[8] = "idletimeout" /\ Stages[9] = "writetimeout" /\ Stages[10] = "dnslookup"
      /\ Stages[11] = "pidfile" /\ Stages[12] = "welcomemsg" /\ Stages[13] = "password"
      /\ Stages[14] = "end"
  BY DEF Stages
<1>2. \A m, n \in 1 .. 14 : Stages[m] = Stages[n] => m = n
  BY <1>1
<1>3. \A n \in 1 .. 14 : Number(Stages[n]) = n
  <2> TAKE n \in 1 .. 14
  <2>1. \E m \in 1 .. Len(Stages) : Stages[m] = Stages[n]
    BY <1>1
  <2>2. Number(Stages[n]) \in 1 .. 14 /\ Stages[Number(Stages[n])] = Stages[n]
    BY <1>1, <2>1 DEF Number
  <2> QED BY <1>2, <2>2
<1>4. \A n \in 1 .. 14 : Number(Stages[n]) = n
  BY <1>3
<1> QED BY <1>1, <1>4

-----------------------------------------------------------------------------
(* A bouncer under construction, one answer more.                          *)

LEMMA BouncerFields ==
  ASSUME NEW b, CP!IsBouncer(b)
  PROVE  /\ DOMAIN b = {"listenIP", "listenPort", "remoteHost", "remotePort", "localIP"}
         /\ b.listenPort \in Int /\ b.remotePort \in Int
  BY DEF CP!IsBouncer

LEMMA FieldsBouncer ==
  ASSUME NEW b, b = [k \in DOMAIN b |-> b[k]],
         DOMAIN b = {"listenIP", "listenPort", "remoteHost", "remotePort", "localIP"},
         b.listenPort \in Int, b.remotePort \in Int
  PROVE  CP!IsBouncer(b)
  BY DEF CP!IsBouncer

WithListen(b, ip, p) == [b EXCEPT !.listenIP = ip, !.listenPort = p]

LEMMA ListenSet ==
  ASSUME NEW b, CP!IsBouncer(b), NEW ip, NEW p, p \in Int, NEW d, d = WithListen(b, ip, p)
  PROVE  /\ CP!IsBouncer(d) /\ d.listenIP = ip /\ d.listenPort = p
         /\ d.remoteHost = b.remoteHost /\ d.remotePort = b.remotePort /\ d.localIP = b.localIP
<1>1. /\ DOMAIN d = DOMAIN b /\ d = [k \in DOMAIN d |-> d[k]]
      /\ d.listenIP = ip /\ d.listenPort = p
      /\ d.remoteHost = b.remoteHost /\ d.remotePort = b.remotePort /\ d.localIP = b.localIP
  BY BouncerFields DEF WithListen
<1> QED BY <1>1, BouncerFields, FieldsBouncer

LEMMA ListenTakenBack ==
  ASSUME NEW b, CP!IsBouncer(b), NEW ip, NEW d, d = [b EXCEPT !.listenIP = ip]
  PROVE  CP!IsBouncer(d) /\ d.localIP = b.localIP
<1>1. /\ DOMAIN d = DOMAIN b /\ d = [k \in DOMAIN d |-> d[k]]
      /\ d.listenPort = b.listenPort /\ d.remotePort = b.remotePort /\ d.localIP = b.localIP
  BY BouncerFields
<1> QED BY <1>1, BouncerFields, FieldsBouncer

WithRemote(b, host, p) == [b EXCEPT !.remoteHost = host, !.remotePort = p]

LEMMA RemoteSet ==
  ASSUME NEW b, CP!IsBouncer(b), NEW host, NEW p, p \in Int, NEW d, d = WithRemote(b, host, p)
  PROVE  /\ CP!IsBouncer(d) /\ d.remoteHost = host /\ d.remotePort = p
         /\ d.listenIP = b.listenIP /\ d.listenPort = b.listenPort /\ d.localIP = b.localIP
<1>1. /\ DOMAIN d = DOMAIN b /\ d = [k \in DOMAIN d |-> d[k]]
      /\ d.remoteHost = host /\ d.remotePort = p
      /\ d.listenIP = b.listenIP /\ d.listenPort = b.listenPort /\ d.localIP = b.localIP
  BY BouncerFields DEF WithRemote
<1> QED BY <1>1, BouncerFields, FieldsBouncer

LEMMA RemoteTakenBack ==
  ASSUME NEW b, CP!IsBouncer(b), NEW host, NEW d, d = [b EXCEPT !.remoteHost = host]
  PROVE  /\ CP!IsBouncer(d) /\ d.localIP = b.localIP
         /\ d.listenIP = b.listenIP /\ d.listenPort = b.listenPort
<1>1. /\ DOMAIN d = DOMAIN b /\ d = [k \in DOMAIN d |-> d[k]]
      /\ d.remotePort = b.remotePort /\ d.localIP = b.localIP
      /\ d.listenIP = b.listenIP /\ d.listenPort = b.listenPort
  BY BouncerFields
<1> QED BY <1>1, BouncerFields, FieldsBouncer

WithLocal(b, ip) == [b EXCEPT !.localIP = ip]

LEMMA LocalSet ==
  ASSUME NEW b, CP!IsBouncer(b), NEW ip, NEW d, d = WithLocal(b, ip)
  PROVE  /\ CP!IsBouncer(d) /\ d.localIP = ip
         /\ d.listenIP = b.listenIP /\ d.listenPort = b.listenPort
         /\ d.remoteHost = b.remoteHost /\ d.remotePort = b.remotePort
<1>1. /\ DOMAIN d = DOMAIN b /\ d = [k \in DOMAIN d |-> d[k]] /\ d.localIP = ip
      /\ d.listenIP = b.listenIP /\ d.listenPort = b.listenPort
      /\ d.remoteHost = b.remoteHost /\ d.remotePort = b.remotePort
  BY BouncerFields DEF WithLocal
<1> QED BY <1>1, BouncerFields, FieldsBouncer

LEMMA BouncerNewIsOne == CP!IsBouncer(BouncerNew) /\ HasLocal(BouncerNew)
<1>1. BouncerNew.localIP = CP!Null
  BY SameNames DEF BouncerNew
<1>2. BouncerNew = [k \in DOMAIN BouncerNew |-> BouncerNew[k]]
      /\ DOMAIN BouncerNew = {"listenIP", "listenPort", "remoteHost", "remotePort", "localIP"}
      /\ BouncerNew.listenPort \in Int /\ BouncerNew.remotePort \in Int
  BY DEF BouncerNew
<1> QED BY <1>1, <1>2, FieldsBouncer DEF HasLocal

(* While the editor asks, and when it gives up, the loader waits.          *)
LEMMA LoaderWaits ==
  ASSUME PhaseInv, phase = "asking", phase' \in {"asking", "failed", "crashed"}, UNCHANGED loader
  PROVE  PhaseInv'
  BY DEF PhaseInv, loader

(* A list turned round, and one that is put together from its end.         *)
LEMMA ReversedIs ==
  ASSUME NEW S, NEW u \in Seq(S)
  PROVE  /\ Reversed(u) \in Seq(S) /\ Len(Reversed(u)) = Len(u)
         /\ \A i \in 1 .. Len(u) : Reversed(u)[i] = u[Len(u) + 1 - i]
<1>1. \A i \in 1 .. Len(u) : u[Len(u) + 1 - i] \in S
  OBVIOUS
<1>2. Reversed(u) \in [1 .. Len(u) -> S] /\ Len(u) \in Nat
  BY <1>1 DEF Reversed
<1> QED BY <1>2 DEF Reversed

LEMMA ReversedAppended ==
  ASSUME NEW S, NEW s \in Seq(S), NEW b \in S
  PROVE  Reversed(s \o << b >>) = << b >> \o Reversed(s)
<1> DEFINE t == s \o << b >>
<1>1. /\ t \in Seq(S) /\ Len(t) = Len(s) + 1 /\ t[Len(s) + 1] = b
      /\ \A i \in 1 .. Len(s) : t[i] = s[i]
  OBVIOUS
<1>2. \A u \in Seq(S) : Reversed(u) \in Seq(S) /\ Len(Reversed(u)) = Len(u)
                        /\ \A i \in 1 .. Len(u) : Reversed(u)[i] = u[Len(u) + 1 - i]
  BY ReversedIs
<1>3. Reversed(t) \in Seq(S) /\ Reversed(s) \in Seq(S) /\ Len(Reversed(s)) = Len(s)
  BY <1>1, <1>2
<1> HIDE DEF t
<1> DEFINE x == Reversed(s)
           y == << b >> \o x
<1>4. y \in Seq(S) /\ Len(y) = Len(s) + 1 /\ y[1] = b /\ \A i \in 1 .. Len(s) : y[i + 1] = x[i]
  <2> HIDE DEF x
  <2> QED BY <1>3 DEF x
<1>5. \A i \in 1 .. Len(t) : y[i] = Reversed(t)[i]
  <2> TAKE i \in 1 .. Len(t)
  <2>1. Reversed(t)[i] = t[Len(t) + 1 - i]
    BY <1>1, <1>2
  <2> HIDE DEF y
  <2>2. CASE i = 1
    BY <1>1, <1>4, <2>1, <2>2
  <2>3. CASE i # 1
    <3>1. i - 1 \in 1 .. Len(s) /\ (i - 1) + 1 = i /\ Len(t) + 1 - i = Len(s) + 1 - (i - 1)
          /\ Len(s) + 1 - (i - 1) \in 1 .. Len(s)
      BY <1>1, <2>3
    <3>2. y[i] = x[i - 1]
      BY <1>4, <3>1
    <3>3. x[i - 1] = s[Len(s) + 1 - (i - 1)]
      BY <1>2, <3>1
    <3> QED BY <1>1, <2>1, <3>1, <3>2, <3>3
  <2> QED BY <2>2, <2>3
<1>6. Len(Reversed(t)) = Len(t)
  BY <1>1, <1>2
<1> HIDE DEF y
<1>7. y = Reversed(t)
  <2> DEFINE r == Reversed(t)
  <2>1. r \in Seq(S) /\ y \in Seq(S) /\ Len(r) = Len(y) /\ \A i \in 1 .. Len(y) : y[i] = r[i]
    BY <1>1, <1>3, <1>4, <1>5, <1>6
  <2> HIDE DEF r
  <2>2. y = r
    BY ONLY <2>1
  <2> QED BY <2>2 DEF r
<1> QED BY <1>7 DEF y, t

LEMMA ReversedGrows ==
  ASSUME NEW S, NEW s \in Seq(S), NEW b \in S, NEW t, t = s \o << b >>
  PROVE  /\ t \in Seq(S) /\ Len(t) = Len(s) + 1 /\ t[Len(s) + 1] = b
         /\ \A i \in 1 .. Len(s) : t[i] = s[i]
         /\ Reversed(t) = << b >> \o Reversed(s)
<1>1. /\ t \in Seq(S) /\ Len(t) = Len(s) + 1 /\ t[Len(s) + 1] = b
      /\ \A i \in 1 .. Len(s) : t[i] = s[i]
  OBVIOUS
<1>2. Reversed(s \o << b >>) = << b >> \o Reversed(s)
  BY ONLY s \in Seq(S), b \in S, ReversedAppended
<1> QED BY <1>1, <1>2

-----------------------------------------------------------------------------
(* One lemma per action.                                                   *)

LEMMA InitInv == Init => Inv
<1> SUFFICES ASSUME Init PROVE Inv
  OBVIOUS
<1>1. /\ stage = 2 /\ bouncer = << BouncerNew >> /\ key = "none" /\ phase = "asking"
      /\ asked = {} /\ entered = <<>>
  BY StageNumbers DEF Init
<1>2. config = CP!Default /\ conf = CP!Default /\ at = 1 /\ status = "reading"
  BY SameNames DEF Init, C!Init
<1>3. BouncerInv
  BY <1>1, StageNumbers, BouncerNewIsOne, MakeConfAssumption DEF BouncerInv
<1>4. CP!Saveable(CP!Default)
  BY CP!DefaultIsSaveable, ConstantsFit, DefaultFits, NoText, Zenon
<1>5. EnteredInv
  <2>1. CP!Default.bouncers = <<>>
    BY DEF CP!Default
  <2>2. Reversed(<<>>) = <<>>
    BY DEF Reversed
  <2> QED BY <1>1, <1>2, <2>1, <2>2, StageNumbers, MakeConfAssumption DEF EnteredInv
<1>6. OptionsInv
  <2>1. CP!IsConfig(CP!Default) /\ CP!HasOptions(CP!Default)
    BY <1>4 DEF CP!Saveable
  <2>2. \A option \in CP!Flags : CP!Default[option] \in BOOLEAN
    BY <2>1 DEF CP!HasOptions
  <2>3. \A option \in CP!Texts : CP!Default[option] # ""
    BY <2>1 DEF CP!HasOptions
  <2>4. \A option \in CP!Timeouts : CP!Default[option] \in CP!Ints /\ CP!Default[option] >= 0
    <3>1. \A n \in 0 .. IntMod \div 2 - 1 : n \in CP!Ints /\ n >= 0
      BY ConstantsFit DEF CP!Ints
    <3> QED BY <2>1, <3>1 DEF CP!HasOptions
  <2> QED BY <1>2, <2>1, <2>2, <2>3, <2>4 DEF OptionsInv
<1>7. StageInv
  BY <1>1, StageNumbers DEF StageInv
<1>8. PhaseInv
  BY <1>1, <1>2 DEF PhaseInv
<1> QED BY <1>3, <1>5, <1>6, <1>7, <1>8 DEF Inv

(* A question about a bouncer leaves the rest alone.                       *)
LEMMA OthersStay ==
  ASSUME Inv, stage \in 2 .. 4, stage' \in {stage, stage + 1},
         asked' = asked \cup {Stages[stage]}, UNCHANGED <<config, key, entered>>
  PROVE  EnteredInv' /\ OptionsInv' /\ StageInv'
<1>1. EnteredInv'
  BY StageNumbers DEF Inv, EnteredInv
<1>2. OptionsInv'
  <2>1. \A option \in CP!Timeouts : Number(option) > 5
    BY StageNumbers DEF CP!Timeouts
  <2>2. \A option \in CP!Timeouts : config[option] \in CP!Ints /\ config[option] >= 0
    <3>1. \A option \in CP!Timeouts : stage # Number(option)
      BY <2>1
    <3> QED BY <3>1, Zenon DEF Inv, OptionsInv
  <2>3. /\ CP!IsConfig(config) /\ (\A option \in CP!Texts : config[option] # "")
        /\ \A option \in CP!Flags : config[option] \in BOOLEAN
    BY DEF Inv, OptionsInv
  <2> QED BY <2>2, <2>3 DEF OptionsInv
<1>3. StageInv'
  BY StageNumbers DEF Inv, StageInv
<1> QED BY <1>1, <1>2, <1>3

LEMMA ListenStep == Inv /\ Listen => Inv'
<1> SUFFICES ASSUME Inv, Listen PROVE Inv'
  OBVIOUS
<1> DEFINE b == bouncer[1]
<1>1. /\ phase = "asking" /\ stage = 2 /\ UNCHANGED <<config, key, entered, loader>>
      /\ asked' = asked \cup {Stages[stage]}
  BY StageNumbers DEF Listen, At, Ask
<1>2. PICK ans \in Answers["listen"] :
        LET good == C!IsNumber(ans[2]) /\ C!isValidPort(ans[2][1]) IN
        \/ /\ ans[1] \in IPs /\ good
           /\ bouncer' = << [b EXCEPT !.listenIP = ans[1], !.listenPort = ans[2][1]] >>
           /\ Advance
        \/ /\ ans[1] \in IPs /\ good
           /\ GiveUp /\ UNCHANGED bouncer
        \/ /\ ans[1] \in IPs /\ ~good
           /\ bouncer' = << [b EXCEPT !.listenIP = C!Null] >>
           /\ AskAgain
        \/ /\ ans[1] \notin IPs
           /\ AskAgain /\ UNCHANGED bouncer
  BY DEF Listen
<1>3. phase' \in {"asking", "failed"} /\ stage' \in {2, 3}
  BY <1>1, <1>2 DEF Advance, GiveUp, AskAgain
<1>4. CP!IsBouncer(b) /\ HasLocal(b) /\ bouncer = << b >> /\ Len(entered) <= MaxBouncers
  BY <1>1, StageNumbers DEF Inv, BouncerInv
<1>5. BouncerInv'
  <2>1. ASSUME UNCHANGED bouncer, stage' = 2
        PROVE  BouncerInv'
    BY <1>1, <1>4, <2>1, StageNumbers DEF Inv, BouncerInv
  <2>2. ASSUME NEW d, bouncer' = << d >>, CP!IsBouncer(d), d.localIP = b.localIP,
               stage' = 2 \/ (stage' = 3 /\ HasListen(d))
        PROVE  BouncerInv'
    <3>1. HasLocal(d) /\ bouncer'[1] = d /\ bouncer' # <<>>
      BY <1>4, <2>2 DEF HasLocal
    <3> QED BY <1>1, <1>4, <2>2, <3>1, StageNumbers DEF BouncerInv
  <2>3. CASE /\ ans[1] \in IPs /\ C!IsNumber(ans[2]) /\ C!isValidPort(ans[2][1])
             /\ bouncer' = << [b EXCEPT !.listenIP = ans[1], !.listenPort = ans[2][1]] >>
             /\ Advance
    <3> DEFINE d == WithListen(b, ans[1], ans[2][1])
    <3>1. ans[2][1] \in Int
      BY <2>3, AnswersAssumption DEF C!IsNumber
    <3>2. /\ CP!IsBouncer(d) /\ d.localIP = b.localIP
          /\ d.listenIP = ans[1] /\ d.listenPort = ans[2][1]
      BY <1>4, <3>1, ListenSet
    <3> HIDE DEF d
    <3>3. HasListen(d)
      BY <2>3, <3>2, SameInts DEF HasListen
    <3>4. bouncer' = << d >> /\ stage' = 3
      BY <1>1, <2>3 DEF Advance, d, WithListen
    <3> QED BY <2>2, <3>2, <3>3, <3>4
  <2>4. CASE bouncer' = << [b EXCEPT !.listenIP = C!Null] >> /\ AskAgain
    <3> DEFINE d == [b EXCEPT !.listenIP = C!Null]
    <3>1. CP!IsBouncer(d) /\ d.localIP = b.localIP
      BY <1>4, ListenTakenBack
    <3>2. bouncer' = << d >> /\ stage' = 2
      BY <1>1, <2>4 DEF AskAgain
    <3> HIDE DEF d, b
    <3> QED BY <2>2, <3>1, <3>2
  <2>5. CASE (GiveUp \/ AskAgain) /\ UNCHANGED bouncer
    BY <1>1, <2>1, <2>5 DEF GiveUp, AskAgain
  <2> QED BY <1>2, <2>3, <2>4, <2>5
<1>6. EnteredInv' /\ OptionsInv' /\ StageInv'
  BY <1>1, <1>3, StageNumbers, OthersStay
<1>7. PhaseInv'
  BY <1>1, <1>3, LoaderWaits DEF Inv
<1> QED BY <1>5, <1>6, <1>7 DEF Inv

LEMMA RemoteStep == Inv /\ Remote => Inv'
<1> SUFFICES ASSUME Inv, Remote PROVE Inv'
  OBVIOUS
<1> DEFINE b == bouncer[1]
<1>1. /\ phase = "asking" /\ stage = 3 /\ UNCHANGED <<config, key, entered, loader>>
      /\ asked' = asked \cup {Stages[stage]}
  BY StageNumbers DEF Remote, At, Ask
<1>2. PICK ans \in Answers["remote"] :
        LET good == C!IsNumber(ans[2]) /\ C!isValidPort(ans[2][1]) IN
        \/ /\ ans[1] \in EditorHosts /\ good
           /\ bouncer' = << [b EXCEPT !.remoteHost = ans[1], !.remotePort = ans[2][1]] >>
           /\ Advance
        \/ /\ ans[1] \in EditorHosts /\ good
           /\ GiveUp /\ UNCHANGED bouncer
        \/ /\ ans[1] \in EditorHosts /\ ~good
           /\ bouncer' = << [b EXCEPT !.remoteHost = C!Null] >>
           /\ AskAgain
        \/ /\ ans[1] \notin EditorHosts
           /\ AskAgain /\ UNCHANGED bouncer
  BY DEF Remote
<1>3. phase' \in {"asking", "failed"} /\ stage' \in {3, 4}
  BY <1>1, <1>2 DEF Advance, GiveUp, AskAgain
<1>4. /\ CP!IsBouncer(b) /\ HasLocal(b) /\ HasListen(b) /\ bouncer = << b >>
      /\ Len(entered) <= MaxBouncers
  BY <1>1, StageNumbers DEF Inv, BouncerInv
<1>5. BouncerInv'
  <2>1. ASSUME UNCHANGED bouncer, stage' = 3
        PROVE  BouncerInv'
    BY <1>1, <1>4, <2>1, StageNumbers DEF Inv, BouncerInv
  <2>2. ASSUME NEW d, bouncer' = << d >>, CP!IsBouncer(d), d.localIP = b.localIP,
               d.listenIP = b.listenIP, d.listenPort = b.listenPort,
               stage' = 3 \/ (stage' = 4 /\ HasRemote(d))
        PROVE  BouncerInv'
    <3>1. HasLocal(d) /\ HasListen(d) /\ bouncer'[1] = d /\ bouncer' # <<>>
      BY <1>4, <2>2 DEF HasLocal, HasListen
    <3> QED BY <1>1, <1>4, <2>2, <3>1, StageNumbers DEF BouncerInv
  <2>3. CASE /\ ans[1] \in EditorHosts /\ C!IsNumber(ans[2]) /\ C!isValidPort(ans[2][1])
             /\ bouncer' = << [b EXCEPT !.remoteHost = ans[1], !.remotePort = ans[2][1]] >>
             /\ Advance
    <3> DEFINE d == WithRemote(b, ans[1], ans[2][1])
    <3>1. ans[2][1] \in Int
      BY <2>3, AnswersAssumption DEF C!IsNumber
    <3>2. /\ CP!IsBouncer(d) /\ d.localIP = b.localIP
          /\ d.listenIP = b.listenIP /\ d.listenPort = b.listenPort
          /\ d.remoteHost = ans[1] /\ d.remotePort = ans[2][1]
      BY <1>4, <3>1, RemoteSet
    <3> HIDE DEF d
    <3>3. HasRemote(d)
      BY <2>3, <3>2, SameInts DEF HasRemote
    <3>4. bouncer' = << d >> /\ stage' = 4
      BY <1>1, <2>3 DEF Advance, d, WithRemote
    <3> HIDE DEF b
    <3> QED BY <2>2, <3>2, <3>3, <3>4
  <2>4. CASE bouncer' = << [b EXCEPT !.remoteHost = C!Null] >> /\ AskAgain
    <3> DEFINE d == [b EXCEPT !.remoteHost = C!Null]
    <3>1. /\ CP!IsBouncer(d) /\ d.localIP = b.localIP
          /\ d.listenIP = b.listenIP /\ d.listenPort = b.listenPort
      <4>1. d = [b EXCEPT !.remoteHost = C!Null] /\ CP!IsBouncer(b)
        BY <1>4
      <4> HIDE DEF d, b
      <4> QED BY ONLY <4>1, RemoteTakenBack, Zenon
    <3>2. bouncer' = << d >> /\ stage' = 3
      BY <1>1, <2>4 DEF AskAgain
    <3> HIDE DEF d, b
    <3> QED BY <2>2, <3>1, <3>2
  <2>5. CASE (GiveUp \/ AskAgain) /\ UNCHANGED bouncer
    BY <1>1, <2>1, <2>5 DEF GiveUp, AskAgain
  <2> QED BY <1>2, <2>3, <2>4, <2>5
<1>6. EnteredInv' /\ OptionsInv' /\ StageInv'
  BY <1>1, <1>3, StageNumbers, OthersStay
<1>7. PhaseInv'
  BY <1>1, <1>3, LoaderWaits DEF Inv
<1> QED BY <1>5, <1>6, <1>7 DEF Inv

LEMMA LocalStep == Inv /\ Local => Inv'
<1> SUFFICES ASSUME Inv, Local PROVE Inv'
  OBVIOUS
<1> DEFINE b == bouncer[1]
<1>1. /\ phase = "asking" /\ stage = 4 /\ UNCHANGED <<config, key, entered, loader>>
      /\ asked' = asked \cup {Stages[stage]}
  BY StageNumbers DEF Local, At, Ask
<1>2. PICK ans :
        \/ ans = "None" /\ Advance /\ UNCHANGED bouncer
        \/ /\ ans \in IPs
           /\ bouncer' = << [b EXCEPT !.localIP = ans] >>
           /\ Advance
        \/ ans \in IPs /\ GiveUp /\ UNCHANGED bouncer
        \/ ans \notin IPs \cup {"None"} /\ AskAgain /\ UNCHANGED bouncer
  BY DEF Local
<1>3. phase' \in {"asking", "failed"} /\ stage' \in {4, 5}
  BY <1>1, <1>2 DEF Advance, GiveUp, AskAgain
<1>4. /\ CP!IsBouncer(b) /\ HasLocal(b) /\ HasListen(b) /\ HasRemote(b) /\ bouncer = << b >>
      /\ Len(entered) <= MaxBouncers
  BY <1>1, StageNumbers DEF Inv, BouncerInv
<1>5. BouncerInv'
  <2>1. CASE UNCHANGED bouncer
    BY <1>1, <1>3, <1>4, <2>1, StageNumbers DEF Inv, BouncerInv
  <2>2. CASE ans \in IPs /\ bouncer' = << [b EXCEPT !.localIP = ans] >>
    <3> DEFINE d == WithLocal(b, ans)
    <3>1. /\ CP!IsBouncer(d) /\ d.localIP = ans
          /\ d.listenIP = b.listenIP /\ d.listenPort = b.listenPort
          /\ d.remoteHost = b.remoteHost /\ d.remotePort = b.remotePort
      BY <1>4, LocalSet
    <3>2. bouncer' = << d >>
      BY <2>2 DEF WithLocal
    <3> HIDE DEF d
    <3>3. HasLocal(d) /\ HasListen(d) /\ HasRemote(d) /\ bouncer'[1] = d /\ bouncer' # <<>>
      BY <1>4, <2>2, <3>1, <3>2 DEF HasLocal, HasListen, HasRemote
    <3> QED BY <1>1, <1>3, <1>4, <3>1, <3>2, <3>3, StageNumbers DEF BouncerInv
  <2> QED BY <1>2, <2>1, <2>2
<1>6. EnteredInv' /\ OptionsInv' /\ StageInv'
  BY <1>1, <1>3, StageNumbers, OthersStay
<1>7. PhaseInv'
  BY <1>1, <1>3, LoaderWaits DEF Inv
<1> QED BY <1>5, <1>6, <1>7 DEF Inv

(* The bouncer goes to the end of what was entered and to the head of the  *)
(* list in the configuration.                                              *)
LEMMA AnotherStep == Inv /\ Another => Inv'
<1> SUFFICES ASSUME Inv, Another PROVE Inv'
  OBVIOUS
<1> DEFINE b == bouncer[1]
<1>1. /\ phase = "asking" /\ stage = 5 /\ bouncer # <<>> /\ UNCHANGED <<phase, key, loader>>
      /\ asked' = asked \cup {Stages[stage]}
      /\ config' = [config EXCEPT !["bouncers"] = bouncer \o config["bouncers"]]
      /\ entered' = entered \o bouncer
  BY StageNumbers DEF Another, At, Ask
<1>2. \/ Len(entered') < MaxBouncers /\ stage' = 2 /\ bouncer' = << BouncerNew >>
      \/ stage' \in {5, 7} /\ bouncer' = <<>>
  BY <1>1, StageNumbers DEF Another
<1>3. IsComplete(b) /\ bouncer = << b >> /\ Len(entered) <= MaxBouncers
  BY <1>1, StageNumbers DEF Inv, BouncerInv, IsComplete
<1>4. /\ entered \in Seq({entered[i] : i \in 1 .. Len(entered)})
      /\ \A i \in 1 .. Len(entered) : IsComplete(entered[i])
      /\ config.bouncers = Reversed(entered)
  BY DEF Inv, EnteredInv
<1>5. /\ Len(entered') = Len(entered) + 1 /\ Len(entered) \in Nat
      /\ entered' \in Seq({entered'[i] : i \in 1 .. Len(entered')})
      /\ \A i \in 1 .. Len(entered') : IsComplete(entered'[i])
      /\ Reversed(entered') = << b >> \o Reversed(entered)
  <2> DEFINE S == {entered[i] : i \in 1 .. Len(entered)} \cup {b}
             t == entered \o << b >>
  <2>1. b \in S /\ entered \in Seq(S)
    <3> DEFINE R == {entered[i] : i \in 1 .. Len(entered)}
    <3>1. entered \in Seq(R) /\ R \subseteq S
      BY <1>4
    <3>2. b \in S
      OBVIOUS
    <3> HIDE DEF R, S
    <3> QED BY <3>1, <3>2
  <2>2. entered' = t
    BY <1>1, <1>3
  <2> HIDE DEF S
  <2>3. /\ t \in Seq(S) /\ Len(t) = Len(entered) + 1 /\ t[Len(entered) + 1] = b
        /\ \A i \in 1 .. Len(entered) : t[i] = entered[i]
        /\ Reversed(t) = << b >> \o Reversed(entered)
    <3>1. b \in S /\ entered \in Seq(S) /\ t = entered \o << b >>
      BY <2>1
    <3> HIDE DEF t, b
    <3>2. t \in Seq(S) /\ Len(t) = Len(entered) + 1 /\ t[Len(entered) + 1] = b
      BY ONLY <3>1, ReversedGrows
    <3>3. \A i \in 1 .. Len(entered) : t[i] = entered[i]
      BY ONLY <3>1, ReversedGrows
    <3>4. Reversed(t) = << b >> \o Reversed(entered)
      <4>1. Reversed(entered \o << b >>) = << b >> \o Reversed(entered)
        BY ONLY <3>1, ReversedAppended
      <4> QED BY ONLY <3>1, <4>1
    <3> QED BY <3>2, <3>3, <3>4
  <2> HIDE DEF t, b
  <2>4. t \in Seq({t[i] : i \in 1 .. Len(t)})
    BY <2>3, CP!OfItsMembers, ConstantsFit, DefaultFits, NoText
  <2>5. Len(entered) \in Nat
    BY <2>1
  <2>6. \A i \in 1 .. Len(t) : IsComplete(t[i])
    <3> TAKE i \in 1 .. Len(t)
    <3>1. i = Len(entered) + 1 \/ i \in 1 .. Len(entered)
      BY <2>3, <2>5
    <3> QED BY <1>3, <1>4, <2>3, <3>1
  <2> QED BY <2>2, <2>3, <2>4, <2>5, <2>6
<1>6. BouncerInv'
  <2>1. CASE Len(entered') < MaxBouncers /\ stage' = 2 /\ bouncer' = << BouncerNew >>
    <3>1. bouncer'[1] = BouncerNew /\ bouncer' # <<>>
      BY <2>1
    <3>2. Len(entered') <= MaxBouncers
      BY <1>5, <2>1, MakeConfAssumption
    <3> QED BY <2>1, <3>1, <3>2, BouncerNewIsOne, StageNumbers DEF BouncerInv
  <2>2. CASE stage' \in {5, 7} /\ bouncer' = <<>>
    BY <2>2, StageNumbers DEF BouncerInv
  <2> QED BY <1>2, <2>1, <2>2
<1>7. CP!IsConfig(config') /\ config'.bouncers = << b >> \o config.bouncers
      /\ \A k \in CP!ConfigKeys \ {"bouncers"} : config'[k] = config[k]
  <2> DEFINE v == << b >> \o config.bouncers
  <2>1. CP!IsConfig(config)
    BY DEF Inv, OptionsInv
  <2>2. config' = [config EXCEPT !["bouncers"] = v]
    BY <1>1, <1>3
  <2>3. "bouncers" \in CP!ConfigKeys
    BY DEF CP!ConfigKeys
  <2> HIDE DEF v
  <2>4. CP!IsConfig(config')
    BY <2>1, <2>2, <2>3, CP!ConfigSetIs, ConstantsFit, DefaultFits, NoText
  <2>5. config'["bouncers"] = v
    <3>1. "bouncers" \in DOMAIN config
      BY <2>1 DEF CP!IsConfig
    <3> QED BY <2>2, <3>1
  <2>6. \A k \in CP!ConfigKeys \ {"bouncers"} : config'[k] = config[k]
    BY <2>1, <2>2, <2>3, CP!ConfigSetKeeps, ConstantsFit, DefaultFits, NoText
  <2> QED BY <2>4, <2>5, <2>6 DEF v
<1>8. EnteredInv'
  <2>1. entered' # <<>> /\ Len(entered') <= MaxBouncers + 1
    BY <1>3, <1>5, MakeConfAssumption
  <2>2. config'.bouncers = Reversed(entered')
    BY <1>4, <1>5, <1>7
  <2> QED BY <1>5, <2>1, <2>2 DEF EnteredInv
<1>9. OptionsInv'
  <2>1. \A option \in CP!Flags \cup CP!Timeouts \cup CP!Texts : config'[option] = config[option]
    BY <1>7 DEF CP!ConfigKeys, CP!Flags, CP!Timeouts, CP!Texts
  <2>2. \A option \in CP!Timeouts : stage # Number(option)
    BY <1>1, StageNumbers DEF CP!Timeouts
  <2>3. \A option \in CP!Timeouts : config[option] \in CP!Ints /\ config[option] >= 0
    BY <2>2, Zenon DEF Inv, OptionsInv
  <2>4. \A option \in CP!Timeouts : config'[option] \in CP!Ints /\ config'[option] >= 0
    BY <2>1, <2>3
  <2>5. \A option \in CP!Flags : config'[option] \in BOOLEAN
    BY <2>1 DEF Inv, OptionsInv
  <2>6. \A option \in CP!Texts : config'[option] # ""
    BY <2>1 DEF Inv, OptionsInv
  <2> QED BY <1>7, <2>4, <2>5, <2>6, Zenon DEF OptionsInv
<1>10. StageInv'
  BY <1>1, <1>2, StageNumbers DEF Inv, StageInv
<1>11. PhaseInv'
  BY <1>1, LoaderWaits DEF Inv
<1> QED BY <1>6, <1>8, <1>9, <1>10, <1>11 DEF Inv

LEMMA AnotherNullStep == Inv /\ AnotherNull => Inv'
<1> SUFFICES ASSUME Inv, AnotherNull PROVE Inv'
  OBVIOUS
<1>1. /\ phase = "asking" /\ phase' = "crashed"
      /\ UNCHANGED <<stage, config, bouncer, key, asked, entered, loader>>
  BY DEF AnotherNull, At, editor
<1>2. PhaseInv'
  BY <1>1, LoaderWaits DEF Inv
<1>3. BouncerInv' /\ EnteredInv'
  BY <1>1 DEF Inv, BouncerInv, EnteredInv
<1>4. StageInv'
  BY <1>1 DEF Inv, StageInv
<1>5. OptionsInv'
  BY <1>1 DEF Inv, OptionsInv
<1> QED BY <1>2, <1>3, <1>4, <1>5 DEF Inv

(* One option of the configuration is set.                                 *)
WithOption(c, option, v) == [c EXCEPT ![option] = v]

LEMMA OptionStored ==
  ASSUME NEW c, CP!IsConfig(c), NEW option, option \in CP!Flags \cup CP!Timeouts \cup CP!Texts,
         NEW v, NEW d, d = WithOption(c, option, v)
  PROVE  /\ CP!IsConfig(d) /\ d[option] = v /\ d.bouncers = c.bouncers
         /\ \A k \in (CP!Flags \cup CP!Timeouts \cup CP!Texts) \ {option} : d[k] = c[k]
<1> DEFINE Options == CP!Flags \cup CP!Timeouts \cup CP!Texts
<1>1. /\ option \in CP!ConfigKeys /\ "bouncers" \in CP!ConfigKeys \ {option}
      /\ Options \subseteq CP!ConfigKeys
  BY DEF CP!ConfigKeys, CP!Flags, CP!Timeouts, CP!Texts
<1>2. CP!IsConfig(d)
  BY <1>1, CP!ConfigSetIs, ConstantsFit, DefaultFits, NoText DEF WithOption
<1>3. \A k \in CP!ConfigKeys \ {option} : d[k] = c[k]
  BY <1>1, CP!ConfigSetKeeps, ConstantsFit, DefaultFits, NoText DEF WithOption
<1>4. d[option] = v
  <2>1. DOMAIN c = CP!ConfigKeys
    BY DEF CP!IsConfig, CP!ConfigKeys, CP!Flags, CP!Timeouts, CP!Texts
  <2> QED BY <1>1, <2>1 DEF WithOption
<1>5. d.bouncers = c.bouncers
  BY <1>1, <1>3
<1> HIDE DEF Options
<1>6. \A k \in Options \ {option} : d[k] = c[k]
  BY <1>1, <1>3
<1> QED BY <1>2, <1>4, <1>5, <1>6, Zenon DEF Options

(* The questions about options leave the bouncers alone.                   *)
LEMMA BouncersStay ==
  ASSUME Inv, stage \in 6 .. 13, stage' \in {stage, stage + 1},
         UNCHANGED <<bouncer, entered>>, config'.bouncers = config.bouncers
  PROVE  BouncerInv' /\ EnteredInv'
<1>1. BouncerInv'
  BY StageNumbers DEF Inv, BouncerInv
<1>2. EnteredInv'
  BY StageNumbers DEF Inv, EnteredInv
<1> QED BY <1>1, <1>2

(* All timeouts are accepted while none of them is being asked for.        *)
LEMMA TimeoutsFit ==
  ASSUME Inv, \A option \in CP!Timeouts : stage # Number(option)
  PROVE  \A option \in CP!Timeouts : config[option] \in CP!Ints /\ config[option] >= 0
  BY Zenon DEF Inv, OptionsInv

LEMMA KindsDiffer ==
  /\ CP!Flags \cap (CP!Timeouts \cup CP!Texts) = {} /\ CP!Timeouts \cap CP!Texts = {}
  /\ \A option \in CP!Flags : Number(option) \in {6, 10}
  /\ \A option \in CP!Timeouts : Number(option) \in {7, 8, 9}
  /\ \A option \in CP!Texts : Number(option) \in {11, 12}
  /\ \A option, other \in CP!Timeouts : Number(option) = Number(other) => option = other
<1>1. CP!Flags \cap (CP!Timeouts \cup CP!Texts) = {} /\ CP!Timeouts \cap CP!Texts = {}
  BY DEF CP!Flags, CP!Timeouts, CP!Texts
<1>2. \A option \in CP!Flags : Number(option) \in {6, 10}
  BY StageNumbers DEF CP!Flags
<1>3. \A option \in CP!Timeouts : Number(option) \in {7, 8, 9}
  BY StageNumbers DEF CP!Timeouts
<1>4. \A option \in CP!Texts : Number(option) \in {11, 12}
  BY StageNumbers DEF CP!Texts
<1>5. \A option, other \in CP!Timeouts : Number(option) = Number(other) => option = other
  BY StageNumbers DEF CP!Timeouts
<1> QED BY <1>1, <1>2, <1>3, <1>4, <1>5

LEMMA FlagStep == ASSUME NEW option \in C!Flags PROVE Inv /\ FlagStage(option) => Inv'
<1> SUFFICES ASSUME Inv, FlagStage(option) PROVE Inv'
  OBVIOUS
<1>1. /\ phase = "asking" /\ stage \in {6, 10} /\ option \in CP!Flags
      /\ UNCHANGED <<bouncer, key, entered, loader>>
      /\ asked' = asked \cup {Stages[stage]}
  BY SameNames, KindsDiffer DEF FlagStage, At, Ask
<1>2. PICK v \in BOOLEAN :
        \/ config' = WithOption(config, option, v) /\ Advance
        \/ UNCHANGED config /\ AskAgain
  BY Zenon DEF FlagStage, Set, WithOption
<1>3. phase' = "asking" /\ stage' \in {stage, stage + 1}
  BY <1>1, <1>2 DEF Advance, AskAgain
<1>4. CP!IsConfig(config)
  BY DEF Inv, OptionsInv
<1>5. /\ CP!IsConfig(config') /\ config'.bouncers = config.bouncers /\ config'[option] \in BOOLEAN
      /\ \A k \in (CP!Flags \cup CP!Timeouts \cup CP!Texts) \ {option} : config'[k] = config[k]
  <2>1. CASE config' = WithOption(config, option, v)
    <3>1. CP!IsConfig(config') /\ config'.bouncers = config.bouncers
      BY <1>1, <1>4, <2>1, OptionStored
    <3>2. config'[option] = v
      BY <1>1, <1>4, <2>1, OptionStored
    <3>3. \A k \in (CP!Flags \cup CP!Timeouts \cup CP!Texts) \ {option} : config'[k] = config[k]
      BY <1>1, <1>4, <2>1, OptionStored
    <3> QED BY <3>1, <3>2, <3>3
  <2>2. CASE UNCHANGED config
    BY <1>1, <1>4, <2>2 DEF Inv, OptionsInv
  <2> QED BY <1>2, <2>1, <2>2
<1>6. BouncerInv' /\ EnteredInv'
  BY <1>1, <1>3, <1>5, BouncersStay
<1>7. OptionsInv'
  <2>1. \A k \in CP!Flags : config'[k] \in BOOLEAN
    BY <1>5 DEF Inv, OptionsInv
  <2>2. \A k \in CP!Timeouts : config'[k] \in CP!Ints /\ config'[k] >= 0
    <3>1. \A k \in CP!Timeouts : stage # Number(k)
      BY <1>1, KindsDiffer
    <3> QED BY <1>1, <1>5, <3>1, TimeoutsFit, KindsDiffer
  <2>3. \A k \in CP!Texts : config'[k] # ""
    BY <1>1, <1>5, KindsDiffer DEF Inv, OptionsInv
  <2> QED BY <1>5, <2>1, <2>2, <2>3, Zenon DEF OptionsInv
<1>8. StageInv'
  BY <1>1, <1>3, StageNumbers DEF Inv, StageInv
<1>9. PhaseInv'
  BY <1>1, <1>3, LoaderWaits DEF Inv
<1> QED BY <1>6, <1>7, <1>8, <1>9 DEF Inv

LEMMA TextStep == ASSUME NEW option \in C!Texts PROVE Inv /\ TextStage(option) => Inv'
<1> SUFFICES ASSUME Inv, TextStage(option) PROVE Inv'
  OBVIOUS
<1>1. /\ phase = "asking" /\ stage \in {11, 12} /\ option \in CP!Texts
      /\ UNCHANGED <<bouncer, key, entered, loader>>
      /\ asked' = asked \cup {Stages[stage]}
  BY SameNames, KindsDiffer DEF TextStage, At, Ask
<1>2. PICK ans \in Answers[option] :
        \/ config' = WithOption(config, option, ans) /\ Advance
        \/ UNCHANGED config /\ (Advance \/ GiveUp)
  BY DEF TextStage, Set, WithOption
<1>3. phase' \in {"asking", "failed"} /\ stage' \in {stage, stage + 1}
  BY <1>1, <1>2 DEF Advance, GiveUp
<1>4. CP!IsConfig(config)
  BY DEF Inv, OptionsInv
<1>10. config'[option] = ans \/ config'[option] = config[option]
  BY <1>1, <1>2, <1>4, OptionStored
<1>5. /\ CP!IsConfig(config') /\ config'.bouncers = config.bouncers
      /\ \A k \in (CP!Flags \cup CP!Timeouts \cup CP!Texts) \ {option} : config'[k] = config[k]
  <2>1. CASE config' = WithOption(config, option, ans)
    <3>1. CP!IsConfig(config') /\ config'.bouncers = config.bouncers
      BY <1>1, <1>4, <2>1, OptionStored
    <3>3. \A k \in (CP!Flags \cup CP!Timeouts \cup CP!Texts) \ {option} : config'[k] = config[k]
      BY <1>1, <1>4, <2>1, OptionStored
    <3> QED BY <3>1, <3>3
  <2>2. CASE UNCHANGED config
    BY <1>1, <1>4, <2>2 DEF Inv, OptionsInv
  <2> QED BY <1>2, <2>1, <2>2
<1>6. BouncerInv' /\ EnteredInv'
  BY <1>1, <1>3, <1>5, BouncersStay
<1>7. OptionsInv'
  <2>1. \A k \in CP!Flags : config'[k] \in BOOLEAN
    BY <1>1, <1>5, KindsDiffer DEF Inv, OptionsInv
  <2>2. \A k \in CP!Timeouts : config'[k] \in CP!Ints /\ config'[k] >= 0
    <3>1. \A k \in CP!Timeouts : stage # Number(k)
      BY <1>1, KindsDiffer
    <3> QED BY <1>1, <1>5, <3>1, TimeoutsFit, KindsDiffer
  <2>3. \A k \in CP!Texts : config'[k] # ""
    <3>1. \A k \in CP!Texts : config[k] # ""
      BY DEF Inv, OptionsInv
    <3>2. ans # ""
      BY AnswersAssumption
    <3> QED BY <1>1, <1>5, <1>10, <3>1, <3>2
  <2> QED BY <1>5, <2>1, <2>2, <2>3, Zenon DEF OptionsInv
<1>8. StageInv'
  BY <1>1, <1>3, StageNumbers DEF Inv, StageInv
<1>9. PhaseInv'
  BY <1>1, <1>3, LoaderWaits DEF Inv
<1> QED BY <1>6, <1>7, <1>8, <1>9 DEF Inv

(* What a timeout stage leaves: it counts on with a timeout that is        *)
(* accepted, or stays at one that is asked for.                            *)
LEMMA TimeoutLeaves ==
  ASSUME NEW option \in CP!Timeouts, Inv, phase = "asking", stage = Number(option),
         UNCHANGED <<phase, bouncer, key, entered, loader>>,
         asked' \in {asked, asked \cup {Stages[stage]}},
         CP!IsConfig(config'), config'.bouncers = config.bouncers,
         \A k \in (CP!Flags \cup CP!Timeouts \cup CP!Texts) \ {option} : config'[k] = config[k],
         config'[option] \in CP!Ints,
         \/ stage' = stage + 1 /\ config'[option] >= 0
         \/ stage' = stage /\ (option = "identtimeout" => config["idnt"] = TRUE)
  PROVE  Inv'
<1>1. stage \in 7 .. 9 /\ stage' \in {stage, stage + 1}
  BY KindsDiffer
<1>2. BouncerInv' /\ EnteredInv'
  BY <1>1, BouncersStay
<1>3. OptionsInv'
  <2>1. \A k \in CP!Flags : config'[k] = config[k] /\ config[k] \in BOOLEAN
    BY KindsDiffer DEF Inv, OptionsInv
  <2>2. \A k \in CP!Texts : config'[k] = config[k] /\ config[k] # ""
    BY KindsDiffer DEF Inv, OptionsInv
  <2>3. config'["idnt"] = config["idnt"]
    BY <2>1 DEF CP!Flags
  <2>4. ASSUME NEW k \in CP!Timeouts, k # option
        PROVE  config'[k] \in CP!Ints /\ config'[k] >= 0
    <3>1. stage # Number(k)
      BY <2>4, KindsDiffer
    <3>2. config[k] \in CP!Ints /\ config[k] >= 0
      BY <2>4, <3>1, Zenon DEF Inv, OptionsInv
    <3> QED BY <2>4, <3>2
  <2>5. \/ config'[option] >= 0
        \/ stage' = Number(option) /\ (option = "identtimeout" => config'["idnt"] = TRUE)
    BY <2>3, Zenon
  <2>6. \A k \in CP!Timeouts :
          /\ config'[k] \in CP!Ints
          /\ \/ config'[k] >= 0
             \/ stage' = Number(k) /\ (k = "identtimeout" => config'["idnt"] = TRUE)
    BY <2>4, <2>5, Zenon
  <2>7. (\A k \in CP!Flags : config'[k] \in BOOLEAN) /\ \A k \in CP!Texts : config'[k] # ""
    BY <2>1, <2>2, Zenon
  <2> QED BY <2>6, <2>7, Zenon DEF OptionsInv
<1>4. StageInv'
  BY <1>1, StageNumbers DEF Inv, StageInv
<1>5. PhaseInv'
  BY LoaderWaits DEF Inv
<1> QED BY <1>2, <1>3, <1>4, <1>5 DEF Inv

LEMMA TimeoutStep == ASSUME NEW option \in C!Timeouts PROVE Inv /\ TimeoutStage(option) => Inv'
<1> SUFFICES ASSUME Inv, TimeoutStage(option) PROVE Inv'
  OBVIOUS
<1>1. /\ phase = "asking" /\ stage = Number(option) /\ option \in CP!Timeouts
      /\ UNCHANGED <<bouncer, key, entered, loader>>
  BY SameNames DEF TimeoutStage, At
<1>2. /\ CP!IsConfig(config) /\ config[option] \in CP!Ints
      /\ \/ config[option] >= 0
         \/ option = "identtimeout" => config["idnt"] = TRUE
  BY <1>1, Zenon DEF Inv, OptionsInv
<1>3. CASE option = "identtimeout" /\ ~config.idnt
  <2>1. stage' = stage + 1 /\ UNCHANGED <<phase, config, asked>>
    BY <1>3 DEF TimeoutStage, Advance
  <2>2. config'[option] >= 0
    BY <1>2, <1>3, <2>1, Zenon
  <2> QED BY <1>1, <1>2, <2>1, <2>2, TimeoutLeaves
<1>4. CASE ~(option = "identtimeout" /\ ~config.idnt)
  <2>1. option = "identtimeout" => config["idnt"] = TRUE
    <3>1. config["idnt"] \in BOOLEAN
      BY Zenon DEF Inv, OptionsInv, CP!Flags
    <3> QED BY <1>4, <3>1
  <2>2. asked' = asked \cup {Stages[stage]}
    BY <1>4, Zenon DEF TimeoutStage, Ask
  <2>3. PICK ans \in Answers[option] :
          \/ /\ C!IsNumber(ans) /\ config' = WithOption(config, option, CP!AsInt(ans[1]))
             /\ IF CP!AsInt(ans[1]) >= 0 THEN Advance ELSE AskAgain
          \/ UNCHANGED config /\ AskAgain
    BY <1>4, SameInts, Zenon DEF TimeoutStage, Set, WithOption
  <2>4. CASE UNCHANGED config /\ AskAgain
    <3>1. stage' = stage /\ UNCHANGED <<phase, config>>
      BY <2>4 DEF AskAgain
    <3> QED BY <1>1, <1>2, <2>1, <2>2, <3>1, TimeoutLeaves
  <2>5. CASE /\ C!IsNumber(ans) /\ config' = WithOption(config, option, CP!AsInt(ans[1]))
             /\ IF CP!AsInt(ans[1]) >= 0 THEN Advance ELSE AskAgain
    <3> DEFINE v == CP!AsInt(ans[1])
    <3>1. ans[1] \in Int
      BY <2>5, AnswersAssumption DEF C!IsNumber
    <3>2. v \in CP!Ints
      BY <3>1, CP!AsIntIsInt, ConstantsFit, DefaultFits, NoText, Zenon
    <3>3. /\ config' = WithOption(config, option, v) /\ UNCHANGED phase
          /\ \/ stage' = stage + 1 /\ v >= 0
             \/ stage' = stage
      BY <2>5 DEF Advance, AskAgain
    <3> HIDE DEF v
    <3>4. CP!IsConfig(config') /\ config'.bouncers = config.bouncers
      BY <1>1, <1>2, <3>3, OptionStored
    <3>5. config'[option] = v
      BY <1>1, <1>2, <3>3, OptionStored
    <3>6. \A k \in (CP!Flags \cup CP!Timeouts \cup CP!Texts) \ {option} : config'[k] = config[k]
      BY <1>1, <1>2, <3>3, OptionStored
    <3>7. \/ stage' = stage + 1 /\ config'[option] >= 0
          \/ stage' = stage /\ (option = "identtimeout" => config["idnt"] = TRUE)
      BY <2>1, <3>3, <3>5, Zenon
    <3>8. config'[option] \in CP!Ints
      BY <3>2, <3>5
    <3> QED BY <1>1, <2>2, <3>3, <3>4, <3>6, <3>7, <3>8, TimeoutLeaves
  <2> QED BY <2>3, <2>4, <2>5
<1> QED BY <1>3, <1>4

LEMMA PasswordStep == Inv /\ Password => Inv'
<1> SUFFICES ASSUME Inv, Password PROVE Inv'
  OBVIOUS
<1>1. /\ phase = "asking" /\ stage = 13 /\ UNCHANGED <<config, bouncer, entered, loader>>
      /\ asked' = asked \cup {Stages[stage]}
  BY StageNumbers DEF Password, At, Ask
<1>2. /\ UNCHANGED phase
      /\ \/ stage' = stage + 1 /\ key' \in {"short", "full"}
         \/ stage' = stage /\ UNCHANGED key
  BY AnswersAssumption DEF Password, Advance, AskAgain
<1>3. BouncerInv' /\ EnteredInv'
  BY <1>1, <1>2, BouncersStay
<1>4. OptionsInv'
  <2>1. \A k \in CP!Timeouts : stage # Number(k)
    BY <1>1, KindsDiffer
  <2>2. \A k \in CP!Timeouts : config'[k] \in CP!Ints /\ config'[k] >= 0
    BY <1>1, <2>1, TimeoutsFit
  <2> QED BY <1>1, <2>2, Zenon DEF Inv, OptionsInv
<1>5. StageInv'
  BY <1>1, <1>2, StageNumbers DEF Inv, StageInv
<1>6. PhaseInv'
  BY <1>1, <1>2, LoaderWaits DEF Inv
<1> QED BY <1>3, <1>4, <1>5, <1>6 DEF Inv

-----------------------------------------------------------------------------
(* What is saved when all questions are answered, and what the loader      *)
(* makes of it.                                                            *)

LEMMA EndConfig ==
  ASSUME Inv, stage = 14, NEW bs, bs = config.bouncers
  PROVE  /\ CP!Saveable(config)
         /\ Len(entered) \in Nat /\ Len(entered) > 0 /\ Len(bs) = Len(entered)
         /\ \A i \in 1 .. Len(entered) : bs[i] = entered[Len(entered) + 1 - i]
         /\ \A i \in 1 .. Len(entered) : IsComplete(entered[i])
<1> DEFINE S == {entered[i] : i \in 1 .. Len(entered)}
<1>1. /\ entered \in Seq(S) /\ bs = Reversed(entered) /\ entered # <<>>
      /\ \A i \in 1 .. Len(entered) : IsComplete(entered[i])
  BY StageNumbers DEF Inv, EnteredInv
<1>2. \A s \in S : IsComplete(s)
  BY <1>1
<1> HIDE DEF S
<1>3. /\ bs \in Seq(S) /\ Len(bs) = Len(entered)
      /\ \A i \in 1 .. Len(entered) : bs[i] = entered[Len(entered) + 1 - i]
  BY <1>1, ReversedIs
<1>4. Len(entered) \in Nat /\ Len(entered) > 0
  BY <1>1
<1>5. bs \in Seq({bs[i] : i \in 1 .. Len(bs)})
  BY <1>3, CP!OfItsMembers, ConstantsFit, DefaultFits, NoText
<1>6. \A i \in 1 .. Len(bs) : CP!IsBouncer(bs[i])
  BY <1>2, <1>3 DEF IsComplete
<1>7. CP!HasOptions(config)
  <2>1. \A option \in CP!Timeouts : stage # Number(option)
    BY KindsDiffer
  <2>2. \A option \in CP!Timeouts : config[option] \in CP!Ints /\ config[option] >= 0
    BY <2>1, TimeoutsFit
  <2>3. \A n \in CP!Ints : n >= 0 => n \in 0 .. IntMod \div 2 - 1
    BY ConstantsFit DEF CP!Ints
  <2>4. \A option \in CP!Timeouts : config[option] \in 0 .. IntMod \div 2 - 1
    BY <2>2, <2>3
  <2> QED BY <2>4, Zenon DEF Inv, OptionsInv, CP!HasOptions
<1>8. CP!Saveable(config)
  BY <1>5, <1>6, <1>7 DEF Inv, OptionsInv, CP!Saveable
<1> QED BY <1>1, <1>3, <1>4, <1>8

LEMMA EndLength ==
  ASSUME Inv, stage = 14
  PROVE  /\ Len(CP!Config_saveBuffer(config)) = CP!HeadLen(config) + Len(entered)
         /\ Len(CP!Config_saveBuffer(config)) \in Nat
<1>1. Len(entered) \in Nat /\ Len(config.bouncers) = Len(entered)
  BY EndConfig
<1>2. CP!HeadLen(config) \in 5 .. 7
  BY CP!HeadLenValue, ConstantsFit, DefaultFits, NoText, Zenon
<1>3. Len(CP!Config_saveBuffer(config)) = CP!HeadLen(config) + Len(entered)
  BY <1>1, CP!SavedText, ConstantsFit, DefaultFits, NoText
<1> QED BY <1>1, <1>2, <1>3

(* The whole text gives the bouncers in the order of entry, and the        *)
(* options.                                                                *)
LEMMA EndLoaded ==
  ASSUME Inv, stage = 14,
         NEW d, d = CP!After(config, Len(CP!Config_saveBuffer(config)))
  PROVE  /\ d.bouncers = [i \in 1 .. Len(entered) |-> CP!Reread(entered[i])]
         /\ CP!IsConfig(d) /\ \A k \in CP!ConfigKeys \ {"bouncers"} : d[k] = config[k]
<1> DEFINE bs == config.bouncers
           n == Len(entered)
<1>1. /\ CP!Saveable(config) /\ n \in Nat /\ n > 0 /\ Len(bs) = n
      /\ \A i \in 1 .. n : bs[i] = entered[n + 1 - i]
  BY EndConfig
<1>2. Len(CP!Config_saveBuffer(config)) = CP!HeadLen(config) + n
  BY EndLength
<1> HIDE DEF n
<1>3. d = CP!After(config, CP!HeadLen(config) + Len(config.bouncers))
  BY <1>1, <1>2
<1>4. CP!IsConfig(d)
  BY <1>1, <1>3, CP!AfterAll, ConstantsFit, DefaultFits, NoText, Zenon
<1>5. \A k \in CP!ConfigKeys \ {"bouncers"} : d[k] = config[k]
  BY <1>1, <1>3, CP!AfterAll, ConstantsFit, DefaultFits, NoText, ZenonT(40)
<1>6. d.bouncers = [i \in 1 .. Len(bs) |-> CP!Reread(bs[Len(bs) + 1 - i])]
  BY <1>1, <1>3, CP!AfterAll, ConstantsFit, DefaultFits, NoText, Zenon
<1>7. d.bouncers = [i \in 1 .. n |-> CP!Reread(bs[n + 1 - i])]
  BY <1>1, <1>6
<1>8. ASSUME NEW i \in 1 .. n PROVE bs[n + 1 - i] = entered[i]
  <2>1. n + 1 - i \in 1 .. n /\ n + 1 - (n + 1 - i) = i
    BY <1>1
  <2> QED BY <1>1, <2>1
<1> HIDE DEF bs
<1>9. d.bouncers = [i \in 1 .. n |-> CP!Reread(entered[i])]
  BY <1>7, <1>8
<1> QED BY <1>4, <1>5, <1>9 DEF n

(* A control character in the text was entered.                            *)
LEMMA EndControl ==
  ASSUME Inv, stage = 14, HasControl(CP!Config_saveBuffer(config)) PROVE ControlEntered
<1> DEFINE f == CP!Config_saveBuffer(config)
<1>1. Len(config.bouncers) \in Nat
  BY EndConfig
<1>2. PICK i \in 1 .. Len(f) : f[i][1] \in CP!Texts /\ f[i][2] \in Unprintable
  BY SameNames DEF HasControl
<1>3. f[i][2] \in {config.pidfile, config.welcomemsg}
  BY <1>1, <1>2, CP!TextsInLines, ConstantsFit, DefaultFits, NoText
<1> HIDE DEF f
<1> QED BY <1>2, <1>3 DEF ControlEntered

(* Bouncers with a local ip and hosts that still resolve pass the check.   *)
LEMMA EndSane ==
  ASSUME Inv, stage = 14,
         NEW d, d = CP!After(config, Len(CP!Config_saveBuffer(config))),
         \A i \in 1 .. Len(entered) : entered[i].localIP # CP!Null,
         \A i \in 1 .. Len(entered) : entered[i].remoteHost \in Hosts
  PROVE  CP!Config_sanityCheck(d)
<1> DEFINE bs == d.bouncers
           n == Len(entered)
<1>1. bs = [i \in 1 .. n |-> CP!Reread(entered[i])]
  BY EndLoaded
<1>2. n \in Nat /\ n > 0 /\ \A i \in 1 .. n : IsComplete(entered[i])
  BY EndConfig
<1>3. ASSUME NEW i \in 1 .. n PROVE CP!SaneBouncer(CP!Reread(entered[i]))
  <2>1. CP!IsBouncer(entered[i]) /\ entered[i].localIP # CP!Null
    BY <1>2, <1>3 DEF IsComplete
  <2>2. CP!SaneBouncer(entered[i])
    BY <1>2, <1>3, <2>1, Zenon
       DEF IsComplete, HasListen, HasRemote, HasLocal, CP!SaneBouncer
  <2> QED BY <2>1, <2>2, CP!RereadBouncer, ConstantsFit, DefaultFits, NoText
<1> HIDE DEF n
<1>4. bs # <<>> /\ Len(bs) = n /\ \A i \in 1 .. n : CP!SaneBouncer(bs[i])
  <2> HIDE DEF bs
  <2>1. \A i \in 1 .. n : CP!SaneBouncer(bs[i])
    BY <1>1, <1>3
  <2>2. DOMAIN bs = 1 .. n
    BY <1>1
  <2>3. bs # <<>>
    BY <1>2, <2>2
  <2>4. Len(bs) = n
    BY <1>1, <1>2
  <2> QED BY <2>1, <2>3, <2>4
<1> QED BY <1>4 DEF CP!Config_sanityCheck

-----------------------------------------------------------------------------
(* The editor's end and the start of the bouncer leave what was entered    *)
(* alone.                                                                  *)
LEMMA EditorStays ==
  ASSUME Inv, UNCHANGED editor
  PROVE  BouncerInv' /\ EnteredInv' /\ OptionsInv' /\ StageInv'
<1>1. UNCHANGED <<stage, config, bouncer, key, asked, entered>>
  BY DEF editor
<1>2. BouncerInv' /\ EnteredInv'
  BY <1>1 DEF Inv, BouncerInv, EnteredInv
<1>3. OptionsInv'
  BY <1>1 DEF Inv, OptionsInv
<1>4. StageInv'
  BY <1>1 DEF Inv, StageInv
<1> QED BY <1>2, <1>3, <1>4

LEMMA CauseStays == ASSUME UNCHANGED editor PROVE Cause' = Cause
<1>1. UNCHANGED <<config, key, entered>>
  BY DEF editor
<1> QED BY <1>1 DEF Cause, ShortKey, ControlEntered, HostIsGone, NoLocalIP

LEMMA SaveStep == Inv /\ Save => Inv'
<1> SUFFICES ASSUME Inv, Save PROVE Inv'
  OBVIOUS
<1>1. /\ phase = "asking" /\ stage = Number("end") /\ UNCHANGED editor
      /\ UNCHANGED <<at, conf, status>>
  BY DEF Save, At
<1>2. \/ phase' = "saved" /\ file' = CP!Config_saveBuffer(config)
      \/ phase' \in {"failed", "lost"}
  BY SameLoader, Zenon DEF Save
<1>3. UNCHANGED <<stage, config, key, entered>>
  BY <1>1 DEF editor
<1>4. at = 1 /\ conf = CP!Default /\ status = "reading"
  BY <1>1 DEF Inv, PhaseInv
<1>5. PhaseInv'
  BY <1>1, <1>2, <1>3, <1>4 DEF PhaseInv
<1> QED BY <1>1, <1>5, EditorStays DEF Inv

LEMMA DecryptStep == Inv /\ Decrypt => Inv'
<1> SUFFICES ASSUME Inv, Decrypt PROVE Inv'
  OBVIOUS
<1>1. /\ phase = "saved" /\ UNCHANGED editor /\ UNCHANGED loader
      /\ \/ phase' \in {"loading", "no memory"}
         \/ phase' = "rejected" /\ (key # "full" \/ HasControl(file))
  BY DEF Decrypt
<1>2. /\ stage = Number("end") /\ file = CP!Config_saveBuffer(config)
      /\ at = 1 /\ conf = CP!Default /\ status = "reading"
  BY <1>1 DEF Inv, PhaseInv
<1>3. UNCHANGED <<stage, config, key, entered, file, at, conf, status>>
  BY <1>1 DEF editor, loader
<1>4. key \in {"short", "full"}
  BY <1>2 DEF Inv, StageInv
<1>5. CP!After(config, 0) = CP!Default
  BY CP!AfterNone, ConstantsFit, DefaultFits, NoText, Zenon
<1>6. at \in 1 .. Len(file) + 1
  BY <1>2, StageNumbers, EndLength
<1>7. CP!After(config, at - 1) = conf
  BY <1>2, <1>5
<1>8. phase' = "rejected" => Cause
  BY <1>1, <1>2, <1>4, StageNumbers, EndControl DEF Cause, ShortKey
<1>9. PhaseInv'
  BY <1>1, <1>2, <1>3, <1>6, <1>7, <1>8, CauseStays DEF PhaseInv
<1> QED BY <1>1, <1>9, EditorStays DEF Inv

(* A line of the saved text is never a bad one.                            *)
LEMMA LineStep ==
  ASSUME Inv, phase = "loading", C!LoadStep
  PROVE  /\ at' = at + 1 /\ at \in 1 .. Len(file) /\ UNCHANGED <<file, status>>
         /\ conf' = CP!After(config, at)
<1>1. /\ stage = 14 /\ file = CP!Config_saveBuffer(config)
      /\ at \in 1 .. Len(file) + 1 /\ conf = CP!After(config, at - 1)
  BY StageNumbers DEF Inv, PhaseInv
<1>2. CP!Saveable(config) /\ Len(file) \in Nat
  BY <1>1, EndConfig, EndLength
<1>3. at <= Len(file) /\ UNCHANGED file
  BY DEF C!LoadStep
<1>4. at \in 1 .. Len(file) /\ at - 1 \in 0 .. Len(file) - 1 /\ (at - 1) + 1 = at
  BY <1>1, <1>2, <1>3
<1> DEFINE n == at - 1
<1>5. CP!LoadLine(CP!After(config, n), file[n + 1]) = << CP!After(config, n + 1) >>
  <2>1. n \in 0 .. Len(file) - 1
    BY <1>4
  <2> HIDE DEF n
  <2> QED BY <1>1, <1>2, <2>1, CP!ReloadStep, ConstantsFit, DefaultFits, NoText, Zenon
<1>6. C!LoadLine(conf, file[at]) = << CP!After(config, at) >>
  <2>1. CP!LoadLine(conf, file[at]) = << CP!After(config, at) >>
    BY <1>1, <1>4, <1>5
  <2> QED BY <2>1, SameLoader, Zenon
<1>7. /\ conf' = CP!After(config, at) /\ at' = at + 1 /\ UNCHANGED status
  BY <1>6 DEF C!LoadStep
<1> QED BY <1>3, <1>4, <1>7

LEMMA BouncerLoads == Inv /\ Load => Inv'
<1> SUFFICES ASSUME Inv, Load PROVE Inv'
  OBVIOUS
<1>1. /\ phase = "loading" /\ UNCHANGED editor
      /\ C!LoadStep \/ C!LoadEnds \/ C!NoMemory
      /\ phase' = CASE status' = "reading"   -> "loading"
                    [] status' = "loaded"    -> "running"
                    [] status' = "no memory" -> "no memory"
                    [] OTHER                 -> "rejected"
  BY DEF Load, C!Next
<1>2. UNCHANGED <<stage, config, key, entered>>
  BY <1>1 DEF editor
<1>3. /\ stage = Number("end") /\ file = CP!Config_saveBuffer(config) /\ status = "reading"
      /\ at \in 1 .. Len(file) + 1 /\ conf = CP!After(config, at - 1)
  BY <1>1 DEF Inv, PhaseInv
<1>4. Len(file) \in Nat
  BY <1>3, StageNumbers, EndLength
<1>5. CASE C!LoadStep
  <2>1. /\ at' = at + 1 /\ at \in 1 .. Len(file) /\ UNCHANGED <<file, status>>
        /\ conf' = CP!After(config, at)
    BY <1>1, <1>5, LineStep
  <2>2. phase' = "loading"
    BY <1>1, <1>3, <2>1
  <2>3. at' \in 1 .. Len(file') + 1 /\ at' - 1 = at
    BY <1>4, <2>1
  <2>4. conf' = CP!After(config', at' - 1)
    BY <1>2, <2>1, <2>3
  <2>5. PhaseInv'
    BY <1>2, <1>3, <2>1, <2>2, <2>3, <2>4 DEF PhaseInv
  <2> QED BY <1>1, <2>5, EditorStays DEF Inv
<1>6. CASE C!LoadEnds
  <2>1. /\ at > Len(file) /\ UNCHANGED <<file, at, conf>>
        /\ status' = IF CP!Config_sanityCheck(conf) THEN "loaded" ELSE "insane"
    BY <1>6, SameLoader, Zenon DEF C!LoadEnds
  <2>2. at - 1 = Len(file) /\ conf = CP!After(config, Len(file))
    BY <1>3, <1>4, <2>1
  <2>3. CASE CP!Config_sanityCheck(conf)
    <3>1. phase' = "running"
      BY <1>1, <2>1, <2>3
    <3>2. conf' = CP!After(config', Len(file')) /\ CP!Config_sanityCheck(conf')
      BY <1>2, <2>1, <2>2, <2>3
    <3>3. PhaseInv'
      BY <1>2, <1>3, <2>1, <3>1, <3>2 DEF PhaseInv
    <3> QED BY <1>1, <3>3, EditorStays DEF Inv
  <2>4. CASE ~CP!Config_sanityCheck(conf)
    <3>1. phase' = "rejected"
      BY <1>1, <2>1, <2>4
    <3>2. HostIsGone \/ NoLocalIP
      BY <1>3, <2>2, <2>4, StageNumbers, SameNames, EndSane DEF HostIsGone, NoLocalIP
    <3>3. Cause'
      BY <1>1, <3>2, CauseStays DEF Cause
    <3>4. PhaseInv'
      BY <1>2, <1>3, <2>1, <3>1, <3>3 DEF PhaseInv
    <3> QED BY <1>1, <3>4, EditorStays DEF Inv
  <2> QED BY <2>3, <2>4
<1>7. CASE C!NoMemory
  <2>1. phase' = "no memory" /\ UNCHANGED <<file, at, conf>>
    BY <1>1, <1>7 DEF C!NoMemory
  <2>2. PhaseInv'
    BY <1>2, <1>3, <2>1 DEF PhaseInv
  <2> QED BY <1>1, <2>2, EditorStays DEF Inv
<1> QED BY <1>1, <1>5, <1>6, <1>7

LEMMA MakeConfInvariant == Spec => []Inv
<1>1. Inv /\ [Next]_vars => Inv'
  <2> SUFFICES ASSUME Inv, [Next]_vars PROVE Inv'
    OBVIOUS
  <2>1. CASE Listen
    BY <2>1, ListenStep
  <2>2. CASE Remote
    BY <2>2, RemoteStep
  <2>3. CASE Local
    BY <2>3, LocalStep
  <2>4. CASE Another
    BY <2>4, AnotherStep
  <2>5. CASE AnotherNull
    BY <2>5, AnotherNullStep
  <2>6. CASE \E option \in C!Flags : FlagStage(option)
    BY <2>6, FlagStep
  <2>7. CASE \E option \in C!Timeouts : TimeoutStage(option)
    BY <2>7, TimeoutStep
  <2>8. CASE \E option \in C!Texts : TextStage(option)
    BY <2>8, TextStep
  <2>9. CASE Password
    BY <2>9, PasswordStep
  <2>10. CASE Save
    BY <2>10, SaveStep
  <2>11. CASE Decrypt
    BY <2>11, DecryptStep
  <2>12. CASE Load
    BY <2>12, BouncerLoads
  <2>13. CASE UNCHANGED vars
    <3>1. UNCHANGED editor /\ UNCHANGED <<phase, file, at, conf, status>>
      BY <2>13 DEF vars, loader
    <3>2. UNCHANGED <<stage, config, key, entered>>
      BY <3>1 DEF editor
    <3>3. PhaseInv'
      BY <3>1, <3>2, CauseStays DEF Inv, PhaseInv
    <3> QED BY <3>1, <3>3, EditorStays DEF Inv
  <2> QED BY <2>1, <2>2, <2>3, <2>4, <2>5, <2>6, <2>7, <2>8, <2>9, <2>10, <2>11, <2>12, <2>13
      DEF Next, Questions
<1> QED BY <1>1, InitInv, PTL DEF Spec

-----------------------------------------------------------------------------
(* The types of the variables; there is a bouncer to fill in until the     *)
(* list is complete.                                                       *)
THEOREM MakeConfTypeOK == Spec => []TypeOK
<1>1. Inv => TypeOK
  <2> SUFFICES ASSUME Inv PROVE TypeOK
    OBVIOUS
  <2>1. /\ stage \in 1 .. Len(Stages) /\ key \in {"none", "short", "full"}
        /\ asked \subseteq {Stages[n] : n \in 1 .. Len(Stages)}
    BY StageNumbers DEF Inv, StageInv
  <2>2. Len(bouncer) <= 1 /\ (stage < Number("another") => bouncer # <<>>)
    <3>1. bouncer = <<>> \/ \E b : bouncer = << b >>
      BY Zenon DEF Inv, BouncerInv
    <3>2. Len(bouncer) <= 1
      <4>1. CASE bouncer = <<>>
        BY <4>1
      <4>2. CASE \E b : bouncer = << b >>
        <5>1. PICK b : bouncer = << b >>
          BY <4>2
        <5> QED BY <5>1
      <4> QED BY <3>1, <4>1, <4>2
    <3> QED BY <3>2, Zenon DEF Inv, BouncerInv
  <2>3. Len(entered) <= MaxBouncers + 1
    BY DEF Inv, EnteredInv
  <2>4. /\ phase \in {"asking", "failed", "crashed", "lost", "saved", "loading", "running",
                      "no memory", "rejected"}
        /\ status = "reading" \/ phase \in {"running", "no memory", "rejected"}
    BY DEF Inv, PhaseInv
  <2> QED BY <2>1, <2>2, <2>3, <2>4 DEF TypeOK
<1> QED BY <1>1, MakeConfInvariant, PTL

(* A bouncer that starts runs what the user entered (makeconf.c,           *)
(* Config_saveBuffer, Config_loadBuffer): its bouncers are those entered,  *)
(* in the order of entry after the list was turned round twice, and every  *)
(* option is the one of the editor's configuration.                        *)
THEOREM RunsWhatWasEntered == Spec => []LoadedIsEntered
<1>1. Inv => LoadedIsEntered
  <2> SUFFICES ASSUME Inv, phase = "running"
               PROVE  /\ conf.bouncers = [i \in 1 .. Len(entered) |-> C!PortsAsInts(entered[i])]
                      /\ \A option \in DOMAIN conf \ {"bouncers"} : conf[option] = config[option]
    BY DEF LoadedIsEntered
  <2> DEFINE n == Len(entered)
  <2>1. /\ stage = 14 /\ file = CP!Config_saveBuffer(config)
        /\ conf = CP!After(config, Len(file)) /\ CP!Config_sanityCheck(conf)
    BY StageNumbers DEF Inv, PhaseInv
  <2>2. /\ conf.bouncers = [i \in 1 .. n |-> CP!Reread(entered[i])]
        /\ CP!IsConfig(conf) /\ \A k \in CP!ConfigKeys \ {"bouncers"} : conf[k] = config[k]
    BY <2>1, EndLoaded
  <2>3. n \in Nat /\ \A i \in 1 .. n : IsComplete(entered[i])
    BY <2>1, EndConfig
  <2>4. ASSUME NEW i \in 1 .. n PROVE CP!Reread(entered[i]) = C!PortsAsInts(entered[i])
    <3>1. CP!SaneBouncer(CP!Reread(entered[i]))
      <4>1. Len(conf.bouncers) = n
        BY <2>2, <2>3
      <4>2. CP!SaneBouncer(conf.bouncers[i])
        BY <2>1, <4>1 DEF CP!Config_sanityCheck
      <4> QED BY <2>2, <4>2
    <3>2. CP!Printed(entered[i].localIP) \in IPs
      BY <3>1 DEF CP!SaneBouncer, CP!Reread
    <3>3. entered[i].localIP # CP!Null
      BY <3>2, ConstantsFit DEF CP!Printed
    <3>4. CP!Reread(entered[i]) = CP!PortsAsInts(entered[i])
      BY <2>3, <3>3, CP!RereadBouncer, ConstantsFit, DefaultFits, NoText DEF IsComplete
    <3> QED BY <3>4, SameInts
  <2>5. conf.bouncers = [i \in 1 .. n |-> C!PortsAsInts(entered[i])]
    BY <2>2, <2>4
  <2>6. \A option \in DOMAIN conf \ {"bouncers"} : conf[option] = config[option]
    <3>1. DOMAIN conf = CP!ConfigKeys
      BY <2>2 DEF CP!IsConfig, CP!ConfigKeys, CP!Flags, CP!Timeouts, CP!Texts
    <3> QED BY <2>2, <3>1
  <2> QED BY <2>5, <2>6
<1> QED BY <1>1, MakeConfInvariant, PTL

(* A bouncer built by the editor and given its password is not refused its *)
(* configuration unless the password is shorter than the key, a text has a *)
(* control character, a remote host no longer resolves, or a bouncer has   *)
(* no local ip, or else memory fails: the text the editor saves has no bad *)
(* line, nothing else the check for control characters would stop at, and  *)
(* the rest of it passes Config_sanityCheck.                               *)
THEOREM RejectedOnlyForThese == Spec => []RejectedOnlyFor
<1>1. Inv => RejectedOnlyFor
  BY DEF Inv, PhaseInv, Cause, RejectedOnlyFor
<1> QED BY <1>1, MakeConfInvariant, PTL

=============================================================================
