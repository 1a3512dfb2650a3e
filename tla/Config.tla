------------------------------- MODULE Config -------------------------------
(***************************************************************************)
(* Reading and writing the configuration (config.c): Config_loadBuffer     *)
(* goes through the text line by line, then Config_sanityCheck judges the  *)
(* whole; Config_saveBuffer writes the text the conf editor embeds.        *)
(*                                                                         *)
(* A line is <<key, value>>.  The value of "bouncer" is the sequence of    *)
(* its fields: listen ip, port, remote host, port, local ip and so on.  A  *)
(* number in the text is <<n, TRUE>>, or <<n, FALSE>> when something that  *)
(* is not a digit follows it; text that starts with no number is <<>>.     *)
(***************************************************************************)
EXTENDS Integers, Sequences, FiniteSets

CONSTANTS
  IPs,       \* texts that are IP addresses (inet_pton)
  Hosts,     \* texts that getaddrinfo resolves
  IntMod,    \* 2^32, the number of values of an int
  MaxPort,   \* 65535
  Files      \* the texts to consider, sequences of lines

ASSUME ConfigAssumption ==
  /\ IPs \subseteq Hosts
  /\ IntMod \in Nat /\ IntMod % 2 = 0 /\ MaxPort \in 0 .. (IntMod \div 2 - 1)
  /\ "NULL" \notin Hosts /\ "(null)" \notin Hosts

Null == "NULL"

(* A long stored in an int, or printed with %i.                            *)
AsInt(n) == ((n + IntMod \div 2) % IntMod) - IntMod \div 2

Flags == {"idnt", "dnslookup"}
Timeouts == {"identtimeout", "idletimeout", "writetimeout"}
Texts == {"pidfile", "welcomemsg"}

(* Config_new.                                                             *)
Default == [bouncers |-> <<>>,
            idnt |-> TRUE, dnslookup |-> TRUE,
            identtimeout |-> 10, idletimeout |-> 0, writetimeout |-> 30,
            pidfile |-> Null, welcomemsg |-> Null]

ASSUME DefaultAssumption == \A t \in Timeouts : Default[t] < IntMod \div 2

-----------------------------------------------------------------------------
(* The functions below return <<result>>, or <<>> for an error.            *)

(* Bouncer_parse: without a local ip the listen ip is taken for it.        *)
Bouncer_parse(f) ==
  IF Len(f) \in {4, 5} /\ f[2] # <<>> /\ f[4] # <<>>
  THEN << [listenIP |-> f[1], listenPort |-> f[2][1],
           remoteHost |-> f[3], remotePort |-> f[4][1],
           localIP |-> IF Len(f) = 5 THEN f[5] ELSE f[1]] >>
  ELSE <<>>

(* What a text is: a sequence of lines in which every number is an integer.*)
IsLine(l) ==
  /\ l[1] \in Timeouts /\ l[2] # <<>> => l[2][1] \in Int
  /\ l[1] = "bouncer" /\ Bouncer_parse(l[2]) # <<>> =>
       LET b == Bouncer_parse(l[2])[1] IN {b.listenPort, b.remotePort} \subseteq Int

ASSUME FilesAssumption ==
  \A f \in Files :
    /\ f \in Seq({f[i] : i \in 1 .. Len(f)})
    /\ \A i \in 1 .. Len(f) : IsLine(f[i])

LoadFlag(c, key, v) ==
  IF v \in {"true", "false"} THEN << [c EXCEPT ![key] = v = "true"] >> ELSE <<>>

(* strToInt and strToLong want nothing after the number.                   *)
IsNumber(v) == v # <<>> /\ v[2]

LoadTimeout(c, key, v) ==
  IF IsNumber(v) /\ AsInt(v[1]) >= 0 THEN << [c EXCEPT ![key] = AsInt(v[1])] >> ELSE <<>>

LoadText(c, key, v) ==
  IF v # "" THEN << [c EXCEPT ![key] = v] >> ELSE <<>>

(* Mutant: bouncers are put at the end of the list.                        *)
LoadBouncerLast(c, f) ==
  IF Bouncer_parse(f) # <<>> THEN << [c EXCEPT !.bouncers = @ \o Bouncer_parse(f)] >> ELSE <<>>

(* A bouncer is put at the head of the list.                               *)
LoadBouncer(c, f) ==
  IF Bouncer_parse(f) # <<>> THEN << [c EXCEPT !.bouncers = Bouncer_parse(f) \o @] >> ELSE <<>>

(* One round of the loop of Config_loadBuffer.                             *)
LoadLine(c, l) ==
  CASE l[1] = "#"        -> << c >>
    [] l[1] = "bouncer"  -> LoadBouncer(c, l[2])
    [] l[1] \in Flags    -> LoadFlag(c, l[1], l[2])
    [] l[1] \in Timeouts -> LoadTimeout(c, l[1], l[2])
    [] l[1] \in Texts    -> LoadText(c, l[1], l[2])
    [] OTHER             -> <<>>

isValidPort(p) == AsInt(p) \in 0 .. MaxPort

SaneBouncer(b) ==
  /\ b.listenIP \in IPs /\ isValidPort(b.listenPort)
  /\ b.remoteHost \in Hosts /\ isValidPort(b.remotePort)
  /\ b.localIP \in IPs

Config_sanityCheck(c) ==
  /\ c.bouncers # <<>>
  /\ \A i \in 1 .. Len(c.bouncers) : SaneBouncer(c.bouncers[i])

-----------------------------------------------------------------------------
(* Config_saveBuffer.                                                      *)

FlagText(v) == IF v THEN "true" ELSE "false"
Numeral(n) == << AsInt(n), TRUE >>

(* printf("%s", NULL) prints "(null)".                                     *)
Printed(s) == IF s = Null THEN "(null)" ELSE s

BouncerLine(b) ==
  << "bouncer", << b.listenIP, Numeral(b.listenPort), b.remoteHost, Numeral(b.remotePort),
                   Printed(b.localIP) >> >>

Optional(key, v) == IF v = Null THEN <<>> ELSE << <<key, v>> >>

(* Mutant: the write timeout is not saved.                                 *)
SaveBufferForgets(c) ==
  << <<"idnt", FlagText(c.idnt)>>,
     <<"identtimeout", Numeral(c.identtimeout)>>,
     <<"idletimeout", Numeral(c.idletimeout)>>,
     <<"dnslookup", FlagText(c.dnslookup)>> >>
  \o Optional("pidfile", c.pidfile) \o Optional("welcomemsg", c.welcomemsg)
  \o [i \in 1 .. Len(c.bouncers) |-> BouncerLine(c.bouncers[i])]

Config_saveBuffer(c) ==
  << <<"idnt", FlagText(c.idnt)>>,
     <<"identtimeout", Numeral(c.identtimeout)>>,
     <<"idletimeout", Numeral(c.idletimeout)>>,
     <<"writetimeout", Numeral(c.writetimeout)>>,
     <<"dnslookup", FlagText(c.dnslookup)>> >>
  \o Optional("pidfile", c.pidfile) \o Optional("welcomemsg", c.welcomemsg)
  \o [i \in 1 .. Len(c.bouncers) |-> BouncerLine(c.bouncers[i])]

-----------------------------------------------------------------------------
(* Config_loadBuffer as it goes through a text.                            *)

VARIABLES file, at, conf, status

vars == <<file, at, conf, status>>

Init ==
  /\ file \in Files
  /\ at = 1
  /\ conf = Default
  /\ status = "reading"

LoadStep ==
  /\ status = "reading" /\ at <= Len(file)
  /\ LET r == LoadLine(conf, file[at]) IN
     \/ r # <<>> /\ conf' = r[1] /\ at' = at + 1 /\ UNCHANGED status
     \/ r = <<>> /\ status' = "bad line" /\ UNCHANGED <<conf, at>>
  /\ UNCHANGED file

LoadEnds ==
  /\ status = "reading" /\ at > Len(file)
  /\ status' = IF Config_sanityCheck(conf) THEN "loaded" ELSE "insane"
  /\ UNCHANGED <<file, at, conf>>

(* strndup, strdup or calloc fails.                                        *)
NoMemory ==
  /\ status = "reading"
  /\ status' = "no memory"
  /\ UNCHANGED <<file, at, conf>>

Next == LoadStep \/ LoadEnds \/ NoMemory

Spec == Init /\ [][Next]_vars

-----------------------------------------------------------------------------
(* Properties.                                                             *)

(* The lines of f with this key, by their numbers.                         *)
LinesOf(f, key) == {i \in 1 .. Len(f) : f[i][1] = key}

(* What the value of an option says.                                       *)
Meaning(key, v) ==
  CASE key \in Flags    -> v = "true"
    [] key \in Timeouts -> AsInt(v[1])
    [] OTHER            -> v

(* A text declares for each option what its last line says, or the         *)
(* default; and the bouncers of all bouncer lines, the last one first: a   *)
(* line is as far from the end of the text as its bouncer is from the head *)
(* of the list.                                                            *)
DeclaresBouncers(f, bs) ==
  LET lines == LinesOf(f, "bouncer") IN
  /\ Len(bs) = Cardinality(lines)
  /\ \A i \in lines :
       << bs[Cardinality({j \in lines : j >= i})] >> = Bouncer_parse(f[i][2])

DeclaresOption(f, key, v) ==
  \/ LinesOf(f, key) = {} /\ v = Default[key]
  \/ \E i \in LinesOf(f, key) :
       (\A j \in LinesOf(f, key) : j <= i) /\ v = Meaning(key, f[i][2])

Declares(f, c) ==
  /\ DOMAIN c = DOMAIN Default
  /\ DeclaresBouncers(f, c.bouncers)
  /\ \A key \in Flags \cup Timeouts \cup Texts : DeclaresOption(f, key, c[key])

(* Loading line by line comes to what the text declares as a whole.        *)
LoadedAsDeclared == status = "loaded" => Declares(file, conf)

(* Saving a loaded configuration and loading the text again gives the same *)
(* configuration, but for two things: the list of bouncers is reversed,    *)
(* and ports come back as the ints they are used as.                       *)
PortsAsInts(b) == [b EXCEPT !.listenPort = AsInt(@), !.remotePort = AsInt(@)]

AsSaved(c) ==
  [c EXCEPT !.bouncers = [i \in 1 .. Len(@) |-> PortsAsInts(@[Len(@) + 1 - i])]]

LoadAll(lines) ==
  LET after[n \in 0 .. Len(lines)] ==
        IF n = 0 THEN << Default >>
        ELSE IF after[n - 1] = <<>> THEN <<>>
        ELSE LoadLine(after[n - 1][1], lines[n])
  IN  after[Len(lines)]

SavedConfigReloads ==
  status = "loaded" =>
    LET r == LoadAll(Config_saveBuffer(conf)) IN
    r # <<>> /\ r[1] = AsSaved(conf) /\ Config_sanityCheck(r[1])

=============================================================================
