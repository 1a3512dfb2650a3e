---------------------------- MODULE ConfigProofs ----------------------------
(***************************************************************************)
(* Theorems about Config: what Config_loadBuffer has loaded is what the    *)
(* text declares, and the text Config_saveBuffer writes loads again.       *)
(***************************************************************************)
EXTENDS Config, FiniteSetTheorems, WellFoundedInduction, TLAPS

-----------------------------------------------------------------------------
(* Ints.                                                                   *)

Ints == -(IntMod \div 2) .. IntMod \div 2 - 1

LEMMA HalfInt == /\ IntMod \in Nat /\ IntMod = 2 * (IntMod \div 2)
                 /\ IntMod \div 2 \in Nat /\ IntMod \div 2 > 0
  BY ConfigAssumption

(* A remainder lies below the divisor, and is the number if that does.     *)
LEMMA Remainder ==
  ASSUME NEW n \in Int, NEW m \in Nat, m > 0
  PROVE  /\ n % m \in 0 .. m - 1
         /\ n \in 0 .. m - 1 => n % m = n
  OBVIOUS

LEMMA AsIntIsInt == \A n \in Int : AsInt(n) \in Ints
<1> TAKE n \in Int
<1>1. (n + IntMod \div 2) % IntMod \in 0 .. IntMod - 1
  BY HalfInt, Remainder
<1> QED BY <1>1, HalfInt DEF AsInt, Ints

LEMMA AsIntOfInt == \A n \in Ints : AsInt(n) = n
<1> TAKE n \in Ints
<1>1. n + IntMod \div 2 \in 0 .. IntMod - 1
  BY HalfInt DEF Ints
<1>2. (n + IntMod \div 2) % IntMod = n + IntMod \div 2
  BY <1>1, HalfInt, Remainder
<1> QED BY <1>1, <1>2, HalfInt DEF AsInt, Ints

-----------------------------------------------------------------------------
(* The text that Config_saveBuffer writes, and the way back.               *)

(* A record with the fields of a configuration.                            *)
IsConfig(c) ==
  c = [bouncers |-> c.bouncers, idnt |-> c.idnt, dnslookup |-> c.dnslookup,
       identtimeout |-> c.identtimeout, idletimeout |-> c.idletimeout,
       writetimeout |-> c.writetimeout, pidfile |-> c.pidfile, welcomemsg |-> c.welcomemsg]

(* A configuration as the program builds them: flags are booleans,         *)
(* timeouts ints and not negative, no text is empty, ports are integers.   *)
IsBouncer(b) ==
  /\ b = [listenIP |-> b.listenIP, listenPort |-> b.listenPort,
          remoteHost |-> b.remoteHost, remotePort |-> b.remotePort, localIP |-> b.localIP]
  /\ {b.listenPort, b.remotePort} \subseteq Int

HasOptions(c) ==
  /\ \A key \in Flags : c[key] \in BOOLEAN
  /\ \A key \in Timeouts : c[key] \in 0 .. IntMod \div 2 - 1
  /\ \A key \in Texts : c[key] # ""

Saveable(c) ==
  /\ IsConfig(c)
  /\ HasOptions(c)
  /\ c.bouncers \in Seq({c.bouncers[i] : i \in 1 .. Len(c.bouncers)})
  /\ \A i \in 1 .. Len(c.bouncers) : IsBouncer(c.bouncers[i])

(* How many lines the text has before its bouncers.                        *)
HasLine(v) == IF v = Null THEN 0 ELSE 1
HeadLen(c) == 5 + HasLine(c.pidfile) + HasLine(c.welcomemsg)

(* Sequences: one behind another, and as the members of some set.          *)
LEMMA Glued ==
  ASSUME NEW S, NEW s \in Seq(S), NEW t \in Seq(S)
  PROVE  /\ s \o t \in Seq(S) /\ Len(s \o t) = Len(s) + Len(t)
         /\ \A i \in 1 .. Len(s) : (s \o t)[i] = s[i]
         /\ \A i \in 1 .. Len(t) : (s \o t)[Len(s) + i] = t[i]
  OBVIOUS

LEMMA FourGlued ==
  ASSUME NEW S, NEW s \in Seq(S), NEW t \in Seq(S), NEW u \in Seq(S), NEW v \in Seq(S),
         NEW f, f = ((s \o t) \o u) \o v
  PROVE  /\ f \in Seq(S) /\ Len(f) = Len(s) + Len(t) + Len(u) + Len(v)
         /\ \A i \in 1 .. Len(s) : f[i] = s[i]
         /\ \A i \in 1 .. Len(t) : f[Len(s) + i] = t[i]
         /\ \A i \in 1 .. Len(u) : f[Len(s) + Len(t) + i] = u[i]
         /\ \A i \in 1 .. Len(v) : f[Len(s) + Len(t) + Len(u) + i] = v[i]
<1> DEFINE st == s \o t
           stu == st \o u
<1>1. /\ st \in Seq(S) /\ Len(st) = Len(s) + Len(t)
      /\ \A i \in 1 .. Len(s) : st[i] = s[i]
      /\ \A i \in 1 .. Len(t) : st[Len(s) + i] = t[i]
  OBVIOUS
<1>2. f = stu \o v
  OBVIOUS
<1>6. st \in Seq(S)
  BY <1>1
<1> HIDE DEF st
<1>3. /\ stu \in Seq(S) /\ Len(stu) = Len(st) + Len(u)
      /\ \A i \in 1 .. Len(st) : stu[i] = st[i]
      /\ \A i \in 1 .. Len(u) : stu[Len(st) + i] = u[i]
  BY <1>6
<1>7. stu \in Seq(S)
  BY <1>3
<1> HIDE DEF stu
<1>5. /\ f \in Seq(S) /\ Len(f) = Len(stu) + Len(v)
      /\ \A i \in 1 .. Len(stu) : f[i] = stu[i]
      /\ \A i \in 1 .. Len(v) : f[Len(stu) + i] = v[i]
  BY <1>2, <1>7
<1>4. Len(s) \in Nat /\ Len(t) \in Nat /\ Len(u) \in Nat /\ Len(v) \in Nat
  OBVIOUS
<1> QED BY <1>1, <1>3, <1>4, <1>5

LEMMA OfItsMembers ==
  ASSUME NEW S, NEW s \in Seq(S)
  PROVE  s \in Seq({s[i] : i \in 1 .. Len(s)})
<1>1. s \in [1 .. Len(s) -> {s[i] : i \in 1 .. Len(s)}] /\ Len(s) \in Nat
  OBVIOUS
<1> QED BY <1>1

LEMMA SavedText ==
  ASSUME NEW c, Len(c.bouncers) \in Nat, NEW f, f = Config_saveBuffer(c)
  PROVE  /\ Len(f) = HeadLen(c) + Len(c.bouncers)
         /\ f \in Seq({f[i] : i \in 1 .. Len(f)})
         /\ f[1] = <<"idnt", FlagText(c.idnt)>>
         /\ f[2] = <<"identtimeout", Numeral(c.identtimeout)>>
         /\ f[3] = <<"idletimeout", Numeral(c.idletimeout)>>
         /\ f[4] = <<"writetimeout", Numeral(c.writetimeout)>>
         /\ f[5] = <<"dnslookup", FlagText(c.dnslookup)>>
         /\ c.pidfile # Null => f[6] = <<"pidfile", c.pidfile>>
         /\ c.welcomemsg # Null => f[HeadLen(c)] = <<"welcomemsg", c.welcomemsg>>
         /\ \A i \in 1 .. Len(c.bouncers) : f[HeadLen(c) + i] = BouncerLine(c.bouncers[i])
<1> DEFINE five == << <<"idnt", FlagText(c.idnt)>>,
                      <<"identtimeout", Numeral(c.identtimeout)>>,
                      <<"idletimeout", Numeral(c.idletimeout)>>,
                      <<"writetimeout", Numeral(c.writetimeout)>>,
                      <<"dnslookup", FlagText(c.dnslookup)>> >>
           pid == Optional("pidfile", c.pidfile)
           msg == Optional("welcomemsg", c.welcomemsg)
           n == Len(c.bouncers)
           bs == [i \in 1 .. n |-> BouncerLine(c.bouncers[i])]
           S == {five[i] : i \in 1 .. 5} \cup {<<"pidfile", c.pidfile>>, <<"welcomemsg", c.welcomemsg>>}
                  \cup {bs[i] : i \in 1 .. n}
<1>1. five \in Seq(S) /\ Len(five) = 5
  OBVIOUS
<1>2. /\ pid \in Seq(S) /\ Len(pid) = HasLine(c.pidfile) /\ Len(pid) \in {0, 1}
      /\ c.pidfile # Null => Len(pid) = 1 /\ pid[1] = <<"pidfile", c.pidfile>>
  <2>1. CASE c.pidfile = Null
    BY <2>1 DEF Optional, HasLine
  <2>2. CASE c.pidfile # Null
    <3>1. pid = << <<"pidfile", c.pidfile>> >> /\ <<"pidfile", c.pidfile>> \in S
      BY <2>2 DEF Optional
    <3> HIDE DEF pid, S
    <3> QED BY <2>2, <3>1 DEF HasLine
  <2> QED BY <2>1, <2>2
<1>3. /\ msg \in Seq(S) /\ Len(msg) = HasLine(c.welcomemsg) /\ Len(msg) \in {0, 1}
      /\ c.welcomemsg # Null => Len(msg) = 1 /\ msg[1] = <<"welcomemsg", c.welcomemsg>>
  <2>1. CASE c.welcomemsg = Null
    BY <2>1 DEF Optional, HasLine
  <2>2. CASE c.welcomemsg # Null
    <3>1. msg = << <<"welcomemsg", c.welcomemsg>> >> /\ <<"welcomemsg", c.welcomemsg>> \in S
      BY <2>2 DEF Optional
    <3> HIDE DEF msg, S
    <3> QED BY <2>2, <3>1 DEF HasLine
  <2> QED BY <2>1, <2>2
<1>4. bs \in Seq(S) /\ Len(bs) = n /\ \A i \in 1 .. n : bs[i] = BouncerLine(c.bouncers[i])
  <2>1. \A i \in 1 .. n : bs[i] \in S
    OBVIOUS
  <2> HIDE DEF S
  <2>2. bs \in [1 .. n -> S]
    BY <2>1
  <2> QED BY <2>2
<1>5. f = ((five \o pid) \o msg) \o bs
  BY DEF Config_saveBuffer
<1>6. /\ five[1] = <<"idnt", FlagText(c.idnt)>>
      /\ five[2] = <<"identtimeout", Numeral(c.identtimeout)>>
      /\ five[3] = <<"idletimeout", Numeral(c.idletimeout)>>
      /\ five[4] = <<"writetimeout", Numeral(c.writetimeout)>>
      /\ five[5] = <<"dnslookup", FlagText(c.dnslookup)>>
  OBVIOUS
<1> HIDE DEF five, pid, msg, bs, S
<1>10. /\ f \in Seq(S) /\ Len(f) = 5 + Len(pid) + Len(msg) + n
       /\ \A i \in 1 .. 5 : f[i] = five[i]
       /\ \A i \in 1 .. Len(pid) : f[5 + i] = pid[i]
       /\ \A i \in 1 .. Len(msg) : f[5 + Len(pid) + i] = msg[i]
       /\ \A i \in 1 .. n : f[5 + Len(pid) + Len(msg) + i] = bs[i]
  <2>1. /\ f \in Seq(S) /\ Len(f) = Len(five) + Len(pid) + Len(msg) + Len(bs)
        /\ \A i \in 1 .. Len(five) : f[i] = five[i]
        /\ \A i \in 1 .. Len(pid) : f[Len(five) + i] = pid[i]
        /\ \A i \in 1 .. Len(msg) : f[Len(five) + Len(pid) + i] = msg[i]
        /\ \A i \in 1 .. Len(bs) : f[Len(five) + Len(pid) + Len(msg) + i] = bs[i]
    <3>1. five \in Seq(S) /\ pid \in Seq(S) /\ msg \in Seq(S) /\ bs \in Seq(S)
      BY <1>1, <1>2, <1>3, <1>4
    <3> QED BY ONLY <3>1, <1>5, FourGlued
  <2> QED BY <1>1, <1>4, <2>1
<1>11. HeadLen(c) = 5 + Len(pid) + Len(msg)
  BY <1>2, <1>3 DEF HeadLen
<1>12. f \in Seq({f[i] : i \in 1 .. Len(f)})
  <2>1. f \in Seq(S)
    BY <1>10
  <2> QED BY <2>1, OfItsMembers
<1>13. c.pidfile # Null => f[6] = <<"pidfile", c.pidfile>>
  BY <1>2, <1>10
<1>14. c.welcomemsg # Null => f[HeadLen(c)] = <<"welcomemsg", c.welcomemsg>>
  BY <1>2, <1>3, <1>10, <1>11
<1>15. \A i \in 1 .. n : f[HeadLen(c) + i] = BouncerLine(c.bouncers[i])
  BY <1>4, <1>10, <1>11
<1>16. Len(f) = HeadLen(c) + n
  BY <1>10, <1>11
<1>17. f[1] = five[1] /\ f[2] = five[2] /\ f[3] = five[3] /\ f[4] = five[4] /\ f[5] = five[5]
  <2>1. \A i \in 1 .. 5 : f[i] = five[i]
    BY <1>10
  <2> QED BY ONLY <2>1
<1> QED BY <1>6, <1>12, <1>13, <1>14, <1>15, <1>16, <1>17, Zenon

(* The two texts come to the text as they are, and nowhere else.           *)
LEMMA TextsInLines ==
  ASSUME NEW c, Len(c.bouncers) \in Nat, NEW f, f = Config_saveBuffer(c),
         NEW i \in 1 .. Len(f), f[i][1] \in Texts
  PROVE  f[i][2] \in {c.pidfile, c.welcomemsg}
<1> DEFINE n == Len(c.bouncers)
           h == HeadLen(c)
<1>1. h = 5 + HasLine(c.pidfile) + HasLine(c.welcomemsg) /\ h \in 5 .. 7
  BY DEF HeadLen, HasLine
<1>2. /\ Len(f) = h + n /\ n \in Nat
      /\ c.pidfile # Null => f[6] = <<"pidfile", c.pidfile>>
      /\ c.welcomemsg # Null => f[h] = <<"welcomemsg", c.welcomemsg>>
      /\ \A k \in 1 .. n : f[h + k] = BouncerLine(c.bouncers[k])
      /\ \A k \in 1 .. 5 : f[k][1] \notin Texts
  <2>1. /\ Len(f) = h + n /\ n \in Nat
        /\ c.pidfile # Null => f[6] = <<"pidfile", c.pidfile>>
        /\ c.welcomemsg # Null => f[h] = <<"welcomemsg", c.welcomemsg>>
        /\ \A k \in 1 .. n : f[h + k] = BouncerLine(c.bouncers[k])
    BY SavedText, Zenon
  <2>2. /\ f[1][1] = "idnt" /\ f[2][1] = "identtimeout" /\ f[3][1] = "idletimeout"
        /\ f[4][1] = "writetimeout" /\ f[5][1] = "dnslookup"
    <3>1. /\ f[1] = <<"idnt", FlagText(c.idnt)>>
          /\ f[2] = <<"identtimeout", Numeral(c.identtimeout)>>
          /\ f[3] = <<"idletimeout", Numeral(c.idletimeout)>>
          /\ f[4] = <<"writetimeout", Numeral(c.writetimeout)>>
          /\ f[5] = <<"dnslookup", FlagText(c.dnslookup)>>
      BY SavedText, Zenon
    <3> QED BY <3>1
  <2>3. \A k \in 1 .. 5 : f[k][1] \notin Texts
    BY ONLY <2>2 DEF Texts
  <2> QED BY <2>1, <2>3
<1>3. ASSUME NEW k \in 1 .. n PROVE f[h + k][1] = "bouncer"
  BY <1>2, <1>3 DEF BouncerLine
<1> HIDE DEF n, h
<1>4. i \notin 1 .. 5 /\ i \in Int /\ i >= 1 /\ i <= h + n
  BY <1>2
<1>5. ~(i > h)
  <2> SUFFICES ASSUME i > h PROVE FALSE
    OBVIOUS
  <2>1. i - h \in 1 .. n /\ h + (i - h) = i
    BY <1>1, <1>2, <1>4
  <2>2. f[i][1] = "bouncer"
    BY <1>3, <2>1
  <2> QED BY <2>2 DEF Texts
<1>6. i \in {6, 7} /\ i <= h
  BY <1>1, <1>4, <1>5
<1>7. CASE c.pidfile # Null /\ i = 6
  BY <1>2, <1>7
<1>8. CASE ~(c.pidfile # Null /\ i = 6)
  <2>1. c.welcomemsg # Null /\ i = h
    BY <1>1, <1>6, <1>8 DEF HasLine
  <2> QED BY <1>2, <2>1
<1> QED BY <1>7, <1>8

(* The kinds of lines exclude each other.                                  *)
LEMMA LineLoads ==
  ASSUME NEW d, NEW l
  PROVE  /\ l[1] = "#" => LoadLine(d, l) = << d >>
         /\ l[1] = "bouncer" => LoadLine(d, l) = LoadBouncer(d, l[2])
         /\ l[1] \in Flags => LoadLine(d, l) = LoadFlag(d, l[1], l[2])
         /\ l[1] \in Timeouts => LoadLine(d, l) = LoadTimeout(d, l[1], l[2])
         /\ l[1] \in Texts => LoadLine(d, l) = LoadText(d, l[1], l[2])
         /\ l[1] \notin {"#", "bouncer"} \cup Flags \cup Timeouts \cup Texts =>
              LoadLine(d, l) = <<>>
<1>1. /\ "#" \notin Flags \cup Timeouts \cup Texts
      /\ "bouncer" \notin Flags \cup Timeouts \cup Texts
      /\ Flags \cap (Timeouts \cup Texts) = {} /\ Timeouts \cap Texts = {}
  BY DEF Flags, Timeouts, Texts
<1>2. CASE l[1] = "#"
  BY <1>1, <1>2 DEF LoadLine
<1>3. CASE l[1] = "bouncer"
  BY <1>1, <1>3 DEF LoadLine
<1>4. CASE l[1] \in Flags
  BY <1>1, <1>4 DEF LoadLine
<1>5. CASE l[1] \in Timeouts
  BY <1>1, <1>5 DEF LoadLine
<1>6. CASE l[1] \in Texts
  BY <1>1, <1>6 DEF LoadLine
<1>7. CASE l[1] \notin {"#", "bouncer"} \cup Flags \cup Timeouts \cup Texts
  BY <1>7 DEF LoadLine
<1> QED BY <1>2, <1>3, <1>4, <1>5, <1>6, <1>7

(* What the loader makes of each kind of line that is written.             *)
LEMMA FlagReloads ==
  ASSUME NEW d, NEW key \in Flags, NEW v \in BOOLEAN
  PROVE  LoadLine(d, <<key, FlagText(v)>>) = << [d EXCEPT ![key] = v] >>
<1>1. FlagText(v) \in {"true", "false"} /\ (FlagText(v) = "true") = v
  BY DEF FlagText
<1>3. LoadLine(d, <<key, FlagText(v)>>) = LoadFlag(d, key, FlagText(v))
  BY LineLoads
<1> QED BY <1>1, <1>3 DEF LoadFlag

LEMMA TimeoutReloads ==
  ASSUME NEW d, NEW key \in Timeouts, NEW v \in 0 .. IntMod \div 2 - 1
  PROVE  LoadLine(d, <<key, Numeral(v)>>) = << [d EXCEPT ![key] = v] >>
<1>1. AsInt(v) = v /\ v >= 0
  BY HalfInt, AsIntOfInt DEF Ints
<1>2. Numeral(v) = <<v, TRUE>>
  BY <1>1 DEF Numeral
<1>3. LoadLine(d, <<key, Numeral(v)>>) = LoadTimeout(d, key, Numeral(v))
  BY LineLoads
<1> QED BY <1>1, <1>2, <1>3 DEF LoadTimeout, IsNumber

LEMMA TextReloads ==
  ASSUME NEW d, NEW key \in Texts, NEW v, v # ""
  PROVE  LoadLine(d, <<key, v>>) = << [d EXCEPT ![key] = v] >>
<1> DEFINE l == <<key, v>>
<1>1. LoadLine(d, l) = LoadText(d, key, v)
  <2>1. l[1] = key /\ l[2] = v
    OBVIOUS
  <2> HIDE DEF l
  <2> QED BY <2>1, LineLoads
<1> QED BY <1>1 DEF LoadText

(* A bouncer comes back with ints for ports, and with a text for a null.   *)
Reread(b) == [listenIP |-> b.listenIP, listenPort |-> AsInt(b.listenPort),
              remoteHost |-> b.remoteHost, remotePort |-> AsInt(b.remotePort),
              localIP |-> Printed(b.localIP)]

LEMMA BouncerReloads ==
  ASSUME NEW d, NEW b
  PROVE  LoadLine(d, BouncerLine(b)) = << [d EXCEPT !.bouncers = << Reread(b) >> \o @] >>
<1> DEFINE f == << b.listenIP, Numeral(b.listenPort), b.remoteHost, Numeral(b.remotePort),
                   Printed(b.localIP) >>
<1>1. LoadLine(d, BouncerLine(b)) = LoadBouncer(d, f)
  BY LineLoads DEF BouncerLine
<1>2. /\ Len(f) = 5 /\ f[1] = b.listenIP /\ f[3] = b.remoteHost /\ f[5] = Printed(b.localIP)
      /\ f[2] = <<AsInt(b.listenPort), TRUE>> /\ f[4] = <<AsInt(b.remotePort), TRUE>>
  BY DEF Numeral
<1> HIDE DEF f
<1>3. Bouncer_parse(f) = << Reread(b) >>
  BY <1>2 DEF Bouncer_parse, Reread
<1> QED BY <1>1, <1>3 DEF LoadBouncer

(* The configuration after n lines of the text that is saved for c.        *)
BouncersRead(c, n) == IF n > HeadLen(c) THEN n - HeadLen(c) ELSE 0

BouncersAfter(c, n) ==
  [i \in 1 .. BouncersRead(c, n) |-> Reread(c.bouncers[BouncersRead(c, n) + 1 - i])]

(* A field has its value from the n-th line on.                            *)
From(n, line, v, default) == IF n >= line THEN v ELSE default

After(c, n) ==
  [bouncers |-> BouncersAfter(c, n),
   idnt |-> From(n, 1, c.idnt, TRUE),
   dnslookup |-> From(n, 5, c.dnslookup, TRUE),
   identtimeout |-> From(n, 2, c.identtimeout, 10),
   idletimeout |-> From(n, 3, c.idletimeout, 0),
   writetimeout |-> From(n, 4, c.writetimeout, 30),
   pidfile |-> From(n, 5 + HasLine(c.pidfile), c.pidfile, Null),
   welcomemsg |-> From(n, HeadLen(c), c.welcomemsg, Null)]

LEMMA FromLine ==
  /\ \A v, w : \A n, line \in Nat :
       /\ n < line => From(n, line, v, w) = w
       /\ n >= line => From(n, line, v, w) = v
       /\ n + 1 # line => From(n, line, v, w) = From(n + 1, line, v, w)
  /\ \A n, line, v : From(n, line, v, v) = v
  BY DEF From

LEMMA HeadLenValue ==
  ASSUME NEW c
  PROVE  /\ HasLine(c.pidfile) \in {0, 1} /\ HasLine(c.welcomemsg) \in {0, 1}
         /\ HeadLen(c) = 5 + HasLine(c.pidfile) + HasLine(c.welcomemsg)
         /\ HeadLen(c) \in 5 .. 7
         /\ c.pidfile = Null => HasLine(c.pidfile) = 0
         /\ c.pidfile # Null => HasLine(c.pidfile) = 1
         /\ c.welcomemsg = Null => HasLine(c.welcomemsg) = 0
         /\ c.welcomemsg # Null => HasLine(c.welcomemsg) = 1
  BY DEF HeadLen, HasLine

(* Two of them are equal if their fields are.                              *)
LEMMA ConfigsEqual ==
  ASSUME NEW c, NEW d, IsConfig(c), IsConfig(d),
         c.bouncers = d.bouncers, c.idnt = d.idnt, c.dnslookup = d.dnslookup,
         c.identtimeout = d.identtimeout, c.idletimeout = d.idletimeout,
         c.writetimeout = d.writetimeout, c.pidfile = d.pidfile, c.welcomemsg = d.welcomemsg
  PROVE  c = d
  BY DEF IsConfig

ConfigKeys == {"bouncers"} \cup Flags \cup Timeouts \cup Texts

LEMMA ConfigSet ==
  ASSUME NEW c, IsConfig(c), NEW key, key \in ConfigKeys, NEW v, NEW d, d = [c EXCEPT ![key] = v]
  PROVE  IsConfig(d) /\ d[key] = v /\ \A k \in ConfigKeys \ {key} : d[k] = c[k]
<1>1. DOMAIN c = ConfigKeys
  BY DEF IsConfig, ConfigKeys, Flags, Timeouts, Texts
<1>2. /\ DOMAIN d = ConfigKeys /\ d = [k \in ConfigKeys |-> d[k]]
      /\ d[key] = v /\ \A k \in ConfigKeys \ {key} : d[k] = c[k]
  BY <1>1 DEF IsConfig
<1>3. IsConfig(d)
  BY <1>2 DEF IsConfig, ConfigKeys, Flags, Timeouts, Texts
<1> QED BY <1>2, <1>3

LEMMA ConfigSetIs ==
  ASSUME NEW c, IsConfig(c), NEW key, key \in ConfigKeys, NEW v, NEW d, d = [c EXCEPT ![key] = v]
  PROVE  IsConfig(d)
  BY ConfigSet

LEMMA ConfigSetKeeps ==
  ASSUME NEW c, IsConfig(c), NEW key, key \in ConfigKeys, NEW v, NEW d, d = [c EXCEPT ![key] = v],
         NEW k, k \in ConfigKeys \ {key}
  PROVE  d[k] = c[k]
  BY ConfigSet

LEMMA AfterFields ==
  ASSUME NEW c, NEW n
  PROVE  /\ IsConfig(After(c, n))
         /\ After(c, n).bouncers = BouncersAfter(c, n)
         /\ After(c, n).idnt = From(n, 1, c.idnt, TRUE)
         /\ After(c, n).dnslookup = From(n, 5, c.dnslookup, TRUE)
         /\ After(c, n).identtimeout = From(n, 2, c.identtimeout, 10)
         /\ After(c, n).idletimeout = From(n, 3, c.idletimeout, 0)
         /\ After(c, n).writetimeout = From(n, 4, c.writetimeout, 30)
         /\ After(c, n).pidfile = From(n, 5 + HasLine(c.pidfile), c.pidfile, Null)
         /\ After(c, n).welcomemsg = From(n, HeadLen(c), c.welcomemsg, Null)
  BY Zenon DEF After, IsConfig

LEMMA AfterNone ==
  ASSUME NEW c
  PROVE  After(c, 0) = Default
<1>1. BouncersRead(c, 0) = 0 /\ HeadLen(c) \in 5 .. 7 /\ HasLine(c.pidfile) \in {0, 1}
  BY HeadLenValue DEF BouncersRead
<1>2. BouncersAfter(c, 0) = <<>>
  BY <1>1 DEF BouncersAfter
<1>3. IsConfig(Default)
  BY DEF Default, IsConfig
<1>4. \A v, w : \A line \in Nat \ {0} : From(0, line, v, w) = w
  BY FromLine
<1>5. {1, 2, 3, 4, 5, 5 + HasLine(c.pidfile), HeadLen(c)} \subseteq Nat \ {0}
  BY <1>1
<1>6. /\ Default.bouncers = <<>> /\ Default.idnt = TRUE /\ Default.dnslookup = TRUE
      /\ Default.identtimeout = 10 /\ Default.idletimeout = 0 /\ Default.writetimeout = 30
      /\ Default.pidfile = Null /\ Default.welcomemsg = Null
  BY DEF Default
<1> DEFINE d == After(c, 0)
<1>7. IsConfig(d)
  BY AfterFields
<1>8. d.bouncers = <<>>
  BY <1>2 DEF After
<1>9. d.idnt = TRUE /\ d.dnslookup = TRUE
  BY <1>4, <1>5 DEF After
<1>10. d.identtimeout = 10 /\ d.idletimeout = 0 /\ d.writetimeout = 30
  BY <1>4, <1>5 DEF After
<1>11. d.pidfile = Null /\ d.welcomemsg = Null
  BY <1>4, <1>5 DEF After
<1> HIDE DEF d
<1>12. d = Default
  BY <1>3, <1>6, <1>7, <1>8, <1>9, <1>10, <1>11, ConfigsEqual, Zenon
<1> QED BY <1>12 DEF d

(* Each field changes with its own line.                                   *)
LEMMA AfterKeeps ==
  ASSUME NEW c, NEW n \in Nat
  PROVE  /\ n # 0 => After(c, n).idnt = After(c, n + 1).idnt
         /\ n # 1 => After(c, n).identtimeout = After(c, n + 1).identtimeout
         /\ n # 2 => After(c, n).idletimeout = After(c, n + 1).idletimeout
         /\ n # 3 => After(c, n).writetimeout = After(c, n + 1).writetimeout
         /\ n # 4 => After(c, n).dnslookup = After(c, n + 1).dnslookup
         /\ n # 5 \/ c.pidfile = Null => After(c, n).pidfile = After(c, n + 1).pidfile
         /\ n # HeadLen(c) - 1 \/ c.welcomemsg = Null =>
              After(c, n).welcomemsg = After(c, n + 1).welcomemsg
         /\ n < HeadLen(c) => After(c, n).bouncers = After(c, n + 1).bouncers
<1>1. HeadLen(c) \in 5 .. 7 /\ 5 + HasLine(c.pidfile) \in {5, 6}
      /\ (c.pidfile # Null => 5 + HasLine(c.pidfile) = 6)
  BY HeadLenValue
<1>2. \A v, w : /\ n # 0 => From(n, 1, v, w) = From(n + 1, 1, v, w)
                /\ n # 1 => From(n, 2, v, w) = From(n + 1, 2, v, w)
                /\ n # 2 => From(n, 3, v, w) = From(n + 1, 3, v, w)
                /\ n # 3 => From(n, 4, v, w) = From(n + 1, 4, v, w)
                /\ n # 4 => From(n, 5, v, w) = From(n + 1, 5, v, w)
  BY DEF From
<1>3. \A v, w : c.pidfile # Null /\ n # 5 =>
        From(n, 5 + HasLine(c.pidfile), v, w) = From(n + 1, 5 + HasLine(c.pidfile), v, w)
  BY <1>1 DEF From
<1>4. \A v, w : n # HeadLen(c) - 1 =>
        From(n, HeadLen(c), v, w) = From(n + 1, HeadLen(c), v, w)
  BY <1>1 DEF From
<1>5. \A m, line, v : From(m, line, v, v) = v
  BY DEF From
<1>6. n < HeadLen(c) => BouncersAfter(c, n) = BouncersAfter(c, n + 1)
  BY <1>1 DEF BouncersAfter, BouncersRead
<1>7. n # 0 => After(c, n).idnt = After(c, n + 1).idnt
  BY <1>2 DEF After
<1>8. n # 1 => After(c, n).identtimeout = After(c, n + 1).identtimeout
  BY <1>2 DEF After
<1>9. n # 2 => After(c, n).idletimeout = After(c, n + 1).idletimeout
  BY <1>2 DEF After
<1>10. n # 3 => After(c, n).writetimeout = After(c, n + 1).writetimeout
  BY <1>2 DEF After
<1>11. n # 4 => After(c, n).dnslookup = After(c, n + 1).dnslookup
  BY <1>2 DEF After
<1>12. n # 5 \/ c.pidfile = Null => After(c, n).pidfile = After(c, n + 1).pidfile
  BY <1>3, <1>5 DEF After
<1>13. n # HeadLen(c) - 1 \/ c.welcomemsg = Null => After(c, n).welcomemsg = After(c, n + 1).welcomemsg
  BY <1>4, <1>5 DEF After
<1>14. n < HeadLen(c) => After(c, n).bouncers = After(c, n + 1).bouncers
  BY <1>6 DEF After
<1> QED BY <1>7, <1>8, <1>9, <1>10, <1>11, <1>12, <1>13, <1>14, Zenon

(* Setting the one field in which two configurations differ.               *)
LEMMA SetMakes ==
  ASSUME NEW c, NEW d, IsConfig(c), IsConfig(d), NEW key \in ConfigKeys,
         \A k \in ConfigKeys \ {key} : c[k] = d[k]
  PROVE  [c EXCEPT ![key] = d[key]] = d
<1>1. DOMAIN c = ConfigKeys /\ DOMAIN d = ConfigKeys
  BY DEF IsConfig, ConfigKeys, Flags, Timeouts, Texts
<1>2. c = [k \in ConfigKeys |-> c[k]] /\ d = [k \in ConfigKeys |-> d[k]]
  BY <1>1 DEF IsConfig
<1> DEFINE e == [c EXCEPT ![key] = d[key]]
<1>3. /\ e = [k \in ConfigKeys |-> e[k]]
      /\ e[key] = d[key] /\ \A k \in ConfigKeys \ {key} : e[k] = c[k]
  BY <1>1, <1>2
<1> HIDE DEF e
<1>4. \A k \in ConfigKeys : e[k] = d[k]
  BY <1>3
<1>5. e = d
  BY <1>2, <1>3, <1>4
<1> QED BY <1>5 DEF e

(* A reversed beginning grows at its head.                                 *)
LEMMA Prepended ==
  ASSUME NEW i \in Nat \ {0}, NEW s,
         NEW t, t = [j \in 1 .. i - 1 |-> Reread(s[i - 1 + 1 - j])],
         NEW u, u = [j \in 1 .. i |-> Reread(s[i + 1 - j])]
  PROVE  u = << Reread(s[i]) >> \o t
<1> DEFINE v == << Reread(s[i]) >> \o t
           S == {Reread(s[j]) : j \in 1 .. i}
<1>1. t \in Seq(S) /\ Len(t) = i - 1
  <2>1. t \in [1 .. i - 1 -> S] /\ i - 1 \in Nat
    OBVIOUS
  <2> HIDE DEF S
  <2> QED BY <2>1
<1>2. << Reread(s[i]) >> \in Seq(S) /\ Reread(s[i]) \in S
  OBVIOUS
<1>3. v \in Seq(S) /\ Len(v) = i /\ v[1] = Reread(s[i]) /\ \A j \in 1 .. i - 1 : v[1 + j] = t[j]
  <2> HIDE DEF S
  <2> QED BY <1>1, <1>2
<1> HIDE DEF v
<1>4. \A j \in 1 .. i : v[j] = u[j]
  <2> TAKE j \in 1 .. i
  <2>1. CASE j = 1
    BY <1>3, <2>1
  <2>2. CASE j # 1
    <3>1. j - 1 \in 1 .. i - 1 /\ 1 + (j - 1) = j
      BY <2>2
    <3>2. v[j] = t[j - 1]
      BY <1>3, <3>1
    <3>3. t[j - 1] = Reread(s[i - 1 + 1 - (j - 1)]) /\ i - 1 + 1 - (j - 1) = i + 1 - j
      BY <3>1
    <3> QED BY <3>2, <3>3
  <2> QED BY <2>1, <2>2
<1>5. v = [j \in 1 .. i |-> v[j]]
  BY <1>3
<1>6. v = u
  BY <1>4, <1>5
<1> QED BY <1>6 DEF v

LEMMA BouncersGrow ==
  ASSUME NEW c, NEW i \in Nat \ {0}
  PROVE  BouncersAfter(c, HeadLen(c) + i) =
           << Reread(c.bouncers[i]) >> \o BouncersAfter(c, HeadLen(c) + (i - 1))
<1> DEFINE s == c.bouncers
           t == [j \in 1 .. i - 1 |-> Reread(s[i - 1 + 1 - j])]
           u == [j \in 1 .. i |-> Reread(s[i + 1 - j])]
<1>1. /\ BouncersRead(c, HeadLen(c) + i) = i
      /\ BouncersRead(c, HeadLen(c) + (i - 1)) = i - 1
  BY HeadLenValue DEF BouncersRead
<1>2. BouncersAfter(c, HeadLen(c) + i) = u /\ BouncersAfter(c, HeadLen(c) + (i - 1)) = t
  BY <1>1 DEF BouncersAfter
<1>3. u = << Reread(s[i]) >> \o t
  BY Prepended
<1> QED BY <1>2, <1>3

(* Loading line n + 1 of the saved text takes After(c, n) to After(c, n+1).*)
LEMMA ReloadStep ==
  ASSUME NEW c, Saveable(c), NEW f, f = Config_saveBuffer(c), NEW n \in 0 .. Len(f) - 1
  PROVE  LoadLine(After(c, n), f[n + 1]) = << After(c, n + 1) >>
<1> DEFINE d == After(c, n)
           e == After(c, n + 1)
           h == HeadLen(c)
<1>1. HasOptions(c) /\ Len(c.bouncers) \in Nat
  BY DEF Saveable
<1>2. h \in 5 .. 7 /\ n \in Nat
  <2>1. h \in 5 .. 7 /\ Len(f) \in Nat
    <3>1. Len(f) = h + Len(c.bouncers)
      BY <1>1, SavedText
    <3> QED BY <1>1, <3>1, HeadLenValue
  <2> QED BY <2>1
<1>15. /\ c.pidfile = Null /\ c.welcomemsg = Null => h = 5
       /\ c.pidfile = Null /\ c.welcomemsg # Null => h = 6
       /\ c.pidfile # Null /\ c.welcomemsg = Null => h = 6
       /\ c.pidfile # Null /\ c.welcomemsg # Null => h = 7
  BY HeadLenValue
<1>3. IsConfig(d) /\ IsConfig(e)
  BY AfterFields
<1>4. ASSUME NEW key \in ConfigKeys, \A k \in ConfigKeys \ {key} : d[k] = e[k]
      PROVE  [d EXCEPT ![key] = e[key]] = e
  BY <1>3, <1>4, SetMakes
<1>5. /\ n # 0 => d["idnt"] = e["idnt"]
      /\ n # 1 => d["identtimeout"] = e["identtimeout"]
      /\ n # 2 => d["idletimeout"] = e["idletimeout"]
      /\ n # 3 => d["writetimeout"] = e["writetimeout"]
      /\ n # 4 => d["dnslookup"] = e["dnslookup"]
      /\ n # 5 \/ c.pidfile = Null => d["pidfile"] = e["pidfile"]
      /\ n # h - 1 \/ c.welcomemsg = Null => d["welcomemsg"] = e["welcomemsg"]
      /\ n < h => d["bouncers"] = e["bouncers"]
  BY <1>2, AfterKeeps
<1>6. /\ f[1] = <<"idnt", FlagText(c.idnt)>>
      /\ f[2] = <<"identtimeout", Numeral(c.identtimeout)>>
      /\ f[3] = <<"idletimeout", Numeral(c.idletimeout)>>
      /\ f[4] = <<"writetimeout", Numeral(c.writetimeout)>>
      /\ f[5] = <<"dnslookup", FlagText(c.dnslookup)>>
      /\ c.pidfile # Null => f[6] = <<"pidfile", c.pidfile>>
      /\ c.welcomemsg # Null => f[h] = <<"welcomemsg", c.welcomemsg>>
      /\ \A i \in 1 .. Len(c.bouncers) : f[h + i] = BouncerLine(c.bouncers[i])
  BY <1>1, SavedText, Zenon
<1>7. CASE n = 0
  <2>1. f[n + 1] = <<"idnt", FlagText(c.idnt)>>
    BY <1>6, <1>7
  <2>2. c.idnt \in BOOLEAN
    BY <1>1 DEF HasOptions, Flags, Timeouts, Texts
  <2>3. e["idnt"] = c.idnt
    BY <1>7 DEF After, From
  <2> HIDE DEF d, e
  <2>4. \A k \in ConfigKeys \ {"idnt"} : d[k] = e[k]
    BY <1>2, <1>5, <1>7 DEF ConfigKeys, Flags, Timeouts, Texts
  <2>5. "idnt" \in Flags /\ "idnt" \in ConfigKeys
    BY DEF ConfigKeys, Flags
  <2>6. LoadLine(d, f[n + 1]) = << [d EXCEPT !["idnt"] = c.idnt] >>
    BY <2>1, <2>2, <2>5, FlagReloads
  <2> QED BY <1>4, <2>3, <2>4, <2>5, <2>6 DEF d, e
<1>8. CASE n = 1
  <2>1. f[n + 1] = <<"identtimeout", Numeral(c.identtimeout)>>
    BY <1>6, <1>8
  <2>2. c.identtimeout \in 0 .. IntMod \div 2 - 1
    BY <1>1 DEF HasOptions, Flags, Timeouts, Texts
  <2>3. e["identtimeout"] = c.identtimeout
    BY <1>8 DEF After, From
  <2> HIDE DEF d, e
  <2>4. \A k \in ConfigKeys \ {"identtimeout"} : d[k] = e[k]
    BY <1>2, <1>5, <1>8 DEF ConfigKeys, Flags, Timeouts, Texts
  <2>5. "identtimeout" \in Timeouts /\ "identtimeout" \in ConfigKeys
    BY DEF ConfigKeys, Timeouts
  <2>6. LoadLine(d, f[n + 1]) = << [d EXCEPT !["identtimeout"] = c.identtimeout] >>
    BY <2>1, <2>2, <2>5, TimeoutReloads
  <2> QED BY <1>4, <2>3, <2>4, <2>5, <2>6 DEF d, e
<1>9. CASE n = 2
  <2>1. f[n + 1] = <<"idletimeout", Numeral(c.idletimeout)>>
    BY <1>6, <1>9
  <2>2. c.idletimeout \in 0 .. IntMod \div 2 - 1
    BY <1>1 DEF HasOptions, Flags, Timeouts, Texts
  <2>3. e["idletimeout"] = c.idletimeout
    BY <1>9 DEF After, From
  <2> HIDE DEF d, e
  <2>4. \A k \in ConfigKeys \ {"idletimeout"} : d[k] = e[k]
    BY <1>2, <1>5, <1>9 DEF ConfigKeys, Flags, Timeouts, Texts
  <2>5. "idletimeout" \in Timeouts /\ "idletimeout" \in ConfigKeys
    BY DEF ConfigKeys, Timeouts
  <2>6. LoadLine(d, f[n + 1]) = << [d EXCEPT !["idletimeout"] = c.idletimeout] >>
    BY <2>1, <2>2, <2>5, TimeoutReloads
  <2> QED BY <1>4, <2>3, <2>4, <2>5, <2>6 DEF d, e
<1>10. CASE n = 3
  <2>1. f[n + 1] = <<"writetimeout", Numeral(c.writetimeout)>>
    BY <1>6, <1>10
  <2>2. c.writetimeout \in 0 .. IntMod \div 2 - 1
    BY <1>1 DEF HasOptions, Flags, Timeouts, Texts
  <2>3. e["writetimeout"] = c.writetimeout
    BY <1>10 DEF After, From
  <2> HIDE DEF d, e
  <2>4. \A k \in ConfigKeys \ {"writetimeout"} : d[k] = e[k]
    BY <1>2, <1>5, <1>10 DEF ConfigKeys, Flags, Timeouts, Texts
  <2>5. "writetimeout" \in Timeouts /\ "writetimeout" \in ConfigKeys
    BY DEF ConfigKeys, Timeouts
  <2>6. LoadLine(d, f[n + 1]) = << [d EXCEPT !["writetimeout"] = c.writetimeout] >>
    BY <2>1, <2>2, <2>5, TimeoutReloads
  <2> QED BY <1>4, <2>3, <2>4, <2>5, <2>6 DEF d, e
<1>11. CASE n = 4
  <2>1. f[n + 1] = <<"dnslookup", FlagText(c.dnslookup)>>
    BY <1>6, <1>11
  <2>2. c.dnslookup \in BOOLEAN
    BY <1>1 DEF HasOptions, Flags, Timeouts, Texts
  <2>3. e["dnslookup"] = c.dnslookup
    BY <1>11 DEF After, From
  <2> HIDE DEF d, e
  <2>4. \A k \in ConfigKeys \ {"dnslookup"} : d[k] = e[k]
    BY <1>5, <1>11, <1>15 DEF ConfigKeys, Flags, Timeouts, Texts
  <2>5. "dnslookup" \in Flags /\ "dnslookup" \in ConfigKeys
    BY DEF ConfigKeys, Flags
  <2>6. LoadLine(d, f[n + 1]) = << [d EXCEPT !["dnslookup"] = c.dnslookup] >>
    BY <2>1, <2>2, <2>5, FlagReloads
  <2> QED BY <1>4, <2>3, <2>4, <2>5, <2>6 DEF d, e
<1>12. CASE n = 5 /\ c.pidfile # Null
  <2>1. f[n + 1] = <<"pidfile", c.pidfile>>
    BY <1>2, <1>6, <1>12
  <2>2. c.pidfile # ""
    BY <1>1 DEF HasOptions, Flags, Timeouts, Texts
  <2>3. e["pidfile"] = c.pidfile
    BY <1>2, <1>12 DEF After, From, HasLine
  <2> HIDE DEF d, e
  <2>4. \A k \in ConfigKeys \ {"pidfile"} : d[k] = e[k]
    BY <1>2, <1>5, <1>12, <1>15 DEF ConfigKeys, Flags, Timeouts, Texts
  <2>5. "pidfile" \in Texts /\ "pidfile" \in ConfigKeys
    BY DEF ConfigKeys, Texts
  <2>6. LoadLine(d, f[n + 1]) = << [d EXCEPT !["pidfile"] = c.pidfile] >>
    BY <2>1, <2>2, <2>5, TextReloads, ZenonT(30)
  <2> QED BY <1>4, <2>3, <2>4, <2>5, <2>6 DEF d, e
<1>13. CASE n = h - 1 /\ c.welcomemsg # Null
  <2>1. f[n + 1] = <<"welcomemsg", c.welcomemsg>>
    BY <1>2, <1>6, <1>13
  <2>2. c.welcomemsg # ""
    BY <1>1 DEF HasOptions, Flags, Timeouts, Texts
  <2>3. e["welcomemsg"] = c.welcomemsg
    BY <1>2, <1>13 DEF After, From
  <2> HIDE DEF d, e
  <2>4. \A k \in ConfigKeys \ {"welcomemsg"} : d[k] = e[k]
    BY <1>2, <1>5, <1>13, <1>15 DEF ConfigKeys, Flags, Timeouts, Texts
  <2>5. "welcomemsg" \in Texts /\ "welcomemsg" \in ConfigKeys
    BY DEF ConfigKeys, Texts
  <2>6. LoadLine(d, f[n + 1]) = << [d EXCEPT !["welcomemsg"] = c.welcomemsg] >>
    BY <2>1, <2>2, <2>5, TextReloads, ZenonT(30)
  <2> QED BY <1>4, <2>3, <2>4, <2>5, <2>6 DEF d, e
<1>14. CASE n >= h
  <2> DEFINE i == n + 1 - h
             b == c.bouncers[i]
  <2>1. i \in 1 .. Len(c.bouncers) /\ n + 1 = h + i /\ n = h + (i - 1)
    <3>1. Len(f) = h + Len(c.bouncers)
      BY <1>1, SavedText, Zenon
    <3> QED BY <1>1, <1>2, <1>14, <3>1
  <2>2. f[n + 1] = BouncerLine(b)
    BY <1>6, <2>1
  <2>3. e["bouncers"] = << Reread(b) >> \o d["bouncers"]
    <3>1. /\ e["bouncers"] = BouncersAfter(c, n + 1) /\ d["bouncers"] = BouncersAfter(c, n)
          /\ i \in Nat \ {0}
      BY <1>2, <2>1 DEF After
    <3> HIDE DEF d, e, i, h
    <3> QED BY <2>1, <3>1, BouncersGrow DEF h
  <2> HIDE DEF d, e
  <2>4. \A k \in ConfigKeys \ {"bouncers"} : d[k] = e[k]
    BY <1>2, <1>5, <1>14, <1>15 DEF ConfigKeys, Flags, Timeouts, Texts
  <2>5. "bouncers" \in ConfigKeys
    BY DEF ConfigKeys
  <2>6. LoadLine(d, f[n + 1]) = << [d EXCEPT !.bouncers = << Reread(b) >> \o @] >>
    BY <2>2, BouncerReloads
  <2>7. LoadLine(d, f[n + 1]) = << [d EXCEPT !["bouncers"] = e["bouncers"]] >>
    BY <2>3, <2>6
  <2> QED BY <1>4, <2>4, <2>5, <2>7 DEF d, e
<1>16. \/ n \in {0, 1, 2, 3, 4}
       \/ (n = 5 /\ c.pidfile # Null)
       \/ (n = h - 1 /\ c.welcomemsg # Null)
       \/ n >= h
  BY <1>2, <1>15
<1> QED BY <1>7, <1>8, <1>9, <1>10, <1>11, <1>12, <1>13, <1>14, <1>16

(* A set of numbers that is not empty has a least member.                  *)
LEMMA Least ==
  ASSUME NEW S \in SUBSET Nat, S # {}
  PROVE  \E n \in S : \A m \in S : n <= m
<1>1. IsWellFoundedOn(OpToRel(<, Nat), Nat)
  BY NatLessThanWellFounded
<1>2. PICK n \in S : \A m \in S : <<m, n>> \notin OpToRel(<, Nat)
  BY <1>1, WFMin
<1>3. \A m \in S : ~ (m < n)
  BY <1>2 DEF OpToRel
<1> QED BY <1>3

(* Loading a text whose lines take the default, one by one, from g[0] to   *)
(* g[Len(lines)]: no line but the first one that is loaded differently     *)
(* could be the reason for another result, and there is none.              *)
OneLine(after, lines, n) ==
  IF n = 0 THEN << Default >>
  ELSE IF after[n - 1] = <<>> THEN <<>>
  ELSE LoadLine(after[n - 1][1], lines[n])

LEMMA LoadsAll ==
  ASSUME NEW lines, Len(lines) \in Nat, NEW g, g[0] = Default,
         \A n \in 0 .. Len(lines) - 1 : LoadLine(g[n], lines[n + 1]) = << g[n + 1] >>
  PROVE  LoadAll(lines) = << g[Len(lines)] >>
<1> DEFINE N == 0 .. Len(lines)
           after == CHOOSE h : h = [n \in N |-> OneLine(h, lines, n)]
           w == [n \in N |-> << g[n] >>]
<1>1. w = [n \in N |-> OneLine(w, lines, n)]
  <2>1. ASSUME NEW n \in N
        PROVE  << g[n] >> = OneLine(w, lines, n)
    <3>1. CASE n = 0
      BY <3>1 DEF OneLine
    <3>2. CASE n # 0
      <4>1. n - 1 \in N /\ n - 1 \in 0 .. Len(lines) - 1 /\ (n - 1) + 1 = n
        BY <3>2
      <4>2. w[n - 1] = << g[n - 1] >>
        BY <4>1
      <4>3. w[n - 1] # <<>> /\ w[n - 1][1] = g[n - 1]
        BY <4>2
      <4>4. LoadLine(g[n - 1], lines[n]) = << g[n] >>
        BY <4>1
      <4> HIDE DEF w
      <4> QED BY <3>2, <4>3, <4>4 DEF OneLine
    <3> QED BY <3>1, <3>2
  <2> QED BY <2>1, Zenon
<1>2. after = [n \in N |-> OneLine(after, lines, n)]
  <2> HIDE DEF w
  <2> QED BY <1>1
<1>3. LoadAll(lines) = after[Len(lines)]
  BY DEF LoadAll, OneLine
<1> HIDE DEF after, w
<1>4. \A n \in N : after[n] = OneLine(after, lines, n)
  BY <1>2
<1>5. SUFFICES ASSUME {n \in N : after[n] # << g[n] >>} # {} PROVE FALSE
  BY <1>3
<1>6. PICK n \in N : after[n] # << g[n] >> /\ \A m \in N : after[m] # << g[m] >> => n <= m
  <2> DEFINE S == {n \in N : after[n] # << g[n] >>}
  <2>1. S \in SUBSET Nat /\ S # {}
    BY <1>5
  <2>2. PICK n \in S : \A m \in S : n <= m
    BY <2>1, Least
  <2> QED BY <2>2
<1>7. CASE n = 0
  BY <1>4, <1>6, <1>7 DEF OneLine
<1>8. CASE n # 0
  <2>1. n - 1 \in N /\ n - 1 \in 0 .. Len(lines) - 1 /\ (n - 1) + 1 = n /\ ~ (n <= n - 1)
    BY <1>8
  <2>2. after[n - 1] = << g[n - 1] >>
    BY <1>6, <2>1
  <2>3. after[n - 1] # <<>> /\ after[n - 1][1] = g[n - 1]
    BY <2>2
  <2>4. LoadLine(g[n - 1], lines[n]) = << g[n] >>
    BY <2>1
  <2>5. after[n] = << g[n] >>
    BY <1>4, <1>8, <2>3, <2>4 DEF OneLine
  <2> QED BY <1>6, <2>5
<1> QED BY <1>7, <1>8

(* After the last line each option is there, and the list of bouncers is   *)
(* turned round.                                                           *)
LEMMA AfterAll ==
  ASSUME NEW c, Saveable(c), NEW d, d = After(c, HeadLen(c) + Len(c.bouncers))
  PROVE  /\ IsConfig(d)
         /\ d.bouncers = [i \in 1 .. Len(c.bouncers) |->
                            Reread(c.bouncers[Len(c.bouncers) + 1 - i])]
         /\ \A key \in ConfigKeys \ {"bouncers"} : d[key] = c[key]
<1> DEFINE n == HeadLen(c) + Len(c.bouncers)
<1>1. /\ Len(c.bouncers) \in Nat /\ HeadLen(c) \in 5 .. 7 /\ n \in Nat
      /\ 5 + HasLine(c.pidfile) \in 5 .. HeadLen(c) /\ n >= HeadLen(c)
  BY HeadLenValue DEF Saveable
<1>2. BouncersRead(c, n) = Len(c.bouncers)
  BY <1>1 DEF BouncersRead
<1>3. d.bouncers = [i \in 1 .. Len(c.bouncers) |-> Reread(c.bouncers[Len(c.bouncers) + 1 - i])]
  <2>1. d.bouncers = BouncersAfter(c, n)
    BY DEF After
  <2> HIDE DEF n
  <2> QED BY <1>2, <2>1 DEF BouncersAfter
<1>4. \A v, w : \A line \in {1, 2, 3, 4, 5, 5 + HasLine(c.pidfile), HeadLen(c)} :
        From(n, line, v, w) = v
  BY <1>1 DEF From
<1> HIDE DEF n
<1>5. d = After(c, n)
  BY DEF n
<1>6. d.idnt = c.idnt
  <2>1. From(n, 1, c.idnt, TRUE) = c.idnt
    BY <1>4
  <2>2. d.idnt = From(n, 1, c.idnt, TRUE)
    BY <1>5, AfterFields, Zenon
  <2> QED BY <2>1, <2>2, Zenon
<1>7. d.dnslookup = c.dnslookup
  <2>1. From(n, 5, c.dnslookup, TRUE) = c.dnslookup
    BY <1>4
  <2>2. d.dnslookup = From(n, 5, c.dnslookup, TRUE)
    BY <1>5, AfterFields, Zenon
  <2> QED BY <2>1, <2>2, Zenon
<1>8. d.identtimeout = c.identtimeout
  BY <1>4, <1>5 DEF After
<1>9. d.idletimeout = c.idletimeout
  BY <1>4, <1>5 DEF After
<1>10. d.writetimeout = c.writetimeout
  BY <1>4, <1>5 DEF After
<1>11. d.pidfile = c.pidfile
  BY <1>4, <1>5 DEF After
<1>12. d.welcomemsg = c.welcomemsg
  BY <1>4, <1>5 DEF After
<1>13. IsConfig(d)
  BY AfterFields
<1>14. \A key \in ConfigKeys \ {"bouncers"} : d[key] = c[key]
  BY <1>6, <1>7, <1>8, <1>9, <1>10, <1>11, <1>12, Zenon DEF ConfigKeys, Flags, Timeouts, Texts
<1> QED BY <1>3, <1>13, <1>14, Zenon

(* So the saved text loads, to the configuration after its last line.      *)
LEMMA SavedLoads ==
  ASSUME NEW c, Saveable(c)
  PROVE  LoadAll(Config_saveBuffer(c)) = << After(c, HeadLen(c) + Len(c.bouncers)) >>
<1> DEFINE f == Config_saveBuffer(c)
           g == [n \in 0 .. Len(f) |-> After(c, n)]
<1>1. Len(f) = HeadLen(c) + Len(c.bouncers) /\ Len(f) \in Nat
  <2>1. Len(c.bouncers) \in Nat /\ HeadLen(c) \in Nat
    <3>1. HeadLen(c) \in 5 .. 7
      BY HeadLenValue, Zenon
    <3>2. Len(c.bouncers) \in Nat
      BY DEF Saveable
    <3> QED BY <3>1, <3>2
  <2>2. Len(f) = HeadLen(c) + Len(c.bouncers)
    BY <2>1, SavedText
  <2> QED BY <2>1, <2>2
<1>2. \A n \in 0 .. Len(f) - 1 : LoadLine(After(c, n), f[n + 1]) = << After(c, n + 1) >>
  BY ReloadStep
<1> HIDE DEF f
<1>3. g[0] = Default /\ g[Len(f)] = After(c, Len(f))
  BY <1>1, AfterNone
<1>4. \A n \in 0 .. Len(f) - 1 : LoadLine(g[n], f[n + 1]) = << g[n + 1] >>
  <2> TAKE n \in 0 .. Len(f) - 1
  <2>1. g[n] = After(c, n) /\ g[n + 1] = After(c, n + 1)
    BY <1>1
  <2> QED BY <1>2, <2>1
<1> HIDE DEF g
<1>5. LoadAll(f) = << g[Len(f)] >>
  BY <1>1, <1>3, <1>4, LoadsAll
<1> QED BY <1>1, <1>3, <1>5 DEF f

LEMMA PortsSet ==
  ASSUME NEW b, IsBouncer(b)
  PROVE  PortsAsInts(b) =
           [listenIP |-> b.listenIP, listenPort |-> AsInt(b.listenPort),
            remoteHost |-> b.remoteHost, remotePort |-> AsInt(b.remotePort), localIP |-> b.localIP]
<1> DEFINE r == PortsAsInts(b)
<1>1. DOMAIN b = {"listenIP", "listenPort", "remoteHost", "remotePort", "localIP"}
  BY DEF IsBouncer
<1>2. DOMAIN r = DOMAIN b /\ r = [k \in DOMAIN b |-> r[k]]
  BY DEF PortsAsInts
<1>3. r.listenIP = b.listenIP /\ r.remoteHost = b.remoteHost /\ r.localIP = b.localIP
  BY <1>1 DEF PortsAsInts
<1>4. r.listenPort = AsInt(b.listenPort) /\ r.remotePort = AsInt(b.remotePort)
  BY <1>1 DEF PortsAsInts
<1> HIDE DEF r
<1>5. r = [listenIP |-> b.listenIP, listenPort |-> AsInt(b.listenPort),
           remoteHost |-> b.remoteHost, remotePort |-> AsInt(b.remotePort), localIP |-> b.localIP]
  BY <1>1, <1>2, <1>3, <1>4
<1> QED BY <1>5 DEF r

(* A bouncer with a local ip comes back as it is, with ints for ports.     *)
LEMMA RereadBouncer ==
  ASSUME NEW b, IsBouncer(b), b.localIP # Null
  PROVE  /\ Reread(b) = PortsAsInts(b)
         /\ SaneBouncer(b) => SaneBouncer(Reread(b))
<1>1. Printed(b.localIP) = b.localIP
  BY DEF Printed
<1>2. Reread(b) = PortsAsInts(b)
  BY <1>1, PortsSet DEF Reread
<1>3. AsInt(AsInt(b.listenPort)) = AsInt(b.listenPort) /\ AsInt(AsInt(b.remotePort)) = AsInt(b.remotePort)
  BY AsIntIsInt, AsIntOfInt DEF IsBouncer
<1>4. SaneBouncer(b) => SaneBouncer(Reread(b))
  BY <1>1, <1>3 DEF SaneBouncer, isValidPort, Reread
<1> QED BY <1>2, <1>4

LEMMA SavedAsSaved ==
  ASSUME NEW c, Saveable(c), \A i \in 1 .. Len(c.bouncers) : c.bouncers[i].localIP # Null
  PROVE  LoadAll(Config_saveBuffer(c)) = << AsSaved(c) >>
<1> DEFINE n == Len(c.bouncers)
           d == After(c, HeadLen(c) + n)
           bs == [i \in 1 .. n |-> Reread(c.bouncers[n + 1 - i])]
           rs == [i \in 1 .. n |-> PortsAsInts(c.bouncers[n + 1 - i])]
<1>1. n \in Nat /\ IsConfig(c) /\ \A i \in 1 .. n : IsBouncer(c.bouncers[i])
  BY DEF Saveable
<1>2. bs = rs
  <2>1. ASSUME NEW i \in 1 .. n
        PROVE  Reread(c.bouncers[n + 1 - i]) = PortsAsInts(c.bouncers[n + 1 - i])
    <3>1. n + 1 - i \in 1 .. n
      BY <1>1
    <3> QED BY <1>1, <3>1, RereadBouncer
  <2> QED BY <2>1, Zenon
<1>3. AsSaved(c) = [c EXCEPT !["bouncers"] = rs]
  BY Zenon DEF AsSaved
<1>4. IsConfig(d) /\ d.bouncers = bs /\ \A key \in ConfigKeys \ {"bouncers"} : d[key] = c[key]
  BY AfterAll
<1> HIDE DEF d, bs, rs
<1>5. [c EXCEPT !["bouncers"] = d["bouncers"]] = d
  <2>1. "bouncers" \in ConfigKeys
    BY DEF ConfigKeys
  <2> QED BY <1>1, <1>4, <2>1, SetMakes
<1>6. d = AsSaved(c)
  BY <1>2, <1>3, <1>4, <1>5
<1> QED BY <1>6, SavedLoads DEF d

-----------------------------------------------------------------------------
(* What the loader keeps to.                                               *)

LEMMA FlagMeaning ==
  ASSUME NEW key \in Flags, NEW v
  PROVE  Meaning(key, v) \in BOOLEAN /\ Meaning(key, v) = (v = "true")
<1>1. Meaning(key, v) \in BOOLEAN
  BY DEF Meaning, Flags, Timeouts
<1>2. /\ v = "true" => Meaning(key, v) = TRUE
      /\ v # "true" => Meaning(key, v) = FALSE
  BY DEF Meaning, Flags, Timeouts
<1> QED BY <1>1, <1>2, Zenon

LEMMA ValueMeaning ==
  ASSUME NEW key, NEW v
  PROVE  /\ key \in Timeouts => Meaning(key, v) = AsInt(v[1])
         /\ key \in Texts => Meaning(key, v) = v
  BY DEF Meaning, Flags, Timeouts, Texts

(* A line that is loaded sets one field of the configuration, or none.     *)
SetsNothing(c, l, d) == l[1] = "#" /\ d = c

PutsBouncer(c, l, d) ==
  /\ l[1] = "bouncer" /\ Bouncer_parse(l[2]) # <<>>
  /\ d = [c EXCEPT !["bouncers"] = Bouncer_parse(l[2]) \o c["bouncers"]]

SetsFlag(c, l, d) ==
  /\ l[1] \in Flags /\ l[2] \in {"true", "false"}
  /\ d = [c EXCEPT ![l[1]] = Meaning(l[1], l[2])]

SetsTimeout(c, l, d) ==
  /\ l[1] \in Timeouts /\ l[2] # <<>> /\ AsInt(l[2][1]) >= 0
  /\ d = [c EXCEPT ![l[1]] = Meaning(l[1], l[2])]

SetsText(c, l, d) ==
  /\ l[1] \in Texts /\ l[2] # ""
  /\ d = [c EXCEPT ![l[1]] = Meaning(l[1], l[2])]

LEMMA LineSets ==
  ASSUME NEW c, NEW l, NEW d, LoadLine(c, l) = << d >>
  PROVE  \/ SetsNothing(c, l, d) \/ PutsBouncer(c, l, d)
         \/ SetsFlag(c, l, d) \/ SetsTimeout(c, l, d) \/ SetsText(c, l, d)
<1>1. Flags \cap (Timeouts \cup Texts) = {} /\ Timeouts \cap Texts = {}
  BY DEF Flags, Timeouts, Texts
<1>2. l[1] \in {"#", "bouncer"} \cup Flags \cup Timeouts \cup Texts
  <2>1. << d >> # <<>>
    OBVIOUS
  <2> QED BY <2>1, LineLoads
<1>3. CASE l[1] = "#"
  <2>1. << c >> = << d >>
    BY <1>3, LineLoads
  <2> QED BY <1>3, <2>1 DEF SetsNothing
<1>4. CASE l[1] = "bouncer"
  <2>1. LoadBouncer(c, l[2]) = << d >>
    BY <1>4, LineLoads
  <2> QED BY <1>4, <2>1 DEF LoadBouncer, PutsBouncer
<1>5. CASE l[1] \in Flags
  <2>1. LoadFlag(c, l[1], l[2]) = << d >>
    BY <1>5, LineLoads
  <2>2. Meaning(l[1], l[2]) = (l[2] = "true")
    BY <1>5, FlagMeaning, Zenon
  <2>3. l[2] \in {"true", "false"} /\ << [c EXCEPT ![l[1]] = (l[2] = "true")] >> = << d >>
    BY <2>1 DEF LoadFlag
  <2>4. d = [c EXCEPT ![l[1]] = (l[2] = "true")]
    BY <2>3
  <2> QED BY <1>5, <2>2, <2>3, <2>4, Zenon DEF SetsFlag
<1>6. CASE l[1] \in Timeouts
  <2>1. LoadTimeout(c, l[1], l[2]) = << d >>
    BY <1>6, LineLoads
  <2>2. Meaning(l[1], l[2]) = AsInt(l[2][1])
    BY <1>1, <1>6 DEF Meaning
  <2> QED BY <1>6, <2>1, <2>2 DEF LoadTimeout, IsNumber, SetsTimeout
<1>7. CASE l[1] \in Texts
  <2>1. LoadText(c, l[1], l[2]) = << d >>
    BY <1>7, LineLoads
  <2>2. Meaning(l[1], l[2]) = l[2]
    BY <1>1, <1>7 DEF Meaning
  <2> QED BY <1>7, <2>1, <2>2 DEF LoadText, SetsText
<1> QED BY <1>2, <1>3, <1>4, <1>5, <1>6, <1>7

LEMMA ParsedBouncer ==
  ASSUME NEW v, Bouncer_parse(v) # <<>>
  PROVE  /\ Bouncer_parse(v) = << Bouncer_parse(v)[1] >>
         /\ {Bouncer_parse(v)[1].listenPort, Bouncer_parse(v)[1].remotePort} \subseteq Int =>
              IsBouncer(Bouncer_parse(v)[1])
<1>1. PICK b : /\ Bouncer_parse(v) = << b >>
               /\ b = [listenIP |-> b.listenIP, listenPort |-> b.listenPort,
                       remoteHost |-> b.remoteHost, remotePort |-> b.remotePort,
                       localIP |-> b.localIP]
  BY DEF Bouncer_parse
<1> QED BY <1>1 DEF IsBouncer

(* Loading a line leaves a configuration that could be saved.              *)
IsOption(key, v) ==
  \/ key \in Flags /\ v \in BOOLEAN
  \/ key \in Timeouts /\ v \in 0 .. IntMod \div 2 - 1
  \/ key \in Texts /\ v # ""

LEMMA OptionSet ==
  ASSUME NEW c, Saveable(c), NEW key, NEW v, IsOption(key, v)
  PROVE  Saveable([c EXCEPT ![key] = v])
<1> DEFINE d == [c EXCEPT ![key] = v]
<1>1. key \in ConfigKeys /\ "bouncers" \in ConfigKeys \ {key}
      /\ Flags \subseteq ConfigKeys /\ Timeouts \subseteq ConfigKeys /\ Texts \subseteq ConfigKeys
  BY DEF IsOption, ConfigKeys, Flags, Timeouts, Texts
<1>2. IsConfig(d) /\ d[key] = v /\ \A k \in ConfigKeys \ {key} : d[k] = c[k]
  <2>1. IsConfig(c)
    BY DEF Saveable
  <2>2. d = [c EXCEPT ![key] = v]
    OBVIOUS
  <2> HIDE DEF d
  <2>6. key \in ConfigKeys
    BY <1>1
  <2>7. IsConfig(d)
    BY <2>1, <2>2, <2>6, ConfigSetIs
  <2>4. d[key] = v
    <3>1. DOMAIN c = ConfigKeys
      BY <2>1 DEF IsConfig, ConfigKeys, Flags, Timeouts, Texts
    <3> QED BY <2>2, <2>6, <3>1
  <2>5. \A k \in ConfigKeys \ {key} : d[k] = c[k]
    BY <2>1, <2>2, <2>6, ConfigSetKeeps
  <2> QED BY <2>7, <2>4, <2>5
<1>8. Flags \cap (Timeouts \cup Texts) = {} /\ Timeouts \cap Texts = {}
  BY DEF Flags, Timeouts, Texts
<1> HIDE DEF d
<1>3. d.bouncers = c.bouncers
  BY <1>1, <1>2
<1>4. \A k \in Flags : d[k] \in BOOLEAN
  BY <1>1, <1>2, <1>8 DEF Saveable, HasOptions, IsOption
<1>5. \A k \in Timeouts : d[k] \in 0 .. IntMod \div 2 - 1
  BY <1>1, <1>2, <1>8 DEF Saveable, HasOptions, IsOption
<1>6. \A k \in Texts : d[k] # ""
  BY <1>1, <1>2, <1>8 DEF Saveable, HasOptions, IsOption
<1>7. Saveable(d)
  BY <1>2, <1>3, <1>4, <1>5, <1>6 DEF Saveable, HasOptions
<1> QED BY <1>7 DEF d

LEMMA BouncerPut ==
  ASSUME NEW c, Saveable(c), NEW b, IsBouncer(b),
         NEW d, d = [c EXCEPT !["bouncers"] = << b >> \o c["bouncers"]]
  PROVE  /\ Saveable(d)
         /\ Len(d.bouncers) = Len(c.bouncers) + 1 /\ d.bouncers[1] = b
         /\ \A i \in 1 .. Len(c.bouncers) : d.bouncers[i + 1] = c.bouncers[i]
         /\ \A k \in Flags \cup Timeouts \cup Texts : d[k] = c[k]
<1> DEFINE s == c.bouncers
           S == {s[i] : i \in 1 .. Len(s)} \cup {b}
           t == << b >> \o s
<1>1. "bouncers" \in ConfigKeys /\ Flags \cup Timeouts \cup Texts = ConfigKeys \ {"bouncers"}
  BY DEF ConfigKeys, Flags, Timeouts, Texts
<1>2. IsConfig(d) /\ d["bouncers"] = t /\ \A k \in ConfigKeys \ {"bouncers"} : d[k] = c[k]
  <2>1. IsConfig(c)
    BY DEF Saveable
  <2>2. d = [c EXCEPT !["bouncers"] = t]
    OBVIOUS
  <2> HIDE DEF t
  <2>6. "bouncers" \in ConfigKeys
    BY <1>1
  <2>7. IsConfig(d)
    BY <2>1, <2>2, <2>6, ConfigSetIs
  <2>4. d["bouncers"] = t
    <3>1. DOMAIN c = ConfigKeys
      BY <2>1 DEF IsConfig, ConfigKeys, Flags, Timeouts, Texts
    <3> QED BY <2>2, <2>6, <3>1
  <2>5. \A k \in ConfigKeys \ {"bouncers"} : d[k] = c[k]
    BY <2>1, <2>2, <2>6, ConfigSetKeeps
  <2> QED BY <2>7, <2>4, <2>5
<1>3. s \in Seq(S)
  <2> DEFINE R == {s[i] : i \in 1 .. Len(s)}
  <2>1. s \in Seq(R) /\ R \subseteq S
    BY DEF Saveable
  <2> HIDE DEF R, S, s
  <2> QED BY <2>1
<1>4. << b >> \in Seq(S) /\ Len(<< b >>) = 1 /\ << b >>[1] = b
  OBVIOUS
<1>5. \A i \in 1 .. Len(s) : IsBouncer(s[i])
  BY DEF Saveable
<1>6. HasOptions(d)
  <2>1. HasOptions(c)
    BY DEF Saveable
  <2>2. \A k \in Flags : d[k] \in BOOLEAN
    BY <1>1, <1>2, <2>1 DEF HasOptions
  <2>3. \A k \in Timeouts : d[k] \in 0 .. IntMod \div 2 - 1
    BY <1>1, <1>2, <2>1 DEF HasOptions
  <2>4. \A k \in Texts : d[k] # ""
    BY <1>1, <1>2, <2>1 DEF HasOptions
  <2> QED BY <2>2, <2>3, <2>4 DEF HasOptions
<1> HIDE DEF S
<1>7. /\ t \in Seq(S) /\ Len(t) = Len(s) + 1 /\ t[1] = b
      /\ \A i \in 1 .. Len(s) : t[i + 1] = s[i]
  <2> HIDE DEF s
  <2> QED BY <1>3, <1>4
<1>8. t \in Seq({t[i] : i \in 1 .. Len(t)})
  <2> HIDE DEF t
  <2> QED BY <1>7, OfItsMembers
<1> HIDE DEF t
<1>9. \A i \in 1 .. Len(t) : IsBouncer(t[i])
  <2> TAKE i \in 1 .. Len(t)
  <2>1. CASE i = 1
    BY <1>7, <2>1
  <2>2. CASE i # 1
    <3>1. i - 1 \in 1 .. Len(s) /\ (i - 1) + 1 = i
      BY <1>3, <1>7, <2>2
    <3>2. t[i] = s[i - 1]
      BY <1>7, <3>1
    <3> QED BY <1>5, <3>1, <3>2
  <2> QED BY <2>1, <2>2
<1>10. d.bouncers = t
  BY <1>2
<1>11. Saveable(d)
  <2> QED BY <1>2, <1>6, <1>8, <1>9, <1>10 DEF Saveable
<1>12. \A k \in Flags \cup Timeouts \cup Texts : d[k] = c[k]
  BY <1>1, <1>2
<1> QED BY <1>7, <1>10, <1>11, <1>12 DEF s

LEMMA LineResult ==
  ASSUME NEW d, NEW l
  PROVE  LoadLine(d, l) = <<>> \/ LoadLine(d, l) = << LoadLine(d, l)[1] >>
<1>1. \/ LoadLine(d, l) \in {<<>>, << d >>}
      \/ LoadLine(d, l) \in {LoadBouncer(d, l[2]), LoadFlag(d, l[1], l[2]),
                            LoadTimeout(d, l[1], l[2]), LoadText(d, l[1], l[2])}
  BY LineLoads
<1>2. \A r \in {LoadBouncer(d, l[2]), LoadFlag(d, l[1], l[2]),
              LoadTimeout(d, l[1], l[2]), LoadText(d, l[1], l[2])} :
        r = <<>> \/ \E c : r = << c >>
  BY DEF LoadBouncer, LoadFlag, LoadTimeout, LoadText
<1> QED BY <1>1, <1>2

LEMMA LineKeeps ==
  ASSUME NEW c, Saveable(c), NEW l, IsLine(l), NEW d, LoadLine(c, l) = << d >>
  PROVE  Saveable(d)
<1>1. CASE SetsNothing(c, l, d)
  BY <1>1 DEF SetsNothing
<1>2. CASE PutsBouncer(c, l, d)
  <2> DEFINE b == Bouncer_parse(l[2])[1]
  <2>1. IsBouncer(b) /\ Bouncer_parse(l[2]) = << b >>
    BY <1>2, ParsedBouncer DEF IsLine, PutsBouncer
  <2>2. d = [c EXCEPT !["bouncers"] = << b >> \o c["bouncers"]]
    BY <1>2, <2>1 DEF PutsBouncer
  <2> HIDE DEF b
  <2> QED BY <2>1, <2>2, BouncerPut
<1>3. CASE SetsFlag(c, l, d)
  <2>1. IsOption(l[1], Meaning(l[1], l[2]))
    BY <1>3, FlagMeaning DEF IsOption, SetsFlag
  <2> QED BY <1>3, <2>1, OptionSet DEF SetsFlag
<1>4. CASE SetsTimeout(c, l, d)
  <2>1. Meaning(l[1], l[2]) = AsInt(l[2][1])
    BY <1>4, ValueMeaning DEF SetsTimeout
  <2>2. AsInt(l[2][1]) \in 0 .. IntMod \div 2 - 1
    <3>1. l[2][1] \in Int
      BY <1>4 DEF IsLine, SetsTimeout
    <3> DEFINE a == AsInt(l[2][1])
    <3>2. a \in Ints /\ a >= 0
      BY <1>4, <3>1, AsIntIsInt DEF SetsTimeout
    <3> HIDE DEF a
    <3>3. a \in 0 .. IntMod \div 2 - 1
      BY ONLY <3>2, HalfInt DEF Ints
    <3> QED BY <3>3 DEF a
  <2>3. IsOption(l[1], Meaning(l[1], l[2]))
    BY <1>4, <2>1, <2>2 DEF IsOption, SetsTimeout
  <2> QED BY <1>4, <2>3, OptionSet DEF SetsTimeout
<1>5. CASE SetsText(c, l, d)
  <2>1. IsOption(l[1], Meaning(l[1], l[2]))
    BY <1>5, ValueMeaning DEF IsOption, SetsText
  <2> QED BY <1>5, <2>1, OptionSet DEF SetsText
<1> QED BY <1>1, <1>2, <1>3, <1>4, <1>5, LineSets, Zenon

(* What the first n lines of a text declare, and what c therefore holds.   *)
LinesTo(f, n, key) == {i \in 1 .. n : f[i][1] = key}

Rank(lines, i) == Cardinality({j \in lines : j >= i})

DeclaredBouncers(f, n, bs) ==
  LET lines == LinesTo(f, n, "bouncer") IN
  /\ Len(bs) = Cardinality(lines)
  /\ \A i \in lines : << bs[Rank(lines, i)] >> = Bouncer_parse(f[i][2])

DeclaredOption(f, n, key, v) ==
  \/ LinesTo(f, n, key) = {} /\ v = Default[key]
  \/ \E i \in LinesTo(f, n, key) :
       (\A j \in LinesTo(f, n, key) : j <= i) /\ v = Meaning(key, f[i][2])

DeclaredTo(f, n, c) ==
  /\ DeclaredBouncers(f, n, c.bouncers)
  /\ \A key \in Flags \cup Timeouts \cup Texts : DeclaredOption(f, n, key, c[key])

(* One more line is one more of its own key only.                          *)
LEMMA OneMore ==
  ASSUME NEW f, NEW n \in Nat, NEW key
  PROVE  LinesTo(f, n + 1, key) =
           IF f[n + 1][1] = key THEN LinesTo(f, n, key) \cup {n + 1} ELSE LinesTo(f, n, key)
  BY DEF LinesTo

(* A new last line is the first from the end; the others move one on.      *)
LEMMA Ranks ==
  ASSUME NEW n \in Nat, NEW lines \in SUBSET (1 .. n)
  PROVE  /\ IsFiniteSet(lines) /\ Cardinality(lines) \in Nat
         /\ Cardinality(lines \cup {n + 1}) = Cardinality(lines) + 1
         /\ Rank(lines \cup {n + 1}, n + 1) = 1
         /\ \A i \in lines : /\ Rank(lines \cup {n + 1}, i) = Rank(lines, i) + 1
                             /\ Rank(lines, i) \in 1 .. Cardinality(lines)
<1>1. IsFiniteSet(1 .. n)
  BY FS_Interval
<1>2. \A s \in SUBSET (1 .. n) : /\ IsFiniteSet(s) /\ Cardinality(s) \in Nat
                                 /\ Cardinality(s \cup {n + 1}) = Cardinality(s) + 1
  <2> TAKE s \in SUBSET (1 .. n)
  <2>1. IsFiniteSet(s)
    BY <1>1, FS_Subset
  <2>2. n + 1 \notin s
    OBVIOUS
  <2> QED BY <2>1, <2>2, FS_AddElement, FS_CardinalityType
<1>3. Rank(lines \cup {n + 1}, n + 1) = 1
  <2>1. {j \in lines \cup {n + 1} : j >= n + 1} = {n + 1}
    <3>1. \A j \in lines : ~ (j >= n + 1)
      OBVIOUS
    <3>2. n + 1 >= n + 1
      OBVIOUS
    <3> QED BY <3>1, <3>2
  <2> QED BY <2>1, FS_Singleton DEF Rank
<1>4. ASSUME NEW i \in lines
      PROVE  Rank(lines \cup {n + 1}, i) = Rank(lines, i) + 1 /\ Rank(lines, i) \in 1 .. Cardinality(lines)
  <2> DEFINE s == {j \in lines : j >= i}
  <2>1. {j \in lines \cup {n + 1} : j >= i} = s \cup {n + 1}
    OBVIOUS
  <2>2. s \in SUBSET (1 .. n) /\ s \subseteq lines /\ i \in s
    <3>1. i \in 1 .. n /\ i >= i
      OBVIOUS
    <3>2. s \subseteq lines
      OBVIOUS
    <3> QED BY <3>1, <3>2
  <2>3. Rank(lines \cup {n + 1}, i) = Cardinality(s \cup {n + 1}) /\ Rank(lines, i) = Cardinality(s)
    BY <2>1 DEF Rank
  <2> HIDE DEF s
  <2>4. Cardinality(s) \in Nat /\ Cardinality(s \cup {n + 1}) = Cardinality(s) + 1
    BY <1>2, <2>2
  <2>5. Cardinality(s) <= Cardinality(lines)
    BY <1>2, <2>2, FS_Subset
  <2>6. Cardinality(s) # 0
    BY <1>2, <2>2, FS_EmptySet
  <2>7. Cardinality(lines) \in Nat
    BY <1>2
  <2> QED BY <2>3, <2>4, <2>5, <2>6, <2>7
<1> QED BY <1>2, <1>3, <1>4

LEMMA OthersDeclared ==
  ASSUME NEW f, NEW n \in Nat, NEW key, key # f[n + 1][1], NEW v
  PROVE  /\ DeclaredOption(f, n, key, v) => DeclaredOption(f, n + 1, key, v)
         /\ key = "bouncer" /\ DeclaredBouncers(f, n, v) => DeclaredBouncers(f, n + 1, v)
<1>1. LinesTo(f, n + 1, key) = LinesTo(f, n, key)
  BY OneMore
<1> QED BY <1>1 DEF DeclaredOption, DeclaredBouncers

LEMMA OptionDeclared ==
  ASSUME NEW f, NEW n \in Nat
  PROVE  DeclaredOption(f, n + 1, f[n + 1][1], Meaning(f[n + 1][1], f[n + 1][2]))
<1> DEFINE key == f[n + 1][1]
<1>1. n + 1 \in LinesTo(f, n + 1, key) /\ \A j \in LinesTo(f, n + 1, key) : j <= n + 1
  BY DEF LinesTo
<1> QED BY <1>1, Zenon DEF DeclaredOption

LEMMA BouncerDeclared ==
  ASSUME NEW f, NEW n \in Nat, f[n + 1][1] = "bouncer",
         NEW b, Bouncer_parse(f[n + 1][2]) = << b >>,
         NEW bs, DeclaredBouncers(f, n, bs),
         NEW cs, Len(cs) = Len(bs) + 1, cs[1] = b, \A i \in 1 .. Len(bs) : cs[i + 1] = bs[i]
  PROVE  DeclaredBouncers(f, n + 1, cs)
<1> DEFINE old == LinesTo(f, n, "bouncer")
           new == LinesTo(f, n + 1, "bouncer")
<1>1. new = old \cup {n + 1}
  BY OneMore
<1>2. old \in SUBSET (1 .. n)
  BY DEF LinesTo
<1>3. Len(bs) = Cardinality(old) /\ \A i \in old : << bs[Rank(old, i)] >> = Bouncer_parse(f[i][2])
  BY DEF DeclaredBouncers
<1> HIDE DEF old, new
<1>4. /\ Cardinality(new) = Cardinality(old) + 1 /\ Rank(new, n + 1) = 1
      /\ \A i \in old : Rank(new, i) = Rank(old, i) + 1 /\ Rank(old, i) \in 1 .. Cardinality(old)
  BY <1>1, <1>2, Ranks
<1>5. << cs[Rank(new, n + 1)] >> = Bouncer_parse(f[n + 1][2])
  BY <1>4
<1>6. \A i \in old : << cs[Rank(new, i)] >> = Bouncer_parse(f[i][2])
  <2> TAKE i \in old
  <2>1. cs[Rank(old, i) + 1] = bs[Rank(old, i)]
    BY <1>3, <1>4
  <2> QED BY <1>3, <1>4, <2>1
<1>7. Len(cs) = Cardinality(new)
  BY <1>3, <1>4
<1>8. \A i \in new : << cs[Rank(new, i)] >> = Bouncer_parse(f[i][2])
  BY <1>1, <1>5, <1>6
<1> QED BY <1>7, <1>8 DEF DeclaredBouncers, new

LEMMA DeclaredStep ==
  ASSUME NEW c, Saveable(c), NEW f, NEW n \in Nat, IsLine(f[n + 1]), DeclaredTo(f, n, c),
         NEW d, LoadLine(c, f[n + 1]) = << d >>
  PROVE  DeclaredTo(f, n + 1, d)
<1> DEFINE l == f[n + 1]
           Options == Flags \cup Timeouts \cup Texts
<1>1. "#" \notin Options /\ "bouncer" \notin Options /\ "#" # "bouncer"
      /\ Options = ConfigKeys \ {"bouncers"}
      /\ "bouncers" \in ConfigKeys \ Options
  BY DEF Flags, Timeouts, Texts, ConfigKeys
<1>2. /\ DeclaredBouncers(f, n, c.bouncers)
      /\ \A key \in Options : DeclaredOption(f, n, key, c[key])
  BY DEF DeclaredTo
<1>3. IsConfig(c)
  BY DEF Saveable
<1> HIDE DEF Options
<1>4. CASE SetsNothing(c, l, d)
  BY <1>1, <1>2, <1>4, OthersDeclared DEF SetsNothing, DeclaredTo, Options
<1>5. CASE PutsBouncer(c, l, d)
  <2>1. PICK b : IsBouncer(b) /\ Bouncer_parse(l[2]) = << b >>
    BY <1>5, ParsedBouncer DEF IsLine, PutsBouncer
  <2>2. d = [c EXCEPT !["bouncers"] = << b >> \o c["bouncers"]]
    BY <1>5, <2>1 DEF PutsBouncer
  <2>3. Len(d.bouncers) = Len(c.bouncers) + 1 /\ d.bouncers[1] = b
    BY <2>1, <2>2, BouncerPut
  <2>7. \A i \in 1 .. Len(c.bouncers) : d.bouncers[i + 1] = c.bouncers[i]
    BY <2>1, <2>2, BouncerPut
  <2>8. \A k \in Options : d[k] = c[k]
    BY <1>1, <1>3, <2>2, ConfigSetKeeps
  <2>4. l[1] = "bouncer"
    BY <1>5 DEF PutsBouncer
  <2>5. DeclaredBouncers(f, n + 1, d.bouncers)
    <3> DEFINE cs == d.bouncers
               bs == c.bouncers
    <3>1. /\ Len(cs) = Len(bs) + 1 /\ cs[1] = b /\ \A i \in 1 .. Len(bs) : cs[i + 1] = bs[i]
          /\ DeclaredBouncers(f, n, bs) /\ Bouncer_parse(f[n + 1][2]) = << b >>
          /\ f[n + 1][1] = "bouncer"
      BY <1>2, <2>1, <2>3, <2>4, <2>7
    <3> HIDE DEF cs, bs, l
    <3>2. DeclaredBouncers(f, n + 1, cs)
      BY ONLY <3>1, n \in Nat, BouncerDeclared
    <3> QED BY <3>2 DEF cs
  <2>6. \A key \in Options : DeclaredOption(f, n + 1, key, d[key])
    BY <1>1, <1>2, <2>8, <2>4, OthersDeclared
  <2> QED BY <2>5, <2>6 DEF DeclaredTo, Options
<1>6. ASSUME l[1] \in Options, d = [c EXCEPT ![l[1]] = Meaning(l[1], l[2])]
      PROVE  DeclaredTo(f, n + 1, d)
  <2> DEFINE key == l[1]
             v == Meaning(key, l[2])
  <2>1. key \in ConfigKeys /\ "bouncers" \in ConfigKeys \ {key} /\ key # "bouncer"
    BY <1>1, <1>6
  <2>2. DeclaredOption(f, n + 1, key, v)
    BY OptionDeclared
  <2>3. d = [c EXCEPT ![key] = v]
    BY <1>6
  <2>4. \A k \in Options : k # key => DeclaredOption(f, n + 1, k, c[k])
    BY <1>2, OthersDeclared
  <2>5. DeclaredBouncers(f, n + 1, c.bouncers)
    BY <1>2, <2>1, OthersDeclared
  <2> HIDE DEF key, v
  <2>6. d[key] = v
    <3>1. DOMAIN c = ConfigKeys
      BY <1>3 DEF IsConfig, ConfigKeys, Flags, Timeouts, Texts
    <3> QED BY <2>1, <2>3, <3>1
  <2>7. \A k \in ConfigKeys \ {key} : d[k] = c[k]
    BY <1>3, <2>1, <2>3, ConfigSetKeeps
  <2>8. \A k \in Options : DeclaredOption(f, n + 1, k, d[k])
    BY <1>1, <2>2, <2>4, <2>6, <2>7
  <2>9. DeclaredBouncers(f, n + 1, d.bouncers)
    BY <2>1, <2>5, <2>7
  <2> QED BY <2>8, <2>9 DEF DeclaredTo, Options
<1>7. CASE SetsFlag(c, l, d) \/ SetsTimeout(c, l, d) \/ SetsText(c, l, d)
  <2>1. l[1] \in Options /\ d = [c EXCEPT ![l[1]] = Meaning(l[1], l[2])]
    BY <1>7, Zenon DEF SetsFlag, SetsTimeout, SetsText, Options
  <2> QED BY <1>6, <2>1
<1> QED BY <1>4, <1>5, <1>7, LineSets, Zenon

-----------------------------------------------------------------------------
(* The loader.                                                             *)

LoaderInv ==
  /\ file \in Files /\ Len(file) \in Nat /\ at \in 1 .. Len(file) + 1
  /\ Saveable(conf)
  /\ DeclaredTo(file, at - 1, conf)
  /\ status = "loaded" => at = Len(file) + 1 /\ Config_sanityCheck(conf)

LEMMA DefaultIsSaveable == Saveable(Default)
<1>1. IsConfig(Default) /\ Default.bouncers = <<>>
  BY DEF IsConfig, Default
<1>2. \A key \in Flags : Default[key] \in BOOLEAN
  <2>1. Default.idnt = TRUE /\ Default.dnslookup = TRUE
    BY DEF Default
  <2> QED BY <2>1, Zenon DEF Flags
<1>3. \A key \in Timeouts : Default[key] \in 0 .. IntMod \div 2 - 1
  <2>1. \A key \in Timeouts : Default[key] \in Nat
    BY DEF Default, Timeouts
  <2> QED BY <2>1, HalfInt, DefaultAssumption
<1>4. \A key \in Texts : Default[key] # ""
  <2>1. Default.pidfile = "NULL" /\ Default.welcomemsg = "NULL"
    BY DEF Default, Null
  <2> QED BY <2>1 DEF Texts
<1>5. HasOptions(Default)
  BY <1>2, <1>3, <1>4 DEF HasOptions
<1> QED BY <1>1, <1>5 DEF Saveable

LEMMA DefaultIsDeclared == ASSUME NEW f PROVE DeclaredTo(f, 0, Default)
<1>1. \A key : LinesTo(f, 0, key) = {}
  BY DEF LinesTo
<1>2. Default.bouncers = <<>>
  BY DEF Default
<1>3. DeclaredBouncers(f, 0, Default.bouncers)
  BY <1>1, <1>2, FS_EmptySet DEF DeclaredBouncers
<1>4. \A key : DeclaredOption(f, 0, key, Default[key])
  BY <1>1 DEF DeclaredOption
<1> QED BY <1>3, <1>4 DEF DeclaredTo

LEMMA LoaderInvariant == Spec => []LoaderInv
<1>1. Init => LoaderInv
  <2> SUFFICES ASSUME Init PROVE LoaderInv
    OBVIOUS
  <2>1. file \in Files /\ at = 1 /\ conf = Default /\ status = "reading"
    BY DEF Init
  <2>2. Len(file) \in Nat
    <3>1. file \in Seq({file[i] : i \in 1 .. Len(file)})
      BY <2>1, FilesAssumption
    <3> QED BY <3>1
  <2>3. Saveable(conf) /\ DeclaredTo(file, at - 1, conf)
    BY <2>1, DefaultIsSaveable, DefaultIsDeclared
  <2> QED BY <2>1, <2>2, <2>3 DEF LoaderInv
<1>2. LoaderInv /\ [Next]_vars => LoaderInv'
  <2> SUFFICES ASSUME LoaderInv, [Next]_vars PROVE LoaderInv'
    OBVIOUS
  <2> USE DEF LoaderInv
  <2>1. CASE LoadStep
    <3>1. status = "reading" /\ at \in 1 .. Len(file) /\ file' = file
      <4>1. status = "reading" /\ at <= Len(file) /\ file' = file
        BY <2>1 DEF LoadStep
      <4> QED BY <4>1
    <3>2. CASE LoadLine(conf, file[at]) = <<>>
      <4>1. status' = "bad line" /\ UNCHANGED <<conf, at>>
        BY <2>1, <3>2 DEF LoadStep
      <4> QED BY <3>1, <4>1
    <3>3. CASE LoadLine(conf, file[at]) # <<>>
      <4>1. conf' = LoadLine(conf, file[at])[1] /\ at' = at + 1 /\ status' = status
        BY <2>1, <3>3 DEF LoadStep
      <4>2. LoadLine(conf, file[at]) = << conf' >>
        <5>1. \A d, l : LoadLine(d, l) # <<>> => LoadLine(d, l) = << LoadLine(d, l)[1] >>
          BY LineResult
        <5> QED BY <3>3, <4>1, <5>1
      <4>3. IsLine(file[at])
        BY <3>1, FilesAssumption
      <4>4. at - 1 \in Nat /\ (at - 1) + 1 = at /\ at' - 1 = at /\ at' \in 1 .. Len(file) + 1
        BY <3>1, <4>1
      <4>5. Saveable(conf')
        BY <4>2, <4>3, LineKeeps
      <4>6. DeclaredTo(file, at, conf')
        <5> DEFINE n == at - 1
        <5>1. n \in Nat /\ n + 1 = at /\ DeclaredTo(file, n, conf)
          BY <4>4
        <5>2. IsLine(file[n + 1]) /\ LoadLine(conf, file[n + 1]) = << conf' >>
          BY <4>2, <4>3, <5>1
        <5>3. Saveable(conf)
          OBVIOUS
        <5> HIDE DEF n, LoaderInv
        <5>4. DeclaredTo(file, n + 1, conf')
          BY <5>1, <5>2, <5>3, DeclaredStep
        <5> QED BY <5>1, <5>4
      <4> QED BY <3>1, <4>1, <4>4, <4>5, <4>6
    <3> QED BY <3>2, <3>3
  <2>2. CASE LoadEnds
    <3>1. at > Len(file) /\ UNCHANGED <<file, at, conf>>
      BY <2>2 DEF LoadEnds
    <3>2. status' = "loaded" => Config_sanityCheck(conf)
      BY <2>2 DEF LoadEnds
    <3>3. Config_sanityCheck(conf) => Config_sanityCheck(conf')
      BY <3>1
    <3> QED BY <3>1, <3>2, <3>3
  <2>3. CASE NoMemory
    BY <2>3 DEF NoMemory
  <2>4. CASE UNCHANGED vars
    BY <2>4 DEF vars
  <2> QED BY <2>1, <2>2, <2>3, <2>4 DEF Next
<1> QED BY <1>1, <1>2, PTL DEF Spec

(* Loading line by line comes to what the text as a whole declares: for an *)
(* option its last line or the default, for the bouncers all their lines,  *)
(* the last one first.                                                     *)
THEOREM LoadedIsDeclared == Spec => []LoadedAsDeclared
<1>1. LoaderInv => LoadedAsDeclared
  <2> SUFFICES ASSUME LoaderInv, status = "loaded" PROVE Declares(file, conf)
    BY DEF LoadedAsDeclared
  <2>1. at - 1 = Len(file) /\ Saveable(conf) /\ DeclaredTo(file, Len(file), conf)
    BY DEF LoaderInv
  <2>2. \A key : LinesTo(file, Len(file), key) = LinesOf(file, key)
    BY DEF LinesTo, LinesOf
  <2>3. DOMAIN conf = DOMAIN Default
    BY <2>1 DEF Saveable, IsConfig, Default
  <2>4. DeclaresBouncers(file, conf.bouncers)
    BY <2>1, <2>2 DEF DeclaredTo, DeclaredBouncers, DeclaresBouncers, Rank
  <2>5. \A key \in Flags \cup Timeouts \cup Texts : DeclaresOption(file, key, conf[key])
    BY <2>1, <2>2 DEF DeclaredTo, DeclaredOption, DeclaresOption
  <2> QED BY <2>3, <2>4, <2>5 DEF Declares
<1> QED BY <1>1, LoaderInvariant, PTL

(* Config_saveBuffer and Config_loadBuffer agree: the text saved for a     *)
(* loaded configuration loads, passes the sanity check, and gives the same *)
(* configuration with its list of bouncers turned round.                   *)
THEOREM SavedReloads == Spec => []SavedConfigReloads
<1>1. LoaderInv => SavedConfigReloads
  <2> SUFFICES ASSUME LoaderInv, status = "loaded"
               PROVE  LET r == LoadAll(Config_saveBuffer(conf)) IN
                      r # <<>> /\ r[1] = AsSaved(conf) /\ Config_sanityCheck(r[1])
    BY DEF SavedConfigReloads
  <2> DEFINE bs == conf.bouncers
             n == Len(bs)
  <2>1. Saveable(conf) /\ Config_sanityCheck(conf) /\ n \in Nat
    BY DEF LoaderInv, Saveable
  <2>2. \A i \in 1 .. n : IsBouncer(bs[i]) /\ SaneBouncer(bs[i]) /\ bs # <<>>
    BY <2>1 DEF Saveable, Config_sanityCheck
  <2>3. \A i \in 1 .. n : bs[i].localIP # Null
    BY <2>2, ConfigAssumption DEF SaneBouncer, Null
  <2>4. LoadAll(Config_saveBuffer(conf)) = << AsSaved(conf) >>
    BY <2>1, <2>3, SavedAsSaved
  <2>5. AsSaved(conf).bouncers = [i \in 1 .. n |-> PortsAsInts(bs[n + 1 - i])]
    <3>1. "bouncers" \in DOMAIN conf
      BY <2>1 DEF Saveable, IsConfig
    <3> QED BY <3>1 DEF AsSaved
  <2>6. \A i \in 1 .. n : SaneBouncer(AsSaved(conf).bouncers[i])
    <3> TAKE i \in 1 .. n
    <3>1. n + 1 - i \in 1 .. n
      BY <2>1
    <3>2. SaneBouncer(PortsAsInts(bs[n + 1 - i]))
      BY <2>2, <2>3, <3>1, RereadBouncer
    <3> QED BY <2>5, <3>2
  <2>7. n > 0
    BY <2>1 DEF Config_sanityCheck, Saveable
  <2>8. AsSaved(conf).bouncers # <<>> /\ Len(AsSaved(conf).bouncers) = n
    <3> DEFINE t == AsSaved(conf).bouncers
    <3>1. DOMAIN t = 1 .. n
      BY <2>5
    <3>2. t # <<>>
      BY <2>1, <2>7, <3>1
    <3>3. Len(t) = n
      BY <2>1, <2>5
    <3> QED BY <3>2, <3>3
  <2>9. Config_sanityCheck(AsSaved(conf))
    BY <2>6, <2>8 DEF Config_sanityCheck
  <2> QED BY <2>4, <2>9
<1> QED BY <1>1, LoaderInvariant, PTL

=============================================================================
