------------------------------ MODULE MCConfig ------------------------------
(* Model checking instances of Config: every text of up to four lines.  An *)
(* int has 6 bits here and a port fits in 3, so that a long can wrap round *)
(* to a good port (64 + 1) and to a negative number (40).                  *)
EXTENDS Config

MCIPs == {"ip1", "ip2"}
MCHosts == {"ip1", "ip2", "host"}

MCLines == {
  <<"bouncer", << "ip1", <<1, TRUE>>, "host", <<2, TRUE>> >> >>,
  <<"bouncer", << "ip2", <<65, FALSE>>, "ip1", <<7, TRUE>>, "ip1" >> >>,
  <<"bouncer", << "ip1", <<1, TRUE>>, "host", <<2, TRUE>>, "host" >> >>,
  <<"bouncer", << "ip1", <<8, TRUE>>, "host", <<2, TRUE>> >> >>,
  <<"bouncer", << "ip1", <<1, TRUE>>, "host" >> >>,
  <<"idnt", "false">>, <<"idnt", "maybe">>,
  <<"writetimeout", <<0, TRUE>> >>, <<"writetimeout", <<69, TRUE>> >>,
  <<"writetimeout", <<40, TRUE>> >>, <<"writetimeout", <<5, FALSE>> >>,
  <<"welcomemsg", "hello">>, <<"pidfile", "">>,
  <<"#", "comment">>, <<"unknown", "x">> }

MCFiles == UNION {[1 .. n -> MCLines] : n \in 0 .. 4}

=============================================================================
