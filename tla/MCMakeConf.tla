----------------------------- MODULE MCMakeConf -----------------------------
(* Model checking instances of MakeConf: ints of 6 bits and ports of 3, as *)
(* in MCConfig, and for each question good answers and bad ones.           *)
EXTENDS MakeConf

MCIPs == {"ip1", "ip2"}
MCHosts == {"ip1", "ip2", "host"}
MCEditorHosts == MCHosts \cup {"gone"}
MCUnprintable == {"escape"}

MCAnswers == [
  listen       |-> {<<"ip1", <<1, TRUE>> >>, <<"ip2", <<65, TRUE>> >>, <<"ip1", <<8, TRUE>> >>,
                    <<"ip1", <<>> >>, <<"host", <<1, TRUE>> >>},
  remote       |-> {<<"host", <<2, TRUE>> >>, <<"host", <<8, TRUE>> >>,
                    <<"host", <<2, FALSE>> >>, <<"?", <<2, TRUE>> >>, <<"gone", <<2, TRUE>> >>},
  local        |-> {"None", "ip1", "host"},
  another      |-> {"yes", "no", "maybe"},
  idnt         |-> {"true", "false", "maybe"},
  identtimeout |-> {<<10, TRUE>>, <<40, TRUE>>, <<>>},
  idletimeout  |-> {<<0, TRUE>>},
  writetimeout |-> {<<30, TRUE>>, <<69, TRUE>>, <<5, FALSE>>},
  dnslookup    |-> {"false", "maybe"},
  pidfile      |-> {"none", "ebbnc.pid"},
  welcomemsg   |-> {"none", "hello", "escape"},
  password     |-> {"tiny", "short", "full"}]

=============================================================================
