------------------------------ MODULE MCIdent ------------------------------
(* Model checking instance of Ident: connection (1, 2), and the answers of *)
(* honest, confused and terse servers, with names of up to four letters,   *)
(* one more than scanf takes here.                                         *)
EXTENDS Ident

Port(p) == <<"port", p>>
UserId == <<"word", "USERID">>
System == <<"system">>
Eol == <<"eol">>
J == <<"letter", "j">>
A == <<"letter", "a">>

MCAnswers == {
  <<Port(1), Port(2), UserId, System, J, A, Eol>>,
  <<Eol, Port(1), Port(2), UserId, System, Eol, A, Eol>>,
  <<Port(1), Port(2), UserId, System, J, Eol, Eol, Port(1)>>,
  <<Port(1), Port(2), UserId, System, J, A, A, J, Eol>>,
  <<Port(1), Port(2), UserId, System, J, Eol, A, Eol>>,
  <<Port(2), Port(1), UserId, System, J, Eol>>,
  <<Port(1), Port(1), UserId, System, J, Eol>>,
  <<Port(2), Port(2), UserId, System, J, Eol>>,
  <<Port(1), Port(2), <<"word", "ERROR">>, J, Eol>>,
  <<Port(1), UserId, System, J, Eol>>,
  <<Port(1), Port(2), UserId, J, Eol>>,
  <<Port(1), Port(2), UserId, System, Eol>>,
  <<Eol>>, <<>> }

=============================================================================
