------------------------------ MODULE MCClient ------------------------------
(* Model checking instances of Client: the configurations worth telling    *)
(* apart in each run.                                                      *)
EXTENDS Client

(* The ident timeout makes no difference to what may happen, only to what  *)
(* has to.                                                                 *)
MCAllConfigs == [idnt: BOOLEAN, identTimeout: {FALSE}, welcome: BOOLEAN,
                 idleTimeout: {0, 3}, wtimeout: BOOLEAN]

(* Writes that time out, with and without an idle timeout.                 *)
MCTimeouts == {c \in MCAllConfigs : c.wtimeout /\ c.idnt /\ c.welcome}

(* The full preamble, with and without a write timeout, no idle timeout or *)
(* the last that fits in an int; the idle timeout that wraps round to none;*)
(* and all timeouts but that of the lookup, with and without a lookup.     *)
MCLive == [idnt: {TRUE}, identTimeout: {TRUE}, welcome: {TRUE},
           idleTimeout: {3}, wtimeout: BOOLEAN]
  \cup [idnt: {TRUE}, identTimeout: {TRUE}, welcome: {TRUE},
        idleTimeout: {0}, wtimeout: {FALSE}]
  \cup [idnt: {TRUE}, identTimeout: {TRUE}, welcome: {TRUE},
        idleTimeout: {4}, wtimeout: {TRUE}]
  \cup [idnt: BOOLEAN, identTimeout: {FALSE}, welcome: {TRUE},
        idleTimeout: {3}, wtimeout: {TRUE}]

=============================================================================
