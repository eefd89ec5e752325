----------------------------- MODULE MCWalSpool -----------------------------
(* TLC instance of WalSpool: heartbeats only read, so they are checked     *)
(* where there is no second copy.                                          *)
EXTENDS WalSpool

MCSetups == {{"second copy"}, {"heartbeats"}}
=============================================================================
