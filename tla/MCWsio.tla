------------------------------- MODULE MCWsio -------------------------------
(* Model-checking instance of Wsio: three writes of one or two bytes over  *)
(* two open sessions, enough for a partial write followed by a second      *)
(* queued write, and for a close with two writes pending.                  *)
EXTENDS Wsio, TLC

MCMaxSends == 3
MCMaxOpens == 2
MCSizes == {1, 2}
MCMaxWire == 5
=============================================================================
