----------------------------- MODULE MCWsioCreate -----------------------------
(* Model-checking instance of WsioCreate: two instances, each created with *)
(* or without a trusted_ca, with any one allocation failing, and destroyed. *)
EXTENDS WsioCreate, TLC

CONSTANTS h1, h2

MCHandles == {h1, h2}
=============================================================================
