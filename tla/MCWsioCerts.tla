----------------------------- MODULE MCWsioCerts -----------------------------
(* Model-checking instance of WsioCerts: two certificates, blobs of up to   *)
(* three blocks (so a certificate can repeat, or follow one already in the  *)
(* store), and two wsio_open calls, each building a fresh SSL context.      *)
EXTENDS WsioCerts, TLC

CONSTANTS c1, c2, malformed, null

MCCerts == {c1, c2}
MCMaxChain == 3
MCMaxOpens == 2

\* The certificates are interchangeable.
MCSymmetry == Permutations(MCCerts)
=============================================================================
