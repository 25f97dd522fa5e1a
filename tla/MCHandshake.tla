------------------------------ MODULE MCHandshake ------------------------------
(***************************************************************************)
(* Instances of Handshake.                                                 *)
(***************************************************************************)
EXTENDS Handshake

MCKey == <<"k1", "k2">>
MCFrames == <<"f1", "f2">>
==============================================================================
