------------------------------- MODULE MCBoot -------------------------------
(* Handlers at three addresses that use all parts of a gate. *)
EXTENDS Boot, TLC

MCHandlerAddress == (14 :> 27) @@ (8 :> 38) @@ (13 :> 57)
=============================================================================
