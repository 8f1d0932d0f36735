-------------------------------- MODULE MCAio -------------------------------
(* Instances of Aio for TLC.                                               *)
EXTENDS Aio
=============================================================================
