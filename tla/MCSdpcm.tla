------------------------------ MODULE MCSdpcm ------------------------------
(***************************************************************************)
(* The instance of Sdpcm that bus.cfg checks.                              *)
(***************************************************************************)
EXTENDS Sdpcm
=============================================================================
