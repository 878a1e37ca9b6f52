--------------------------- MODULE MCSerialBridge ---------------------------
(***************************************************************************)
(* Instances of SerialBridge.  A packet holds two bytes, so that the third *)
(* stored byte transmits at once.                                          *)
(***************************************************************************)
EXTENDS SerialBridge

MCPlain == {"a"}
MCPlus == "+"
=============================================================================
