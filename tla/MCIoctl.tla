------------------------------ MODULE MCIoctl ------------------------------
(***************************************************************************)
(* The instance of Ioctl that ioctl.cfg checks.                            *)
(***************************************************************************)
EXTENDS Ioctl

CONSTANTS c1, c2

MCCaller == {c1, c2}
=============================================================================
