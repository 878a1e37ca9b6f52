------------------------------ MODULE MCProfile ------------------------------
(* Profile with two writers, and the Wi-Fi and application sections only. *)
EXTENDS Profile
MCFunc == {"none", "ota"}
=============================================================================
