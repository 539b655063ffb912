------------------------------- MODULE MCShim -------------------------------
(***************************************************************************)
(* Shim on a small instance.  2^32 is reduced to 8192, which keeps every   *)
(* Win32 code it uses distinct; the daemon's codes cover 0, a plain        *)
(* failure, a negative one and the two codes that name a record (1003 and  *)
(* 1066); the OS errors cover the ones shim_failure replaces.              *)
(***************************************************************************)
EXTENDS Shim

MCDaemonCodes == {0, -1, 1003, 1066}
MCOsErrors == {NoCode, 0, 5, 1066}
=============================================================================
