------------------------------- MODULE MCCaptureLog -------------------------------
(* Small instances of CaptureLog. *)
EXTENDS CaptureLog
===============================================================================
