----------------------------- MODULE MCWorkbench -----------------------------
(* Two requests are a steer and the stop that supersedes it, or two that   *)
(* compete for the terminal or for an attempt; see README.md.              *)
EXTENDS Workbench
=============================================================================
