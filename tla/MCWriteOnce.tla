----------------------------- MODULE MCWriteOnce -----------------------------
(* Three writers race for one record name; see README.md for the bounds.   *)
EXTENDS WriteOnce
=============================================================================
