-------------------------- MODULE MCTAScopeUpdate --------------------------
(* Two files, the first of them the firmware of the sensor and the second that
   of the radio, and one file to read back; two handlers, one on the other.  *)
EXTENDS TAScopeUpdate
=============================================================================
