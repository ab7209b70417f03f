----------------------------- MODULE ByteQueue ------------------------------
(***************************************************************************)
(* What a CSerialPort promises its users: the bytes that the device sent   *)
(* since the port was opened come out of ReadChar in the order they were   *)
(* sent, each of them once.  A byte is its number since the opening.       *)
(***************************************************************************)
EXTENDS Naturals

VARIABLES sent,     \* bytes the device has sent since the opening
          taken     \* the byte that ReadChar handed out last

vars == <<sent, taken>>

Init == sent = 0 /\ taken = 0

Send == sent' = sent + 1 /\ UNCHANGED taken

ReadChar == taken < sent /\ taken' = taken + 1 /\ UNCHANGED sent

\* Opening the port throws away what was sent before.
Open == sent' = 0 /\ taken' = 0

Next == Send \/ ReadChar \/ Open

Spec == Init /\ [][Next]_vars
=============================================================================
