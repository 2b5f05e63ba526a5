---------------------------- MODULE MCOtaUpdate ----------------------------
(***************************************************************************)
(* Small instances of OtaUpdate.                                           *)
(***************************************************************************)
EXTENDS OtaUpdate

Start1  == [cmd |-> "START", seq |-> 0]
Data(n) == [cmd |-> "DATA", seq |-> n]
Finish1 == [cmd |-> "FINISH", seq |-> 0]
Zeros   == [cmd |-> "OTHER", seq |-> 0]

\* An image with two DATA commands, numbered from 0 as the first command's
\* current_data_seq is.
MCImage == <<Start1, Data(0), Data(1), Finish1>>
\* The shortest image in which every kind of command occurs.
MCShortImage == <<Start1, Data(0), Finish1>>
\* What the uninitialised buffer may hold: nothing the device knows, or the
\* remains of an earlier image.
MCZeros == {Zeros}
MCJunk  == {Zeros, Data(1)}
=============================================================================
