--------------------------- MODULE MCDevicePicker ---------------------------
(***************************************************************************)
(* A small instance of DevicePicker.                                       *)
(***************************************************************************)
EXTENDS DevicePicker

CONSTANTS d1, d2

MCDevices == {d1, d2}
=============================================================================
