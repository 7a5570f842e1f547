---------------------------- MODULE MCSerialRead ----------------------------
(* The instance of SerialRead that TLC checks; its constants are numbers. *)
EXTENDS SerialRead
=============================================================================
