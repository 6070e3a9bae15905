-------------------------- MODULE MCDeviceConflicts --------------------------
(***************************************************************************)
(* Browsers a and b, with a tab each, and the server between them.         *)
(***************************************************************************)
EXTENDS DeviceConflicts, TLC

CONSTANTS a, b, server, a1, b1

TabsOfBoth == [t \in {a1, b1} |-> IF t = b1 THEN b ELSE a]
Star       == {<<a, server>>, <<server, a>>, <<b, server>>, <<server, b>>}
=============================================================================
