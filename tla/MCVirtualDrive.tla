--------------------------- MODULE MCVirtualDrive ---------------------------
(***************************************************************************)
(* The whole interface of the virtual drive on a small instance.           *)
(***************************************************************************)
EXTENDS VirtualDrive

CONSTANTS h1, x

MCNames == {1, 2}
MCTimes == {1}
MCHandles1 == {h1}
MCData == {x}
=============================================================================
