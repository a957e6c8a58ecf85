--------------------------- MODULE MCTcpEndpoint ---------------------------
(***************************************************************************)
(* Instances of TcpEndpoint.                                               *)
(***************************************************************************)
EXTENDS TcpEndpoint

CONSTANTS t1, r1
=============================================================================
