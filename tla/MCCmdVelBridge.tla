--------------------------- MODULE MCCmdVelBridge ---------------------------
(***************************************************************************)
(* Instance of CmdVelBridge.  The planner commands rest, a forward speed   *)
(* below zero_threshold, or one above the limit.  The remote has its two   *)
(* keys pressed, or one key pressed and the sticks inside the dead zone,   *)
(* or no key and the lateral stick pushed beyond the planner's limit.      *)
(***************************************************************************)
EXTENDS CmdVelBridge

Vel(n)   == [a \in Axes |-> IF a = "x" THEN n ELSE 0]
Stick(n) == [s \in SticksOf |-> IF s = "lx" THEN n ELSE 0]
Remote(k, n) == [keys |-> k, sticks |-> Stick(n)]

MCPlannerCmds == {Vel(0), Vel(1), Vel(5)}
MCFewCmds     == {Vel(5)}
MCRemoteMsgs  == {Remote({"L2"}, 1), Remote({}, 7), Remote(Keys, 0)}
MCMaxVel      == [a \in Axes |-> 3]
=============================================================================
