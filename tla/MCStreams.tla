------------------------------ MODULE MCStreams ------------------------------
(***************************************************************************)
(* Reply streams, instantiated for TLC.  Users, robots and chats are       *)
(* interchangeable, so the run looks only at behaviours in which given     *)
(* ones begin; later callbacks differ from that in the user, the robot or  *)
(* the chat, but not in two of them.                                       *)
(***************************************************************************)
EXTENDS StreamsClaims

CONSTANTS First, Robot, Private

Differs(b) ==
  {x \in {"user", "agent", "chat"} :
     b[x] # [user |-> First, agent |-> Robot, chat |-> Private][x]}

OneDifference ==
  \A d \in Sid : Cardinality(Differs(bubble[d])) <= IF d = 1 THEN 0 ELSE 1
=============================================================================
