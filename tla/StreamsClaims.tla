---------------------------- MODULE StreamsClaims ----------------------------
(***************************************************************************)
(* What a design document of the gateway says and its code does not do.    *)
(***************************************************************************)
EXTENDS StreamsProperties

(* wecom_bot流程设计.md:309: the buffers are separate by stream id, so     *)
(* that concurrent messages do not overwrite each other.  The worker       *)
(* writes to the stream its user opened last, and so the reply to the      *)
(* first of two messages shows, and ends, in the bubble of the second.     *)
OwnBubble == \A d \in Sid : bubble[d].text.of \in {d, None}
=============================================================================
