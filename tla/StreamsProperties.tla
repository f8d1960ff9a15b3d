------------------------- MODULE StreamsProperties -------------------------
(***************************************************************************)
(* What the gateway promises about the replies of a robot.                 *)
(***************************************************************************)
EXTENDS ReplyStreams

TextType == [of : Sid \cup {None}, to : User \cup {None},
             what : {"nothing", "passing", "part", "whole", "notice", "push"}]

BubbleType ==
  [agent : Agent, user : User, chat : Chat, msg : Sid \cup {None},
   turn : {"waits", "answered", "dropped", "lost"},
   end : {"no", "told", "unknown", "stopped"}, alone : BOOLEAN, text : TextType]

StreamType == [text : TextType, done : BOOLEAN, think : Sid \cup {None}]

(* Every variable has its type; a message waits in one place, and it is    *)
(* said to wait as long as it does.                                        *)
TypeOK ==
  /\ Len(bubble) <= MaxStreams /\ \A d \in Sid : bubble[d] \in BubbleType
  /\ DOMAIN streams \subseteq Sid /\ \A d \in DOMAIN streams : streams[d] \in StreamType
  /\ \A u \in User : active[u] \in Sid \cup {None}
  /\ dedup \subseteq Sid /\ crashes \in 0 .. MaxCrashes
  /\ \A a \in Agent : \A i \in DOMAIN queue[a] : queue[a][i] \in Sid /\ Waits(queue[a][i])
  /\ \A a \in Agent :
       \/ worker[a] = Rest
       \/ /\ worker[a].pc \in {"gate", "prepared", "stream"}
          /\ worker[a].target \in Sid \cup {None}
          /\ Event(a) \in Sid /\ Waits(Event(a))

(* What is meant for one user reaches no bubble and no stream that another *)
(* user opened: replies, notices, reasoning, tool calls, what an agent     *)
(* sends, whatever streams are opened, replaced, forgotten or written      *)
(* late.  A group reads the bubbles its members open there: but nothing of *)
(* the turn of a message shows in another chat than the message came from, *)
(* unless its user wrote there before the turn was over.                   *)
InPlace(e, d) ==
  /\ Of(e) = Of(d)
  /\ bubble[e].chat # bubble[d].chat => e < d /\ ~ bubble[d].alone

MayShow(text, d) ==
  /\ text.what # "nothing" => text.to = Of(d)
  /\ text.of # None => InPlace(text.of, d)

OwnUserOnly ==
  \A d \in Sid :
    /\ MayShow(bubble[d].text, d)
    /\ d \in DOMAIN streams =>
         /\ MayShow(streams[d].text, d)
         /\ streams[d].think # None => InPlace(streams[d].think, d)

(* A user who waits for the answer before sending the next message gets it *)
(* in the bubble of the question: nothing else shows there, the bubble is  *)
(* told to stop by the complete answer only, once the turn is over the     *)
(* stream says all of it and is done, and unless the gateway restarted no  *)
(* bubble, of whatever message, is told that its stream is not known.      *)
(* (Alone: when the message came no other one of the user waited, nothing  *)
(* was sent unasked into its stream, and no callback of the user came      *)
(* after it.)                                                              *)
Alone(d) == bubble[d].alone /\ active[Of(d)] = d
Final(t) == t.what \in {"whole", "notice"}

ToldAll(d) == Final(bubble[d].text) /\ bubble[d].text.of = d

AnswersItself ==
  \A d \in Sid :
    /\ bubble[d].end = "unknown" => crashes > 0
    /\ Alone(d) /\ bubble[d].turn \in {"waits", "answered"} =>
         /\ bubble[d].end = "told" => ToldAll(d)
         /\ d \in DOMAIN streams =>
              /\ {streams[d].text.of, streams[d].think} \subseteq {d, None}
              /\ streams[d].done => Final(streams[d].text) /\ ~ Waits(d)
              /\ bubble[d].turn = "answered" => streams[d].done

(* The bubble of such a message is told the complete answer, however long  *)
(* the agent's queue and whatever the engine does with the messages before *)
(* it: unless its six minutes are over first, the worker drops the message *)
(* with an exception, the gateway restarts, or it is no longer alone.      *)
Asks(d) == d \in Sid /\ Alone(d) /\ Polls(d) /\ bubble[d].turn \in {"waits", "answered"}

GivenUp(d) ==
  \/ ~ Alone(d) \/ bubble[d].end = "stopped"
  \/ bubble[d].turn \in {"dropped", "lost"}

AnswerIsShown ==
  \A d \in 1 .. MaxStreams :
    Asks(d) ~> (d \in Sid /\ ((bubble[d].end = "told" /\ ToldAll(d)) \/ GivenUp(d)))
=============================================================================
