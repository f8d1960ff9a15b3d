---------------------------- MODULE StreamsProofs ----------------------------
(***************************************************************************)
(* Reply streams, for any agents, users, callbacks and restarts: types,    *)
(* that what is meant for a user reaches bubbles of that user only, those  *)
(* of another chat only if the user did not wait, and that a user who      *)
(* waits for the answer gets it in the bubble of the question.             *)
(***************************************************************************)
EXTENDS StreamsProperties, SequenceTheorems, TLAPS

(***************************************************************************)
(* The inductive invariant                                                 *)
(***************************************************************************)
Texts   == [of : Nat \cup {None}, to : User \cup {None},
            what : {"nothing", "passing", "part", "whole", "notice", "push"}]
Bubbles == [agent : Agent, user : User, chat : Chat, msg : Nat \cup {None},
            turn : {"waits", "answered", "dropped", "lost"},
            end : {"no", "told", "unknown", "stopped"},
            alone : BOOLEAN, text : Texts]
Streams == [text : Texts, done : BOOLEAN, think : Nat \cup {None}]

(* Something of the turn of e may be said in d: d is e, or a later bubble  *)
(* of the same user that was not opened alone.                             *)
InTurn(e, d) == e \in Sid /\ Of(e) = Of(d) /\ (e # d => e < d /\ ~ bubble[d].alone)

(* What is said in a stream or bubble d is nothing, or meant for its user; *)
(* only what is sent unasked is of no turn.                                *)
Own(t, d) ==
  \/ t = Blank
  \/ /\ t.to = Of(d) /\ (t.of # None => InTurn(t.of, d))
     /\ (t.of = None => t.what = "push")

BubblesOK ==
  /\ bubble \in Seq(Bubbles) /\ Len(bubble) <= MaxStreams
  /\ \A d \in Sid : bubble[d].msg \in Sid \cup {None} /\ Own(bubble[d].text, d)

OwnStream(s, d) ==
  /\ s \in Streams /\ Own(s.text, d)
  /\ s.think # None => InTurn(s.think, d)

StreamsOK ==
  /\ DOMAIN streams \subseteq Sid
  /\ \A d \in DOMAIN streams : OwnStream(streams[d], d)

(* The active stream of a user was opened by that user, and after every    *)
(* message of the user that still waits: not alone then.                   *)
ActiveOK ==
  /\ active \in [User -> Sid \cup {None}]
  /\ \A u \in User : active[u] # None =>
       /\ Of(active[u]) = u
       /\ \A e \in Sid : Of(e) = u /\ Waits(e) => InTurn(e, active[u])

(* A message waits for one agent, once: the queue is in the order of the   *)
(* callbacks, and the message at work is older than the queue.             *)
Placed(d, a) == d \in Sid /\ Waits(d) /\ bubble[d].agent = a

QueueOK ==
  /\ queue \in [Agent -> Seq(Nat)]
  /\ \A a \in Agent : \A i \in DOMAIN queue[a] : Placed(queue[a][i], a)
  /\ \A a \in Agent : \A i, j \in DOMAIN queue[a] : i < j => queue[a][i] < queue[a][j]

AtWork(a) ==
  /\ worker[a].pc \in {"gate", "prepared", "stream"} /\ Placed(Event(a), a)
  /\ worker[a].target # None =>
       worker[a].target \in Sid /\ InTurn(Event(a), worker[a].target)
  /\ \A i \in DOMAIN queue[a] : Event(a) < queue[a][i]

WorkerOK ==
  /\ worker \in [Agent -> [pc : {"idle", "gate", "prepared", "stream"}, event : Nat \cup {None},
                           target : Nat \cup {None}]]
  /\ \A a \in Agent : worker[a] = Rest \/ AtWork(a)

RestOK == dedup \subseteq Sid /\ crashes \in 0 .. MaxCrashes

IInv == BubblesOK /\ StreamsOK /\ ActiveOK /\ QueueOK /\ WorkerOK /\ RestOK

(***************************************************************************)
(* Elementary facts                                                        *)
(***************************************************************************)

(* Stream ids are the numbers up to the number of bubbles.                 *)
LEMMA Ids ==
  ASSUME BubblesOK
  PROVE  /\ Sid = 1 .. Len(bubble) /\ Len(bubble) \in Nat /\ Sid \subseteq Nat
         /\ None \notin Sid /\ \A d \in Sid : bubble[d] \in Bubbles
BY StreamsAssumption DEF BubblesOK, Sid

(* Own and OwnStream are about the users of the bubbles and whether they   *)
(* were opened alone: what is true of a text stays true when bubbles are   *)
(* added and change otherwise.                                             *)
LEMMA OwnStays ==
  ASSUME Sid \subseteq Sid',
         \A d \in Sid : Of(d)' = Of(d) /\ (bubble'[d].alone => bubble[d].alone),
         NEW d \in Sid
  PROVE  /\ \A e : InTurn(e, d) => InTurn(e, d)'
         /\ \A t \in Texts : Own(t, d) => Own(t, d)'
         /\ \A s \in Streams : OwnStream(s, d) => OwnStream(s, d)'
<1>1. ASSUME NEW e, InTurn(e, d) PROVE InTurn(e, d)'
  BY <1>1 DEF InTurn
<1>2. ASSUME NEW t \in Texts, Own(t, d) PROVE Own(t, d)'
  BY <1>1, <1>2 DEF Own, Blank
<1>3. ASSUME NEW s \in Streams, OwnStream(s, d) PROVE OwnStream(s, d)'
  <2>1. s.text \in Texts
    BY DEF Streams
  <2> QED BY <1>1, <1>2, <1>3, <2>1 DEF OwnStream
<1> QED BY <1>1, <1>2, <1>3

(* What the worker of a says is of the user whose message it handles.      *)
LEMMA SaidIsOwn ==
  ASSUME IInv, NEW a \in Agent, worker[a].pc # "idle",
         NEW what \in {"passing", "part", "whole", "notice"}
  PROVE  /\ Event(a) \in Sid /\ Asker(a) \in User /\ Say(a, what) \in Texts
         /\ Say(a, what).what = what
         /\ \A d \in Sid : InTurn(Event(a), d) => Own(Say(a, what), d)
         /\ active[Asker(a)] \in Sid => InTurn(Event(a), active[Asker(a)])
         /\ AtWork(a)
<1>1. AtWork(a)
  BY DEF IInv, WorkerOK, Rest
<1>2. Event(a) \in Sid /\ Event(a) \in Nat /\ bubble[Event(a)] \in Bubbles
  BY <1>1, Ids DEF AtWork, Placed, IInv
<1>3. Asker(a) \in User /\ Asker(a) = Of(Event(a))
  BY <1>2 DEF Asker, Of, Bubbles
<1>4. /\ Say(a, what) \in Texts /\ Say(a, what).what = what
      /\ Say(a, what).of = Event(a) /\ Say(a, what).to = Asker(a)
  BY <1>2, <1>3 DEF Say, Says, Texts
<1>5. active[Asker(a)] \in Sid => InTurn(Event(a), active[Asker(a)])
  BY <1>1, <1>2, <1>3, Ids DEF IInv, ActiveOK, AtWork, Placed
<1>6. ASSUME NEW d \in Sid, InTurn(Event(a), d) PROVE Own(Say(a, what), d)
  <2>1. Say(a, what).to = Of(d) /\ Say(a, what).of # None
    BY <1>2, <1>3, <1>4, <1>6, StreamsAssumption DEF InTurn
  <2> QED BY <1>4, <1>6, <2>1 DEF Own
<1> QED BY <1>1, <1>2, <1>3, <1>4, <1>5, <1>6

(* A text of its user written into a stream, or written as its end, leaves *)
(* the streams in order.                                                   *)
LEMMA WriteKeeps ==
  ASSUME IInv, NEW sid, NEW t \in Texts, sid \in Sid => Own(t, sid),
         Write(sid, t) \/ Finish(sid, t)
  PROVE  /\ DOMAIN streams' \subseteq Sid
         /\ \A d \in DOMAIN streams' : OwnStream(streams'[d], d)
<1> USE DEF IInv, StreamsOK
<1>1. CASE sid \notin DOMAIN streams
  BY <1>1 DEF Write, Finish
<1>2. CASE sid \in DOMAIN streams
  <2>1. DOMAIN streams' = DOMAIN streams
        /\ \A d \in DOMAIN streams : d # sid => streams'[d] = streams[d]
    BY <1>2 DEF Write, Finish
  <2>2. streams[sid] \in Streams
    BY <1>2 DEF OwnStream
  <2>3. streams'[sid] = [streams[sid] EXCEPT !.text = t]
        \/ streams'[sid] = [streams[sid] EXCEPT !.text = t, !.done = TRUE]
    BY <1>2 DEF Write, Finish, Finished
  <2>4. streams'[sid] \in Streams /\ streams'[sid].text = t
        /\ streams'[sid].think = streams[sid].think
    BY <2>2, <2>3 DEF Streams
  <2>5. OwnStream(streams'[sid], sid)
    BY <1>2, <2>4 DEF OwnStream
  <2> QED BY <1>2, <2>1, <2>5
<1> QED BY <1>1, <1>2

(* A notice or a reply sent as a message is such a write.                  *)
LEMMA SendKeeps ==
  ASSUME IInv, NEW a \in Agent, worker[a].pc # "idle",
         NEW what \in {"passing", "part", "whole", "notice"},
         SendMessage(Asker(a), Say(a, what))
  PROVE  /\ DOMAIN streams' \subseteq Sid
         /\ \A d \in DOMAIN streams' : OwnStream(streams'[d], d)
<1>1. active[Asker(a)] \in Sid => Own(Say(a, what), active[Asker(a)])
  BY SaidIsOwn
<1>2. Say(a, what) \in Texts
  BY SaidIsOwn
<1>3. Write(active[Asker(a)], Say(a, what)) \/ Finish(active[Asker(a)], Say(a, what))
  BY DEF SendMessage
<1> QED BY <1>1, <1>2, <1>3, WriteKeeps

(* A bubble may be given another fate or be closed.                        *)
LEMMA BubbleChanges ==
  ASSUME BubblesOK, NEW d \in Sid, NEW b \in Bubbles,
         b.agent = bubble[d].agent, b.user = bubble[d].user, b.msg = bubble[d].msg,
         b.alone => bubble[d].alone,
         Own(b.text, d), bubble' = [bubble EXCEPT ![d] = b]
  PROVE  /\ BubblesOK' /\ Sid' = Sid
         /\ \A e \in Sid : e # d => bubble'[e] = bubble[e]
         /\ bubble'[d] = b
         /\ \A e \in Sid : /\ Of(e)' = Of(e) /\ bubble'[e].agent = bubble[e].agent
                           /\ bubble'[e].alone => bubble[e].alone
<1>1. bubble' \in Seq(Bubbles) /\ Len(bubble') = Len(bubble)
      /\ DOMAIN bubble' = DOMAIN bubble
      /\ \A e \in Sid : e # d => bubble'[e] = bubble[e]
      /\ bubble'[d] = b
  BY ExceptSeq DEF BubblesOK, Sid
<1>2. Sid' = Sid
  BY <1>1 DEF Sid
<1>3. \A e \in Sid : /\ Of(e)' = Of(e) /\ bubble'[e].agent = bubble[e].agent
                     /\ bubble'[e].msg = bubble[e].msg
                     /\ bubble'[e].alone => bubble[e].alone
  BY <1>1 DEF Of
<1>4. ASSUME NEW e \in Sid PROVE bubble'[e].msg \in Sid' \cup {None} /\ Own(bubble[e].text, e)'
  <2>1. bubble'[e].msg \in Sid' \cup {None}
    BY <1>2, <1>3 DEF BubblesOK
  <2>2. bubble'[e] \in Bubbles
    BY <1>1 DEF Sid, BubblesOK
  <2>3. bubble'[e].text \in Texts
    BY <2>2 DEF Bubbles
  <2>4. Own(bubble'[e].text, e)
    BY <1>1 DEF BubblesOK
  <2>5. \A t \in Texts : Own(t, e) => Own(t, e)'
    BY <1>2, <1>3, OwnStays
  <2>6. PICK t \in Texts : t = bubble'[e].text /\ Own(t, e)'
    BY <2>3, <2>4, <2>5
  <2> QED BY <2>1, <2>6 DEF Own, InTurn, Blank
<1> QED BY <1>1, <1>2, <1>3, <1>4 DEF BubblesOK

(* What is left when no bubble changed.                                    *)
LEMMA SameBubbles ==
  ASSUME IInv, UNCHANGED bubble,
         DOMAIN streams' \subseteq Sid,
         \A d \in DOMAIN streams' : OwnStream(streams'[d], d),
         UNCHANGED <<active, dedup, crashes>>, QueueOK', WorkerOK'
  PROVE  IInv'
<1>1. /\ Sid' = Sid /\ \A d \in Sid : Of(d)' = Of(d)
      /\ \A d, e : InTurn(e, d) => InTurn(e, d)'
  BY DEF Sid, Of, InTurn
<1>2. BubblesOK'
  BY <1>1 DEF IInv, BubblesOK, Own
<1>3. StreamsOK'
  BY <1>1 DEF StreamsOK, OwnStream, Own
<1>4. ActiveOK' /\ RestOK'
  BY <1>1, Ids DEF IInv, ActiveOK, RestOK, Of, Waits
<1> QED BY <1>2, <1>3, <1>4 DEF IInv

(* Streams and active ones stay in order when bubbles change, as long as   *)
(* no message begins to wait.                                              *)
LEMMA RestStays ==
  ASSUME IInv, Sid' = Sid, UNCHANGED active,
         DOMAIN streams' \subseteq Sid,
         \A d \in DOMAIN streams' : OwnStream(streams'[d], d),
         \A e \in Sid : /\ Of(e)' = Of(e) /\ (bubble'[e].alone => bubble[e].alone)
                        /\ Waits(e)' => Waits(e)
  PROVE  StreamsOK' /\ ActiveOK'
<1>1. ASSUME NEW d \in DOMAIN streams' PROVE OwnStream(streams[d], d)'
  <2>1. d \in Sid
    OBVIOUS
  <2>2. \A s \in Streams : OwnStream(s, d) => OwnStream(s, d)'
    BY <2>1, OwnStays
  <2>3. PICK s \in Streams : s = streams'[d] /\ OwnStream(s, d)
    BY DEF OwnStream
  <2>4. OwnStream(s, d)'
    BY <2>2, <2>3
  <2> QED BY <2>3, <2>4 DEF OwnStream, Own, InTurn, Blank
<1>2. ASSUME NEW u \in User, active[u] # None
      PROVE  /\ Of(active[u])' = u
             /\ \A e \in Sid : Of(e)' = u /\ Waits(e)' => InTurn(e, active[u])'
  <2>1. active[u] \in Sid /\ Of(active[u]) = u
        /\ \A e \in Sid : Of(e) = u /\ Waits(e) => InTurn(e, active[u])
    BY <1>2 DEF IInv, ActiveOK
  <2>2. ASSUME NEW e \in Sid, Of(e)' = u, Waits(e)' PROVE InTurn(e, active[u])'
    <3>1. InTurn(e, active[u])
      BY <2>1, <2>2
    <3> QED BY <2>1, <3>1 DEF Of, InTurn
  <2> QED BY <2>1, <2>2 DEF Of
<1> QED BY <1>1, <1>2 DEF IInv, StreamsOK, ActiveOK

(***************************************************************************)
(* Callbacks                                                               *)
(***************************************************************************)

(* The bubble of a callback.                                               *)
Opens(b) ==
  /\ b \in Bubbles /\ b.text = Blank /\ b.msg \in 1 .. Len(bubble) + 1 \cup {None}
  /\ b.alone <=> \A e \in Sid : Of(e) = b.user => ~ Waits(e)

LEMMA NewBubble ==
  ASSUME NEW a \in Agent, NEW u \in User, NEW c \in Chat, Len(bubble) \in Nat,
         NEW m \in 1 .. Len(bubble) + 1 \cup {None},
         NEW turn \in {"waits", "dropped"}, NEW end \in {"no", "stopped"}
  PROVE  /\ Opens(Bubble(a, u, c, m, turn, end))
         /\ Bubble(a, u, c, m, turn, end).agent = a
         /\ Bubble(a, u, c, m, turn, end).user = u
         /\ Bubble(a, u, c, m, turn, end).turn = turn
         /\ Bubble(a, u, c, m, turn, end).end = end
<1>1. PICK alone \in BOOLEAN : alone <=> \A e \in Sid : Of(e) = u => ~ Waits(e)
  OBVIOUS
<1>2. PICK blank \in Texts : blank = Blank
  BY DEF Blank, Texts
<1>3. PICK b : b = [agent |-> a, user |-> u, chat |-> c, msg |-> m, turn |-> turn,
                    end |-> end, alone |-> alone, text |-> blank]
  OBVIOUS
<1>4. /\ b \in Bubbles /\ b.text = blank /\ b.msg = m /\ b.alone = alone
      /\ b.agent = a /\ b.user = u /\ b.turn = turn /\ b.end = end
  BY <1>3 DEF Bubbles
<1>5. b = Bubble(a, u, c, m, turn, end)
  <2>1. alone = (\A e \in Sid : Of(e) = u => ~ Waits(e))
    BY <1>1
  <2> QED BY <1>2, <1>3, <2>1, Zenon DEF Bubble
<1> QED BY <1>1, <1>2, <1>4, <1>5 DEF Opens

(* A new bubble, with the stream that its callback opens: nothing of the   *)
(* others changes.                                                         *)
LEMMA OpenAdds ==
  ASSUME IInv, NEW b, Opens(b), NEW sid \in Nat, sid = Len(bubble) + 1,
         NEW d \in Nat, Open(b, d)
  PROVE  /\ BubblesOK' /\ StreamsOK' /\ ActiveOK'
         /\ Sid' = Sid \cup {sid} /\ sid \notin Sid
         /\ bubble'[sid] = b
         /\ \A e \in Sid : bubble'[e] = bubble[e]
         /\ UNCHANGED <<worker, crashes>>
<1> DEFINE u == b.user
<1>1. bubble' = Append(bubble, b) /\ sid <= MaxStreams /\ Create(sid, u, d)
  BY Ids, StreamsAssumption DEF Open, IInv
<1>2. Sid = 1 .. Len(bubble) /\ Len(bubble) \in Nat /\ Sid \subseteq Nat /\ None \notin Sid
  BY Ids DEF IInv
<1>3. b \in Bubbles /\ u \in User
  BY DEF Opens, Bubbles
<1>4. bubble' \in Seq(Bubbles) /\ Len(bubble') = sid /\ DOMAIN bubble' = 1 .. sid
      /\ bubble'[sid] = b /\ \A e \in Sid : bubble'[e] = bubble[e]
  BY <1>1, <1>2, <1>3 DEF IInv, BubblesOK
<1>5. Sid' = Sid \cup {sid} /\ sid \notin Sid /\ sid \in Sid' /\ Sid' = 1 .. sid
      /\ \A e \in Sid : e < sid
  BY <1>2, <1>4 DEF Sid
<1>6. /\ Of(sid)' = u
      /\ \A e \in Sid : Of(e)' = Of(e) /\ (bubble'[e].alone => bubble[e].alone)
                         /\ (Waits(e)' <=> Waits(e))
  BY <1>4 DEF Of, Waits
<1>7. BubblesOK'
  <2>1. ASSUME NEW e \in Sid PROVE bubble'[e].msg \in Sid' \cup {None} /\ Own(bubble[e].text, e)'
    <3>1. /\ bubble[e].text \in Texts /\ Own(bubble[e].text, e)
          /\ bubble[e].msg \in Sid \cup {None}
      BY <1>2, Ids DEF IInv, BubblesOK, Bubbles
    <3>2. \A t \in Texts : Own(t, e) => Own(t, e)'
      BY <1>5, <1>6, OwnStays
    <3>3. Own(bubble[e].text, e)'
      BY <1>4, <3>1, <3>2 DEF Own
    <3> QED BY <1>4, <1>5, <3>1, <3>3
  <2>2. bubble'[sid].msg \in Sid' \cup {None} /\ Own(bubble[sid].text, sid)'
    BY <1>2, <1>4, <1>5 DEF Own, Blank, Opens
  <2> QED BY <1>1, <1>4, <1>5, <2>1, <2>2 DEF BubblesOK
<1>8. StreamsOK'
  <2>1. DOMAIN streams' = Younger(DOMAIN streams, d) \cup {sid}
        /\ streams'[sid] = Fresh
        /\ \A e \in Younger(DOMAIN streams, d) : e # sid => streams'[e] = streams[e]
    BY <1>1 DEF Create
  <2>2. DOMAIN streams' \subseteq Sid'
    BY <1>5, <2>1 DEF Younger, IInv, StreamsOK
  <2>3. OwnStream(streams[sid], sid)'
    <3>1. streams'[sid] = [text |-> Blank, done |-> FALSE, think |-> None]
      BY <2>1 DEF Fresh
    <3> QED BY <3>1 DEF OwnStream, Own, Streams, Texts, Blank
  <2>4. ASSUME NEW e \in DOMAIN streams, e # sid, streams'[e] = streams[e]
        PROVE  OwnStream(streams[e], e)'
    <3>1. e \in Sid /\ OwnStream(streams[e], e) /\ streams[e] \in Streams
      BY DEF IInv, StreamsOK, OwnStream
    <3>2. \A s \in Streams : OwnStream(s, e) => OwnStream(s, e)'
      BY <1>5, <1>6, <3>1, OwnStays
    <3>3. PICK s \in Streams : s = streams'[e] /\ OwnStream(s, e)'
      BY <2>4, <3>1, <3>2
    <3> QED BY <3>3 DEF OwnStream, Own, InTurn, Blank
  <2> QED BY <2>1, <2>2, <2>3, <2>4 DEF StreamsOK, Younger
<1>9. ActiveOK'
  <2>1. active' = [active EXCEPT ![u] = sid] /\ active \in [User -> Sid \cup {None}]
    BY <1>1 DEF Create, IInv, ActiveOK
  <2>2. ASSUME NEW v \in User, active'[v] # None
        PROVE  /\ Of(active[v])' = v
               /\ \A e \in Sid' : Of(e)' = v /\ Waits(e)' => InTurn(e, active[v])'
    <3>1. CASE v = u
      <4>1. active'[v] = sid
        BY <1>3, <2>1, <3>1
      <4>2. ASSUME NEW e \in Sid', Of(e)' = u, Waits(e)' PROVE InTurn(e, sid)'
        <5>1. CASE e = sid
          BY <1>5, <1>6, <5>1 DEF InTurn
        <5>2. CASE e \in Sid
          <6>1. Of(e) = u /\ Waits(e) /\ ~ b.alone
            BY <1>6, <4>2, <5>2 DEF Opens
          <6> QED BY <1>4, <1>5, <1>6, <5>2, <6>1 DEF InTurn
        <5> QED BY <1>5, <5>1, <5>2
      <4> QED BY <1>6, <3>1, <4>1, <4>2 DEF Of, InTurn
    <3>2. CASE v # u
      <4>1. active'[v] = active[v] /\ active[v] \in Sid /\ Of(active[v]) = v
        BY <2>1, <2>2, <3>2 DEF IInv, ActiveOK
      <4>2. ASSUME NEW e \in Sid', Of(e)' = v, Waits(e)' PROVE InTurn(e, active[v])'
        <5>1. e \in Sid /\ Of(e) = v /\ Waits(e)
          BY <1>5, <1>6, <3>2, <4>2
        <5>2. InTurn(e, active[v])
          BY <4>1, <5>1, <1>2 DEF IInv, ActiveOK
        <5> QED BY <1>4, <1>5, <1>6, <4>1, <5>1, <5>2 DEF InTurn, Of
      <4> QED BY <1>6, <4>1, <4>2 DEF Of
    <3> QED BY <3>1, <3>2
  <2>3. active' \in [User -> Sid' \cup {None}]
    BY <1>5, <2>1
  <2> QED BY <2>2, <2>3 DEF ActiveOK
<1> QED BY <1>4, <1>5, <1>7, <1>8, <1>9 DEF Open

(* The messages that wait keep their places as long as they wait.          *)
LEMMA PlacesKept ==
  ASSUME IInv, UNCHANGED <<queue, worker>>, Sid \subseteq Sid',
         \A e \in Sid : /\ bubble'[e].user = bubble[e].user
                        /\ bubble'[e].agent = bubble[e].agent
                        /\ bubble'[e].turn = bubble[e].turn
                        /\ bubble'[e].alone => bubble[e].alone
  PROVE  QueueOK' /\ WorkerOK'
<1>1. \A e \in Sid, b \in Agent : Placed(e, b) => Placed(e, b)'
  BY DEF Placed, Waits
<1>2. \A e, b : Placed(e, b) => e \in Sid
  BY DEF Placed
<1>3. QueueOK'
  BY <1>1, <1>2 DEF IInv, QueueOK
<1>4. ASSUME NEW b \in Agent, AtWork(b) PROVE AtWork(b)'
  <2>1. Event(b) \in Sid /\ Event(b)' = Event(b)
    BY <1>2, <1>4 DEF AtWork, Event
  <2>2. worker[b].target # None =>
          worker[b].target \in Sid' /\ InTurn(Event(b), worker[b].target)'
    BY <1>4, <2>1 DEF AtWork, InTurn, Of
  <2> QED BY <1>1, <1>4, <2>1, <2>2 DEF AtWork, Placed, Waits
<1>5. WorkerOK'
  BY <1>4 DEF IInv, WorkerOK, Rest
<1> QED BY <1>3, <1>5

(* A message is accepted: it is the youngest of the queue.                 *)
LEMMA AcceptKeeps ==
  ASSUME IInv, NEW a \in Agent, NEW u \in User, NEW c \in Chat,
         NEW mm \in 1 .. Len(bubble) + 1, Accept(a, u, c, mm)
  PROVE  IInv'
<1>1. PICK sid \in Nat : sid = Len(bubble) + 1
  BY Ids DEF IInv
<1>0. PICK new : new = Bubble(a, u, c, mm, "waits", "no")
  OBVIOUS
<1>2. PICK e \in 1 .. sid, d \in Nat :
        Open(new, d) /\ dedup' = Younger(dedup, e) \cup {sid}
  BY <1>0, <1>1 DEF Accept
<1>3. Opens(new) /\ new.agent = a /\ new.turn = "waits"
  BY <1>0, <1>2, NewBubble, Ids DEF IInv
<1>4. /\ BubblesOK' /\ StreamsOK' /\ ActiveOK'
      /\ Sid' = Sid \cup {sid} /\ sid \notin Sid
      /\ bubble'[sid].agent = a /\ bubble'[sid].turn = "waits"
      /\ \A i \in Sid : bubble'[i] = bubble[i]
      /\ UNCHANGED <<worker, crashes>>
  BY <1>1, <1>2, <1>3, OpenAdds
<1>5. queue' = [queue EXCEPT ![a] = Append(queue[a], sid)]
  BY <1>1 DEF Accept
<1>6. RestOK'
  BY <1>2, <1>4 DEF IInv, RestOK, Younger
<1>7. Sid = 1 .. Len(bubble) /\ Len(bubble) \in Nat
  BY Ids DEF IInv
<1>8. \A i, b : Placed(i, b) => i \in Sid /\ i < sid /\ Placed(i, b)'
  BY <1>1, <1>4, <1>7 DEF Placed, Waits
<1>9. Placed(sid, a)'
  BY <1>4 DEF Placed, Waits
<1>10. queue' \in [Agent -> Seq(Nat)] /\ \A b \in Agent : b # a => queue'[b] = queue[b]
  BY <1>5 DEF IInv, QueueOK
<1>11. queue'[a] = Append(queue[a], sid) /\ queue[a] \in Seq(Nat)
  BY <1>5 DEF IInv, QueueOK
<1>12. /\ DOMAIN queue[a] = 1 .. Len(queue[a]) /\ Len(queue[a]) \in Nat
       /\ DOMAIN queue'[a] = 1 .. Len(queue[a]) + 1
       /\ queue'[a][Len(queue[a]) + 1] = sid
       /\ \A i \in 1 .. Len(queue[a]) : queue'[a][i] = queue[a][i]
  BY <1>11
<1>13. \A i \in DOMAIN queue[a] : Placed(queue[a][i], a)
  BY DEF IInv, QueueOK
<1>14. \A i \in DOMAIN queue'[a] : Placed(queue[a][i], a)'
  <2> SUFFICES ASSUME NEW i \in DOMAIN queue'[a] PROVE Placed(queue[a][i], a)'
    OBVIOUS
  <2>1. CASE i \in 1 .. Len(queue[a])
    <3>1. queue'[a][i] = queue[a][i] /\ Placed(queue[a][i], a)
      BY <1>12, <1>13, <2>1
    <3> QED BY <1>8, <3>1 DEF Placed, Waits
  <2>2. CASE i = Len(queue[a]) + 1
    BY <1>9, <1>12, <2>2 DEF Placed, Waits
  <2> QED BY <1>12, <2>1, <2>2
<1>15. ASSUME NEW i \in DOMAIN queue'[a], NEW j \in DOMAIN queue'[a], i < j
       PROVE  queue'[a][i] < queue'[a][j]
  <2>1. i \in 1 .. Len(queue[a]) /\ queue'[a][i] = queue[a][i]
    BY <1>12, <1>15
  <2>2. CASE j \in 1 .. Len(queue[a])
    BY <1>12, <1>15, <2>1, <2>2 DEF IInv, QueueOK
  <2>3. CASE j = Len(queue[a]) + 1
    <3>1. Placed(queue[a][i], a)
      BY <1>12, <1>13, <2>1
    <3> QED BY <1>8, <1>12, <2>1, <2>3, <3>1
  <2> QED BY <1>12, <2>2, <2>3
<1>16. QueueOK'
  <2>1. ASSUME NEW b \in Agent PROVE \A i \in DOMAIN queue'[b] : Placed(queue[b][i], b)'
    <3>1. CASE b = a
      BY <1>14, <3>1
    <3>2. CASE b # a
      <4>1. queue'[b] = queue[b] /\ \A i \in DOMAIN queue[b] : Placed(queue[b][i], b)
        BY <1>10, <3>2 DEF IInv, QueueOK
      <4> QED BY <1>8, <4>1 DEF Placed, Waits
    <3> QED BY <3>1, <3>2
  <2>2. ASSUME NEW b \in Agent, NEW i \in DOMAIN queue'[b], NEW j \in DOMAIN queue'[b], i < j
        PROVE  queue'[b][i] < queue'[b][j]
    <3>1. CASE b = a
      BY <1>15, <2>2, <3>1
    <3>2. CASE b # a
      BY <1>10, <2>2, <3>2 DEF IInv, QueueOK
    <3> QED BY <3>1, <3>2
  <2> QED BY <1>10, <2>1, <2>2 DEF QueueOK
<1>17. ASSUME NEW b \in Agent, AtWork(b) PROVE AtWork(b)'
  <2>1. Event(b)' = Event(b) /\ Event(b) \in Sid /\ Event(b) < sid /\ Placed(Event(b), b)'
    BY <1>4, <1>8, <1>17 DEF AtWork, Event, Placed, Waits
  <2>3. worker[b].target # None =>
          worker[b].target \in Sid' /\ InTurn(Event(b), worker[b].target)'
    BY <1>4, <1>17, <2>1 DEF AtWork, InTurn, Of
  <2>4. \A i \in DOMAIN queue'[b] : Event(b) < queue'[b][i]
    <3>1. \A i \in DOMAIN queue[b] : Event(b) < queue[b][i]
      BY <1>17 DEF AtWork
    <3>2. CASE b = a
      <4>1. ASSUME NEW i \in DOMAIN queue'[a] PROVE Event(a) < queue'[a][i]
        <5>1. CASE i \in 1 .. Len(queue[a])
          BY <1>12, <3>1, <3>2, <5>1
        <5>2. CASE i = Len(queue[a]) + 1
          BY <1>12, <2>1, <3>2, <5>2
        <5> QED BY <1>12, <5>1, <5>2
      <4> QED BY <3>2, <4>1
    <3>3. CASE b # a
      BY <1>10, <3>1, <3>3
    <3> QED BY <3>2, <3>3
  <2> QED BY <1>4, <1>17, <2>1, <2>3, <2>4 DEF AtWork
<1>18. WorkerOK'
  BY <1>4, <1>17 DEF IInv, WorkerOK, Rest
<1> QED BY <1>4, <1>6, <1>16, <1>18 DEF IInv

LEMMA SendStep ==
  ASSUME IInv, NEW a \in Agent, NEW u \in User, Send(a, u) PROVE IInv'
<1>1. Len(bubble) + 1 \in 1 .. Len(bubble) + 1
  BY Ids DEF IInv
<1> QED BY <1>1, AcceptKeeps DEF Send

(* A callback that goes no further opens a stream, and that is all.        *)
LEMMA IgnoreKeeps ==
  ASSUME IInv, NEW b, Opens(b), Ignore(b) PROVE IInv'
<1>1. PICK sid \in Nat : sid = Len(bubble) + 1
  BY Ids DEF IInv
<1>2. PICK d \in Nat : Open(b, d) /\ UNCHANGED <<dedup, queue>>
  BY <1>1 DEF Ignore
<1>3. /\ BubblesOK' /\ StreamsOK' /\ ActiveOK'
      /\ Sid' = Sid \cup {sid}
      /\ \A i \in Sid : bubble'[i] = bubble[i]
      /\ UNCHANGED <<worker, crashes>>
  BY <1>1, <1>2, OpenAdds
<1>4. QueueOK' /\ WorkerOK'
  BY <1>2, <1>3, PlacesKept
<1> QED BY <1>2, <1>3, <1>4 DEF IInv, RestOK

LEMMA RedeliverStep ==
  ASSUME IInv, NEW m \in Sid, Redeliver(m) PROVE IInv'
<1>1. /\ m \in 1 .. Len(bubble) + 1 /\ Len(bubble) \in Nat /\ bubble[m].agent \in Agent
      /\ bubble[m].user \in User /\ bubble[m].chat \in Chat
  BY Ids DEF IInv, Bubbles
<1>2. CASE Accept(bubble[m].agent, bubble[m].user, bubble[m].chat, m)
  BY <1>1, <1>2, AcceptKeeps
<1>3. CASE Ignore(Bubble(bubble[m].agent, bubble[m].user, bubble[m].chat, m, "dropped", "no"))
  BY <1>1, <1>3, NewBubble, IgnoreKeeps
<1> QED BY <1>2, <1>3 DEF Redeliver

LEMMA NoUrlStep ==
  ASSUME IInv, NEW a \in Agent, NEW u \in User, NoUrl(a, u) PROVE IInv'
<1>1. PICK c \in Chat : Ignore(Bubble(a, u, c, None, "dropped", "stopped"))
  BY DEF NoUrl
<1>2. Len(bubble) \in Nat
  BY Ids DEF IInv
<1> QED BY <1>1, <1>2, NewBubble, IgnoreKeeps

(***************************************************************************)
(* The worker                                                              *)
(***************************************************************************)

(* A turn ends: the streams are in order, and nobody else waits for the    *)
(* message.                                                                *)
LEMMA OverKeeps ==
  ASSUME IInv, NEW a \in Agent, worker[a].pc # "idle",
         NEW turn \in {"answered", "dropped"}, Over(a, turn),
         DOMAIN streams' \subseteq Sid,
         \A d \in DOMAIN streams' : OwnStream(streams'[d], d),
         UNCHANGED <<active, dedup, queue, crashes>>
  PROVE  IInv'
<1>1. PICK m \in Sid : m = Event(a) /\ AtWork(a) /\ bubble[m] \in Bubbles
                       /\ Placed(m, a) /\ Own(bubble[m].text, m)
  BY SaidIsOwn, Ids DEF IInv, BubblesOK, AtWork
<1>2. PICK b \in Bubbles : b = [bubble[m] EXCEPT !.turn = turn]
  BY <1>1 DEF Bubbles
<1>3. bubble' = [bubble EXCEPT ![m] = b]
  BY <1>1, <1>2 DEF Over
<1>4. b.agent = bubble[m].agent /\ b.user = bubble[m].user /\ b.msg = bubble[m].msg
      /\ b.text = bubble[m].text /\ b.alone = bubble[m].alone /\ b.turn = turn
  BY <1>1, <1>2 DEF Bubbles
<1>5. /\ BubblesOK' /\ Sid' = Sid /\ bubble'[m] = b
      /\ \A e \in Sid : e # m => bubble'[e] = bubble[e]
      /\ \A e \in Sid : /\ Of(e)' = Of(e) /\ bubble'[e].agent = bubble[e].agent
                        /\ bubble'[e].alone => bubble[e].alone
  BY <1>1, <1>3, <1>4, BubbleChanges DEF IInv
<1>6. StreamsOK' /\ ActiveOK'
  <2>1. \A e \in Sid : Waits(e)' => Waits(e)
    BY <1>4, <1>5 DEF Waits
  <2>2. \A e \in Sid : /\ Of(e)' = Of(e) /\ (bubble'[e].alone => bubble[e].alone)
                       /\ Waits(e)' => Waits(e)
    BY <1>5, <2>1
  <2>3. Sid' = Sid /\ UNCHANGED active
    BY <1>5
  <2> QED BY <2>2, <2>3, RestStays
<1>7. RestOK'
  BY <1>5 DEF IInv, RestOK
<1>8. \A e, c : Placed(e, c) /\ e # m => Placed(e, c)'
  BY <1>5 DEF Placed, Waits
<1>9. \A e, c : Placed(e, c) /\ c # a => e # m
  BY <1>1 DEF Placed
<1>10. ASSUME NEW c \in Agent, NEW i \in DOMAIN queue[c]
       PROVE  Placed(queue[c][i], c) /\ queue[c][i] # m
  <2>1. Placed(queue[c][i], c)
    BY DEF IInv, QueueOK
  <2>2. CASE c = a
    <3>1. Event(a) < queue[c][i] /\ m \in Nat
      BY <1>1, <2>2, Ids DEF AtWork, IInv
    <3> QED BY <1>1, <2>1, <3>1
  <2> QED BY <1>9, <2>1, <2>2
<1>11. QueueOK'
  <2>1. ASSUME NEW c \in Agent, NEW i \in DOMAIN queue[c] PROVE Placed(queue[c][i], c)'
    BY <1>8, <1>10 DEF Placed, Waits
  <2> QED BY <2>1 DEF IInv, QueueOK
<1>12. ASSUME NEW c \in Agent, c # a, AtWork(c) PROVE AtWork(c)'
  <2>1. worker'[c] = worker[c]
    BY <1>12 DEF Over, IInv, WorkerOK
  <2>2. Placed(Event(c), c) /\ Event(c) # m /\ Event(c) \in Sid /\ Event(c)' = Event(c)
    BY <1>9, <1>12, <2>1 DEF AtWork, Placed, Event
  <2>3. Placed(Event(c), c)'
    BY <1>5, <1>8, <2>2 DEF Of, Placed, Waits
  <2>4. worker[c].target # None =>
          worker[c].target \in Sid' /\ InTurn(Event(c), worker[c].target)'
    <3>1. ASSUME NEW t \in Sid, InTurn(Event(c), t), t = worker[c].target
          PROVE  t \in Sid' /\ InTurn(Event(c), t)'
      BY <1>5, <2>2, <3>1 DEF InTurn
    <3> QED BY <1>12, <2>1, <3>1 DEF AtWork, InTurn, Of
  <2> QED BY <1>12, <2>1, <2>2, <2>3, <2>4 DEF AtWork
<1>13. WorkerOK'
  <2>1. worker' = [worker EXCEPT ![a] = Rest] /\ Rest' = Rest
    BY DEF Over, Rest
  <2> QED BY <1>12, <2>1 DEF IInv, WorkerOK, Rest
<1> QED BY <1>5, <1>6, <1>7, <1>11, <1>13 DEF IInv

(* A worker goes on with its message: it may have got a target.            *)
LEMMA WorkStays ==
  ASSUME IInv, NEW a \in Agent, AtWork(a), UNCHANGED <<bubble, queue>>,
         NEW w \in [pc : {"gate", "prepared", "stream"}, event : Nat \cup {None},
                    target : Nat \cup {None}],
         worker' = [worker EXCEPT ![a] = w], w.event = Event(a),
         w.target # None => w.target \in Sid /\ InTurn(Event(a), w.target)
  PROVE  QueueOK' /\ WorkerOK'
<1>1. Sid' = Sid /\ QueueOK'
  BY DEF IInv, QueueOK, Sid, Placed, Waits
<1>2. worker'[a] = w /\ \A c \in Agent : c # a => worker'[c] = worker[c]
  BY DEF IInv, WorkerOK
<1>3. AtWork(a)'
  BY <1>1, <1>2 DEF AtWork, Placed, Waits, Event, InTurn, Of
<1>4. ASSUME NEW c \in Agent, c # a PROVE worker'[c] = Rest \/ AtWork(c)'
  <2>1. worker[c] = Rest \/ AtWork(c)
    BY DEF IInv, WorkerOK
  <2> QED BY <1>1, <1>2, <1>4, <2>1 DEF AtWork, Placed, Waits, Event, InTurn, Of
<1>5. worker' \in [Agent -> [pc : {"idle", "gate", "prepared", "stream"}, event : Nat \cup {None},
                            target : Nat \cup {None}]]
  BY DEF IInv, WorkerOK
<1> QED BY <1>1, <1>2, <1>3, <1>4, <1>5 DEF WorkerOK, Rest

(***************************************************************************)
(* The steps                                                               *)
(***************************************************************************)
LEMMA TakeStep == ASSUME IInv, NEW a \in Agent, Take(a) PROVE IInv'
<1>1. queue[a] \in Seq(Nat) /\ queue[a] # << >>
  BY DEF IInv, QueueOK, Take
<1>2. PICK m \in Nat : m = Head(queue[a])
  BY <1>1
<1>3. /\ 1 \in DOMAIN queue[a] /\ m = queue[a][1]
      /\ Len(queue[a]) \in Nat \ {0} /\ DOMAIN queue[a] = 1 .. Len(queue[a])
      /\ Tail(queue[a]) \in Seq(Nat) /\ DOMAIN Tail(queue[a]) = 1 .. Len(queue[a]) - 1
      /\ \A i \in DOMAIN Tail(queue[a]) : Tail(queue[a])[i] = queue[a][i + 1]
  BY <1>1, <1>2
<1>4. Placed(m, a) /\ \A i \in DOMAIN Tail(queue[a]) : m < Tail(queue[a])[i]
  BY <1>3 DEF IInv, QueueOK
<1>5. /\ queue' = [queue EXCEPT ![a] = Tail(queue[a])]
      /\ worker' = [worker EXCEPT ![a] = [Rest EXCEPT !.pc = "gate", !.event = m]]
      /\ UNCHANGED <<bubble, streams, active, dedup, crashes>>
  BY <1>2 DEF Take
<1>6. Sid' = Sid /\ \A e, c : Placed(e, c) => Placed(e, c)'
  BY <1>5 DEF Sid, Placed, Waits
<1>7. /\ queue' \in [Agent -> Seq(Nat)] /\ queue'[a] = Tail(queue[a])
      /\ \A c \in Agent : c # a => queue'[c] = queue[c]
  BY <1>3, <1>5 DEF IInv, QueueOK
<1>8. ASSUME NEW c \in Agent
      PROVE  /\ \A i \in DOMAIN queue'[c] : Placed(queue[c][i], c)'
             /\ \A i, j \in DOMAIN queue'[c] : i < j => queue'[c][i] < queue'[c][j]
  <2>1. /\ \A i \in DOMAIN queue[c] : Placed(queue[c][i], c)
        /\ \A i, j \in DOMAIN queue[c] : i < j => queue[c][i] < queue[c][j]
    BY DEF IInv, QueueOK
  <2>2. CASE c # a
    <3>1. queue'[c] = queue[c]
      BY <1>7, <2>2
    <3> QED BY <1>6, <2>1, <3>1 DEF Placed, Waits
  <2>3. CASE c = a
    <3>1. PICK n \in Nat \ {0} : n = Len(queue[a])
      BY <1>3
    <3>2. DOMAIN queue'[a] = 1 .. n - 1 /\ DOMAIN queue[a] = 1 .. n
      BY <1>3, <1>7, <3>1
    <3>3. \A i \in 1 .. n - 1 : i + 1 \in 1 .. n
      OBVIOUS
    <3>4. \A i \in DOMAIN queue'[a] : i + 1 \in DOMAIN queue[a] /\ queue'[a][i] = queue[a][i + 1]
      BY <1>3, <1>7, <3>2, <3>3
    <3>5. \A i, j \in DOMAIN queue'[a] : i < j => i + 1 < j + 1
      BY <3>2
    <3>6. \A i \in DOMAIN queue'[a] : Placed(queue[a][i], a)'
      BY <1>6, <2>1, <2>3, <3>4 DEF Placed, Waits
    <3> QED BY <2>1, <2>3, <3>4, <3>5, <3>6
  <2> QED BY <2>2, <2>3
<1>9. QueueOK'
  BY <1>7, <1>8 DEF QueueOK
<1>10. /\ worker'[a] = [pc |-> "gate", event |-> m, target |-> None]
       /\ \A c \in Agent : c # a => worker'[c] = worker[c]
       /\ worker' \in [Agent -> [pc : {"idle", "gate", "prepared", "stream"}, event : Nat \cup {None},
                                 target : Nat \cup {None}]]
  BY <1>5 DEF IInv, WorkerOK, Rest
<1>11. AtWork(a)'
  BY <1>4, <1>6, <1>7, <1>10 DEF AtWork, Event, Placed, Waits
<1>12. ASSUME NEW c \in Agent, c # a PROVE worker'[c] = Rest \/ AtWork(c)'
  <2>1. worker[c] = Rest \/ AtWork(c)
    BY DEF IInv, WorkerOK
  <2>2. /\ \A e, d : InTurn(e, d) => InTurn(e, d)'
        /\ Event(c)' = Event(c) /\ queue'[c] = queue[c] /\ worker'[c] = worker[c]
    BY <1>5, <1>6, <1>7, <1>10, <1>12 DEF Of, InTurn, Event
  <2> QED BY <1>6, <2>1, <2>2 DEF AtWork, Placed, Waits
<1>13. WorkerOK'
  BY <1>10, <1>11, <1>12 DEF WorkerOK, Rest
<1> QED BY <1>5, <1>9, <1>13, SameBubbles DEF IInv, StreamsOK

LEMMA DropStep == ASSUME IInv, NEW a \in Agent, Drop(a) PROVE IInv'
<1>1. /\ worker[a].pc # "idle" /\ Over(a, "dropped")
      /\ UNCHANGED <<streams, active, dedup, queue, crashes>>
  BY DEF Drop, In
<1>2. DOMAIN streams' \subseteq Sid /\ \A d \in DOMAIN streams' : OwnStream(streams'[d], d)
  BY <1>1 DEF IInv, StreamsOK
<1> QED BY <1>1, <1>2, OverKeeps

LEMMA RefuseStep == ASSUME IInv, NEW a \in Agent, Refuse(a) PROVE IInv'
<1>1. /\ worker[a].pc # "idle" /\ Over(a, "answered")
      /\ SendMessage(Asker(a), Say(a, "notice"))
      /\ UNCHANGED <<active, dedup, queue, crashes>>
  BY DEF Refuse, In
<1>2. DOMAIN streams' \subseteq Sid /\ \A d \in DOMAIN streams' : OwnStream(streams'[d], d)
  BY <1>1, SendKeeps
<1> QED BY <1>1, <1>2, OverKeeps

(* From one stage to the next.                                             *)
LEMMA GotoKeeps ==
  ASSUME IInv, NEW a \in Agent, worker[a].pc # "idle", UNCHANGED <<bubble, queue>>,
         NEW pc \in {"prepared", "stream"}, Goto(a, pc)
  PROVE  QueueOK' /\ WorkerOK'
<1>1. AtWork(a) /\ worker' = [worker EXCEPT ![a].pc = pc]
  BY SaidIsOwn DEF Goto
<1>2. PICK w \in [pc : {"gate", "prepared", "stream"}, event : Nat \cup {None}, target : Nat \cup {None}] :
        w = [worker[a] EXCEPT !.pc = pc]
  BY DEF IInv, WorkerOK
<1>3. w.event = Event(a) /\ w.target = worker[a].target /\ worker' = [worker EXCEPT ![a] = w]
  BY <1>1, <1>2 DEF IInv, WorkerOK, Event
<1> QED BY <1>1, <1>3, WorkStays DEF AtWork

LEMMA PrepareStep == ASSUME IInv, NEW a \in Agent, Prepare(a) PROVE IInv'
<1>1. /\ worker[a].pc # "idle" /\ Goto(a, "prepared")
      /\ SendMessage(Asker(a), Say(a, "passing")) \/ UNCHANGED streams
      /\ UNCHANGED <<bubble, active, dedup, queue, crashes>>
  BY DEF Prepare, In
<1>2. DOMAIN streams' \subseteq Sid /\ \A d \in DOMAIN streams' : OwnStream(streams'[d], d)
  <2>1. CASE SendMessage(Asker(a), Say(a, "passing"))
    BY <1>1, <2>1, SendKeeps
  <2>2. CASE UNCHANGED streams
    BY <2>2 DEF IInv, StreamsOK
  <2> QED BY <1>1, <2>1, <2>2
<1> QED BY <1>1, <1>2, GotoKeeps, SameBubbles

LEMMA ForwardStep == ASSUME IInv, NEW a \in Agent, Forward(a) PROVE IInv'
<1>1. /\ worker[a].pc # "idle" /\ Goto(a, "stream")
      /\ UNCHANGED <<bubble, streams, active, dedup, queue, crashes>>
  BY DEF Forward, In
<1>2. DOMAIN streams' \subseteq Sid /\ \A d \in DOMAIN streams' : OwnStream(streams'[d], d)
  BY <1>1 DEF IInv, StreamsOK
<1> QED BY <1>1, <1>2, GotoKeeps, SameBubbles

(* What an agent sends unasked ends a stream of the user it is meant for,  *)
(* whose bubble counts as alone no more.                                   *)
LEMMA PushStep == ASSUME IInv, NEW u \in User, Push(u) PROVE IInv'
<1>1. PICK sid \in Sid : sid = active[u] /\ sid \in DOMAIN streams /\ Of(sid) = u
  <2>1. active[u] \in DOMAIN streams
    BY DEF Push
  <2>2. active[u] \in Sid
    BY <2>1 DEF IInv, StreamsOK
  <2> QED BY <2>1, <2>2, Ids DEF IInv, ActiveOK
<1>2. PICK t \in Texts : t = Unasked(u) /\ t.what = "push" /\ t.to = u /\ t.of = None
  <2>1. /\ Unasked(u) \in Texts /\ Unasked(u).what = "push"
        /\ Unasked(u).to = u /\ Unasked(u).of = None
    BY DEF Unasked, Texts
  <2> QED BY <2>1
<1>3. /\ Finish(sid, t) /\ bubble' = [bubble EXCEPT ![sid].alone = FALSE]
      /\ UNCHANGED <<active, dedup, queue, worker, crashes>>
  BY <1>1, <1>2 DEF Push, SendMessage, Transient
<1>4. Own(t, sid)
  BY <1>1, <1>2 DEF Own
<1>5. DOMAIN streams' \subseteq Sid /\ \A d \in DOMAIN streams' : OwnStream(streams'[d], d)
  BY <1>3, <1>4, WriteKeeps
<1>6. bubble[sid] \in Bubbles /\ Own(bubble[sid].text, sid)
  BY Ids DEF IInv, BubblesOK
<1>7. PICK b \in Bubbles : b = [bubble[sid] EXCEPT !.alone = FALSE]
  BY <1>6 DEF Bubbles
<1>8. /\ b.agent = bubble[sid].agent /\ b.user = bubble[sid].user
      /\ b.msg = bubble[sid].msg /\ b.turn = bubble[sid].turn
      /\ b.text = bubble[sid].text /\ ~ b.alone
  BY <1>6, <1>7 DEF Bubbles
<1>9. bubble' = [bubble EXCEPT ![sid] = b]
  BY <1>3, <1>7
<1>10. /\ BubblesOK' /\ Sid' = Sid /\ bubble'[sid] = b
       /\ \A e \in Sid : e # sid => bubble'[e] = bubble[e]
       /\ \A e \in Sid : Of(e)' = Of(e) /\ (bubble'[e].alone => bubble[e].alone)
  <2>1. BubblesOK /\ Own(b.text, sid) /\ (b.alone => bubble[sid].alone)
    BY <1>6, <1>8 DEF IInv
  <2> QED BY <1>8, <1>9, <2>1, BubbleChanges
<1>11. \A e \in Sid : /\ bubble'[e].user = bubble[e].user
                      /\ bubble'[e].agent = bubble[e].agent
                      /\ bubble'[e].turn = bubble[e].turn
                      /\ bubble'[e].alone => bubble[e].alone
  BY <1>8, <1>10
<1>12. QueueOK' /\ WorkerOK'
  BY <1>3, <1>10, <1>11, PlacesKept
<1>13. StreamsOK' /\ ActiveOK'
  <2>1. \A e \in Sid : Waits(e)' => Waits(e)
    BY <1>11 DEF Waits
  <2> QED BY <1>3, <1>5, <1>10, <2>1, RestStays
<1> QED BY <1>3, <1>10, <1>12, <1>13 DEF IInv, RestOK

LEMMA ThinkStep == ASSUME IInv, NEW a \in Agent, Think(a) PROVE IInv'
<1>1. PICK sid \in DOMAIN streams : sid = active[Asker(a)]
  BY DEF Think
<1>2. /\ worker[a].pc # "idle" /\ streams' = [streams EXCEPT ![sid].think = Event(a)]
      /\ UNCHANGED <<bubble, active, dedup, queue, worker, crashes>>
  BY <1>1 DEF Think, In
<1>3. sid \in Sid /\ OwnStream(streams[sid], sid) /\ streams[sid] \in Streams
  BY <1>1 DEF IInv, StreamsOK, OwnStream
<1>4. Event(a) \in Sid /\ Event(a) \in Nat /\ InTurn(Event(a), sid)
  BY <1>1, <1>2, <1>3, SaidIsOwn, Ids DEF IInv
<1>5. streams'[sid] = [streams[sid] EXCEPT !.think = Event(a)]
  BY <1>2
<1>6. OwnStream(streams'[sid], sid)
  BY <1>3, <1>4, <1>5 DEF OwnStream, Streams
<1>7. DOMAIN streams' \subseteq Sid /\ \A d \in DOMAIN streams' : OwnStream(streams'[d], d)
  BY <1>2, <1>6 DEF IInv, StreamsOK
<1>8. QueueOK' /\ WorkerOK'
  BY <1>2, PlacesKept DEF Sid
<1> QED BY <1>2, <1>7, <1>8, SameBubbles

LEMMA FirstChunkStep == ASSUME IInv, NEW a \in Agent, FirstChunk(a) PROVE IInv'
<1>1. /\ worker[a].pc = "stream" /\ Write(active[Asker(a)], Say(a, "part"))
      /\ worker' = [worker EXCEPT ![a].target = active[Asker(a)]]
      /\ UNCHANGED <<bubble, active, dedup, queue, crashes>>
  BY DEF FirstChunk, In
<1>2. /\ Say(a, "part") \in Texts /\ AtWork(a) /\ Asker(a) \in User
      /\ active[Asker(a)] \in Sid => Own(Say(a, "part"), active[Asker(a)])
      /\ active[Asker(a)] \in Sid => InTurn(Event(a), active[Asker(a)])
  BY <1>1, SaidIsOwn
<1>3. DOMAIN streams' \subseteq Sid /\ \A d \in DOMAIN streams' : OwnStream(streams'[d], d)
  BY <1>1, <1>2, WriteKeeps
<1>4. active[Asker(a)] \in Sid \cup {None} /\ Sid \subseteq Nat
  BY <1>2, Ids DEF IInv, ActiveOK
<1>5. PICK w \in [pc : {"gate", "prepared", "stream"}, event : Nat \cup {None}, target : Nat \cup {None}] :
        w = [worker[a] EXCEPT !.target = active[Asker(a)]]
  BY <1>1, <1>4 DEF IInv, WorkerOK
<1>6. w.event = Event(a) /\ w.target = active[Asker(a)] /\ worker' = [worker EXCEPT ![a] = w]
  BY <1>1, <1>5 DEF IInv, WorkerOK, Event
<1>7. QueueOK' /\ WorkerOK'
  BY <1>1, <1>2, <1>4, <1>6, WorkStays
<1> QED BY <1>1, <1>3, <1>7, SameBubbles

(* The stream a reply was begun in is one of the user of the message.      *)
LEMMA TargetIsOwn ==
  ASSUME IInv, NEW a \in Agent, worker[a].pc # "idle", worker[a].target # None,
         NEW what \in {"part", "whole"}
  PROVE  worker[a].target \in Sid /\ Own(Say(a, what), worker[a].target)
BY SaidIsOwn DEF AtWork

LEMMA ChunkStep == ASSUME IInv, NEW a \in Agent, Chunk(a) PROVE IInv'
<1>1. /\ worker[a].pc # "idle" /\ worker[a].target # None
      /\ Write(worker[a].target, Say(a, "part"))
      /\ UNCHANGED <<bubble, active, dedup, queue, worker, crashes>>
  BY DEF Chunk, In
<1>2. Say(a, "part") \in Texts /\ Own(Say(a, "part"), worker[a].target)
  BY <1>1, SaidIsOwn, TargetIsOwn
<1>3. DOMAIN streams' \subseteq Sid /\ \A d \in DOMAIN streams' : OwnStream(streams'[d], d)
  BY <1>1, <1>2, WriteKeeps
<1>4. QueueOK' /\ WorkerOK'
  BY <1>1, PlacesKept DEF Sid
<1> QED BY <1>1, <1>3, <1>4, SameBubbles

LEMMA EndTurnStep == ASSUME IInv, NEW a \in Agent, EndTurn(a) PROVE IInv'
<1>1. /\ worker[a].pc # "idle" /\ Over(a, "answered")
      /\ UNCHANGED <<active, dedup, queue, crashes>>
  BY DEF EndTurn, In
<1>2. CASE /\ worker[a].target # None
           /\ Finish(LastTarget(Asker(a), worker[a].target), Say(a, "whole"))
  <2> DEFINE sid == LastTarget(Asker(a), worker[a].target)
  <2>1. sid = worker[a].target \/ sid = active[Asker(a)]
    BY DEF LastTarget
  <2>2. Say(a, "whole") \in Texts /\ (sid \in Sid => Own(Say(a, "whole"), sid))
    <3> HIDE DEF sid
    <3> QED BY <1>1, <1>2, <2>1, SaidIsOwn, TargetIsOwn
  <2>3. DOMAIN streams' \subseteq Sid /\ \A d \in DOMAIN streams' : OwnStream(streams'[d], d)
    BY <1>2, <2>2, WriteKeeps
  <2> QED BY <1>1, <2>3, OverKeeps
<1>3. CASE SendMessage(Asker(a), Say(a, "notice"))
  <2>1. DOMAIN streams' \subseteq Sid /\ \A d \in DOMAIN streams' : OwnStream(streams'[d], d)
    BY <1>1, <1>3, SendKeeps
  <2> QED BY <1>1, <2>1, OverKeeps
<1> QED BY <1>2, <1>3 DEF EndTurn

LEMMA EndsStep ==
  ASSUME IInv, NEW d \in Sid, NEW end \in {"told", "unknown", "stopped"},
         NEW t \in Texts, Own(t, d), Ends(d, end, t)
  PROVE  IInv'
<1>2. bubble[d] \in Bubbles
  BY Ids DEF IInv
<1>3. PICK b \in Bubbles : b = [bubble[d] EXCEPT !.end = end, !.text = t]
  BY <1>2 DEF Bubbles
<1>4. /\ b.agent = bubble[d].agent /\ b.user = bubble[d].user /\ b.msg = bubble[d].msg
      /\ b.turn = bubble[d].turn /\ b.text = t /\ b.alone = bubble[d].alone
  BY <1>2, <1>3 DEF Bubbles
<1>5. bubble' = [bubble EXCEPT ![d] = b] /\ UNCHANGED <<gateway, crashes>>
  BY <1>3 DEF Ends
<1>6. /\ BubblesOK' /\ Sid' = Sid /\ bubble'[d] = b
      /\ \A e \in Sid : e # d => bubble'[e] = bubble[e]
      /\ \A e \in Sid : Of(e)' = Of(e) /\ (bubble'[e].alone => bubble[e].alone)
  <2>1. BubblesOK /\ Own(b.text, d) /\ (b.alone => bubble[d].alone)
    BY <1>4 DEF IInv
  <2> QED BY <1>4, <1>5, <2>1, BubbleChanges
<1>7. \A e \in Sid : /\ bubble'[e].user = bubble[e].user
                     /\ bubble'[e].agent = bubble[e].agent
                     /\ bubble'[e].turn = bubble[e].turn
                     /\ bubble'[e].alone => bubble[e].alone
  BY <1>4, <1>6
<1>8. StreamsOK' /\ ActiveOK'
  <2>1. \A e \in Sid : Waits(e)' => Waits(e)
    BY <1>7 DEF Waits
  <2>2. DOMAIN streams' \subseteq Sid /\ \A e \in DOMAIN streams' : OwnStream(streams'[e], e)
    BY <1>5 DEF IInv, StreamsOK, gateway
  <2> QED BY <1>5, <1>6, <2>1, <2>2, RestStays DEF gateway
<1>9. RestOK'
  BY <1>5, <1>6 DEF IInv, RestOK, gateway
<1>10. QueueOK' /\ WorkerOK'
  BY <1>5, <1>6, <1>7, PlacesKept DEF gateway
<1> QED BY <1>6, <1>8, <1>9, <1>10 DEF IInv

LEMMA RefreshStep ==
  ASSUME IInv, NEW d \in Sid, Refresh(d) \/ PollingStops(d) PROVE IInv'
<1>1. Blank \in Texts /\ Own(Blank, d)
  BY DEF Blank, Texts, Own
<1>2. ASSUME d \in DOMAIN streams
      PROVE  streams[d].text \in Texts /\ Own(streams[d].text, d)
  BY <1>2 DEF IInv, StreamsOK, OwnStream, Streams
<1> QED BY <1>1, <1>2, EndsStep DEF Refresh, PollingStops

(* Nobody waits, no stream is known.                                       *)
LEMMA NothingKept ==
  ASSUME streams = << >>, active = [u \in User |-> None], dedup = {},
         queue = [a \in Agent |-> << >>], worker = [a \in Agent |-> Rest]
  PROVE  StreamsOK /\ ActiveOK /\ QueueOK /\ WorkerOK
BY StreamsAssumption DEF StreamsOK, ActiveOK, QueueOK, WorkerOK, Rest

LEMMA CrashStep == ASSUME IInv, Crash PROVE IInv'
<1>1. /\ Sid = 1 .. Len(bubble) /\ Len(bubble) \in Nat
      /\ \A d \in Sid : bubble[d] \in Bubbles
  BY Ids DEF IInv
<1>2. bubble' = [d \in Sid |-> IF Waits(d) THEN [bubble[d] EXCEPT !.turn = "lost"]
                              ELSE bubble[d]]
  BY DEF Crash
<1>3. \A d \in Sid : /\ bubble'[d] \in Bubbles /\ Of(d)' = Of(d)
                    /\ bubble'[d].text = bubble[d].text /\ bubble'[d].msg = bubble[d].msg
                    /\ bubble'[d].alone = bubble[d].alone
  BY <1>1, <1>2 DEF Of, Bubbles
<1>4. DOMAIN bubble' = 1 .. Len(bubble)
  BY <1>1, <1>2
<1>5. bubble' \in Seq(Bubbles) /\ Len(bubble') = Len(bubble)
  <2>1. bubble' \in [1 .. Len(bubble) -> Bubbles]
    BY <1>1, <1>2, <1>3
  <2> QED BY <1>1, <1>4, <2>1, SeqDef, LenProperties
<1>6. Sid' = Sid
  BY <1>1, <1>4 DEF Sid
<1>7. BubblesOK'
  <2>1. ASSUME NEW d \in Sid PROVE bubble'[d].msg \in Sid' \cup {None} /\ Own(bubble[d].text, d)'
    <3>1. /\ bubble[d].msg \in Sid \cup {None} /\ Own(bubble[d].text, d)
          /\ bubble[d].text \in Texts
      BY <1>1 DEF IInv, BubblesOK, Bubbles
    <3>2. \A t \in Texts : Own(t, d) => Own(t, d)'
      BY <1>3, <1>6, OwnStays
    <3>3. Own(bubble[d].text, d)'
      BY <1>3, <3>1, <3>2 DEF Own
    <3> QED BY <1>3, <1>6, <3>1, <3>3
  <2> QED BY <1>5, <1>6, <2>1 DEF IInv, BubblesOK
<1>8. /\ streams' = << >> /\ active' = [u \in User |-> None] /\ dedup' = {}
      /\ queue' = [a \in Agent |-> << >>] /\ worker' = [a \in Agent |-> Rest]
  BY DEF Crash
<1>9. StreamsOK' /\ ActiveOK' /\ QueueOK' /\ WorkerOK'
  BY <1>8, StreamsAssumption DEF StreamsOK, ActiveOK, QueueOK, WorkerOK, Rest
<1>10. RestOK'
  BY <1>8, StreamsAssumption DEF IInv, RestOK, Crash
<1> QED BY <1>7, <1>9, <1>10 DEF IInv

LEMMA InitHolds == ASSUME Init PROVE IInv
<1>1. BubblesOK
  BY StreamsAssumption DEF Init, BubblesOK, Sid
<1>2. RestOK
  BY StreamsAssumption DEF Init, RestOK
<1> QED BY <1>1, <1>2, NothingKept DEF Init, IInv

LEMMA StepKeeps == ASSUME IInv, [Next]_vars PROVE IInv'
<1>1. CASE \E a \in Agent, u \in User : Send(a, u) \/ NoUrl(a, u)
  BY <1>1, SendStep, NoUrlStep
<1>2. CASE \E m \in Sid : Redeliver(m) \/ Refresh(m) \/ PollingStops(m)
  BY <1>2, RedeliverStep, RefreshStep
<1>6. CASE \E u \in User : Push(u)
  BY <1>6, PushStep
<1>3. CASE \E a \in Agent : Serve(a) \/ Think(a) \/ FirstChunk(a) \/ Chunk(a)
  BY <1>3, TakeStep, DropStep, RefuseStep, PrepareStep, ForwardStep, EndTurnStep, ThinkStep,
     FirstChunkStep, ChunkStep DEF Serve
<1>4. CASE Crash
  BY <1>4, CrashStep
<1>5. CASE UNCHANGED vars
  <2>1. UNCHANGED <<bubble, streams, active, dedup, queue, worker, crashes>>
    BY <1>5 DEF vars, gateway
  <2>2. DOMAIN streams' \subseteq Sid /\ \A d \in DOMAIN streams' : OwnStream(streams'[d], d)
    BY <2>1 DEF IInv, StreamsOK
  <2>3. QueueOK' /\ WorkerOK'
    BY <2>1, PlacesKept DEF Sid
  <2> QED BY <2>1, <2>2, <2>3, SameBubbles
<1> QED BY <1>1, <1>2, <1>3, <1>4, <1>5, <1>6 DEF Next

LEMMA InvariantHolds == Spec => []IInv
BY InitHolds, StepKeeps, PTL DEF Spec

(***************************************************************************)
(* The theorems                                                            *)
(***************************************************************************)

(* Types: a message waits in one place, and says so as long as it does.    *)
THEOREM TypeCorrect == Spec => []TypeOK
<1>1. ASSUME IInv PROVE TypeOK
  <2>1. \A d \in Sid : bubble[d] \in BubbleType
    <3>1. ASSUME NEW d \in Sid PROVE bubble[d].text \in TextType
      <4>1. bubble[d].text \in Texts /\ Own(bubble[d].text, d)
        BY <1>1, Ids DEF IInv, BubblesOK, Bubbles
      <4> QED BY <4>1 DEF TextType, Texts, Own, Blank, InTurn
    <3> QED BY <1>1, <3>1, Ids DEF IInv, BubblesOK, Bubbles, BubbleType
  <2>2. \A d \in DOMAIN streams : streams[d] \in StreamType
    <3>1. ASSUME NEW d \in DOMAIN streams
          PROVE  streams[d].text \in TextType /\ streams[d].think \in Sid \cup {None}
                 /\ streams[d] \in Streams
      <4>1. OwnStream(streams[d], d) /\ streams[d].text \in Texts
        BY <1>1 DEF IInv, StreamsOK, OwnStream, Streams
      <4> QED BY <4>1 DEF TextType, Texts, OwnStream, Own, Blank, InTurn
    <3> QED BY <3>1 DEF Streams, StreamType
  <2>3. \A a \in Agent :
          \/ worker[a] = Rest
          \/ /\ worker[a].pc \in {"gate", "prepared", "stream"}
             /\ worker[a].target \in Sid \cup {None}
             /\ Event(a) \in Sid /\ Waits(Event(a))
    BY <1>1 DEF IInv, WorkerOK, AtWork, Placed
  <2> QED BY <1>1, <2>1, <2>2, <2>3
          DEF IInv, TypeOK, BubblesOK, StreamsOK, ActiveOK, QueueOK, Placed, RestOK
<1> QED BY <1>1, InvariantHolds, PTL

(* What is meant for one user reaches no stream and no bubble of another,  *)
(* and nothing of the turn of a message the bubbles of another chat unless *)
(* the user wrote there before the turn was over, whatever streams are     *)
(* opened, replaced, forgotten or written late.                            *)
THEOREM RepliesStayWithUser == Spec => []OwnUserOnly
<1>1. ASSUME IInv PROVE OwnUserOnly
  <2>1. \A d \in Sid : \A e : InTurn(e, d) => InPlace(e, d)
    BY DEF InTurn, InPlace
  <2>2. ASSUME NEW d \in Sid, NEW t, Own(t, d) PROVE MayShow(t, d)
    BY <2>1, <2>2 DEF Own, MayShow, Blank
  <2> QED BY <1>1, <2>1, <2>2 DEF IInv, BubblesOK, StreamsOK, OwnStream, OwnUserOnly
<1> QED BY <1>1, InvariantHolds, PTL

(***************************************************************************)
(* A user who waits for the answer gets it in the bubble of the question   *)
(*                                                                         *)
(* That needs two more facts: that a worker whose message is the user's    *)
(* last one began the reply in no other stream than its own; and that as   *)
(* long as the gateway never restarted, a bubble that polls has its stream.*)
(***************************************************************************)
BegunInOwn ==
  \A a \in Agent :
    worker[a].pc # "idle" /\ worker[a].target # None /\ active[Asker(a)] = Event(a)
      => worker[a].target = Event(a)

Unlost ==
  crashes = 0 =>
    \A d \in Sid : bubble[d].end # "unknown" /\ (Polls(d) => d \in DOMAIN streams)

(* AnswersItself, of one bubble.                                           *)
Answers(d) ==
  Alone(d) /\ bubble[d].turn \in {"waits", "answered"} =>
    /\ bubble[d].end = "told" => ToldAll(d)
    /\ d \in DOMAIN streams =>
         /\ {streams[d].text.of, streams[d].think} \subseteq {d, None}
         /\ streams[d].done => Final(streams[d].text) /\ ~ Waits(d)
         /\ bubble[d].turn = "answered" => streams[d].done

AInv == IInv /\ BegunInOwn /\ \A d \in Sid : Answers(d)

(* While the last bubble of a user is one that was opened alone, its       *)
(* message is the only one of the user that may still wait, whatever the   *)
(* agent.                                                                  *)
LEMMA OnlyOneWaits ==
  ASSUME IInv, NEW d \in Sid, Alone(d), NEW e \in Sid, Of(e) = Of(d), Waits(e)
  PROVE  e = d
<1>1. Of(d) \in User /\ active[Of(d)] = d /\ d # None
  BY Ids DEF IInv, Alone, Of, Bubbles
<1> QED BY <1>1 DEF IInv, ActiveOK, InTurn, Alone

(* A bubble is as alone as its user's last one.                            *)
LEMMA AloneStays ==
  ASSUME Sid' = Sid, UNCHANGED active,
         \A e \in Sid : Of(e)' = Of(e) /\ bubble'[e].alone = bubble[e].alone
  PROVE  \A d \in Sid : Alone(d)' <=> Alone(d)
BY DEF Alone, Of

(* A stream and a bubble that nothing touches keep their answer.           *)
LEMMA AnswerStays ==
  ASSUME NEW d, Answers(d), bubble'[d] = bubble[d], Alone(d)' => Alone(d),
         d \in DOMAIN streams' => d \in DOMAIN streams /\ streams'[d] = streams[d]
  PROVE  Answers(d)'
BY DEF Answers, Waits, Final, ToldAll

(* A worker that may write into the last bubble of a user, opened alone,   *)
(* is the one that handles its message, and began no reply elsewhere.      *)
LEMMA OwnTurn ==
  ASSUME AInv, NEW a \in Agent, worker[a].pc # "idle", NEW d \in Sid, Alone(d),
         d \in {active[Asker(a)], worker[a].target, Event(a)}
  PROVE  /\ Event(a) = d /\ Waits(d) /\ active[Asker(a)] = d
         /\ worker[a].target \in {d, None}
<1>1. /\ AtWork(a) /\ Event(a) \in Sid /\ Waits(Event(a)) /\ Asker(a) \in User
      /\ active[Asker(a)] \in Sid => Of(active[Asker(a)]) = Asker(a)
  BY SaidIsOwn DEF AInv, AtWork, Placed, InTurn, Asker
<1>2. None \notin Sid
  BY Ids DEF AInv, IInv
<1>3. Of(d) = Asker(a)
  BY <1>1, <1>2 DEF AtWork, Asker, InTurn
<1>4. Event(a) = d
  BY <1>1, <1>3, OnlyOneWaits DEF AInv, Asker
<1>5. active[Asker(a)] = d
  BY <1>3 DEF Alone
<1> QED BY <1>1, <1>4, <1>5 DEF AInv, BegunInOwn

(***************************************************************************)
(* The steps of a worker                                                   *)
(***************************************************************************)

(* A worker writes into one stream, the active one of the user or the one  *)
(* it began the reply in; if its own message came alone, that is enough.   *)
LEMMA OtherAnswers ==
  ASSUME AInv, NEW a \in Agent, worker[a].pc # "idle", Sid' = Sid, UNCHANGED active,
         NEW sid \in {active[Asker(a)], worker[a].target},
         DOMAIN streams' = DOMAIN streams,
         \A e \in DOMAIN streams : e # sid => streams'[e] = streams[e],
         NEW m, m = Event(a), \A e \in Sid : e # m => bubble'[e] = bubble[e],
         NEW turn \in {"waits", "answered", "dropped"},
         bubble'[m] = [bubble[m] EXCEPT !.turn = turn],
         Alone(m) => Answers(m)'
  PROVE  \A d \in Sid' : Answers(d)'
<1>1. m \in Sid /\ Waits(m) /\ bubble[m] \in Bubbles
  BY SaidIsOwn, Ids DEF AInv, IInv, AtWork, Placed
<1>2. bubble'[m].user = bubble[m].user /\ bubble'[m].alone = bubble[m].alone
  BY <1>1 DEF Bubbles
<1>3. \A e \in Sid : Of(e)' = Of(e) /\ bubble'[e].alone = bubble[e].alone
  BY <1>1, <1>2 DEF Of
<1>4. \A d \in Sid : Alone(d)' <=> Alone(d)
  BY <1>3, AloneStays
<1>5. ASSUME NEW d \in Sid PROVE Answers(d)'
  <2>2. CASE ~ Alone(d)
    BY <1>4, <2>2 DEF Answers
  <2>3. CASE Alone(d) /\ d = m
    BY <2>3
  <2>4. CASE Alone(d) /\ d # m
    <3>1. d # sid
      BY <2>4, OwnTurn
    <3>2. /\ bubble'[d] = bubble[d]
          /\ d \in DOMAIN streams' => d \in DOMAIN streams /\ streams'[d] = streams[d]
      BY <2>4, <3>1
    <3> QED BY <1>4, <3>2, AnswerStays DEF AInv
  <2> QED BY <2>2, <2>3, <2>4
<1> QED BY <1>5

(* The stream of a message at work that came alone: it says nothing but    *)
(* what belongs to its message and is not done.                            *)
LEMMA AtWorkAlone ==
  ASSUME AInv, NEW a \in Agent, worker[a].pc # "idle",
         NEW m, m = Event(a), Alone(m)
  PROVE  /\ m \in Sid /\ Waits(m) /\ bubble[m] \in Bubbles
         /\ bubble[m].end = "told" => ToldAll(m)
         /\ active[Asker(a)] = m /\ worker[a].target \in {m, None}
         /\ m \in DOMAIN streams =>
              /\ streams[m] \in Streams /\ ~ streams[m].done
              /\ {streams[m].text.of, streams[m].think} \subseteq {m, None}
<1>1. /\ m \in Sid /\ bubble[m] \in Bubbles
      /\ m \in DOMAIN streams => streams[m] \in Streams
  BY SaidIsOwn, Ids DEF AInv, IInv, StreamsOK, OwnStream
<1>2. Waits(m) /\ active[Asker(a)] = m /\ worker[a].target \in {m, None}
  BY <1>1, OwnTurn
<1>3. Answers(m)
  BY <1>1 DEF AInv
<1> QED BY <1>1, <1>2, <1>3 DEF Answers, Waits

(* It goes on: something of its own is written, and it is not done.        *)
LEMMA GoesOn ==
  ASSUME AInv, NEW a \in Agent, worker[a].pc # "idle", UNCHANGED bubble,
         NEW m, m = Event(a), Alone(m), DOMAIN streams' = DOMAIN streams,
         m \in DOMAIN streams =>
           /\ streams'[m].done = streams[m].done
           /\ {streams'[m].text.of, streams'[m].think} \subseteq {m, None}
  PROVE  Answers(m)'
<1>1. /\ Waits(m) /\ (bubble[m].end = "told" => ToldAll(m))
      /\ m \in DOMAIN streams => ~ streams'[m].done
  BY AtWorkAlone
<1>2. bubble'[m].turn # "answered"
  BY AtWorkAlone DEF Waits
<1>3. bubble'[m].end = "told" => ToldAll(m)'
  BY AtWorkAlone DEF ToldAll, Final
<1> QED BY <1>1, <1>2, <1>3 DEF Answers, Final

(* It is over: the stream is done with an answer of its own.               *)
LEMMA IsOver ==
  ASSUME AInv, NEW a \in Agent, worker[a].pc # "idle",
         NEW m, m = Event(a), Alone(m), DOMAIN streams' = DOMAIN streams,
         bubble'[m] = [bubble[m] EXCEPT !.turn = "answered"],
         NEW what \in {"whole", "notice"},
         m \in DOMAIN streams => streams'[m] = Finished(streams[m], Say(a, what))
  PROVE  Answers(m)'
<1>1. /\ bubble[m] \in Bubbles /\ (bubble[m].end = "told" => ToldAll(m))
      /\ m \in DOMAIN streams => streams[m] \in Streams /\ streams[m].think \in {m, None}
  BY AtWorkAlone
<1>2. /\ bubble'[m].turn = "answered" /\ bubble'[m].text = bubble[m].text
      /\ bubble'[m].end = bubble[m].end
  BY <1>1 DEF Bubbles
<1>3. ASSUME m \in DOMAIN streams
      PROVE  /\ streams'[m].done /\ streams'[m].think = streams[m].think
             /\ streams'[m].text.of = m /\ Final(streams'[m].text)
  <2>1. PICK t : t = Say(a, what) /\ t.of = m /\ t.what = what
    BY DEF Say, Says
  <2>2. PICK s \in Streams : s = streams[m] /\ streams'[m] = [s EXCEPT !.text = t, !.done = TRUE]
    BY <1>1, <1>3, <2>1 DEF Finished
  <2>3. streams'[m].done /\ streams'[m].think = s.think /\ streams'[m].text = t
    BY <2>2 DEF Streams
  <2> QED BY <2>1, <2>2, <2>3 DEF Final
<1>4. bubble'[m].end = "told" => ToldAll(m)'
  BY <1>1, <1>2 DEF ToldAll, Final
<1> QED BY <1>1, <1>2, <1>3, <1>4 DEF Answers, Waits, Final

(* Nothing is written and nobody's turn is over.                           *)
LEMMA NothingWritten ==
  ASSUME AInv, UNCHANGED <<bubble, streams, active>>
  PROVE  \A d \in Sid' : Answers(d)'
<1>1. Sid' = Sid /\ \A d \in Sid : Alone(d)' <=> Alone(d)
  BY AloneStays DEF Sid, Of
<1> QED BY <1>1, AnswerStays DEF AInv

(* A reply begun in its own stream stays there: a user's later callback    *)
(* makes another stream the active one, and for ever.                      *)
LEMMA BegunStays ==
  ASSUME AInv, \A e \in Sid : Of(e)' = Of(e),
         \A u \in User : active'[u] = active[u] \/ active'[u] \notin Sid,
         NEW c \in Agent,
         \/ worker'[c].pc = "idle" \/ worker'[c].target = None
         \/ /\ worker[c].pc # "idle" /\ worker'[c].event = worker[c].event
            /\ \/ worker'[c].target = worker[c].target
               \/ worker'[c].target = active[Asker(c)] /\ UNCHANGED active,
         worker'[c].pc # "idle", worker'[c].target # None,
         active'[Asker(c)'] = Event(c)'
  PROVE  worker'[c].target = Event(c)'
<1>1. /\ Event(c) \in Sid /\ Asker(c) \in User /\ AtWork(c)
  BY SaidIsOwn DEF AInv
<1>2. Event(c)' = Event(c) /\ Asker(c)' = Asker(c)
  BY <1>1 DEF Event, Asker, Of
<1>3. active[Asker(c)] = Event(c) /\ active'[Asker(c)] = active[Asker(c)]
  BY <1>1, <1>2
<1>4. CASE worker'[c].target = worker[c].target
  BY <1>2, <1>3, <1>4 DEF AInv, BegunInOwn
<1>5. CASE worker'[c].target = active[Asker(c)] /\ UNCHANGED active
  BY <1>2, <1>3, <1>5
<1> QED BY <1>4, <1>5

(* What it means that a turn is over.                                      *)
LEMMA OverMeans ==
  ASSUME AInv, NEW a \in Agent, worker[a].pc # "idle", UNCHANGED active,
         NEW turn \in {"answered", "dropped"}, Over(a, turn),
         NEW m, m = Event(a)
  PROVE  /\ m \in Sid /\ Sid' = Sid /\ BegunInOwn'
         /\ \A e \in Sid : e # m => bubble'[e] = bubble[e]
         /\ bubble'[m] = [bubble[m] EXCEPT !.turn = turn] /\ bubble'[m].turn = turn
<1>1. m \in Sid /\ bubble[m] \in Bubbles
  BY SaidIsOwn, Ids DEF AInv, IInv
<1>2. bubble' = [bubble EXCEPT ![m].turn = turn]
  BY DEF Over
<1>3. /\ Sid' = Sid /\ \A e \in Sid : e # m => bubble'[e] = bubble[e]
      /\ bubble'[m] = [bubble[m] EXCEPT !.turn = turn]
  BY <1>1, <1>2 DEF Sid
<1>4. bubble'[m].turn = turn /\ bubble'[m].user = bubble[m].user
  BY <1>1, <1>3 DEF Bubbles
<1>5. \A e \in Sid : Of(e)' = Of(e)
  BY <1>3, <1>4 DEF Of
<1>6. /\ worker'[a].pc = "idle" /\ \A c \in Agent : c # a => worker'[c] = worker[c]
  BY DEF Over, Rest, AInv, IInv, WorkerOK
<1>7. BegunInOwn'
  <2>1. ASSUME NEW c \in Agent, worker'[c].pc # "idle", worker'[c].target # None,
               active'[Asker(c)'] = Event(c)'
        PROVE  worker'[c].target = Event(c)'
    <3>1. worker[c].pc # "idle" /\ worker'[c] = worker[c]
      BY <1>6, <2>1
    <3> QED BY <1>5, <2>1, <3>1, BegunStays
  <2> QED BY <2>1 DEF BegunInOwn
<1> QED BY <1>1, <1>3, <1>4, <1>7

(* What it means to write into a stream, or to end it.                     *)
LEMMA WriteMeans ==
  ASSUME AInv, NEW sid, NEW t, Write(sid, t) \/ Finish(sid, t)
  PROVE  /\ DOMAIN streams' = DOMAIN streams
         /\ \A e \in DOMAIN streams : e # sid => streams'[e] = streams[e]
         /\ sid \in DOMAIN streams =>
              /\ Write(sid, t) => streams'[sid] = [streams[sid] EXCEPT !.text = t]
              /\ Finish(sid, t) => streams'[sid] = Finished(streams[sid], t)
BY DEF Write, Finish

(* A worker writes and goes on.                                            *)
LEMMA WritesOn ==
  ASSUME AInv, NEW a \in Agent, worker[a].pc # "idle", UNCHANGED <<bubble, active>>,
         NEW sid \in {active[Asker(a)], worker[a].target}, sid # None \/ sid = active[Asker(a)],
         NEW what \in {"passing", "part"}, Write(sid, Say(a, what))
  PROVE  \A d \in Sid' : Answers(d)'
<1>1. PICK m \in Sid : m = Event(a) /\ bubble[m] \in Bubbles /\ Waits(m)
  BY SaidIsOwn, Ids DEF AInv, IInv, AtWork, Placed
<1>2. /\ DOMAIN streams' = DOMAIN streams
      /\ \A e \in DOMAIN streams : e # sid => streams'[e] = streams[e]
      /\ sid \in DOMAIN streams => streams'[sid] = [streams[sid] EXCEPT !.text = Say(a, what)]
  BY WriteMeans
<1>3. ASSUME Alone(m) PROVE Answers(m)'
  <2>1. sid = m
    BY <1>1, <1>3, AtWorkAlone
  <2>2. ASSUME m \in DOMAIN streams
        PROVE  /\ streams'[m].done = streams[m].done
               /\ {streams'[m].text.of, streams'[m].think} \subseteq {m, None}
    <3>1. streams[m] \in Streams /\ streams[m].think \in {m, None}
      BY <1>1, <1>3, <2>2, AtWorkAlone
    <3> QED BY <1>1, <1>2, <2>1, <2>2, <3>1 DEF Streams, Say, Says
  <2> QED BY <1>1, <1>2, <1>3, <2>2, GoesOn
<1>4. bubble'[m] = [bubble[m] EXCEPT !.turn = "waits"] /\ Sid' = Sid
  BY <1>1 DEF Waits, Bubbles, Sid
<1> QED BY <1>1, <1>2, <1>3, <1>4, OtherAnswers

(* A worker writes the end and the turn is over.                           *)
LEMMA WritesEnd ==
  ASSUME AInv, NEW a \in Agent, worker[a].pc # "idle", UNCHANGED active,
         NEW sid \in {active[Asker(a)], worker[a].target}, sid # None \/ sid = active[Asker(a)],
         NEW what \in {"whole", "notice"}, Finish(sid, Say(a, what)), Over(a, "answered")
  PROVE  \A d \in Sid' : Answers(d)'
<1>1. PICK m \in Sid :
        /\ m = Event(a) /\ Sid' = Sid /\ \A e \in Sid : e # m => bubble'[e] = bubble[e]
        /\ bubble'[m] = [bubble[m] EXCEPT !.turn = "answered"]
  BY OverMeans
<1>2. /\ DOMAIN streams' = DOMAIN streams
      /\ \A e \in DOMAIN streams : e # sid => streams'[e] = streams[e]
      /\ sid \in DOMAIN streams => streams'[sid] = Finished(streams[sid], Say(a, what))
  BY WriteMeans
<1>3. ASSUME Alone(m) PROVE Answers(m)'
  <2>1. sid = m
    BY <1>1, <1>3, AtWorkAlone
  <2> QED BY <1>1, <1>2, <1>3, <2>1, IsOver
<1> QED BY <1>1, <1>2, <1>3, OtherAnswers

LEMMA TakeAnswers ==
  ASSUME AInv, NEW a \in Agent, Take(a)
  PROVE  BegunInOwn' /\ \A d \in Sid' : Answers(d)'
<1>1. \A d \in Sid' : Answers(d)'
  BY NothingWritten DEF Take
<1>2. /\ worker'[a].target = None /\ \A c \in Agent : c # a => worker'[c] = worker[c]
      /\ UNCHANGED <<bubble, active>>
  BY DEF Take, Rest, AInv, IInv, WorkerOK
<1>3. ASSUME NEW c \in Agent, worker'[c].pc # "idle", worker'[c].target # None,
             active'[Asker(c)'] = Event(c)'
      PROVE  worker'[c].target = Event(c)'
  <2>1. worker[c].pc # "idle" /\ worker'[c] = worker[c]
    BY <1>2, <1>3
  <2> QED BY <1>2, <1>3, <2>1, BegunStays DEF Of
<1> QED BY <1>1, <1>3 DEF BegunInOwn

(* The worker goes on, and may have begun the reply in the active stream.  *)
LEMMA GoingOn ==
  ASSUME AInv, NEW a \in Agent, worker[a].pc # "idle", UNCHANGED <<bubble, active>>,
         \A c \in Agent : c # a => worker'[c] = worker[c],
         worker'[a].event = worker[a].event,
         worker'[a].target \in {worker[a].target, active[Asker(a)]}
  PROVE  BegunInOwn'
<1>1. ASSUME NEW c \in Agent, worker'[c].pc # "idle", worker'[c].target # None,
             active'[Asker(c)'] = Event(c)'
      PROVE  worker'[c].target = Event(c)'
  <2>1. /\ worker[c].pc # "idle" /\ worker'[c].event = worker[c].event
        /\ worker'[c].target = worker[c].target \/ worker'[c].target = active[Asker(c)]
    BY <1>1
  <2>2. \A e \in Sid : Of(e)' = Of(e)
    BY DEF Of
  <2> QED BY <1>1, <2>1, <2>2, BegunStays
<1> QED BY <1>1 DEF BegunInOwn

LEMMA DropAnswers ==
  ASSUME AInv, NEW a \in Agent, Drop(a)
  PROVE  BegunInOwn' /\ \A d \in Sid' : Answers(d)'
<1>1. worker[a].pc # "idle" /\ Over(a, "dropped") /\ UNCHANGED <<streams, active>>
  BY DEF Drop, In
<1>2. PICK m \in Sid :
        /\ m = Event(a) /\ Sid' = Sid /\ \A e \in Sid : e # m => bubble'[e] = bubble[e]
        /\ bubble'[m] = [bubble[m] EXCEPT !.turn = "dropped"] /\ bubble'[m].turn = "dropped"
        /\ BegunInOwn'
  BY <1>1, OverMeans
<1>3. Answers(m)'
  BY <1>2 DEF Answers
<1>4. PICK sid : sid = active[Asker(a)]
  OBVIOUS
<1>5. DOMAIN streams' = DOMAIN streams
      /\ \A e \in DOMAIN streams : e # sid => streams'[e] = streams[e]
  BY <1>1
<1> QED BY <1>1, <1>2, <1>3, <1>4, <1>5, OtherAnswers

LEMMA RefuseAnswers ==
  ASSUME AInv, NEW a \in Agent, Refuse(a)
  PROVE  BegunInOwn' /\ \A d \in Sid' : Answers(d)'
<1>1. /\ worker[a].pc # "idle" /\ Over(a, "answered") /\ UNCHANGED active
      /\ SendMessage(Asker(a), Say(a, "notice"))
  BY DEF Refuse, In
<1>2. Finish(active[Asker(a)], Say(a, "notice"))
  BY <1>1 DEF SendMessage, Transient, Say, Says
<1>3. \A d \in Sid' : Answers(d)'
  BY <1>1, <1>2, WritesEnd
<1>4. BegunInOwn'
  BY <1>1, OverMeans
<1> QED BY <1>3, <1>4

LEMMA PrepareAnswers ==
  ASSUME AInv, NEW a \in Agent, Prepare(a)
  PROVE  BegunInOwn' /\ \A d \in Sid' : Answers(d)'
<1>1. /\ worker[a].pc # "idle" /\ UNCHANGED <<bubble, active>>
      /\ SendMessage(Asker(a), Say(a, "passing")) \/ UNCHANGED streams
      /\ worker' = [worker EXCEPT ![a].pc = "prepared"]
  BY DEF Prepare, In, Goto
<1>2. BegunInOwn'
  BY <1>1, GoingOn DEF AInv, IInv, WorkerOK
<1>3. SendMessage(Asker(a), Say(a, "passing")) => Write(active[Asker(a)], Say(a, "passing"))
  BY DEF SendMessage, Transient, Say, Says
<1> QED BY <1>1, <1>2, <1>3, WritesOn, NothingWritten

LEMMA ForwardAnswers ==
  ASSUME AInv, NEW a \in Agent, Forward(a)
  PROVE  BegunInOwn' /\ \A d \in Sid' : Answers(d)'
<1>1. /\ worker[a].pc # "idle" /\ UNCHANGED <<bubble, streams, active>>
      /\ worker' = [worker EXCEPT ![a].pc = "stream"]
  BY DEF Forward, In, Goto
<1>2. BegunInOwn'
  BY <1>1, GoingOn DEF AInv, IInv, WorkerOK
<1> QED BY <1>1, <1>2, NothingWritten

LEMMA ThinkAnswers ==
  ASSUME AInv, NEW a \in Agent, Think(a)
  PROVE  BegunInOwn' /\ \A d \in Sid' : Answers(d)'
<1>1. PICK sid \in DOMAIN streams : sid = active[Asker(a)]
  BY DEF Think
<1>2. /\ worker[a].pc # "idle" /\ streams' = [streams EXCEPT ![sid].think = Event(a)]
      /\ UNCHANGED <<bubble, active, worker>>
  BY <1>1 DEF Think, In
<1>3. BegunInOwn'
  BY <1>2, GoingOn
<1>4. PICK m \in Sid : m = Event(a) /\ bubble[m] \in Bubbles /\ Waits(m)
  BY <1>2, SaidIsOwn, Ids DEF AInv, IInv, AtWork, Placed
<1>5. DOMAIN streams' = DOMAIN streams
      /\ \A e \in DOMAIN streams : e # sid => streams'[e] = streams[e]
  BY <1>2
<1>6. ASSUME Alone(m) PROVE Answers(m)'
  <2>1. sid = m /\ streams[m] \in Streams /\ streams[m].text.of \in {m, None}
    BY <1>1, <1>2, <1>4, <1>6, AtWorkAlone
  <2>2. streams'[m] = [streams[m] EXCEPT !.think = m]
    BY <1>2, <1>4, <2>1
  <2>3. /\ streams'[m].done = streams[m].done /\ streams'[m].think = m
        /\ streams'[m].text = streams[m].text
    BY <2>1, <2>2 DEF Streams
  <2> QED BY <1>2, <1>4, <1>5, <1>6, <2>1, <2>3, GoesOn
<1>7. bubble'[m] = [bubble[m] EXCEPT !.turn = "waits"] /\ Sid' = Sid
  BY <1>2, <1>4 DEF Waits, Bubbles, Sid
<1> QED BY <1>1, <1>2, <1>3, <1>4, <1>5, <1>6, <1>7, OtherAnswers

LEMMA FirstChunkAnswers ==
  ASSUME AInv, NEW a \in Agent, FirstChunk(a)
  PROVE  BegunInOwn' /\ \A d \in Sid' : Answers(d)'
<1>1. /\ worker[a].pc # "idle" /\ UNCHANGED <<bubble, active>>
      /\ Write(active[Asker(a)], Say(a, "part"))
      /\ worker' = [worker EXCEPT ![a].target = active[Asker(a)]]
  BY DEF FirstChunk, In
<1>2. /\ worker'[a].event = worker[a].event /\ worker'[a].target = active[Asker(a)]
      /\ \A c \in Agent : c # a => worker'[c] = worker[c]
  BY <1>1 DEF AInv, IInv, WorkerOK
<1>3. BegunInOwn'
  BY <1>1, <1>2, GoingOn
<1>4. \A d \in Sid' : Answers(d)'
  BY <1>1, WritesOn
<1> QED BY <1>3, <1>4

LEMMA ChunkAnswers ==
  ASSUME AInv, NEW a \in Agent, Chunk(a)
  PROVE  BegunInOwn' /\ \A d \in Sid' : Answers(d)'
<1>1. /\ worker[a].pc # "idle" /\ UNCHANGED <<bubble, active, worker>>
      /\ worker[a].target # None /\ Write(worker[a].target, Say(a, "part"))
  BY DEF Chunk, In
<1>2. BegunInOwn'
  BY <1>1, GoingOn
<1>3. \A d \in Sid' : Answers(d)'
  BY <1>1, WritesOn
<1> QED BY <1>2, <1>3

(* replace_with_response: the end goes to the stream begun in, or to the   *)
(* active one when that is forgotten.                                      *)
LEMMA EndTurnAnswers ==
  ASSUME AInv, NEW a \in Agent, EndTurn(a)
  PROVE  BegunInOwn' /\ \A d \in Sid' : Answers(d)'
<1>1. worker[a].pc # "idle" /\ Over(a, "answered") /\ UNCHANGED active
  BY DEF EndTurn, In
<1>2. BegunInOwn'
  BY <1>1, OverMeans
<1>3. CASE /\ worker[a].target # None
           /\ Finish(LastTarget(Asker(a), worker[a].target), Say(a, "whole"))
  <2>1. PICK sid : sid = LastTarget(Asker(a), worker[a].target)
    OBVIOUS
  <2>2. sid \in {active[Asker(a)], worker[a].target} /\ (sid # None \/ sid = active[Asker(a)])
    BY <1>3, <2>1 DEF LastTarget
  <2>3. \A d \in Sid' : Answers(d)'
    BY <1>1, <1>3, <2>1, <2>2, WritesEnd
  <2> QED BY <1>2, <2>3
<1>4. CASE SendMessage(Asker(a), Say(a, "notice"))
  <2>1. Finish(active[Asker(a)], Say(a, "notice"))
    BY <1>4 DEF SendMessage, Transient, Say, Says
  <2>2. \A d \in Sid' : Answers(d)'
    BY <1>1, <2>1, WritesEnd
  <2> QED BY <1>2, <2>2
<1> QED BY <1>3, <1>4 DEF EndTurn

(***************************************************************************)
(* The other steps                                                         *)
(***************************************************************************)

(* A callback opens a stream that says nothing; the stream before it is    *)
(* the last one of the user no more.                                       *)
LEMMA OpenAnswers ==
  ASSUME AInv, NEW b, Opens(b), b.turn \in {"waits", "dropped"}, b.end \in {"no", "stopped"},
         NEW dd \in Nat, Open(b, dd)
  PROVE  BegunInOwn' /\ \A d \in Sid' : Answers(d)'
<1>1. PICK sid \in Nat : sid = Len(bubble) + 1
  BY Ids DEF AInv, IInv
<1>2. /\ Sid' = Sid \cup {sid} /\ sid \notin Sid /\ bubble'[sid] = b
      /\ \A e \in Sid : bubble'[e] = bubble[e]
      /\ UNCHANGED worker
  BY <1>1, OpenAdds DEF AInv
<1>3. PICK u \in User : u = b.user
  BY DEF Opens, Bubbles
<1>5. /\ active' = [active EXCEPT ![u] = sid] /\ streams'[sid] = Fresh
      /\ \A e \in DOMAIN streams' : e # sid => e \in DOMAIN streams /\ streams'[e] = streams[e]
  BY <1>1, <1>3 DEF Open, Create, Younger
<1>6. /\ active'[u] = sid /\ \A v \in User : v # u => active'[v] = active[v]
  BY <1>5 DEF AInv, IInv, ActiveOK
<1>7. \A e \in Sid : Of(e)' = Of(e) /\ Of(e) \in User
  <2>1. \A e \in Sid : bubble[e] \in Bubbles
    BY Ids DEF AInv, IInv
  <2> QED BY <1>2, <2>1 DEF Of, Bubbles
<1>8. \A d \in Sid : Alone(d)' <=> Alone(d) /\ Of(d) # u
  <2>1. \A d \in Sid : Alone(d)' <=> bubble[d].alone /\ active'[Of(d)] = d
    BY <1>2, <1>7 DEF Alone
  <2> QED BY <1>2, <1>6, <1>7, <2>1 DEF Alone
<1>10. BegunInOwn'
  <2>1. ASSUME NEW c \in Agent, worker'[c].pc # "idle", worker'[c].target # None,
               active'[Asker(c)'] = Event(c)'
        PROVE  worker'[c].target = Event(c)'
    <3>1. \A v \in User : active'[v] = active[v] \/ active'[v] \notin Sid
      BY <1>2, <1>6
    <3> QED BY <1>2, <1>7, <2>1, <3>1, BegunStays
  <2> QED BY <2>1 DEF BegunInOwn
<1>11. ASSUME NEW d \in Sid' PROVE Answers(d)'
  <2>1. CASE d = sid
    BY <1>2, <1>5, <2>1 DEF Answers, Waits, Fresh, Blank, Final
  <2>2. CASE d # sid
    <3>1. d \in Sid
      BY <1>2, <2>2
    <3> QED BY <1>2, <1>5, <1>8, <2>2, <3>1, AnswerStays DEF AInv
  <2> QED BY <2>1, <2>2
<1> QED BY <1>10, <1>11

(* Every callback opens a stream with such a bubble.                       *)
LEMMA CallbackOpens ==
  ASSUME IInv, NEW a \in Agent, NEW u \in User
  PROVE  /\ Send(a, u) \/ NoUrl(a, u) => \E b \in Bubbles, d \in Nat :
              /\ Opens(b) /\ Open(b, d)
              /\ b.turn \in {"waits", "dropped"} /\ b.end \in {"no", "stopped"}
         /\ \A m \in Sid : Redeliver(m) => \E b \in Bubbles, d \in Nat :
              /\ Opens(b) /\ Open(b, d)
              /\ b.turn \in {"waits", "dropped"} /\ b.end \in {"no", "stopped"}
<1> DEFINE Opened == \E b \in Bubbles, d \in Nat :
              /\ Opens(b) /\ Open(b, d)
              /\ b.turn \in {"waits", "dropped"} /\ b.end \in {"no", "stopped"}
<1>1. Len(bubble) \in Nat /\ Len(bubble) + 1 \in 1 .. Len(bubble) + 1
  BY Ids DEF IInv
<1>2. ASSUME NEW x \in Agent, NEW v \in User, NEW c \in Chat,
             NEW m \in 1 .. Len(bubble) + 1 \cup {None},
             NEW turn \in {"waits", "dropped"}, NEW end \in {"no", "stopped"},
             NEW d \in Nat, Open(Bubble(x, v, c, m, turn, end), d)
      PROVE  Opened
  <2>1. PICK b : b = Bubble(x, v, c, m, turn, end)
    OBVIOUS
  <2>2. Opens(b) /\ b.turn = turn /\ b.end = end /\ b \in Bubbles
    BY <1>1, <2>1, NewBubble DEF Opens
  <2> QED BY <1>2, <2>1, <2>2
<1>3. ASSUME NEW x \in Agent, NEW v \in User, NEW c \in Chat,
             NEW m \in 1 .. Len(bubble) + 1, Accept(x, v, c, m)
      PROVE  Opened
  <2>1. PICK d \in Nat : Open(Bubble(x, v, c, m, "waits", "no"), d)
    BY <1>1, <1>3 DEF Accept
  <2> HIDE DEF Opened
  <2> QED BY <1>2, <2>1
<1>4. ASSUME NEW x \in Agent, NEW v \in User, NEW c \in Chat,
             NEW m \in 1 .. Len(bubble) + 1 \cup {None}, NEW end \in {"no", "stopped"},
             Ignore(Bubble(x, v, c, m, "dropped", end))
      PROVE  Opened
  <2>1. PICK d \in Nat : Open(Bubble(x, v, c, m, "dropped", end), d)
    BY <1>1, <1>4 DEF Ignore
  <2> HIDE DEF Opened
  <2> QED BY <1>2, <2>1
<1>5. ASSUME Send(a, u) \/ NoUrl(a, u) PROVE Opened
  <2> HIDE DEF Opened
  <2> QED BY <1>1, <1>3, <1>4, <1>5 DEF Send, NoUrl
<1>6. ASSUME NEW m \in Sid, Redeliver(m) PROVE Opened
  <2>1. /\ m \in 1 .. Len(bubble) + 1 /\ bubble[m].agent \in Agent
        /\ bubble[m].user \in User /\ bubble[m].chat \in Chat
    BY Ids DEF IInv, Bubbles
  <2> HIDE DEF Opened
  <2> QED BY <1>3, <1>4, <1>6, <2>1 DEF Redeliver
<1> QED BY <1>5, <1>6

LEMMA SendAnswers ==
  ASSUME AInv, NEW a \in Agent, NEW u \in User, Send(a, u) \/ NoUrl(a, u)
  PROVE  BegunInOwn' /\ \A d \in Sid' : Answers(d)'
BY CallbackOpens, OpenAnswers DEF AInv

LEMMA RedeliverAnswers ==
  ASSUME AInv, NEW m \in Sid, Redeliver(m)
  PROVE  BegunInOwn' /\ \A d \in Sid' : Answers(d)'
<1>1. bubble[m].agent \in Agent /\ bubble[m].user \in User
  BY Ids DEF AInv, IInv, Bubbles
<1> QED BY <1>1, CallbackOpens, OpenAnswers DEF AInv

(* What is sent unasked goes to a bubble that is alone no more.            *)
LEMMA PushAnswers ==
  ASSUME AInv, NEW u \in User, Push(u)
  PROVE  BegunInOwn' /\ \A d \in Sid' : Answers(d)'
<1>1. PICK sid \in Sid : sid = active[u]
  BY DEF Push, AInv, IInv, StreamsOK
<1>2. /\ bubble' = [bubble EXCEPT ![sid].alone = FALSE] /\ UNCHANGED <<active, worker>>
      /\ Write(sid, Unasked(u)) \/ Finish(sid, Unasked(u))
  BY <1>1 DEF Push, SendMessage
<1>3. /\ DOMAIN streams' = DOMAIN streams
      /\ \A e \in DOMAIN streams : e # sid => streams'[e] = streams[e]
  BY <1>2, WriteMeans
<1>4. Sid' = Sid /\ \A e \in Sid : e # sid => bubble'[e] = bubble[e]
  BY <1>2 DEF Sid
<1>5. bubble'[sid].user = bubble[sid].user /\ ~ bubble'[sid].alone
  <2>1. bubble[sid] \in Bubbles
    BY Ids DEF AInv, IInv
  <2>2. bubble'[sid] = [bubble[sid] EXCEPT !.alone = FALSE]
    BY <1>2 DEF Sid
  <2> QED BY <2>1, <2>2 DEF Bubbles
<1>6. \A e \in Sid : Of(e)' = Of(e)
  BY <1>4, <1>5 DEF Of
<1>7. BegunInOwn'
  <2>1. ASSUME NEW c \in Agent, worker'[c].pc # "idle", worker'[c].target # None,
               active'[Asker(c)'] = Event(c)'
        PROVE  worker'[c].target = Event(c)'
    BY <1>2, <1>6, <2>1, BegunStays
  <2> QED BY <2>1 DEF BegunInOwn
<1>8. ASSUME NEW d \in Sid PROVE Answers(d)'
  <2>1. CASE d = sid
    BY <1>5, <2>1 DEF Answers, Alone
  <2>2. CASE d # sid
    <3>1. Alone(d)' => Alone(d)
      BY <1>2, <1>4, <1>6, <2>2 DEF Alone
    <3> QED BY <1>3, <1>4, <2>2, <3>1, AnswerStays DEF AInv
  <2> QED BY <2>1, <2>2
<1> QED BY <1>4, <1>7, <1>8

(* A bubble is told to stop when its stream is done: it shows the answer.  *)
LEMMA RefreshAnswers ==
  ASSUME AInv, NEW m \in Sid, Refresh(m) \/ PollingStops(m)
  PROVE  BegunInOwn' /\ \A d \in Sid' : Answers(d)'
<1>1. PICK end, t :
        /\ bubble' = [bubble EXCEPT ![m].end = end, ![m].text = t]
        /\ UNCHANGED <<streams, active, worker>>
        /\ end = "told" =>
             m \in DOMAIN streams /\ streams[m].done /\ t = streams[m].text
  <2>1. PICK end, t :
          /\ Ends(m, end, t)
          /\ end = "told" =>
               m \in DOMAIN streams /\ streams[m].done /\ t = streams[m].text
    <3>1. "unknown" # "told" /\ "stopped" # "told"
      OBVIOUS
    <3> QED BY <3>1, Zenon DEF Refresh, PollingStops
  <2> QED BY <2>1 DEF Ends, gateway
<1>2. /\ Sid' = Sid /\ \A e \in Sid : e # m => bubble'[e] = bubble[e]
      /\ bubble'[m] = [bubble[m] EXCEPT !.end = end, !.text = t]
      /\ bubble[m] \in Bubbles
  BY <1>1, Ids DEF Sid, AInv, IInv
<1>3. /\ bubble'[m].user = bubble[m].user /\ bubble'[m].alone = bubble[m].alone
      /\ bubble'[m].turn = bubble[m].turn
      /\ bubble'[m].text = t /\ bubble'[m].end = end
  BY <1>2 DEF Bubbles
<1>4. \A e \in Sid : Of(e)' = Of(e) /\ bubble'[e].alone = bubble[e].alone
  BY <1>2, <1>3 DEF Of
<1>5. \A d \in Sid : Alone(d)' <=> Alone(d)
  BY <1>1, <1>2, <1>4, AloneStays
<1>6. BegunInOwn'
  <2>1. ASSUME NEW c \in Agent, worker'[c].pc # "idle", worker'[c].target # None,
               active'[Asker(c)'] = Event(c)'
        PROVE  worker'[c].target = Event(c)'
    BY <1>1, <1>4, <2>1, BegunStays
  <2> QED BY <2>1 DEF BegunInOwn
<1>7. ASSUME NEW d \in Sid PROVE Answers(d)'
  <2>2. CASE d # m
    BY <1>1, <1>2, <1>5, <2>2, AnswerStays DEF AInv
  <2>3. CASE d = m
    <3>1. ASSUME Alone(m), bubble[m].turn \in {"waits", "answered"}, end = "told"
          PROVE  Final(t) /\ t.of = m
      <4>1. /\ t.of \in {m, None} /\ Final(t) /\ Own(t, m)
        BY <1>1, <3>1 DEF AInv, Answers, Final, IInv, StreamsOK, OwnStream
      <4>2. t.of # None
        BY <4>1 DEF Own, Final, Blank
      <4> QED BY <4>1, <4>2
    <3>2. bubble'[m].end = "told" /\ Alone(m) /\ bubble[m].turn \in {"waits", "answered"}
            => ToldAll(m)'
      BY <1>3, <3>1 DEF ToldAll, Final
    <3>3. Answers(m)
      BY DEF AInv
    <3> QED BY <1>1, <1>3, <1>5, <2>3, <3>2, <3>3 DEF Answers, Waits, Final
  <2> QED BY <2>2, <2>3
<1> QED BY <1>2, <1>6, <1>7

LEMMA CrashAnswers ==
  ASSUME AInv, Crash
  PROVE  BegunInOwn' /\ \A d \in Sid' : Answers(d)'
<1>1. /\ streams' = << >> /\ active' = [u \in User |-> None]
      /\ worker' = [a \in Agent |-> Rest]
  BY DEF Crash
<1>2. BegunInOwn'
  BY <1>1 DEF BegunInOwn, Rest
<1>3. Sid' \subseteq Nat /\ None \notin Sid' /\ \A d \in Sid' : Of(d)' \in User
  <2>1. IInv'
    BY CrashStep DEF AInv
  <2>2. /\ Sid' = 1 .. Len(bubble') /\ \A d \in Sid' : bubble'[d] \in Bubbles
        /\ Len(bubble') \in Nat
    BY <2>1 DEF IInv, BubblesOK, Sid
  <2> QED BY <2>2, StreamsAssumption DEF Of, Bubbles
<1>4. \A d \in Sid' : ~ Alone(d)'
  BY <1>1, <1>3 DEF Alone
<1> QED BY <1>1, <1>2, <1>4 DEF Answers

LEMMA AnswersStep == ASSUME AInv, [Next]_vars PROVE AInv'
<1>1. IInv'
  BY StepKeeps DEF AInv
<1>2. BegunInOwn' /\ \A d \in Sid' : Answers(d)'
  <2>1. CASE \E a \in Agent, u \in User : Send(a, u) \/ NoUrl(a, u)
    BY <2>1, SendAnswers
  <2>2. CASE \E m \in Sid : Redeliver(m) \/ Refresh(m) \/ PollingStops(m)
    BY <2>2, RedeliverAnswers, RefreshAnswers
  <2>6. CASE \E u \in User : Push(u)
    BY <2>6, PushAnswers
  <2>3. CASE \E a \in Agent : Serve(a) \/ Think(a) \/ FirstChunk(a) \/ Chunk(a)
    BY <2>3, TakeAnswers, DropAnswers, RefuseAnswers, PrepareAnswers, ForwardAnswers,
       EndTurnAnswers, ThinkAnswers, FirstChunkAnswers, ChunkAnswers DEF Serve
  <2>4. CASE Crash
    BY <2>4, CrashAnswers
  <2>5. CASE UNCHANGED vars
    <3>1. UNCHANGED <<bubble, streams, active, worker>>
      BY <2>5 DEF vars, gateway
    <3>2. BegunInOwn'
      BY <3>1 DEF AInv, BegunInOwn, Asker, Event, Of
    <3> QED BY <3>1, <3>2, NothingWritten
  <2> QED BY <2>1, <2>2, <2>3, <2>4, <2>5, <2>6 DEF Next
<1> QED BY <1>1, <1>2 DEF AInv

(***************************************************************************)
(* Without a restart no polling bubble loses its stream                    *)
(***************************************************************************)

(* A callback forgets streams, but of bubbles that poll no more.           *)
LEMMA OpenKeepsStreams ==
  ASSUME IInv, Unlost, NEW b, Opens(b), b.end \in {"no", "stopped"},
         NEW d \in Nat, Open(b, d)
  PROVE  Unlost'
<1>1. PICK sid \in Nat : sid = Len(bubble) + 1
  BY Ids DEF IInv
<1>2. /\ Sid' = Sid \cup {sid} /\ bubble'[sid] = b /\ UNCHANGED crashes
      /\ \A e \in Sid : bubble'[e] = bubble[e]
  BY <1>1, OpenAdds
<1>3. /\ DOMAIN streams' = Younger(DOMAIN streams, d) \cup {sid}
      /\ \A e \in Sid : e < d => ~ Polls(e)
  BY <1>1 DEF Open, Create, Expired
<1>4. ASSUME NEW e \in Sid, e \in DOMAIN streams, Polls(e) PROVE e \in DOMAIN streams'
  <2>1. e \in Nat
    BY Ids DEF IInv
  <2> QED BY <1>3, <1>4, <2>1 DEF Younger
<1> QED BY <1>2, <1>3, <1>4 DEF Unlost, Polls

(* A step that forgets no stream and ends no polling.                      *)
LEMMA StreamsAreKept ==
  ASSUME Unlost, Sid' = Sid, UNCHANGED crashes, DOMAIN streams' = DOMAIN streams,
         \A d \in Sid : bubble'[d].end = bubble[d].end
  PROVE  Unlost'
BY DEF Unlost, Polls

(* Nor does a worker or what is sent unasked.                              *)
LEMMA WritesForgetNothing ==
  ASSUME IInv, Unlost,
         \/ \E a \in Agent : Serve(a) \/ Think(a) \/ FirstChunk(a) \/ Chunk(a)
         \/ \E u \in User : Push(u)
  PROVE  Unlost'
<1>1. \A sid, t : Write(sid, t) \/ Finish(sid, t) => DOMAIN streams' = DOMAIN streams
  BY DEF Write, Finish
<1>2. \A u, t : SendMessage(u, t) => DOMAIN streams' = DOMAIN streams
  BY <1>1 DEF SendMessage
<1>3. \A d \in Sid : bubble[d] \in Bubbles
  BY Ids DEF IInv
<1>4. ASSUME NEW a \in Agent, NEW turn, Over(a, turn)
      PROVE  Sid' = Sid /\ \A d \in Sid : bubble'[d].end = bubble[d].end
  <2>1. bubble' = [bubble EXCEPT ![Event(a)].turn = turn]
    BY <1>4 DEF Over
  <2> QED BY <1>3, <2>1 DEF Sid, Bubbles
<1>5. ASSUME NEW a \in Agent, Drop(a) \/ Refuse(a) \/ EndTurn(a) PROVE Unlost'
  <2>1. /\ DOMAIN streams' = DOMAIN streams /\ UNCHANGED crashes
        /\ \E turn : Over(a, turn)
    BY <1>1, <1>2, <1>5 DEF Drop, Refuse, EndTurn
  <2> QED BY <1>4, <2>1, StreamsAreKept
<1>6. ASSUME NEW a \in Agent,
             \/ Take(a) \/ Prepare(a) \/ Forward(a)
             \/ Think(a) \/ FirstChunk(a) \/ Chunk(a)
      PROVE  Unlost'
  <2>1. DOMAIN streams' = DOMAIN streams /\ UNCHANGED <<bubble, crashes>>
    BY <1>1, <1>2, <1>6 DEF Take, Prepare, Forward, Think, FirstChunk, Chunk
  <2> QED BY <2>1, StreamsAreKept DEF Sid
<1>7. ASSUME NEW u \in User, Push(u) PROVE Unlost'
  <2>1. /\ DOMAIN streams' = DOMAIN streams /\ UNCHANGED crashes
        /\ bubble' = [bubble EXCEPT ![active[u]].alone = FALSE]
    BY <1>2, <1>7 DEF Push
  <2>2. Sid' = Sid /\ \A d \in Sid : bubble'[d].end = bubble[d].end
    BY <1>3, <2>1 DEF Sid, Bubbles
  <2> QED BY <2>1, <2>2, StreamsAreKept
<1> QED BY <1>5, <1>6, <1>7 DEF Serve

LEMMA UnlostStep == ASSUME IInv, Unlost, [Next]_vars PROVE Unlost'
<1>1. CASE \E a \in Agent, u \in User : Send(a, u) \/ NoUrl(a, u)
  BY <1>1, CallbackOpens, OpenKeepsStreams
<1>2. CASE \E m \in Sid : Redeliver(m)
  <2>1. PICK m \in Sid : Redeliver(m)
    BY <1>2
  <2>2. bubble[m].agent \in Agent /\ bubble[m].user \in User
    BY Ids DEF IInv, Bubbles
  <2> QED BY <2>1, <2>2, CallbackOpens, OpenKeepsStreams
<1>3. CASE \E m \in Sid : Refresh(m) \/ PollingStops(m)
  <2>1. PICK m, end, t :
          /\ m \in Sid /\ end \in {"told", "unknown", "stopped"}
          /\ bubble' = [bubble EXCEPT ![m].end = end, ![m].text = t]
          /\ Polls(m) /\ UNCHANGED <<streams, crashes>>
          /\ end = "unknown" => m \notin DOMAIN streams
    BY <1>3 DEF Refresh, PollingStops, Ends, gateway
  <2>2. bubble[m] \in Bubbles
    BY <2>1, Ids DEF IInv
  <2>3. /\ Sid' = Sid /\ bubble'[m].end = end
        /\ \A d \in Sid : d # m => bubble'[d] = bubble[d]
    BY <2>1, <2>2 DEF Sid, Bubbles
  <2> QED BY <2>1, <2>3 DEF Unlost, Polls
<1>4. CASE (\E a \in Agent : Serve(a) \/ Think(a) \/ FirstChunk(a) \/ Chunk(a))
           \/ \E u \in User : Push(u)
  BY <1>4, WritesForgetNothing
<1>5. CASE Crash
  <2>1. crashes \in Nat /\ crashes' = crashes + 1
    BY <1>5, StreamsAssumption DEF Crash, IInv, RestOK
  <2> QED BY <2>1 DEF Unlost
<1>6. CASE UNCHANGED vars
  BY <1>6, StreamsAreKept DEF vars, gateway, Sid
<1> QED BY <1>1, <1>2, <1>3, <1>4, <1>5, <1>6 DEF Next

(* A user who waits for the answer before sending the next message gets it *)
(* in the bubble of the question, whatever the other users of the robots   *)
(* do: nothing else shows there, the bubble is told to stop by the         *)
(* complete answer only, and once the turn is over the stream says all of  *)
(* it and is done.  No bubble is told that its stream is not known unless  *)
(* the gateway restarted.                                                  *)
THEOREM AnsweredInOwnBubble == Spec => []AnswersItself
<1>1. ASSUME Init PROVE AInv /\ Unlost
  <2>1. IInv /\ bubble = << >> /\ streams = << >> /\ worker = [a \in Agent |-> Rest]
    BY <1>1, InitHolds DEF Init
  <2>2. Sid = {} /\ DOMAIN streams = {}
    BY <2>1 DEF Sid
  <2> QED BY <2>1, <2>2 DEF AInv, Unlost, BegunInOwn, Rest
<1>2. ASSUME AInv, Unlost, [Next]_vars PROVE AInv' /\ Unlost'
  BY <1>2, AnswersStep, UnlostStep DEF AInv
<1>3. ASSUME AInv, Unlost PROVE AnswersItself
  <2>1. crashes \in Nat
    BY <1>3, StreamsAssumption DEF AInv, IInv, RestOK
  <2> QED BY <1>3, <2>1 DEF AInv, Unlost, Answers, AnswersItself
<1> QED BY <1>1, <1>2, <1>3, PTL DEF Spec
=============================================================================
