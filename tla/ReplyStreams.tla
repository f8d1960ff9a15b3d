---------------------------- MODULE ReplyStreams ----------------------------
(***************************************************************************)
(* How a message to the WeCom robot of an agent is answered                *)
(* (gateway: channel/router.py, dispatcher.py, wecom_bot_callback.py).     *)
(* WeCom delivers a message by a callback, again when it has seen no       *)
(* answer; the gateway opens a stream for the callback and queues the      *)
(* message for the worker of the agent.  The worker writes the reply into  *)
(* the stream that is then the active one of the user, and the bubble in   *)
(* the chat polls its own stream until that is done, for six minutes at    *)
(* most.  The private chat of a user and the groups the user writes in     *)
(* share the active stream, and so does what an agent sends unasked        *)
(* (POST /send).                                                           *)
(*                                                                         *)
(* One gateway process that keeps the streams in memory (no UA_REDIS_URL): *)
(* parse_incoming, handle_callback and dispatch never yield in between.    *)
(* A stream id is the position of its bubble in the order of opening; a    *)
(* message that waits is known by the stream its callback opened.          *)
(***************************************************************************)
EXTENDS Naturals, Sequences, FiniteSets

CONSTANTS
  Agent, User,
  Chat, \* the private chat of a user with the robot, a group
  None,
  MaxStreams, \* bound: callbacks
  MaxCrashes  \* bound: restarts of the gateway

ASSUME StreamsAssumption ==
  /\ None \notin Nat \cup User \cup Agent
  /\ MaxStreams \in Nat /\ MaxCrashes \in Nat

VARIABLES
  bubble,  \* the bubbles in the chats, with the fate of their messages
  streams, \* _streams: the stream of each id the gateway still knows
  active,  \* _active: the stream opened last for a user
  dedup,   \* _dedup: the messages accepted, by the streams of their callbacks
  queue,   \* the messages that wait for the worker of an agent
  worker,  \* the message a worker handles, and the stream it writes to
  crashes

gateway == <<streams, active, dedup, queue, worker>>
vars    == <<bubble, gateway, crashes>>

Sid      == DOMAIN bubble
Of(d)    == bubble[d].user
Waits(d) == bubble[d].turn = "waits"
Polls(d) == bubble[d].end = "no"

(* What a stream or a bubble says, and the user it is meant for: nothing,  *)
(* something of the turn of a message (a passing notice, part of its       *)
(* reply, all of it, or a final notice in its place), or what an agent     *)
(* sent unasked.                                                           *)
Blank         == [of |-> None, to |-> None, what |-> "nothing"]
Says(d, what) == [of |-> d, to |-> Of(d), what |-> what]
Unasked(u)    == [of |-> None, to |-> u, what |-> "push"]

Rest    == [pc |-> "idle", event |-> None, target |-> None]

Init ==
  /\ bubble = << >> /\ streams = << >>
  /\ active = [u \in User |-> None]
  /\ dedup = {}
  /\ queue = [a \in Agent |-> << >>] /\ worker = [a \in Agent |-> Rest]
  /\ crashes = 0

(***************************************************************************)
(* A callback: channel_webhook, parse_incoming, dispatch                   *)
(***************************************************************************)
(* What was stored long ago goes first.                                    *)
Younger(S, d) == {e \in S : e >= d}

(* _store_create opens a stream and makes it the active one of the user,   *)
(* whatever becomes of the message; streams past their 420 s go.  A bubble *)
(* has stopped polling by then.                                            *)
Fresh == [text |-> Blank, done |-> FALSE, think |-> None]

Expired_Fault(d) == TRUE
Expired(d)       == \A e \in Sid : e < d => ~ Polls(e)

Create(sid, u, d) ==
  /\ Expired(d)
  /\ streams' = [e \in Younger(DOMAIN streams, d) \cup {sid} |->
                   IF e = sid THEN Fresh ELSE streams[e]]
  /\ active' = [active EXCEPT ![u] = sid]

(* A bubble knows its chat, the robot only its user: chat_id is the sender *)
(* in a group too.  A message is known by the stream of its first          *)
(* callback.  (alone: no other message of the user waits when it comes,    *)
(* and nothing unasked is put into its stream later.)                      *)
Bubble(a, u, c, m, turn, end) ==
  [agent |-> a, user |-> u, chat |-> c, msg |-> m, turn |-> turn, end |-> end,
   alone |-> \A e \in Sid : Of(e) = u => ~ Waits(e), text |-> Blank]

Open(b, d) ==
  /\ Len(bubble) < MaxStreams
  /\ bubble' = Append(bubble, b)
  /\ Create(Len(bubble) + 1, b.user, d)
  /\ UNCHANGED <<worker, crashes>>

Known(m) == \E d \in dedup : bubble[d].msg = m

(* Entries past their 120 s go, but only when a message is accepted; what  *)
(* is past 420 s is past 120 s too.                                        *)
Accept(a, u, c, m) ==
  LET sid == Len(bubble) + 1 IN
  /\ ~ Known(m)
  /\ \E e \in 1 .. sid : \E d \in 1 .. e :
       /\ Open(Bubble(a, u, c, m, "waits", "no"), d)
       /\ dedup' = Younger(dedup, e) \cup {sid}
  /\ queue' = [queue EXCEPT ![a] = Append(@, sid)]

Send(a, u) == \E c \in Chat : Accept(a, u, c, Len(bubble) + 1)

(* A callback that goes no further than its stream.                        *)
Ignore(b) ==
  /\ \E d \in 1 .. Len(bubble) + 1 : Open(b, d)
  /\ UNCHANGED <<dedup, queue>>

Redeliver(m) ==
  LET first == bubble[m] IN
  /\ first.msg = m
  /\ \/ Accept(first.agent, first.user, first.chat, m)
     \/ /\ Known(m)
        /\ Ignore(Bubble(first.agent, first.user, first.chat, m, "dropped", "no"))

(* An image, a file or a video without a url: the callback is only         *)
(* acknowledged, so that no bubble polls the stream it has opened.         *)
NoUrl(a, u) == \E c \in Chat : Ignore(Bubble(a, u, c, None, "dropped", "stopped"))

(***************************************************************************)
(* The reply streams: wecom_bot_callback.py                                *)
(***************************************************************************)
(* A write to a stream that is not known any more does nothing.            *)
Write(sid, text) ==
  streams' = IF sid \in DOMAIN streams THEN [streams EXCEPT ![sid].text = text]
             ELSE streams

Finished_Fault(s, text) == [s EXCEPT !.text = text]
Finished(s, text)       == [s EXCEPT !.text = text, !.done = TRUE]

Finish(sid, text) ==
  streams' = IF sid \in DOMAIN streams
             THEN [streams EXCEPT ![sid] = Finished(@, text)] ELSE streams

(* send_message: into the active stream, which a final notice ends; else   *)
(* to the response_url, past the bubbles.                                  *)
Transient_Fault == {}
Transient       == {"passing"}

SendMessage(u, text) ==
  IF text.what \in Transient THEN Write(active[u], text) ELSE Finish(active[u], text)

(* POST /send: an agent sends something to a user.  A final notice like    *)
(* any other, it ends the stream that is active, in whatever chat, and     *)
(* takes the place of what that says.                                      *)
Push(u) ==
  /\ active[u] \in DOMAIN streams
  /\ SendMessage(u, Unasked(u))
  /\ bubble' = [bubble EXCEPT ![active[u]].alone = FALSE]
  /\ UNCHANGED <<active, dedup, queue, worker, crashes>>

(* replace_with_response: the stream written to, or the active one.        *)
LastTarget_Fault(u, sid) == IF sid \in DOMAIN streams THEN sid ELSE Len(bubble)
LastTarget(u, sid)       == IF sid \in DOMAIN streams THEN sid ELSE active[u]

(***************************************************************************)
(* The worker of an agent: _process_queue, _process_one                    *)
(***************************************************************************)
Event(a)    == worker[a].event
Asker(a)    == Of(Event(a))
In(a, pc)   == worker[a].pc = pc
Goto(a, pc) == worker' = [worker EXCEPT ![a].pc = pc]
Say(a, what) == Says(Event(a), what)

Over_Fault(a, turn) ==
  /\ worker' = [worker EXCEPT ![a] = [Rest EXCEPT !.event = Event(a)]]
  /\ bubble' = [bubble EXCEPT ![Event(a)].turn = turn]
Over(a, turn) ==
  /\ worker' = [worker EXCEPT ![a] = Rest]
  /\ bubble' = [bubble EXCEPT ![Event(a)].turn = turn]

Take(a) ==
  /\ In(a, "idle") /\ queue[a] # << >>
  /\ worker' = [worker EXCEPT ![a] = [Rest EXCEPT !.pc = "gate", !.event = Head(queue[a])]]
  /\ queue' = [queue EXCEPT ![a] = Tail(@)]
  /\ UNCHANGED <<bubble, streams, active, dedup, crashes>>

(* No channel configuration, or something raises, the last time when the   *)
(* model of the agent is looked up: only the log knows.                    *)
Drop(a) ==
  /\ In(a, "gate") \/ In(a, "prepared")
  /\ Over(a, "dropped")
  /\ UNCHANGED <<streams, active, dedup, queue, crashes>>

(* Access denied, speech not recognised, the engine does not start, the    *)
(* attachment is lost, the session was reset.                              *)
Refuse(a) ==
  /\ In(a, "gate")
  /\ SendMessage(Asker(a), Say(a, "notice")) /\ Over(a, "answered")
  /\ UNCHANGED <<active, dedup, queue, crashes>>

(* The profile was cold: PROFILE_PREPARING.                                *)
Prepare(a) ==
  /\ In(a, "gate")
  /\ SendMessage(Asker(a), Say(a, "passing")) \/ UNCHANGED streams
  /\ Goto(a, "prepared")
  /\ UNCHANGED <<bubble, active, dedup, queue, crashes>>

Forward(a) ==
  /\ In(a, "prepared") /\ Goto(a, "stream")
  /\ UNCHANGED <<bubble, streams, active, dedup, queue, crashes>>

(***************************************************************************)
(* _process_one_streaming                                                  *)
(***************************************************************************)
(* on_reasoning, on_tool_progress: appended to what the active stream has; *)
(* the model keeps whose turn it was last.                                 *)
Think(a) ==
  LET sid == active[Asker(a)] IN
  /\ In(a, "stream") /\ sid \in DOMAIN streams
  /\ streams' = [streams EXCEPT ![sid].think = Event(a)]
  /\ UNCHANGED <<bubble, active, dedup, queue, worker, crashes>>

(* The first chunk goes to the stream that is active then, the later ones  *)
(* to the same.                                                            *)
FirstChunk(a) ==
  /\ In(a, "stream") /\ worker[a].target = None
  /\ Write(active[Asker(a)], Say(a, "part"))
  /\ worker' = [worker EXCEPT ![a].target = active[Asker(a)]]
  /\ UNCHANGED <<bubble, active, dedup, queue, crashes>>

Chunk(a) ==
  /\ In(a, "stream") /\ worker[a].target # None
  /\ Write(worker[a].target, Say(a, "part"))
  /\ UNCHANGED <<bubble, active, dedup, queue, worker, crashes>>

(* [DONE], an error of the engine, or the hard limit of 300 s: the stream  *)
(* ends with all the text there is, or with a notice if there is none.     *)
EndTurn(a) ==
  /\ In(a, "stream")
  /\ \/ /\ worker[a].target # None
        /\ Finish(LastTarget(Asker(a), worker[a].target), Say(a, "whole"))
     \/ /\ worker[a].target = None
        /\ SendMessage(Asker(a), Say(a, "notice"))
  /\ Over(a, "answered")
  /\ UNCHANGED <<active, dedup, queue, crashes>>

(***************************************************************************)
(* The bubble polls: _stream_refresh_response.  Until the stream is done   *)
(* it shows what the stream says and polls on; then it keeps what it was   *)
(* told last.  Of a stream the gateway does not know it is told that it is *)
(* finished, and blank.                                                    *)
(***************************************************************************)
Ends(d, end, text) ==
  /\ d \in Sid /\ Polls(d)
  /\ bubble' = [bubble EXCEPT ![d].end = end, ![d].text = text]
  /\ UNCHANGED <<gateway, crashes>>

Refresh(d) ==
  \/ /\ d \in DOMAIN streams /\ streams[d].done
     /\ Ends(d, "told", streams[d].text)
  \/ /\ d \notin DOMAIN streams
     /\ Ends(d, "unknown", Blank)

(* WeCom polls for six minutes; a frame that says finished never came.     *)
PollingStops(d) == Ends(d, "stopped", Blank)

(* The gateway restarts: everything in memory is gone.                     *)
Crash ==
  /\ crashes < MaxCrashes /\ crashes' = crashes + 1
  /\ bubble' = [d \in Sid |->
       IF Waits(d) THEN [bubble[d] EXCEPT !.turn = "lost"] ELSE bubble[d]]
  /\ streams' = << >> /\ active' = [u \in User |-> None]
  /\ dedup' = {}
  /\ queue' = [a \in Agent |-> << >>] /\ worker' = [a \in Agent |-> Rest]

(***************************************************************************)
(* Specification                                                           *)
(***************************************************************************)
Serve(a) ==
  Take(a) \/ Drop(a) \/ Refuse(a) \/ Prepare(a) \/ Forward(a) \/ EndTurn(a)

Next ==
  \/ \E a \in Agent, u \in User : Send(a, u) \/ NoUrl(a, u)
  \/ \E u \in User : Push(u)
  \/ \E m \in Sid : Redeliver(m) \/ Refresh(m) \/ PollingStops(m)
  \/ \E a \in Agent : Serve(a) \/ Think(a) \/ FirstChunk(a) \/ Chunk(a)
  \/ Crash

Spec == Init /\ [][Next]_vars

(* Every call a worker makes has a time limit and so has the stream from   *)
(* the engine, which else owes nobody a chunk or an end; a bubble polls    *)
(* as long as WeCom lets it.                                               *)
FairSpec ==
  /\ Spec
  /\ \A a \in Agent : WF_vars(Serve(a))
  /\ \A d \in 1 .. MaxStreams : WF_vars(Refresh(d))
=============================================================================
