---------------------------- MODULE VideoChannel ----------------------------
(***************************************************************************)
(* Frames on their way from the video services to the peers.               *)
(*                                                                         *)
(* Every display has a service thread that sends a frame to its            *)
(* subscribers and then waits until they have fetched it, or for a time    *)
(* (VideoFrameController and the main loop of run in                       *)
(* src/src/server/video_service.rs).  Every connection has ONE channel for *)
(* the frames and SwitchDisplay messages of all displays (ConnInner::send),*)
(* which its task empties in the rx_video branch of the select loop of     *)
(* src/src/server/connection.rs, dropping frames when several are queued.  *)
(*                                                                         *)
(* A message carries the number it has among the messages of its display.  *)
(* The code's notifications carry only the connection: the frame number in *)
(* a member of notifier and fetched_conn_ids is history, for properties.   *)
(*                                                                         *)
(* Every connection is subscribed to every display.  What other modules have *)
(* too is named Channel... here, so that VideoProofs can extend this     *)
(* module beside VideoService.                                             *)
(***************************************************************************)
EXTENDS Connections, Naturals, Sequences, SequencesExt

CONSTANTS
  Display,       \* displays that are captured
  AckRequired,   \* connections with video_ack_required
  MaxMessages    \* bound on the messages of one display

ASSUME AckRequiredConns == AckRequired \subseteq Conn
ASSUME MaxMessagesNat == MaxMessages \in Nat

VARIABLES
  phase,             \* a connection: "open", "closing" (loop left), "closed"
  stage,             \* a service: "capture", "set_send", "wait"
  msgs,              \* messages sent so far by a service
  sent_to,           \* whom send_video_frame sent the frame to
  send_conn_ids,     \* VideoFrameController.send_conn_ids
  fetched_conn_ids,  \* who has fetched, in the wait that is going on
  notifier,          \* the channel in FRAME_FETCHED_NOTIFIERS
  conn_display_ids,  \* CONN_DISPLAY_IDS
  queue,             \* the rx_video channel of a connection
  to_ack,            \* frames an acknowledging peer has not acknowledged yet
  log,               \* history: what a peer was sent, in order
  dropped            \* history: what its connection task threw away

svcVars == <<stage, msgs, sent_to, send_conn_ids, fetched_conn_ids>>
connVars == <<phase, queue, to_ack, log, dropped>>
channelVars == <<svcVars, connVars, notifier, conn_display_ids>>

Msg == [type : {"frame", "switch"}, display : Display, no : 1..MaxMessages]

IsFrame(m) == m.type = "frame"

Fetch == Conn \X (0..MaxMessages)

Ids(fetches) == {f[1] : f \in fetches}

ChannelTypeOK ==
  /\ phase \in [Conn -> {"open", "closing", "closed"}]
  /\ stage \in [Display -> {"capture", "set_send", "wait"}]
  /\ msgs \in [Display -> 0..MaxMessages]
  /\ sent_to \in [Display -> SUBSET Conn]
  /\ send_conn_ids \in [Display -> SUBSET Conn]
  /\ fetched_conn_ids \in [Display -> SUBSET Fetch]
  /\ notifier \in [Display -> SUBSET Fetch]
  /\ conn_display_ids \in [Conn -> SUBSET Display]
  /\ {queue, to_ack, log} \subseteq [Conn -> Seq(Msg)]
  /\ dropped \in [Conn -> SUBSET Msg]

ChannelInit ==
  /\ phase = [c \in Conn |-> "open"]
  /\ stage = [d \in Display |-> "capture"]
  /\ msgs = [d \in Display |-> 0]
  /\ sent_to = [d \in Display |-> {}]
  /\ send_conn_ids = [d \in Display |-> {}]
  /\ fetched_conn_ids = [d \in Display |-> {}]
  /\ notifier = [d \in Display |-> {}]
  /\ conn_display_ids = [c \in Conn |-> {}]
  /\ queue = [c \in Conn |-> <<>>]
  /\ to_ack = [c \in Conn |-> <<>>]
  /\ log = [c \in Conn |-> <<>>]
  /\ dropped = [c \in Conn |-> {}]

-----------------------------------------------------------------------------
(* The service of a display.                                                *)

Subscribers == {c \in Conn : phase[c] # "closed"}

\* ServiceTmpl::send_shared, send_video_frame_shared: under the lock, to all
\* subscribers, through ConnInner::send into the video channel of each.
SendToAll(d, type) ==
  /\ msgs[d] < MaxMessages
  /\ msgs' = [msgs EXCEPT ![d] = @ + 1]
  /\ queue' = [c \in Conn |->
       IF c \in Subscribers
       THEN Append(queue[c], [type |-> type, display |-> d, no |-> msgs[d] + 1])
       ELSE queue[c]]

\* One round of the main loop: forget whom the last frame went to, send one.
SendFrame(d) ==
  /\ stage[d] = "capture"
  /\ Subscribers # {}
  /\ SendToAll(d, "frame")
  /\ sent_to' = [sent_to EXCEPT ![d] = Subscribers]
  /\ send_conn_ids' = [send_conn_ids EXCEPT ![d] = {}]
  /\ stage' = [stage EXCEPT ![d] = "set_send"]
  /\ UNCHANGED <<fetched_conn_ids, phase, to_ack, log, dropped,
                 notifier, conn_display_ids>>

\* try_broadcast_display_changed, then SWITCH: the service starts over.
SwitchDisplay(d) ==
  /\ stage[d] = "capture"
  /\ Subscribers # {}
  /\ SendToAll(d, "switch")
  /\ send_conn_ids' = [send_conn_ids EXCEPT ![d] = {}]
  /\ UNCHANGED <<stage, sent_to, fetched_conn_ids, phase, to_ack, log, dropped,
                 notifier, conn_display_ids>>

\* VideoFrameController::set_send.  A frame that was captured is waited for;
\* one that was encoded again because nothing changed is not.
SetSend(d) ==
  /\ stage[d] = "set_send"
  /\ send_conn_ids' = [send_conn_ids EXCEPT ![d] = sent_to[d]]
  /\ conn_display_ids' = [c \in Conn |-> IF c \in sent_to[d]
                                         THEN conn_display_ids[c] \cup {d}
                                         ELSE conn_display_ids[c]]
  /\ \E next \in {"wait", "capture"} : stage' = [stage EXCEPT ![d] = next]
  /\ fetched_conn_ids' = [fetched_conn_ids EXCEPT ![d] = {}]
  /\ UNCHANGED <<msgs, sent_to, connVars, notifier>>

\* try_wait_next: take all there is; the wait ends when as many connections
\* were heard of as the frame was sent to.
TryWaitNext(d) ==
  /\ stage[d] = "wait"
  /\ notifier[d] # {}
  /\ fetched_conn_ids' = [fetched_conn_ids EXCEPT ![d] = @ \cup notifier[d]]
  /\ notifier' = [notifier EXCEPT ![d] = {}]
  /\ IF Cardinality(Ids(fetched_conn_ids'[d])) >= Cardinality(send_conn_ids[d])
     THEN stage' = [stage EXCEPT ![d] = "capture"]
     ELSE UNCHANGED stage
  /\ UNCHANGED <<msgs, sent_to, send_conn_ids, connVars, conn_display_ids>>

\* 1 s, or 2 ms at high frame rates.
WaitTimeout(d) ==
  /\ stage[d] = "wait"
  /\ stage' = [stage EXCEPT ![d] = "capture"]
  /\ UNCHANGED <<msgs, sent_to, send_conn_ids, fetched_conn_ids, connVars,
                 notifier, conn_display_ids>>

-----------------------------------------------------------------------------
(* The task of a connection.                                                *)

\* The loop over the queued messages q: whatever is no frame is sent at once, a
\* frame takes the place of the latest one; the message received first counts as
\* a frame.
Loop(q) ==
  LET loop[i \in 1..Len(q)] ==
        IF i = 1 THEN [sent |-> <<>>, latest |-> q[1]]
        ELSE IF IsFrame(q[i]) THEN [loop[i - 1] EXCEPT !.latest = q[i]]
        ELSE [loop[i - 1] EXCEPT !.sent = Append(@, q[i])]
  IN loop

\* What is passed on of the queued messages q: the latest frame at the end.
\* Mutants: the oldest message is kept, and what came first is sent last.
PassedOnOldest(q) == <<Head(q)>>
PassedOnBackwards(q) == Append(SelectSeq(Tail(q), IsFrame), Head(q))

PassedOn(q) ==
  LET end == Loop(q)[Len(q)]
  IN Append(end.sent, end.latest)

\* Mutant: the message received first is acknowledged, not the one passed on.
DeliverAckFirst(c) ==
  LET passed == PassedOn(queue[c])
      first == Head(queue[c])
  IN /\ phase[c] = "open"
     /\ queue[c] # <<>>
     /\ queue' = [queue EXCEPT ![c] = <<>>]
     /\ log' = [log EXCEPT ![c] = @ \o passed]
     /\ dropped' = [dropped EXCEPT ![c] = @ \cup (ToSet(queue[c]) \ ToSet(passed))]
     /\ notifier' = IF IsFrame(first) /\ c \notin AckRequired
                    THEN [notifier EXCEPT ![first.display] = @ \cup {<<c, first.no>>}]
                    ELSE notifier
     /\ UNCHANGED <<svcVars, phase, to_ack, conn_display_ids>>

Deliver(c) ==
  LET passed == PassedOn(queue[c])
      latest == Last(passed)
  IN /\ phase[c] = "open"
     /\ queue[c] # <<>>
     /\ queue' = [queue EXCEPT ![c] = <<>>]
     /\ log' = [log EXCEPT ![c] = @ \o passed]
     /\ dropped' = [dropped EXCEPT ![c] = @ \cup (ToSet(queue[c]) \ ToSet(passed))]
     /\ notifier' = IF IsFrame(latest) /\ c \notin AckRequired
                    THEN [notifier EXCEPT ![latest.display] = @ \cup {<<c, latest.no>>}]
                    ELSE notifier
     /\ to_ack' = IF IsFrame(latest) /\ c \in AckRequired
                  THEN [to_ack EXCEPT ![c] = Append(@, latest)]
                  ELSE to_ack
     /\ UNCHANGED <<svcVars, phase, conn_display_ids>>

\* notify_video_frame_fetched_by_conn_id: to the service of every display the
\* connection was ever sent a frame of.
NotifyByConnId(c, m) ==
  notifier' = [d \in Display |->
    IF d \in conn_display_ids[c]
    THEN notifier[d] \cup {<<c, IF m # <<>> /\ Head(m).display = d THEN Head(m).no ELSE 0>>}
    ELSE notifier[d]]

\* A VideoReceived message of the peer; it does not name the display.
VideoReceived(c) ==
  /\ phase[c] = "open"
  /\ to_ack[c] # <<>>
  /\ NotifyByConnId(c, to_ack[c])
  /\ to_ack' = [to_ack EXCEPT ![c] = Tail(@)]
  /\ UNCHANGED <<svcVars, phase, queue, log, dropped, conn_display_ids>>

\* The connection leaves its loop and tells the services not to wait for it ...
LeaveLoop(c) ==
  /\ phase[c] = "open"
  /\ phase' = [phase EXCEPT ![c] = "closing"]
  /\ NotifyByConnId(c, <<>>)
  /\ UNCHANGED <<svcVars, queue, to_ack, log, dropped, conn_display_ids>>

\* ... and unsubscribes later (Server::remove_connection).
RemoveConnection(c) ==
  /\ phase[c] = "closing"
  /\ phase' = [phase EXCEPT ![c] = "closed"]
  /\ queue' = [queue EXCEPT ![c] = <<>>]
  /\ UNCHANGED <<svcVars, to_ack, log, dropped, notifier, conn_display_ids>>

-----------------------------------------------------------------------------

Service(d) ==
  \/ SendFrame(d) \/ SwitchDisplay(d) \/ SetSend(d)
  \/ TryWaitNext(d) \/ WaitTimeout(d)

Connection(c) ==
  \/ Deliver(c) \/ VideoReceived(c) \/ LeaveLoop(c) \/ RemoveConnection(c)

ChannelNext ==
  \/ \E d \in Display : Service(d)
  \/ \E c \in Conn : Connection(c)

ChannelSpec == ChannelInit /\ [][ChannelNext]_channelVars

\* The tasks and threads are scheduled fairly, a peer answers what it gets, and
\* a connection that has left its loop goes on to the end of it.
ChannelFairSpec ==
  /\ ChannelSpec
  /\ \A c \in Conn : /\ WF_channelVars(Deliver(c))
                     /\ WF_channelVars(VideoReceived(c))
                     /\ WF_channelVars(RemoveConnection(c))
  /\ \A d \in Display : WF_channelVars(SetSend(d) \/ TryWaitNext(d) \/ WaitTimeout(d))

-----------------------------------------------------------------------------
(* What holds.                                                              *)

\* However many frames are dropped, those a peer gets of a display are in the
\* order in which they were captured.
FramesInOrder ==
  \A c \in Conn : \A i, j \in DOMAIN log[c] :
    ( /\ i < j
      /\ IsFrame(log[c][i]) /\ IsFrame(log[c][j])
      /\ log[c][i].display = log[c][j].display ) => log[c][i].no < log[c][j].no

\* A service that waits for an open connection has reason to: the frame is still
\* queued, or the notification is still to be read.  Otherwise it would stop
\* the picture of everyone until the time is over.  (One display; a connection
\* whose peer acknowledges is not covered.)
WaitHasCause ==
  \A d \in Display, c \in Conn \ AckRequired :
    (stage[d] = "wait" /\ c \in send_conn_ids[d] /\ phase[c] = "open") =>
      \/ <<c, msgs[d]>> \in notifier[d] \cup fetched_conn_ids[d]
      \/ \E i \in DOMAIN queue[c] : queue[c][i].no = msgs[d]

\* The inductive invariant behind FramesInOrder: what is queued is in order, and
\* newer than every frame the peer was sent.
QueueInOrder ==
  \A c \in Conn : \A i \in DOMAIN queue[c] :
    /\ queue[c][i].no <= msgs[queue[c][i].display]
    /\ \A j \in DOMAIN queue[c] :
         i < j /\ queue[c][i].display = queue[c][j].display => queue[c][i].no < queue[c][j].no

LogBehind ==
  \A c \in Conn : \A i \in DOMAIN log[c] : IsFrame(log[c][i]) =>
    /\ log[c][i].no <= msgs[log[c][i].display]
    /\ \A j \in DOMAIN queue[c] :
         log[c][i].display = queue[c][j].display => log[c][i].no < queue[c][j].no

ChannelInv == ChannelTypeOK /\ QueueInOrder /\ LogBehind /\ FramesInOrder

\* And behind WaitHasCause, with one display: a service that does not capture
\* sent a frame last, and until set_send nobody's notification of it is taken.
FrameSentLast ==
  \A d \in Display, c \in Conn : \A i \in DOMAIN queue[c] :
    stage[d] # "capture" /\ queue[c][i].no = msgs[d] => IsFrame(queue[c][i])

SentHasCause ==
  \A d \in Display, c \in Conn \ AckRequired :
    (stage[d] = "set_send" /\ c \in sent_to[d] /\ phase[c] = "open") =>
      \/ <<c, msgs[d]>> \in notifier[d]
      \/ \E i \in DOMAIN queue[c] : queue[c][i].no = msgs[d]

CauseInv == ChannelInv /\ FrameSentLast /\ SentHasCause /\ WaitHasCause

\* With one display, the newest frame of a quiet screen reaches every open
\* connection: what backpressure drops is always superseded.
NewestArrives ==
  \A c \in Conn, d \in Display, n \in 1..MaxMessages :
    (\E m \in ToSet(queue[c]) : IsFrame(m) /\ m.display = d /\ m.no = n)
      ~> \/ phase[c] # "open"
         \/ \E m \in ToSet(log[c]) : IsFrame(m) /\ m.display = d /\ m.no >= n

-----------------------------------------------------------------------------
(* What a comment says and the code does not do.                            *)

\* connection.rs: "Backpressure: drop stale frames if queue is building up".
\* Whatever is dropped is a frame, and a newer one of its display is passed on.
\* It does not hold with two displays.
OnlyStaleDropped ==
  \A c \in Conn : \A m \in dropped[c] :
    /\ IsFrame(m)
    /\ \E k \in ToSet(log[c]) : IsFrame(k) /\ k.display = m.display /\ k.no > m.no
=============================================================================
