----------------------------- MODULE VideoThread -----------------------------
(***************************************************************************)
(* How a client shows one display: the io loop of                           *)
(* src/src/client/io_loop.rs, which sorts the frames of the host into a      *)
(* channel and a queue, and the decoder thread of start_video_thread in      *)
(* src/src/client.rs.  A key frame travels in the channel; any other frame   *)
(* waits in a queue that drops its oldest when it is full, and the channel   *)
(* carries a token for it.                                                  *)
(*                                                                         *)
(* Of the host no more is here than the client can tell: it encodes each    *)
(* frame from the one before, and when it is asked to refresh, or no longer  *)
(* may use its codec, it starts over with a key frame.  The connection keeps *)
(* the order of messages.                                                   *)
(***************************************************************************)
EXTENDS Naturals, Sequences, FiniteSets

CONSTANTS Codec,            \* formats the host can encode
          Decodable,        \* those this machine really decodes
          NoCodec,          \* the format of a decoder that does not exist yet
          VIDEO_QUEUE_SIZE, \* 120
          MAX_DECODE_FAIL_COUNTER, \* 3
          Ring,             \* frames are numbered modulo Ring
          MaxInFlight,      \* bound on messages of the host under way
          MaxChannel,       \* bound on the channel of the thread
          MaxData,          \* bound on the queue of the io loop
          MaxDropped,       \* bound on frames dropped from the full queue
          MaxChanges        \* bound on switches, refreshes and resets

ASSUME CodecsNamed == Decodable \subseteq Codec /\ NoCodec \notin Codec
ASSUME Sizes == {VIDEO_QUEUE_SIZE, MAX_DECODE_FAIL_COUNTER, Ring} \subseteq Nat \ {0}
ASSUME Bounds == {MaxInFlight, MaxChannel, MaxData, MaxDropped, MaxChanges} \subseteq Nat

VARIABLES
  codec, sent, rekey, asked, \* the host: codec, last delta, key frame due, restart due
  unsupported,               \* the codecs the host was told not to use
  network,                   \* messages of the host under way
  channel, queue,            \* video_receiver, video_queue
  discard,                   \* discard_queue
  held,                      \* a frame popped, before discard_queue is read
  decoder, fail_counter, first_frame, \* the thread's VideoHandler
  last,                      \* the last frame decoded with all it builds on, or Ring
  mark_unsupported,
  data,                      \* Data waiting for the io loop
  dropped, changes

hostVars == <<codec, sent, rekey, asked, unsupported>>
handlerVars == <<decoder, fail_counter, first_frame, last>>
threadVars == <<held, handlerVars, mark_unsupported>>
vars == <<hostVars, network, channel, queue, discard, threadVars, data, dropped, changes>>

Frame == [key : BOOLEAN, n : 0..(Ring - 1), codec : Codec]
Token == [media |-> "VideoQueue"]
Reset == [media |-> "Reset"]
NoFrame == [media |-> "none"]
Lost == Ring

TypeOK ==
  /\ codec \in Codec /\ sent \in 0..(Ring - 1) /\ rekey \in BOOLEAN /\ asked \in BOOLEAN
  /\ unsupported \subseteq mark_unsupported /\ mark_unsupported \subseteq Codec
  /\ network \in Seq(Frame \cup {Reset})
  /\ channel \in Seq({f \in Frame : f.key} \cup {Token, Reset})
  /\ queue \in Seq({f \in Frame : ~f.key})
  /\ Len(network) <= MaxInFlight /\ Len(queue) <= VIDEO_QUEUE_SIZE
  /\ discard \in BOOLEAN
  /\ held \in {f \in Frame : ~f.key} \cup {NoFrame}
  /\ decoder \in Codec \cup {NoCodec}
  /\ fail_counter \in 0..MAX_DECODE_FAIL_COUNTER /\ first_frame \in BOOLEAN
  /\ last \in 0..Ring
  /\ data \in Seq({"refresh", "supported", "reset"})
  /\ dropped \in 0..MaxDropped /\ changes \in 0..MaxChanges

Init ==
  /\ codec \in Codec /\ sent = 0 /\ rekey = TRUE /\ asked = FALSE
  /\ unsupported = {} /\ mark_unsupported = {}
  /\ network = <<>> /\ channel = <<>> /\ queue = <<>> /\ data = <<>>
  /\ discard = FALSE /\ held = NoFrame
  /\ decoder = NoCodec /\ fail_counter = 0 /\ first_frame = TRUE /\ last = Lost
  /\ dropped = 0 /\ changes = 0

Follows(n) == (n + 1) % Ring
Change == changes < MaxChanges /\ changes' = changes + 1

-----------------------------------------------------------------------------
(* The host.                                                                 *)

\* The video service sends a frame.
Encode ==
  /\ Len(network) < MaxInFlight
  /\ sent' = IF rekey THEN sent ELSE Follows(sent)
  /\ network' = Append(network, [key |-> rekey, n |-> sent', codec |-> codec])
  /\ rekey' = FALSE
  /\ UNCHANGED <<codec, asked, unsupported, channel, queue, discard, threadVars, data, dropped, changes>>

\* refresh_video_display, or another codec negotiated: a new encoder.
Restart ==
  /\ asked
  /\ codec' \in IF Codec = unsupported THEN Codec ELSE Codec \ unsupported
  /\ rekey' = TRUE
  /\ asked' = FALSE
  /\ UNCHANGED <<sent, unsupported, network, channel, queue, discard, threadVars, data, dropped, changes>>

\* SwitchDisplay is sent: by the service, that starts over (a display has
\* changed), or by the connection while frames flow on (the peer switches to a
\* display it has been shown all the time).
SwitchDisplay ==
  /\ Change
  /\ Len(network) < MaxInFlight
  /\ network' = Append(network, Reset)
  /\ rekey' \in {rekey, TRUE}
  /\ UNCHANGED <<codec, sent, asked, unsupported, channel, queue, discard, threadVars, data, dropped>>

-----------------------------------------------------------------------------
(* The io loop.                                                              *)

\* Mutant: the frame that replaces the oldest one has a token of its own.
TokenForDropToo == <<Token>>
TokenForDrop == <<>>

\* Mutant: a dropped frame is no reason to refresh.
RefreshForDropNever == <<>>
RefreshForDrop == <<"refresh">>

\* video_queue.force_push(vf), and what follows from its result.
ForcePush(f) ==
  IF Len(queue) = VIDEO_QUEUE_SIZE
  THEN /\ dropped < MaxDropped /\ dropped' = dropped + 1
       /\ queue' = Append(Tail(queue), f)
       /\ data' = data \o RefreshForDrop
       /\ channel' = channel \o TokenForDrop
  ELSE /\ queue' = Append(queue, f)
       /\ channel' = Append(channel, Token)
       /\ UNCHANGED <<data, dropped>>

\* handle_msg_from_peer: VideoFrame, and SwitchDisplay, which is a reset.
HandleMsgFromPeer ==
  /\ network # <<>> /\ network' = Tail(network)
  /\ Len(channel) < MaxChannel /\ Len(data) < MaxData
  /\ IF Head(network) = Reset \/ Head(network).key
     THEN channel' = Append(channel, Head(network)) /\ UNCHANGED <<queue, data, dropped>>
     ELSE ForcePush(Head(network))
  /\ UNCHANGED <<hostVars, discard, threadVars, changes>>

\* handle_msg_from_ui: Message and ResetDecoder.
HandleMsgFromUi ==
  /\ data # <<>> /\ data' = Tail(data)
  /\ \/ /\ Head(data) = "refresh"
        /\ discard' = TRUE
        /\ asked' = TRUE
        /\ UNCHANGED <<unsupported, channel>>
     \/ /\ Head(data) = "supported"
        /\ unsupported' = mark_unsupported
        /\ asked' = (asked \/ codec \in mark_unsupported)
        /\ UNCHANGED <<discard, channel>>
     \/ /\ Head(data) = "reset"
        /\ channel' = Append(channel, Reset)
        /\ UNCHANGED <<discard, asked, unsupported>>
  /\ UNCHANGED <<codec, sent, rekey, network, queue, threadVars, dropped, changes>>

\* fps_control, when the decoder lags behind; the user may ask as well.
FpsControl ==
  /\ Change
  /\ queue # <<>>
  /\ data' = Append(data, "refresh")
  /\ UNCHANGED <<hostVars, network, channel, queue, discard, threadVars, dropped>>

\* use_texture_render_changed.
UseTextureRenderChanged ==
  /\ Change
  /\ data' = data \o <<"reset", "supported", "refresh">>
  /\ UNCHANGED <<hostVars, network, channel, queue, discard, threadVars, dropped>>

-----------------------------------------------------------------------------
(* The decoder thread.                                                       *)

\* The handler at a frame of a format: a new one, or one reset to the format.
Fresh(f) == decoder # f.codec
FirstFrame(f) == Fresh(f) \/ first_frame
Fails(f) == IF Fresh(f) THEN 0 ELSE fail_counter
BuildsOn(f) == ~Fresh(f) /\ ~f.key /\ last # Lost /\ f.n = Follows(last)

Least(a, b) == IF a < b THEN a ELSE b

\* fail_counter after a frame that was not decoded.
Failed(f) ==
  IF FirstFrame(f) THEN MAX_DECODE_FAIL_COUNTER
  ELSE Least(Fails(f) + 1, MAX_DECODE_FAIL_COUNTER)

\* handle_frame, and the checks after it: decoded right, decoded into a broken
\* picture, without a picture, or with an error.
HandleFrame(f) ==
  /\ Len(data) < MaxData
  /\ decoder' = f.codec
  /\ first_frame' = FALSE
  /\ \E result \in {"right", "broken", "no_picture", "error"} :
       LET ok == result \in {"right", "broken"}
           marks == fail_counter' >= MAX_DECODE_FAIL_COUNTER /\ f.codec \notin mark_unsupported
       IN
       /\ (result = "right") <=> f.codec \in Decodable /\ (f.key \/ BuildsOn(f))
       /\ (result = "broken") => f.codec \in Decodable /\ ~FirstFrame(f)
       /\ last' = IF result = "right" THEN f.n ELSE Lost
       /\ fail_counter' = IF ok THEN 0 ELSE Failed(f)
       /\ mark_unsupported' = mark_unsupported \cup IF marks THEN {f.codec} ELSE {}
       /\ data' = data \o (IF result = "error" THEN <<"refresh">> ELSE <<>>)
                       \o (IF marks THEN <<"supported">> ELSE <<>>)

\* MediaData::VideoFrame.
DecodeKey ==
  /\ held = NoFrame /\ channel # <<>>
  /\ Head(channel) \in Frame
  /\ channel' = Tail(channel)
  /\ discard' = FALSE
  /\ HandleFrame(Head(channel))
  /\ UNCHANGED <<hostVars, network, queue, held, dropped, changes>>

\* MediaData::VideoQueue: a token takes the oldest frame, if there is one.
Pop ==
  /\ held = NoFrame /\ channel # <<>>
  /\ Head(channel) = Token
  /\ channel' = Tail(channel)
  /\ IF queue = <<>> THEN UNCHANGED <<queue, held>>
     ELSE held' = Head(queue) /\ queue' = Tail(queue)
  /\ UNCHANGED <<hostVars, network, discard, handlerVars, mark_unsupported, data, dropped, changes>>

\* Mutant: a discarded frame is one more reason to refresh.
RefreshForDiscardToo == <<"refresh">>
RefreshForDiscard == <<>>

Discard ==
  /\ held # NoFrame /\ discard
  /\ held' = NoFrame
  /\ last' = Lost
  /\ data' = data \o RefreshForDiscard
  /\ UNCHANGED <<hostVars, network, channel, queue, discard, decoder, fail_counter, first_frame,
                 mark_unsupported, dropped, changes>>

DecodeQueued ==
  /\ held # NoFrame /\ ~discard
  /\ held' = NoFrame
  /\ HandleFrame(held)
  /\ UNCHANGED <<hostVars, network, channel, queue, discard, dropped, changes>>

\* MediaData::Reset.
ResetDecoder ==
  /\ held = NoFrame /\ channel # <<>>
  /\ Head(channel) = Reset
  /\ channel' = Tail(channel)
  /\ fail_counter' = 0
  /\ first_frame' = TRUE
  /\ last' = Lost
  /\ UNCHANGED <<hostVars, network, queue, discard, held, decoder, mark_unsupported, data, dropped, changes>>

Thread == DecodeKey \/ Pop \/ Discard \/ DecodeQueued \/ ResetDecoder

-----------------------------------------------------------------------------

Next ==
  \/ Encode \/ Restart \/ SwitchDisplay
  \/ HandleMsgFromPeer \/ HandleMsgFromUi \/ FpsControl \/ UseTextureRenderChanged
  \/ Thread

\* The host keeps encoding and starts over when it is asked to; the io loop and
\* the thread run.
Fairness ==
  /\ WF_vars(Encode) /\ WF_vars(Restart)
  /\ WF_vars(HandleMsgFromPeer) /\ WF_vars(HandleMsgFromUi)
  /\ WF_vars(Thread)

Spec == Init /\ [][Next]_vars
FairSpec == Spec /\ Fairness

-----------------------------------------------------------------------------
(* Properties                                                                *)

Elements(s) == {s[i] : i \in 1..Len(s)}

\* The tokens in the channel behind a place.
TokensAfter(s, p) == Cardinality({i \in (p + 1)..Len(s) : s[i] = Token})

\* Every token in the channel has its frame in the queue and every frame its
\* token, however many frames the full queue dropped: the thread never waits
\* for a frame, nor leaves one behind (force_push, VideoQueue).
TokensMatch == TokensAfter(channel, 0) = Len(queue)

\* What must hold in every state: types, with the bound of the queue, and the
\* match of tokens and frames, in one invariant.
Inv == TypeOK /\ TokensMatch

KeyAhead ==
  \/ rekey \/ asked
  \/ Elements(data) \cap {"refresh", "supported"} # {}
  \/ \E m \in Elements(network) \cup Elements(channel) : m \in Frame /\ m.key

\* As long as what is shown is not what the host encoded, a key frame is on its
\* way, or the request for one, or the decoder is new and will ask: whether a
\* frame was dropped, discarded, taken by the token of another, or the decoder
\* was replaced.  Not so once every codec of this machine counts as unsupported.
LossIsRepaired ==
  last = Lost => KeyAhead \/ first_frame \/ Decodable \subseteq mark_unsupported

\* In the end the client keeps showing what the host encodes, unless it has come
\* to take every codec it can decode for unsupported.
Shown == <>[](last # Lost) \/ <>[](Decodable \subseteq mark_unsupported)

-----------------------------------------------------------------------------
(* The inductive invariant of the proofs.                                    *)

IsKey(m) == m \in Frame /\ m.key

KeyIn(s) == \E i \in 1..Len(s) : IsKey(s[i])

\* A decoder that cannot decode its format has failed, and the format is marked.
FailureMarked == decoder \in Codec \ Decodable /\ ~first_frame => decoder \in mark_unsupported

\* What the host has not been told of is to be said; and a host whose codec is
\* marked is about to leave it, unless no codec is left.
MarksTold ==
  /\ mark_unsupported # unsupported => "supported" \in Elements(data)
  /\ codec \in mark_unsupported =>
       "supported" \in Elements(data) \/ asked \/ Codec = mark_unsupported

\* Frames are discarded only until the key frame that was asked for.
DiscardUntilKey == discard => rekey \/ asked \/ KeyIn(network) \/ KeyIn(channel)

\* Where the frames from n on are whole, frame f may come next.
Link(n, f) == n = Lost \/ f.n = Follows(n)

\* Of the messages under way behind place p, the first frame, or else the next one
\* the host encodes, is a key frame or may come after frame n.
Joins(p, n) ==
  /\ \A i \in (p + 1)..Len(network) :
       network[i] \in Frame /\ (\A j \in (p + 1)..(i - 1) : network[j] \notin Frame) =>
         network[i].key \/ Link(n, network[i])
  /\ (\A i \in (p + 1)..Len(network) : network[i] \notin Frame) => rekey \/ n \in {Lost, sent}

\* The connection loses nothing, and a new format starts with a key frame.
NetworkJoins ==
  \A i \in 1..Len(network) : network[i] \in Frame =>
    /\ Joins(i, network[i].n)
    /\ rekey \/ network[i].codec = codec \/ \E j \in (i + 1)..Len(network) : IsKey(network[j])

\* The frame before those that follow the newest key frame of the channel, at place
\* p: that key frame, or if there is none, what is held, or else what is shown.
BaseN(p) == IF p > 0 THEN channel[p].n ELSE IF held # NoFrame THEN held.n ELSE last
BaseCodec(p) == IF p > 0 THEN channel[p].codec ELSE decoder

\* The frames of the queue behind place m follow each other, from frame n to what is
\* under way, and are of the format of the host.
QueueJoins(m, n) ==
  /\ m = Len(queue) => Joins(0, n)
  /\ m < Len(queue) => Link(n, queue[m + 1]) /\ Joins(0, queue[Len(queue)].n)
  /\ \A i \in (m + 1)..(Len(queue) - 1) : Link(queue[i].n, queue[i + 1])
  /\ \A i \in (m + 1)..Len(queue) : queue[i].codec = codec

Newest(p) ==
  /\ p > 0 => IsKey(channel[p])
  /\ \A i \in (p + 1)..Len(channel) : ~IsKey(channel[i])

\* A key frame is to come into the channel.
KeyDue == rekey \/ asked \/ "refresh" \in Elements(data) \/ KeyIn(network)

\* What follows place p is whole, and of the format of the host.
WholeFrom(p) ==
  /\ QueueJoins(Len(queue) - TokensAfter(channel, p), BaseN(p))
  /\ BaseCodec(p) = codec

\* While no key frame is to come, what follows the newest one in the channel is
\* whole, and if there is none, what follows the frame that is shown.
Whole ==
  ~KeyDue =>
    /\ \A p \in 0..Len(channel) : Newest(p) => WholeFrom(p)
    /\ ~KeyIn(channel) /\ held # NoFrame => held.codec = codec /\ Link(last, held)

\* As long as nothing right is shown, a key frame is to come or in the channel, or
\* the decoder is new, or of a format that counts as unsupported.
Repaired ==
  last = Lost =>
    KeyDue \/ KeyIn(channel) \/ first_frame \/ decoder \in mark_unsupported

IInv ==
  /\ Inv /\ FailureMarked /\ MarksTold /\ DiscardUntilKey
  /\ NetworkJoins /\ Whole /\ Repaired
=============================================================================
