---------------------------- MODULE VideoService ----------------------------
(***************************************************************************)
(* The service of one display: GenericService::run driving run of           *)
(* src/src/server/video_service.rs.  The thread builds a capturer and an    *)
(* encoder, encodes what it captures for all subscribers alike, and starts  *)
(* over ("SWITCH") when what it was built for has changed, when a refresh   *)
(* is asked for, and when a subscriber arrives, because only the first      *)
(* frame of an encoder can be decoded by itself.                            *)
(*                                                                         *)
(* Configurations are numbered.  wanted stands for all a running service    *)
(* compares with what it was built for: the negotiated codec, the           *)
(* performance mode, the privacy mode, recording, the displays.             *)
(***************************************************************************)
EXTENDS ServiceTmpl, Naturals

CONSTANTS MaxConfig,     \* bound on the changes of configuration
          RepeatMax,     \* repeat_encode_max
          MaxFailTimes,  \* max_fail_times
          LatencyFree    \* encoder.latency_free()

ASSUME VideoNeedsSnapshot == NeedSnapshot = TRUE   \* new
ASSUME VideoBounds == {MaxConfig, RepeatMax, MaxFailTimes} \subseteq Nat /\ MaxFailTimes > 0
ASSUME LatencyFreeBool == LatencyFree \in BOOLEAN

VARIABLES
  pc,        \* where the service thread is
  wanted,    \* the configuration now
  built,     \* the configuration capturer and encoder were built for
  refresh,   \* OPTION_REFRESH
  key,       \* the encoder has encoded nothing: its next frame is a key frame
  first,     \* first_frame: it was not asked to
  captured,  \* yuv holds a frame
  repeats,   \* repeat_encode_counter
  repeating, \* the frame being encoded is a repeated one
  fails,     \* encode_fail_counter
  life,      \* of a connection: "new", "on", "gone"
  decodes,   \* the peer has the key frame of the encoder
  blind,     \* the peer was sent a frame it could not decode
  alone      \* history: promoted while nobody else was subscribed

threadVars == <<pc, built, key, first, captured, repeats, repeating, fails>>
peerVars == <<life, decodes, blind>>
vars == <<tmplVars, threadVars, wanted, refresh, peerVars, alone>>

Steps == {"active", "has_subscribes", "start", "clear_refresh", "ok", "checks",
          "broadcast", "capture", "snapshot", "swap", "drop_switch", "drop_go",
          "encode", "wait", "exit"}

TypeOK ==
  /\ TmplTypeOK
  /\ pc \in Steps
  /\ wanted \in 0..MaxConfig /\ built \in 0..wanted
  /\ refresh \in BOOLEAN
  /\ key \in BOOLEAN /\ first \in BOOLEAN /\ captured \in BOOLEAN /\ repeating \in BOOLEAN
  /\ repeats \in 0..RepeatMax
  /\ fails \in 0..(MaxFailTimes - 1)
  /\ life \in [Conn -> {"new", "on", "gone"}]
  /\ decodes \in [Conn -> BOOLEAN]
  /\ blind \in [Conn -> BOOLEAN]
  /\ alone \in SUBSET Conn

Init ==
  /\ TmplInit
  /\ pc = "active"
  /\ wanted = 0 /\ built = 0
  /\ refresh = FALSE
  /\ key = FALSE /\ first = FALSE /\ captured = FALSE /\ repeating = FALSE
  /\ repeats = 0
  /\ fails = 0
  /\ life = [c \in Conn |-> "new"]
  /\ decodes = [c \in Conn |-> FALSE]
  /\ blind = [c \in Conn |-> FALSE]
  /\ alone = {}

-----------------------------------------------------------------------------
(* Connections, their peers, and the configuration.                         *)

Subscribe(c) ==
  /\ life[c] = "new"
  /\ OnSubscribe(c)
  /\ life' = [life EXCEPT ![c] = "on"]
  /\ UNCHANGED <<active, threadVars, wanted, refresh, decodes, blind, alone>>

Unsubscribe(c) ==
  /\ life[c] = "on"
  /\ OnUnsubscribe(c)
  /\ life' = [life EXCEPT ![c] = "gone"]
  /\ decodes' = [decodes EXCEPT ![c] = FALSE]
  /\ blind' = [blind EXCEPT ![c] = FALSE]
  /\ alone' = alone \ {c}
  /\ UNCHANGED <<active, threadVars, wanted, refresh>>

\* The video thread of a client that cannot decode a frame asks for a refresh.
RefreshVideo(c) ==
  /\ life[c] = "on" /\ blind[c]
  /\ refresh' = TRUE
  /\ blind' = [blind EXCEPT ![c] = FALSE]
  /\ UNCHANGED <<tmplVars, threadVars, wanted, life, decodes, alone>>

Reconfigure ==
  /\ wanted < MaxConfig
  /\ wanted' = wanted + 1
  /\ UNCHANGED <<tmplVars, threadVars, refresh, peerVars, alone>>

StopService ==
  /\ Join
  /\ UNCHANGED <<subscribes, new_subscribes, threadVars, wanted, refresh, peerVars, alone>>

-----------------------------------------------------------------------------
(* The thread outside the main loop.                                        *)

Goto(step) == pc' = step

\* The steps that do nothing but decide where to go on.
Decide(step) ==
  /\ Goto(step)
  /\ UNCHANGED <<tmplVars, built, key, first, captured, repeats, repeating, fails,
                 wanted, refresh, peerVars, alone>>

\* bail!("SWITCH"), and every other way out of run: the outer loop goes on.
Switch == Decide("active")

CheckActive ==
  /\ pc = "active"
  /\ Decide(IF active THEN "has_subscribes" ELSE "exit")

CheckSubscribes ==
  /\ pc = "has_subscribes"
  /\ Decide(IF HasSubscribes THEN "start" ELSE "active")

\* get_capturer and setup_encoder.
Start ==
  /\ pc = "start"
  /\ built' = wanted
  /\ key' = TRUE /\ first' = TRUE /\ captured' = FALSE /\ repeating' = FALSE
  /\ repeats' = 0
  /\ fails' = 0
  /\ decodes' = [c \in Conn |-> FALSE]
  /\ Goto("clear_refresh")
  /\ UNCHANGED <<tmplVars, wanted, refresh, life, blind, alone>>

StartFails ==
  /\ pc = "start"
  /\ Switch

\* What has been asked for before the encoder was built is done.
ClearRefresh ==
  /\ pc = "clear_refresh"
  /\ refresh' = FALSE
  /\ Goto("ok")
  /\ UNCHANGED <<tmplVars, built, key, first, captured, repeats, repeating, fails,
                 wanted, peerVars, alone>>

-----------------------------------------------------------------------------
(* The main loop.                                                           *)

CheckOk ==
  /\ pc = "ok"
  /\ Decide(IF active /\ HasSubscribes THEN "checks" ELSE "active")

\* Mutant: a refresh is forgotten instead of done.
CheckRefreshForgets ==
  /\ pc = "checks"
  /\ IF built # wanted
     THEN Goto("broadcast")
     ELSE Goto("capture")
  /\ refresh' = FALSE
  /\ UNCHANGED <<tmplVars, built, key, first, captured, repeats, repeating, fails,
                 wanted, peerVars, alone>>

\* A change of configuration is noticed at once, except that the displays are
\* looked at once a second.
CheckRefresh ==
  /\ pc = "checks"
  /\ \/ (refresh \/ built # wanted) /\ Decide("broadcast")
     \/ ~refresh /\ Decide("capture")

\* try_broadcast_display_changed, when it is the displays that changed: the
\* snapshot in it promotes those that wait.  The service starts over.
Broadcast ==
  /\ pc = "broadcast"
  /\ \/ Switch
     \/ /\ built # wanted /\ new_subscribes # {}
        /\ SwapNewSubscribes
        /\ alone' = IF subscribes = {} THEN alone \cup new_subscribes ELSE alone
        /\ Goto("active")
        /\ UNCHANGED <<active, built, key, first, captured, repeats, repeating, fails,
                       wanted, refresh, peerVars>>

\* c.frame: a frame to encode.
CaptureFrame ==
  /\ pc = "capture"
  /\ repeats' = 0
  /\ captured' = TRUE
  /\ repeating' = FALSE
  /\ Goto("snapshot")
  /\ UNCHANGED <<tmplVars, built, key, first, fails, wanted, refresh, peerVars, alone>>

\* WouldBlock: a few times the last frame again, for an encoder that holds
\* frames back, and then nothing.
CaptureWouldBlock ==
  /\ pc = "capture"
  /\ IF ~LatencyFree /\ captured /\ repeats < RepeatMax
     THEN /\ repeats' = repeats + 1
          /\ repeating' = TRUE
          /\ Goto("snapshot")
     ELSE /\ Goto("ok")
          /\ UNCHANGED <<repeats, repeating>>
  /\ UNCHANGED <<tmplVars, built, key, first, captured, fails, wanted, refresh, peerVars, alone>>

CaptureFails ==
  /\ pc = "capture"
  /\ Decide("broadcast")

\* handle_one_frame: sp.snapshot makes a ServiceSwap if anybody waits.
Snapshot ==
  /\ pc = "snapshot"
  /\ Decide(IF new_subscribes # {} THEN "swap" ELSE "encode")

\* Mutant: new subscribers join the running encoder.
SwapGoesOn ==
  /\ pc = "swap"
  /\ Decide("drop_go")

Swap ==
  /\ pc = "swap"
  /\ Decide(IF subscribes # {} THEN "drop_switch" ELSE "drop_go")

SwapDrop ==
  /\ pc \in {"drop_switch", "drop_go"}
  /\ SwapNewSubscribes
  /\ alone' = IF pc = "drop_go" /\ subscribes = {} THEN alone \cup new_subscribes ELSE alone
  /\ Goto(IF pc = "drop_switch" THEN "active" ELSE "encode")
  /\ UNCHANGED <<active, built, key, first, captured, repeats, repeating, fails,
                 wanted, refresh, peerVars>>

AfterEncode == IF repeating THEN "ok" ELSE "wait"

\* send_video_frame to all that are subscribed by now.
EncodeAndSend ==
  /\ pc = "encode"
  /\ first' = FALSE
  /\ fails' = 0
  /\ key' = FALSE
  /\ decodes' = [c \in Conn |-> decodes[c] \/ (key /\ c \in subscribes)]
  /\ blind' = [c \in Conn |-> blind[c] \/ (c \in subscribes /\ ~key /\ ~decodes[c])]
  /\ Goto(AfterEncode)
  /\ UNCHANGED <<tmplVars, built, captured, repeats, repeating, wanted, refresh, life, alone>>

FailsAfter ==
  IF (first /\ LatencyFree) \/ fails + 1 >= MaxFailTimes THEN 0 ELSE fails + 1

\* A software encoder goes on; a hardware encoder is given up when it has failed
\* often enough or says so (ENCODE_NEED_SWITCH).
EncodeFails ==
  /\ pc = "encode"
  /\ first' = FALSE
  /\ fails' = FailsAfter
  /\ Goto(AfterEncode) \/ Goto("active")
  /\ UNCHANGED <<tmplVars, built, key, captured, repeats, repeating,
                 wanted, refresh, peerVars, alone>>

\* The wait for the frame to be fetched; a change of privacy mode ends it.
WaitFetched ==
  /\ pc = "wait"
  /\ \/ Decide("ok")
     \/ built # wanted /\ Decide("broadcast")

-----------------------------------------------------------------------------

Thread ==
  \/ CheckActive \/ CheckSubscribes \/ Start \/ StartFails \/ ClearRefresh
  \/ CheckOk \/ CheckRefresh \/ Broadcast
  \/ CaptureFrame \/ CaptureWouldBlock \/ CaptureFails
  \/ Snapshot \/ Swap \/ SwapDrop
  \/ EncodeAndSend \/ EncodeFails \/ WaitFetched

Peer(c) == Subscribe(c) \/ Unsubscribe(c) \/ RefreshVideo(c)

Next ==
  \/ Thread
  \/ \E c \in Conn : Peer(c)
  \/ Reconfigure \/ StopService

Spec == Init /\ [][Next]_vars

\* The thread runs; building, capturing and encoding succeed now and then (the
\* screen changes, the encoder works); a peer that cannot decode says so.
FairSpec ==
  /\ Spec
  /\ WF_vars(Thread)
  /\ SF_vars(Start) /\ SF_vars(CaptureFrame) /\ SF_vars(EncodeAndSend)
  /\ \A c \in Conn : WF_vars(RefreshVideo(c))

-----------------------------------------------------------------------------

\* handle_one_frame: "so that new sub and old sub share the same encoder after
\* switch".  A subscriber that arrives while another is served starts with a
\* key frame: it is never sent a frame it cannot decode.
SharedFromTheKey ==
  \A c \in Conn : blind[c] => c \in alone

\* With an encoder that is past its key frame, those it serves have it, or came
\* when the others had just left.
EncoderShared ==
  (~key /\ pc \in {"ok", "checks", "capture", "snapshot", "encode", "wait"}) =>
    \A c \in subscribes : decodes[c] \/ c \in alone

\* The inductive invariant behind both: a promotion that goes on with the running
\* encoder happens only while nobody is subscribed, and an encoder that is about
\* to serve has encoded nothing.
IInv ==
  /\ TypeOK
  /\ SharedFromTheKey
  /\ EncoderShared
  /\ pc = "drop_go" => subscribes = {}
  /\ pc = "clear_refresh" => key

\* Whoever subscribes gets a picture if it stays, whatever fails and whoever else
\* comes and goes: also a subscriber that was given to a running encoder, whose
\* request for a refresh comes at any moment, also while the service starts over.
Settles ==
  \A c \in Conn : (life[c] = "on") ~> (decodes[c] \/ life[c] # "on" \/ ~active)
=============================================================================
