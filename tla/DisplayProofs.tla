---------------------------- MODULE DisplayProofs ----------------------------
(***************************************************************************)
(* What the host does for each display, for any connections.                *)
(*                                                                         *)
(* DisplayService, for any numbers of changes and of guards: its types, and *)
(* that is_synced does not hide a change from a subscriber, from the        *)
(* inductive invariant IInv.                                                *)
(*                                                                         *)
(* CodecNegotiation, for any displays, formats the host encodes and reports *)
(* of peers: its types, of which the point is that what is negotiated is a  *)
(* format, never the preference "Auto", and that a service knows whether it *)
(* sends screen content, from the inductive invariant CodecIInv.            *)
(***************************************************************************)
EXTENDS DisplayService, CodecNegotiation, TLAPS

-----------------------------------------------------------------------------
(* DisplayService.                                                           *)

\* The bounds, one by one.
LEMMA Bounds == MaxChange \in Nat /\ MaxIgnore \in Nat
  BY DisplayBounds

\* A connection that leaves is not subscribed any longer, and nobody is added to
\* those that are.
LEMMA OnUnsubscribeShrinks ==
  ASSUME NEW c \in Conn, TmplTypeOK, OnUnsubscribe(c)
  PROVE  /\ subscribes' = subscribes \ {c}
         /\ new_subscribes' \in SUBSET Conn
  BY DEF OnUnsubscribe, TmplTypeOK

\* A connection that subscribes waits for a snapshot.
LEMMA OnSubscribeWaits ==
  ASSUME NEW c \in Conn, TmplTypeOK, OnSubscribe(c)
  PROVE  /\ subscribes' = subscribes
         /\ new_subscribes' \in SUBSET Conn
  BY DisplayNeedsSnapshot DEF OnSubscribe, TmplTypeOK

\* A service that has just been created is in order: nothing is synced yet.
LEMMA InitIInv == Init => IInv
  <1> SUFFICES ASSUME Init
               PROVE  IInv
    OBVIOUS
  <1>1. TmplTypeOK
    BY DEF Init, TmplInit, TmplTypeOK
  <1>2. real \in Version /\ displays \in Version /\ msg \in Version
    BY Bounds DEF Init, Version
  <1>3. ignores \in 0..MaxIgnore /\ sleeping \in 0..ignores /\ woken \in 0..ignores /\ Guards
    BY Bounds DEF Init, Guards
  <1>4. /\ at \in [Caller -> {"idle", "compare", "write", "done"}]
        /\ all \in [Caller -> Version]
        /\ life \in [Conn -> {"new", "login", "on", "gone"}]
        /\ told \in [Conn -> Version]
    BY Bounds DEF Init, Version
  <1>5. TypeOK
    BY <1>1, <1>2, <1>3, <1>4 DEF Init, TypeOK, Steps
  <1> QED
    BY <1>3, <1>5 DEF Init, IInv, Synced

\* No step of the thread, of a caller, of a connection or of a guard breaks IInv:
\* one case per action.
LEMMA StepIInv == IInv /\ [Next]_vars => IInv'
  <1> SUFFICES ASSUME IInv, [Next]_vars
               PROVE  IInv'
    OBVIOUS
  <1>t. TypeOK /\ TmplTypeOK
    BY DEF IInv, TypeOK
  <1>c. "video" \in Caller /\ "display" \in Caller /\ Conn \subseteq Caller
    BY DEF Caller
  <1>z. 0 \in Version
    BY Bounds DEF Version
  <1> USE DEF tmplVars, threadVars, syncVars, ignoreVars, callVars, peerVars
  <1>1. ASSUME NEW k \in Caller, Compare(k)
        PROVE  IInv'
    <2>1. at' \in [Caller -> {"idle", "compare", "write", "done"}]
      BY <1>1, <1>t DEF Compare, Done, TypeOK
    <2>2. all' \in [Caller -> Version]
      BY <1>1, <1>t, <1>z DEF Compare, Done, TypeOK
    <2> QED
      BY <1>1, <2>1, <2>2 DEF Compare, IInv, TypeOK, TmplTypeOK, Guards, Synced
  <1>2. ASSUME NEW k \in Caller, Write(k)
        PROVE  IInv'
    <2>1. at' \in [Caller -> {"idle", "compare", "write", "done"}]
      BY <1>2, <1>t DEF Write, Done, TypeOK
    <2>2. all' \in [Caller -> Version] /\ displays' \in Version /\ is_synced' \in BOOLEAN
      BY <1>2, <1>t, <1>z DEF Write, Done, TypeOK
    <2>3. TypeOK'
      BY <1>2, <1>t, <2>1, <2>2 DEF Write, TypeOK, TmplTypeOK
    <2>4. is_synced' => is_synced /\ ignored'
      BY <1>2 DEF Write
    <2> QED
      BY <1>2, <2>3, <2>4 DEF Write, IInv, Guards, Synced
  <1>3. CASE VideoChecks
    <2>1. at' \in [Caller -> {"idle", "compare", "write", "done"}]
      BY <1>3, <1>t DEF VideoChecks, Enumerate, Return, TypeOK
    <2>2. all' \in [Caller -> Version]
      BY <1>3, <1>t, <1>c DEF VideoChecks, Enumerate, TypeOK
    <2> QED
      BY <1>3, <2>1, <2>2 DEF VideoChecks, IInv, TypeOK, TmplTypeOK, Guards, Synced
  <1>4. ASSUME NEW c \in Conn, Login(c)
        PROVE  IInv'
    <2>1. at' \in [Caller -> {"idle", "compare", "write", "done"}]
      BY <1>4, <1>t DEF Login, Enumerate, TypeOK
    <2>2. all' \in [Caller -> Version] /\ life' \in [Conn -> {"new", "login", "on", "gone"}]
      BY <1>4, <1>t, <1>c DEF Login, Enumerate, TypeOK
    <2> QED
      BY <1>4, <2>1, <2>2 DEF Login, IInv, TypeOK, TmplTypeOK, Guards, Synced
  <1>5. ASSUME NEW c \in Conn, GetSyncDisplays(c)
        PROVE  IInv'
    <2>1. at' \in [Caller -> {"idle", "compare", "write", "done"}]
      BY <1>5, <1>t DEF GetSyncDisplays, Return, TypeOK
    <2>2. told' \in [Conn -> Version]
      BY <1>5, <1>t DEF GetSyncDisplays, TypeOK
    <2>3. Synced'
      BY <1>5, <1>t DEF GetSyncDisplays, IInv, Synced, TypeOK, TmplTypeOK
    <2> QED
      BY <1>5, <2>1, <2>2, <2>3 DEF GetSyncDisplays, IInv, TypeOK, TmplTypeOK, Guards
  <1>6. ASSUME NEW c \in Conn, Subscribe(c)
        PROVE  IInv'
    <2>1. subscribes' = subscribes /\ new_subscribes' \in SUBSET Conn
      BY <1>6, <1>t, OnSubscribeWaits DEF Subscribe
    <2>2. life' \in [Conn -> {"new", "login", "on", "gone"}]
      BY <1>6, <1>t DEF Subscribe, TypeOK
    <2> QED
      BY <1>6, <2>1, <2>2 DEF Subscribe, IInv, TypeOK, TmplTypeOK, Guards, Synced
  <1>7. ASSUME NEW c \in Conn, Unsubscribe(c)
        PROVE  IInv'
    <2>1. subscribes' = subscribes \ {c} /\ new_subscribes' \in SUBSET Conn
      BY <1>7, <1>t, OnUnsubscribeShrinks DEF Unsubscribe
    <2>2. /\ life' \in [Conn -> {"new", "login", "on", "gone"}]
          /\ told' \in [Conn -> Version]
          /\ quiet' \in SUBSET Conn
      BY <1>7, <1>t, <1>z DEF Unsubscribe, TypeOK
    <2>3. Synced'
      BY <1>7, <1>t, <2>1 DEF Unsubscribe, IInv, Synced, TypeOK, TmplTypeOK
    <2> QED
      BY <1>7, <2>1, <2>2, <2>3 DEF Unsubscribe, IInv, TypeOK, TmplTypeOK, Guards
  <1>8. CASE DisplaysChange
    <2>1. real' \in Version
      BY <1>8, <1>t, Bounds DEF DisplaysChange, TypeOK, Version
    <2> QED
      BY <1>8, <2>1 DEF DisplaysChange, IInv, TypeOK, TmplTypeOK, Guards, Synced
  <1>9. CASE IgnoreChanges
    <2>1. /\ ignores' \in 0..MaxIgnore /\ sleeping' \in 0..ignores' /\ woken' \in 0..ignores'
          /\ Guards'
      BY <1>9, <1>t, Bounds DEF IgnoreChanges, IInv, Guards, TypeOK
    <2> QED
      BY <1>9, <2>1 DEF IgnoreChanges, IInv, TypeOK, TmplTypeOK, Synced
  <1>10. CASE DropGuard
    <2>1. /\ ignores' \in 0..MaxIgnore /\ sleeping' \in 0..ignores' /\ woken' \in 0..ignores'
          /\ Guards'
      BY <1>10, <1>t, Bounds DEF DropGuard, IInv, Guards, TypeOK
    <2> QED
      BY <1>10, <2>1 DEF DropGuard, IInv, TypeOK, TmplTypeOK, Synced
  <1>11. CASE Wake
    <2>1. /\ ignores' \in 0..MaxIgnore /\ sleeping' \in 0..ignores' /\ woken' \in 0..ignores'
          /\ Guards'
      BY <1>11, <1>t, Bounds DEF Wake, IInv, Guards, TypeOK
    <2>2. woken' > 0
      BY <1>11, <1>t, Bounds DEF Wake, TypeOK
    <2>3. TypeOK'
      BY <1>11, <1>t, <2>1 DEF Wake, TypeOK, TmplTypeOK
    <2>4. woken' # 0 /\ pc' = pc /\ is_synced' = is_synced
      BY <1>11, <2>1, <2>2 DEF Wake, threadVars, syncVars
    <2> QED
      BY <2>1, <2>2, <2>3, <2>4 DEF IInv, Synced
  <1>12. CASE Trigger
    <2>1. /\ ignores' \in 0..MaxIgnore /\ sleeping' \in 0..ignores' /\ woken' \in 0..ignores'
          /\ Guards'
      BY <1>12, <1>t, Bounds DEF Trigger, IInv, Guards, TypeOK
    <2> QED
      BY <1>12, <2>1 DEF Trigger, IInv, TypeOK, TmplTypeOK, Synced
  <1>13. CASE StopService
    BY <1>13 DEF StopService, Join, IInv, TypeOK, TmplTypeOK, Guards, Synced
  <1>14. CASE CheckActive \/ CheckSubscribes \/ CheckOk \/ Snapshot \/ CheckFails
    <2>1. /\ pc # "send" /\ pc' \in Steps \ {"send", "drop_bail", "drop_ignored", "drop_go"}
          /\ UNCHANGED <<tmplVars, msg, real, syncVars, ignoreVars, callVars, peerVars>>
      BY <1>14 DEF CheckActive, CheckSubscribes, CheckOk, Snapshot, CheckFails, Decide, Steps
    <2> QED
      BY <2>1 DEF IInv, TypeOK, TmplTypeOK, Guards, Synced
  <1>15. CASE Swap
    BY <1>15 DEF Swap, IInv, TypeOK, TmplTypeOK, Steps, Guards, Synced
  <1>16. CASE SwapDrop
    <2>1. TypeOK'
      BY <1>16, <1>t DEF SwapDrop, SwapNewSubscribes, TypeOK, TmplTypeOK, Steps
    <2>2. Synced'
      BY <1>16, <1>t DEF SwapDrop, SwapNewSubscribes, IInv, Synced
    <2> QED
      BY <1>16, <2>1, <2>2 DEF SwapDrop, IInv, Guards
  <1>17. CASE Check
    <2>1. at' \in [Caller -> {"idle", "compare", "write", "done"}]
      BY <1>17, <1>t DEF Check, Enumerate, TypeOK
    <2>2. all' \in [Caller -> Version]
      BY <1>17, <1>t DEF Check, Enumerate, TypeOK
    <2> QED
      BY <1>17, <2>1, <2>2 DEF Check, IInv, TypeOK, TmplTypeOK, Steps, Guards, Synced
  <1>18. CASE GetDisplaysMsg
    <2>1. at' \in [Caller -> {"idle", "compare", "write", "done"}]
      BY <1>18, <1>t DEF GetDisplaysMsg, Return, TypeOK
    <2>2. TypeOK'
      BY <1>18, <1>t, <2>1 DEF GetDisplaysMsg, TypeOK, TmplTypeOK, Steps
    <2>3. CASE is_synced
      BY <1>18, <2>2, <2>3 DEF GetDisplaysMsg, IInv, Guards, Synced
    <2>4. CASE ~is_synced
      BY <1>18, <2>2, <2>4 DEF GetDisplaysMsg, IInv, Guards, Synced
    <2> QED
      BY <2>3, <2>4
  <1>19. CASE Send
    <2>1. msg' \in Version /\ told' \in [Conn -> Version] /\ quiet' \in SUBSET Conn
      BY <1>19, <1>t, <1>z DEF Send, TypeOK
    <2>2. TypeOK'
      BY <1>19, <1>t, <2>1 DEF Send, TypeOK, TmplTypeOK, Steps
    <2>3. Synced'
      BY <1>19, <1>t DEF Send, IInv, Synced, TypeOK, TmplTypeOK
    <2> QED
      BY <1>19, <2>2, <2>3 DEF Send, IInv, Guards
  <1>20. CASE UNCHANGED vars
    BY <1>20 DEF vars, IInv, TypeOK, TmplTypeOK, Guards, Synced
  <1> QED
    BY <1>1, <1>2, <1>3, <1>4, <1>5, <1>6, <1>7, <1>8, <1>9, <1>10, <1>11, <1>12, <1>13,
       <1>14, <1>15, <1>16, <1>17, <1>18, <1>19, <1>20, <1>c
       DEF Next, Thread, Video, Connection

\* What is true of the record, the flag and the guards at every step (see IInv).
THEOREM Invariance == Spec => []IInv
  BY InitIInv, StepIInv, PTL DEF Spec

\* No variable ever leaves its type; no more guards sleep or wake than were taken.
THEOREM TypeCorrect == Spec => []TypeOK
  <1>1. IInv => TypeOK
    BY DEF IInv
  <1> QED
    BY <1>1, Invariance, PTL

\* When is_synced is set and nothing is under way, every subscriber was sent what
\* the record holds, whoever wrote it and whatever guards overlapped.
THEOREM SyncedCorrect == Spec => []Synced
  <1>1. IInv => Synced
    BY DEF IInv
  <1> QED
    BY <1>1, Invariance, PTL

-----------------------------------------------------------------------------
(* CodecNegotiation.                                                         *)

\* Whatever peers can be served with is a format.
LEMMA UseableFormats ==
  ASSUME NEW P, NEW D
  PROVE  Useable(P, D) \subseteq CodecFormat \ {"Unknown"}
  BY HostedHardware DEF Useable, CodecFormat, Hardware

\* The most frequent preference is one, or "Auto".
LEMMA MostFrequentPrefers ==
  ASSUME NEW P, NEW D, NEW p \in MostFrequent(P, D)
  PROVE  p \in PreferCodec
  <1>1. Useable(P, D) \subseteq PreferCodec
    BY UseableFormats DEF CodecFormat, PreferCodec
  <1>2. "Auto" \in PreferCodec
    BY DEF PreferCodec
  <1> QED
    BY <1>1, <1>2 DEF MostFrequent

\* A preference becomes a format, "Auto" too.
LEMMA NegotiatedFormat ==
  ASSUME NEW P, NEW D, NEW p \in PreferCodec, NEW f \in CodecFormat
  PROVE  Negotiated(P, D, p, f) \in CodecFormat
  <1>1. AutoCodec(P, D, f) \in CodecFormat
    BY DEF AutoCodec, CodecFormat, Hardware
  <1>2. p # "Auto" => p \in CodecFormat
    BY DEF PreferCodec, CodecFormat
  <1> QED
    BY <1>1, <1>2 DEF Negotiated

\* What Encoder::update leaves behind, with an update ...
LEMMA UpdateTypes ==
  ASSUME CodecTypeOK, NEW P \in SUBSET Conn, NEW D \in [Conn -> Decoding], Update(P, D)
  PROVE  /\ peers' \in SUBSET Conn /\ decodings' \in [Conn -> Decoding]
         /\ most' \in PreferCodec /\ format' \in CodecFormat
  <1>1. PICK p \in MostFrequent(P, D) : most' = p /\ format' = Negotiated(P, D, p, format)
    BY DEF Update
  <1>2. p \in PreferCodec
    BY MostFrequentPrefers
  <1>3. Negotiated(P, D, p, format) \in CodecFormat
    BY <1>2, NegotiatedFormat DEF CodecTypeOK
  <1> QED
    BY <1>1, <1>2, <1>3 DEF Update

\* ... and with a check.
LEMMA CheckTypes ==
  ASSUME CodecTypeOK, CheckEncoding
  PROVE  /\ peers' \in SUBSET Conn /\ decodings' \in [Conn -> Decoding]
         /\ most' \in PreferCodec /\ format' \in CodecFormat
  <1>1. Negotiated(peers, decodings, most, format) \in CodecFormat
    BY NegotiatedFormat DEF CodecTypeOK
  <1> QED
    BY <1>1 DEF CheckEncoding, sharedVars, CodecTypeOK

\* What a display is to be sent in is a format.
LEMMA WantedFormat ==
  ASSUME CodecTypeOK, NEW d \in Display
  PROVE  Wanted(d) \in CodecFormat
  BY DEF CodecTypeOK, Wanted, CodecFormat, Hardware

\* Connections report, close and set modes.
LEMMA ReportTypes ==
  ASSUME CodecTypeOK,
         \/ \E c \in Conn : ReportDecoding(c) \/ Close(c)
         \/ \E d \in Display : SetPerformanceMode(d) \/ Restart(d)
  PROVE  CodecTypeOK'
  <1>0. MaxChanges \in Nat
    BY ChangesNat
  <1>1. Counted => changes' \in 0..MaxChanges
    BY <1>0 DEF Counted, CodecTypeOK
  <1>2. ASSUME NEW c \in Conn, ReportDecoding(c)
        PROVE  CodecTypeOK'
    <2>1. PICK e \in Decoding : Update(peers \cup {c}, [decodings EXCEPT ![c] = e])
      BY <1>2 DEF ReportDecoding
    <2>2. peers \cup {c} \in SUBSET Conn /\ [decodings EXCEPT ![c] = e] \in [Conn -> Decoding]
      BY DEF CodecTypeOK
    <2>3. /\ peers' \in SUBSET Conn /\ decodings' \in [Conn -> Decoding]
          /\ most' \in PreferCodec /\ format' \in CodecFormat
      BY <2>1, <2>2, UpdateTypes
    <2> QED
      BY <1>1, <1>2, <2>3 DEF ReportDecoding, CodecTypeOK
  <1>3. ASSUME NEW c \in Conn, Close(c)
        PROVE  CodecTypeOK'
    <2>1. /\ peers' \in SUBSET Conn /\ decodings' \in [Conn -> Decoding]
          /\ most' \in PreferCodec /\ format' \in CodecFormat
      <3>1. peers \ {c} \in SUBSET Conn /\ decodings \in [Conn -> Decoding]
        BY DEF CodecTypeOK
      <3> QED
        BY <1>3, <3>1, UpdateTypes DEF Close
    <2> QED
      BY <1>1, <1>3, <2>1 DEF Close, CodecTypeOK
  <1>4. ASSUME NEW d \in Display, SetPerformanceMode(d)
        PROVE  CodecTypeOK'
    BY <1>1, <1>4 DEF SetPerformanceMode, sharedVars, CodecTypeOK
  <1>5. ASSUME NEW d \in Display, Restart(d)
        PROVE  CodecTypeOK'
    BY <1>1, <1>5 DEF Restart, Goto, Stages, sharedVars, CodecTypeOK
  <1> QED
    BY <1>2, <1>3, <1>4, <1>5

\* The threads of the displays choose encoders, and say which.
LEMMA ThreadTypes ==
  ASSUME CodecTypeOK, NEW d \in Display, CodecThread(d)
  PROVE  CodecTypeOK'
  <1>1. ASSUME NEW next \in Stages, Goto(d, next)
        PROVE  stage' \in [Display -> Stages]
    BY <1>1 DEF Goto, CodecTypeOK
  <1>2. {"config", "choose", "fallback", "label", "run", "drop", "out"} \subseteq Stages
    BY DEF Stages
  <1>3. \A e : SetFallback(e) => format' \in CodecFormat
    BY DEF SetFallback, CodecFormat, Hardware
  <1>4. CASE Run(d)
    BY <1>1, <1>2, <1>4 DEF Run, sharedVars, CodecTypeOK
  <1>5. CASE GetEncoderConfig(d)
    BY <1>1, <1>2, <1>5, CheckTypes DEF GetEncoderConfig, CodecTypeOK
  <1>6. CASE Choose(d)
    <2>1. Hosted \cup {"ScreenContent"} \subseteq CodecFormat \ {"Unknown"}
      BY HostedHardware DEF CodecFormat, Hardware
    <2>2. encoder' \in [Display -> CodecFormat \ {"Unknown"}]
      BY <1>6, <2>1 DEF Choose, CodecTypeOK
    <2>3. stage' \in [Display -> Stages]
      BY <1>1, <1>2, <1>6 DEF Choose
    <2> QED
      BY <1>6, <2>2, <2>3 DEF Choose, sharedVars, CodecTypeOK
  <1>7. CASE Fallback(d)
    BY <1>1, <1>2, <1>3, <1>7 DEF Fallback, sharedVars, CodecTypeOK
  <1>8. CASE Label(d)
    BY <1>1, <1>2, <1>8, WantedFormat DEF Label, sharedVars, CodecTypeOK
  <1>9. CASE SwitchCodec(d)
    BY <1>1, <1>2, <1>9 DEF SwitchCodec, sharedVars, CodecTypeOK
  <1>10. CASE HotSwap(d)
    BY <1>1, <1>2, <1>3, <1>10 DEF HotSwap, sharedVars, CodecTypeOK
  <1>11. CASE SwitchBack(d)
    BY <1>1, <1>2, <1>11, CheckTypes DEF SwitchBack, CodecTypeOK
  <1>12. CASE DropRaii(d)
    BY <1>1, <1>2, <1>12, CheckTypes DEF DropRaii, CodecTypeOK
  <1> QED
    BY <1>4, <1>5, <1>6, <1>7, <1>8, <1>9, <1>10, <1>11, <1>12 DEF CodecThread

\* Only a service in office mode is to send screen content.
LEMMA WantedMode ==
  ASSUME NEW d \in Display
  PROVE  Wanted(d) = "ScreenContent" <=> d \in want_scc
  BY DEF Wanted

\* What is known of the mode of one display.
OfMode(d) ==
  /\ stage[d] = "run" =>
       /\ codec_format[d] = "ScreenContent" <=> encoder[d] = "ScreenContent"
       /\ codec_format[d] = "ScreenContent" <=> d \in want_scc
  /\ stage[d] \in {"fallback", "label"} => (encoder[d] = "ScreenContent" <=> d \in want_scc)

\* A step of a thread keeps it, for its display and for the others.
LEMMA ThreadKeepsMode ==
  ASSUME CodecTypeOK, NEW d \in Display, OfMode(d), NEW e \in Display, CodecThread(e)
  PROVE  OfMode(d)'
  <1>1. /\ DOMAIN stage = Display /\ DOMAIN encoder = Display /\ DOMAIN codec_format = Display
    BY DEF CodecTypeOK
  <1>2. \A next : Goto(e, next) => stage'[e] = next /\ (d # e => stage'[d] = stage[d])
    BY <1>1 DEF Goto
  <1>3. ASSUME d # e
        PROVE  OfMode(d)'
    <2>1. /\ encoder'[d] = encoder[d] /\ codec_format'[d] = codec_format[d]
          /\ d \in want_scc' <=> d \in want_scc
      BY <1>1, <1>3 DEF CodecThread, Run, GetEncoderConfig, Choose, Fallback, Label, SwitchCodec,
                        HotSwap, SwitchBack, DropRaii
    <2>2. stage'[d] = stage[d]
      BY <1>2, <1>3 DEF CodecThread, Run, GetEncoderConfig, Choose, Fallback, Label, SwitchCodec,
                        HotSwap, SwitchBack, DropRaii
    <2> QED
      BY <2>1, <2>2 DEF OfMode
  <1>4. CASE d = e /\ Choose(e)
    <2>1. \/ stage'[d] = "drop"
          \/ stage'[d] = "fallback" /\ encoder'[d] = Wanted(d) /\ want_scc' = want_scc
      BY <1>1, <1>2, <1>4 DEF Choose
    <2> QED
      BY <2>1, WantedMode DEF OfMode
  <1>5. CASE d = e /\ Fallback(e)
    <2>1. stage[d] = "fallback" /\ stage'[d] = "label" /\ UNCHANGED <<encoder, want_scc>>
      BY <1>2, <1>5 DEF Fallback
    <2> QED
      BY <2>1 DEF OfMode
  <1>6. CASE d = e /\ Label(e)
    <2>1. /\ stage[d] = "label" /\ stage'[d] = "run" /\ UNCHANGED <<encoder, want_scc>>
          /\ codec_format'[d] = Wanted(d)
      BY <1>1, <1>2, <1>6 DEF Label
    <2> QED
      BY <2>1, WantedMode DEF OfMode
  <1>7. CASE d = e /\ ~Choose(e) /\ ~Fallback(e) /\ ~Label(e)
    <2>1. stage'[d] \in {"config", "choose", "drop", "out"}
      BY <1>2, <1>7 DEF CodecThread, Run, GetEncoderConfig, SwitchCodec, HotSwap, SwitchBack, DropRaii
    <2> QED
      BY <2>1 DEF OfMode
  <1> QED
    BY <1>3, <1>4, <1>5, <1>6, <1>7

\* All else leaves it alone, or has the thread start over.
LEMMA OthersKeepMode ==
  ASSUME CodecTypeOK, NEW d \in Display, OfMode(d),
         \/ \E c \in Conn : ReportDecoding(c) \/ Close(c)
         \/ \E e \in Display : SetPerformanceMode(e) \/ Restart(e)
         \/ UNCHANGED codecVars
  PROVE  OfMode(d)'
  <1>1. UNCHANGED <<want_scc, encoder, codec_format>>
    BY DEF ReportDecoding, Close, SetPerformanceMode, Restart, codecVars
  <1>2. stage'[d] = stage[d] \/ stage'[d] = "drop"
    BY DEF ReportDecoding, Close, SetPerformanceMode, Restart, Goto, codecVars, CodecTypeOK
  <1> QED
    BY <1>1, <1>2 DEF OfMode

\* The inductive invariant is the types and what is known of each mode.
LEMMA CodecIInvParts ==
  CodecIInv <=> CodecTypeOK /\ \A d \in Display : OfMode(d)
  BY DEF CodecIInv, LabelKeepsMode, OfMode

\* However updates, fallbacks and readings of the negotiated codec interleave, the
\* inductive invariant of the negotiation holds.
THEOREM CodecInvariance == CodecSpec => []CodecIInv
  <1>1. CodecInit => CodecIInv
    <2>1. CodecInit => CodecTypeOK
      BY ChangesNat DEF CodecInit, CodecTypeOK, PreferCodec, CodecFormat, Hardware, Stages
    <2>2. CodecInit => \A d \in Display : OfMode(d)
      BY DEF CodecInit, OfMode
    <2> QED
      BY <2>1, <2>2, CodecIInvParts
  <1>2. CodecIInv /\ [CodecNext]_codecVars => CodecIInv'
    <2> SUFFICES ASSUME CodecIInv, [CodecNext]_codecVars
                 PROVE  CodecIInv'
      OBVIOUS
    <2>1. CodecTypeOK /\ \A d \in Display : OfMode(d)
      BY CodecIInvParts
    <2>2. CodecTypeOK'
      <3>1. CASE UNCHANGED codecVars
        BY <2>1, <3>1 DEF codecVars, sharedVars, CodecTypeOK
      <3>2. CASE CodecNext
        BY <2>1, <3>2, ReportTypes, ThreadTypes DEF CodecNext
      <3> QED
        BY <3>1, <3>2
    <2>3. ASSUME NEW d \in Display
          PROVE  OfMode(d)'
      BY <2>1, ThreadKeepsMode, OthersKeepMode DEF CodecNext
    <2> QED
      BY <2>2, <2>3 DEF CodecIInv, LabelKeepsMode, OfMode
  <1> QED
    BY <1>1, <1>2, PTL DEF CodecSpec

\* Whatever peers report and however the threads of the displays interleave, the
\* negotiated codec is a format, and every thread has an encoder with one
\* (Encoder::update and set_fallback, src/libs/scrap/src/common/codec.rs).
THEOREM CodecTypeCorrect == CodecSpec => []CodecTypeOK
  <1>1. CodecIInv => CodecTypeOK
    BY DEF CodecIInv
  <1> QED
    BY <1>1, CodecInvariance, PTL

\* A running service takes its encoder for one of screen content exactly when it
\* is one, whoever sets the negotiated codec between its two readings
\* (get_encoder_config and setup_encoder, src/src/server/video_service.rs).
THEOREM LabelKeepsModeCorrect == CodecSpec => []LabelKeepsMode
  <1>1. CodecIInv => LabelKeepsMode
    BY DEF CodecIInv
  <1> QED
    BY <1>1, CodecInvariance, PTL
=============================================================================
