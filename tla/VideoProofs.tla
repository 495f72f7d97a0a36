----------------------------- MODULE VideoProofs -----------------------------
(***************************************************************************)
(* The pictures of a host, from the encoder to the peers.  VideoService, for *)
(* any connections, numbers of configurations, repeated frames and failures: *)
(* its types, and that subscribers share an encoder from its key frame on.   *)
(* VideoChannel, for any connections, displays and numbers of messages: its  *)
(* types, that a peer gets the frames of a display in their order, and that  *)
(* with one display no service waits without a cause.  Each from its         *)
(* inductive invariant.                                                     *)
(***************************************************************************)
EXTENDS VideoService, VideoChannel, SequenceTheorems, WellFoundedInduction, TLAPS

-----------------------------------------------------------------------------
(* The video service.                                                       *)

\* The bounds, one by one.
LEMMA Bounds ==
  MaxConfig \in Nat /\ RepeatMax \in Nat /\ MaxFailTimes \in Nat /\ MaxFailTimes > 0
  BY VideoBounds

\* A connection that leaves is not served any longer, and nobody is added to
\* those that are.
LEMMA OnUnsubscribeShrinks ==
  ASSUME NEW c \in Conn, TmplTypeOK, OnUnsubscribe(c)
  PROVE  /\ subscribes' = subscribes \ {c}
         /\ new_subscribes' \in SUBSET Conn
  BY DEF OnUnsubscribe, TmplTypeOK

\* A connection that subscribes waits: nobody is added to those that are served.
LEMMA OnSubscribeWaits ==
  ASSUME NEW c \in Conn, TmplTypeOK, OnSubscribe(c)
  PROVE  /\ subscribes' = subscribes
         /\ new_subscribes' \in SUBSET Conn
  BY VideoNeedsSnapshot DEF OnSubscribe, TmplTypeOK

\* The counter of failures stays below its limit.
LEMMA FailsAfterType ==
  ASSUME TypeOK
  PROVE  FailsAfter \in 0..(MaxFailTimes - 1)
  BY Bounds DEF FailsAfter, TypeOK

\* A service that has just been created is in order.
LEMMA InitIInv == Init => IInv
  <1> SUFFICES ASSUME Init
               PROVE  IInv
    OBVIOUS
  <1>1. TmplTypeOK
    BY DEF Init, TmplInit, TmplTypeOK
  <1>2. wanted \in 0..MaxConfig /\ built \in 0..wanted
    BY Bounds DEF Init
  <1>3. repeats \in 0..RepeatMax /\ fails \in 0..(MaxFailTimes - 1)
    BY Bounds DEF Init
  <1>4. /\ pc \in Steps
        /\ refresh \in BOOLEAN
        /\ key \in BOOLEAN /\ first \in BOOLEAN /\ captured \in BOOLEAN /\ repeating \in BOOLEAN
        /\ alone \in SUBSET Conn
    BY DEF Init, Steps
  <1>5. /\ life \in [Conn -> {"new", "on", "gone"}]
        /\ decodes \in [Conn -> BOOLEAN]
        /\ blind \in [Conn -> BOOLEAN]
    BY DEF Init
  <1>6. TypeOK
    BY <1>1, <1>2, <1>3, <1>4, <1>5 DEF TypeOK
  <1>7. SharedFromTheKey /\ EncoderShared
    BY DEF Init, SharedFromTheKey, EncoderShared
  <1> QED
    BY <1>6, <1>7 DEF Init, IInv

\* A step that only decides where to go on keeps IInv, if the place is one where
\* the encoder is still the one that was served with, or about to be built.
LEMMA DecideKeeps ==
  ASSUME IInv,
         UNCHANGED <<tmplVars, built, key, first, captured, repeats, repeating, fails,
                     wanted, refresh, peerVars, alone>>,
         \/ pc' \in {"active", "has_subscribes", "start", "broadcast", "exit", "swap",
                     "drop_switch"}
         \/ /\ pc \in {"ok", "checks", "capture", "snapshot", "encode", "wait"}
            /\ pc' \in {"ok", "checks", "capture", "snapshot", "encode", "wait"}
         \/ pc' = "drop_go" /\ subscribes = {}
  PROVE  IInv'
  BY DEF IInv, TypeOK, TmplTypeOK, Steps, SharedFromTheKey, EncoderShared, tmplVars, peerVars

\* No step of the thread, of a connection or of the configuration breaks IInv: one
\* case per action.
LEMMA StepIInv == IInv /\ [Next]_vars => IInv'
  <1> SUFFICES ASSUME IInv, [Next]_vars
               PROVE  IInv'
    OBVIOUS
  <1>t. TypeOK /\ TmplTypeOK
    BY DEF IInv, TypeOK
  <1>1. ASSUME NEW c \in Conn, Subscribe(c)
        PROVE  IInv'
    <2>1. subscribes' = subscribes /\ new_subscribes' \in SUBSET Conn
      BY <1>1, <1>t, OnSubscribeWaits DEF Subscribe
    <2> QED
      BY <1>1, <2>1 DEF Subscribe, threadVars, IInv, TypeOK, TmplTypeOK, Steps,
                        SharedFromTheKey, EncoderShared
  <1>2. ASSUME NEW c \in Conn, Unsubscribe(c)
        PROVE  IInv'
    <2>1. subscribes' = subscribes \ {c} /\ new_subscribes' \in SUBSET Conn
      BY <1>2, <1>t, OnUnsubscribeShrinks DEF Unsubscribe
    <2> QED
      BY <1>2, <2>1 DEF Unsubscribe, threadVars, IInv, TypeOK, TmplTypeOK, Steps,
                        SharedFromTheKey, EncoderShared
  <1>3. ASSUME NEW c \in Conn, RefreshVideo(c)
        PROVE  IInv'
    BY <1>3 DEF RefreshVideo, tmplVars, threadVars, IInv, TypeOK, TmplTypeOK, Steps,
                SharedFromTheKey, EncoderShared
  <1>4. CASE Reconfigure
    <2>1. TypeOK'
      BY <1>4, Bounds DEF Reconfigure, tmplVars, threadVars, peerVars, IInv, TypeOK,
                          TmplTypeOK, Steps
    <2>2. SharedFromTheKey' /\ EncoderShared'
      BY <1>4 DEF Reconfigure, tmplVars, threadVars, peerVars, IInv, SharedFromTheKey,
                  EncoderShared
    <2>3. /\ pc' = "drop_go" => subscribes' = {}
          /\ pc' = "clear_refresh" => key'
      BY <1>4 DEF Reconfigure, tmplVars, threadVars, IInv
    <2> QED
      BY <2>1, <2>2, <2>3 DEF IInv
  <1>5. CASE StopService
    <2>1. /\ active' \in BOOLEAN
          /\ UNCHANGED <<subscribes, new_subscribes, threadVars, wanted, refresh, peerVars, alone>>
      BY <1>5 DEF StopService, Join
    <2>2. TypeOK'
      BY <1>t, <2>1 DEF threadVars, peerVars, TypeOK, TmplTypeOK
    <2> QED
      BY <2>1, <2>2 DEF threadVars, peerVars, IInv, SharedFromTheKey, EncoderShared
  <1>6. CASE CheckActive
    BY <1>6, DecideKeeps DEF CheckActive, Decide, Goto
  <1>7. CASE CheckSubscribes
    BY <1>7, DecideKeeps DEF CheckSubscribes, Decide, Goto
  <1>8. CASE Start
    <2>1. /\ built' \in 0..wanted'
          /\ repeats' \in 0..RepeatMax /\ fails' \in 0..(MaxFailTimes - 1)
      BY <1>8, <1>t, Bounds DEF Start, TypeOK
    <2>2. TypeOK'
      BY <1>8, <1>t, <2>1 DEF Start, Goto, tmplVars, TypeOK, TmplTypeOK, Steps
    <2> QED
      BY <1>8, <2>2 DEF Start, Goto, IInv, SharedFromTheKey, EncoderShared
  <1>9. CASE StartFails
    BY <1>9, DecideKeeps DEF StartFails, Switch, Decide, Goto
  <1>10. CASE ClearRefresh
    BY <1>10 DEF ClearRefresh, Goto, tmplVars, peerVars, IInv, TypeOK, TmplTypeOK, Steps,
                SharedFromTheKey, EncoderShared
  <1>11. CASE CheckOk
    BY <1>11, DecideKeeps DEF CheckOk, Decide, Goto
  <1>12. CASE CheckRefresh
    BY <1>12, DecideKeeps DEF CheckRefresh, Decide, Goto
  <1>13. CASE Broadcast
    <2>1. CASE Switch
      BY <2>1, DecideKeeps DEF Switch, Decide, Goto
    <2>2. CASE /\ SwapNewSubscribes
               /\ alone' = IF subscribes = {} THEN alone \cup new_subscribes ELSE alone
               /\ Goto("active")
               /\ UNCHANGED <<active, built, key, first, captured, repeats, repeating,
                              fails, wanted, refresh, peerVars>>
      BY <2>2 DEF SwapNewSubscribes, Goto, peerVars, IInv, TypeOK, TmplTypeOK, Steps,
                  SharedFromTheKey, EncoderShared
    <2> QED
      BY <1>13, <2>1, <2>2 DEF Broadcast
  <1>14. CASE CaptureFrame
    <2>1. repeats' \in 0..RepeatMax
      BY <1>14, Bounds DEF CaptureFrame
    <2>2. TypeOK'
      BY <1>14, <1>t, <2>1 DEF CaptureFrame, Goto, tmplVars, peerVars, TypeOK, TmplTypeOK, Steps
    <2> QED
      BY <1>14, <2>2 DEF CaptureFrame, Goto, tmplVars, peerVars, IInv, SharedFromTheKey,
                         EncoderShared
  <1>15. CASE CaptureWouldBlock
    <2>1. /\ pc = "capture" /\ pc' \in {"snapshot", "ok"}
          /\ UNCHANGED <<tmplVars, built, key, first, captured, fails, wanted, refresh,
                         peerVars, alone>>
      BY <1>15 DEF CaptureWouldBlock, Goto
    <2>2. repeats' \in 0..RepeatMax
      BY <1>15, <1>t, Bounds DEF CaptureWouldBlock, TypeOK
    <2>3. repeating' \in BOOLEAN
      BY <1>15, <1>t DEF CaptureWouldBlock, TypeOK
    <2>4. TypeOK'
      BY <1>t, <2>1, <2>2, <2>3 DEF tmplVars, peerVars, TypeOK, TmplTypeOK, Steps
    <2> QED
      BY <2>1, <2>4 DEF tmplVars, peerVars, IInv, SharedFromTheKey, EncoderShared
  <1>16. CASE CaptureFails
    BY <1>16, DecideKeeps DEF CaptureFails, Decide, Goto
  <1>17. CASE Snapshot
    BY <1>17, DecideKeeps DEF Snapshot, Decide, Goto
  <1>18. CASE Swap
    BY <1>18, DecideKeeps DEF Swap, Decide, Goto
  <1>19. CASE SwapDrop
    BY <1>19 DEF SwapDrop, SwapNewSubscribes, Goto, peerVars, IInv, TypeOK, TmplTypeOK, Steps,
                 SharedFromTheKey, EncoderShared
  <1>20. CASE EncodeAndSend
    <2>1. \A c \in subscribes : key \/ decodes[c] \/ c \in alone
      BY <1>20 DEF EncodeAndSend, IInv, EncoderShared
    <2>2. SharedFromTheKey'
      BY <1>20, <2>1, <1>t DEF EncodeAndSend, IInv, SharedFromTheKey, TypeOK, TmplTypeOK
    <2>3. EncoderShared'
      BY <1>20, <2>1, <1>t DEF EncodeAndSend, EncoderShared, TypeOK, TmplTypeOK, tmplVars
    <2>4. fails' \in 0..(MaxFailTimes - 1)
      BY <1>20, Bounds DEF EncodeAndSend
    <2>5. decodes' \in [Conn -> BOOLEAN] /\ blind' \in [Conn -> BOOLEAN]
      BY <1>20, <1>t DEF EncodeAndSend, TypeOK
    <2>6. TypeOK'
      BY <1>20, <1>t, <2>4, <2>5 DEF EncodeAndSend, AfterEncode, Goto, TypeOK, TmplTypeOK,
                                     Steps, tmplVars
    <2> QED
      BY <1>20, <2>2, <2>3, <2>6 DEF EncodeAndSend, AfterEncode, Goto, IInv
  <1>21. CASE EncodeFails
    <2>1. fails' \in 0..(MaxFailTimes - 1)
      BY <1>21, <1>t, FailsAfterType DEF EncodeFails
    <2>2. /\ pc = "encode" /\ pc' \in {"ok", "wait", "active"}
          /\ first' = FALSE
          /\ UNCHANGED <<tmplVars, built, key, captured, repeats, repeating, wanted, refresh,
                         peerVars, alone>>
      BY <1>21 DEF EncodeFails, AfterEncode, Goto
    <2> QED
      BY <2>1, <2>2 DEF tmplVars, peerVars, IInv, TypeOK, TmplTypeOK, Steps,
                        SharedFromTheKey, EncoderShared
  <1>22. CASE WaitFetched
    BY <1>22, DecideKeeps DEF WaitFetched, Decide, Goto
  <1>23. CASE UNCHANGED vars
    BY <1>23 DEF vars, tmplVars, threadVars, peerVars, IInv, TypeOK, TmplTypeOK, Steps,
                 SharedFromTheKey, EncoderShared
  <1> QED
    BY <1>1, <1>2, <1>3, <1>4, <1>5, <1>6, <1>7, <1>8, <1>9, <1>10, <1>11, <1>12, <1>13,
       <1>14, <1>15, <1>16, <1>17, <1>18, <1>19, <1>20, <1>21, <1>22, <1>23
       DEF Next, Thread, Peer

\* What is true of the encoder and its subscribers at every step (see IInv).
THEOREM Invariance == Spec => []IInv
  BY InitIInv, StepIInv, PTL DEF Spec

\* No variable ever leaves its type; the counter of failures never reaches its
\* limit unnoticed.
THEOREM TypeCorrect == Spec => []TypeOK
  <1>1. IInv => TypeOK
    BY DEF IInv
  <1> QED
    BY <1>1, Invariance, PTL

\* Whoever arrives while another is served is never sent a frame it cannot
\* decode.
THEOREM SharedFromTheKeyCorrect == Spec => []SharedFromTheKey
  <1>1. IInv => SharedFromTheKey
    BY DEF IInv
  <1> QED
    BY <1>1, Invariance, PTL

\* Those an encoder past its key frame serves have the key frame.
THEOREM EncoderSharedCorrect == Spec => []EncoderShared
  <1>1. IInv => EncoderShared
    BY DEF IInv
  <1> QED
    BY <1>1, Invariance, PTL

-----------------------------------------------------------------------------
(* Induction, and the loop of the connection over its queue.                 *)

Below == {p \in Nat \X Nat : p[1] < p[2]}

\* Numbers cannot decrease for ever.
LEMMA BelowWellFounded == IsWellFoundedOn(Below, Nat)
  BY NatLessThanWellFounded DEF OpToRel, Below

\* A set with 0, and with the next number of each of its numbers, has them all.
LEMMA Induction ==
  ASSUME NEW T \in SUBSET Nat, 0 \in T, \A n \in T : n + 1 \in T
  PROVE  T = Nat
  <1> DEFINE R == Nat \ T
  <1> SUFFICES ASSUME R # {}
               PROVE  FALSE
    OBVIOUS
  <1>1. R \subseteq Nat
    OBVIOUS
  <1>2. PICK x \in R : \A y \in R : ~(<<y, x>> \in Below)
    <2> HIDE DEF R
    <2> QED
      BY <1>1, BelowWellFounded, WFMin
  <1>3. x # 0 /\ x \in Nat
    OBVIOUS
  <1>4. x - 1 \in Nat /\ <<x - 1, x>> \in Below
    BY <1>3 DEF Below
  <1>5. x - 1 \in T
    BY <1>2, <1>4
  <1>6. x \in T
    BY <1>3, <1>5
  <1> QED
    BY <1>6

\* One round of the loop.
Round(q, f, i) ==
  IF i = 1 THEN [sent |-> <<>>, latest |-> q[1]]
  ELSE IF IsFrame(q[i]) THEN [f[i - 1] EXCEPT !.latest = q[i]]
  ELSE [f[i - 1] EXCEPT !.sent = Append(@, q[i])]

\* The first n rounds can be made, however many they are.
LEMMA RoundsExist ==
  ASSUME NEW q, NEW n \in Nat
  PROVE  \E f : f = [i \in 1..n |-> Round(q, f, i)]
  <1> DEFINE Rounds(f, m) == f = [i \in 1..m |-> Round(q, f, i)]
             T == {m \in Nat : \E f : Rounds(f, m)}
  <1>1. 0 \in T
    <2>1. [i \in 1..0 |-> 0] = [i \in 1..0 |-> Round(q, [j \in 1..0 |-> 0], i)]
      OBVIOUS
    <2> QED
      BY <2>1
  <1>2. ASSUME NEW m \in T
        PROVE  m + 1 \in T
    <2>1. PICK f : Rounds(f, m)
      OBVIOUS
    <2> DEFINE g == [i \in 1..(m + 1) |-> IF i = m + 1 THEN Round(q, f, m + 1) ELSE f[i]]
    <2>2. ASSUME NEW i \in 1..(m + 1)
          PROVE  g[i] = Round(q, g, i)
      <3>1. CASE i = 1 /\ m = 0
        BY <3>1 DEF Round
      <3>2. CASE i = 1 /\ m # 0
        <4>1. 1 \in 1..m /\ i # m + 1
          BY <3>2
        <4>2. f[1] = Round(q, f, 1)
          <5> HIDE DEF g
          <5> QED
            BY <2>1, <4>1
        <4>3. Round(q, f, 1) = Round(q, g, 1)
          BY DEF Round
        <4> QED
          BY <3>2, <4>1, <4>2, <4>3
      <3>3. CASE i # 1
        <4>1. g[i - 1] = f[i - 1] /\ i - 1 \in 1..m
          BY <3>3
        <4>2. Round(q, g, i) = Round(q, f, i)
          <5> HIDE DEF g
          <5> QED
            BY <4>1 DEF Round
        <4>3. g[i] = Round(q, f, i)
          <5>1. CASE i = m + 1
            BY <5>1
          <5>2. CASE i # m + 1
            <6>1. i \in 1..m
              BY <5>2
            <6>2. f[i] = Round(q, f, i)
              <7> HIDE DEF g
              <7> QED
                BY <2>1, <6>1
            <6> QED
              BY <5>2, <6>2
          <5> QED
            BY <5>1, <5>2
        <4> QED
          BY <4>2, <4>3
      <3> QED
        BY <3>1, <3>2, <3>3
    <2>3. Rounds(g, m + 1)
      <3>1. g = [i \in 1..(m + 1) |-> g[i]]
        OBVIOUS
      <3> HIDE DEF g
      <3> QED
        BY <2>2, <3>1
    <2> HIDE DEF g, Rounds
    <2> QED
      BY <2>3
  <1> HIDE DEF T
  <1>3. T \in SUBSET Nat
    BY DEF T
  <1>4. T = Nat
    BY <1>1, <1>2, <1>3, Induction
  <1> QED
    BY <1>4 DEF T

\* So the loop is what its rounds say.
LEMMA LoopRounds ==
  ASSUME NEW S, NEW q \in Seq(S), NEW i \in 1..Len(q)
  PROVE  Loop(q)[i] = Round(q, Loop(q), i)
  <1>1. Loop(q) = CHOOSE f : f = [j \in 1..Len(q) |-> Round(q, f, j)]
    BY DEF Loop, Round
  <1>2. \E f : f = [j \in 1..Len(q) |-> Round(q, f, j)]
    BY RoundsExist, LenProperties
  <1>3. Loop(q) = [j \in 1..Len(q) |-> Round(q, Loop(q), j)]
    BY <1>1, <1>2
  <1> QED
    BY <1>3

\* What the loop has after round i of what it passes on.
Passing(q, l, i) ==
  /\ l \in [sent : Seq(Msg), latest : Msg]
  /\ \A k \in 1..Len(l.sent) : ~IsFrame(l.sent[k])
  /\ \E j \in 1..i : l.latest = q[j]
  /\ IsFrame(q[i]) => l.latest = q[i]

\* What Passing says holds after every round of the loop.
LEMMA LoopPasses ==
  ASSUME NEW q \in Seq(Msg), NEW n \in 1..Len(q)
  PROVE  Passing(q, Loop(q)[n], n)
  <1> DEFINE f == Loop(q)
             T == {i \in Nat : i \in 1..Len(q) => Passing(q, f[i], i)}
  <1>1. Len(q) \in Nat /\ \A i \in 1..Len(q) : q[i] \in Msg
    BY LenProperties, ElementOfSeq
  <1>2. \A i \in 1..Len(q) : f[i] = Round(q, f, i)
    BY LoopRounds
  <1> HIDE DEF f
  <1>3. T \in SUBSET Nat /\ 0 \in T
    OBVIOUS
  <1>4. ASSUME NEW i \in T
        PROVE  i + 1 \in T
    <2> SUFFICES ASSUME i + 1 \in 1..Len(q)
                 PROVE  Passing(q, f[i + 1], i + 1)
      OBVIOUS
    <2>0. q[i + 1] \in Msg /\ f[i + 1] = Round(q, f, i + 1)
      BY <1>1, <1>2
    <2>1. CASE i = 0
      <3> DEFINE none == <<>>
      <3>1. f[i + 1] = [sent |-> none, latest |-> q[i + 1]]
        BY <2>0, <2>1 DEF Round
      <3>2. none \in Seq(Msg) /\ Len(none) = 0
        BY EmptySeq
      <3> HIDE DEF none
      <3>3. i + 1 \in 1..(i + 1)
        BY <2>1
      <3>4. f[i + 1] \in [sent : Seq(Msg), latest : Msg]
            /\ f[i + 1].sent = none /\ f[i + 1].latest = q[i + 1]
        <4>1. PICK m \in Msg : m = q[i + 1]
          BY <2>0
        <4>2. f[i + 1] = [sent |-> none, latest |-> m]
          BY <3>1, <4>1
        <4>3. [sent |-> none, latest |-> m] \in [sent : Seq(Msg), latest : Msg]
          BY <3>2
        <4> QED
          BY <4>1, <4>2, <4>3
      <3>5. \A k \in 1..Len(f[i + 1].sent) : ~IsFrame(f[i + 1].sent[k])
        BY <3>2, <3>4
      <3> QED
        BY <3>3, <3>4, <3>5 DEF Passing
    <2>2. CASE i # 0
      <3>1. Passing(q, f[i], i)
        <4>1. i \in 1..Len(q)
          BY <1>1, <2>2
        <4> QED
          BY <4>1
      <3> DEFINE l == f[i]
      <3>2. /\ l \in [sent : Seq(Msg), latest : Msg]
            /\ \A k \in 1..Len(l.sent) : ~IsFrame(l.sent[k])
            /\ \E j \in 1..i : l.latest = q[j]
        BY <3>1 DEF Passing
      <3>3. i + 1 \in 1..(i + 1) /\ \A j \in 1..i : j \in 1..(i + 1)
        OBVIOUS
      <3>4. CASE IsFrame(q[i + 1])
        <4>1. f[i + 1] = [l EXCEPT !.latest = q[i + 1]]
          BY <2>0, <2>2, <3>4 DEF Round
        <4> HIDE DEF l
        <4>2. f[i + 1] \in [sent : Seq(Msg), latest : Msg]
              /\ f[i + 1].sent = l.sent /\ f[i + 1].latest = q[i + 1]
          BY <2>0, <3>2, <4>1
        <4> QED
          BY <3>2, <3>3, <4>2 DEF Passing
      <3>5. CASE ~IsFrame(q[i + 1])
        <4>0. i + 1 # 1 /\ (i + 1) - 1 = i
          BY <2>2
        <4>1. f[i + 1] = [l EXCEPT !.sent = Append(@, q[i + 1])]
          BY <2>0, <3>5, <4>0 DEF Round
        <4> HIDE DEF l
        <4> DEFINE s == Append(l.sent, q[i + 1])
        <4>2. l.sent \in Seq(Msg) /\ Len(l.sent) \in Nat
          BY <3>2, LenProperties
        <4>3. /\ s \in Seq(Msg) /\ Len(s) = Len(l.sent) + 1 /\ s[Len(l.sent) + 1] = q[i + 1]
              /\ \A k \in 1..Len(l.sent) : s[k] = l.sent[k]
          BY <2>0, <4>2, AppendProperties
        <4>4. f[i + 1] = [l EXCEPT !.sent = s]
          BY <4>1
        <4> HIDE DEF s
        <4>5. f[i + 1] \in [sent : Seq(Msg), latest : Msg]
              /\ f[i + 1].sent = s /\ f[i + 1].latest = l.latest
          BY <3>2, <4>3, <4>4
        <4>6. ASSUME NEW k \in 1..Len(s)
              PROVE  ~IsFrame(s[k])
          <5>1. k \in 1..Len(l.sent) \/ k = Len(l.sent) + 1
            BY <4>2, <4>3
          <5> QED
            BY <3>2, <3>5, <4>3, <5>1
        <4> QED
          BY <3>2, <3>3, <3>5, <4>5, <4>6 DEF Passing
      <3> QED
        BY <3>4, <3>5
    <2> QED
      BY <2>1, <2>2
  <1> HIDE DEF T
  <1>5. T = Nat
    BY <1>3, <1>4, Induction
  <1> QED
    BY <1>1, <1>5 DEF T, f

\* Of a queue one frame is passed on at most, behind what is no frame; and when a
\* frame was queued last, it is that one.
LEMMA PassedOnIs ==
  ASSUME NEW q \in Seq(Msg), q # <<>>
  PROVE  /\ PassedOn(q) \in Seq(Msg) /\ Len(PassedOn(q)) \in Nat \ {0}
         /\ Last(PassedOn(q)) = PassedOn(q)[Len(PassedOn(q))]
         /\ \A k \in 1..(Len(PassedOn(q)) - 1) : ~IsFrame(PassedOn(q)[k])
         /\ \E j \in 1..Len(q) : Last(PassedOn(q)) = q[j]
         /\ IsFrame(q[Len(q)]) => Last(PassedOn(q)) = q[Len(q)]
  <1> DEFINE l == Loop(q)[Len(q)]
             p == PassedOn(q)
  <1>1. Len(q) \in 1..Len(q)
    BY EmptySeq
  <1>2. Passing(q, l, Len(q))
    BY <1>1, LoopPasses
  <1>3. p = Append(l.sent, l.latest)
    BY DEF PassedOn
  <1> HIDE DEF l, p
  <1>4. l.sent \in Seq(Msg) /\ l.latest \in Msg /\ Len(l.sent) \in Nat
    BY <1>2, LenProperties DEF Passing
  <1>5. /\ p \in Seq(Msg) /\ Len(p) = Len(l.sent) + 1 /\ p[Len(l.sent) + 1] = l.latest
        /\ \A k \in 1..Len(l.sent) : p[k] = l.sent[k]
    BY <1>3, <1>4, AppendProperties
  <1>6. Len(p) \in Nat \ {0} /\ Last(p) = p[Len(p)] /\ Last(p) = l.latest
    BY <1>4, <1>5 DEF Last
  <1>7. \A k \in 1..(Len(p) - 1) : ~IsFrame(p[k])
    BY <1>2, <1>4, <1>5 DEF Passing
  <1>8. /\ \E j \in 1..Len(q) : Last(p) = q[j]
        /\ IsFrame(q[Len(q)]) => Last(p) = q[Len(q)]
    BY <1>2, <1>6 DEF Passing
  <1> QED
    BY <1>5, <1>6, <1>7, <1>8 DEF p

-----------------------------------------------------------------------------
(* The order of frames.                                                      *)

\* What the invariant says of queues and logs, place by place.
LEMMA ChannelTypes ==
  ASSUME ChannelTypeOK
  PROVE  /\ \A c \in Conn : /\ queue[c] \in Seq(Msg) /\ Len(queue[c]) \in Nat
                            /\ DOMAIN queue[c] = 1..Len(queue[c])
                            /\ log[c] \in Seq(Msg) /\ Len(log[c]) \in Nat
                            /\ DOMAIN log[c] = 1..Len(log[c])
         /\ \A c \in Conn : \A i \in DOMAIN queue[c] : queue[c][i] \in Msg
         /\ \A c \in Conn : \A i \in DOMAIN log[c] : log[c][i] \in Msg
         /\ \A d \in Display : msgs[d] \in 0..MaxMessages /\ msgs[d] \in Nat
         /\ \A m \in Msg : /\ m.display \in Display /\ m.no \in 1..MaxMessages
                           /\ m.no \in Nat
  <1>1. \A c \in Conn : queue[c] \in Seq(Msg) /\ log[c] \in Seq(Msg)
    BY DEF ChannelTypeOK
  <1>2. \A c \in Conn : /\ Len(queue[c]) \in Nat /\ DOMAIN queue[c] = 1..Len(queue[c])
                        /\ Len(log[c]) \in Nat /\ DOMAIN log[c] = 1..Len(log[c])
    BY <1>1, LenProperties
  <1>3. /\ \A c \in Conn : \A i \in DOMAIN queue[c] : queue[c][i] \in Msg
        /\ \A c \in Conn : \A i \in DOMAIN log[c] : log[c][i] \in Msg
    BY <1>1, <1>2, ElementOfSeq
  <1>4. \A d \in Display : msgs[d] \in 0..MaxMessages /\ msgs[d] \in Nat
    BY MaxMessagesNat DEF ChannelTypeOK
  <1>5. \A m \in Msg : m.display \in Display /\ m.no \in 1..MaxMessages /\ m.no \in Nat
    BY MaxMessagesNat DEF Msg
  <1> QED
    BY <1>1, <1>2, <1>3, <1>4, <1>5

\* What sending a message does to the queues: it is put behind what is there.
LEMMA SentBehind ==
  ASSUME ChannelTypeOK, NEW d \in Display, NEW type \in {"frame", "switch"}, SendToAll(d, type)
  PROVE  /\ msgs' \in [Display -> 0..MaxMessages]
         /\ msgs'[d] = msgs[d] + 1 /\ \A e \in Display : e # d => msgs'[e] = msgs[e]
         /\ queue' \in [Conn -> Seq(Msg)]
         /\ \A c \in Conn : DOMAIN queue[c] \subseteq DOMAIN queue'[c]
         /\ \A c \in Conn : phase[c] # "closed" =>
              \E i \in DOMAIN queue'[c] : queue'[c][i].no = msgs'[d]
         /\ \A c \in Conn : \A i \in DOMAIN queue'[c] :
              \/ i \in DOMAIN queue[c] /\ queue'[c][i] = queue[c][i]
              \/ /\ i \notin DOMAIN queue[c] /\ \A j \in DOMAIN queue[c] : j < i
                 /\ \A j \in DOMAIN queue'[c] : j <= i
                 /\ queue'[c][i].display = d /\ queue'[c][i].type = type
                 /\ queue'[c][i].no = msgs[d] + 1
  <1> DEFINE m == [type |-> type, display |-> d, no |-> msgs[d] + 1]
  <1>1. msgs[d] \in Nat /\ msgs[d] + 1 \in 1..MaxMessages
    BY ChannelTypes, MaxMessagesNat DEF SendToAll
  <1>2. /\ msgs' \in [Display -> 0..MaxMessages]
        /\ msgs'[d] = msgs[d] + 1 /\ \A e \in Display : e # d => msgs'[e] = msgs[e]
    BY <1>1, MaxMessagesNat DEF SendToAll, ChannelTypeOK
  <1>3. m \in Msg /\ m.display = d /\ m.type = type /\ m.no = msgs[d] + 1
    BY <1>1 DEF Msg
  <1>4. queue' = [c \in Conn |-> IF phase[c] # "closed" THEN Append(queue[c], m) ELSE queue[c]]
    BY DEF SendToAll, Subscribers
  <1> HIDE DEF m
  <1>5. ASSUME NEW c \in Conn
        PROVE  /\ queue'[c] \in Seq(Msg)
               /\ DOMAIN queue[c] \subseteq DOMAIN queue'[c]
               /\ phase[c] # "closed" => \E i \in DOMAIN queue'[c] : queue'[c][i].no = msgs'[d]
               /\ \A i \in DOMAIN queue'[c] :
                    \/ i \in DOMAIN queue[c] /\ queue'[c][i] = queue[c][i]
                    \/ /\ i \notin DOMAIN queue[c] /\ \A j \in DOMAIN queue[c] : j < i
                       /\ \A j \in DOMAIN queue'[c] : j <= i
                       /\ queue'[c][i] = m
    <2>0. queue[c] \in Seq(Msg) /\ Len(queue[c]) \in Nat /\ DOMAIN queue[c] = 1..Len(queue[c])
      BY ChannelTypes
    <2>1. CASE phase[c] # "closed"
      <3>1. queue'[c] = Append(queue[c], m)
        BY <1>4, <2>1
      <3>2. /\ queue'[c] \in Seq(Msg) /\ Len(queue'[c]) = Len(queue[c]) + 1
            /\ queue'[c][Len(queue[c]) + 1] = m
            /\ \A i \in 1..Len(queue[c]) : queue'[c][i] = queue[c][i]
        BY <1>3, <2>0, <3>1, AppendProperties
      <3>3. DOMAIN queue'[c] = 1..(Len(queue[c]) + 1)
        BY <3>2, LenProperties
      <3>4. \E i \in DOMAIN queue'[c] : queue'[c][i].no = msgs'[d]
        <4>1. Len(queue[c]) + 1 \in DOMAIN queue'[c]
          BY <2>0, <3>3
        <4> QED
          BY <1>2, <1>3, <3>2, <4>1
      <3>5. ASSUME NEW i \in DOMAIN queue'[c], i \notin DOMAIN queue[c]
            PROVE  i = Len(queue[c]) + 1
        BY <2>0, <3>3, <3>5
      <3> QED
        BY <2>0, <3>2, <3>3, <3>4, <3>5
    <2>2. CASE phase[c] = "closed"
      <3>1. queue'[c] = queue[c]
        BY <1>4, <2>2
      <3> QED
        BY <2>0, <2>2, <3>1
    <2> QED
      BY <2>1, <2>2
  <1>6. queue' \in [Conn -> Seq(Msg)]
    <2>1. queue' = [c \in Conn |-> queue'[c]]
      BY <1>4
    <2> QED
      BY <1>5, <2>1
  <1> QED
    BY <1>2, <1>3, <1>5, <1>6

\* Sending keeps the order ...
LEMMA SendKeepsOrder ==
  ASSUME ChannelInv, NEW d \in Display, NEW type \in {"frame", "switch"}, SendToAll(d, type),
         log' = log
  PROVE  QueueInOrder' /\ LogBehind' /\ FramesInOrder'
  <1>1. ChannelTypeOK /\ QueueInOrder /\ LogBehind /\ FramesInOrder
    BY DEF ChannelInv
  <1>2. \A e \in Display : msgs[e] \in Nat /\ msgs'[e] \in Nat /\ msgs[e] <= msgs'[e]
    <2> SUFFICES ASSUME NEW e \in Display
                 PROVE  msgs[e] \in Nat /\ msgs'[e] \in Nat /\ msgs[e] <= msgs'[e]
      OBVIOUS
    <2>1. msgs[e] \in Nat
      BY <1>1, ChannelTypes
    <2>2. msgs'[e] = msgs[e] + 1 \/ msgs'[e] = msgs[e]
      BY <1>1, SentBehind
    <2> QED
      BY <2>1, <2>2
  <1>3. msgs'[d] = msgs[d] + 1
    BY <1>1, SentBehind
  <1>4. ASSUME NEW c \in Conn, NEW i \in DOMAIN queue'[c]
        PROVE  /\ queue'[c][i].display \in Display /\ queue'[c][i].no \in Nat
               /\ queue'[c][i].no <= msgs'[queue'[c][i].display]
    <2>1. CASE i \in DOMAIN queue[c] /\ queue'[c][i] = queue[c][i]
      <3>1. queue[c][i] \in Msg /\ queue[c][i].display \in Display /\ queue[c][i].no \in Nat
        BY <1>1, <2>1, ChannelTypes
      <3>2. queue[c][i].no <= msgs[queue[c][i].display]
        BY <1>1, <2>1 DEF QueueInOrder
      <3> QED
        BY <1>2, <2>1, <3>1, <3>2
    <2>2. CASE queue'[c][i].display = d /\ queue'[c][i].no = msgs[d] + 1
      BY <1>2, <1>3, <2>2
    <2> QED
      BY <1>1, <2>1, <2>2, SentBehind
  <1>5. ASSUME NEW c \in Conn, NEW i \in DOMAIN queue'[c], NEW j \in DOMAIN queue'[c],
               i < j, queue'[c][i].display = queue'[c][j].display
        PROVE  queue'[c][i].no < queue'[c][j].no
    <2>0. i \in DOMAIN queue[c] /\ queue'[c][i] = queue[c][i]
      <3>1. j \in Int /\ i \in Int
        <4>1. queue'[c] \in Seq(Msg)
          BY <1>1, SentBehind
        <4> QED
          BY <4>1, LenProperties
      <3> QED
        BY <1>1, <1>5, <3>1, SentBehind
    <2>1. CASE j \in DOMAIN queue[c] /\ queue'[c][j] = queue[c][j]
      BY <1>1, <1>5, <2>0, <2>1 DEF QueueInOrder
    <2>2. CASE queue'[c][j].display = d /\ queue'[c][j].no = msgs[d] + 1
      <3>1. queue[c][i].display = d /\ queue[c][i].no \in Nat
        BY <1>1, <1>5, <2>0, <2>2, ChannelTypes
      <3>2. queue[c][i].no <= msgs[d]
        BY <1>1, <2>0, <3>1 DEF QueueInOrder
      <3> QED
        BY <1>2, <2>0, <2>2, <3>1, <3>2
    <2> QED
      BY <1>1, <2>1, <2>2, SentBehind
  <1>6. QueueInOrder'
    BY <1>4, <1>5 DEF QueueInOrder
  <1>7. ASSUME NEW c \in Conn, NEW i \in DOMAIN log[c], IsFrame(log[c][i])
        PROVE  /\ log[c][i].no <= msgs'[log[c][i].display]
               /\ \A j \in DOMAIN queue'[c] :
                    log[c][i].display = queue'[c][j].display => log[c][i].no < queue'[c][j].no
    <2>1. /\ log[c][i].no \in Nat /\ log[c][i].display \in Display
          /\ log[c][i].no <= msgs[log[c][i].display]
      BY <1>1, <1>7, ChannelTypes DEF LogBehind
    <2>2. ASSUME NEW j \in DOMAIN queue'[c], log[c][i].display = queue'[c][j].display
          PROVE  log[c][i].no < queue'[c][j].no
      <3>1. CASE j \in DOMAIN queue[c] /\ queue'[c][j] = queue[c][j]
        BY <1>1, <1>7, <2>2, <3>1 DEF LogBehind
      <3>2. CASE queue'[c][j].display = d /\ queue'[c][j].no = msgs[d] + 1
        BY <1>2, <2>1, <2>2, <3>2
      <3> QED
        BY <1>1, <3>1, <3>2, SentBehind
    <2> QED
      BY <1>2, <2>1, <2>2
  <1>8. LogBehind'
    BY <1>7 DEF LogBehind
  <1> QED
    BY <1>1, <1>6, <1>8 DEF FramesInOrder

\* ... as does a step that leaves the logs alone and at most empties queues ...
LEMMA QuietKeepsOrder ==
  ASSUME ChannelInv, msgs' = msgs, log' = log,
         \A c \in Conn : queue'[c] = queue[c] \/ queue'[c] = <<>>
  PROVE  QueueInOrder' /\ LogBehind' /\ FramesInOrder'
  <1>1. \A c \in Conn : \A i \in DOMAIN queue'[c] :
          DOMAIN queue'[c] = DOMAIN queue[c] /\ queue'[c] = queue[c]
    <2>1. DOMAIN <<>> = {}
      BY EmptySeq, LenProperties
    <2> QED
      BY <2>1
  <1>2. QueueInOrder'
    BY <1>1 DEF ChannelInv, QueueInOrder
  <1>3. LogBehind'
    BY <1>1 DEF ChannelInv, LogBehind
  <1> QED
    BY <1>2, <1>3 DEF ChannelInv, FramesInOrder

\* ... and the connection, which sends a frame at most, the newest of its display.
LEMMA DeliverKeepsOrder ==
  ASSUME ChannelInv, NEW c \in Conn, Deliver(c)
  PROVE  /\ queue' \in [Conn -> Seq(Msg)] /\ log' \in [Conn -> Seq(Msg)]
         /\ QueueInOrder' /\ LogBehind' /\ FramesInOrder'
  <1> DEFINE q == queue[c]
             p == PassedOn(q)
  <1>1. ChannelTypeOK /\ QueueInOrder /\ LogBehind /\ FramesInOrder
    BY DEF ChannelInv
  <1>2. q \in Seq(Msg) /\ q # <<>> /\ log[c] \in Seq(Msg) /\ DOMAIN q = 1..Len(q)
        /\ Len(log[c]) \in Nat /\ DOMAIN log[c] = 1..Len(log[c])
    BY <1>1, ChannelTypes DEF Deliver
  <1>3. /\ p \in Seq(Msg) /\ Len(p) \in Nat \ {0}
        /\ \A k \in 1..(Len(p) - 1) : ~IsFrame(p[k])
        /\ \E j \in 1..Len(q) : p[Len(p)] = q[j]
    BY <1>2, PassedOnIs
  <1>4. msgs' = msgs /\ queue' = [queue EXCEPT ![c] = <<>>] /\ log' = [log EXCEPT ![c] = @ \o p]
    BY DEF Deliver, svcVars
  <1> HIDE DEF p, q
  <1>5. queue' \in [Conn -> Seq(Msg)] /\ queue'[c] = <<>>
        /\ \A e \in Conn : e # c => queue'[e] = queue[e]
    BY <1>1, <1>4, EmptySeq DEF ChannelTypeOK
  <1>6. /\ log[c] \o p \in Seq(Msg) /\ Len(log[c] \o p) = Len(log[c]) + Len(p)
        /\ \A i \in 1..(Len(log[c]) + Len(p)) :
             (log[c] \o p)[i] = IF i <= Len(log[c]) THEN log[c][i] ELSE p[i - Len(log[c])]
    BY <1>2, <1>3, ConcatProperties
  <1>7. log' \in [Conn -> Seq(Msg)] /\ log'[c] = log[c] \o p
        /\ \A e \in Conn : e # c => log'[e] = log[e]
    BY <1>1, <1>4, <1>6 DEF ChannelTypeOK
  <1>8. Len(log'[c]) \in Nat /\ DOMAIN log'[c] = 1..Len(log'[c])
    BY <1>6, <1>7, LenProperties
  \* A frame of the log was there, or is the last of it.
  <1>9. ASSUME NEW i \in DOMAIN log'[c], IsFrame(log'[c][i])
        PROVE  \/ i \in DOMAIN log[c] /\ log'[c][i] = log[c][i]
               \/ i = Len(log'[c]) /\ log'[c][i] = p[Len(p)] /\ i \notin DOMAIN log[c]
    <2>0. i \in 1..(Len(log[c]) + Len(p))
      BY <1>6, <1>7, <1>8
    <2>1. CASE i <= Len(log[c])
      BY <1>2, <1>6, <1>7, <2>0, <2>1
    <2>2. CASE ~(i <= Len(log[c]))
      <3>1. log'[c][i] = p[i - Len(log[c])]
        BY <1>6, <1>7, <2>0, <2>2
      <3>2. i - Len(log[c]) \in 1..Len(p)
        BY <1>2, <1>3, <2>0, <2>2
      <3>3. i - Len(log[c]) \notin 1..(Len(p) - 1)
        BY <1>3, <1>9, <3>1
      <3>4. i - Len(log[c]) = Len(p)
        BY <1>3, <3>2, <3>3
      <3>5. i = Len(log'[c]) /\ i \notin DOMAIN log[c]
        BY <1>2, <1>3, <1>6, <1>7, <2>0, <2>2, <3>4
      <3> QED
        BY <3>1, <3>4, <3>5
    <2> QED
      BY <2>1, <2>2
  <1>10. PICK j \in DOMAIN q : p[Len(p)] = q[j]
    BY <1>2, <1>3
  <1>11. FramesInOrder'
    <2> SUFFICES ASSUME NEW e \in Conn, NEW i \in DOMAIN log'[e], NEW k \in DOMAIN log'[e],
                        i < k, IsFrame(log'[e][i]), IsFrame(log'[e][k]),
                        log'[e][i].display = log'[e][k].display
                 PROVE  log'[e][i].no < log'[e][k].no
      BY DEF FramesInOrder
    <2>1. CASE e # c
      BY <1>1, <1>7, <2>1 DEF FramesInOrder
    <2>2. CASE e = c
      <3>1. i \in DOMAIN log[c] /\ log'[c][i] = log[c][i]
        BY <1>8, <1>9, <2>2
      <3>2. CASE k \in DOMAIN log[c] /\ log'[c][k] = log[c][k]
        BY <1>1, <2>2, <3>1, <3>2 DEF FramesInOrder
      <3>3. CASE log'[c][k] = p[Len(p)]
        BY <1>1, <1>10, <2>2, <3>1, <3>3 DEF LogBehind, q
      <3> QED
        BY <1>9, <2>2, <3>2, <3>3
    <2> QED
      BY <2>1, <2>2
  <1>12. \A e \in Conn : \A i \in DOMAIN queue'[e] : e # c
    <2>1. DOMAIN queue'[c] = {}
      BY <1>5, EmptySeq, LenProperties
    <2> QED
      BY <2>1
  <1>13. QueueInOrder'
    BY <1>1, <1>4, <1>5, <1>12 DEF QueueInOrder
  <1>14. LogBehind'
    <2> SUFFICES ASSUME NEW e \in Conn, NEW i \in DOMAIN log'[e], IsFrame(log'[e][i])
                 PROVE  /\ log'[e][i].no <= msgs[log'[e][i].display]
                        /\ \A k \in DOMAIN queue'[e] :
                             log'[e][i].display = queue'[e][k].display =>
                               log'[e][i].no < queue'[e][k].no
      BY <1>4 DEF LogBehind
    <2>1. CASE e # c
      BY <1>1, <1>5, <1>7, <2>1 DEF LogBehind
    <2>2. CASE e = c
      <3>1. CASE i \in DOMAIN log[c] /\ log'[c][i] = log[c][i]
        BY <1>1, <1>12, <2>2, <3>1 DEF LogBehind
      <3>2. CASE log'[c][i] = p[Len(p)]
        BY <1>1, <1>10, <1>12, <2>2, <3>2 DEF QueueInOrder, q
      <3> QED
        BY <1>9, <2>2, <3>1, <3>2
    <2> QED
      BY <2>1, <2>2
  <1> QED
    BY <1>5, <1>7, <1>11, <1>13, <1>14

-----------------------------------------------------------------------------
(* Every step.                                                               *)

\* A host without messages is in order.
LEMMA ChannelInitInv == ChannelInit => ChannelInv
  <1> SUFFICES ASSUME ChannelInit
               PROVE  ChannelInv
    OBVIOUS
  <1> DEFINE none == <<>>
  <1>1. none \in Seq(Msg) /\ DOMAIN none = {}
    BY EmptySeq, LenProperties
  <1>2. /\ queue = [c \in Conn |-> none] /\ to_ack = [c \in Conn |-> none]
        /\ log = [c \in Conn |-> none]
    BY DEF ChannelInit
  <1> HIDE DEF none
  <1>3. {queue, to_ack, log} \subseteq [Conn -> Seq(Msg)]
    BY <1>1, <1>2
  <1>4. ChannelTypeOK
    BY <1>3, MaxMessagesNat DEF ChannelInit, ChannelTypeOK
  <1>5. \A c \in Conn : DOMAIN queue[c] = {} /\ DOMAIN log[c] = {}
    BY <1>1, <1>2
  <1> QED
    BY <1>4, <1>5 DEF ChannelInv, QueueInOrder, LogBehind, FramesInOrder

\* What a notification adds is one.
LEMMA Notified ==
  ASSUME ChannelTypeOK, NEW c \in Conn, NEW m \in Seq(Msg), NotifyByConnId(c, m)
  PROVE  /\ notifier' \in [Display -> SUBSET Fetch]
         /\ \A d \in Display : notifier[d] \subseteq notifier'[d]
  <1>1. \A d \in Display :
          (IF m # <<>> /\ Head(m).display = d THEN Head(m).no ELSE 0) \in 0..MaxMessages
    <2>1. CASE m = <<>>
      BY <2>1, MaxMessagesNat
    <2>2. CASE m # <<>>
      <3>1. Head(m) \in Msg
        BY <2>2, HeadTailProperties
      <3> QED
        BY <3>1, MaxMessagesNat DEF Msg
    <2> QED
      BY <2>1, <2>2
  <1>2. \A d \in Display : notifier'[d] \in SUBSET Fetch /\ notifier[d] \subseteq notifier'[d]
    BY <1>1 DEF NotifyByConnId, ChannelTypeOK, Fetch
  <1> QED
    BY <1>2 DEF NotifyByConnId

\* Every step keeps the invariant.
LEMMA ChannelStepInv == ChannelInv /\ [ChannelNext]_channelVars => ChannelInv'
  <1> SUFFICES ASSUME ChannelInv, [ChannelNext]_channelVars
               PROVE  ChannelInv'
    OBVIOUS
  <1>t. ChannelTypeOK
    BY DEF ChannelInv
  <1>s. {queue, to_ack, log} \subseteq [Conn -> Seq(Msg)]
    BY <1>t DEF ChannelTypeOK
  <1>1. ASSUME NEW d \in Display, SendFrame(d)
        PROVE  ChannelInv'
    <2>1. SendToAll(d, "frame") /\ log' = log
      BY <1>1 DEF SendFrame
    <2>2. queue' \in [Conn -> Seq(Msg)] /\ msgs' \in [Display -> 0..MaxMessages]
      BY <1>t, <2>1, SentBehind
    <2>3. ChannelTypeOK'
      BY <1>1, <1>t, <1>s, <2>2 DEF SendFrame, Subscribers, ChannelTypeOK
    <2> QED
      BY <2>1, <2>3, SendKeepsOrder DEF ChannelInv
  <1>2. ASSUME NEW d \in Display, SwitchDisplay(d)
        PROVE  ChannelInv'
    <2>1. SendToAll(d, "switch") /\ log' = log
      BY <1>2 DEF SwitchDisplay
    <2>2. queue' \in [Conn -> Seq(Msg)] /\ msgs' \in [Display -> 0..MaxMessages]
      BY <1>t, <2>1, SentBehind
    <2>3. ChannelTypeOK'
      BY <1>2, <1>t, <1>s, <2>2 DEF SwitchDisplay, ChannelTypeOK
    <2> QED
      BY <2>1, <2>3, SendKeepsOrder DEF ChannelInv
  <1>3. ASSUME NEW d \in Display, SetSend(d)
        PROVE  ChannelInv'
    <2>1. conn_display_ids' \in [Conn -> SUBSET Display]
      BY <1>3, <1>t DEF SetSend, ChannelTypeOK
    <2>2. ChannelTypeOK'
      BY <1>3, <1>t, <1>s, <2>1 DEF SetSend, connVars, ChannelTypeOK
    <2> QED
      BY <1>3, <2>2, QuietKeepsOrder DEF SetSend, connVars, ChannelInv
  <1>4. ASSUME NEW d \in Display, TryWaitNext(d)
        PROVE  ChannelInv'
    <2>1. /\ fetched_conn_ids' \in [Display -> SUBSET Fetch]
          /\ notifier' \in [Display -> SUBSET Fetch]
      BY <1>4, <1>t DEF TryWaitNext, ChannelTypeOK
    <2>2. stage' \in [Display -> {"capture", "set_send", "wait"}]
      BY <1>4, <1>t DEF TryWaitNext, ChannelTypeOK
    <2>3. ChannelTypeOK'
      BY <1>4, <1>t, <1>s, <2>1, <2>2 DEF TryWaitNext, connVars, ChannelTypeOK
    <2> QED
      BY <1>4, <2>3, QuietKeepsOrder DEF TryWaitNext, connVars, ChannelInv
  <1>5. ASSUME NEW d \in Display, WaitTimeout(d)
        PROVE  ChannelInv'
    <2>1. ChannelTypeOK'
      BY <1>5, <1>t, <1>s DEF WaitTimeout, connVars, ChannelTypeOK
    <2> QED
      BY <1>5, <2>1, QuietKeepsOrder DEF WaitTimeout, connVars, ChannelInv
  <1>6. ASSUME NEW c \in Conn, Deliver(c)
        PROVE  ChannelInv'
    <2> DEFINE q == queue[c]
               p == PassedOn(q)
               m == Last(p)
    <2>1. /\ queue' \in [Conn -> Seq(Msg)] /\ log' \in [Conn -> Seq(Msg)]
          /\ QueueInOrder' /\ LogBehind' /\ FramesInOrder'
      BY <1>6, DeliverKeepsOrder
    <2>2. q \in Seq(Msg) /\ q # <<>> /\ DOMAIN q = 1..Len(q)
          /\ \A i \in DOMAIN q : q[i] \in Msg
      BY <1>6, <1>t, ChannelTypes DEF Deliver
    <2>3. m \in Msg
      BY <2>2, PassedOnIs
    <2>4. notifier' \in [Display -> SUBSET Fetch]
      <3>1. m.display \in Display /\ m.no \in 0..MaxMessages
        BY <2>3, MaxMessagesNat DEF Msg
      <3>2. \/ notifier' = notifier
            \/ notifier' = [notifier EXCEPT ![m.display] = @ \cup {<<c, m.no>>}]
        BY <1>6 DEF Deliver
      <3> HIDE DEF m
      <3>3. <<c, m.no>> \in Fetch
        BY <3>1 DEF Fetch
      <3>4. notifier \in [Display -> SUBSET Fetch]
        BY <1>t DEF ChannelTypeOK
      <3> QED
        BY <3>1, <3>2, <3>3, <3>4
    <2>5. to_ack' \in [Conn -> Seq(Msg)]
      <3>1. Append(to_ack[c], m) \in Seq(Msg)
        BY <1>s, <2>3, AppendProperties
      <3>2. to_ack' = to_ack \/ to_ack' = [to_ack EXCEPT ![c] = Append(@, m)]
        BY <1>6 DEF Deliver
      <3> HIDE DEF m
      <3> QED
        BY <1>s, <3>1, <3>2
    <2>6. dropped' \in [Conn -> SUBSET Msg]
      <3>1. ToSet(q) \subseteq Msg
        BY <2>2 DEF ToSet
      <3>2. dropped' = [dropped EXCEPT ![c] = @ \cup (ToSet(q) \ ToSet(p))]
        BY <1>6 DEF Deliver
      <3> HIDE DEF q, p
      <3> QED
        BY <1>t, <3>1, <3>2 DEF ChannelTypeOK
    <2>7. UNCHANGED <<svcVars, phase, conn_display_ids>>
      BY <1>6 DEF Deliver
    <2> HIDE DEF m, p, q
    <2>8. ChannelTypeOK'
      BY <1>t, <2>1, <2>4, <2>5, <2>6, <2>7 DEF svcVars, ChannelTypeOK
    <2> QED
      BY <2>1, <2>8 DEF ChannelInv
  <1>7. ASSUME NEW c \in Conn, VideoReceived(c)
        PROVE  ChannelInv'
    <2>1. Tail(to_ack[c]) \in Seq(Msg)
      BY <1>7, <1>s, HeadTailProperties DEF VideoReceived
    <2>2. to_ack' \in [Conn -> Seq(Msg)]
      BY <1>7, <1>s, <2>1 DEF VideoReceived
    <2>3. notifier' \in [Display -> SUBSET Fetch]
      BY <1>7, <1>t, <1>s, Notified DEF VideoReceived
    <2>4. UNCHANGED <<svcVars, phase, queue, log, dropped, conn_display_ids>>
      BY <1>7 DEF VideoReceived
    <2>5. ChannelTypeOK'
      BY <1>t, <1>s, <2>2, <2>3, <2>4 DEF svcVars, ChannelTypeOK
    <2> QED
      BY <2>4, <2>5, QuietKeepsOrder DEF svcVars, ChannelInv
  <1>8. ASSUME NEW c \in Conn, LeaveLoop(c)
        PROVE  ChannelInv'
    <2>1. notifier' \in [Display -> SUBSET Fetch]
      <3>1. <<>> \in Seq(Msg)
        BY EmptySeq
      <3> QED
        BY <1>8, <1>t, <3>1, Notified DEF LeaveLoop
    <2>2. phase' \in [Conn -> {"open", "closing", "closed"}]
      BY <1>8, <1>t DEF LeaveLoop, ChannelTypeOK
    <2>3. UNCHANGED <<svcVars, queue, to_ack, log, dropped, conn_display_ids>>
      BY <1>8 DEF LeaveLoop
    <2>4. ChannelTypeOK'
      BY <1>t, <1>s, <2>1, <2>2, <2>3 DEF svcVars, ChannelTypeOK
    <2> QED
      BY <2>3, <2>4, QuietKeepsOrder DEF svcVars, ChannelInv
  <1>9. ASSUME NEW c \in Conn, RemoveConnection(c)
        PROVE  ChannelInv'
    <2>1. queue' \in [Conn -> Seq(Msg)] /\ \A e \in Conn : queue'[e] = queue[e] \/ queue'[e] = <<>>
      BY <1>9, <1>s, EmptySeq DEF RemoveConnection
    <2>2. phase' \in [Conn -> {"open", "closing", "closed"}]
      BY <1>9, <1>t DEF RemoveConnection, ChannelTypeOK
    <2>3. UNCHANGED <<svcVars, to_ack, log, dropped, notifier, conn_display_ids>>
      BY <1>9 DEF RemoveConnection
    <2>4. ChannelTypeOK'
      BY <1>t, <1>s, <2>1, <2>2, <2>3 DEF svcVars, ChannelTypeOK
    <2> QED
      BY <2>1, <2>3, <2>4, QuietKeepsOrder DEF svcVars, ChannelInv
  <1>10. CASE UNCHANGED channelVars
    <2>1. ChannelTypeOK'
      BY <1>10, <1>t, <1>s DEF channelVars, svcVars, connVars, ChannelTypeOK
    <2> QED
      BY <1>10, <2>1, QuietKeepsOrder DEF channelVars, svcVars, connVars, ChannelInv
  <1> QED
    BY <1>1, <1>2, <1>3, <1>4, <1>5, <1>6, <1>7, <1>8, <1>9, <1>10 DEF ChannelNext, Service, Connection

\* The inductive invariant holds in every reachable state.
THEOREM ChannelInvariance == ChannelSpec => []ChannelInv
  BY ChannelInitInv, ChannelStepInv, PTL DEF ChannelSpec

\* Frames and notifications are those of the connections, displays and messages
\* there are.
THEOREM ChannelTypeCorrect == ChannelSpec => []ChannelTypeOK
  <1>1. ChannelInv => ChannelTypeOK
    BY DEF ChannelInv
  <1> QED
    BY <1>1, ChannelInvariance, PTL

\* However many frames the connection drops, and however many displays share its
\* channel, a peer gets the frames of a display in the order they were captured.
THEOREM InOrder == ChannelSpec => []FramesInOrder
  <1>1. ChannelInv => FramesInOrder
    BY DEF ChannelInv
  <1> QED
    BY <1>1, ChannelInvariance, PTL

-----------------------------------------------------------------------------
(* Why a service waits: with one display.                                    *)

\* A message with the newest number is the last one queued.
LEMMA NewestIsLast ==
  ASSUME ChannelInv, NEW d \in Display, Display = {d}, NEW c \in Conn,
         NEW i \in DOMAIN queue[c], queue[c][i].no = msgs[d]
  PROVE  i = Len(queue[c]) /\ queue[c] # <<>>
  <1>1. ChannelTypeOK /\ QueueInOrder
    BY DEF ChannelInv
  <1>2. DOMAIN queue[c] = 1..Len(queue[c]) /\ Len(queue[c]) \in Nat /\ queue[c] \in Seq(Msg)
    BY <1>1, ChannelTypes
  <1>3. \A j \in DOMAIN queue[c] : queue[c][j].display = d /\ queue[c][j].no \in Nat
    BY <1>1, ChannelTypes
  <1>4. Len(queue[c]) \in DOMAIN queue[c] /\ i \in 1..Len(queue[c])
    BY <1>2
  <1>5. ~(i < Len(queue[c]))
    <2> SUFFICES ASSUME i < Len(queue[c])
                 PROVE  FALSE
      OBVIOUS
    <2>1. queue[c][i].no < queue[c][Len(queue[c])].no
      BY <1>1, <1>3, <1>4 DEF QueueInOrder
    <2>2. queue[c][Len(queue[c])].no <= msgs[d]
      BY <1>1, <1>3, <1>4 DEF QueueInOrder
    <2> QED
      BY <1>3, <1>4, <2>1, <2>2
  <1> QED
    BY <1>2, <1>4, <1>5, EmptySeq

\* The cause of a wait for c, if its connection is open: what the service is still
\* to be told, or what is still queued.
Cause(d, c) ==
  phase[c] = "open" =>
    \/ <<c, msgs[d]>> \in notifier[d]
    \/ \E i \in DOMAIN queue[c] : queue[c][i].no = msgs[d]

\* A step that sends nothing, and takes neither notifications nor messages away,
\* keeps every cause ...
LEMMA CauseKept ==
  ASSUME NEW d \in Display, NEW c \in Conn, Cause(d, c), msgs' = msgs,
         phase'[c] = "open" => phase[c] = "open" /\ queue'[c] = queue[c],
         notifier[d] \subseteq notifier'[d]
  PROVE  Cause(d, c)'
  BY DEF Cause

\* ... and the connection that takes the newest frame tells the service.
LEMMA DeliverKeepsCause ==
  ASSUME ChannelInv, FrameSentLast, NEW d \in Display, Display = {d}, stage[d] # "capture",
         NEW c \in Conn, NEW e \in Conn \ AckRequired, Deliver(c), Cause(d, e)
  PROVE  Cause(d, e)'
  <1> DEFINE m == Last(PassedOn(queue[c]))
  <1>1. ChannelTypeOK
    BY DEF ChannelInv
  <1>2. queue[c] \in Seq(Msg) /\ queue[c] # <<>> /\ DOMAIN queue[c] = 1..Len(queue[c])
        /\ \A i \in DOMAIN queue[c] : queue[c][i] \in Msg
    BY <1>1, ChannelTypes DEF Deliver
  <1>3. /\ \E j \in DOMAIN queue[c] : m = queue[c][j]
        /\ IsFrame(queue[c][Len(queue[c])]) => m = queue[c][Len(queue[c])]
    BY <1>2, PassedOnIs
  <1>4. m.display = d
    BY <1>2, <1>3, ChannelTypes, <1>1
  <1>5. /\ queue' = [queue EXCEPT ![c] = <<>>] /\ UNCHANGED <<svcVars, phase>>
        /\ notifier' = IF IsFrame(m) /\ c \notin AckRequired
                       THEN [notifier EXCEPT ![m.display] = @ \cup {<<c, m.no>>}]
                       ELSE notifier
    BY DEF Deliver
  <1> HIDE DEF m
  <1>6. notifier[d] \subseteq notifier'[d]
        /\ (IsFrame(m) /\ c \notin AckRequired => <<c, m.no>> \in notifier'[d])
    BY <1>1, <1>4, <1>5 DEF ChannelTypeOK
  <1>7. msgs' = msgs /\ phase' = phase
    BY <1>5 DEF svcVars
  <1>8. \A b \in Conn : b # c => queue'[b] = queue[b]
    BY <1>1, <1>5 DEF ChannelTypeOK
  <1>9. CASE e # c
    BY <1>6, <1>7, <1>8, <1>9, CauseKept
  <1>10. CASE e = c
    <2>1. ASSUME NEW i \in DOMAIN queue[c], queue[c][i].no = msgs[d]
          PROVE  <<c, msgs[d]>> \in notifier'[d]
      <3>1. i = Len(queue[c])
        BY <2>1, NewestIsLast
      <3>2. IsFrame(queue[c][i])
        BY <2>1 DEF FrameSentLast
      <3>3. m = queue[c][i]
        BY <1>3, <3>1, <3>2
      <3> QED
        BY <1>6, <1>10, <2>1, <3>2, <3>3
    <2> QED
      BY <1>6, <1>7, <1>10, <2>1 DEF Cause
  <1> QED
    BY <1>9, <1>10

\* A step of a connection, or none: the service stays where it is and sends nothing,
\* queues stay or are emptied, and causes are kept.
LEMMA OthersKeepCauses ==
  ASSUME CauseInv, NEW d \in Display, Display = {d}, UNCHANGED svcVars,
         \A c \in Conn : queue'[c] = queue[c] \/ queue'[c] = <<>>,
         stage[d] # "capture" =>
           \A e \in Conn \ AckRequired : Cause(d, e) => Cause(d, e)'
  PROVE  FrameSentLast' /\ SentHasCause' /\ WaitHasCause'
  <1>1. /\ stage' = stage /\ msgs' = msgs /\ sent_to' = sent_to
        /\ send_conn_ids' = send_conn_ids /\ fetched_conn_ids' = fetched_conn_ids
    BY DEF svcVars
  <1>2. \A c \in Conn : \A i \in DOMAIN queue'[c] :
          i \in DOMAIN queue[c] /\ queue'[c] = queue[c]
    <2>1. DOMAIN <<>> = {}
      BY EmptySeq, LenProperties
    <2> QED
      BY <2>1
  <1>3. FrameSentLast'
    BY <1>1, <1>2 DEF CauseInv, FrameSentLast
  <1>4. SentHasCause'
    <2> SUFFICES ASSUME NEW c \in Conn \ AckRequired, stage[d] = "set_send", c \in sent_to[d]
                 PROVE  Cause(d, c)'
      BY <1>1 DEF SentHasCause, Cause
    <2>1. Cause(d, c)
      BY DEF CauseInv, SentHasCause, Cause
    <2> QED
      BY <2>1
  <1>5. WaitHasCause'
    <2> SUFFICES ASSUME NEW c \in Conn \ AckRequired, stage[d] = "wait", c \in send_conn_ids[d]
                 PROVE  Cause(d, c)' \/ <<c, msgs[d]>> \in fetched_conn_ids[d]
      BY <1>1 DEF WaitHasCause, Cause
    <2>1. Cause(d, c) \/ <<c, msgs[d]>> \in fetched_conn_ids[d]
      BY DEF CauseInv, WaitHasCause, Cause
    <2> QED
      BY <2>1
  <1> QED
    BY <1>3, <1>4, <1>5

\* With one display, every step keeps what a service that waits is waiting for.
LEMMA StepCause ==
  ASSUME NEW d, Display = {d}
  PROVE  CauseInv /\ [ChannelNext]_channelVars => CauseInv'
  <1> SUFFICES ASSUME CauseInv, [ChannelNext]_channelVars
               PROVE  CauseInv'
    OBVIOUS
  <1>t. ChannelInv /\ ChannelTypeOK /\ QueueInOrder /\ d \in Display
    BY DEF CauseInv, ChannelInv
  <1>i. ChannelInv'
    BY <1>t, ChannelStepInv
  <1>p. \A e \in Display : e = d
    OBVIOUS
  <1> SUFFICES FrameSentLast' /\ SentHasCause' /\ WaitHasCause'
    BY <1>i DEF CauseInv
  <1>1. CASE SendFrame(d)
    <2>1. SendToAll(d, "frame") /\ UNCHANGED phase
      BY <1>1 DEF SendFrame
    <2>2. stage'[d] = "set_send" /\ sent_to'[d] = Subscribers
      BY <1>1, <1>t DEF SendFrame, ChannelTypeOK
    <2>3. msgs[d] \in Nat /\ msgs'[d] = msgs[d] + 1
      BY <1>t, <2>1, ChannelTypes, SentBehind
    <2>4. FrameSentLast'
      <3> SUFFICES ASSUME NEW c \in Conn, NEW i \in DOMAIN queue'[c],
                          queue'[c][i].no = msgs'[d]
                   PROVE  IsFrame(queue'[c][i])
        BY <1>p DEF FrameSentLast
      <3>1. CASE i \in DOMAIN queue[c] /\ queue'[c][i] = queue[c][i]
        <4>1. queue[c][i].display = d /\ queue[c][i].no \in Nat
          BY <1>t, <1>p, <3>1, ChannelTypes
        <4>2. queue[c][i].no <= msgs[d]
          BY <1>t, <3>1, <4>1 DEF QueueInOrder
        <4> QED
          BY <2>3, <3>1, <4>1, <4>2
      <3>2. CASE queue'[c][i].type = "frame"
        BY <3>2 DEF IsFrame
      <3> QED
        BY <1>t, <2>1, <3>1, <3>2, SentBehind
    <2>5. SentHasCause'
      <3> SUFFICES ASSUME NEW c \in Conn, phase[c] = "open"
                   PROVE  \E i \in DOMAIN queue'[c] : queue'[c][i].no = msgs'[d]
        BY <1>p, <2>1 DEF SentHasCause
      <3> QED
        BY <1>t, <2>1, SentBehind
    <2>6. WaitHasCause'
      BY <1>p, <2>2 DEF WaitHasCause
    <2> QED
      BY <2>4, <2>5, <2>6
  <1>2. CASE SwitchDisplay(d) \/ WaitTimeout(d)
    <2>1. stage'[d] = "capture"
      BY <1>2, <1>t DEF SwitchDisplay, WaitTimeout, ChannelTypeOK
    <2> QED
      BY <1>p, <2>1 DEF FrameSentLast, SentHasCause, WaitHasCause
  <1>3. CASE SetSend(d)
    <2>1. /\ stage[d] = "set_send" /\ stage'[d] \in {"wait", "capture"}
          /\ send_conn_ids'[d] = sent_to[d]
          /\ UNCHANGED <<msgs, phase, queue, notifier>>
      BY <1>3, <1>t DEF SetSend, connVars, ChannelTypeOK
    <2>2. FrameSentLast'
      BY <1>p, <2>1 DEF CauseInv, FrameSentLast
    <2>3. SentHasCause'
      BY <1>p, <2>1 DEF SentHasCause
    <2>4. WaitHasCause'
      BY <1>p, <2>1 DEF CauseInv, SentHasCause, WaitHasCause
    <2> QED
      BY <2>2, <2>3, <2>4
  <1>4. CASE TryWaitNext(d)
    <2>1. /\ stage[d] = "wait" /\ stage'[d] \in {"wait", "capture"}
          /\ UNCHANGED <<msgs, phase, queue, send_conn_ids>>
      BY <1>4, <1>t DEF TryWaitNext, connVars, ChannelTypeOK
    <2>2. fetched_conn_ids'[d] = fetched_conn_ids[d] \cup notifier[d]
      BY <1>4, <1>t DEF TryWaitNext, ChannelTypeOK
    <2>3. FrameSentLast'
      BY <1>p, <2>1 DEF CauseInv, FrameSentLast
    <2>4. SentHasCause'
      BY <1>p, <2>1 DEF SentHasCause
    <2>5. WaitHasCause'
      BY <1>p, <2>1, <2>2 DEF CauseInv, WaitHasCause
    <2> QED
      BY <2>3, <2>4, <2>5
  <1>5. ASSUME NEW c \in Conn, Deliver(c)
        PROVE  FrameSentLast' /\ SentHasCause' /\ WaitHasCause'
    <2>1. UNCHANGED svcVars /\ queue' = [queue EXCEPT ![c] = <<>>]
      BY <1>5 DEF Deliver
    <2>2. \A e \in Conn : queue'[e] = queue[e] \/ queue'[e] = <<>>
      BY <1>t, <2>1 DEF ChannelTypeOK
    <2>3. FrameSentLast
      BY DEF CauseInv
    <2>4. stage[d] # "capture" => \A e \in Conn \ AckRequired : Cause(d, e) => Cause(d, e)'
      BY <1>5, <1>t, <2>3, DeliverKeepsCause
    <2> QED
      BY <1>t, <2>1, <2>2, <2>4, OthersKeepCauses
  <1>6. ASSUME UNCHANGED svcVars, \A e \in Conn : queue'[e] = queue[e] \/ queue'[e] = <<>>,
               \A e \in Conn : phase'[e] = "open" => phase[e] = "open" /\ queue'[e] = queue[e],
               notifier[d] \subseteq notifier'[d]
        PROVE  FrameSentLast' /\ SentHasCause' /\ WaitHasCause'
    <2>1. msgs' = msgs
      BY <1>6 DEF svcVars
    <2>2. \A e \in Conn : Cause(d, e) => Cause(d, e)'
      BY <1>6, <1>t, <2>1, CauseKept
    <2> QED
      BY <1>6, <1>t, <2>2, OthersKeepCauses
  <1>7. ASSUME NEW c \in Conn, VideoReceived(c)
        PROVE  FrameSentLast' /\ SentHasCause' /\ WaitHasCause'
    <2>1. UNCHANGED <<svcVars, phase, queue>> /\ NotifyByConnId(c, to_ack[c])
      BY <1>7 DEF VideoReceived
    <2>2. to_ack[c] \in Seq(Msg)
      BY <1>t DEF ChannelTypeOK
    <2>3. notifier[d] \subseteq notifier'[d]
      BY <1>t, <2>1, <2>2, Notified
    <2> QED
      BY <1>6, <2>1, <2>3
  <1>8. ASSUME NEW c \in Conn, LeaveLoop(c)
        PROVE  FrameSentLast' /\ SentHasCause' /\ WaitHasCause'
    <2>1. /\ UNCHANGED <<svcVars, queue>> /\ NotifyByConnId(c, <<>>)
          /\ phase' = [phase EXCEPT ![c] = "closing"]
      BY <1>8 DEF LeaveLoop
    <2>2. notifier[d] \subseteq notifier'[d]
      <3>1. <<>> \in Seq(Msg)
        BY EmptySeq
      <3> QED
        BY <1>t, <2>1, <3>1, Notified
    <2>3. \A e \in Conn : phase'[e] = "open" => phase[e] = "open"
      BY <1>t, <2>1 DEF ChannelTypeOK
    <2> QED
      BY <1>6, <2>1, <2>2, <2>3
  <1>9. ASSUME NEW c \in Conn, RemoveConnection(c)
        PROVE  FrameSentLast' /\ SentHasCause' /\ WaitHasCause'
    <2>1. /\ UNCHANGED <<svcVars, notifier>>
          /\ phase' = [phase EXCEPT ![c] = "closed"] /\ queue' = [queue EXCEPT ![c] = <<>>]
      BY <1>9 DEF RemoveConnection
    <2>2. /\ phase'[c] = "closed"
          /\ \A e \in Conn : e # c => phase'[e] = phase[e] /\ queue'[e] = queue[e]
          /\ queue'[c] = <<>>
      BY <1>t, <2>1 DEF ChannelTypeOK
    <2>3. /\ \A e \in Conn : queue'[e] = queue[e] \/ queue'[e] = <<>>
          /\ \A e \in Conn : phase'[e] = "open" => phase[e] = "open" /\ queue'[e] = queue[e]
      BY <2>2
    <2> QED
      BY <1>6, <2>1, <2>3
  <1>10. CASE UNCHANGED channelVars
    <2>1. UNCHANGED <<svcVars, phase, queue, notifier>>
      BY <1>10 DEF channelVars, connVars
    <2> QED
      BY <1>6, <2>1
  <1> QED
    BY <1>p, <1>1, <1>2, <1>3, <1>4, <1>5, <1>7, <1>8, <1>9, <1>10 DEF ChannelNext, Service, Connection

\* With one display, a service that waits for an open connection whose peer does not
\* acknowledge has reason to: the frame is still queued, or the notification is
\* still to be read.
THEOREM NoIdleWait ==
  ASSUME NEW d, Display = {d}
  PROVE  ChannelSpec => []WaitHasCause
  <1>1. ChannelInit => CauseInv
    <2> SUFFICES ASSUME ChannelInit
                 PROVE  FrameSentLast /\ SentHasCause /\ WaitHasCause
      BY ChannelInitInv DEF CauseInv
    <2>1. \A e \in Display : stage[e] = "capture"
      BY DEF ChannelInit
    <2> QED
      BY <2>1 DEF FrameSentLast, SentHasCause, WaitHasCause
  <1>2. CauseInv /\ [ChannelNext]_channelVars => CauseInv'
    BY StepCause
  <1>3. CauseInv => WaitHasCause
    BY DEF CauseInv
  <1> QED
    BY <1>1, <1>2, <1>3, PTL DEF ChannelSpec
=============================================================================
