------------------------ MODULE CursorServiceProofs ------------------------
(***************************************************************************)
(* CursorService for any set of connections and cursors: its types, and     *)
(* that a subscriber is up to date between rounds, from the inductive       *)
(* invariant IInv.                                                          *)
(***************************************************************************)
EXTENDS CursorService, TLAPS

\* What a send does to the peers: everyone it is sent to shows the cursor
\* (an id is only sent to a peer that holds the pixels), nobody else changes,
\* and an id stays resolvable.
LEMMA SendEffect ==
  ASSUME NEW S \in SUBSET Conn, NEW h \in Cursor \cup {None},
         TypeOK, IdsResolve, Send(S, h)
  PROVE  /\ cached' \in [Conn -> SUBSET Cursor]
         /\ known' \in [Conn -> SUBSET Cursor]
         /\ shown' \in [Conn -> Cursor \cup {None}]
         /\ IdsResolve'
         /\ \A c \in Conn \ S : shown'[c] = shown[c]
         /\ h # None => \A c \in S : shown'[c] = h
  <1>1. CASE h = None
    BY <1>1 DEF Send, peerVars, TypeOK, IdsResolve
  <1>2. CASE h # None
    <2>1. h \in Cursor
      BY <1>2
    <2>2. /\ cached' = [c \in Conn |-> IF c \in S THEN cached[c] \cup {h} ELSE cached[c]]
          /\ known' = [c \in Conn |-> IF c \in S /\ h \notin cached[c]
                                      THEN known[c] \cup {h} ELSE known[c]]
          /\ shown' = [c \in Conn |-> IF c \in S /\ (h \notin cached[c] \/ h \in known[c])
                                      THEN h ELSE shown[c]]
      BY <1>2 DEF Send
    <2>3. /\ cached' \in [Conn -> SUBSET Cursor]
          /\ known' \in [Conn -> SUBSET Cursor]
          /\ shown' \in [Conn -> Cursor \cup {None}]
      BY <2>1, <2>2 DEF TypeOK
    <2>4. \A c \in Conn : cached[c] \subseteq known[c]
      BY DEF IdsResolve
    <2>5. IdsResolve'
      BY <2>2, <2>4 DEF IdsResolve
    <2>6. \A c \in S : shown'[c] = h
      BY <2>2, <2>4
    <2>7. \A c \in Conn \ S : shown'[c] = shown[c]
      BY <2>2
    <2> QED
      BY <2>3, <2>5, <2>6, <2>7
  <1> QED
    BY <1>1, <1>2

\* A service that has just been created is in order.
LEMMA InitIInv == Init => IInv
  BY DEF Init, TmplInit, IInv, TypeOK, TmplTypeOK, Steps, OneList, IdsResolve, ShownBy, Members

\* No step of the thread, of a connection or of the system breaks IInv: one case
\* per action.
LEMMA StepIInv == IInv /\ [Next]_vars => IInv'
  <1> SUFFICES ASSUME IInv, [Next]_vars
               PROVE  IInv'
    OBVIOUS
  <1> USE DEF IInv, TypeOK, TmplTypeOK, Steps, ShownBy, OneList, IdsResolve, Members
  <1>1. ASSUME NEW c \in Conn, Subscribe(c)
        PROVE  IInv'
    <2>1. /\ c \notin subscribes
          /\ new_subscribes' = new_subscribes \cup {c}
          /\ cached' = [cached EXCEPT ![c] = {}]
          /\ late' = IF pc = "swap_drop" THEN late \cup {c} ELSE late
          /\ UNCHANGED <<subscribes, active, pc, may_reset, polled, hcursor, cursor_data,
                         cached_cursor_data, cursor, shown, known>>
      BY <1>1, CursorNeedsSnapshot
         DEF Subscribe, OnSubscribe, IsSubed, Members, threadVars
    <2> QED
      BY <2>1
  <1>2. ASSUME NEW c \in Conn, Unsubscribe(c)
        PROVE  IInv'
    BY <1>2 DEF Unsubscribe, OnUnsubscribe, threadVars, peerVars
  <1>3. CASE StopService
    BY <1>3 DEF StopService, Join, threadVars, peerVars
  <1>4. CASE CursorChanges
    BY <1>4 DEF CursorChanges, tmplVars, threadVars, peerVars
  <1>5. CASE CheckActive
    BY <1>5 DEF CheckActive, tmplVars, peerVars
  <1>6. CASE CallBack
    BY <1>6 DEF CallBack, tmplVars, peerVars
  <1>7. CASE ResetState
    BY <1>7 DEF ResetState, tmplVars, peerVars
  <1>8. CASE GetCursor
    BY <1>8, NoneNotCursor DEF GetCursor, tmplVars, peerVars
  <1>9. CASE GetCursorData
    BY <1>9 DEF GetCursorData, tmplVars, peerVars
  <1>10. CASE SendShared
    <2>1. /\ Send(subscribes, hcursor)
          /\ pc = "send_shared"
          /\ hcursor # None
          /\ UNCHANGED <<subscribes, new_subscribes, active, may_reset, polled,
                         hcursor, cached_cursor_data, cursor>>
          /\ cursor_data' = hcursor
          /\ late' = late \ subscribes
          /\ pc' = "snapshot"
      BY <1>10 DEF SendShared, tmplVars
    <2>2. /\ cached' \in [Conn -> SUBSET Cursor]
          /\ known' \in [Conn -> SUBSET Cursor]
          /\ shown' \in [Conn -> Cursor \cup {None}]
          /\ IdsResolve'
          /\ \A c \in subscribes : shown'[c] = hcursor
      BY <2>1, SendEffect
    <2> QED
      BY <2>1, <2>2
  <1>11. CASE Snapshot
    BY <1>11 DEF Snapshot, tmplVars, peerVars
  <1>12. CASE SwapSend
    <2>1. /\ Send(new_subscribes, cursor_data)
          /\ pc = "swap_send"
          /\ UNCHANGED <<subscribes, new_subscribes, active, may_reset, polled, hcursor,
                         cursor_data, cached_cursor_data, cursor, late>>
          /\ pc' = "swap_drop"
      BY <1>12 DEF SwapSend, tmplVars
    <2>2. /\ cached' \in [Conn -> SUBSET Cursor]
          /\ known' \in [Conn -> SUBSET Cursor]
          /\ shown' \in [Conn -> Cursor \cup {None}]
          /\ IdsResolve'
          /\ \A c \in Conn \ new_subscribes : shown'[c] = shown[c]
          /\ cursor_data # None => \A c \in new_subscribes : shown'[c] = cursor_data
      BY <2>1, SendEffect
    <2> QED
      BY <2>1, <2>2
  <1>13. CASE SwapDrop
    BY <1>13 DEF SwapDrop, SwapNewSubscribes, peerVars
  <1>14. CASE GetCursorFails
    BY <1>14 DEF GetCursorFails, tmplVars, peerVars
  <1>15. CASE UNCHANGED vars
    BY <1>15 DEF vars, tmplVars, threadVars, peerVars
  <1> QED
    BY <1>1, <1>2, <1>3, <1>4, <1>5, <1>6, <1>7, <1>8, <1>9, <1>10, <1>11, <1>12,
       <1>13, <1>14, <1>15 DEF Next, Thread, Environment

\* What is true of both lists at every step of the thread (see IInv).
THEOREM Invariance == Spec => []IInv
  BY InitIInv, StepIInv, PTL DEF Spec

\* No variable ever leaves its type.
THEOREM TypeCorrect == Spec => []TypeOK
  <1>1. IInv => TypeOK
    BY DEF IInv
  <1> QED
    BY <1>1, Invariance, PTL

\* A message is sent to a connection once: it is never in both lists.
THEOREM OneListCorrect == Spec => []OneList
  <1>1. IInv => OneList
    BY DEF IInv
  <1> QED
    BY <1>1, Invariance, PTL

\* A cursor id is only ever sent to a peer that holds the pixels.
THEOREM IdsResolveCorrect == Spec => []IdsResolve
  <1>1. IInv => IdsResolve
    BY DEF IInv
  <1> QED
    BY <1>1, Invariance, PTL

\* Between two rounds of run_cursor, every subscriber shows the cursor the
\* service last saw, but for those that subscribed inside the snapshot window.
THEOREM CurrentCorrect == Spec => []Current
  <1>1. IInv => Current
    BY DEF IInv, Current, ShownBy
  <1> QED
    BY <1>1, Invariance, PTL

\* The snapshot never hands out a cursor older than what was published.
THEOREM SnapshotFreshCorrect == Spec => []SnapshotFresh
  <1>1. IInv => SnapshotFresh
    BY DEF IInv, SnapshotFresh
  <1> QED
    BY <1>1, Invariance, PTL

-----------------------------------------------------------------------------
(* The service implements Delivery.                                          *)

\* A send to S, to subscribers of the cursor last seen, brings them to it.
LEMMA SendBrings ==
  ASSUME NEW S \in SUBSET Members, IInv, Send(S, hcursor), hcursor # None,
         late' = late \ S,
         UNCHANGED <<subscribes, new_subscribes, active, hcursor>>
  PROVE  Promise!Bring(S)
  <1>1. S \in SUBSET Conn
    BY DEF IInv, TypeOK, TmplTypeOK, Members
  <1>2. /\ \A c \in Conn \ S : shown'[c] = shown[c]
        /\ \A c \in S : shown'[c] = hcursor
        /\ shown' \in [Conn -> Cursor \cup {None}]
    BY <1>1, SendEffect DEF IInv, TypeOK
  <1>3. shown' = [c \in Conn |-> IF c \in S THEN hcursor ELSE shown[c]]
    BY <1>1, <1>2
  <1> QED
    BY <1>3 DEF Promise!Bring, Members

\* A new service has promised nothing.
LEMMA InitImplements == Init => Promise!Init
  BY DEF Init, TmplInit, Promise!Init, Members

\* Every step of the service is a step of Delivery, or none.
LEMMA StepImplements == IInv /\ [Next]_vars => [Promise!Next]_(Promise!vars)
  <1> SUFFICES ASSUME IInv, [Next]_vars
               PROVE  Promise!Next \/ UNCHANGED Promise!vars
    OBVIOUS
  <1> USE DEF Promise!vars, Members
  <1>1. ASSUME NEW c \in Conn, Subscribe(c)
        PROVE  Promise!Join(c)
    BY <1>1, CursorNeedsSnapshot
       DEF Subscribe, OnSubscribe, IsSubed, threadVars, Promise!Join
  <1>2. ASSUME NEW c \in Conn, Unsubscribe(c)
        PROVE  Promise!Leave(c)
    <2>1. /\ subscribes' \cup new_subscribes' = (subscribes \cup new_subscribes) \ {c}
          /\ c \in subscribes \cup new_subscribes
          /\ late' = late \ {c}
          /\ UNCHANGED <<hcursor, shown, active>>
      BY <1>2 DEF Unsubscribe, OnUnsubscribe, IsSubed, threadVars, peerVars,
                  IInv, OneList
    <2> QED
      BY <2>1 DEF Promise!Leave
  <1>3. CASE StopService
    BY <1>3 DEF StopService, Join, threadVars, peerVars, Promise!Next, Promise!Close
  <1>4. CASE ResetState
    <2>1. CASE UNCHANGED hcursor
      BY <1>4, <2>1 DEF ResetState, tmplVars, peerVars
    <2>2. CASE hcursor' = None
      BY <1>4, <2>2 DEF ResetState, tmplVars, peerVars, Promise!Next, Promise!Record
    <2> QED
      BY <1>4, <2>1, <2>2 DEF ResetState
  <1>5. CASE GetCursorData
    <2>1. CASE UNCHANGED hcursor
      BY <1>5, <2>1 DEF GetCursorData, tmplVars, peerVars
    <2>2. CASE hcursor' = polled
      BY <1>5, <2>2
         DEF GetCursorData, tmplVars, peerVars, IInv, TypeOK, Promise!Next, Promise!Record
    <2> QED
      BY <1>5, <2>1, <2>2 DEF GetCursorData
  <1>6. CASE SendShared
    <2>1. Promise!Bring(subscribes)
      BY <1>6, SendBrings DEF SendShared, tmplVars, IInv
    <2> QED
      BY <2>1 DEF Promise!Next
  <1>7. CASE SwapSend
    <2>1. CASE hcursor = None
      BY <1>7, <2>1 DEF SwapSend, Send, tmplVars, peerVars, IInv
    <2>2. CASE hcursor # None
      <3>1. late \cap new_subscribes = {}
        BY <1>7 DEF SwapSend, IInv, OneList
      <3>2. late' = late \ new_subscribes
        BY <1>7, <3>1 DEF SwapSend
      <3>3. Promise!Bring(new_subscribes)
        BY <1>7, <2>2, <3>2, SendBrings DEF SwapSend, tmplVars, IInv
      <3> QED
        BY <3>3 DEF Promise!Next
    <2> QED
      BY <2>1, <2>2
  <1>8. CASE SwapDrop
    BY <1>8 DEF SwapDrop, SwapNewSubscribes, peerVars
  <1>9. CASE CursorChanges \/ CheckActive \/ CallBack \/ GetCursor \/ GetCursorFails
             \/ Snapshot
    BY <1>9 DEF CursorChanges, CheckActive, CallBack, GetCursor, GetCursorFails,
                Snapshot, tmplVars, threadVars, peerVars
  <1>10. CASE UNCHANGED vars
    BY <1>10 DEF vars, tmplVars, threadVars, peerVars
  <1> QED
    BY <1>1, <1>2, <1>3, <1>4, <1>5, <1>6, <1>7, <1>8, <1>9, <1>10
       DEF Next, Thread, Environment, Promise!Next

\* The cursor service keeps the promise of a service: whatever its thread and its
\* two lists do, a peer is only ever brought to the cursor the service saw last,
\* and only who came in the snapshot window is missed.
THEOREM ImplementsCorrect == Spec => Implements
  BY InitImplements, StepImplements, Invariance, PTL DEF Spec, Implements, Promise!Spec
=============================================================================
