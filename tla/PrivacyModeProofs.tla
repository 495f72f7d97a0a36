-------------------------- MODULE PrivacyModeProofs --------------------------
(***************************************************************************)
(* PrivacyMode for any connections and any number of requests and failures: *)
(* its types, that it does not outlive its holder, and that the screen is    *)
(* hidden by the implementation in charge only while it is held, from the    *)
(* inductive invariant IInv.                                                *)
(***************************************************************************)
EXTENDS PrivacyMode, TLAPS

\* Failures only add up.
LEMMA FailuresGrow ==
  ASSUME TypeOK, Failure \/ UNCHANGED failures
  PROVE  failures' \in 0..MaxFailures /\ (failures' = 0 => failures = 0 /\ failures' = failures)
  BY PrivacyBounds DEF TypeOK, Failure

\* What is asked of privacy mode is counted within its bound.
LEMMA RequestType ==
  ASSUME TypeOK, Request \/ UNCHANGED requests
  PROVE  requests' \in 0..MaxRequests
  BY PrivacyBounds DEF TypeOK, Request

\* A request under way, as a tuple.
LEMMA RequestUnderWay ==
  ASSUME NEW c \in Conn, NEW k \in Impl, NEW n \in 1..MaxRequests, NEW mode \in Mode
  PROVE  /\ <<c, k, n, mode>> \in Conn \X Impl \X (1..MaxRequests) \X Mode
         /\ <<c, k, n, mode>>[1] = c /\ <<c, k, n, mode>>[4] = mode
  OBVIOUS

\* turn_off_privacy lets go of the screen together with the holder, or of neither.
LEMMA TurnOffKeeps ==
  ASSUME TypeOK, HiddenWhileHeld, NEW c \in Conn \cup {NoConn}, TurnOff(c), impl' = impl
  PROVE  /\ holder' \in {holder, NoConn} /\ applied' \subseteq Impl
         /\ failures' \in 0..MaxFailures /\ (failures' = 0 => failures = 0)
         /\ HiddenWhileHeld'
         /\ c \in Conn /\ holder = c /\ holder' = c => failures' > 0
  <1>1. failures' \in 0..MaxFailures /\ (failures' = 0 => failures = 0 /\ failures' = failures)
    BY FailuresGrow DEF TurnOff
  <1>2. CASE MayTurnOff(c) /\ Failure /\ UNCHANGED <<holder, applied>>
    <2>1. failures' > 0
      BY <1>1, <1>2, PrivacyBounds DEF Failure, TypeOK
    <2> QED
      BY <1>1, <1>2, <2>1 DEF TypeOK, HiddenWhileHeld
  <1>3. CASE ~MayTurnOff(c) /\ UNCHANGED <<holder, applied, failures>>
    BY <1>1, <1>3 DEF MayTurnOff, TypeOK, HiddenWhileHeld
  <1>4. CASE /\ MayTurnOff(c)
             /\ holder' = NoConn /\ applied' = applied \ {impl}
             /\ UNCHANGED failures
    BY <1>1, <1>4, NoConnIsNone DEF TypeOK, HiddenWhileHeld
  <1> QED
    BY <1>2, <1>3, <1>4 DEF TurnOff

\* turn_on_privacy_sync hides the screen with the implementation asked for, or
\* with none, whichever was in charge before.
LEMMA TurnOnKeeps ==
  ASSUME TypeOK, HiddenWhileHeld, NEW c \in Conn, NEW k \in Impl, NEW result \in Results,
         TurnOnSync(c, k, result)
  PROVE  /\ holder' \in {holder, c, NoConn} /\ applied' \subseteq Impl /\ impl' \in Impl
         /\ failures' \in 0..MaxFailures /\ (failures' = 0 => failures = 0)
         /\ HiddenWhileHeld'
  <1>1. CASE UNCHANGED <<modeVars, failures>>
    BY <1>1 DEF modeVars, TypeOK, HiddenWhileHeld
  <1>2. CASE ~Occupied(c) /\ ~(holder = c /\ impl = k)
    <2>1. PICK cleared, restored \in BOOLEAN :
            LET left == IF impl # k /\ cleared THEN AfterClear ELSE applied IN
            /\ impl = k => cleared
            /\ ~restored => result = "error" /\ k = "virtual"
            /\ IF cleared /\ restored THEN UNCHANGED failures ELSE Failure
            /\ holder' = IF result = "on" THEN c ELSE NoConn
            /\ applied' = IF result = "on" \/ ~restored THEN left \cup {k}
                          ELSE IF k = "virtual" THEN left \ {k} ELSE left
      BY <1>2 DEF TurnOnSync
    <2>2. impl' = k /\ holder \in {NoConn, c} /\ (impl = k => holder = NoConn)
      BY <1>2 DEF TurnOnSync, Occupied
    <2>3. failures' \in 0..MaxFailures /\ (failures' = 0 => failures = 0 /\ failures' = failures)
      BY <2>1, FailuresGrow
    <2>4. Failure => failures' > 0
      BY PrivacyBounds DEF Failure, TypeOK
    <2>5. holder' \in {holder, c, NoConn} /\ applied' \subseteq Impl
      BY <2>1, <2>2 DEF AfterClear, TypeOK
    <2>6. HiddenWhileHeld'
      <3> SUFFICES ASSUME failures' = 0
                   PROVE  applied' = IF holder' = NoConn THEN {} ELSE {impl'}
        BY DEF HiddenWhileHeld
      <3>1. cleared /\ restored
        BY <2>1, <2>4
      <3>2. applied = IF holder = NoConn THEN {} ELSE {impl}
        BY <2>3 DEF HiddenWhileHeld
      <3>3. (IF impl # k /\ cleared THEN AfterClear ELSE applied) = {}
        BY <2>2, <3>1, <3>2 DEF AfterClear
      <3>4. c # NoConn
        BY NoConnIsNone
      <3> QED
        BY <2>1, <2>2, <3>1, <3>3, <3>4
    <2> QED
      BY <2>2, <2>3, <2>5, <2>6
  <1> QED
    BY <1>1, <1>2 DEF TurnOnSync

\* Nothing is held, and nothing hidden, at the start.
LEMMA InitIInv == Init => IInv
  <1> SUFFICES ASSUME Init
               PROVE  IInv
    OBVIOUS
  <1>1. requests \in 0..MaxRequests /\ failures \in 0..MaxFailures
    BY PrivacyBounds DEF Init
  <1>2. \A c \in Conn : step[c] = "idle" /\ pc[c] = "out"
    BY DEF Init
  <1>3. TypeOK
    BY <1>1, <1>2 DEF Init, TypeOK
  <1>4. HolderPresent /\ OneAwaited /\ HeldFromWithin /\ HiddenWhileHeld
    BY <1>2 DEF Init, HolderPresent, OneAwaited, HeldFromWithin, HiddenWhileHeld
  <1> QED
    BY <1>3, <1>4 DEF IInv, Inv

\* A step that leaves the threads, the steps of connections and privacy mode alone
\* keeps IInv, unless a connection goes that holds it.
LEMMA OthersKeep ==
  ASSUME IInv, UNCHANGED <<impl, holder, applied, step, threads, late, failures>>,
         pc' \in [Conn -> {"out", "login", "in", "closing", "leaving", "gone"}],
         requests' \in 0..MaxRequests,
         {shows', off_by_peer', on_by_other'} \subseteq SUBSET Conn,
         captured' \in Conn \cup {NoConn}, restarting' \in BOOLEAN,
         \A c \in Conn :
           \/ pc'[c] = pc[c]
           \/ step[c] = "idle" /\ pc[c] \in {"out", "login"} /\ holder # c
           \/ step[c] = "idle" /\ pc[c] \in {"in", "closing"} /\ pc'[c] \notin {"out", "login"}
              /\ (pc'[c] = "gone" => holder # c)
  PROVE  IInv'
  <1>1. TypeOK'
    BY DEF IInv, Inv, TypeOK
  <1>2. HolderPresent'
    BY DEF IInv, Inv, TypeOK, HolderPresent
  <1>3. OneAwaited'
    BY DEF IInv, OneAwaited
  <1>4. HeldFromWithin'
    BY DEF IInv, Inv, TypeOK, HeldFromWithin
  <1>5. HiddenWhileHeld'
    BY DEF IInv, HiddenWhileHeld
  <1> QED
    BY <1>1, <1>2, <1>3, <1>4, <1>5 DEF IInv, Inv

\* A thread's answer or a request done at once: what turn_on_privacy changes, with
\* what its connection makes of the result.
LEMMA TurnedOnKeeps ==
  ASSUME IInv, NEW c \in Conn, NEW k \in Impl, NEW result \in Results,
         TurnOnSync(c, k, result),
         step' \in [Conn -> {"idle", "wait", "check", "failed", "off"}],
         \A d \in Conn : d # c => step'[d] = step[d],
         threads' \subseteq threads,
         \A d \in Conn : step'[d] = "wait" <=> \E t \in threads' : t[1] = d /\ t[4] # "late",
         pc[c] = "in" \/ (c \in late /\ step'[c] = step[c] /\ pc[c] \notin {"out", "login"}),
         shows' \subseteq Conn, requests' \in 0..MaxRequests,
         UNCHANGED <<late, pc, on_by_other, off_by_peer, videoVars>>
  PROVE  IInv'
  <1>t. TypeOK /\ HiddenWhileHeld
    BY DEF IInv, Inv
  <1>1. /\ holder' \in {holder, c, NoConn} /\ applied' \subseteq Impl /\ impl' \in Impl
        /\ failures' \in 0..MaxFailures /\ (failures' = 0 => failures = 0)
        /\ HiddenWhileHeld'
    BY <1>t, TurnOnKeeps
  <1>2. TypeOK'
    BY <1>t, <1>1 DEF videoVars, TypeOK
  <1>3. HolderPresent'
    BY <1>t, <1>1, PrivacyBounds DEF IInv, Inv, HolderPresent, TypeOK
  <1>4. OneAwaited' /\ HeldFromWithin'
    BY <1>t, <1>1 DEF IInv, Inv, OneAwaited, HeldFromWithin
  <1> QED
    BY <1>1, <1>2, <1>3, <1>4 DEF IInv, Inv

\* turn_off_privacy for a connection or the user at the host, with what is done
\* of a request after it; a connection that has gone does not hold privacy mode.
LEMMA TurnedOffKeeps ==
  ASSUME IInv, NEW c \in Conn \cup {NoConn}, TurnOff(c),
         UNCHANGED <<impl, threads, late, on_by_other, videoVars>>,
         step' \in [Conn -> {"idle", "wait", "check", "failed", "off"}],
         \A d \in Conn : step'[d] = step[d] \/ (step[d] # "wait" /\ step'[d] = "idle"),
         pc' \in [Conn -> {"out", "login", "in", "closing", "leaving", "gone"}],
         \A d \in Conn : pc'[d] = pc[d] \/ (pc[d] = "leaving" /\ pc'[d] = "gone" /\ d = c),
         shows' \subseteq Conn, off_by_peer' \subseteq Conn, requests' \in 0..MaxRequests
  PROVE  IInv'
  <1>t. TypeOK /\ HiddenWhileHeld
    BY DEF IInv, Inv
  <1>1. /\ holder' \in {holder, NoConn} /\ applied' \subseteq Impl
        /\ failures' \in 0..MaxFailures /\ (failures' = 0 => failures = 0)
        /\ HiddenWhileHeld'
        /\ c \in Conn /\ holder = c /\ holder' = c => failures' > 0
    BY <1>t, TurnOffKeeps
  <1>2. TypeOK'
    BY <1>t, <1>1 DEF videoVars, TypeOK
  <1>3. HolderPresent'
    BY <1>t, <1>1, PrivacyBounds DEF IInv, Inv, HolderPresent, TypeOK
  <1>4. OneAwaited' /\ HeldFromWithin'
    BY <1>t, <1>1 DEF IInv, Inv, OneAwaited, HeldFromWithin, TypeOK
  <1> QED
    BY <1>1, <1>2, <1>3, <1>4 DEF IInv, Inv

\* A request that is done with, or goes on to the next step, leaves privacy mode
\* as it is.
LEMMA SettledKeeps ==
  ASSUME IInv, NEW c \in Conn, pc[c] = "in", step[c] \notin {"idle", "wait"},
         step' \in [Conn -> {"idle", "wait", "check", "failed", "off"}],
         step'[c] # "wait", \A d \in Conn : d # c => step'[d] = step[d],
         shows' \subseteq Conn,
         UNCHANGED <<modeVars, threads, late, pc, on_by_other, off_by_peer, videoVars,
                     requests, failures>>
  PROVE  IInv'
  <1>1. TypeOK'
    BY DEF modeVars, videoVars, IInv, Inv, TypeOK
  <1>2. HolderPresent' /\ OneAwaited' /\ HeldFromWithin' /\ HiddenWhileHeld'
    BY DEF modeVars, IInv, Inv, HolderPresent, OneAwaited, HeldFromWithin, HiddenWhileHeld
  <1> QED
    BY <1>1, <1>2 DEF IInv, Inv

\* No step of a connection, a thread, the user at the host or the video service
\* breaks IInv: one case per action.
LEMMA StepIInv == IInv /\ [Next]_vars => IInv'
  <1> SUFFICES ASSUME IInv, [Next]_vars
               PROVE  IInv'
    OBVIOUS
  <1>t. TypeOK /\ HiddenWhileHeld
    BY DEF IInv, Inv
  <1>r. Request \/ UNCHANGED requests => requests' \in 0..MaxRequests
    BY <1>t, RequestType
  <1>1. ASSUME NEW c \in Conn, Login(c)
        PROVE  IInv'
    BY <1>1, <1>t, <1>r, OthersKeep, NoConnIsNone
       DEF Login, Becomes, modeVars, videoVars, IInv, Inv, TypeOK, OneAwaited, HeldFromWithin
  <1>2. ASSUME NEW c \in Conn, Authorize(c)
        PROVE  IInv'
    BY <1>2, <1>t, <1>r, OthersKeep, NoConnIsNone
       DEF Authorize, Becomes, modeVars, videoVars, IInv, Inv, TypeOK, OneAwaited, HeldFromWithin
  <1>3. ASSUME NEW c \in Conn, TurnOffRequest(c)
        PROVE  IInv'
    <2>1. shows' \subseteq Conn
      BY <1>3, <1>t DEF TurnOffRequest, TypeOK
    <2> QED
      BY <1>3, <1>t, <1>r, <2>1, TurnedOffKeeps DEF TurnOffRequest, TypeOK
  <1>4. ASSUME NEW c \in Conn, NEW k \in Impl, TurnOn(c, k)
        PROVE  IInv'
    <2> DEFINE mode == IF impl = "virtual" THEN "async" ELSE "sync"
    <2>1. /\ requests' \in 0..MaxRequests /\ pc[c] = "in" /\ step[c] = "idle"
          /\ threads' = threads \cup {<<c, k, requests', mode>>}
      BY <1>4, <1>r DEF TurnOn, At
    <2>2. requests' \in 1..MaxRequests
      BY <1>4, <1>t, PrivacyBounds DEF TurnOn, Request, TypeOK
    <2>3. PICK u \in Conn \X Impl \X (1..MaxRequests) \X Mode :
            threads' = threads \cup {u} /\ u[1] = c /\ u[4] # "late"
      <3>1. mode \in Mode /\ mode # "late"
        BY DEF Mode
      <3> HIDE DEF mode
      <3> DEFINE v == <<c, k, requests', mode>>
      <3>2. v \in Conn \X Impl \X (1..MaxRequests) \X Mode /\ v[1] = c /\ v[4] # "late"
        BY <2>2, <3>1, RequestUnderWay
      <3>3. threads' = threads \cup {v}
        BY <2>1
      <3> HIDE DEF v
      <3> QED
        BY <3>2, <3>3
    <2>4. /\ step' \in [Conn -> {"idle", "wait", "check", "failed", "off"}]
          /\ step'[c] = "wait" /\ \A d \in Conn : d # c => step'[d] = step[d]
      BY <1>4, <1>t DEF TurnOn, Goto, TypeOK
    <2>5. \A d \in Conn : step'[d] = "wait" <=> \E t \in threads' : t[1] = d /\ t[4] # "late"
      BY <1>t, <2>3, <2>4 DEF TypeOK
    <2>6. threads' \subseteq Conn \X Impl \X (1..MaxRequests) \X Mode
      BY <1>t, <2>3 DEF TypeOK
    <2>7. TypeOK'
      BY <1>4, <1>t, <2>1, <2>4, <2>5, <2>6 DEF TurnOn, modeVars, peerVars, videoVars, TypeOK
    <2>8. \A t \in threads : t[1] = c => t[4] = "late"
      BY <1>t, <2>1 DEF TypeOK
    <2>9. OneAwaited'
      <3>1. \A d \in Conn : step'[d] # "idle" => pc[d] = "in"
        BY <2>1, <2>4 DEF IInv, OneAwaited
      <3>2. \A t, v \in threads' : t[1] = v[1] /\ t[4] # "late" /\ v[4] # "late" => t = v
        BY <2>3, <2>8 DEF IInv, OneAwaited
      <3> QED
        BY <1>4, <3>1, <3>2 DEF TurnOn, peerVars, OneAwaited
    <2>10. HeldFromWithin'
      BY <1>4, <2>1, <2>3 DEF TurnOn, modeVars, peerVars, IInv, HeldFromWithin
    <2>11. HolderPresent' /\ HiddenWhileHeld'
      BY <1>4 DEF TurnOn, modeVars, peerVars, IInv, Inv, HolderPresent, HiddenWhileHeld
    <2> QED
      BY <2>7, <2>9, <2>10, <2>11 DEF IInv, Inv
  <1>5. ASSUME NEW t \in threads, TurnOnNow(t)
        PROVE  IInv'
    <2> DEFINE c == t[1]
               k == t[2]
    <2>0. c \in Conn /\ k \in Impl
      BY <1>t DEF TypeOK
    <2>1. PICK result \in Results :
            /\ TurnOnSync(c, k, result)
            /\ IF t[4] = "late" THEN UNCHANGED <<step, shows>> ELSE Result(c, result)
      BY <1>5 DEF TurnOnNow
    <2>2. threads' = threads \ {t} /\ requests' \in 0..MaxRequests
      BY <1>5, <1>r DEF TurnOnNow
    <2>u. UNCHANGED <<late, pc, on_by_other, off_by_peer, videoVars>>
      BY <1>5 DEF TurnOnNow
    <2>3. CASE t[4] # "late"
      <3>1. step[c] = "wait" /\ pc[c] = "in"
        BY <1>t, <2>0, <2>3 DEF TypeOK, IInv, OneAwaited
      <3>2. /\ step' \in [Conn -> {"idle", "wait", "check", "failed", "off"}]
            /\ \A d \in Conn : d # c => step'[d] = step[d]
            /\ step'[c] # "wait"
            /\ shows' \subseteq Conn
        BY <1>t, <2>0, <2>1, <2>3 DEF Result, Goto, Results, TypeOK
      <3>3. \A u \in threads : u[1] = c /\ u[4] # "late" => u = t
        BY <2>3 DEF IInv, OneAwaited
      <3>4. \A d \in Conn : step'[d] = "wait" <=> \E u \in threads' : u[1] = d /\ u[4] # "late"
        BY <1>t, <2>2, <3>2, <3>3 DEF TypeOK
      <3> HIDE DEF c, k
      <3> QED
        BY <2>0, <2>1, <2>2, <2>u, <3>1, <3>2, <3>4, TurnedOnKeeps
    <2>4. CASE t[4] = "late"
      <3>1. c \in late /\ pc[c] \notin {"out", "login"}
        BY <2>4 DEF IInv, HeldFromWithin
      <3>2. \A d \in Conn : step'[d] = "wait" <=> \E u \in threads' : u[1] = d /\ u[4] # "late"
        BY <1>t, <2>1, <2>2, <2>4 DEF TypeOK
      <3>3. /\ step' = step /\ shows' \subseteq Conn
            /\ step' \in [Conn -> {"idle", "wait", "check", "failed", "off"}]
        BY <1>t, <2>1, <2>4 DEF TypeOK
      <3> HIDE DEF c, k
      <3> QED
        BY <2>0, <2>1, <2>2, <2>u, <3>1, <3>2, <3>3, TurnedOnKeeps
    <2> QED
      BY <2>3, <2>4
  <1>6. ASSUME NEW t \in threads, Timeout(t)
        PROVE  IInv'
    <2> DEFINE c == t[1]
    <2>0. t[1] \in Conn /\ t[2] \in Impl /\ t[3] \in 1..MaxRequests /\ t[4] = "async"
      BY <1>6, <1>t DEF Timeout, TypeOK
    <2>1. PICK u \in Conn \X Impl \X (1..MaxRequests) \X Mode :
            threads' = (threads \ {t}) \cup {u} /\ u[1] = c /\ u[4] = "late"
      <3> DEFINE v == <<t[1], t[2], t[3], "late">>
      <3>1. v \in Conn \X Impl \X (1..MaxRequests) \X Mode /\ v[1] = c /\ v[4] = "late"
        BY <2>0, RequestUnderWay DEF Mode
      <3>2. threads' = (threads \ {t}) \cup {v}
        BY <1>6 DEF Timeout, GivenUp
      <3> HIDE DEF v
      <3> QED
        BY <3>1, <3>2
    <2>2. step[c] = "wait" /\ pc[c] = "in"
      BY <1>t, <2>0 DEF TypeOK, IInv, OneAwaited
    <2>3. \A v \in threads : v[1] = c /\ v[4] # "late" => v = t
      BY <2>0 DEF IInv, OneAwaited
    <2>4. threads' \subseteq Conn \X Impl \X (1..MaxRequests) \X Mode
      BY <1>t, <2>1 DEF TypeOK
    <2>5. /\ step' \in [Conn -> {"idle", "wait", "check", "failed", "off"}]
          /\ step'[c] = "failed" /\ \A d \in Conn : d # c => step'[d] = step[d]
      BY <1>6, <1>t, <2>0 DEF Timeout, Goto, TypeOK
    <2>6. \A d \in Conn : step'[d] = "wait" <=> \E v \in threads' : v[1] = d /\ v[4] # "late"
      BY <1>t, <2>1, <2>3, <2>5 DEF TypeOK
    <2>7. TypeOK'
      BY <1>6, <1>t, <2>0, <2>4, <2>5, <2>6 DEF Timeout, modeVars, peerVars, videoVars, TypeOK
    <2>8. OneAwaited'
      <3>1. \A d \in Conn : step'[d] # "idle" => pc[d] = "in"
        BY <2>2, <2>5 DEF IInv, OneAwaited
      <3>2. \A v, w \in threads' : v[1] = w[1] /\ v[4] # "late" /\ w[4] # "late" => v = w
        BY <2>1 DEF IInv, OneAwaited
      <3> QED
        BY <1>6, <3>1, <3>2 DEF Timeout, peerVars, OneAwaited
    <2>9. HeldFromWithin'
      BY <1>6, <2>1, <2>2 DEF Timeout, modeVars, peerVars, IInv, HeldFromWithin
    <2>10. HolderPresent' /\ HiddenWhileHeld'
      BY <1>6 DEF Timeout, modeVars, peerVars, IInv, Inv, HolderPresent, HiddenWhileHeld
    <2> QED
      BY <2>7, <2>8, <2>9, <2>10 DEF IInv, Inv
  <1>7. ASSUME NEW c \in Conn, Check(c)
        PROVE  IInv'
    <2>1. /\ step' \in [Conn -> {"idle", "wait", "check", "failed", "off"}]
          /\ \A d \in Conn : step'[d] = step[d] \/ (step[d] # "wait" /\ step'[d] = "idle")
          /\ shows' \subseteq Conn /\ requests' \in 0..MaxRequests
      BY <1>7, <1>t, <1>r DEF Check, At, Goto, TypeOK
    <2>2. CASE TurnOff(c)
      BY <1>7, <1>t, <2>1, <2>2, TurnedOffKeeps DEF Check, TypeOK
    <2>3. CASE UNCHANGED <<holder, applied, failures>>
      BY <1>7, <1>t, <2>1, <2>3, SettledKeeps DEF Check, At, Goto, modeVars, TypeOK
    <2> QED
      BY <1>7, <2>2, <2>3 DEF Check
  <1>8. ASSUME NEW c \in Conn, Failed(c)
        PROVE  IInv'
    BY <1>8, <1>t, <1>r, SettledKeeps DEF Failed, At, Goto, modeVars, TypeOK
  <1>9. ASSUME NEW c \in Conn, FailedOff(c)
        PROVE  IInv'
    BY <1>9, <1>t, <1>r, TurnedOffKeeps DEF FailedOff, At, Goto, peerVars, TypeOK
  <1>10. ASSUME NEW c \in Conn, TellOff(c)
         PROVE  IInv'
    BY <1>10, <1>t, <1>r, OthersKeep DEF TellOff, modeVars, videoVars, TypeOK
  <1>11. ASSUME NEW c \in Conn, End(c)
         PROVE  IInv'
    BY <1>11, <1>t, <1>r, OthersKeep DEF End, At, Becomes, modeVars, videoVars, TypeOK
  <1>12. ASSUME NEW c \in Conn, AfterLoop(c)
         PROVE  IInv'
    BY <1>12, <1>t, <1>r, OthersKeep
       DEF AfterLoop, AfterLoopGoto, Becomes, modeVars, videoVars, IInv, Inv, TypeOK, OneAwaited
  <1>13. ASSUME NEW c \in Conn, AfterLoopOff(c)
         PROVE  IInv'
    BY <1>13, <1>t, <1>r, TurnedOffKeeps DEF AfterLoopOff, Becomes, TypeOK
  <1>14. ASSUME NEW k \in Impl, Switch(k)
         PROVE  IInv'
    <2>1. failures' \in 0..MaxFailures /\ (failures' = 0 => failures = 0 /\ failures' = failures)
      BY <1>14, <1>t, FailuresGrow DEF Switch
    <2>2. Failure => failures' > 0
      BY <1>t, PrivacyBounds DEF Failure, TypeOK
    <2>3. TypeOK'
      BY <1>14, <1>t, <1>r, <2>1 DEF Switch, peerVars, videoVars, TypeOK
    <2>4. HiddenWhileHeld'
      BY <1>14, <1>t, <2>1, <2>2 DEF Switch, HiddenWhileHeld
    <2>5. HolderPresent'
      BY <1>14 DEF Switch, peerVars, IInv, Inv, HolderPresent
    <2>6. OneAwaited'
      BY <1>14 DEF Switch, peerVars, IInv, Inv, OneAwaited
    <2>7. HeldFromWithin'
      BY <1>14 DEF Switch, peerVars, IInv, HeldFromWithin
    <2> QED
      BY <2>3, <2>4, <2>5, <2>6, <2>7 DEF IInv, Inv
  <1>15. CASE OffByPeer
    BY <1>15, <1>t, <1>r, TurnedOffKeeps DEF OffByPeer, peerVars, TypeOK
  <1>16. CASE CheckChanged
    BY <1>16, <1>t, <1>r, OthersKeep DEF CheckChanged, modeVars, TypeOK
  <1>17. CASE Capture
    <2>1. UNCHANGED <<impl, holder, applied, step, threads, late, failures, requests,
                      pc, shows, off_by_peer, on_by_other>>
          /\ captured' = holder /\ restarting' = FALSE
      BY <1>17 DEF Capture, modeVars, peerVars
    <2>2. /\ pc' \in [Conn -> {"out", "login", "in", "closing", "leaving", "gone"}]
          /\ requests' \in 0..MaxRequests
          /\ captured' \in Conn \cup {NoConn} /\ restarting' \in BOOLEAN
      BY <1>t, <2>1 DEF TypeOK
    <2>3. {shows', off_by_peer', on_by_other'} \subseteq SUBSET Conn
      BY <1>t, <2>1 DEF TypeOK
    <2> QED
      BY <2>1, <2>2, <2>3, OthersKeep
  <1>18. CASE UNCHANGED vars
    <2>1. UNCHANGED <<impl, holder, applied, step, threads, late, failures, requests,
                      pc, shows, off_by_peer, on_by_other, captured, restarting>>
      BY <1>18 DEF vars, modeVars, peerVars, videoVars
    <2>2. /\ pc' \in [Conn -> {"out", "login", "in", "closing", "leaving", "gone"}]
          /\ requests' \in 0..MaxRequests
          /\ captured' \in Conn \cup {NoConn} /\ restarting' \in BOOLEAN
      BY <1>t, <2>1 DEF TypeOK
    <2>3. {shows', off_by_peer', on_by_other'} \subseteq SUBSET Conn
      BY <1>t, <2>1 DEF TypeOK
    <2> QED
      BY <2>1, <2>2, <2>3, OthersKeep
  <1> QED
    BY <1>1, <1>2, <1>3, <1>4, <1>5, <1>6, <1>7, <1>8, <1>9, <1>10, <1>11, <1>12, <1>13,
       <1>14, <1>15, <1>16, <1>17, <1>18 DEF Next, Handler, EndByOther

\* The inductive invariant holds in every reachable state.
THEOREM Invariance == Spec => []IInv
  BY InitIInv, StepIInv, PTL DEF Spec

\* Types, with the threads that are waited for; and privacy mode does not outlive
\* the connection that holds it, unless it came on after the connection had
\* stopped waiting, or Windows refused to end it.
THEOREM InvCorrect == Spec => []Inv
  <1>1. IInv => Inv
    BY DEF IInv
  <1> QED
    BY <1>1, Invariance, PTL

\* What hides the screen is the implementation in charge, and only while it is
\* held, unless Windows refused to end one (turn_on_privacy_sync, switch).
THEOREM HiddenWhileHeldCorrect == Spec => []HiddenWhileHeld
  <1>1. IInv => HiddenWhileHeld
    BY DEF IInv
  <1> QED
    BY <1>1, Invariance, PTL
=============================================================================
