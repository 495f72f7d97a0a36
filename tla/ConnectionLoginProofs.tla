----------------------- MODULE ConnectionLoginProofs -----------------------
(***************************************************************************)
(* ConnectionLogin for any connections, session keys and passwords, with or *)
(* without a second factor: who is let in is entitled to it, from the        *)
(* inductive invariant IInv.                                                 *)
(***************************************************************************)
EXTENDS ConnectionLogin, TLAPS

\* What is left of the sessions is as it was.
LEMMA RetainedSessions ==
  ASSUME TypeOK, sessions' \in Retained
  PROVE  /\ sessions' \in [Key -> Session \cup {NoSession}]
         /\ \A k \in Key : sessions'[k] \in {sessions[k], NoSession}
  <1>1. PICK E \in SUBSET Key :
          sessions' = [k \in Key |-> IF k \in E THEN NoSession ELSE sessions[k]]
    BY DEF Retained
  <1>2. sessions \in [Key -> Session \cup {NoSession}]
    BY DEF TypeOK
  <1> QED
    BY <1>1, <1>2

\* Sessions that are only forgotten stay earned.
LEMMA ForgottenStaysEarned ==
  ASSUME TypeOK, SessionsEarned,
         \A k \in Key : sessions'[k] \in {sessions[k], NoSession},
         UNCHANGED <<trusted, accepted, coded>>
  PROVE  SessionsEarned'
  <1>1. NoSession.tfa = FALSE
    BY DEF NoSession
  <1>2. ASSUME NEW k \in Key
        PROVE  /\ sessions'[k] # NoSession /\ sessions'[k].password # 0
                    => sessions'[k].password \in accepted[k]
               /\ sessions'[k].tfa => k \in coded
    BY <1>1 DEF SessionsEarned
  <1> QED
    BY <1>2 DEF SessionsEarned

\* Nobody has sent a password yet, so no session is earned and no login is complete.
LEMMA InitIInv == Init => IInv
  BY OnePassword, TfaBool, NoNameKey
     DEF Init, IInv, TypeOK, SessionsEarned, WayIn, HostAtOnce, CodeNeeded, Steps,
         Passwords, Permanent, Session, NoSession, Right

\* One case per action.
LEMMA StepIInv == IInv /\ [Next]_vars => IInv'
  <1> SUFFICES ASSUME IInv, [Next]_vars
               PROVE  IInv'
    OBVIOUS
  <1>t. TypeOK
    BY DEF IInv
  <1> USE OnePassword, TfaBool, NoNameKey
      DEF Goto, IInv, TypeOK, Steps, SessionsEarned, WayIn, Right, HostAtOnce, CodeNeeded
  <1>1. ASSUME NEW c \in Conn, Open(c)
        PROVE  IInv'
    BY <1>1 DEF Open, sharedVars, histVars
  <1>2. ASSUME NEW c \in Conn, LoginRequest(c)
        PROVE  IInv'
    BY <1>2 DEF LoginRequest, WithoutValidation, sharedVars, histVars
  <1>3. ASSUME NEW c \in Conn, ApproveByClick(c)
        PROVE  IInv'
    BY <1>3 DEF ApproveByClick, sharedVars, histVars
  <1>4. ASSUME NEW c \in Conn, RecentSession(c)
        PROVE  IInv'
    <2>1. /\ sessions' \in [Key -> Session \cup {NoSession}]
          /\ \A k \in Key : sessions'[k] \in {sessions[k], NoSession}
      BY <1>4, <1>t, RetainedSessions DEF RecentSession
    <2>2. SessionsEarned'
      BY <1>4, <1>t, <2>1, ForgottenStaysEarned DEF RecentSession, histVars
    <2>3. CASE pc' = [pc EXCEPT ![c] = "logon"] /\ password[c] # 0
               /\ Validates(c, sessions'[key[c]])
      <3>1. Right(c)
        BY <1>4, <2>1, <2>2, <2>3 DEF RecentSession, Validates, histVars
      <3> QED
        BY <1>4, <2>1, <2>2, <2>3, <3>1 DEF RecentSession, histVars
    <2>4. CASE \E step \in {"idle", "validate"} : pc' = [pc EXCEPT ![c] = step]
      BY <1>4, <2>1, <2>2, <2>4 DEF RecentSession, histVars
    <2> QED
      BY <1>4, <2>3, <2>4 DEF RecentSession
  <1>5. ASSUME NEW c \in Conn, Validate(c)
        PROVE  IInv'
    BY <1>5 DEF Validate, InsertsFor, sharedVars, Passwords, Permanent
  <1>6. ASSUME NEW c \in Conn, InsertSession(c)
        PROVE  IInv'
    BY <1>6 DEF InsertSession, histVars, Session
  <1>7. ASSUME NEW c \in Conn, Auth2fa(c)
        PROVE  IInv'
    BY <1>7 DEF Auth2fa, sharedVars
  <1>8. ASSUME NEW c \in Conn, SetSession2fa(c)
        PROVE  IInv'
    <2>1. c \in coding /\ key[c] \in coded
      BY <1>8 DEF SetSession2fa
    <2>2. sessions' \in [Key -> Session \cup {NoSession}]
      BY <1>8 DEF SetSession2fa, Session
    <2>3. SessionsEarned'
      BY <1>8, <2>1 DEF SetSession2fa, histVars, Session
    <2>4. TypeOK'
      BY <1>8, <2>2 DEF SetSession2fa, histVars
    <2>5. WayIn'
      BY <1>8, <2>1 DEF SetSession2fa, histVars
    <2>6. HostAtOnce'
      BY <1>8 DEF SetSession2fa, histVars
    <2>7. CodeNeeded'
      BY <1>8, <2>1 DEF SetSession2fa, histVars
    <2> QED
      BY <2>3, <2>4, <2>5, <2>6, <2>7
  <1>8a. ASSUME NEW c \in Conn, AddTrustedDevice(c)
         PROVE  IInv'
    <2>1. c \in coding /\ key[c] \in coded
      BY <1>8a DEF AddTrustedDevice
    <2> QED
      BY <1>8a, <2>1 DEF AddTrustedDevice, histVars
  <1>9. ASSUME NEW c \in Conn, Authorize(c)
        PROVE  IInv'
    BY <1>9 DEF Authorize, sharedVars
  <1>10. CASE InsertSwitchSidesUuid
    BY <1>10 DEF InsertSwitchSidesUuid, connVars, histVars
  <1>11. ASSUME NEW c \in Conn, SwitchSidesResponse(c)
         PROVE  IInv'
    BY <1>11 DEF SwitchSidesResponse, WithoutValidation
  <1>12. ASSUME NEW c \in Conn, Logon(c)
         PROVE  IInv'
    BY <1>12, RetainedSessions, ForgottenStaysEarned DEF Logon, Answered, RecentTfa
  <1>13. ASSUME NEW c \in Conn, Authed(c)
         PROVE  IInv'
    BY <1>13 DEF Authed, Answered, histVars
  <1>14. ASSUME NEW c \in Conn, End(c)
         PROVE  IInv'
    BY <1>14 DEF End, sharedVars, histVars
  <1>15. ASSUME NEW c \in Conn, RemoveSession(c)
         PROVE  IInv'
    <2>1. \A k \in Key : sessions'[k] \in {sessions[k], NoSession}
      BY <1>15 DEF RemoveSession
    <2>2. SessionsEarned'
      BY <1>15, <1>t, <2>1, ForgottenStaysEarned DEF RemoveSession, histVars
    <2>3. sessions' \in [Key -> Session \cup {NoSession}]
      BY <1>15 DEF RemoveSession
    <2> QED
      BY <1>15, <2>2, <2>3 DEF RemoveSession, histVars
  <1>16. ASSUME NEW c \in Conn, After(c)
         PROVE  IInv'
    BY <1>16 DEF After, histVars
  <1>17. ASSUME NEW c \in Conn, Drop(c)
         PROVE  IInv'
    <2>1. 0 \in Passwords
      BY DEF Passwords, Permanent
    <2>2. TypeOK'
      BY <1>17, <2>1 DEF Drop
    <2>3. SessionsEarned' /\ HostAtOnce' /\ CodeNeeded'
      BY <1>17 DEF Drop
    <2>4. WayIn'
      BY <1>17 DEF Drop
    <2> QED
      BY <2>2, <2>3, <2>4
  <1>18. CASE UNCHANGED vars
    BY <1>18 DEF vars, connVars, sharedVars, histVars
  <1> QED
    BY <1>1, <1>2, <1>3, <1>4, <1>5, <1>6, <1>7, <1>8, <1>8a, <1>9, <1>10, <1>11, <1>12, <1>13,
       <1>14, <1>15, <1>16, <1>17, <1>18 DEF Next, Connection

\* The inductive invariant holds in every reachable state.
THEOREM Invariance == Spec => []IInv
  BY InitIInv, StepIInv, PTL DEF Spec

\* The variables keep their types.
THEOREM TypeCorrect == Spec => []TypeOK
  <1>1. IInv => TypeOK
    BY DEF IInv
  <1> QED
    BY <1>1, Invariance, PTL

-----------------------------------------------------------------------------
(* Who is let in.                                                            *)

\* Only Logon lets anybody in.
LEMMA OnlyLogon ==
  ASSUME TypeOK, [Next]_vars, NEW c \in authorized' \ authorized
  PROVE  c \in Conn /\ Logon(c)
  <1>1. ASSUME NEW d \in Conn, Connection(d), ~Logon(d)
        PROVE  authorized' \subseteq authorized
    BY <1>1 DEF Connection, Open, LoginRequest, ApproveByClick, RecentSession, Validate,
                InsertSession, Auth2fa, SetSession2fa, AddTrustedDevice, Authorize, SwitchSidesResponse,
                Authed, End, RemoveSession, After, Drop
  <1>2. InsertSwitchSidesUuid \/ UNCHANGED vars => authorized' = authorized
    BY DEF InsertSwitchSidesUuid, vars, connVars
  <1>3. ASSUME NEW d \in Conn, Logon(d)
        PROVE  authorized' \subseteq authorized \cup {d}
    BY <1>3 DEF Logon
  <1> QED
    BY <1>1, <1>2, <1>3 DEF Next

\* Who is let in was let in by the local user, has given a right code or showed a
\* right password; and where a second factor is configured, a right code was given
\* for a key it came with (send_logon_response).
THEOREM EntitledCorrect == Spec => Entitled
  <1>1. ASSUME IInv, [Next]_vars, NEW c \in authorized' \ authorized, c \notin host
        PROVE  /\ c \in coding \/ password[c] \in accepted[key[c]]
               /\ Tfa => names[c] \cap coded # {}
    <2>1. c \in Conn /\ Logon(c)
      BY <1>1, OnlyLogon DEF IInv
    <2>2. pc[c] = "logon" /\ c \notin from_switch /\ key[c] \in names[c]
      BY <1>1, <2>1 DEF Logon, IInv, HostAtOnce, WayIn
    <2>3. c \in coding \/ Right(c)
      BY <1>1, <2>1, <2>2 DEF IInv, WayIn
    <2>4. CASE c \notin require_2fa
      BY <1>1, <2>1, <2>2, <2>3, <2>4 DEF IInv, CodeNeeded, Right
    <2>5. CASE c \in require_2fa
      <3>1. sessions' \in Retained /\ RecentTfa(c)
        BY <1>1, <2>1, <2>2, <2>5 DEF Logon
      <3>2. SessionsEarned' /\ UNCHANGED <<accepted, coded>>
        BY <1>1, <2>1, StepIInv DEF IInv, Logon
      <3>3. key[c] \in Key
        BY <1>1, <2>1 DEF IInv, TypeOK
      <3> QED
        BY <2>2, <2>3, <3>1, <3>2, <3>3 DEF RecentTfa, SessionsEarned, Right
    <2> QED
      BY <2>4, <2>5
  <1>2. IInv /\ [Next]_vars =>
          [\A c \in authorized' \ authorized :
             \/ c \in host
             \/ /\ c \in coding \/ password[c] \in accepted[key[c]]
                /\ Tfa => names[c] \cap coded # {}]_vars
    BY <1>1
  <1> QED
    BY <1>2, Invariance, PTL DEF Spec, Entitled
=============================================================================
