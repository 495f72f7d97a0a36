-------------------- MODULE RendezvousRegistrationProofs --------------------
(***************************************************************************)
(* RendezvousRegistration for any servers, any ids they refuse, and any      *)
(* number of losses: its types, and that the key does not count as           *)
(* confirmed during a search for an id.  Inv is inductive as it stands.      *)
(***************************************************************************)
EXTENDS RendezvousRegistration, TLAPS

\* What is counted stays within MAX_FAILS2 and the request that is sent.
LEMMA CountedType ==
  ASSUME TypeOK, NEW h \in Host
  PROVE  Counted(h) \in 0..(MAX_FAILS2 + 1)
  BY FailBounds DEF Counted, Least, TypeOK

\* One request takes the place of another, or is over.
LEMMA ReplaceType ==
  ASSUME TypeOK, NEW h \in Host, NEW kind \in RequestKinds, NEW i \in 0..NoRequest,
         requests' = [requests EXCEPT ![h][kind] = i]
  PROVE  requests' \in [Host -> [RequestKinds -> 0..NoRequest]]
  BY DEF TypeOK

\* A request that is sent, or dropped by a dead socket, is one of an id.
LEMMA SendType ==
  ASSUME TypeOK, NEW h \in Host, NEW kind \in RequestKinds, NEW i \in 0..MaxId,
         Send(h, kind, i)
  PROVE  requests' \in [Host -> [RequestKinds -> 0..NoRequest]]
  <1>1. i \in 0..NoRequest
    BY RegistrationBounds DEF NoRequest
  <1> QED
    BY <1>1, ReplaceType DEF Send, TypeOK

\* A fault is counted within its bound.
LEMMA FaultType ==
  ASSUME TypeOK, Fault \/ UNCHANGED faults
  PROVE  faults' \in 0..MaxFaults
  BY RegistrationBounds DEF Fault, TypeOK

\* A task that receives a reply is at none of the other steps; replies only go.
LEMMA ReceiveKeeps ==
  ASSUME TypeOK, NEW h \in Host, NEW kind \in ResponseKinds, Receive(h, kind), UpdateLatency(h)
  PROVE  /\ pc[h] = "idle"
         /\ responses' \subseteq Response
         /\ faults' \in 0..MaxFaults
         /\ waiting' \in [Host -> 0..(MAX_FAILS2 + 1)]
  BY FaultType, FailBounds DEF Receive, UpdateLatency, TypeOK

\* No host is solving or has registered at the start.
LEMMA InitInv == Init => Inv
  <1> SUFFICES ASSUME Init
               PROVE  Inv
    OBVIOUS
  <1>1. NoRequest \in 0..NoRequest /\ 0 \in 0..MaxId /\ 0 \in 0..MaxFaults
    BY RegistrationBounds DEF NoRequest
  <1>2. waiting \in [Host -> 0..(MAX_FAILS2 + 1)]
    BY FailBounds DEF Init
  <1>3. requests \in [Host -> [RequestKinds -> 0..NoRequest]]
    BY <1>1 DEF Init
  <1>4. registered \in [Host -> SUBSET (0..MaxId)]
    BY DEF Init
  <1> QED
    BY <1>1, <1>2, <1>3, <1>4 DEF Init, Inv, TypeOK, SolvingUnconfirmed

\* No step of a task, a server or the network breaks Inv: one case per action.
LEMMA StepInv == Inv /\ [Next]_vars => Inv'
  <1> SUFFICES ASSUME Inv, [Next]_vars
               PROVE  Inv'
    OBVIOUS
  <1>t. TypeOK /\ SolvingUnconfirmed
    BY DEF Inv
  <1>1. ASSUME NEW h \in Host, Tick(h)
        PROVE  Inv'
    BY <1>1, <1>t, CountedType DEF Tick, configVars, netVars, Inv, TypeOK, SolvingUnconfirmed
  <1>2. ASSUME NEW h \in Host, RegisterPeer(h)
        PROVE  Inv'
    <2>1. KindSent(h) \in RequestKinds /\ id \in 0..MaxId
      BY <1>t DEF KindSent, RequestKinds, TypeOK
    <2>2. requests' \in [Host -> [RequestKinds -> 0..NoRequest]]
      BY <1>2, <1>t, <2>1, SendType DEF RegisterPeer
    <2> QED
      BY <1>2, <1>t, <2>2 DEF RegisterPeer, Goto, configVars, Inv, TypeOK, SolvingUnconfirmed
  <1>3. ASSUME NEW h \in Host, ClearSolving(h)
        PROVE  Inv'
    BY <1>3, <1>t DEF ClearSolving, Goto, netVars, Inv, TypeOK, SolvingUnconfirmed
  <1>4. ASSUME NEW h \in Host, NEW kind \in ResponseKinds, RegisterPeerResponse(h, kind)
        PROVE  Inv'
    <2>1. /\ responses' \subseteq Response
          /\ faults' \in 0..MaxFaults
          /\ waiting' \in [Host -> 0..(MAX_FAILS2 + 1)]
      BY <1>4, <1>t, ReceiveKeeps DEF RegisterPeerResponse
    <2>2. requests' \in [Host -> [RequestKinds -> 0..NoRequest]]
      BY <1>4, <1>t, SendType DEF RegisterPeerResponse, RequestKinds, TypeOK
    <2> QED
      BY <1>4, <1>t, <2>1, <2>2
         DEF RegisterPeerResponse, configVars, Inv, TypeOK, SolvingUnconfirmed
  <1>5. ASSUME NEW h \in Host, RegisterPkResponse(h)
        PROVE  Inv'
    <2>1. /\ responses' \subseteq Response
          /\ faults' \in 0..MaxFaults
          /\ waiting' \in [Host -> 0..(MAX_FAILS2 + 1)]
      BY <1>5, <1>t, ReceiveKeeps DEF RegisterPkResponse, ResponseKinds
    <2> QED
      BY <1>5, <1>t, <2>1 DEF RegisterPkResponse, Goto, Inv, TypeOK, SolvingUnconfirmed
  <1>6. ASSUME NEW h \in Host, HandleUuidMismatch(h)
        PROVE  Inv'
    <2>1. /\ responses' \subseteq Response
          /\ faults' \in 0..MaxFaults
          /\ waiting' \in [Host -> 0..(MAX_FAILS2 + 1)]
      BY <1>6, <1>t, ReceiveKeeps DEF HandleUuidMismatch, ResponseKinds
    <2>2. id' \in 0..MaxId
      BY <1>6, <1>t, RegistrationBounds DEF HandleUuidMismatch, TypeOK
    <2>3. requests' \in [Host -> [RequestKinds -> 0..NoRequest]]
      BY <1>6, <1>t, <2>2, SendType DEF HandleUuidMismatch, RequestKinds, TypeOK
    <2>4. key_confirmed' \in BOOLEAN /\ solving' \in Host \cup {NoHost}
      BY <1>6, <1>t DEF HandleUuidMismatch, ConfirmedAfterMismatch, TypeOK
    <2>5. TypeOK'
      BY <1>6, <1>t, <2>1, <2>2, <2>3, <2>4 DEF HandleUuidMismatch, TypeOK
    <2>6. SolvingUnconfirmed'
      BY <1>6, <1>t DEF HandleUuidMismatch, ConfirmedAfterMismatch, SolvingUnconfirmed
    <2> QED
      BY <2>5, <2>6 DEF Inv
  <1>7. ASSUME NEW h \in Host, NEW kind \in RequestKinds, Serve(h, kind)
        PROVE  Inv'
    <2>1. faults' \in 0..MaxFaults
      BY <1>7, <1>t, FaultType DEF Serve
    <2>2. requests' \in [Host -> [RequestKinds -> 0..NoRequest]]
      <3>1. NoRequest \in 0..NoRequest
        BY RegistrationBounds DEF NoRequest
      <3> QED
        BY <1>7, <1>t, <3>1, ReplaceType DEF Serve, TypeOK
    <2>3. requests[h][kind] \in 0..MaxId
      <3>1. requests[h] \in [RequestKinds -> 0..NoRequest]
        BY <1>t DEF TypeOK
      <3>2. requests[h][kind] \in 0..NoRequest /\ requests[h][kind] # NoRequest
        BY <1>7, <3>1 DEF Serve
      <3> QED
        BY <3>2, RegistrationBounds DEF NoRequest
    <2>4. responses' \subseteq Response /\ registered' \in [Host -> SUBSET (0..MaxId)]
      BY <1>7, <1>t, <2>3 DEF Serve, TypeOK, Response
    <2> QED
      BY <1>7, <1>t, <2>1, <2>2, <2>4 DEF Serve, configVars, Inv, TypeOK, SolvingUnconfirmed
  <1>8. CASE Lose
    <2>1. faults' \in 0..MaxFaults
      BY <1>8, <1>t, FaultType DEF Lose
    <2>2. requests' \in [Host -> [RequestKinds -> 0..NoRequest]]
      <3>1. NoRequest \in 0..NoRequest
        BY RegistrationBounds DEF NoRequest
      <3> QED
        BY <1>8, <1>t, <3>1, ReplaceType DEF Lose, TypeOK
    <2> QED
      BY <1>8, <1>t, <2>1, <2>2 DEF Lose, configVars, Inv, TypeOK, SolvingUnconfirmed
  <1>9. ASSUME NEW h \in Host, Forget(h)
        PROVE  Inv'
    BY <1>9, <1>t, FaultType DEF Forget, configVars, Inv, TypeOK, SolvingUnconfirmed
  <1>10. ASSUME NEW h \in Host, SocketDies(h)
         PROVE  Inv'
    BY <1>10, <1>t, FaultType DEF SocketDies, configVars, Inv, TypeOK, SolvingUnconfirmed
  <1>11. CASE UNCHANGED vars
    BY <1>11, <1>t DEF vars, configVars, netVars, Inv, TypeOK, SolvingUnconfirmed
  <1> QED
    BY <1>1, <1>2, <1>3, <1>4, <1>5, <1>6, <1>7, <1>8, <1>9, <1>10, <1>11
       DEF Next, HandleResp, RequestKinds

\* Every variable keeps its type; and while one server makes the host look for
\* another id, the key counts as unconfirmed (handle_uuid_mismatch, handle_resp).
THEOREM InvCorrect == Spec => []Inv
  BY InitInv, StepInv, PTL DEF Spec
=============================================================================
