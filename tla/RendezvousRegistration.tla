----------------------- MODULE RendezvousRegistration -----------------------
(***************************************************************************)
(* How a host keeps itself registered at its rendezvous servers over UDP:   *)
(* the loop of start_udp, one task per server, with the identity and the    *)
(* confirmations that the tasks share, of src/src/rendezvous_mediator.rs.   *)
(*                                                                         *)
(* Datagrams are lost, delayed, duplicated and reordered; a reply does not  *)
(* say which request it answers.  The servers are external: a server asks   *)
(* for the key of an id it does not know and refuses an id that belongs to  *)
(* another host.  Of the requests of one kind to one server the newest is   *)
(* under way.  Time is abstract: a tick of the timer may find a reply     *)
(* late, a registration old, or nothing to do, whenever it comes.           *)
(***************************************************************************)
EXTENDS Naturals, FiniteSets

CONSTANTS Host,        \* rendezvous servers
          NoHost,      \* the empty SOLVING_PK_MISMATCH
          Taken,       \* the ids each server knows as another host's
          MAX_FAILS2,  \* 4
          MaxId,       \* bound on the ids the host goes through
          MaxFaults    \* bound on lost and duplicated messages, crashes

ASSUME NoHostIsNone == NoHost \notin Host
ASSUME TakenIds == Taken \in [Host -> SUBSET (0..MaxId)]
ASSUME FailBounds == MAX_FAILS2 \in Nat \ {0}
ASSUME RegistrationBounds == MaxId \in Nat /\ MaxFaults \in Nat

VARIABLES
  id,              \* Config::get_id()
  key_confirmed,   \* Config::get_key_confirmed()
  host_confirmed,  \* servers whose key is confirmed
  solving,         \* SOLVING_PK_MISMATCH
  pc,              \* what the task of a server is at, "idle" in its select
  waiting,         \* requests since the last reply: fails + 1, or 0 when none was sent
  dead,            \* servers whose socket no longer works
  requests,        \* ids under way, by server and kind of request
  responses,       \* replies under way
  registered,      \* the ids of this host each server knows
  faults

configVars == <<id, key_confirmed, host_confirmed, solving>>
netVars == <<requests, responses, registered>>
vars == <<configVars, pc, waiting, dead, netVars, faults>>

NoRequest == MaxId + 1
RequestKinds == {"peer", "pk"}
ResponseKinds == {"peer", "request_pk", "ok", "mismatch"}
Response == [host : Host, kind : ResponseKinds]

TypeOK ==
  /\ id \in 0..MaxId
  /\ key_confirmed \in BOOLEAN
  /\ {host_confirmed, dead} \subseteq SUBSET Host
  /\ solving \in Host \cup {NoHost}
  /\ pc \in [Host -> {"idle", "send", "clear"}]
  /\ waiting \in [Host -> 0..MAX_FAILS2 + 1]
  /\ requests \in [Host -> [RequestKinds -> 0..NoRequest]]
  /\ responses \subseteq Response
  /\ registered \in [Host -> SUBSET (0..MaxId)]
  /\ faults \in 0..MaxFaults

Init ==
  /\ id = 0
  /\ key_confirmed = FALSE
  /\ host_confirmed = {}
  /\ solving = NoHost
  /\ pc = [h \in Host |-> "idle"]
  /\ waiting = [h \in Host |-> 0]
  /\ dead = {}
  /\ requests = [h \in Host |-> [k \in RequestKinds |-> NoRequest]]
  /\ responses = {}
  /\ registered = [h \in Host |-> {}]
  /\ faults = 0

-----------------------------------------------------------------------------

Goto(h, step) == pc' = [pc EXCEPT ![h] = step]
Fault == faults < MaxFaults /\ faults' = faults + 1

Send(h, kind, i) ==
  requests' = IF h \in dead THEN requests
              ELSE [requests EXCEPT ![h][kind] = i]

-----------------------------------------------------------------------------
(* The timer of the loop, and register_peer.                                 *)

Least(a, b) == IF a < b THEN a ELSE b

\* Mutant: a request that is late is no failure.
CountedNever(h) == Least(waiting[h] + 1, MAX_FAILS2)

\* Least(fails, MAX_FAILS2), and one more for the request that is sent.
Counted(h) == Least(waiting[h] + 1, MAX_FAILS2 + 1)

\* The check of register_peer, under the lock of SOLVING_PK_MISMATCH.
MaySend(h) == solving \in {NoHost, h}

\* When the failures add up, and the last look-up is old, the socket is bound
\* anew.
Tick(h) ==
  /\ pc[h] = "idle"
  /\ waiting' = [waiting EXCEPT ![h] = Counted(h)]
  /\ \/ dead' = dead \ {h} /\ waiting'[h] > MAX_FAILS2
     \/ UNCHANGED dead
  /\ pc' = IF MaySend(h) THEN [pc EXCEPT ![h] = "send"] ELSE pc
  /\ UNCHANGED <<configVars, netVars, faults>>

Rebind(h) == Tick(h) /\ dead' # dead

KindSent(h) == IF key_confirmed /\ h \in host_confirmed THEN "peer" ELSE "pk"

\* The rest of register_peer, without the lock.
RegisterPeer(h) ==
  /\ pc[h] = "send"
  /\ Send(h, KindSent(h), id)
  /\ Goto(h, "idle")
  /\ UNCHANGED <<configVars, waiting, dead, responses, registered, faults>>

-----------------------------------------------------------------------------
(* handle_resp.                                                              *)

\* A reply is taken off the network, or comes once more.
Receive(h, kind) ==
  LET m == [host |-> h, kind |-> kind] IN
  /\ pc[h] = "idle" /\ h \notin dead /\ m \in responses
  /\ \/ responses' = responses \ {m} /\ UNCHANGED faults
     \/ UNCHANGED responses /\ Fault

\* update_latency: whatever the reply answers, nothing is waited for.
UpdateLatency(h) == waiting' = [waiting EXCEPT ![h] = 0]

RegisterPeerResponse(h, kind) ==
  /\ kind \in {"peer", "request_pk"}
  /\ Receive(h, kind) /\ UpdateLatency(h)
  /\ IF kind = "request_pk" THEN Send(h, "pk", id) ELSE UNCHANGED requests
  /\ UNCHANGED <<configVars, pc, dead, registered>>

RegisterPkResponse(h) ==
  /\ Receive(h, "ok") /\ UpdateLatency(h)
  /\ key_confirmed' = TRUE
  /\ host_confirmed' = host_confirmed \cup {h}
  /\ Goto(h, "clear")
  /\ UNCHANGED <<id, solving, dead, requests, registered>>

\* The end of the branch for a key that was accepted.
ClearSolving(h) ==
  /\ pc[h] = "clear"
  /\ solving' = NoHost
  /\ Goto(h, "idle")
  /\ UNCHANGED <<id, key_confirmed, host_confirmed, waiting, dead, netVars, faults>>

\* Mutant: another id, with the key still confirmed.
ConfirmedAfterMismatchKept == key_confirmed

\* Config::set_key_confirmed(false).
ConfirmedAfterMismatch == FALSE

\* handle_uuid_mismatch: a server that knows the id as another host's makes
\* the host look for another one, unless a second server already does.  The
\* confirmations per server stay; the id is read in the step that releases
\* the lock.
HandleUuidMismatch(h) ==
  /\ Receive(h, "mismatch") /\ UpdateLatency(h)
  /\ \/ /\ solving \in {NoHost, h} /\ id < MaxId
        /\ key_confirmed' = ConfirmedAfterMismatch
        /\ id' = id + 1
        /\ solving' = h
        /\ Send(h, "pk", id')
     \/ /\ solving \notin {NoHost, h}
        /\ UNCHANGED <<key_confirmed, id, solving, requests>>
  /\ UNCHANGED <<host_confirmed, pc, dead, registered>>

HandleResp(h, kind) ==
  \/ RegisterPeerResponse(h, kind)
  \/ kind = "ok" /\ RegisterPkResponse(h)
  \/ kind = "mismatch" /\ HandleUuidMismatch(h)

-----------------------------------------------------------------------------
(* The servers and the network.                                              *)

Serve(h, kind) ==
  LET i == requests[h][kind] IN
  /\ i # NoRequest
  /\ \/ requests' = [requests EXCEPT ![h][kind] = NoRequest] /\ UNCHANGED faults
     \/ UNCHANGED requests /\ Fault
  /\ \E answer \in ResponseKinds :
       /\ answer = IF kind = "peer" THEN IF i \in registered[h] THEN "peer" ELSE "request_pk"
                   ELSE IF i \in Taken[h] THEN "mismatch" ELSE "ok"
       /\ registered' = IF answer = "ok" THEN [registered EXCEPT ![h] = @ \cup {i}]
                        ELSE registered
       /\ responses' = IF h \in dead THEN responses
                       ELSE responses \cup {[host |-> h, kind |-> answer]}
  /\ UNCHANGED <<configVars, pc, waiting, dead>>

Lose ==
  /\ Fault
  /\ \/ \E h \in Host, k \in RequestKinds :
          /\ requests[h][k] # NoRequest
          /\ requests' = [requests EXCEPT ![h][k] = NoRequest]
          /\ UNCHANGED responses
     \/ \E m \in responses : responses' = responses \ {m} /\ UNCHANGED requests
  /\ UNCHANGED <<configVars, pc, waiting, dead, registered>>

\* A server forgets this host.
Forget(h) ==
  /\ Fault
  /\ registered[h] # {}
  /\ registered' = [registered EXCEPT ![h] = {}]
  /\ UNCHANGED <<configVars, pc, waiting, dead, requests, responses>>

\* The network is left and joined again: replies no longer reach the socket.
SocketDies(h) ==
  /\ Fault
  /\ h \notin dead
  /\ dead' = dead \cup {h}
  /\ responses' = {m \in responses : m.host # h}
  /\ UNCHANGED <<configVars, pc, waiting, requests, registered>>

-----------------------------------------------------------------------------

Next ==
  \/ \E h \in Host :
       \/ Tick(h) \/ RegisterPeer(h) \/ ClearSolving(h)
       \/ \E kind \in ResponseKinds : HandleResp(h, kind)
       \/ \E kind \in {"peer", "pk"} : Serve(h, kind)
       \/ Forget(h) \/ SocketDies(h)
  \/ Lose

\* The tasks run; a look-up gets old, and may then give a new socket; no
\* datagram stays under way.
Fairness ==
  \A h \in Host :
    /\ WF_vars(Tick(h)) /\ SF_vars(Rebind(h))
    /\ []<>(pc[h] = "idle")
    /\ \A kind \in RequestKinds : []<>(requests[h][kind] = NoRequest)
    /\ \A kind \in ResponseKinds : []<>([host |-> h, kind |-> kind] \notin responses)

Spec == Init /\ [][Next]_vars
FairSpec == Spec /\ Fairness

-----------------------------------------------------------------------------
(* Properties                                                                *)

\* While one server makes the host look for another id, the key counts as
\* unconfirmed, except to a task that has just had it confirmed and is about to
\* end the search (handle_uuid_mismatch, handle_resp).
SolvingUnconfirmed ==
  solving # NoHost /\ (\A h \in Host : pc[h] # "clear") => ~key_confirmed

\* What must hold in every state: types, and the search for an id
\* (handle_uuid_mismatch), in one invariant.
Inv == TypeOK /\ SolvingUnconfirmed

Known == \A h \in Host : id \in registered[h]

\* Every server comes to know the id the host stays with, whatever was lost,
\* duplicated, late or forgotten before and whichever ids the servers refused
\* (register_peer, request_pk, rebind_udp_for).
Registered == <>[]Known
=============================================================================
