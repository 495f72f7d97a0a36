--------------------------- MODULE TerminalProofs ---------------------------
(***************************************************************************)
(* The terminals of a host and the output they keep.  TerminalService for   *)
(* any connections, terminals and bounds: its types, and that a service that *)
(* is not persistent ends with its last connection, whether connections     *)
(* overlap or not; that a peer that comes back learns of every terminal when *)
(* they do not.                                                             *)
(* OutputBuffer for any sizes: its types and its flag, that it holds the end *)
(* of the output, how far its size is off, and that get_recent returns the   *)
(* end of what is held.  Each from its inductive invariant.                 *)
(***************************************************************************)
EXTENDS TerminalService, OutputBuffer, SequenceTheorems, WellFoundedInduction, TLAPS

-----------------------------------------------------------------------------
(* The terminal service.                                                    *)

\* A function over the places of a sequence is a sequence of the same length.
LEMMA MappedSeq ==
  ASSUME NEW S, NEW T, NEW q \in Seq(S), NEW f \in [DOMAIN q -> T]
  PROVE  f \in Seq(T) /\ Len(f) = Len(q)
  <1>1. DOMAIN q = 1..Len(q) /\ Len(q) \in Nat
    BY LenProperties
  <1>2. f \in Seq(T)
    BY <1>1, SeqDef
  <1>3. DOMAIN f = 1..Len(f) /\ Len(f) \in Nat
    BY <1>2, LenProperties
  <1> QED
    BY <1>1, <1>2, <1>3

\* Services and sessions are numbered from 1, and each has its fields.
LEMMA Fields ==
  ASSUME TypeOK
  PROVE  /\ Len(services) \in Nat /\ DOMAIN services = 1..Len(services)
         /\ Len(sessions) \in Nat /\ DOMAIN sessions = 1..Len(sessions)
         /\ \A v \in DOMAIN services :
              services[v].is_persistent \in BOOLEAN
              /\ services[v].needs_session_sync \in BOOLEAN
              /\ services[v].sessions \in Sessions
              /\ services[v] \in Service
         /\ \A s \in DOMAIN sessions : sessions[s] \in Session
  <1>1. services \in Seq(Service) /\ sessions \in Seq(Session)
    BY DEF TypeOK
  <1>2. /\ Len(services) \in Nat /\ DOMAIN services = 1..Len(services)
        /\ Len(sessions) \in Nat /\ DOMAIN sessions = 1..Len(sessions)
        /\ \A v \in DOMAIN services : services[v] \in Service
        /\ \A s \in DOMAIN sessions : sessions[s] \in Session
    BY <1>1, LenProperties, ElementOfSeq
  <1> QED
    BY <1>2 DEF Service

\* What a reader loop holds at each place.
LEMMA ReaderFields ==
  ASSUME NEW r \in Readers
  PROVE  /\ r.pc \in {"none", "wait", "missed", "loop", "exit", "remove", "done",
                     "read", "process", "clean"}
         /\ r.pc \in {"read", "process", "clean"} =>
              r.persistent \in BOOLEAN /\ r.service \in 1..MaxServices
         /\ r.pc = "process" => r.sessions \in Sessions
         /\ r.pc = "clean" => r.closed \in (SUBSET Term) \ {{}}
  BY DEF Readers, Idle

\* A reader loop that holds nothing, at each place it can be.
LEMMA ReaderAt ==
  ASSUME NEW p \in {"wait", "missed", "loop", "exit", "remove", "done"}
  PROVE [pc |-> p] \in Readers /\ [pc |-> p].pc = p
  BY DEF Readers

\* A reader loop that has read the persistence of a service.
LEMMA ReaderReads ==
  ASSUME NEW b \in BOOLEAN, NEW v \in 1..MaxServices
  PROVE [pc |-> "read", persistent |-> b, service |-> v] \in Readers
  BY DEF Readers

\* A reader loop that has cloned the sessions of a service.
LEMMA ReaderProcesses ==
  ASSUME NEW b \in BOOLEAN, NEW v \in 1..MaxServices, NEW S \in Sessions
  PROVE [pc |-> "process", persistent |-> b, service |-> v, sessions |-> S] \in Readers
  BY DEF Readers

\* A reader loop that is to clean up terminals that have closed.
LEMMA ReaderCleans ==
  ASSUME NEW b \in BOOLEAN, NEW v \in 1..MaxServices, NEW C \in (SUBSET Term) \ {{}}
  PROVE [pc |-> "clean", persistent |-> b, service |-> v, closed |-> C] \in Readers
  BY DEF Readers

\* What the updates of a service keep.
LEMMA ServiceUpdates ==
  ASSUME NEW svc \in Service
  PROVE  /\ \A p \in BOOLEAN : ResetStatus(svc, p) \in Service
         /\ \A p \in BOOLEAN : /\ ResetStatus(svc, p).needs_session_sync
                               /\ ResetStatus(svc, p).sessions = svc.sessions
         /\ \A m \in Sessions : [svc EXCEPT !.sessions = m] \in Service
         /\ [svc EXCEPT !.needs_session_sync = FALSE] \in Service
         /\ [svc EXCEPT !.is_persistent = ~@] \in Service
  BY DEF Service, ResetStatus

\* An update of one service keeps the number of services, and the others.
LEMMA ServiceChanged ==
  ASSUME TypeOK, NEW v \in DOMAIN services, NEW svc \in Service,
         services' = [services EXCEPT ![v] = svc]
  PROVE  /\ services' \in Seq(Service) /\ Len(services') = Len(services)
         /\ DOMAIN services' = DOMAIN services
         /\ services'[v] = svc
         /\ \A w \in DOMAIN services : w # v => services'[w] = services[w]
  <1>1. services \in Seq(Service)
    BY DEF TypeOK
  <1>2. /\ services' \in Seq(Service) /\ Len(services') = Len(services)
        /\ \A w \in 1..Len(services) : services'[w] = IF w = v THEN svc ELSE services[w]
    BY <1>1, LenProperties, ExceptSeq
  <1> QED
    BY <1>1, <1>2, LenProperties

\* An update of sessions in place keeps their number.
LEMMA SessionsChanged ==
  ASSUME TypeOK, sessions' \in [DOMAIN sessions -> Session]
  PROVE  /\ sessions' \in Seq(Session) /\ Len(sessions') = Len(sessions)
         /\ Len(sessions') <= MaxSessions
  BY MappedSeq DEF TypeOK

\* A session that is opened, detached, stopped or noted is a session.
LEMMA SessionUpdates ==
  ASSUME NEW s \in Session
  PROVE  /\ [s EXCEPT !.is_opened = TRUE] \in Session
         /\ [s EXCEPT !.is_opened = FALSE] \in Session
         /\ [s EXCEPT !.reader_thread = "finished"] \in Session
         /\ [s EXCEPT !.closed_message_sent = TRUE] \in Session
         /\ [s EXCEPT !.is_opened = FALSE, !.reader_thread = "None"] \in Session
  BY DEF Session

\* remove_service unregisters the service, and only stops sessions.
LEMMA RemoveKeeps ==
  ASSUME TypeOK, RemoveService
  PROVE  /\ registered' = 0 /\ services' = services
         /\ sessions' \in Seq(Session) /\ Len(sessions') = Len(sessions)
         /\ Len(sessions') <= MaxSessions
  <1>1. \A S : Stopped(S) \in [DOMAIN sessions -> Session]
    BY Fields, SessionUpdates DEF Stopped
  <1>2. CASE registered = 0
    BY <1>2 DEF RemoveService, TypeOK
  <1>3. CASE registered # 0
    BY <1>1, <1>3, SessionsChanged DEF RemoveService
  <1> QED
    BY <1>2, <1>3 DEF RemoveService

\* A step that at most ends, marks or stops sessions and unregisters the service.
LEMMA RestKeeps ==
  ASSUME IInv,
         sessions' \in Seq(Session), Len(sessions') = Len(sessions),
         Len(sessions') <= MaxSessions,
         registered' \in {0, registered}, doomed' \in BOOLEAN,
         UNCHANGED <<services, conn, action, reader, known, open>>
  PROVE  IInv'
  <1>1. TypeOK'
    BY Fields DEF IInv, TypeOK
  <1>2. References' /\ LoopOfConn' /\ Watched'
    BY DEF IInv, References, LoopOfConn, Watched, Missed
  <1>3. ~Overlap => OneAtATime' /\ SyncPending'
    BY DEF IInv, OneAtATime, SyncPending, Terms
  <1> QED
    BY <1>1, <1>2, <1>3 DEF IInv

\* The inductive invariant holds at first ...
LEMMA InitIInv == Init => IInv
  <1> SUFFICES ASSUME Init
               PROVE  IInv
    OBVIOUS
  <1>1. services = <<>> /\ sessions = <<>> /\ Len(services) = 0 /\ Len(sessions) = 0
        /\ services \in Seq(Service) /\ sessions \in Seq(Session)
    BY EmptySeq DEF Init
  <1>d. DOMAIN services = {}
    BY <1>1, LenProperties
  <1>2. reader \in [Conn -> Readers] /\ action \in [Conn -> {NoAction} \cup Ops]
    BY DEF Init, Readers
  <1>3. TypeOK
    <2>1. registered \in 0..Len(services) /\ Len(services) <= MaxServices
          /\ Len(sessions) <= MaxSessions
      BY <1>1, BoundsNat DEF Init
    <2> QED
      BY <1>1, <1>2, <2>1 DEF Init, TypeOK
  <1>4. References /\ LoopOfConn
    BY <1>d, <1>1 DEF Init, References, LoopOfConn, Idle
  <1>5. Watched /\ OneAtATime /\ SyncPending
    BY DEF Init, Watched, Missed, OneAtATime, SyncPending, Idle
  <1> QED
    BY <1>3, <1>4, <1>5 DEF IInv

\* A step of a reader loop that changes nothing but the loop, and moves it to a
\* place where the conjuncts of the invariant want it.
LEMMA ReaderStepKeeps ==
  ASSUME IInv, NEW c \in Conn, NEW r \in Readers,
         reader' = [reader EXCEPT ![c] = r],
         conn[c] \in {"on", "off"},
         conn[c] = "on" => r.pc \in {"loop", "read", "process", "clean"},
         reader[c].pc # "missed",
         r.pc = "missed" => Overlap \/ \A d \in Conn : d > c => conn[d] = "new",
         r.pc \in {"read", "process", "clean"} => r.service \in DOMAIN services,
         r.pc = "process" => \A t \in Term : r.sessions[t] \in 0..Len(sessions),
         r.pc = "done" => registered = 0 \/ services[registered].is_persistent,
         r.pc # "none",
         UNCHANGED <<registered, services, sessions, conn, action, known, open, doomed>>
  PROVE  IInv'
  <1>0. TypeOK
    BY DEF IInv
  <1>1. reader'[c] = r /\ \A d \in Conn : d # c => reader'[d] = reader[d]
    BY <1>0 DEF TypeOK
  <1>2. TypeOK'
    BY <1>0 DEF TypeOK
  <1>3. References' /\ LoopOfConn'
    BY <1>1 DEF IInv, References, LoopOfConn
  <1>4. Watched'
    BY <1>1 DEF IInv, Watched, Missed
  <1>5. ~Overlap => OneAtATime' /\ SyncPending'
    BY <1>1 DEF IInv, OneAtATime, SyncPending, Terms
  <1> QED
    BY <1>2, <1>3, <1>4, <1>5 DEF IInv

\* ... and every step keeps it.
LEMMA StepIInv == IInv /\ [Next]_vars => IInv'
  <1> SUFFICES ASSUME IInv, [Next]_vars
               PROVE  IInv'
    OBVIOUS
  <1>t. TypeOK /\ References /\ LoopOfConn /\ Watched
    BY DEF IInv
  <1>f. /\ Len(services) \in Nat /\ DOMAIN services = 1..Len(services)
        /\ Len(sessions) \in Nat /\ DOMAIN sessions = 1..Len(sessions)
        /\ \A v \in DOMAIN services :
              services[v].is_persistent \in BOOLEAN
              /\ services[v].needs_session_sync \in BOOLEAN
              /\ services[v].sessions \in Sessions
              /\ services[v] \in Service
        /\ \A s \in DOMAIN sessions : sessions[s] \in Session
    BY <1>t, Fields
  <1>g. registered \in 0..Len(services) /\ Len(services) <= MaxServices /\ MaxServices \in Nat
    BY <1>t, BoundsNat DEF TypeOK
  <1>r. \A c \in Conn : reader[c] \in Readers
    BY <1>t DEF TypeOK
  <1>1. ASSUME NEW c \in Conn, ReadOutputs(c)
        PROVE  IInv'
    <2> DEFINE r == [pc |-> "read", persistent |-> services[registered].is_persistent,
                     service |-> registered]
    <2>1. r \in Readers /\ r.pc = "read" /\ r.service = registered
      BY <1>1, <1>f, <1>g, ReaderReads DEF ReadOutputs
    <2> HIDE DEF r
    <2>2. registered \in DOMAIN services
      BY <1>1, <1>f, <1>g DEF ReadOutputs
    <2>3. reader' = [reader EXCEPT ![c] = r]
      BY <1>1 DEF ReadOutputs, r
    <2> QED
      BY <1>1, <2>1, <2>2, <2>3, ReaderStepKeeps DEF ReadOutputs
  <1>0. ASSUME NEW c \in Conn, EnterRun(c)
        PROVE  IInv'
    <2>1. PICK r \in Readers : reader' = [reader EXCEPT ![c] = r] /\ r.pc = "loop"
      BY <1>0, ReaderAt DEF EnterRun
    <2> QED
      BY <1>0, <2>1, ReaderStepKeeps DEF EnterRun
  <1>0a. ASSUME NEW c \in Conn, LeaveWait(c)
         PROVE  IInv'
    <2>1. PICK r \in Readers : reader' = [reader EXCEPT ![c] = r] /\ r.pc = "missed"
      BY <1>0a, ReaderAt DEF LeaveWait
    <2>2. Overlap \/ \A d \in Conn : d > c => conn[d] = "new"
      BY <1>0a DEF LeaveWait, IInv, OneAtATime
    <2> QED
      BY <1>0a, <2>1, <2>2, ReaderStepKeeps DEF LeaveWait
  <1>2. ASSUME NEW c \in Conn, CloneSessions(c)
        PROVE  IInv'
    <2> DEFINE r == [pc |-> "process", persistent |-> reader[c].persistent,
                     service |-> reader[c].service,
                     sessions |-> services[reader[c].service].sessions]
    <2>1. reader[c].persistent \in BOOLEAN /\ reader[c].service \in DOMAIN services
      BY <1>2, <1>r, <1>t, ReaderFields DEF CloneSessions, References
    <2>2. r \in Readers /\ r.pc = "process" /\ r.service = reader[c].service
          /\ r.sessions = services[reader[c].service].sessions
      BY <2>1, <1>f, <1>g, ReaderProcesses
    <2>3. reader' = [reader EXCEPT ![c] = r]
      BY <1>2, <1>t DEF CloneSessions, TypeOK
    <2> HIDE DEF r
    <2>4. \A t \in Term : r.sessions[t] \in 0..Len(sessions)
      BY <1>t, <2>1, <2>2 DEF References
    <2>5. conn[c] \in {"on", "off"}
      BY <1>2, <1>t DEF CloneSessions, LoopOfConn, TypeOK
    <2> QED
      BY <1>2, <2>1, <2>2, <2>3, <2>4, <2>5, ReaderStepKeeps DEF CloneSessions
  <1>3. ASSUME NEW c \in Conn, Process(c)
        PROVE  IInv'
    <2>1. PICK r \in Readers : /\ reader' = [reader EXCEPT ![c] = r]
                               /\ r.pc \in {"loop", "clean"}
                               /\ r.pc = "clean" => r.service = reader[c].service
      <3>1. reader[c].persistent \in BOOLEAN /\ reader[c].service \in 1..MaxServices
        BY <1>3, <1>r, ReaderFields DEF Process
      <3>2. CASE Ended(c) = {}
        BY <1>3, <3>2, ReaderAt DEF Process, AfterProcess
      <3>3. CASE Ended(c) # {}
        <4> DEFINE r == [pc |-> "clean", persistent |-> reader[c].persistent,
                         service |-> reader[c].service, closed |-> Ended(c)]
        <4>1. Ended(c) \in (SUBSET Term) \ {{}}
          BY <3>3 DEF Ended
        <4>2. r \in Readers
          BY <3>1, <4>1, ReaderCleans
        <4>3. r.pc = "clean" /\ r.service = reader[c].service
          OBVIOUS
        <4>4. reader' = [reader EXCEPT ![c] = r]
          BY <1>3, <3>3 DEF Process, AfterProcess
        <4> HIDE DEF r
        <4> QED
          BY <4>2, <4>3, <4>4
      <3> QED
        BY <3>2, <3>3
    <2>2. sessions' \in [DOMAIN sessions -> Session]
      BY <1>3, <1>f, SessionUpdates DEF Process
    <2>3. /\ sessions' \in Seq(Session) /\ Len(sessions') = Len(sessions)
          /\ Len(sessions') <= MaxSessions
      BY <2>2, <1>t, SessionsChanged
    <2>4. conn[c] \in {"on", "off"}
      BY <1>3, <1>t DEF Process, LoopOfConn, TypeOK
    <2>5. reader'[c] = r /\ \A d \in Conn : d # c => reader'[d] = reader[d]
      BY <2>1, <1>t DEF TypeOK
    <2>6. TypeOK'
      BY <1>3, <1>t, <2>1, <2>3 DEF Process, TypeOK
    <2>7. References' /\ LoopOfConn' /\ Watched'
      BY <1>3, <1>t, <2>1, <2>3, <2>4, <2>5 DEF Process, References, LoopOfConn, Watched, Missed
    <2>8. ~Overlap => OneAtATime' /\ SyncPending'
      BY <1>3, <2>1, <2>5 DEF Process, IInv, OneAtATime, SyncPending, Terms
    <2> QED
      BY <2>6, <2>7, <2>8 DEF IInv
  <1>4. ASSUME NEW c \in Conn, CleanUp(c)
        PROVE  IInv'
    <2> DEFINE v == reader[c].service
               cleaned == [t \in Term |-> IF t \in reader[c].closed THEN 0
                                          ELSE services[v].sessions[t]]
    <2>1. v \in DOMAIN services /\ services[v] \in Service /\ services[v].sessions \in Sessions
      BY <1>4, <1>t, <1>f DEF CleanUp, References
    <2>2. /\ services' \in Seq(Service) /\ Len(services') = Len(services)
          /\ DOMAIN services' = DOMAIN services
          /\ \A w \in DOMAIN services :
               /\ services'[w].is_persistent = services[w].is_persistent
               /\ services'[w].needs_session_sync = services[w].needs_session_sync
               /\ \A t \in Term : services'[w].sessions[t] \in {0, services[w].sessions[t]}
      <3>1. CASE reader[c].persistent
        BY <1>4, <1>t, <3>1 DEF CleanUp, TypeOK
      <3>2. CASE ~reader[c].persistent
        <4> DEFINE svc == [services[v] EXCEPT !.sessions = cleaned]
        <4>1. cleaned \in Sessions
          BY <2>1, BoundsNat DEF Sessions
        <4>2. svc \in Service
          BY <2>1, <4>1, ServiceUpdates
        <4>3. /\ svc.is_persistent = services[v].is_persistent
              /\ svc.needs_session_sync = services[v].needs_session_sync
              /\ \A t \in Term : svc.sessions[t] \in {0, services[v].sessions[t]}
          BY <2>1 DEF Service
        <4>4. services' = [services EXCEPT ![v] = svc]
          BY <1>4, <3>2 DEF CleanUp
        <4> HIDE DEF svc
        <4>5. /\ services' \in Seq(Service) /\ Len(services') = Len(services)
              /\ DOMAIN services' = DOMAIN services /\ services'[v] = svc
              /\ \A w \in DOMAIN services : w # v => services'[w] = services[w]
          BY <2>1, <4>2, <4>4, <1>t, ServiceChanged
        <4> HIDE DEF v
        <4> QED
          BY <4>3, <4>5
      <3> QED
        BY <3>1, <3>2
    <2>4. /\ sessions' \in Seq(Session) /\ Len(sessions') = Len(sessions)
          /\ Len(sessions') <= MaxSessions
      BY <1>4, <1>t DEF CleanUp, TypeOK
    <2>5. conn[c] \in {"on", "off"}
      BY <1>4, <1>t DEF CleanUp, LoopOfConn, TypeOK
    <2>6. /\ reader' \in [Conn -> Readers] /\ reader'[c].pc = "loop"
          /\ \A d \in Conn : d # c => reader'[d] = reader[d]
      BY <1>4, <1>t, ReaderAt DEF CleanUp, TypeOK
    <2>7. /\ open' \in [Conn -> SUBSET Term] /\ open'[c] \subseteq open[c]
          /\ \A d \in Conn : d # c => open'[d] = open[d]
      BY <1>4, <1>t DEF CleanUp, TypeOK
    <2> HIDE DEF v, cleaned
    <2>8. UNCHANGED <<registered, conn, action, known, doomed>>
      BY <1>4 DEF CleanUp
    <2>9. TypeOK'
      <3>1. registered' \in 0..Len(services')
        BY <1>t, <2>2, <2>8 DEF TypeOK
      <3> QED
        BY <1>t, <2>2, <2>4, <2>6, <2>7, <2>8, <3>1 DEF TypeOK
    <2>10. References'
      BY <1>t, <1>f, <2>2, <2>4, <2>6, <2>8 DEF References
    <2>11. LoopOfConn' /\ Watched'
      BY <1>t, <1>f, <1>g, <2>2, <2>5, <2>6, <2>7, <2>8 DEF LoopOfConn, Watched, Missed
    <2>12. ASSUME ~Overlap
           PROVE  OneAtATime' /\ SyncPending'
      <3>1. OneAtATime /\ SyncPending
        BY <2>12 DEF IInv
      <3>2. registered # 0 => Terms(registered)' \subseteq Terms(registered)
        BY <1>f, <1>g, <2>2, <2>8 DEF Terms
      <3>3. \A d \in Conn : open'[d] \subseteq open[d]
        BY <2>7
      <3> QED
        BY <1>f, <1>g, <2>2, <2>6, <2>8, <3>1, <3>2, <3>3 DEF OneAtATime, SyncPending
    <2> QED
      BY <2>9, <2>10, <2>11, <2>12 DEF IInv
  <1>5. ASSUME NEW c \in Conn, LeaveLoop(c)
        PROVE  IInv'
    <2>1. PICK r \in Readers : reader' = [reader EXCEPT ![c] = r] /\ r.pc = "exit"
      BY <1>5, ReaderAt DEF LeaveLoop
    <2> QED
      BY <1>5, <2>1, ReaderStepKeeps DEF LeaveLoop
  <1>6. ASSUME NEW c \in Conn, ExitLoop(c)
        PROVE  IInv'
    <2>1. PICK r \in Readers : /\ reader' = [reader EXCEPT ![c] = r]
                               /\ r.pc = IF ShouldRemove THEN "remove" ELSE "done"
      BY <1>6, ReaderAt DEF ExitLoop
    <2>2. conn[c] = "off"
      BY <1>6, <1>t DEF ExitLoop, LoopOfConn, TypeOK
    <2> QED
      BY <1>6, <2>1, <2>2, ReaderStepKeeps DEF ExitLoop, ShouldRemove
  <1>7. ASSUME NEW c \in Conn, RemoveAtExit(c)
        PROVE  IInv'
    <2>1. /\ registered' = 0 /\ services' = services
          /\ sessions' \in Seq(Session) /\ Len(sessions') = Len(sessions)
          /\ Len(sessions') <= MaxSessions
      BY <1>7, <1>t, RemoveKeeps DEF RemoveAtExit
    <2>2. /\ reader' \in [Conn -> Readers] /\ reader'[c].pc = "done"
          /\ \A d \in Conn : d # c => reader'[d] = reader[d]
      BY <1>7, <1>t, ReaderAt DEF RemoveAtExit, TypeOK
    <2>3. UNCHANGED <<conn, action, known, open, doomed>>
      BY <1>7 DEF RemoveAtExit
    <2>4. conn[c] = "off"
      BY <1>7, <1>t DEF RemoveAtExit, LoopOfConn, TypeOK
    <2>5. TypeOK'
      BY <1>t, <1>f, <2>1, <2>2, <2>3 DEF TypeOK
    <2>6. References' /\ LoopOfConn' /\ Watched'
      BY <1>t, <2>1, <2>2, <2>3, <2>4 DEF References, LoopOfConn, Watched, Missed
    <2>7. ~Overlap => OneAtATime' /\ SyncPending'
      BY <2>1, <2>3 DEF IInv, OneAtATime, SyncPending
    <2> QED
      BY <2>5, <2>6, <2>7 DEF IInv
  <1>8. ASSUME NEW c \in Conn, Connect(c)
        PROVE  IInv'
    <2>1. conn[c] = "new" /\ reader[c].pc = "none" /\ action[c] = NoAction /\ open[c] = {}
      BY <1>8, <1>t DEF Connect, LoopOfConn
    <2>2. reader' = [reader EXCEPT ![c] = [pc |-> "wait"]] /\ conn' = [conn EXCEPT ![c] = "on"]
      BY <1>8 DEF Connect
    <2>3. reader' \in [Conn -> Readers] /\ reader'[c].pc = "wait"
          /\ \A d \in Conn : d # c => reader'[d] = reader[d]
      BY <2>2, <1>t, ReaderAt DEF TypeOK
    <2>4. PICK p \in BOOLEAN :
       IF registered = 0
       THEN /\ Len(services) < MaxServices
            /\ services' = Append(services,
                 [is_persistent |-> p, needs_session_sync |-> TRUE,
                  sessions |-> NoSessions])
            /\ registered' = Len(services) + 1
            /\ UNCHANGED sessions
       ELSE /\ services' = [services EXCEPT ![registered] = ResetStatus(@, p)]
            /\ sessions' = [s \in DOMAIN sessions |->
                 IF s \in SessionsOf(registered)
                 THEN [sessions[s] EXCEPT !.is_opened = FALSE] ELSE sessions[s]]
            /\ UNCHANGED registered
      BY <1>8 DEF Connect
    <2>5. /\ services' \in Seq(Service) /\ Len(services') <= MaxServices
          /\ Len(services') >= Len(services)
          /\ DOMAIN services' = 1..Len(services')
          /\ registered' \in DOMAIN services'
          /\ services'[registered'].needs_session_sync
          /\ \A v \in DOMAIN services' :
               \/ services'[v].sessions = NoSessions
               \/ v \in DOMAIN services /\ services'[v].sessions = services[v].sessions
      <3>1. CASE registered = 0
        <4> DEFINE svc == [is_persistent |-> p, needs_session_sync |-> TRUE,
                           sessions |-> NoSessions]
        <4>1. svc \in Service /\ svc.needs_session_sync /\ svc.sessions = NoSessions
          BY BoundsNat DEF Service, NoSessions, Sessions
        <4> HIDE DEF svc
        <4>2. services' = Append(services, svc) /\ registered' = Len(services) + 1
          BY <2>4, <3>1 DEF svc
        <4>3. services \in Seq(Service)
          BY <1>t DEF TypeOK
        <4>4. /\ services' \in Seq(Service) /\ Len(services') = Len(services) + 1
              /\ services'[Len(services) + 1] = svc
              /\ \A v \in 1..Len(services) : services'[v] = services[v]
          BY <4>1, <4>2, <4>3, AppendProperties
        <4>5. DOMAIN services' = 1..Len(services')
          BY <4>4, LenProperties
        <4>6. Len(services') <= MaxServices /\ Len(services') >= Len(services)
          BY <1>f, <2>4, <3>1, <4>4, BoundsNat
        <4>7. registered' \in DOMAIN services' /\ services'[registered'].needs_session_sync
          BY <1>f, <4>1, <4>2, <4>4, <4>5
        <4>8. ASSUME NEW v \in DOMAIN services'
              PROVE  \/ services'[v].sessions = NoSessions
                     \/ v \in DOMAIN services /\ services'[v].sessions = services[v].sessions
          <5>1. v = Len(services) + 1 \/ v \in 1..Len(services)
            BY <1>f, <4>4, <4>5
          <5> QED
            BY <1>f, <4>1, <4>4, <5>1
        <4> QED
          BY <4>4, <4>5, <4>6, <4>7, <4>8
      <3>2. CASE registered # 0
        <4>1. registered \in DOMAIN services /\ registered' = registered
          BY <1>f, <1>g, <2>4, <3>2
        <4>2. PICK svc \in Service : /\ services' = [services EXCEPT ![registered] = svc]
                                     /\ svc.needs_session_sync
                                     /\ svc.sessions = services[registered].sessions
          <5> DEFINE svc == ResetStatus(services[registered], p)
          <5>1. services' = [services EXCEPT ![registered] = svc]
            BY <2>4, <3>2, <4>1
          <5>2. services[registered] \in Service /\ p \in BOOLEAN
            BY <1>f, <4>1
          <5>3. svc \in Service /\ svc.needs_session_sync
                /\ svc.sessions = services[registered].sessions
            BY <5>2, ServiceUpdates
          <5> HIDE DEF svc
          <5> QED
            BY <5>1, <5>3
        <4>3. services \in Seq(Service)
          BY <1>t DEF TypeOK
        <4>4. /\ services' \in Seq(Service) /\ Len(services') = Len(services)
              /\ \A v \in 1..Len(services) :
                   services'[v] = IF v = registered THEN svc ELSE services[v]
          BY <1>f, <4>1, <4>2, <4>3, ExceptSeq
        <4> QED
          BY <1>f, <1>g, <4>1, <4>2, <4>4, LenProperties
      <3> QED
        BY <3>1, <3>2
    <2>6. sessions' \in Seq(Session) /\ Len(sessions') = Len(sessions)
      <3>1. CASE registered = 0
        BY <3>1, <2>4, <1>t DEF TypeOK
      <3>2. CASE registered # 0
        <4>1. \A s \in DOMAIN sessions : [sessions[s] EXCEPT !.is_opened = FALSE] \in Session
          BY <1>f DEF Session
        <4>2. sessions' \in [DOMAIN sessions -> Session]
          BY <1>f, <2>4, <3>2, <4>1
        <4> QED
          BY <4>2, <1>t, MappedSeq DEF TypeOK
      <3> QED
        BY <3>1, <3>2
    <2>7. TypeOK'
      <3>1. conn' \in [Conn -> {"new", "on", "off", "gone"}]
        BY <1>t, <2>2 DEF TypeOK
      <3>2. registered' \in 0..Len(services')
        BY <2>5, <1>f
      <3> QED
        BY <1>8, <1>t, <2>3, <2>5, <2>6, <3>1, <3>2 DEF Connect, TypeOK
    <2>8. References'
      <3>1. \A v \in DOMAIN services : v \in DOMAIN services'
        BY <1>f, <2>5
      <3>2. \A v \in DOMAIN services', t \in Term : services'[v].sessions[t] \in 0..Len(sessions')
        BY <1>t, <1>f, <2>5, <2>6 DEF References, NoSessions
      <3> QED
        BY <1>8, <1>t, <2>3, <2>6, <3>1, <3>2 DEF Connect, References
    <2>9. LoopOfConn' /\ Watched'
      BY <1>8, <1>t, <2>1, <2>2, <2>3 DEF Connect, LoopOfConn, Watched, Missed, TypeOK
    <2>10. ASSUME ~Overlap
           PROVE  OneAtATime' /\ SyncPending'
      <3>1. \A d \in Conn : conn[d] \in {"new", "gone"}
        BY <1>8, <2>10 DEF Connect
      <3>2. \A d \in Conn : d # c => conn'[d] \in {"new", "gone"}
        BY <2>2, <3>1, <1>t DEF TypeOK
      <3>3. \A d \in Conn : action'[d] = NoAction
        BY <1>8, <1>t, <3>1 DEF Connect, LoopOfConn
      <3>4. \A d \in Conn : d > c => conn'[d] = "new"
        BY <1>t, <2>1, <2>2, ConnNumbered DEF LoopOfConn, TypeOK
      <3>5. OneAtATime'
        BY <3>2, <3>3, <3>4 DEF OneAtATime
      <3> QED
        BY <1>8, <2>1, <2>5, <3>2, <3>5 DEF Connect, SyncPending
    <2> QED
      BY <2>7, <2>8, <2>9, <2>10 DEF IInv
  <1>9. ASSUME NEW c \in Conn, SetPersistent(c)
        PROVE  IInv'
    <2> DEFINE svc == [services[registered] EXCEPT !.is_persistent = ~@]
    <2>1. registered \in DOMAIN services /\ conn[c] = "on"
          /\ services' = [services EXCEPT ![registered] = svc]
      BY <1>9, <1>f, <1>g DEF SetPersistent
    <2>2. /\ svc \in Service
          /\ svc.needs_session_sync = services[registered].needs_session_sync
          /\ svc.sessions = services[registered].sessions
      BY <1>f, <2>1, ServiceUpdates DEF Service
    <2> HIDE DEF svc
    <2>3. /\ services' \in Seq(Service) /\ Len(services') = Len(services)
          /\ DOMAIN services' = DOMAIN services /\ services'[registered] = svc
          /\ \A w \in DOMAIN services : w # registered => services'[w] = services[w]
      BY <1>t, <2>1, <2>2, ServiceChanged
    <2>4. UNCHANGED <<registered, sessions, conn, action, reader, known, open, doomed>>
      BY <1>9 DEF SetPersistent
    <2>5. \A w \in DOMAIN services : services'[w].sessions = services[w].sessions
      BY <2>2, <2>3
    <2>6. TypeOK'
      BY <1>t, <2>3, <2>4 DEF TypeOK
    <2>7. References' /\ LoopOfConn'
      BY <1>t, <2>3, <2>4, <2>5 DEF References, LoopOfConn
    <2>8. Watched'
      BY <1>t, <2>1, <2>4 DEF LoopOfConn, Watched, Missed
    <2>9. ASSUME ~Overlap
          PROVE  OneAtATime' /\ SyncPending'
      <3>1. OneAtATime /\ SyncPending
        BY <2>9 DEF IInv
      <3> QED
        BY <2>1, <2>2, <2>3, <2>4, <2>5, <3>1 DEF OneAtATime, SyncPending, Terms
    <2> QED
      BY <2>6, <2>7, <2>8, <2>9 DEF IInv
  <1>10. ASSUME NEW c \in Conn, HandleAction(c)
         PROVE  IInv'
    <2>1. PICK op \in {"open", "close"}, t \in Term :
            action' = [action EXCEPT ![c] = [op |-> op, service |-> registered, term |-> t]]
      BY <1>10 DEF HandleAction
    <2> DEFINE a == [op |-> op, service |-> registered, term |-> t]
    <2>2. registered \in DOMAIN services /\ registered \in 1..MaxServices
      BY <1>10, <1>f, <1>g DEF HandleAction
    <2>3. a \in Ops /\ a.service = registered
      BY <2>2 DEF Ops
    <2> HIDE DEF a
    <2>4. /\ action' \in [Conn -> {NoAction} \cup Ops] /\ action'[c] = a
          /\ \A d \in Conn : d # c => action'[d] = action[d]
      BY <1>t, <2>1, <2>3 DEF TypeOK, a
    <2>5. TypeOK'
      BY <1>10, <1>t, <2>4 DEF HandleAction, TypeOK
    <2>6. References' /\ LoopOfConn' /\ Watched'
      BY <1>10, <1>t, <2>2, <2>3, <2>4 DEF HandleAction, References, LoopOfConn, Watched, Missed
    <2>7. ~Overlap => OneAtATime' /\ SyncPending'
      BY <1>10, <2>3, <2>4 DEF HandleAction, IInv, OneAtATime, SyncPending, Terms
    <2> QED
      BY <2>5, <2>6, <2>7 DEF IInv
  <1>11. ASSUME NEW c \in Conn, HandleOpen(c)
         PROVE  IInv'
    <2>0. action[c].op = "open" /\ action[c] \in {NoAction} \cup Ops
      <3>1. action[c].op = "open"
        BY <1>11 DEF HandleOpen
      <3>2. action[c] \in {NoAction} \cup Ops
        BY <1>t DEF TypeOK
      <3> QED
        BY <3>1, <3>2
    <2>1. action[c] # NoAction /\ action[c] \in Ops /\ conn[c] = "on"
      <3>1. action[c] # NoAction
        BY <2>0 DEF NoAction
      <3>2. conn[c] = "on"
        BY <1>t, <3>1 DEF LoopOfConn
      <3> QED
        BY <2>0, <3>1, <3>2
    <2>v. PICK v \in DOMAIN services, t \in Term : v = action[c].service /\ t = action[c].term
      BY <1>t, <2>1 DEF References, Ops
    <2>s. PICK s \in 0..Len(sessions) : s = services[v].sessions[t]
      BY <1>t DEF References
    <2>3. UNCHANGED <<registered, conn, reader, doomed>>
      BY <1>11 DEF HandleOpen
    <2>4. /\ action' \in [Conn -> {NoAction} \cup Ops] /\ action'[c] = NoAction
          /\ \A d \in Conn : d # c => action'[d] = action[d]
      BY <1>11, <1>t DEF HandleOpen, TypeOK
    <2> DEFINE Changed(x) ==
                 /\ services' = [services EXCEPT ![v] = x]
                 /\ x.is_persistent = services[v].is_persistent
                 /\ ~x.needs_session_sync
                 /\ \A u \in Term : x.sessions[u] = services[v].sessions[u]
                      \/ (u = t /\ x.sessions[u] = Len(sessions'))
    <2>5. \/ UNCHANGED <<sessions, services, known, open>>
          \/ /\ sessions' \in Seq(Session) /\ Len(sessions') <= MaxSessions
             /\ Len(sessions') >= Len(sessions)
             /\ Opened(c, v, t)
             /\ \E x \in Service : Changed(x)
      <3>1. CASE s # 0 /\ sessions' = [sessions EXCEPT ![s].is_opened = TRUE]
                 /\ services' = [services EXCEPT ![v].needs_session_sync = FALSE]
                 /\ Opened(c, v, t)
        <4> DEFINE svc == [services[v] EXCEPT !.needs_session_sync = FALSE]
        <4>1. s \in DOMAIN sessions
          BY <1>f, <2>s, <3>1
        <4>2. sessions' \in [DOMAIN sessions -> Session]
          BY <1>f, <3>1, <4>1, SessionUpdates
        <4>3. sessions' \in Seq(Session) /\ Len(sessions') = Len(sessions)
              /\ Len(sessions') <= MaxSessions
          BY <1>t, <4>2, SessionsChanged
        <4>4. svc \in Service /\ services' = [services EXCEPT ![v] = svc]
              /\ svc.is_persistent = services[v].is_persistent
              /\ ~svc.needs_session_sync /\ svc.sessions = services[v].sessions
          <5>1. services[v] \in Service
            BY <1>f
          <5>2. svc \in Service
            BY <5>1, ServiceUpdates
          <5>3. svc.is_persistent = services[v].is_persistent
                /\ ~svc.needs_session_sync /\ svc.sessions = services[v].sessions
            BY <5>1 DEF Service
          <5> QED
            BY <3>1, <5>2, <5>3
        <4> HIDE DEF svc
        <4> QED
          <5>1. \A u \in Term : svc.sessions[u] = services[v].sessions[u]
                  \/ (u = t /\ svc.sessions[u] = Len(sessions'))
            BY <4>4
          <5>2. svc \in Service /\ Changed(svc)
            BY <4>4, <5>1
          <5> HIDE DEF Changed
          <5> QED
            BY <1>f, <3>1, <4>3, <5>2
      <3>2. CASE /\ s = 0
                 /\ Len(sessions) < MaxSessions
                 /\ sessions' = Append(sessions,
                      [is_opened |-> TRUE, reader_thread |-> "alive", closed_message_sent |-> FALSE])
                 /\ services' = [services EXCEPT ![v].needs_session_sync = FALSE,
                                                 ![v].sessions[t] = Len(sessions) + 1]
                 /\ Opened(c, v, t)
        <4> DEFINE new == [is_opened |-> TRUE, reader_thread |-> "alive",
                           closed_message_sent |-> FALSE]
                   held == [services[v].sessions EXCEPT ![t] = Len(sessions) + 1]
                   svc == [[services[v] EXCEPT !.sessions = held]
                             EXCEPT !.needs_session_sync = FALSE]
        <4>1. new \in Session
          BY DEF Session
        <4>2. sessions' \in Seq(Session) /\ Len(sessions') = Len(sessions) + 1
              /\ Len(sessions') <= MaxSessions
          BY <1>t, <1>f, <3>2, <4>1, BoundsNat, AppendProperties DEF TypeOK
        <4>3. services[v] \in Service /\ services[v].sessions \in Sessions
          BY <1>f, <2>v
        <4>4. held \in Sessions /\ \A u \in Term :
                held[u] = IF u = t THEN Len(sessions) + 1 ELSE services[v].sessions[u]
          <5>1. Len(sessions) + 1 \in 0..MaxSessions
            BY <1>f, <3>2, BoundsNat
          <5>2. services[v].sessions \in [Term -> 0..MaxSessions]
            BY <4>3 DEF Sessions
          <5> QED
            BY <5>1, <5>2 DEF Sessions
        <4>5. svc \in Service /\ ~svc.needs_session_sync /\ svc.sessions = held
              /\ svc.is_persistent = services[v].is_persistent
          BY <4>3, <4>4, ServiceUpdates DEF Service
        <4>6. services' = [services EXCEPT ![v] = svc]
          <5>1. services' = [services EXCEPT ![v] =
                   [[services[v] EXCEPT !.needs_session_sync = FALSE]
                      EXCEPT !.sessions = held]]
            BY <2>v, <3>2, <4>3 DEF Service
          <5>2. svc = [[services[v] EXCEPT !.needs_session_sync = FALSE]
                         EXCEPT !.sessions = held]
            BY <4>3 DEF Service
          <5> QED
            BY <5>1, <5>2
        <4> HIDE DEF new, held, svc
        <4> QED
          <5>1. \A u \in Term : svc.sessions[u] = services[v].sessions[u]
                  \/ (u = t /\ svc.sessions[u] = Len(sessions'))
            BY <4>2, <4>4, <4>5, <4>6
          <5>2. svc \in Service /\ Changed(svc)
            BY <4>2, <4>4, <4>5, <4>6, <5>1
          <5> HIDE DEF Changed
          <5>3. Len(sessions') >= Len(sessions)
            BY <1>f, <4>2
          <5>4. Opened(c, v, t)
            BY <3>2
          <5> QED
            BY <4>2, <5>2, <5>3, <5>4
      <3>3. CASE UNCHANGED <<sessions, services, known, open>>
        BY <3>3
      <3> QED
        BY <1>11, <2>v, <2>s, <3>1, <3>2, <3>3 DEF HandleOpen
    <2>6. CASE UNCHANGED <<sessions, services, known, open>>
      <3>1. TypeOK'
        BY <1>t, <2>3, <2>4, <2>6 DEF TypeOK
      <3>2. References' /\ LoopOfConn' /\ Watched'
        BY <1>t, <2>3, <2>4, <2>6 DEF References, LoopOfConn, Watched, Missed
      <3>3. ~Overlap => OneAtATime' /\ SyncPending'
        BY <2>3, <2>4, <2>6 DEF IInv, OneAtATime, SyncPending, Terms
      <3> QED
        BY <3>1, <3>2, <3>3 DEF IInv
    <2>7. CASE ~UNCHANGED <<sessions, services, known, open>>
      <3>1. PICK svc \in Service : Changed(svc)
        BY <2>5, <2>7
      <3>2. /\ sessions' \in Seq(Session) /\ Len(sessions') <= MaxSessions
            /\ Len(sessions') >= Len(sessions)
            /\ Opened(c, v, t)
        BY <2>5, <2>7
      <3>3. /\ services' \in Seq(Service) /\ Len(services') = Len(services)
            /\ DOMAIN services' = DOMAIN services /\ services'[v] = svc
            /\ \A w \in DOMAIN services : w # v => services'[w] = services[w]
        BY <1>t, <2>v, <3>1, ServiceChanged
      <3>4. /\ known' \in [Conn -> SUBSET Term] /\ open' \in [Conn -> SUBSET Term]
            /\ known'[c] = known[c] \cup {t} \cup
                  IF services[v].needs_session_sync THEN Terms(v) ELSE {}
            /\ \A d \in Conn : d # c => known'[d] = known[d] /\ open'[d] = open[d]
        BY <1>t, <2>v, <3>2 DEF Opened, Terms, TypeOK
      <3>5. TypeOK'
        BY <1>t, <1>g, <2>3, <2>4, <3>2, <3>3, <3>4 DEF TypeOK
      <3>6. References'
        <4>1. Len(sessions') \in Nat
          BY <3>2, LenProperties
        <4>2. \A w \in DOMAIN services', u \in Term :
                services'[w].sessions[u] \in 0..Len(sessions')
          BY <1>t, <1>f, <2>v, <3>1, <3>2, <3>3, <4>1 DEF References
        <4> QED
          BY <1>t, <1>f, <2>3, <2>4, <3>2, <3>3, <4>1, <4>2 DEF References
      <3>7. LoopOfConn' /\ Watched'
        <4>1. LoopOfConn'
          BY <1>t, <2>1, <2>3, <2>4, <3>4 DEF LoopOfConn
        <4>2. registered # 0 =>
                services'[registered].is_persistent = services[registered].is_persistent
          BY <1>f, <1>g, <3>1, <3>3
        <4> QED
          BY <1>t, <2>3, <4>1, <4>2 DEF Watched, Missed
      <3>8. ASSUME ~Overlap
            PROVE  OneAtATime' /\ SyncPending'
        <4>1. OneAtATime /\ SyncPending
          BY <3>8 DEF IInv
        <4>2. OneAtATime'
          BY <2>3, <2>4, <4>1 DEF OneAtATime
        <4>3. ASSUME registered # 0
              PROVE  v = registered /\ Terms(registered)' \subseteq Terms(registered) \cup {t}
          BY <2>1, <2>3, <2>v, <3>1, <3>3, <4>1, <4>3 DEF OneAtATime, Terms
        <4>4. \A d \in Conn : conn[d] = "on" => d = c
          BY <2>1, <4>1 DEF OneAtATime
        <4> QED
          BY <2>1, <2>v, <2>3, <3>1, <3>3, <3>4, <4>1, <4>2, <4>3, <4>4 DEF SyncPending
      <3> QED
        BY <3>5, <3>6, <3>7, <3>8 DEF IInv
    <2> QED
      BY <2>6, <2>7
  <1>12. ASSUME NEW c \in Conn, HandleClose(c)
         PROVE  IInv'
    <2>1. action[c] # NoAction /\ action[c] \in Ops /\ conn[c] = "on"
      <3>1. action[c].op = "close"
        BY <1>12 DEF HandleClose
      <3>2. action[c] # NoAction
        BY <3>1 DEF NoAction
      <3> QED
        BY <1>t, <3>2 DEF LoopOfConn, TypeOK
    <2>2. PICK v \in DOMAIN services, t \in Term : v = action[c].service /\ t = action[c].term
      BY <1>t, <2>1 DEF References, Ops
    <2>3. PICK s \in 0..Len(sessions) : s = services[v].sessions[t]
      BY <1>t DEF References
    <2>4. UNCHANGED <<registered, conn, reader, known, doomed>>
      BY <1>12 DEF HandleClose
    <2>5. /\ action' \in [Conn -> {NoAction} \cup Ops] /\ action'[c] = NoAction
          /\ \A d \in Conn : d # c => action'[d] = action[d]
      <3>1. action' = [action EXCEPT ![c] = NoAction]
        BY <1>12 DEF HandleClose
      <3>2. action \in [Conn -> {NoAction} \cup Ops]
        BY <1>t DEF TypeOK
      <3> QED
        BY <3>1, <3>2
    <2>6. /\ open' \in [Conn -> SUBSET Term]
          /\ \A d \in Conn : open'[d] \subseteq open[d]
      <3>1. open' = open \/ open' = [open EXCEPT ![c] = @ \ {t}]
        BY <1>12, <2>2 DEF HandleClose
      <3>2. open \in [Conn -> SUBSET Term]
        BY <1>t DEF TypeOK
      <3> QED
        BY <3>1, <3>2
    <2>7. /\ services' \in Seq(Service) /\ Len(services') = Len(services)
          /\ DOMAIN services' = DOMAIN services
          /\ \A w \in DOMAIN services :
               /\ services'[w].is_persistent = services[w].is_persistent
               /\ services'[w].needs_session_sync = services[w].needs_session_sync
               /\ \A u \in Term : services'[w].sessions[u] \in {0, services[w].sessions[u]}
      <3>1. CASE s = 0
        BY <1>12, <1>t, <2>2, <2>3, <3>1 DEF HandleClose, TypeOK
      <3>2. CASE s # 0
        <4> DEFINE left == [services[v].sessions EXCEPT ![t] = 0]
                   svc == [services[v] EXCEPT !.sessions = left]
        <4>1. services[v] \in Service /\ services[v].sessions \in Sessions
          BY <1>f
        <4>2. left \in Sessions /\ \A u \in Term : left[u] \in {0, services[v].sessions[u]}
          BY <4>1, BoundsNat DEF Sessions
        <4>3. svc \in Service /\ svc.is_persistent = services[v].is_persistent
              /\ svc.needs_session_sync = services[v].needs_session_sync
              /\ svc.sessions = left
          BY <4>1, <4>2, ServiceUpdates DEF Service
        <4>4. services' = [services EXCEPT ![v] = svc]
          BY <1>12, <2>2, <2>3, <3>2, <4>1 DEF HandleClose, Service
        <4> HIDE DEF left, svc
        <4>5. /\ services' \in Seq(Service) /\ Len(services') = Len(services)
              /\ DOMAIN services' = DOMAIN services /\ services'[v] = svc
              /\ \A w \in DOMAIN services : w # v => services'[w] = services[w]
          BY <1>t, <4>3, <4>4, ServiceChanged
        <4> QED
          BY <4>2, <4>3, <4>5
      <3> QED
        BY <3>1, <3>2
    <2>8. /\ sessions' \in Seq(Session) /\ Len(sessions') = Len(sessions)
          /\ Len(sessions') <= MaxSessions
      BY <1>12, <1>t DEF HandleClose, TypeOK
    <2>9. TypeOK'
      BY <1>t, <2>4, <2>5, <2>6, <2>7, <2>8 DEF TypeOK
    <2>10. References'
      BY <1>t, <1>f, <2>4, <2>5, <2>7, <2>8 DEF References
    <2>11. LoopOfConn' /\ Watched'
      BY <1>t, <1>f, <1>g, <2>1, <2>4, <2>5, <2>6, <2>7 DEF LoopOfConn, Watched, Missed
    <2>12. ASSUME ~Overlap
           PROVE  OneAtATime' /\ SyncPending'
      <3>1. OneAtATime /\ SyncPending
        BY <2>12 DEF IInv
      <3>2. registered # 0 => Terms(registered)' \subseteq Terms(registered)
        BY <1>f, <1>g, <2>4, <2>7 DEF Terms
      <3> QED
        BY <1>f, <1>g, <2>4, <2>5, <2>6, <2>7, <3>1, <3>2 DEF OneAtATime, SyncPending
    <2> QED
      BY <2>9, <2>10, <2>11, <2>12 DEF IInv
  <1>13. ASSUME NEW c \in Conn, Disconnect(c)
         PROVE  IInv'
    <2>1. conn[c] = "on" /\ action[c] = NoAction
          /\ UNCHANGED <<registered, services, sessions, action, reader, doomed>>
      BY <1>13 DEF Disconnect
    <2>2. /\ conn' \in [Conn -> {"new", "on", "off", "gone"}] /\ conn'[c] = "off"
          /\ \A d \in Conn : d # c => conn'[d] = conn[d]
      BY <1>13, <1>t DEF Disconnect, TypeOK
    <2>3. /\ known' \in [Conn -> SUBSET Term] /\ open' \in [Conn -> SUBSET Term]
          /\ open'[c] = {}
          /\ \A d \in Conn : d # c => known'[d] = known[d] /\ open'[d] = open[d]
      BY <1>13, <1>t DEF Disconnect, TypeOK
    <2>4. TypeOK'
      BY <1>t, <2>1, <2>2, <2>3 DEF TypeOK
    <2>5. References' /\ LoopOfConn' /\ Watched'
      BY <1>t, <2>1, <2>2, <2>3 DEF References, LoopOfConn, Watched, Missed
    <2>6. ~Overlap => OneAtATime' /\ SyncPending'
      BY <2>1, <2>2, <2>3 DEF IInv, OneAtATime, SyncPending, Terms
    <2> QED
      BY <2>4, <2>5, <2>6 DEF IInv
  <1>14. ASSUME NEW c \in Conn, Joined(c)
         PROVE  IInv'
    <2>1. conn[c] = "off" /\ reader[c].pc \in {"missed", "done"}
          /\ UNCHANGED <<registered, services, sessions, action, reader, known, open, doomed>>
      BY <1>14 DEF Joined
    <2>2. /\ conn' \in [Conn -> {"new", "on", "off", "gone"}] /\ conn'[c] = "gone"
          /\ \A d \in Conn : d # c => conn'[d] = conn[d]
      BY <1>14, <1>t DEF Joined, TypeOK
    <2>3. TypeOK'
      BY <1>t, <2>1, <2>2 DEF TypeOK
    <2>4. References' /\ LoopOfConn' /\ Watched'
      BY <1>t, <2>1, <2>2 DEF References, LoopOfConn, Watched, Missed
    <2>5. ~Overlap => OneAtATime' /\ SyncPending'
      BY <2>1, <2>2 DEF IInv, OneAtATime, SyncPending, Terms
    <2> QED
      BY <2>3, <2>4, <2>5 DEF IInv
  <1>15. CASE CleanupInactive
    BY <1>15, <1>t, RestKeeps DEF CleanupInactive, TypeOK
  <1>16. CASE CleanupRemove
    <2>1. /\ registered' = 0 /\ services' = services
          /\ sessions' \in Seq(Session) /\ Len(sessions') = Len(sessions)
          /\ Len(sessions') <= MaxSessions
      BY <1>16, <1>t, RemoveKeeps DEF CleanupRemove
    <2> QED
      BY <1>16, <2>1, RestKeeps DEF CleanupRemove
  <1>17. ASSUME NEW s \in DOMAIN sessions, ReaderThreadEnds(s)
         PROVE  IInv'
    <2>1. sessions' \in [DOMAIN sessions -> Session]
      BY <1>17, <1>f, SessionUpdates DEF ReaderThreadEnds
    <2>2. /\ sessions' \in Seq(Session) /\ Len(sessions') = Len(sessions)
          /\ Len(sessions') <= MaxSessions
      BY <1>t, <2>1, SessionsChanged
    <2> QED
      BY <1>17, <1>t, <2>2, RestKeeps DEF ReaderThreadEnds, TypeOK
  <1>18. CASE UNCHANGED vars
    BY <1>18, <1>t, RestKeeps DEF vars, TypeOK
  <1> QED
    BY <1>0, <1>0a, <1>1, <1>2, <1>3, <1>4, <1>5, <1>6, <1>7, <1>8, <1>9, <1>10, <1>11, <1>12,
       <1>13, <1>14, <1>15, <1>16, <1>17, <1>18 DEF Next, Reader, Connection

\* The inductive invariant holds in every reachable state.
THEOREM Invariance == Spec => []IInv
  <1> QED
    BY InitIInv, StepIInv, PTL DEF Spec

\* Types: a reader loop holds what read_outputs has read at its place, and what
\* is registered is a service that was created.
THEOREM TypeCorrect == Spec => []TypeOK
  <1>1. IInv => TypeOK
    BY DEF IInv
  <1> QED
    BY <1>1, Invariance, PTL

\* A service that is not persistent does not outlive its connections, overlapping
\* or not, unless the last of them was dropped before its reader entered run: the
\* last reader removes it (run, remove_service).
THEOREM NonPersistentEndsCorrect == Spec => []NonPersistentEnds
  <1>1. IInv => NonPersistentEnds
    BY DEF IInv, LoopOfConn, Watched, NonPersistentEnds
  <1> QED
    BY <1>1, Invariance, PTL

\* Without overlapping connections, a peer that comes back and opens one terminal
\* knows all there are (reset_status, needs_session_sync in handle_open).
THEOREM RestoreCompleteCorrect ==
  ASSUME ~Overlap
  PROVE  Spec => []RestoreComplete
  <1>1. IInv => RestoreComplete
    BY DEF IInv, SyncPending, RestoreComplete
  <1> QED
    BY <1>1, Invariance, PTL

-----------------------------------------------------------------------------
(* The output buffer.  What a recursive function of it returns is found by   *)
(* induction over its argument, from the order of numbers being well-founded. *)

\* Pairs of numbers, the smaller one first.
Below == {p \in Nat \X Nat : p[1] < p[2]}

\* Numbers cannot decrease for ever.
LEMMA BelowWellFounded == IsWellFoundedOn(Below, Nat)
  BY NatLessThanWellFounded DEF OpToRel, Below

\* What holds of 0, and of each next number up to n, holds of all up to n.
LEMMA Induction ==
  ASSUME NEW n \in Nat, NEW T, 0 \in T, \A i \in 0..(n - 1) : i \in T => i + 1 \in T
  PROVE  \A i \in 0..n : i \in T
  <1> DEFINE R == (0..n) \ T
  <1> SUFFICES ASSUME R # {}
               PROVE  FALSE
    OBVIOUS
  <1>1. R \subseteq Nat
    OBVIOUS
  <1>2. PICK x \in R : \A y \in R : ~(<<y, x>> \in Below)
    <2> HIDE DEF R
    <2> QED
      BY <1>1, BelowWellFounded, WFMin
  <1>3. x # 0 /\ x \in Nat /\ x \in 0..n
    OBVIOUS
  <1>4. x - 1 \in 0..(n - 1) /\ x - 1 \in 0..n /\ <<x - 1, x>> \in Below
    BY <1>3 DEF Below
  <1>5. x - 1 \in T
    BY <1>2, <1>4
  <1>6. (x - 1) + 1 \in T /\ (x - 1) + 1 = x
    BY <1>3, <1>4, <1>5
  <1>7. x \in T
    BY <1>6
  <1> QED
    BY <1>7

\* f is what n steps g make of a.
Iterated(f, a, n, g) == f[0] = a /\ \A i \in 1..n : f[i] = g[i][f[i - 1]]

\* A step g that leads from elements of X to such can be taken n times.
LEMMA Iterate ==
  ASSUME NEW X, NEW a \in X, NEW n \in Nat, NEW g \in [1..n -> [X -> X]]
  PROVE  \E f \in [0..n -> X] : Iterated(f, a, n, g)
  <1> DEFINE Taken(f, m) == /\ f \in [0..m -> X]
                            /\ f[0] = a
                            /\ \A i \in 1..m : f[i] = g[i][f[i - 1]]
             T == {m \in 0..n : \E f : Taken(f, m)}
  <1>1. 0 \in T
    <2> DEFINE f == [i \in 0..0 |-> a]
    <2>1. f \in [0..0 -> X] /\ f[0] = a
      OBVIOUS
    <2>2. 1..0 = {} /\ 0 \in 0..n
      OBVIOUS
    <2> HIDE DEF f
    <2>3. Taken(f, 0)
      BY <2>1, <2>2
    <2> QED
      BY <2>2, <2>3
  <1>2. ASSUME NEW m \in 0..(n - 1), m \in T
        PROVE  m + 1 \in T
    <2>1. PICK f : Taken(f, m)
      BY <1>2
    <2>2. m + 1 \in 1..n /\ m \in 0..m /\ m \in Nat /\ m + 1 \in 0..n
      OBVIOUS
    <2> DEFINE b == g[m + 1][f[m]]
               h == [i \in 0..(m + 1) |-> IF i = m + 1 THEN b ELSE f[i]]
    <2>3. f[m] \in X /\ b \in X
      <3>1. f[m] \in X
        BY <2>1, <2>2
      <3> QED
        BY <2>2, <3>1
    <2>4. h \in [0..(m + 1) -> X] /\ h[0] = a
      <3> HIDE DEF b
      <3> QED
        BY <2>1, <2>2, <2>3
    <2>5. ASSUME NEW i \in 1..(m + 1)
          PROVE  h[i] = g[i][h[i - 1]]
      <3>1. i - 1 \in 0..(m + 1) /\ i - 1 # m + 1 /\ i \in 0..(m + 1)
        BY <2>2
      <3>2. h[i - 1] = f[i - 1]
        BY <3>1
      <3>3. CASE i = m + 1
        <4>1. h[i] = b
          BY <3>1, <3>3
        <4>2. i - 1 = m
          BY <2>2, <3>3
        <4> QED
          BY <3>2, <3>3, <4>1, <4>2
      <3>4. CASE i # m + 1
        <4>1. i \in 1..m /\ h[i] = f[i]
          BY <2>2, <3>1, <3>4
        <4> HIDE DEF h
        <4> QED
          BY <2>1, <3>2, <4>1
      <3> QED
        BY <3>3, <3>4
    <2>6. Taken(h, m + 1)
      <3> HIDE DEF h
      <3> QED
        BY <2>4, <2>5
    <2> HIDE DEF h, Taken
    <2> QED
      BY <2>2, <2>6
  <1>3. n \in T
    <2> HIDE DEF T
    <2>1. \A i \in 0..(n - 1) : i \in T => i + 1 \in T
      BY <1>2
    <2>2. \A i \in 0..n : i \in T
      BY <1>1, <2>1, Induction
    <2> QED
      BY <2>2
  <1> QED
    BY <1>3 DEF Iterated

-----------------------------------------------------------------------------
(* How many bytes lines hold.                                                *)

\* The bounds, one by one.
LEMMA Sizes ==
  MaxSize \in Nat /\ MaxLines \in Nat /\ MaxChunk \in Nat /\ MaxAppended \in Nat /\ Width \in Nat
  BY SizesNat, WidthFits

\* What a line covers.
LEMMA LineSize ==
  ASSUME NEW line \in Line
  PROVE  /\ line.from \in Nat /\ line.to \in Nat /\ line.from >= 1 /\ line.to <= MaxAppended
         /\ line.newline \in BOOLEAN /\ line.from <= line.to
         /\ Size(line) \in Nat /\ Size(line) = line.to - line.from + 1
  BY Sizes DEF Line, Size

\* Held adds up the sizes.
LEMMA HeldIsSum ==
  ASSUME NEW ls \in Seq(Line)
  PROVE  \E h \in [0..Len(ls) -> Nat] :
           /\ h[0] = 0 /\ \A i \in 1..Len(ls) : h[i] = h[i - 1] + Size(ls[i])
           /\ Held(ls) = h[Len(ls)]
  <1> DEFINE n == Len(ls)
             Sums(f) == f = [i \in 0..n |-> IF i = 0 THEN 0 ELSE f[i - 1] + Size(ls[i])]
             g == [i \in 1..n |-> [x \in Nat |-> x + Size(ls[i])]]
  <1>0. n \in Nat /\ \A i \in 1..n : Size(ls[i]) \in Nat
    BY LenProperties, ElementOfSeq, LineSize
  <1>1. Held(ls) = (CHOOSE f : Sums(f))[n]
    BY DEF Held
  <1> HIDE DEF n
  <1>2. g \in [1..n -> [Nat -> Nat]]
    BY <1>0
  <1>3. PICK f \in [0..n -> Nat] : f[0] = 0 /\ \A i \in 1..n : f[i] = g[i][f[i - 1]]
    <2> DEFINE X == Nat
               a == 0
    <2>1. a \in X /\ n \in Nat /\ g \in [1..n -> [X -> X]]
      BY <1>0, <1>2
    <2> HIDE DEF g, X, a
    <2>2. \E f \in [0..n -> X] : Iterated(f, a, n, g)
      BY <2>1, Iterate
    <2> QED
      BY <2>2 DEF X, a, Iterated
  <1>4. Sums(f)
    <2>1. f = [i \in 0..n |-> f[i]]
      BY <1>3
    <2>2. ASSUME NEW i \in 0..n, i # 0
          PROVE  f[i] = f[i - 1] + Size(ls[i])
      <3>1. i \in 1..n /\ i - 1 \in 0..n
        BY <1>0, <2>2
      <3>2. f[i - 1] \in Nat
        BY <3>1
      <3>3. g[i][f[i - 1]] = f[i - 1] + Size(ls[i])
        BY <3>1, <3>2
      <3> QED
        BY <1>3, <3>1, <3>3
    <2> HIDE DEF g
    <2> QED
      BY <1>3, <2>1, <2>2
  <1> DEFINE h == CHOOSE e : Sums(e)
  <1>5. Sums(h)
    <2> HIDE DEF Sums
    <2> QED
      BY <1>4
  <1>6. Held(ls) = h[n]
    BY <1>1
  <1> HIDE DEF h
  <1>7. h[0] = 0
    BY <1>0, <1>5
  <1>8. ASSUME NEW i \in 1..n
        PROVE  h[i] = h[i - 1] + Size(ls[i])
    <2>1. i \in 0..n /\ i # 0
      BY <1>0
    <2> QED
      BY <1>5, <2>1
  <1>9. \A i \in 0..n : h[i] \in Nat
    <2> DEFINE T == {i \in 0..n : h[i] \in Nat}
    <2>1. 0 \in T
      BY <1>0, <1>7
    <2>2. ASSUME NEW i \in 0..(n - 1), i \in T
          PROVE  i + 1 \in T
      <3>1. i + 1 \in 1..n /\ i + 1 \in 0..n /\ (i + 1) - 1 = i
        BY <1>0
      <3>2. h[i + 1] = h[i] + Size(ls[i + 1]) /\ Size(ls[i + 1]) \in Nat
        BY <1>0, <1>8, <3>1
      <3> QED
        BY <2>2, <3>1, <3>2
    <2> HIDE DEF T
    <2>3. \A i \in 0..n : i \in T
      BY <1>0, <2>1, <2>2, Induction
    <2> QED
      BY <2>3 DEF T
  <1>10. h \in [0..n -> Nat]
    <2>1. h = [i \in 0..n |-> h[i]]
      <3>1. \E F : h = [i \in 0..n |-> F[i]]
        <4>1. h = [i \in 0..n |-> [j \in 0..n |-> IF j = 0 THEN 0 ELSE h[j - 1] + Size(ls[j])][i]]
          BY <1>5
        <4> QED
          BY <4>1
      <3> QED
        BY <3>1
    <2> QED
      BY <1>9, <2>1
  <1> QED
    BY <1>6, <1>7, <1>8, <1>10 DEF n

\* Nothing holds no bytes.
LEMMA HeldEmpty == Held(<<>>) = 0
  <1> DEFINE none == <<>>
  <1>1. none \in Seq(Line) /\ Len(none) = 0
    OBVIOUS
  <1> HIDE DEF none
  <1>2. PICK h \in [0..Len(none) -> Nat] : h[0] = 0 /\ Held(none) = h[Len(none)]
    BY <1>1, HeldIsSum
  <1>3. Held(none) = 0
    BY <1>1, <1>2
  <1> QED
    BY <1>3 DEF none

\* Lines that follow one another hold what lies between the ends.
LEMMA HeldSpan ==
  ASSUME NEW ls \in Seq(Line), Follow(ls), ls # <<>>
  PROVE  /\ Len(ls) \in Nat /\ Len(ls) >= 1 /\ ls[1] \in Line /\ ls[Len(ls)] \in Line
         /\ Held(ls) = ls[Len(ls)].to - ls[1].from + 1
         /\ Held(ls) \in 0..MaxAppended
  <1> DEFINE n == Len(ls)
  <1>1. n \in Nat /\ n >= 1 /\ 1 \in 1..n /\ n \in 1..n
    BY LenProperties, EmptySeq
  <1>2. \A i \in 1..n : ls[i] \in Line
    BY LenProperties, ElementOfSeq
  <1>3. \A i \in 1..(n - 1) : ls[i + 1].from = ls[i].to + 1
    BY DEF Follow
  <1>4. PICK h \in [0..n -> Nat] : /\ h[0] = 0 /\ \A i \in 1..n : h[i] = h[i - 1] + Size(ls[i])
                                   /\ Held(ls) = h[n]
    BY HeldIsSum
  <1> HIDE DEF n
  <1> DEFINE T == {i \in 0..n : i = 0 \/ h[i] = ls[i].to - ls[1].from + 1}
  <1>5. 0 \in T
    BY <1>1
  <1>6. ASSUME NEW i \in 0..(n - 1), i \in T
        PROVE  i + 1 \in T
    <2>1. i + 1 \in 1..n /\ i + 1 \in 0..n /\ (i + 1) - 1 = i /\ i \in 0..n
      BY <1>1
    <2>2. ls[i + 1] \in Line
      BY <1>2, <2>1
    <2>3. /\ Size(ls[i + 1]) = ls[i + 1].to - ls[i + 1].from + 1
          /\ ls[i + 1].to \in Nat /\ ls[i + 1].from \in Nat
      BY <2>2, LineSize
    <2>4. h[i + 1] = h[i] + Size(ls[i + 1])
      BY <1>4, <2>1
    <2>5. h[i + 1] = ls[i + 1].to - ls[1].from + 1
      <3>1. CASE i = 0
        BY <1>4, <2>3, <2>4, <3>1
      <3>2. CASE i # 0
        <4>1. i \in 1..(n - 1) /\ i \in 1..n
          BY <1>1, <3>2
        <4>2. ls[i + 1].from = ls[i].to + 1 /\ ls[i] \in Line
          BY <1>2, <1>3, <4>1
        <4>3. ls[i].to \in Nat /\ ls[1].from \in Nat
          BY <1>1, <1>2, <4>2, LineSize
        <4>4. h[i] = ls[i].to - ls[1].from + 1
          BY <1>6, <3>2
        <4>5. Size(ls[i + 1]) = ls[i + 1].to - ls[i].to
          BY <2>3, <4>2, <4>3
        <4>6. h[i] + Size(ls[i + 1]) = ls[i + 1].to - ls[1].from + 1
          BY <2>3, <4>3, <4>4, <4>5
        <4> QED
          BY <2>4, <4>6
      <3> QED
        BY <3>1, <3>2
    <2> QED
      BY <2>1, <2>5
  <1>7. \A i \in 0..n : i \in T
    <2> HIDE DEF T
    <2> QED
      BY <1>1, <1>5, <1>6, Induction
  <1>8. Held(ls) = ls[n].to - ls[1].from + 1
    <2>1. n \in 0..n /\ n # 0
      BY <1>1
    <2> QED
      BY <1>4, <1>7, <2>1
  <1>9. Held(ls) \in 0..MaxAppended
    <2>1. h[n] \in Nat
      BY <1>1, <1>4
    <2>2. ls[n].to \in Nat /\ ls[n].to <= MaxAppended /\ ls[1].from \in Nat /\ ls[1].from >= 1
      BY <1>1, <1>2, LineSize
    <2> QED
      BY <1>4, <1>8, <2>1, <2>2, Sizes
  <1> QED
    BY <1>1, <1>2, <1>8, <1>9 DEF n

-----------------------------------------------------------------------------
(* Lines that follow one another, all but the last of which are complete.    *)

Chain(ls) ==
  /\ ls \in Seq(Line) /\ ls # <<>> /\ Follow(ls)
  /\ \A k \in 1..(Len(ls) - 1) : ls[k].newline

\* Its ends are lines.
LEMMA ChainEnds ==
  ASSUME NEW ls, Chain(ls)
  PROVE  /\ ls \in Seq(Line) /\ Len(ls) \in Nat /\ Len(ls) >= 1
         /\ \A k \in 1..Len(ls) : ls[k] \in Line
         /\ ls[1] \in Line /\ ls[Len(ls)] \in Line
  BY LenProperties, EmptySeq, ElementOfSeq DEF Chain

\* One line is such a chain,
LEMMA ChainOne ==
  ASSUME NEW line \in Line
  PROVE  Chain(<<line>>) /\ Len(<<line>>) = 1 /\ <<line>>[1] = line
  <1> DEFINE s == <<line>>
  <1>1. s \in Seq(Line) /\ Len(s) = 1 /\ s[1] = line /\ s # <<>>
    OBVIOUS
  <1> HIDE DEF s
  <1>2. 1..(Len(s) - 1) = {}
    BY <1>1
  <1>3. Chain(s)
    BY <1>1, <1>2 DEF Chain, Follow
  <1> QED
    BY <1>1, <1>3 DEF s

\* two are when the second goes on where the first, complete, ends,
LEMMA ChainJoin ==
  ASSUME NEW s, NEW t, Chain(s), Chain(t),
         s[Len(s)].newline, t[1].from = s[Len(s)].to + 1
  PROVE  /\ Chain(s \o t)
         /\ (s \o t)[1] = s[1]
         /\ (s \o t)[Len(s \o t)] = t[Len(t)]
  <1> DEFINE u == s \o t
             m == Len(s)
             n == Len(t)
  <1>1. /\ s \in Seq(Line) /\ t \in Seq(Line)
        /\ m \in Nat /\ m >= 1 /\ n \in Nat /\ n >= 1
    BY ChainEnds
  <1>2. /\ u \in Seq(Line) /\ Len(u) = m + n
        /\ \A i \in 1..(m + n) : u[i] = IF i <= m THEN s[i] ELSE t[i - m]
    BY <1>1, ConcatProperties
  <1>3. /\ \A k \in 1..(m - 1) : s[k].newline /\ s[k + 1].from = s[k].to + 1
        /\ \A k \in 1..(n - 1) : t[k].newline /\ t[k + 1].from = t[k].to + 1
        /\ s[m].newline /\ t[1].from = s[m].to + 1
    BY DEF Chain, Follow
  <1> HIDE DEF u, m, n
  <1>4. u[1] = s[1] /\ u[m + n] = t[n] /\ u # <<>>
    <2>1. /\ 1 \in 1..(m + n) /\ m + n \in 1..(m + n) /\ 1 <= m /\ ~(m + n <= m)
          /\ (m + n) - m = n /\ m + n # 0
      BY <1>1
    <2>2. u[1] = s[1] /\ u[m + n] = t[n]
      BY <1>2, <2>1
    <2>3. u # <<>>
      BY <1>2, <2>1, EmptySeq
    <2> QED
      BY <2>2, <2>3
  <1>5. ASSUME NEW k \in 1..((m + n) - 1)
        PROVE  u[k].newline /\ u[k + 1].from = u[k].to + 1
    <2>1. k \in 1..(m + n) /\ k + 1 \in 1..(m + n) /\ k \in Nat
      BY <1>1
    <2>2. CASE k < m
      <3>1. k \in 1..(m - 1) /\ k <= m /\ k + 1 <= m
        BY <1>1, <2>2, <2>1
      <3>2. u[k] = s[k] /\ u[k + 1] = s[k + 1]
        BY <1>2, <2>1, <3>1
      <3> QED
        BY <1>3, <3>1, <3>2
    <2>3. CASE k = m
      <3>1. k <= m /\ ~(k + 1 <= m) /\ (k + 1) - m = 1
        BY <1>1, <2>3
      <3>2. u[k] = s[m] /\ u[k + 1] = t[1]
        BY <1>2, <2>1, <2>3, <3>1
      <3> QED
        BY <1>3, <3>2
    <2>4. CASE k > m
      <3>1. k - m \in 1..(n - 1) /\ ~(k <= m) /\ ~(k + 1 <= m) /\ (k + 1) - m = (k - m) + 1
        BY <1>1, <2>1, <2>4
      <3>2. u[k] = t[k - m] /\ u[k + 1] = t[(k - m) + 1]
        BY <1>2, <2>1, <3>1
      <3> QED
        BY <1>3, <3>1, <3>2
    <2> QED
      BY <1>1, <2>1, <2>2, <2>3, <2>4
  <1>6. Chain(u)
    BY <1>2, <1>4, <1>5 DEF Chain, Follow
  <1> QED
    BY <1>2, <1>4, <1>6 DEF u, m, n

\* so is one whose last line is replaced by one from the same place,
LEMMA ChainExtend ==
  ASSUME NEW s, Chain(s), NEW line \in Line, line.from = s[Len(s)].from
  PROVE  /\ Chain([s EXCEPT ![Len(s)] = line])
         /\ [s EXCEPT ![Len(s)] = line][1].from = s[1].from
         /\ Len([s EXCEPT ![Len(s)] = line]) = Len(s)
         /\ [s EXCEPT ![Len(s)] = line][Len(s)] = line
  <1> DEFINE n == Len(s)
             u == [s EXCEPT ![n] = line]
  <1>1. s \in Seq(Line) /\ n \in Nat /\ n >= 1 /\ n \in 1..n
    BY ChainEnds
  <1>2. /\ u \in Seq(Line) /\ Len(u) = n
        /\ \A j \in 1..n : u[j] = IF j = n THEN line ELSE s[j]
    BY <1>1, ExceptSeq
  <1>3. \A k \in 1..(n - 1) : s[k].newline /\ s[k + 1].from = s[k].to + 1
    BY DEF Chain, Follow
  <1> HIDE DEF u, n
  <1>4. ASSUME NEW k \in 1..(n - 1)
        PROVE  u[k].newline /\ u[k + 1].from = u[k].to + 1
    <2>1. k \in 1..n /\ k + 1 \in 1..n /\ k # n
      BY <1>1
    <2>2. u[k] = s[k] /\ u[k + 1].from = s[k + 1].from
      BY <1>2, <2>1 DEF n
    <2> QED
      BY <1>3, <2>2
  <1>5. Chain(u)
    <2>1. u # <<>>
      BY <1>1, <1>2, EmptySeq
    <2> QED
      BY <1>2, <1>4, <2>1 DEF Chain, Follow
  <1>6. u[n] = line /\ u[1].from = s[1].from
    <2>1. 1 \in 1..n
      BY <1>1
    <2> QED
      BY <1>1, <1>2, <2>1 DEF n
  <1> QED
    BY <1>2, <1>5, <1>6 DEF u, n

\* and what is left of one without its first line.
LEMMA ChainTail ==
  ASSUME NEW s, Chain(s)
  PROVE  /\ Tail(s) \in Seq(Line) /\ Len(Tail(s)) = Len(s) - 1 /\ Head(s) = s[1]
         /\ Tail(s) # <<>> =>
              /\ Chain(Tail(s)) /\ Tail(s)[Len(Tail(s))] = s[Len(s)]
              /\ Tail(s)[1].from = s[1].to + 1
  <1> DEFINE n == Len(s)
             u == Tail(s)
  <1>1. s \in Seq(Line) /\ n \in Nat /\ n >= 1 /\ Head(s) = s[1] /\ s # <<>>
    BY ChainEnds DEF Chain
  <1>2. /\ u \in Seq(Line) /\ Len(u) = n - 1
        /\ \A i \in 1..(n - 1) : u[i] = s[i + 1]
    BY <1>1, HeadTailProperties
  <1>3. \A k \in 1..(n - 1) : s[k].newline /\ s[k + 1].from = s[k].to + 1
    BY DEF Chain, Follow
  <1> HIDE DEF u, n
  <1>4. ASSUME u # <<>>
        PROVE  Chain(u) /\ u[Len(u)] = s[n] /\ u[1].from = s[1].to + 1
    <2>1. n - 1 \in 1..(n - 1) /\ 1 \in 1..(n - 1) /\ (n - 1) + 1 = n /\ 1 + 1 \in 1..n
      BY <1>1, <1>2, <1>4, EmptySeq
    <2>2. ASSUME NEW k \in 1..((n - 1) - 1)
          PROVE  u[k].newline /\ u[k + 1].from = u[k].to + 1
      <3>1. k \in 1..(n - 1) /\ k + 1 \in 1..(n - 1)
        BY <1>1
      <3>2. u[k] = s[k + 1] /\ u[k + 1] = s[(k + 1) + 1]
        BY <1>2, <3>1
      <3> QED
        BY <1>3, <3>1, <3>2
    <2>3. u[1] = s[1 + 1] /\ s[1 + 1].from = s[1].to + 1
      BY <1>2, <1>3, <2>1
    <2>4. u[n - 1] = s[n]
      BY <1>2, <2>1
    <2>5. Chain(u)
      BY <1>2, <1>4, <2>2 DEF Chain, Follow
    <2> QED
      BY <1>2, <2>3, <2>4, <2>5
  <1> QED
    BY <1>1, <1>2, <1>4 DEF u, n

-----------------------------------------------------------------------------
(* What append makes of the bytes of a chunk.                                *)

\* The parts of a chunk.
LEMMA ChunkFacts ==
  ASSUME NEW chunk \in Chunks
  PROVE  /\ chunk.n \in Nat /\ chunk.n >= 1 /\ chunk.n <= MaxChunk
         /\ chunk.newlines \in SUBSET (1..chunk.n)
  BY Sizes DEF Chunks

\* The line a byte at place i begins, and what becomes of the line it prolongs.
ByteLine(chunk, i) ==
  [from |-> appended + i, to |-> appended + i, newline |-> i \in chunk.newlines]
ByteAdded(chunk, line, i) ==
  [line EXCEPT !.to = appended + i, !.newline = i \in chunk.newlines]

\* One byte more.
Grown(chunk, start, s, i) ==
  IF i <= start THEN <<>>
  ELSE IF i - 1 \in chunk.newlines \cup {start} THEN Append(s, ByteLine(chunk, i))
       ELSE [s EXCEPT ![Len(s)] = ByteAdded(chunk, @, i)]

\* What the lines of the first i bytes are.
UpTo(chunk, start, s, i) ==
  /\ i <= start => s = <<>>
  /\ i > start =>
       /\ Chain(s)
       /\ s[1].from = appended + start + 1
       /\ s[Len(s)].from > appended + start
       /\ s[Len(s)].to = appended + i
       /\ s[Len(s)].newline <=> i \in chunk.newlines

\* A line that is begun or prolonged is a line up to the byte.
LEMMA ByteLines ==
  ASSUME NEW chunk \in Chunks, appended \in Nat, appended + chunk.n <= MaxAppended,
         NEW i \in 1..chunk.n
  PROVE  /\ ByteLine(chunk, i) \in Line
         /\ ByteLine(chunk, i).from = appended + i
         /\ ByteLine(chunk, i).to = appended + i
         /\ ByteLine(chunk, i).newline <=> i \in chunk.newlines
         /\ \A line \in Line : line.to = appended + i - 1 =>
              /\ ByteAdded(chunk, line, i) \in Line
              /\ ByteAdded(chunk, line, i).from = line.from
              /\ ByteAdded(chunk, line, i).to = appended + i
              /\ ByteAdded(chunk, line, i).newline <=> i \in chunk.newlines
  <1> DEFINE nl == i \in chunk.newlines
  <1>1. nl \in BOOLEAN /\ appended + i \in 1..MaxAppended /\ appended + i \in Nat
    BY ChunkFacts, Sizes
  <1>2. ByteLine(chunk, i) = [from |-> appended + i, to |-> appended + i, newline |-> nl]
    BY DEF ByteLine
  <1>3. ASSUME NEW line
        PROVE  ByteAdded(chunk, line, i) = [line EXCEPT !.to = appended + i, !.newline = nl]
    BY DEF ByteAdded
  <1> HIDE DEF nl
  <1>4. /\ ByteLine(chunk, i) \in Line
        /\ ByteLine(chunk, i).from = appended + i
        /\ ByteLine(chunk, i).to = appended + i
        /\ ByteLine(chunk, i).newline = nl
    BY <1>1, <1>2, Sizes DEF Line
  <1>5. ASSUME NEW line \in Line, line.to = appended + i - 1
        PROVE  /\ ByteAdded(chunk, line, i) \in Line
               /\ ByteAdded(chunk, line, i).from = line.from
               /\ ByteAdded(chunk, line, i).to = appended + i
               /\ ByteAdded(chunk, line, i).newline = nl
    <2>1. /\ line \in [from : 1..MaxAppended, to : 1..MaxAppended, newline : BOOLEAN]
          /\ line.from <= line.to /\ line.from \in Nat /\ line.to \in Nat
      BY LineSize DEF Line
    <2> DEFINE e == [line EXCEPT !.to = appended + i, !.newline = nl]
    <2>2. /\ e \in [from : 1..MaxAppended, to : 1..MaxAppended, newline : BOOLEAN]
          /\ e.from = line.from /\ e.to = appended + i /\ e.newline = nl
      BY <1>1, <2>1
    <2>3. e.from <= e.to
      BY <1>1, <1>5, <2>1, <2>2
    <2>4. e \in Line
      BY <2>2, <2>3 DEF Line
    <2>5. ByteAdded(chunk, line, i) = e
      BY <1>3
    <2> HIDE DEF e
    <2> QED
      BY <2>2, <2>4, <2>5
  <1> QED
    BY <1>4, <1>5 DEF nl

\* A byte more is a byte further.
LEMMA GrownUpTo ==
  ASSUME NEW chunk \in Chunks, appended \in Nat, appended + chunk.n <= MaxAppended,
         NEW start \in 0..chunk.n, NEW i \in 1..chunk.n, NEW s,
         UpTo(chunk, start, s, i - 1)
  PROVE  UpTo(chunk, start, Grown(chunk, start, s, i), i)
  <1>1. /\ chunk.n \in Nat /\ start \in Nat /\ i \in Nat
    BY ChunkFacts
  <1>2. CASE i <= start
    BY <1>1, <1>2 DEF UpTo, Grown
  <1>3. CASE i > start
    <2>1. i - 1 >= start
      BY <1>1, <1>3
    <2>2. CASE i - 1 = start
      <3>1. s = <<>>
        BY <1>1, <2>2 DEF UpTo
      <3> DEFINE line == ByteLine(chunk, i)
      <3>2. line \in Line
        BY ByteLines
      <3>3. Grown(chunk, start, s, i) = Append(s, line)
        BY <1>1, <1>3, <2>2 DEF Grown
      <3> DEFINE u == <<line>>
      <3>4. Append(s, line) = u
        BY <3>1
      <3>5. /\ line.from = appended + i /\ line.to = appended + i
            /\ line.newline <=> i \in chunk.newlines
        BY ByteLines
      <3> HIDE DEF line
      <3>6. Chain(u) /\ Len(u) = 1 /\ u[1] = line
        BY <3>2, ChainOne
      <3> HIDE DEF u
      <3>7. line.from = appended + start + 1 /\ line.from > appended + start
        BY <1>1, <2>2, <3>5
      <3> QED
        BY <1>1, <1>3, <3>3, <3>4, <3>5, <3>6, <3>7 DEF UpTo
    <2>3. CASE i - 1 # start
      <3>1. i - 1 > start /\ ~(i <= start)
        BY <1>1, <2>1, <2>3
      <3>2. /\ Chain(s)
            /\ s[1].from = appended + start + 1
            /\ s[Len(s)].from > appended + start
            /\ s[Len(s)].to = appended + (i - 1)
            /\ s[Len(s)].newline <=> i - 1 \in chunk.newlines
        BY <3>1 DEF UpTo
      <3>3. /\ s \in Seq(Line) /\ Len(s) \in Nat /\ s[Len(s)] \in Line
        BY <3>2, ChainEnds
      <3>4. CASE i - 1 \in chunk.newlines
        <4> DEFINE line == ByteLine(chunk, i)
                   t == <<line>>
        <4>1. line \in Line /\ line.from = appended + i /\ line.to = appended + i
          BY ByteLines
        <4>2. line.newline <=> i \in chunk.newlines
          BY ByteLines
        <4>3. Grown(chunk, start, s, i) = Append(s, line)
          BY <3>1, <3>4 DEF Grown
        <4> HIDE DEF line
        <4>4. Append(s, line) = s \o t
          BY <3>3, <4>1, AppendIsConcat
        <4>5. Chain(t) /\ Len(t) = 1 /\ t[1] = line
          BY <4>1, ChainOne
        <4> HIDE DEF t
        <4>6. s[Len(s)].newline /\ t[1].from = s[Len(s)].to + 1
          BY <1>1, <3>2, <3>4, <4>1, <4>5
        <4> DEFINE u == s \o t
        <4>7. Chain(u) /\ u[1] = s[1] /\ u[Len(u)] = line
          <5>1. Chain(s) /\ Chain(t) /\ t[Len(t)] = line
            BY <3>2, <4>5
          <5>2. Chain(s \o t) /\ (s \o t)[1] = s[1] /\ (s \o t)[Len(s \o t)] = t[Len(t)]
            BY <4>6, <5>1, ChainJoin
          <5> QED
            BY <5>1, <5>2
        <4>8. Grown(chunk, start, s, i) = u
          BY <4>3, <4>4
        <4> HIDE DEF u
        <4>9. line.from > appended + start
          BY <1>1, <1>3, <4>1
        <4> QED
          BY <3>1, <3>2, <4>1, <4>2, <4>7, <4>8, <4>9 DEF UpTo
      <3>5. CASE i - 1 \notin chunk.newlines
        <4> DEFINE n == Len(s)
                   line == ByteAdded(chunk, s[n], i)
                   u == [s EXCEPT ![n] = line]
        <4>1. s[n].to = appended + i - 1
          BY <1>1, <3>2
        <4>2. line \in Line /\ line.from = s[n].from /\ line.to = appended + i
          BY <3>3, <4>1, ByteLines
        <4>3. line.newline <=> i \in chunk.newlines
          BY <3>3, <4>1, ByteLines
        <4>4. Grown(chunk, start, s, i) = u
          BY <2>3, <3>1, <3>5 DEF Grown
        <4> HIDE DEF line
        <4>5. Chain(u) /\ u[1].from = s[1].from /\ Len(u) = n /\ u[n] = line
          BY <3>2, <4>2, ChainExtend
        <4> HIDE DEF u, n
        <4>6. line.from > appended + start
          BY <3>2, <4>2 DEF n
        <4> QED
          BY <3>1, <3>2, <4>2, <4>3, <4>4, <4>5, <4>6 DEF UpTo
      <3> QED
        BY <3>4, <3>5
    <2> QED
      BY <2>2, <2>3
  <1> QED
    BY <1>1, <1>2, <1>3

\* They are lines in any case.
LEMMA UpToIsSeq ==
  ASSUME NEW chunk, NEW start \in Nat, NEW i \in Nat, NEW s, UpTo(chunk, start, s, i)
  PROVE  s \in Seq(Line)
  <1>1. CASE i <= start
    BY <1>1, EmptySeq DEF UpTo
  <1>2. CASE i > start
    BY <1>2 DEF UpTo, Chain
  <1> QED
    BY <1>1, <1>2

\* What Split returns are the lines of the whole chunk.
LEMMA SplitLines ==
  ASSUME NEW chunk \in Chunks, NEW start \in 0..chunk.n,
         appended \in Nat, appended + chunk.n <= MaxAppended
  PROVE  UpTo(chunk, start, Split(chunk, start), chunk.n)
  <1> DEFINE n == chunk.n
             G(s, i) == Grown(chunk, start, s, i)
             U(s, i) == UpTo(chunk, start, s, i)
             Built(e) == e = [i \in 0..n |-> G(e[i - 1], i)]
             X == Seq(Line)
             none == <<>>
             g == [i \in 1..n |-> [s \in X |-> IF G(s, i) \in X THEN G(s, i) ELSE none]]
  <1>0. n \in Nat /\ start \in Nat /\ none \in X
    BY ChunkFacts, EmptySeq
  <1>1. Split(chunk, start) = (CHOOSE e : Built(e))[n]
    BY DEF Split, LinesOf, Grown, ByteLine, ByteAdded
  <1>2. ASSUME NEW s
        PROVE  G(s, 0) = none /\ U(none, 0)
    BY <1>0 DEF Grown, UpTo
  <1>3. ASSUME NEW i \in 1..n, NEW s, U(s, i - 1)
        PROVE  U(G(s, i), i) /\ G(s, i) \in X
    <2>1. U(G(s, i), i)
      BY <1>3, GrownUpTo
    <2> HIDE DEF G
    <2>2. i \in Nat
      BY <1>0
    <2> QED
      BY <1>0, <2>1, <2>2, UpToIsSeq
  <1> HIDE DEF n, G, U, X, none
  <1>4. g \in [1..n -> [X -> X]]
    BY <1>0
  <1>5. PICK f \in [0..n -> X] : f[0] = none /\ \A i \in 1..n : f[i] = g[i][f[i - 1]]
    <2> HIDE DEF g
    <2>1. \E f \in [0..n -> X] : Iterated(f, none, n, g)
      BY <1>0, <1>4, Iterate
    <2> QED
      BY <2>1 DEF Iterated
  <1>6. \A i \in 0..n : U(f[i], i)
    <2> DEFINE T == {i \in 0..n : U(f[i], i)}
    <2>1. 0 \in T
      BY <1>0, <1>2, <1>5
    <2>2. ASSUME NEW i \in 0..(n - 1), i \in T
          PROVE  i + 1 \in T
      <3>1. i + 1 \in 1..n /\ i + 1 \in 0..n /\ (i + 1) - 1 = i /\ i \in 0..n
        BY <1>0
      <3>2. U(f[i], i) /\ f[i] \in X
        BY <1>5, <2>2, <3>1
      <3>3. U(G(f[i], i + 1), i + 1) /\ G(f[i], i + 1) \in X
        BY <1>3, <3>1, <3>2
      <3>4. g[i + 1][f[i]] = G(f[i], i + 1)
        BY <3>1, <3>2, <3>3
      <3> HIDE DEF g
      <3>5. f[i + 1] = G(f[i], i + 1)
        BY <1>5, <3>1, <3>4
      <3> QED
        BY <3>1, <3>3, <3>5
    <2> HIDE DEF T
    <2>3. \A i \in 0..n : i \in T
      <3>1. \A i \in 0..(n - 1) : i \in T => i + 1 \in T
        BY <2>2
      <3> QED
        BY <1>0, <2>1, <3>1, Induction
    <2> QED
      BY <2>3 DEF T
  <1>7. Built(f)
    <2>1. f = [i \in 0..n |-> f[i]]
      BY <1>5
    <2>2. ASSUME NEW i \in 0..n
          PROVE  f[i] = G(f[i - 1], i)
      <3>1. CASE i = 0
        BY <1>2, <1>5, <3>1
      <3>2. CASE i # 0
        <4>1. i \in 1..n /\ i - 1 \in 0..n
          BY <1>0, <3>2
        <4>2. U(f[i - 1], i - 1) /\ f[i - 1] \in X
          BY <1>5, <1>6, <4>1
        <4>3. G(f[i - 1], i) \in X
          BY <1>3, <4>1, <4>2
        <4>4. g[i][f[i - 1]] = G(f[i - 1], i)
          BY <4>1, <4>2, <4>3
        <4> HIDE DEF g
        <4> QED
          BY <1>5, <4>1, <4>4
      <3> QED
        BY <3>1, <3>2
    <2> QED
      BY <2>1, <2>2
  <1> DEFINE h == CHOOSE e : Built(e)
  <1>8. Built(h)
    <2> HIDE DEF Built
    <2> QED
      BY <1>7
  <1>9. Split(chunk, start) = h[n]
    BY <1>1
  <1> HIDE DEF h
  <1>10. \A i \in 0..n : U(h[i], i)
    <2> DEFINE T == {i \in 0..n : U(h[i], i)}
    <2>1. 0 \in T
      <3>1. 0 \in 0..n
        BY <1>0
      <3>2. h[0] = G(h[0 - 1], 0)
        BY <1>8, <3>1
      <3> QED
        BY <1>2, <3>1, <3>2
    <2>2. ASSUME NEW i \in 0..(n - 1), i \in T
          PROVE  i + 1 \in T
      <3>1. i + 1 \in 1..n /\ i + 1 \in 0..n /\ (i + 1) - 1 = i
        BY <1>0
      <3>2. h[i + 1] = G(h[(i + 1) - 1], i + 1)
        BY <1>8, <3>1
      <3>3. U(h[i], i)
        BY <2>2
      <3>4. U(G(h[i], i + 1), i + 1)
        BY <1>3, <3>1, <3>3
      <3>5. h[i + 1] = G(h[i], i + 1)
        BY <3>1, <3>2
      <3> QED
        BY <3>1, <3>4, <3>5
    <2> HIDE DEF T
    <2>3. \A i \in 0..n : i \in T
      <3>1. \A i \in 0..(n - 1) : i \in T => i + 1 \in T
        BY <2>2
      <3> QED
        BY <1>0, <2>1, <3>1, Induction
    <2> QED
      BY <2>3 DEF T
  <1>11. U(Split(chunk, start), n)
    BY <1>0, <1>9, <1>10
  <1> QED
    BY <1>11 DEF U, n

-----------------------------------------------------------------------------
(* What is held, when lines are added, prolonged and dropped.                *)

\* They hold what lies between their ends.
LEMMA HeldChain ==
  ASSUME NEW s, Chain(s)
  PROVE  Held(s) = s[Len(s)].to - s[1].from + 1 /\ Held(s) \in 0..MaxAppended
  BY HeldSpan DEF Chain

\* Joined, they hold what both hold,
LEMMA HeldJoin ==
  ASSUME NEW s, NEW t, Chain(s), Chain(t),
         s[Len(s)].newline, t[1].from = s[Len(s)].to + 1
  PROVE  Held(s \o t) = Held(s) + Held(t)
  <1> DEFINE u == s \o t
             a == s[1].from
             b == s[Len(s)].to
             c == t[Len(t)].to
  <1>1. Chain(u) /\ u[1] = s[1] /\ u[Len(u)] = t[Len(t)]
    BY ChainJoin
  <1>2. Held(s) = b - a + 1 /\ Held(t) = c - (b + 1) + 1
    BY HeldChain
  <1>3. Held(u) = c - a + 1
    BY <1>1, HeldChain
  <1>4. a \in Nat /\ b \in Nat /\ c \in Nat
    BY ChainEnds, LineSize
  <1> HIDE DEF a, b, c
  <1> QED
    BY <1>2, <1>3, <1>4

\* with the last one longer, so much more,
LEMMA HeldExtend ==
  ASSUME NEW s, Chain(s), NEW line \in Line, line.from = s[Len(s)].from
  PROVE  Held([s EXCEPT ![Len(s)] = line]) = Held(s) + (line.to - s[Len(s)].to)
  <1> DEFINE u == [s EXCEPT ![Len(s)] = line]
             a == s[1].from
             b == s[Len(s)].to
             c == line.to
  <1>1. Chain(u) /\ u[1].from = a /\ u[Len(u)] = line
    BY ChainExtend
  <1>2. Held(s) = b - a + 1
    BY HeldChain
  <1> HIDE DEF u
  <1>3. Held(u) = c - a + 1
    BY <1>1, HeldChain
  <1>4. a \in Nat /\ b \in Nat /\ c \in Nat
    BY ChainEnds, LineSize
  <1>5. Held(u) = Held(s) + (c - b)
    <2> HIDE DEF a, b, c
    <2> QED
      BY <1>2, <1>3, <1>4
  <1> QED
    BY <1>5 DEF u

\* and without the first, what that one does not.
LEMMA HeldTail ==
  ASSUME NEW s, Chain(s)
  PROVE  Held(Tail(s)) = Held(s) - Size(Head(s)) /\ Size(Head(s)) \in 1..Held(s)
  <1> DEFINE u == Tail(s)
             a == s[1].from
             b == s[1].to
             c == s[Len(s)].to
  <1>1. /\ Head(s) = s[1] /\ s[1] \in Line /\ u \in Seq(Line) /\ Len(u) = Len(s) - 1
        /\ Len(s) \in Nat
        /\ u # <<>> => Chain(u) /\ u[Len(u)] = s[Len(s)] /\ u[1].from = b + 1
    BY ChainTail, ChainEnds
  <1>2. Held(s) = c - a + 1
    BY HeldChain
  <1>3. a \in Nat /\ b \in Nat /\ c \in Nat /\ Size(Head(s)) = b - a + 1 /\ a <= b
    BY <1>1, ChainEnds, LineSize
  <1> HIDE DEF u
  <1>4. CASE u = <<>>
    <2>1. Len(s) = 1
      BY <1>1, <1>4, EmptySeq
    <2>2. c = b
      BY <2>1
    <2>3. Held(u) = 0
      BY <1>4, HeldEmpty
    <2> HIDE DEF a, b, c
    <2> QED
      BY <1>2, <1>3, <2>2, <2>3 DEF u
  <1>5. CASE u # <<>>
    <2>1. Held(u) = c - (b + 1) + 1 /\ Held(u) \in Nat
      BY <1>1, <1>5, HeldChain, Sizes
    <2> HIDE DEF a, b, c
    <2> QED
      BY <1>2, <1>3, <2>1 DEF u
  <1> QED
    BY <1>4, <1>5

-----------------------------------------------------------------------------
(* Numbers modulo w.                                                         *)

\* The remainder, where one subtraction or addition is enough.
LEMMA Modulo ==
  ASSUME NEW w \in Nat, NEW x \in Int, w > 0
  PROVE  /\ x % w \in 0..(w - 1)
         /\ x \in 0..(w - 1) => x % w = x
         /\ x \in w..(w + w - 1) => x % w = x - w
         /\ x \in (-w)..(-1) => x % w = x + w
  <1>1. x % w \in 0..(w - 1)
    OBVIOUS
  <1>2. x \in 0..(w - 1) => x % w = x
    OBVIOUS
  <1>3. x \in w..(w + w - 1) => x % w = x - w
    OBVIOUS
  <1>4. x \in (-w)..(-1) => x % w = x + w
    OBVIOUS
  <1> QED
    BY <1>1, <1>2, <1>3, <1>4

\* A size that is right but for a wrap stays so when bytes are added,
LEMMA AddDrift ==
  ASSUME NEW w \in Nat, NEW t \in 0..(w - 1), NEW c \in Nat, NEW h \in Nat, NEW d \in Nat,
         h + d < w, t + c \in {h, h + w}
  PROVE  (t + d) % w \in 0..(w - 1) /\ ((t + d) % w) + c \in {h + d, h + d + w}
  <1>1. w > 0 /\ t + d \in Int /\ t \in Nat
    OBVIOUS
  <1>2. CASE t + d < w
    <2>1. (t + d) % w = t + d
      BY <1>1, <1>2, Modulo
    <2> QED
      BY <1>1, <1>2, <2>1
  <1>3. CASE t + d >= w
    <2>1. t + d \in w..(w + w - 1)
      BY <1>1, <1>3
    <2>2. (t + d) % w = t + d - w
      BY <1>1, <2>1, Modulo
    <2>3. t + c = h + w
      BY <1>1, <1>3
    <2> QED
      BY <1>1, <1>3, <2>1, <2>2, <2>3
  <1> QED
    BY <1>1, <1>2, <1>3

\* and when bytes are taken off.
LEMMA LessDrift ==
  ASSUME NEW w \in Nat, NEW t \in 0..(w - 1), NEW c \in 0..(w - 1), NEW h \in 0..(w - 1),
         NEW d \in 0..h, t + c \in {h, h + w}
  PROVE  (t - d) % w \in 0..(w - 1) /\ ((t - d) % w) + c \in {h - d, h - d + w}
  <1>1. w > 0 /\ t - d \in Int /\ t \in Nat /\ d \in Nat
    OBVIOUS
  <1>2. CASE t - d >= 0
    <2>1. (t - d) % w = t - d
      BY <1>1, <1>2, Modulo
    <2> QED
      BY <1>1, <1>2, <2>1
  <1>3. CASE t - d < 0
    <2>1. t - d \in (-w)..(-1)
      BY <1>1, <1>3
    <2>2. (t - d) % w = t - d + w
      BY <1>1, <2>1, Modulo
    <2>3. t + c = h
      BY <1>1, <1>3
    <2> QED
      BY <1>1, <1>3, <2>1, <2>2, <2>3
  <1> QED
    BY <1>1, <1>2, <1>3

-----------------------------------------------------------------------------
(* The inductive invariant.                                                  *)

\* Lines that end where the output does, with the flag that fits the last one.
Good(ls, incomplete, end) ==
  /\ ls \in Seq(Line)
  /\ ls # <<>> =>
       /\ Chain(ls)
       /\ ls[Len(ls)].to = end
       /\ incomplete <=> ~ls[Len(ls)].newline

\* That is what the flag and the end of the output promise,
LEMMA GoodLines ==
  lines \in Seq(Line) /\ last_line_incomplete \in BOOLEAN =>
    ((FlagIsRight /\ HoldsTheEnd) <=> Good(lines, last_line_incomplete, appended))
  <1> SUFFICES ASSUME lines \in Seq(Line), last_line_incomplete \in BOOLEAN
               PROVE  (FlagIsRight /\ HoldsTheEnd) <=> Good(lines, last_line_incomplete, appended)
    OBVIOUS
  <1> DEFINE line == lines[Len(lines)]
  <1>1. CASE lines = <<>>
    BY <1>1 DEF FlagIsRight, HoldsTheEnd, Good
  <1>2. CASE lines # <<>>
    <2>1. line \in Line /\ line.newline \in BOOLEAN
      BY <1>2, LenProperties, EmptySeq, ElementOfSeq, LineSize
    <2>2. (last_line_incomplete = ~line.newline) <=> (last_line_incomplete <=> ~line.newline)
      <3> HIDE DEF line
      <3> QED
        BY <2>1, Zenon
    <2>3. HoldsTheEnd <=> line.to = appended /\ Follow(lines)
      BY <1>2 DEF HoldsTheEnd, Last
    <2>4. FlagIsRight <=> /\ last_line_incomplete <=> ~line.newline
                          /\ \A k \in 1..(Len(lines) - 1) : lines[k].newline
      <3>1. FlagIsRight <=> /\ last_line_incomplete = ~line.newline
                            /\ \A k \in 1..(Len(lines) - 1) : lines[k].newline
        BY <1>2 DEF FlagIsRight, Last
      <3> QED
        BY <2>2, <3>1
    <2>5. Chain(lines) <=> /\ Follow(lines)
                           /\ \A k \in 1..(Len(lines) - 1) : lines[k].newline
      BY <1>2 DEF Chain
    <2>6. Good(lines, last_line_incomplete, appended)
            <=> /\ Chain(lines) /\ line.to = appended
                /\ last_line_incomplete <=> ~line.newline
      BY <1>2 DEF Good
    <2> QED
      BY <2>3, <2>4, <2>5, <2>6
  <1> QED
    BY <1>1, <1>2

\* and after a step too.
LEMMA GoodLinesNext ==
  ASSUME lines' \in Seq(Line), last_line_incomplete' \in BOOLEAN
  PROVE  (FlagIsRight' /\ HoldsTheEnd') <=> Good(lines', last_line_incomplete', appended')
  <1>1. (lines \in Seq(Line) /\ last_line_incomplete \in BOOLEAN)' =>
           ((FlagIsRight /\ HoldsTheEnd) <=> Good(lines, last_line_incomplete, appended))'
    BY GoodLines, PTL
  <1> QED
    BY <1>1

\* They hold no more than was appended.
LEMMA HeldBound ==
  ASSUME NEW ls, NEW incomplete, NEW end, Good(ls, incomplete, end)
  PROVE  Held(ls) \in 0..MaxAppended
  <1>1. CASE ls = <<>>
    BY <1>1, HeldEmpty, Sizes
  <1>2. CASE ls # <<>>
    BY <1>2, HeldChain DEF Good
  <1> QED
    BY <1>1, <1>2

\* The width has room for what is held beyond the limit.
LEMMA WidthBound ==
  /\ Width \in Nat /\ MaxAppended \in Nat /\ MaxSize \in Nat /\ MaxChunk \in Nat
  /\ Width > MaxSize + MaxAppended /\ Width > MaxAppended /\ MaxChunk <= MaxSize
  BY Sizes, WidthFits, ChunkFits

\* IncompleteIsKept, of any lines.
Kept(p, ls, incomplete, total, c) ==
  incomplete => IF ls = <<>> THEN p = "trim" /\ total + c = Width
                ELSE p = "trim" => Size(ls[Len(ls)]) <= MaxChunk

\* The invariant, with what it says of the lines in one part.
Parts ==
  /\ pc \in {"append", "trim"} /\ last_line_incomplete \in BOOLEAN
  /\ total_size \in 0..(Width - 1) /\ appended \in 0..MaxAppended /\ completing \in 0..appended
  /\ Good(lines, last_line_incomplete, appended)
  /\ total_size + completing \in {Held(lines), Held(lines) + Width}
  /\ Kept(pc, lines, last_line_incomplete, total_size, completing)

\* The invariant is those parts,
LEMMA BufferParts == BufferIInv <=> Parts
  <1>1. IncompleteIsKept <=> Kept(pc, lines, last_line_incomplete, total_size, completing)
    BY DEF IncompleteIsKept, Kept, Last
  <1>2. Drift <=> total_size + completing \in {Held(lines), Held(lines) + Width}
    BY DEF Drift
  <1>3. BufferIInv <=> /\ BufferTypeOK /\ FlagIsRight /\ HoldsTheEnd
                       /\ total_size + completing \in {Held(lines), Held(lines) + Width}
                       /\ Kept(pc, lines, last_line_incomplete, total_size, completing)
    BY <1>1, <1>2 DEF BufferIInv, BufferInv
  <1>4. BufferTypeOK <=> /\ pc \in {"append", "trim"} /\ last_line_incomplete \in BOOLEAN
                         /\ total_size \in 0..(Width - 1) /\ appended \in 0..MaxAppended
                         /\ completing \in 0..appended /\ lines \in Seq(Line)
    BY DEF BufferTypeOK
  <1>5. Good(lines, last_line_incomplete, appended) => lines \in Seq(Line)
    BY DEF Good
  <1> QED
    BY <1>3, <1>4, <1>5, GoodLines DEF Parts

\* and after a step too.
LEMMA BufferPartsNext == BufferIInv' <=> Parts'
  BY BufferParts, PTL

\* A new buffer is in order.
LEMMA BufferStart == BufferInit => BufferIInv
  <1> SUFFICES ASSUME BufferInit
               PROVE  BufferIInv
    OBVIOUS
  <1>1. /\ pc = "append" /\ lines = <<>> /\ total_size = 0 /\ last_line_incomplete = FALSE
        /\ appended = 0 /\ completing = 0
    BY DEF BufferInit
  <1>2. Good(lines, last_line_incomplete, appended)
    BY <1>1, EmptySeq DEF Good
  <1>3. total_size + completing = Held(lines)
    BY <1>1, HeldEmpty
  <1>4. Kept(pc, lines, last_line_incomplete, total_size, completing)
    BY <1>1 DEF Kept
  <1>5. total_size \in 0..(Width - 1) /\ appended \in 0..MaxAppended /\ completing \in 0..appended
    BY <1>1, WidthBound
  <1> QED
    BY <1>1, <1>2, <1>3, <1>4, <1>5, BufferParts DEF Parts

\* The line that n bytes prolong.
LEMMA ExtendedLine ==
  ASSUME Chain(lines), lines[Len(lines)].to = appended, appended \in Nat,
         NEW n \in Nat, n >= 1, appended + n <= MaxAppended, NEW nl \in BOOLEAN
  PROVE  /\ Chain(Extended(n, nl))
         /\ LET u == Extended(n, nl) IN
            /\ Len(u) = Len(lines)
            /\ u[Len(u)].to = appended + n
            /\ u[Len(u)].newline = nl
            /\ Held(u) = Held(lines) + n
  <1> DEFINE m == Len(lines)
             old == lines[m]
             line == [old EXCEPT !.to = @ + n, !.newline = nl]
             u == [lines EXCEPT ![m] = line]
  <1>1. lines \in Seq(Line) /\ m \in 1..m /\ old \in Line /\ DOMAIN lines = 1..m
    BY ChainEnds, LenProperties
  <1>2. /\ old \in [from : 1..MaxAppended, to : 1..MaxAppended, newline : BOOLEAN]
        /\ old.from <= old.to /\ old.from \in Nat /\ old.to \in Nat
    BY <1>1, LineSize DEF Line
  <1>3. /\ line \in [from : 1..MaxAppended, to : 1..MaxAppended, newline : BOOLEAN]
        /\ line.from = old.from /\ line.to = appended + n /\ line.newline = nl
    <2>1. appended + n \in 1..MaxAppended /\ old.to = appended
      BY Sizes
    <2> HIDE DEF old
    <2> QED
      BY <1>2, <2>1
  <1>4. line \in Line
    <2>1. line.from <= line.to
      BY <1>2, <1>3
    <2> HIDE DEF line
    <2> QED
      BY <1>3, <2>1 DEF Line
  <1>5. Extended(n, nl) = u
    BY <1>1 DEF Extended
  <1> HIDE DEF line
  <1>6. Chain(u) /\ Len(u) = m /\ u[m] = line
    BY <1>3, <1>4, ChainExtend
  <1>7. Held(u) = Held(lines) + (line.to - old.to)
    BY <1>3, <1>4, HeldExtend
  <1>8. line.to - old.to = n
    BY <1>2, <1>3
  <1> HIDE DEF u
  <1> QED
    BY <1>3, <1>5, <1>6, <1>7, <1>8

\* A chunk without a newline prolongs the line that waits for one.
LEMMA ProlongStep ==
  ASSUME Parts, pc = "append", NEW chunk \in Chunks, appended + chunk.n <= MaxAppended,
         AppendProlong(chunk)
  PROVE  Parts'
  <1> DEFINE n == chunk.n
  <1>1. /\ n \in Nat /\ n >= 1 /\ appended \in Nat /\ completing \in Nat
        /\ last_line_incomplete = TRUE /\ lines # <<>>
        /\ pc' = pc /\ last_line_incomplete' = last_line_incomplete /\ completing' = completing
        /\ lines' = Extended(n, FALSE) /\ appended' = appended + n
        /\ total_size' = (total_size + n) % Width
    BY ChunkFacts, Sizes DEF AppendProlong, Prolonged, Parts
  <1>2. /\ Chain(lines) /\ lines[Len(lines)].to = appended
    BY <1>1 DEF Parts, Good
  <1>3. /\ Chain(lines') /\ lines'[Len(lines')].to = appended + n
        /\ lines'[Len(lines')].newline = FALSE
        /\ Held(lines') = Held(lines) + n
    BY <1>1, <1>2, ExtendedLine
  <1>4. Good(lines', last_line_incomplete', appended')
    BY <1>1, <1>3 DEF Good, Chain
  <1>5. Held(lines) \in Nat /\ Held(lines') \in 0..MaxAppended
    BY <1>2, <1>3, HeldChain, Sizes
  <1>6. /\ total_size' \in 0..(Width - 1)
        /\ total_size' + completing' \in {Held(lines'), Held(lines') + Width}
    <2>1. Held(lines) + n < Width
      BY <1>3, <1>5, WidthBound
    <2>2. /\ total_size \in 0..(Width - 1)
          /\ total_size + completing \in {Held(lines), Held(lines) + Width}
      BY DEF Parts
    <2>3. /\ (total_size + n) % Width \in 0..(Width - 1)
          /\ ((total_size + n) % Width) + completing \in {Held(lines) + n, Held(lines) + n + Width}
      BY <1>1, <1>5, <2>1, <2>2, WidthBound, AddDrift
    <2> HIDE DEF n
    <2> QED
      BY <1>1, <1>3, <2>3
  <1>7. Kept(pc', lines', last_line_incomplete', total_size', completing')
    <2>1. lines' # <<>> /\ pc' # "trim"
      BY <1>1, <1>3 DEF Chain
    <2> QED
      BY <2>1 DEF Kept
  <1>8. /\ appended' \in 0..MaxAppended /\ completing' \in 0..appended'
        /\ pc' \in {"append", "trim"} /\ last_line_incomplete' \in BOOLEAN
    BY <1>1, Sizes DEF Parts
  <1> QED
    BY <1>4, <1>6, <1>7, <1>8 DEF Parts

\* The lines behind what is already there.
LEMMA SplitFacts ==
  ASSUME NEW chunk \in Chunks, NEW start \in 0..chunk.n,
         appended \in Nat, appended + chunk.n <= MaxAppended
  PROVE  LET new == Split(chunk, start) IN
         /\ start = chunk.n => new = <<>>
         /\ start < chunk.n =>
              /\ Chain(new)
              /\ new[1].from = appended + start + 1
              /\ new[Len(new)].to = appended + chunk.n
              /\ Size(new[Len(new)]) <= MaxChunk
         /\ new \in Seq(Line)
         /\ Held(new) = chunk.n - start
  <1> DEFINE new == Split(chunk, start)
             n == chunk.n
  <1>1. n \in Nat /\ n <= MaxChunk /\ start \in Nat /\ start <= n
    BY ChunkFacts
  <1>2. UpTo(chunk, start, new, n)
    BY SplitLines
  <1> HIDE DEF new, n
  <1>3. CASE start = n
    <2>1. new = <<>>
      BY <1>1, <1>2, <1>3 DEF UpTo
    <2>2. Held(new) = 0 /\ new \in Seq(Line)
      BY <2>1, HeldEmpty, EmptySeq
    <2>3. n - start = 0 /\ ~(start < n)
      BY <1>1, <1>3
    <2> QED
      BY <1>3, <2>1, <2>2, <2>3 DEF new, n
  <1>4. CASE start < n
    <2> DEFINE line == new[Len(new)]
    <2>1. /\ Chain(new) /\ new[1].from = appended + start + 1
          /\ line.from > appended + start /\ line.to = appended + n
      BY <1>1, <1>2, <1>4 DEF UpTo
    <2>2. line \in Line /\ new \in Seq(Line)
      BY <2>1, ChainEnds
    <2> HIDE DEF line
    <2>3. /\ line.from \in Nat /\ line.to \in Nat /\ Size(line) = line.to - line.from + 1
      BY <2>2, LineSize
    <2>4. Size(line) <= MaxChunk
      BY <1>1, <2>1, <2>3, Sizes
    <2>5. Held(new) = n - start
      <3>1. Held(new) = line.to - new[1].from + 1
        BY <2>1, HeldChain DEF line
      <3> QED
        BY <1>1, <2>1, <3>1
    <2> QED
      BY <1>1, <1>4, <2>1, <2>2, <2>4, <2>5 DEF new, n, line
  <1> QED
    BY <1>1, <1>3, <1>4

\* The lines of a chunk behind complete ones, or behind none.
LEMMA JoinSplit ==
  ASSUME NEW chunk \in Chunks, NEW start \in 0..chunk.n,
         appended \in Nat, appended + chunk.n <= MaxAppended,
         NEW s, s \in Seq(Line), s = <<>> => start = 0,
         s # <<>> => Chain(s) /\ s[Len(s)].newline /\ s[Len(s)].to = appended + start
  PROVE  LET new == Split(chunk, start)
             u == s \o new
         IN /\ Good(u, IncompleteAfter(new), appended + chunk.n)
            /\ u # <<>>
            /\ Held(u) = Held(s) + Held(new)
            /\ IncompleteAfter(new) \in BOOLEAN
            /\ IncompleteAfter(new) => Size(u[Len(u)]) <= MaxChunk
  <1> DEFINE new == Split(chunk, start)
             u == s \o new
             n == chunk.n
             more == IncompleteAfter(new)
  <1>1. n \in Nat /\ n >= 1 /\ start \in Nat /\ start <= n
    BY ChunkFacts
  <1>2. /\ start = n => new = <<>>
        /\ start < n =>
              /\ Chain(new)
              /\ new[1].from = appended + start + 1
              /\ new[Len(new)].to = appended + n
              /\ Size(new[Len(new)]) <= MaxChunk
        /\ new \in Seq(Line)
    BY SplitFacts
  <1>3. more <=> new # <<>> /\ ~new[Len(new)].newline
    BY DEF IncompleteAfter, Last
  <1>4. more \in BOOLEAN
    BY DEF IncompleteAfter
  <1> HIDE DEF new, n, more
  <1>5. CASE start = n
    <2>1. new = <<>> /\ s # <<>>
      BY <1>1, <1>2, <1>5
    <2>2. u = s
      BY <2>1, ConcatEmptySeq
    <2>3. ~more
      BY <1>3, <2>1
    <2>4. Chain(s) /\ s[Len(s)].newline /\ s[Len(s)].to = appended + n
      BY <1>5, <2>1
    <2> HIDE DEF u
    <2>5. Good(u, more, appended + n) /\ u # <<>>
      BY <2>1, <2>2, <2>3, <2>4 DEF Good
    <2>6. Held(new) = 0
      BY <2>1, HeldEmpty
    <2>7. Held(s) \in Nat
      BY <2>4, HeldChain, Sizes
    <2>8. Held(u) = Held(s) + Held(new)
      BY <2>2, <2>6, <2>7
    <2> QED
      BY <1>4, <2>3, <2>5, <2>8 DEF u, new, n, more
  <1>6. CASE start < n
    <2>1. /\ Chain(new) /\ new[1].from = appended + start + 1
          /\ new[Len(new)].to = appended + n /\ Size(new[Len(new)]) <= MaxChunk
      BY <1>2, <1>6
    <2>2. more <=> ~new[Len(new)].newline
      BY <1>3, <2>1 DEF Chain
    <2>3. /\ Chain(u) /\ u[Len(u)] = new[Len(new)] /\ Held(u) = Held(s) + Held(new)
      <3>1. CASE s = <<>>
        <4>1. u = new
          BY <1>2, <3>1, ConcatEmptySeq
        <4>2. Held(s) = 0 /\ Held(new) \in Nat
          BY <2>1, <3>1, HeldEmpty, HeldChain, Sizes
        <4> HIDE DEF u
        <4> QED
          BY <2>1, <4>1, <4>2
      <3>2. CASE s # <<>>
        <4>1. Chain(s) /\ s[Len(s)].newline /\ new[1].from = s[Len(s)].to + 1
          BY <2>1, <3>2
        <4>2. Chain(u) /\ u[Len(u)] = new[Len(new)]
          BY <2>1, <4>1, ChainJoin
        <4>3. Held(u) = Held(s) + Held(new)
          BY <2>1, <4>1, HeldJoin
        <4> QED
          BY <4>2, <4>3
      <3> QED
        BY <3>1, <3>2
    <2> HIDE DEF u
    <2>4. Good(u, more, appended + n) /\ u # <<>>
      BY <2>1, <2>2, <2>3 DEF Good, Chain
    <2>5. Size(u[Len(u)]) <= MaxChunk
      BY <2>1, <2>3
    <2> QED
      BY <1>4, <2>3, <2>4, <2>5 DEF u, new, n, more
  <1> QED
    BY <1>1, <1>5, <1>6

\* The first newline is one of them.
LEMMA MinOfNaturals ==
  ASSUME NEW S \in SUBSET Nat, S # {}
  PROVE  Min(S) \in S
  <1>1. PICK x \in S : \A y \in S : ~(<<y, x>> \in Below)
    BY BelowWellFounded, WFMin
  <1>2. ASSUME NEW y \in S
        PROVE  x <= y
    <2>1. ~(y < x)
      BY <1>1 DEF Below
    <2> QED
      BY <2>1
  <1> QED
    BY <1>2 DEF Min

\* A chunk completes the line that waits, and what is behind it is split.
LEMMA CompleteStep ==
  ASSUME Parts, NEW chunk \in Chunks, appended + chunk.n <= MaxAppended,
         AppendComplete(chunk)
  PROVE  Parts'
  <1> DEFINE n == chunk.n
             start == Min(chunk.newlines)
             new == Split(chunk, start)
             s == Extended(start, TRUE)
  <1>1. /\ n \in Nat /\ n >= 1 /\ appended \in Nat /\ completing \in Nat
        /\ chunk.newlines \in SUBSET (1..n)
    BY ChunkFacts, Sizes DEF Parts
  <1>2. /\ last_line_incomplete = TRUE /\ lines # <<>> /\ chunk.newlines # {}
        /\ lines' = s \o new
        /\ total_size' = (total_size + Held(new)) % Width
        /\ last_line_incomplete' = IncompleteAfter(new)
        /\ completing' = completing + start
        /\ appended' = appended + n
        /\ pc' = "trim"
    BY DEF AppendComplete, Parts
  <1>3. start \in 1..n /\ start \in Nat /\ start \in 0..n
    <2>1. start \in chunk.newlines
      BY <1>1, <1>2, MinOfNaturals
    <2> HIDE DEF start
    <2> QED
      BY <1>1, <2>1
  <1> HIDE DEF start
  <1>4. Chain(lines) /\ lines[Len(lines)].to = appended
    BY <1>2 DEF Parts, Good
  <1>5. /\ Chain(s) /\ s[Len(s)].to = appended + start /\ s[Len(s)].newline = TRUE
        /\ Held(s) = Held(lines) + start
    <2>1. start >= 1 /\ appended + start <= MaxAppended
      BY <1>1, <1>3, Sizes
    <2> QED
      BY <1>1, <1>3, <1>4, <2>1, ExtendedLine
  <1>6. s \in Seq(Line) /\ s # <<>> /\ s[Len(s)].newline
    BY <1>5 DEF Chain
  <1>7. /\ Good(s \o new, IncompleteAfter(new), appended + n)
        /\ s \o new # <<>>
        /\ Held(s \o new) = Held(s) + Held(new)
        /\ IncompleteAfter(new) \in BOOLEAN
        /\ IncompleteAfter(new) => Size((s \o new)[Len(s \o new)]) <= MaxChunk
    <2> HIDE DEF s
    <2> QED
      BY <1>1, <1>3, <1>5, <1>6, JoinSplit
  <1>8. Held(new) = n - start
    BY <1>1, <1>3, SplitFacts
  <1> HIDE DEF new, s
  <1>9. Held(lines) \in Nat /\ Held(lines') \in 0..MaxAppended
    BY <1>2, <1>4, <1>7, HeldChain, HeldBound, Sizes
  <1>10. Held(new) \in Nat /\ Held(lines') = (Held(lines) + start) + Held(new)
    BY <1>1, <1>2, <1>3, <1>5, <1>7, <1>8
  <1>11. /\ total_size' \in 0..(Width - 1)
         /\ total_size' + completing' \in {Held(lines'), Held(lines') + Width}
    <2> DEFINE h == Held(lines) + start
               d == Held(new)
               c == completing + start
    <2>1. h \in Nat /\ d \in Nat /\ c \in Nat /\ h + d < Width
      BY <1>1, <1>3, <1>9, <1>10, WidthBound
    <2>2. /\ total_size \in 0..(Width - 1)
          /\ total_size + c \in {h, h + Width}
      <3>1. /\ total_size \in 0..(Width - 1)
            /\ total_size + completing \in {Held(lines), Held(lines) + Width}
        BY DEF Parts
      <3> QED
        BY <1>1, <1>3, <1>9, <3>1, WidthBound
    <2>3. Held(lines') = h + d /\ completing' = c /\ total_size' = (total_size + d) % Width
      BY <1>2, <1>10
    <2> HIDE DEF h, d, c
    <2>4. /\ (total_size + d) % Width \in 0..(Width - 1)
          /\ ((total_size + d) % Width) + c \in {h + d, h + d + Width}
      BY <2>1, <2>2, WidthBound, AddDrift
    <2> QED
      BY <2>3, <2>4
  <1>12. Kept(pc', lines', last_line_incomplete', total_size', completing')
    BY <1>2, <1>7 DEF Kept
  <1>13. /\ appended' \in 0..MaxAppended /\ completing' \in 0..appended'
         /\ pc' \in {"append", "trim"} /\ last_line_incomplete' \in BOOLEAN
    <2>1. completing <= appended
      BY DEF Parts
    <2>2. appended' \in 0..MaxAppended /\ completing' \in 0..appended'
      BY <1>1, <1>2, <1>3, <2>1, Sizes
    <2> QED
      BY <1>2, <1>7, <2>2
  <1>14. Good(lines', last_line_incomplete', appended')
    BY <1>2, <1>7
  <1> QED
    BY <1>11, <1>12, <1>13, <1>14 DEF Parts

\* A chunk is split behind complete lines.
LEMMA LinesStep ==
  ASSUME Parts, pc = "append", NEW chunk \in Chunks, appended + chunk.n <= MaxAppended,
         AppendLines(chunk)
  PROVE  Parts'
  <1> DEFINE n == chunk.n
             new == Split(chunk, 0)
  <1>1. /\ n \in Nat /\ n >= 1 /\ appended \in Nat /\ completing \in Nat /\ 0 \in 0..n
        /\ last_line_incomplete \in BOOLEAN /\ lines \in Seq(Line)
    BY ChunkFacts, Sizes DEF Parts, Good
  <1>2. /\ lines' = lines \o new
        /\ total_size' = (total_size + Held(new)) % Width
        /\ last_line_incomplete' = (last_line_incomplete \/ IncompleteAfter(new))
        /\ appended' = appended + n
        /\ pc' = "trim" /\ completing' = completing
        /\ ~last_line_incomplete \/ lines = <<>>
    BY DEF AppendLines
  <1>3. ~last_line_incomplete
    <2>1. last_line_incomplete /\ lines = <<>> => pc = "trim"
      BY DEF Parts, Kept
    <2> QED
      BY <1>2, <2>1
  <1>4. lines # <<>> =>
          Chain(lines) /\ lines[Len(lines)].newline /\ lines[Len(lines)].to = appended + 0
    BY <1>1, <1>3 DEF Parts, Good
  <1>5. /\ Good(lines \o new, IncompleteAfter(new), appended + n)
        /\ lines \o new # <<>>
        /\ Held(lines \o new) = Held(lines) + Held(new)
        /\ IncompleteAfter(new) \in BOOLEAN
        /\ IncompleteAfter(new) => Size((lines \o new)[Len(lines \o new)]) <= MaxChunk
    BY <1>1, <1>4, JoinSplit
  <1>6. Held(new) = n - 0
    BY <1>1, SplitFacts
  <1> HIDE DEF new
  <1>7. last_line_incomplete' = IncompleteAfter(new)
    <2>1. last_line_incomplete = FALSE
      BY <1>1, <1>3
    <2> DEFINE more == IncompleteAfter(new)
    <2>2. more \in BOOLEAN /\ last_line_incomplete' = (FALSE \/ more)
      BY <1>2, <1>5, <2>1
    <2> HIDE DEF more
    <2>3. last_line_incomplete' = more
      BY <2>2
    <2> QED
      BY <2>3 DEF more
  <1>8. Held(lines) \in Nat /\ Held(lines') \in 0..MaxAppended
    <2>1. Held(lines) \in 0..MaxAppended
      BY HeldBound DEF Parts
    <2>2. Held(lines') \in 0..MaxAppended
      BY <1>2, <1>5, HeldBound
    <2> QED
      BY <2>1, <2>2, Sizes
  <1>9. Held(new) \in Nat /\ Held(lines') = Held(lines) + Held(new)
    BY <1>1, <1>2, <1>5, <1>6
  <1>10. /\ total_size' \in 0..(Width - 1)
         /\ total_size' + completing' \in {Held(lines'), Held(lines') + Width}
    <2> DEFINE h == Held(lines)
               d == Held(new)
    <2>1. h \in Nat /\ d \in Nat /\ h + d < Width
      BY <1>8, <1>9, WidthBound
    <2>2. /\ total_size \in 0..(Width - 1)
          /\ total_size + completing \in {h, h + Width}
      BY DEF Parts
    <2>3. Held(lines') = h + d /\ completing' = completing /\ total_size' = (total_size + d) % Width
      BY <1>2, <1>9
    <2> HIDE DEF h, d
    <2>4. /\ (total_size + d) % Width \in 0..(Width - 1)
          /\ ((total_size + d) % Width) + completing \in {h + d, h + d + Width}
      BY <1>1, <2>1, <2>2, WidthBound, AddDrift
    <2> QED
      BY <2>3, <2>4
  <1>11. Kept(pc', lines', last_line_incomplete', total_size', completing')
    BY <1>2, <1>5, <1>7 DEF Kept
  <1>12. /\ appended' \in 0..MaxAppended /\ completing' \in 0..appended'
         /\ pc' \in {"append", "trim"} /\ last_line_incomplete' \in BOOLEAN
    <2>1. completing <= appended
      BY DEF Parts
    <2>2. appended' \in 0..MaxAppended /\ completing' \in 0..appended'
      BY <1>1, <1>2, <2>1, Sizes
    <2> QED
      BY <1>2, <1>5, <1>7, <2>2
  <1>13. Good(lines', last_line_incomplete', appended')
    BY <1>2, <1>5, <1>7
  <1> QED
    BY <1>10, <1>11, <1>12, <1>13 DEF Parts

\* The first line is dropped.  Were it one that lacks its newline, the size would
\* have wrapped.
LEMMA TrimStep ==
  ASSUME Parts, TrimLine
  PROVE  Parts'
  <1>1. /\ pc = "trim" /\ TooLarge /\ lines # <<>> /\ lines' = Tail(lines)
        /\ total_size' = (total_size - Size(Head(lines))) % Width
        /\ pc' = pc /\ last_line_incomplete' = last_line_incomplete
        /\ appended' = appended /\ completing' = completing
    BY DEF TrimLine, Less
  <1>2. /\ Chain(lines) /\ lines[Len(lines)].to = appended
        /\ last_line_incomplete <=> ~lines[Len(lines)].newline
    BY <1>1 DEF Parts, Good
  <1>3. /\ Held(Tail(lines)) = Held(lines) - Size(Head(lines)) /\ Size(Head(lines)) \in 1..Held(lines)
        /\ Held(lines) \in 0..MaxAppended
    BY <1>2, HeldTail, HeldChain
  <1>4. /\ Tail(lines) \in Seq(Line) /\ Len(Tail(lines)) = Len(lines) - 1 /\ Head(lines) = lines[1]
        /\ Tail(lines) # <<>> => Chain(Tail(lines)) /\ Tail(lines)[Len(Tail(lines))] = lines[Len(lines)]
    BY <1>2, ChainTail
  <1>5. Good(lines', last_line_incomplete', appended')
    BY <1>1, <1>2, <1>4 DEF Good
  <1>6. /\ total_size \in 0..(Width - 1) /\ appended \in 0..MaxAppended /\ completing \in 0..appended
        /\ total_size + completing \in {Held(lines), Held(lines) + Width}
        /\ last_line_incomplete \in BOOLEAN
    BY DEF Parts
  <1>7. /\ total_size' \in 0..(Width - 1)
        /\ total_size' + completing' \in {Held(lines'), Held(lines') + Width}
    <2> DEFINE h == Held(lines)
               d == Size(Head(lines))
    <2>1. h \in 0..(Width - 1) /\ d \in 0..h /\ completing \in 0..(Width - 1)
      BY <1>3, <1>6, WidthBound
    <2>2. total_size + completing \in {h, h + Width}
      BY <1>6
    <2>3. /\ total_size' = (total_size - d) % Width /\ completing' = completing
          /\ Held(lines') = h - d
      BY <1>1, <1>3
    <2> HIDE DEF h, d
    <2>4. /\ (total_size - d) % Width \in 0..(Width - 1)
          /\ ((total_size - d) % Width) + completing \in {h - d, h - d + Width}
      BY <1>6, <2>1, <2>2, WidthBound, LessDrift
    <2> QED
      BY <2>3, <2>4
  <1>8. ASSUME last_line_incomplete, lines' = <<>>
        PROVE  total_size' + completing' = Width
    <2> DEFINE d == Size(Head(lines))
    <2>1. Len(lines) = 1
      <3>1. Len(lines) \in Nat /\ Len(Tail(lines)) = Len(lines) - 1
        BY <1>2, <1>4, ChainEnds
      <3>2. Len(Tail(lines)) = 0
        BY <1>1, <1>8, EmptySeq
      <3> QED
        BY <3>1, <3>2
    <2>2. d <= MaxChunk /\ d \in Nat
      <3>1. Size(lines[Len(lines)]) <= MaxChunk
        BY <1>1, <1>8 DEF Parts, Kept
      <3>2. d = Size(lines[Len(lines)])
        BY <1>4, <2>1
      <3> QED
        BY <1>3, <3>1, <3>2
    <2>3. Held(lines') = 0
      BY <1>8, HeldEmpty
    <2>4. Held(lines) = d
      BY <1>1, <1>3, <2>3, <2>2
    <2>5. total_size > MaxSize
      BY <1>1, <2>1, ChunkFits, Sizes DEF TooLarge
    <2>6. total_size + completing = d + Width
      <3> HIDE DEF d
      <3> QED
        BY <1>6, <2>2, <2>4, <2>5, WidthBound
    <2>7. total_size' + completing' \in {0, 0 + Width}
      BY <1>7, <2>3
    <2>8. total_size' = (total_size - d) % Width /\ completing' = completing
      BY <1>1
    <2> HIDE DEF d
    <2>9. total_size - d \in 1..(Width - 1)
      BY <1>6, <2>2, <2>6, WidthBound
    <2>10. (total_size - d) % Width = total_size - d
      BY <2>9, WidthBound, Modulo
    <2> QED
      BY <1>6, <2>2, <2>6, <2>8, <2>10, WidthBound
  <1>9. Kept(pc', lines', last_line_incomplete', total_size', completing')
    <2>1. ASSUME last_line_incomplete, lines' # <<>>
          PROVE  Size(lines'[Len(lines')]) <= MaxChunk
      <3>1. Size(lines[Len(lines)]) <= MaxChunk
        BY <1>1, <2>1 DEF Parts, Kept
      <3> QED
        BY <1>1, <1>4, <2>1, <3>1
    <2> QED
      BY <1>1, <1>8, <2>1 DEF Kept
  <1>10. /\ appended' \in 0..MaxAppended /\ completing' \in 0..appended'
         /\ pc' \in {"append", "trim"} /\ last_line_incomplete' \in BOOLEAN
    BY <1>1, <1>6
  <1> QED
    BY <1>5, <1>7, <1>9, <1>10 DEF Parts

\* The trimming ends, which it does not without a line and with the flag set.
LEMMA TrimDoneStep ==
  ASSUME Parts, TrimDone
  PROVE  Parts'
  <1>1. /\ pc = "trim" /\ ~TooLarge /\ pc' = "append" /\ lines' = lines /\ total_size' = total_size
        /\ last_line_incomplete' = last_line_incomplete /\ appended' = appended
        /\ completing' = completing
    BY DEF TrimDone
  <1>2. /\ total_size \in 0..(Width - 1) /\ appended \in 0..MaxAppended /\ completing \in 0..appended
        /\ total_size + completing \in {Held(lines), Held(lines) + Width}
        /\ last_line_incomplete \in BOOLEAN
        /\ Good(lines, last_line_incomplete, appended)
    BY DEF Parts
  <1>3. ASSUME last_line_incomplete, lines = <<>>
        PROVE  FALSE
    <2>1. total_size + completing = Width
      BY <1>1, <1>3 DEF Parts, Kept
    <2>2. total_size <= MaxSize
      BY <1>1, <1>2, WidthBound DEF TooLarge
    <2> QED
      BY <1>2, <2>1, <2>2, WidthBound
  <1>4. Kept(pc', lines', last_line_incomplete', total_size', completing')
    BY <1>1, <1>3 DEF Kept
  <1> QED
    BY <1>1, <1>2, <1>4 DEF Parts

\* Every step of append keeps the invariant.
LEMMA BufferStep == BufferIInv /\ [BufferNext]_bufferVars => BufferIInv'
  <1> SUFFICES ASSUME BufferIInv, [BufferNext]_bufferVars
               PROVE  BufferIInv'
    OBVIOUS
  <1>1. Parts
    BY BufferParts
  <1>2. CASE AppendChunk
    <2>1. PICK chunk \in Chunks :
            /\ pc = "append" /\ appended + chunk.n <= MaxAppended
            /\ AppendProlong(chunk) \/ AppendComplete(chunk) \/ AppendLines(chunk)
      BY <1>2 DEF AppendChunk
    <2>2. Parts'
      BY <1>1, <2>1, ProlongStep, CompleteStep, LinesStep
    <2> QED
      BY <2>2, BufferPartsNext
  <1>3. CASE TrimLine
    BY <1>1, <1>3, TrimStep, BufferPartsNext
  <1>4. CASE TrimDone
    BY <1>1, <1>4, TrimDoneStep, BufferPartsNext
  <1>5. CASE UNCHANGED bufferVars
    <2>1. /\ pc' = pc /\ lines' = lines /\ total_size' = total_size
          /\ last_line_incomplete' = last_line_incomplete /\ appended' = appended
          /\ completing' = completing
      BY <1>5 DEF bufferVars
    <2>2. Parts'
      BY <1>1, <2>1 DEF Parts
    <2> QED
      BY <2>2, BufferPartsNext
  <1> QED
    BY <1>2, <1>3, <1>4, <1>5 DEF BufferNext

\* BufferIInv holds in every reachable state, for any sizes that fit the width.
THEOREM BufferInvariance == BufferSpec => []BufferIInv
  BY BufferStart, BufferStep, PTL DEF BufferSpec

-----------------------------------------------------------------------------
(* What get_recent takes.                                                    *)

\* The lines from the m-th to the last one.
LEMMA ChainEndOf ==
  ASSUME NEW s, Chain(s), NEW m \in 1..Len(s)
  PROVE  /\ Chain(SubSeq(s, m, Len(s)))
         /\ Len(SubSeq(s, m, Len(s))) = Len(s) - m + 1
         /\ Held(SubSeq(s, m, Len(s))) = s[Len(s)].to - s[m].from + 1
  <1> DEFINE L == Len(s)
             u == SubSeq(s, m, L)
             n == L - m + 1
  <1>1. s \in Seq(Line) /\ L \in Nat /\ \A k \in 1..L : s[k] \in Line
    BY ChainEnds
  <1>2. \A k \in 1..(L - 1) : s[k].newline /\ s[k + 1].from = s[k].to + 1
    BY DEF Chain, Follow
  <1>3. u \in Seq(Line) /\ Len(u) = n /\ \A i \in 1..n : u[i] = s[m + i - 1]
    <2> HIDE DEF L
    <2>1. m \in Int /\ L \in Int /\ \A i \in m..L : s[i] \in Line
      BY <1>1 DEF L
    <2>2. /\ u \in Seq(Line) /\ Len(u) = IF m <= L THEN L - m + 1 ELSE 0
          /\ \A i \in 1..(L - m + 1) : u[i] = s[m + i - 1]
      BY <2>1, SubSeqProperties
    <2>3. m <= L
      BY <1>1 DEF L
    <2> QED
      BY <2>2, <2>3
  <1>4. n \in Nat /\ n >= 1 /\ m \in Nat /\ m >= 1
    BY <1>1
  <1> HIDE DEF u
  <1>5. u # <<>>
    BY <1>3, <1>4, EmptySeq
  <1>6. ASSUME NEW k \in 1..(n - 1)
        PROVE  u[k].newline /\ u[k + 1].from = u[k].to + 1
    <2>1. /\ k \in 1..n /\ k + 1 \in 1..n /\ m + k - 1 \in 1..(L - 1)
          /\ m + (k + 1) - 1 = (m + k - 1) + 1
      BY <1>1, <1>4
    <2>2. u[k] = s[m + k - 1] /\ u[k + 1] = s[(m + k - 1) + 1]
      <3> HIDE DEF L, n
      <3>1. u[k] = s[m + k - 1] /\ u[k + 1] = s[m + (k + 1) - 1]
        BY <1>3, <2>1
      <3> QED
        BY <2>1, <3>1
    <2> HIDE DEF L, n
    <2> QED
      BY <1>2, <2>1, <2>2
  <1>7. Chain(u)
    <2>1. /\ \A k \in 1..(Len(u) - 1) : u[k].newline
          /\ \A k \in 1..(Len(u) - 1) : u[k + 1].from = u[k].to + 1
      BY <1>3, <1>6
    <2> QED
      BY <1>3, <1>5, <2>1 DEF Chain, Follow
  <1>8. u[1] = s[m] /\ u[Len(u)] = s[L]
    <2>1. 1 \in 1..n /\ n \in 1..n /\ m + 1 - 1 = m /\ m + n - 1 = L
      BY <1>1, <1>4
    <2> HIDE DEF L, n
    <2> QED
      BY <1>3, <2>1
  <1>9. Held(u) = s[L].to - s[m].from + 1
    BY <1>7, <1>8, HeldChain
  <1> QED
    BY <1>3, <1>7, <1>9 DEF u

\* The last n lines, and one more.
LEMMA LastLines ==
  ASSUME NEW s \in Seq(Line), s # <<>> => Chain(s), NEW n \in 0..Len(s)
  PROVE  LET u == SubSeq(s, Len(s) - n + 1, Len(s)) IN
         /\ u \in Seq(Line) /\ Len(u) = n /\ Held(u) \in Nat
         /\ n = 0 => u = <<>> /\ Held(u) = 0
         /\ n < Len(s) =>
              LET longer == SubSeq(s, Len(s) - (n + 1) + 1, Len(s)) IN
              /\ s[Len(s) - n] \in Line
              /\ longer = <<s[Len(s) - n]>> \o u
              /\ Held(longer) = Held(u) + Size(s[Len(s) - n])
  <1> DEFINE L == Len(s)
             u == SubSeq(s, L - n + 1, L)
             longer == SubSeq(s, L - (n + 1) + 1, L)
  <1>1. L \in Nat /\ n \in Nat /\ n <= L /\ \A k \in 1..L : s[k] \in Line
    BY LenProperties, ElementOfSeq
  <1>2. n = 0 => u = <<>> /\ Held(u) = 0 /\ Len(u) = 0 /\ u \in Seq(Line)
    <2>1. ASSUME n = 0
          PROVE  u = <<>>
      <3>1. L - n + 1 \in Int /\ L \in Int /\ L < L - n + 1
        BY <1>1, <2>1
      <3> HIDE DEF L
      <3> QED
        BY <3>1, SubSeqEmpty
    <2> HIDE DEF u
    <2> QED
      BY <2>1, HeldEmpty, EmptySeq
  <1>3. n > 0 => /\ u \in Seq(Line) /\ Len(u) = n /\ Held(u) \in Nat
                 /\ Chain(u) /\ Held(u) = s[L].to - s[L - n + 1].from + 1
    <2> SUFFICES ASSUME n > 0
                 PROVE  /\ u \in Seq(Line) /\ Len(u) = n /\ Held(u) \in Nat
                        /\ Chain(u) /\ Held(u) = s[L].to - s[L - n + 1].from + 1
      OBVIOUS
    <2>1. L - n + 1 \in 1..L /\ L - (L - n + 1) + 1 = n /\ s # <<>>
      BY <1>1, EmptySeq
    <2> DEFINE m == L - n + 1
    <2>2. /\ Chain(SubSeq(s, m, L)) /\ Len(SubSeq(s, m, L)) = L - m + 1
          /\ Held(SubSeq(s, m, L)) = s[L].to - s[m].from + 1
      <3>1. m \in 1..L /\ Chain(s)
        BY <2>1
      <3> HIDE DEF m
      <3> QED
        BY <3>1, ChainEndOf
    <2> HIDE DEF u
    <2>3. Chain(u) /\ Len(u) = n /\ Held(u) = s[L].to - s[L - n + 1].from + 1
      BY <2>1, <2>2 DEF u
    <2>4. Held(u) \in Nat
      BY <2>3, HeldChain, Sizes
    <2> QED
      BY <2>3, <2>4 DEF Chain
  <1>4. ASSUME n < L
        PROVE  /\ s[L - n] \in Line
               /\ longer = <<s[L - n]>> \o u
               /\ Held(longer) = Held(u) + Size(s[L - n])
    <2> DEFINE m == L - n
    <2>1. /\ m \in 1..L /\ L - (n + 1) + 1 = m /\ L - n + 1 = m + 1 /\ L \in m..L
          /\ s # <<>> /\ Chain(s)
      BY <1>1, <1>4, EmptySeq
    <2>2. s[m] \in Line
      BY <1>1, <2>1
    <2>3. longer = SubSeq(s, m, L) /\ u = SubSeq(s, m + 1, L)
      BY <2>1
    <2> HIDE DEF m
    <2>4. longer = <<s[m]>> \o u
      <3>1. SubSeq(s, m, L) = <<s[m]>> \o SubSeq(s, m + 1, L)
        BY <2>1, SubSeqRecursiveFirst
      <3> HIDE DEF longer, u
      <3> QED
        BY <2>3, <3>1
    <2>5. Held(longer) = s[L].to - s[m].from + 1
      <3>1. Held(SubSeq(s, m, L)) = s[L].to - s[m].from + 1
        BY <2>1, ChainEndOf
      <3> HIDE DEF longer
      <3> QED
        BY <2>3, <3>1
    <2> HIDE DEF longer, u
    <2>6. /\ Size(s[m]) = s[m].to - s[m].from + 1 /\ s[m].to \in Nat /\ s[m].from \in Nat
      BY <2>2, LineSize
    <2>7. s[L] \in Line /\ s[L].to \in Nat
      BY <2>1, ChainEnds, LineSize
    <2>8. CASE n = 0
      <3>1. m = L /\ Held(u) = 0
        BY <1>1, <1>2, <2>8 DEF m
      <3>2. Held(longer) = s[m].to - s[m].from + 1
        BY <2>5, <3>1
      <3>3. Held(longer) = 0 + Size(s[m])
        BY <2>6, <3>2
      <3> QED
        BY <2>2, <2>4, <3>1, <3>3 DEF m
    <2>9. CASE n # 0
      <3>1. m \in 1..(L - 1)
        BY <1>1, <2>1, <2>9 DEF m
      <3>2. s[m + 1].from = s[m].to + 1
        BY <2>1, <3>1 DEF Chain, Follow
      <3>3. Held(u) = s[L].to - s[m + 1].from + 1
        BY <1>1, <1>3, <2>1, <2>9
      <3>4. Held(longer) = Held(u) + Size(s[m])
        <4>1. Held(u) = s[L].to - s[m].to
          BY <2>6, <2>7, <3>2, <3>3
        <4> QED
          BY <2>5, <2>6, <2>7, <4>1
      <3> QED
        BY <2>2, <2>4, <3>4 DEF m
    <2> QED
      BY <2>8, <2>9
  <1>5. n = 0 \/ n > 0
    BY <1>1
  <1> HIDE DEF u, longer
  <1>6. u \in Seq(Line) /\ Len(u) = n /\ Held(u) \in Nat
    BY <1>2, <1>3, <1>5
  <1> QED
    BY <1>2, <1>4, <1>6 DEF u, longer

\* What the loop has taken when it has looked at one line more, and what it
\* should have when it has looked at k.
OneMore(max, r, k) ==
  LET line == lines[Len(lines) - k + 1]
  IN IF r.full \/ Held(r.recent) + Size(line) > max
     THEN [r EXCEPT !.full = TRUE]
     ELSE [r EXCEPT !.recent = <<line>> \o @]

TakenIs(max, r, n) ==
  /\ r.recent = SubSeq(lines, Len(lines) - n + 1, Len(lines))
  /\ Held(r.recent) <= max
  /\ r.full => n < Len(lines) /\ Held(r.recent) + Size(lines[Len(lines) - n]) > max

TakenOf(max, r, k) ==
  /\ r \in [full : BOOLEAN, recent : Seq(Line)]
  /\ \E n \in 0..k : TakenIs(max, r, n) /\ (~r.full => n = k)

\* One line more, and it is as it should be.
LEMMA OneMoreTaken ==
  ASSUME lines \in Seq(Line), lines # <<>> => Chain(lines),
         NEW max \in Nat, NEW k \in 1..Len(lines), NEW r, TakenOf(max, r, k - 1)
  PROVE  TakenOf(max, OneMore(max, r, k), k)
  <1> DEFINE L == Len(lines)
             line == lines[L - k + 1]
             next == OneMore(max, r, k)
  <1>1. L \in Nat /\ k \in Nat /\ r \in [full : BOOLEAN, recent : Seq(Line)]
    BY LenProperties DEF TakenOf
  <1>2. PICK n \in 0..(k - 1) : TakenIs(max, r, n) /\ (~r.full => n = k - 1)
    BY DEF TakenOf
  <1>3. n \in 0..k /\ n \in 0..L /\ n \in Nat
    BY <1>1
  <1>4. r.full \in BOOLEAN /\ r.recent \in Seq(Line)
    BY <1>1
  <1>5. CASE r.full \/ Held(r.recent) + Size(line) > max
    <2>1. next = [r EXCEPT !.full = TRUE]
      BY <1>5 DEF OneMore
    <2>2. /\ next \in [full : BOOLEAN, recent : Seq(Line)]
          /\ next.full = TRUE /\ next.recent = r.recent
      <3> HIDE DEF next
      <3> QED
        BY <1>1, <2>1
    <2> HIDE DEF next
    <2>3. TakenIs(max, next, n)
      <3>1. CASE r.full
        BY <1>2, <2>2, <3>1 DEF TakenIs
      <3>2. CASE ~r.full
        <4>1. n = k - 1
          BY <1>2, <3>2
        <4>2. n < L /\ L - n = L - k + 1
          <5> HIDE DEF line
          <5> QED
            BY <1>1, <4>1
        <4>3. Held(r.recent) + Size(line) > max
          BY <1>5, <3>2
        <4>4. Held(next.recent) + Size(lines[L - n]) > max
          BY <2>2, <4>2, <4>3
        <4> QED
          BY <1>2, <2>2, <4>2, <4>4 DEF TakenIs
      <3> QED
        BY <3>1, <3>2
    <2> QED
      BY <1>3, <2>2, <2>3 DEF TakenOf, next
  <1>6. CASE ~r.full /\ ~(Held(r.recent) + Size(line) > max)
    <2> DEFINE u == SubSeq(lines, L - n + 1, L)
               longer == SubSeq(lines, L - (n + 1) + 1, L)
               more == <<line>> \o r.recent
    <2>1. n + 1 = k /\ n < L /\ L - n = L - k + 1
      <3>1. n = k - 1
        BY <1>2, <1>6
      <3> HIDE DEF next, line, u, longer, more
      <3> QED
        BY <1>1, <3>1
    <2>2. next = [r EXCEPT !.recent = more]
      <3>1. next = [r EXCEPT !.recent = <<line>> \o @]
        BY <1>6 DEF OneMore
      <3> HIDE DEF next, line
      <3> QED
        BY <1>1, <3>1
    <2>3. r.recent = u
      BY <1>2 DEF TakenIs
    <2>4. /\ u \in Seq(Line) /\ Held(u) \in Nat /\ lines[L - n] \in Line
          /\ longer = <<lines[L - n]>> \o u
          /\ Held(longer) = Held(u) + Size(lines[L - n])
      BY <1>3, <2>1, LastLines
    <2>5. longer \in Seq(Line)
      <3>1. n + 1 \in 0..Len(lines)
        BY <1>1, <1>3, <2>1
      <3> QED
        BY <3>1, LastLines
    <2>6. line = lines[L - n]
      BY <2>1
    <2> HIDE DEF line, u, longer
    <2>7. more = longer
      BY <2>3, <2>4, <2>6
    <2>8. Size(line) \in Nat
      BY <2>4, <2>6, LineSize
    <2>9. Held(more) <= max
      BY <1>6, <2>3, <2>4, <2>6, <2>7, <2>8
    <2> HIDE DEF more, next
    <2>10. /\ next \in [full : BOOLEAN, recent : Seq(Line)]
           /\ next.full = r.full /\ next.recent = more
      BY <1>1, <2>2, <2>5, <2>7
    <2>11. n + 1 \in 0..k /\ more = SubSeq(lines, L - (n + 1) + 1, L)
      BY <1>3, <2>1, <2>7 DEF longer
    <2>12. TakenIs(max, next, n + 1)
      BY <1>6, <2>9, <2>10, <2>11 DEF TakenIs
    <2>13. TakenOf(max, next, k)
      BY <2>1, <2>10, <2>11, <2>12 DEF TakenOf
    <2> QED
      BY <2>13 DEF next
  <1> QED
    BY <1>5, <1>6

\* So it is with all of them.
LEMMA TakingTaken ==
  ASSUME lines \in Seq(Line), lines # <<>> => Chain(lines), NEW max \in Nat
  PROVE  TakenOf(max, Taking(max)[Len(lines)], Len(lines))
  <1> DEFINE n == Len(lines)
             start == [full |-> FALSE, recent |-> <<>>]
             G(r, k) == OneMore(max, r, k)
             U(r, k) == TakenOf(max, r, k)
             Built(e) == e = [k \in 0..n |-> IF k = 0 THEN start ELSE G(e[k - 1], k)]
             X == [full : BOOLEAN, recent : Seq(Line)]
             g == [k \in 1..n |-> [r \in X |-> IF G(r, k) \in X THEN G(r, k) ELSE start]]
  <1>0. n \in Nat
    BY LenProperties
  <1>1. Taking(max) = CHOOSE e : Built(e)
    BY DEF Taking, OneMore
  <1>2. start \in X /\ U(start, 0)
    <2> DEFINE none == <<>>
    <2>1. none \in Seq(Line) /\ Held(none) = 0
      BY HeldEmpty, EmptySeq
    <2>2. none = SubSeq(lines, n - 0 + 1, n)
      <3>1. n - 0 + 1 \in Int /\ n \in Int /\ n < n - 0 + 1
        BY <1>0
      <3> HIDE DEF n
      <3> QED
        BY <3>1, SubSeqEmpty
    <2>3. start.full = FALSE /\ start.recent = none
      OBVIOUS
    <2>4. start \in X
      <3> HIDE DEF none
      <3>1. start = [full |-> FALSE, recent |-> none]
        BY DEF none
      <3> HIDE DEF start
      <3> QED
        BY <2>1, <3>1
    <2> HIDE DEF none, start
    <2>5. TakenIs(max, start, 0)
      BY <2>1, <2>2, <2>3 DEF TakenIs
    <2>6. 0 \in 0..0
      OBVIOUS
    <2> QED
      BY <2>3, <2>4, <2>5, <2>6 DEF TakenOf
  <1>3. ASSUME NEW k \in 1..n, NEW r, U(r, k - 1)
        PROVE  U(G(r, k), k) /\ G(r, k) \in X
    <2>1. U(G(r, k), k)
      BY <1>3, OneMoreTaken
    <2> HIDE DEF G
    <2> QED
      BY <2>1 DEF TakenOf
  <1> HIDE DEF n, G, U, X, start
  <1>4. g \in [1..n -> [X -> X]]
    BY <1>2
  <1>5. PICK f \in [0..n -> X] : f[0] = start /\ \A k \in 1..n : f[k] = g[k][f[k - 1]]
    <2>1. start \in X /\ n \in Nat
      BY <1>0, <1>2
    <2> HIDE DEF g
    <2>2. \E f \in [0..n -> X] : Iterated(f, start, n, g)
      BY <1>4, <2>1, Iterate
    <2> QED
      BY <2>2 DEF Iterated
  <1>6. \A k \in 0..n : U(f[k], k)
    <2> DEFINE T == {k \in 0..n : U(f[k], k)}
    <2>1. 0 \in T
      BY <1>0, <1>2, <1>5
    <2>2. ASSUME NEW k \in 0..(n - 1), k \in T
          PROVE  k + 1 \in T
      <3>1. k + 1 \in 1..n /\ k + 1 \in 0..n /\ (k + 1) - 1 = k /\ k \in 0..n
        BY <1>0
      <3>2. U(f[k], k) /\ f[k] \in X
        BY <1>5, <2>2, <3>1
      <3>3. U(G(f[k], k + 1), k + 1) /\ G(f[k], k + 1) \in X
        BY <1>3, <3>1, <3>2
      <3>4. g[k + 1][f[k]] = G(f[k], k + 1)
        BY <3>1, <3>2, <3>3
      <3> HIDE DEF g
      <3>5. f[k + 1] = G(f[k], k + 1)
        BY <1>5, <3>1, <3>4
      <3> QED
        BY <3>1, <3>3, <3>5
    <2> HIDE DEF T
    <2>3. \A k \in 0..n : k \in T
      <3>1. \A k \in 0..(n - 1) : k \in T => k + 1 \in T
        BY <2>2
      <3> QED
        BY <1>0, <2>1, <3>1, Induction
    <2> QED
      BY <2>3 DEF T
  <1>7. Built(f)
    <2>1. f = [k \in 0..n |-> f[k]]
      BY <1>5
    <2>2. ASSUME NEW k \in 0..n, k # 0
          PROVE  f[k] = G(f[k - 1], k)
      <3>1. k \in 1..n /\ k - 1 \in 0..n
        BY <1>0, <2>2
      <3>2. U(f[k - 1], k - 1) /\ f[k - 1] \in X
        BY <1>5, <1>6, <3>1
      <3>3. G(f[k - 1], k) \in X
        BY <1>3, <3>1, <3>2
      <3>4. g[k][f[k - 1]] = G(f[k - 1], k)
        BY <3>1, <3>2, <3>3
      <3> HIDE DEF g
      <3> QED
        BY <1>5, <3>1, <3>4
    <2> HIDE DEF g
    <2> QED
      BY <1>5, <2>1, <2>2
  <1> DEFINE h == CHOOSE e : Built(e)
  <1>8. Built(h)
    <2> HIDE DEF Built
    <2> QED
      BY <1>7
  <1>9. Taking(max) = h
    BY <1>1
  <1> HIDE DEF h
  <1>10. \A k \in 0..n : U(h[k], k)
    <2> DEFINE T == {k \in 0..n : U(h[k], k)}
    <2>1. 0 \in T
      <3>1. 0 \in 0..n
        BY <1>0
      <3>2. h[0] = start
        BY <1>8, <3>1
      <3> QED
        BY <1>2, <3>1, <3>2
    <2>2. ASSUME NEW k \in 0..(n - 1), k \in T
          PROVE  k + 1 \in T
      <3>1. k + 1 \in 1..n /\ k + 1 \in 0..n /\ (k + 1) - 1 = k /\ k + 1 # 0
        BY <1>0
      <3>2. h[k + 1] = G(h[(k + 1) - 1], k + 1)
        BY <1>8, <3>1
      <3>3. U(h[k], k)
        BY <2>2
      <3>4. U(G(h[k], k + 1), k + 1)
        BY <1>3, <3>1, <3>3
      <3>5. h[k + 1] = G(h[k], k + 1)
        BY <3>1, <3>2
      <3> QED
        BY <3>1, <3>4, <3>5
    <2> HIDE DEF T
    <2>3. \A k \in 0..n : k \in T
      <3>1. \A k \in 0..(n - 1) : k \in T => k + 1 \in T
        BY <2>2
      <3> QED
        BY <1>0, <2>1, <3>1, Induction
    <2> QED
      BY <2>3 DEF T
  <1>11. U(Taking(max)[n], n)
    BY <1>0, <1>9, <1>10
  <1> QED
    BY <1>11 DEF U, n

\* What get_recent returns is the end of what is held.
LEMMA RecentIsTheEnd == BufferIInv => RecentIsEnd
  <1> SUFFICES ASSUME BufferIInv, NEW max \in 0..MaxAppended
               PROVE  LET n == Len(Recent(max)) IN
                      /\ Recent(max) = SubSeq(lines, Len(lines) - n + 1, Len(lines))
                      /\ Held(Recent(max)) <= max
                      /\ n < Len(lines) =>
                            Held(Recent(max)) + Size(lines[Len(lines) - n]) > max
    BY DEF RecentIsEnd
  <1> DEFINE L == Len(lines)
             r == Taking(max)[L]
  <1>1. lines \in Seq(Line) /\ (lines # <<>> => Chain(lines)) /\ max \in Nat /\ L \in Nat
    BY BufferParts, LenProperties, Sizes DEF Parts, Good
  <1>2. TakenOf(max, r, L)
    BY <1>1, TakingTaken
  <1>3. Recent(max) = r.recent
    BY DEF Recent
  <1> HIDE DEF r
  <1>4. PICK n \in 0..L : TakenIs(max, r, n) /\ (~r.full => n = L)
    BY <1>2 DEF TakenOf
  <1>5. Len(SubSeq(lines, L - n + 1, L)) = n
    BY <1>1, LastLines
  <1>6. Len(Recent(max)) = n
    BY <1>3, <1>4, <1>5 DEF TakenIs
  <1>7. n < L => r.full
    BY <1>1, <1>4
  <1> QED
    BY <1>3, <1>4, <1>6, <1>7 DEF TakenIs

\* The size is off by the bytes that completed lines, modulo the width.
LEMMA DriftIsSize == BufferIInv => SizeDrift
  <1> SUFFICES ASSUME BufferIInv
               PROVE  SizeDrift
    OBVIOUS
  <1> DEFINE x == total_size + completing
             h == Held(lines)
  <1>1. Parts
    BY BufferParts
  <1>2. x \in {h, h + Width} /\ h \in 0..MaxAppended
    BY <1>1, HeldBound DEF Parts
  <1> HIDE DEF x, h
  <1>3. h \in 0..(Width - 1) /\ Width > 0 /\ x \in Int
    BY <1>2, WidthBound
  <1>4. CASE x = h
    <2>1. x % Width = h
      BY <1>3, <1>4, WidthBound, Modulo
    <2> QED
      BY <2>1 DEF SizeDrift, x, h
  <1>5. CASE x = h + Width
    <2>1. x \in Width..(Width + Width - 1) /\ x - Width = h
      BY <1>3, <1>5, WidthBound
    <2>2. x % Width = h
      BY <1>3, <2>1, WidthBound, Modulo
    <2> QED
      BY <2>2 DEF SizeDrift, x, h
  <1> QED
    BY <1>2, <1>4, <1>5

\* The types, the range of the size, and that the flag of append fits the last line.
THEOREM BufferInvCorrect == BufferSpec => []BufferInv
  <1>1. BufferIInv => BufferInv
    BY DEF BufferIInv
  <1> QED
    BY <1>1, BufferInvariance, PTL

\* append keeps the end of the output, without a gap.
THEOREM HoldsTheEndCorrect == BufferSpec => []HoldsTheEnd
  <1>1. BufferIInv => HoldsTheEnd
    BY DEF BufferIInv
  <1> QED
    BY <1>1, BufferInvariance, PTL

\* get_recent returns the end of what is held, as much as was asked for allows.
THEOREM RecentIsEndCorrect == BufferSpec => []RecentIsEnd
  BY RecentIsTheEnd, BufferInvariance, PTL

\* append's total_size is short by exactly the bytes that completed a line.
THEOREM SizeDriftCorrect == BufferSpec => []SizeDrift
  BY DriftIsSize, BufferInvariance, PTL
=============================================================================
