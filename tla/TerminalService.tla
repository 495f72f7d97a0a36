-------------------------- MODULE TerminalService --------------------------
(***************************************************************************)
(* The terminals of the host (src/src/server/terminal_service.rs), for one  *)
(* service id: the registry entry, the PersistentTerminalService objects    *)
(* that have been registered under the id, their sessions (shells), the     *)
(* connections that name the id in their login, the reader loop each        *)
(* connection runs, and the cleanup task.                                   *)
(*                                                                         *)
(* An action is what happens under one acquisition of the registry lock or  *)
(* of a service lock.  Objects are numbered in the order of their creation; *)
(* an object that nothing refers to is dropped, which stops its sessions, so *)
(* whether a session runs depends on Reachable.                             *)
(*                                                                         *)
(* The host notices that a session has ended by its reader_thread being     *)
(* finished: at the end of file, which a direct shell that exits causes on  *)
(* macOS and, as the code notes, not on Linux or Windows; or at an error.   *)
(***************************************************************************)
EXTENDS Naturals, FiniteSets, Sequences

CONSTANTS
  Conn,        \* connections of the peer, numbered as they come
  Term,        \* terminal ids
  MaxServices, \* bound on the service objects created
  MaxSessions, \* bound on the sessions created
  Overlap      \* TRUE: the peer may come back before its old connection ended

ASSUME ConnNumbered == Conn \subseteq Nat /\ IsFiniteSet(Conn)
ASSUME BoundsNat == MaxServices \in Nat /\ MaxSessions \in Nat
ASSUME OverlapBool == Overlap \in BOOLEAN

VARIABLES
  registered,  \* the object in TERMINAL_SERVICES, 0 if there is none
  services,    \* the service objects created so far
  sessions,    \* the sessions created so far
  conn,        \* "new", "on", "off" (dropped, joining its reader), "gone"
  action,      \* the terminal action a connection is in, holding the service
  reader,      \* the reader loop of a connection: its place and what it holds
  known,       \* the terminals the peer of a connection has been told of
  open,        \* the terminals it takes for open
  doomed       \* the cleanup task has decided to remove the service

vars == <<registered, services, sessions, conn, action, reader, known, open, doomed>>

NoAction == [op |-> "none"]
Idle == [pc |-> "none"]

Ops == [op : {"open", "close"}, service : 1..MaxServices, term : Term]

Sessions == [Term -> 0..MaxSessions]
NoSessions == [t \in Term |-> 0]

Service == [is_persistent : BOOLEAN, needs_session_sync : BOOLEAN,
            sessions : Sessions]

\* reader_thread is None once stop() has joined it.
Session == [is_opened : BOOLEAN, reader_thread : {"alive", "finished", "None"},
            closed_message_sent : BOOLEAN]

Readers ==
  {Idle} \cup [pc : {"wait", "missed", "loop", "exit", "remove", "done"}]
         \cup [pc : {"read"}, persistent : BOOLEAN, service : 1..MaxServices]
         \cup [pc : {"process"}, persistent : BOOLEAN, service : 1..MaxServices,
               sessions : Sessions]
         \cup [pc : {"clean"}, persistent : BOOLEAN, service : 1..MaxServices,
               closed : (SUBSET Term) \ {{}}]

TypeOK ==
  /\ registered \in 0..Len(services)
  /\ services \in Seq(Service) /\ Len(services) <= MaxServices
  /\ sessions \in Seq(Session) /\ Len(sessions) <= MaxSessions
  /\ conn \in [Conn -> {"new", "on", "off", "gone"}]
  /\ action \in [Conn -> {NoAction} \cup Ops]
  /\ reader \in [Conn -> Readers]
  /\ known \in [Conn -> SUBSET Term]
  /\ open \in [Conn -> SUBSET Term]
  /\ doomed \in BOOLEAN

Init ==
  /\ registered = 0
  /\ services = <<>>
  /\ sessions = <<>>
  /\ conn = [c \in Conn |-> "new"]
  /\ action = [c \in Conn |-> NoAction]
  /\ reader = [c \in Conn |-> Idle]
  /\ known = [c \in Conn |-> {}]
  /\ open = [c \in Conn |-> {}]
  /\ doomed = FALSE

-----------------------------------------------------------------------------

Terms(v) == {t \in Term : services[v].sessions[t] # 0}
SessionsOf(v) == {services[v].sessions[t] : t \in Terms(v)}

\* The service objects somebody refers to.
Referenced ==
  {v \in DOMAIN services :
     \/ v = registered
     \/ \E c \in Conn : action[c] # NoAction /\ action[c].service = v
     \/ \E c \in Conn : reader[c].pc \in {"read", "process", "clean"} /\ reader[c].service = v}

Reachable(s) ==
  \/ \E v \in Referenced : s \in SessionsOf(v)
  \/ \E c \in Conn : reader[c].pc = "process" /\ \E t \in Term : reader[c].sessions[t] = s

Runs(s) == sessions[s].reader_thread = "alive" /\ Reachable(s)

\* TerminalSession::stop on every session of a set.
Stopped(S) ==
  [s \in DOMAIN sessions |->
     IF s \in S
     THEN [sessions[s] EXCEPT !.is_opened = FALSE, !.reader_thread = "None"]
     ELSE sessions[s]]

\* remove_service: by id, whatever object the id stands for by now, all under
\* the registry lock.
RemoveService ==
  /\ registered' = 0
  /\ sessions' = IF registered = 0 THEN sessions ELSE Stopped(SessionsOf(registered))
  /\ UNCHANGED services

\* Mutant: only a service that changes its persistence asks for a sync.
ResetStatusOnChange(svc, p) ==
  [svc EXCEPT !.is_persistent = p,
              !.needs_session_sync = svc.needs_session_sync \/ svc.is_persistent # p]

\* reset_status when a connection attaches to a service.
ResetStatus(svc, p) ==
  [svc EXCEPT !.is_persistent = p, !.needs_session_sync = TRUE]

-----------------------------------------------------------------------------
(* Connections.                                                             *)

\* init_terminal_service after login: get_or_create_service with its
\* reset_status; the thread of its reader is spawned.
Connect(c) ==
  /\ conn[c] = "new" /\ \A d \in Conn : d < c => conn[d] # "new"
  /\ Overlap \/ \A d \in Conn : conn[d] \in {"new", "gone"}
  /\ \E p \in BOOLEAN :
       IF registered = 0
       THEN /\ Len(services) < MaxServices
            /\ services' = Append(services,
                 [is_persistent |-> p, needs_session_sync |-> TRUE,
                  sessions |-> NoSessions])
            /\ registered' = Len(services) + 1
            /\ UNCHANGED sessions
       ELSE /\ services' = [services EXCEPT ![registered] = ResetStatus(@, p)]
            /\ sessions' = [s \in DOMAIN sessions |->
                 IF s \in SessionsOf(registered)
                 THEN [sessions[s] EXCEPT !.is_opened = FALSE] ELSE sessions[s]]
            /\ UNCHANGED registered
  /\ conn' = [conn EXCEPT ![c] = "on"]
  /\ reader' = [reader EXCEPT ![c] = [pc |-> "wait"]]
  /\ UNCHANGED <<action, known, open, doomed>>

\* update_terminal_persistence.
SetPersistent(c) ==
  /\ conn[c] = "on" /\ action[c] = NoAction
  /\ registered # 0
  /\ services' = [services EXCEPT ![registered].is_persistent = ~@]
  /\ UNCHANGED <<registered, sessions, conn, action, reader, known, open, doomed>>

\* handle_action, up to the lock of the service; without a service there is only
\* an error message.
HandleAction(c) ==
  /\ conn[c] = "on" /\ action[c] = NoAction
  /\ registered # 0
  /\ \E op \in {"open", "close"}, t \in Term :
       action' = [action EXCEPT ![c] = [op |-> op, service |-> registered, term |-> t]]
  /\ UNCHANGED <<registered, services, sessions, conn, reader, known, open, doomed>>

\* handle_open and what the peer learns from the TerminalOpened message.
Opened(c, v, t) ==
  /\ known' = [known EXCEPT ![c] = @ \cup {t} \cup
       IF services[v].needs_session_sync THEN Terms(v) ELSE {}]
  /\ open' = [open EXCEPT ![c] = @ \cup {t}]

HandleOpen(c) ==
  LET v == action[c].service
      t == action[c].term
      s == services[v].sessions[t]
  IN /\ action[c].op = "open"
     /\ \/ /\ s # 0
           /\ sessions' = [sessions EXCEPT ![s].is_opened = TRUE]
           /\ services' = [services EXCEPT ![v].needs_session_sync = FALSE]
           /\ Opened(c, v, t)
        \/ /\ s = 0
           /\ Len(sessions) < MaxSessions
           /\ sessions' = Append(sessions,
                [is_opened |-> TRUE, reader_thread |-> "alive", closed_message_sent |-> FALSE])
           /\ services' = [services EXCEPT ![v].needs_session_sync = FALSE,
                                           ![v].sessions[t] = Len(sessions) + 1]
           /\ Opened(c, v, t)
        \/ /\ s = 0                    \* no pseudo-terminal, no shell: an error
           /\ UNCHANGED <<sessions, services, known, open>>
     /\ action' = [action EXCEPT ![c] = NoAction]
     /\ UNCHANGED <<registered, conn, reader, doomed>>

\* handle_close: the session leaves the map whether its child is killed or not;
\* the peer is told that it closed, or that closing it failed.
HandleClose(c) ==
  LET v == action[c].service
      t == action[c].term
  IN /\ action[c].op = "close"
     /\ IF services[v].sessions[t] = 0
        THEN UNCHANGED <<services, open>>
        ELSE /\ services' = [services EXCEPT ![v].sessions[t] = 0]
             /\ open' = [open EXCEPT ![c] = @ \ {t}]
     /\ action' = [action EXCEPT ![c] = NoAction]
     /\ UNCHANGED <<registered, sessions, conn, reader, known, doomed>>

\* Drop of Connection: join() clears active and waits for the reader loop.  The
\* peer is gone, and with it what it knew.
Disconnect(c) ==
  /\ conn[c] = "on" /\ action[c] = NoAction
  /\ conn' = [conn EXCEPT ![c] = "off"]
  /\ known' = [known EXCEPT ![c] = {}]
  /\ open' = [open EXCEPT ![c] = {}]
  /\ UNCHANGED <<registered, services, sessions, action, reader, doomed>>

Joined(c) ==
  /\ conn[c] = "off" /\ reader[c].pc \in {"missed", "done"}
  /\ conn' = [conn EXCEPT ![c] = "gone"]
  /\ UNCHANGED <<registered, services, sessions, action, reader, known, open, doomed>>

-----------------------------------------------------------------------------
(* The reader of a connection: the thread of GenericService::run, run and    *)
(* read_outputs.                                                            *)

\* The thread looks every HIBERNATE_TIMEOUT whether there is a subscriber.
EnterRun(c) ==
  /\ reader[c].pc = "wait" /\ conn[c] = "on"
  /\ reader' = [reader EXCEPT ![c] = [pc |-> "loop"]]
  /\ UNCHANGED <<registered, services, sessions, conn, action, known, open, doomed>>

\* join() came first: the thread ends, and run with its clean up is never called.
LeaveWait(c) ==
  /\ reader[c].pc = "wait" /\ conn[c] = "off"
  /\ reader' = [reader EXCEPT ![c] = [pc |-> "missed"]]
  /\ UNCHANGED <<registered, services, sessions, conn, action, known, open, doomed>>

\* One round: the persistence is read first, and used when the round ends.
ReadOutputs(c) ==
  /\ reader[c].pc = "loop" /\ conn[c] = "on"
  /\ registered # 0
  /\ reader' = [reader EXCEPT ![c] =
       [pc |-> "read", persistent |-> services[registered].is_persistent,
        service |-> registered]]
  /\ UNCHANGED <<registered, services, sessions, conn, action, known, open, doomed>>

CloneSessions(c) ==
  /\ reader[c].pc = "read"
  /\ reader' = [reader EXCEPT ![c] =
       [pc |-> "process", persistent |-> @.persistent, service |-> @.service,
        sessions |-> services[@.service].sessions]]
  /\ UNCHANGED <<registered, services, sessions, conn, action, known, open, doomed>>

\* A session whose reader_thread is finished is noted once.
Ended(c) ==
  {t \in Term : LET s == reader[c].sessions[t] IN
     s # 0 /\ sessions[s].reader_thread = "finished" /\ ~sessions[s].closed_message_sent}

\* Mutant: the cleaning is not skipped when there is nothing to clean.
AfterProcessAlways(c) ==
  [pc |-> "clean", persistent |-> reader[c].persistent,
   service |-> reader[c].service, closed |-> Ended(c)]

AfterProcess(c) ==
  IF Ended(c) = {} THEN [pc |-> "loop"]
  ELSE [pc |-> "clean", persistent |-> reader[c].persistent,
        service |-> reader[c].service, closed |-> Ended(c)]

Process(c) ==
  /\ reader[c].pc = "process"
  /\ sessions' = [s \in DOMAIN sessions |->
       IF \E t \in Ended(c) : reader[c].sessions[t] = s
       THEN [sessions[s] EXCEPT !.closed_message_sent = TRUE] ELSE sessions[s]]
  /\ reader' = [reader EXCEPT ![c] = AfterProcess(c)]
  /\ UNCHANGED <<registered, services, conn, action, known, open, doomed>>

\* Mutant: the peer is told only of the sessions that are taken out.
ClosedMessagesRemoved(c) == IF reader[c].persistent THEN {} ELSE reader[c].closed

\* The terminals the responses of a round say are closed.
ClosedMessages(c) == reader[c].closed

\* By terminal id, whatever session the id stands for by now.
CleanUp(c) ==
  LET v == reader[c].service
  IN /\ reader[c].pc = "clean"
     /\ services' = IF reader[c].persistent THEN services
                    ELSE [services EXCEPT ![v].sessions =
                           [t \in Term |-> IF t \in reader[c].closed THEN 0 ELSE @[t]]]
     /\ open' = [open EXCEPT ![c] = @ \ ClosedMessages(c)]
     /\ reader' = [reader EXCEPT ![c] = [pc |-> "loop"]]
     /\ UNCHANGED <<registered, sessions, conn, action, known, doomed>>

LeaveLoop(c) ==
  /\ reader[c].pc = "loop" /\ conn[c] = "off"
  /\ reader' = [reader EXCEPT ![c] = [pc |-> "exit"]]
  /\ UNCHANGED <<registered, services, sessions, conn, action, known, open, doomed>>

\* Mutant: a service with sessions is left to the cleanup task.
ShouldRemoveEmpty ==
  registered # 0 /\ ~services[registered].is_persistent /\ Terms(registered) = {}

ShouldRemove == registered # 0 /\ ~services[registered].is_persistent

ExitLoop(c) ==
  /\ reader[c].pc = "exit"
  /\ reader' = [reader EXCEPT ![c] = [pc |-> IF ShouldRemove THEN "remove" ELSE "done"]]
  /\ UNCHANGED <<registered, services, sessions, conn, action, known, open, doomed>>

RemoveAtExit(c) ==
  /\ reader[c].pc = "remove"
  /\ RemoveService
  /\ reader' = [reader EXCEPT ![c] = [pc |-> "done"]]
  /\ UNCHANGED <<conn, action, known, open, doomed>>

-----------------------------------------------------------------------------
(* The cleanup task, the threads of the sessions, and time.                 *)

\* Mutant: only what has no terminals is ever idle.
InactiveEmpty(v) == Terms(v) = {}

\* An hour without activity, or two, may pass between any two steps.
Inactive(v) == ~services[v].is_persistent \/ Terms(v) = {}

\* cleanup_inactive_services decides under the registry lock, and removes after
\* it was released.
CleanupInactive ==
  /\ ~doomed /\ registered # 0
  /\ Inactive(registered)
  /\ doomed' = TRUE
  /\ UNCHANGED <<registered, services, sessions, conn, action, reader, known, open>>

CleanupRemove ==
  /\ doomed
  /\ RemoveService
  /\ doomed' = FALSE
  /\ UNCHANGED <<conn, action, reader, known, open>>

ReaderThreadEnds(s) ==
  /\ Runs(s)
  /\ sessions' = [sessions EXCEPT ![s].reader_thread = "finished"]
  /\ UNCHANGED <<registered, services, conn, action, reader, known, open, doomed>>

-----------------------------------------------------------------------------

Reader(c) ==
  \/ EnterRun(c) \/ LeaveWait(c)
  \/ ReadOutputs(c) \/ CloneSessions(c) \/ Process(c) \/ CleanUp(c)
  \/ LeaveLoop(c) \/ ExitLoop(c) \/ RemoveAtExit(c)

Connection(c) ==
  \/ Connect(c) \/ SetPersistent(c) \/ HandleAction(c)
  \/ HandleOpen(c) \/ HandleClose(c)
  \/ Disconnect(c) \/ Joined(c)

Next ==
  \/ \E c \in Conn : Reader(c) \/ Connection(c)
  \/ CleanupInactive \/ CleanupRemove
  \/ \E s \in DOMAIN sessions : ReaderThreadEnds(s)

Spec == Init /\ [][Next]_vars

NobodyOn == \A c \in Conn : conn[c] # "on"

\* The readers are threads that wait for nothing but short locks; the cleanup task
\* looks again and again, and a service nobody is connected to stays idle.
FairSpec ==
  /\ Spec
  /\ \A c \in Conn : WF_vars(Reader(c))
  /\ WF_vars(NobodyOn /\ CleanupInactive) /\ WF_vars(CleanupRemove)

-----------------------------------------------------------------------------
(* What holds.                                                              *)

\* The reader of a connection was joined before it ran, so that the connection
\* leaves the service to the next one or to the cleanup task.
Missed(c) ==
  /\ reader[c].pc = "missed"
  /\ Overlap \/ \A d \in Conn : d > c => conn[d] = "new"

\* A service that is not persistent does not outlive its connections: when all
\* have ended, and none is to come back, it is gone, unless the last of them was
\* dropped before its reader had looked for a subscriber.
NonPersistentEnds ==
  (\A c \in Conn : conn[c] \in {"new", "gone"}) =>
    registered = 0 \/ services[registered].is_persistent \/ \E c \in Conn : Missed(c)

\* A service that is not persistent and that nobody is connected to is taken in the
\* end, by the reader it had or by the cleanup task (run,
\* cleanup_inactive_services), unless somebody comes back for it.
IdleRemoved ==
  (registered # 0 /\ ~services[registered].is_persistent /\ NobodyOn)
    ~> (registered = 0 \/ ~NobodyOn)

\* A peer that comes back, and opens one terminal, knows all there are.
\* (Without overlapping connections.)
RestoreComplete ==
  \A c \in Conn :
    (conn[c] = "on" /\ registered # 0 /\ open[c] # {}) =>
      Terms(registered) \subseteq known[c]

\* A peer has t open, whose reader_thread has ended, and nobody was told.
Untold(c, t) ==
  /\ conn[c] = "on" /\ t \in open[c] /\ registered # 0
  /\ LET s == services[registered].sessions[t] IN
       s # 0 /\ sessions[s].reader_thread = "finished" /\ ~sessions[s].closed_message_sent

\* A peer that has a terminal open is told when the reader_thread of its session
\* has ended, if nobody has been told before: that it closed, that closing it
\* failed, or, where the service was cleaned up as idle, that the service is gone.
\* (Without overlapping connections.)  An exit of the shell that does not end the
\* thread is not noticed, and nobody is told of it.
EndIsTold ==
  \A t \in Term :
    (\E c \in Conn : Untold(c, t))
    ~> (registered = 0 \/ \A c \in Conn : conn[c] = "on" => t \notin open[c])

-----------------------------------------------------------------------------
(* What a comment says and the code does not do.                            *)

\* "Persistent terminal service that can survive connection drops": the end of a
\* connection never stops a terminal of a service that is persistent.  It does not
\* hold: between the decision of a reader to remove the service and the removal by
\* its id, the peer may have come back and made it persistent.
SurvivesDrop ==
  [][\A c \in Conn : RemoveAtExit(c) =>
       \A s \in DOMAIN sessions : (Runs(s) /\ sessions'[s].reader_thread # "alive") =>
          ~services[registered].is_persistent]_vars

\* "Clean up closed terminals".  The reader loop takes a terminal out of the
\* service only after its session has ended.  It does not hold: the terminal may
\* have been closed and opened again.
OnlyClosedCleaned ==
  [][\A c \in Conn, v \in DOMAIN services :
       (CleanUp(c) /\ reader[c].service = v) =>
         \A t \in Term : services'[v].sessions[t] # services[v].sessions[t] =>
           sessions[services[v].sessions[t]].reader_thread # "alive"]_vars
-----------------------------------------------------------------------------
(* The inductive invariant of the proofs.                                    *)

\* Whoever refers to a service or a session refers to one that was created.
References ==
  /\ \A c \in Conn : action[c] # NoAction => action[c].service \in DOMAIN services
  /\ \A c \in Conn : reader[c].pc \in {"read", "process", "clean"} =>
                       reader[c].service \in DOMAIN services
  /\ \A v \in DOMAIN services, t \in Term : services[v].sessions[t] \in 0..Len(sessions)
  /\ \A c \in Conn, t \in Term :
       reader[c].pc = "process" => reader[c].sessions[t] \in 0..Len(sessions)

\* Connections come in the order of their numbers.  The reader of one runs while it
\* is on, and is over when it is gone; only who is on acts.
LoopOfConn ==
  \A c \in Conn :
    /\ \A d \in Conn : d > c /\ conn[d] # "new" => conn[c] # "new"
    /\ conn[c] = "new" => reader[c].pc = "none"
    /\ conn[c] = "on" => reader[c].pc \in {"wait", "loop", "read", "process", "clean"}
    /\ conn[c] = "off" => reader[c].pc # "none"
    /\ conn[c] = "gone" => reader[c].pc \in {"missed", "done"}
    /\ conn[c] # "on" => action[c] = NoAction /\ open[c] = {}

\* A service that is not persistent has a reader that is still to look at it, or was
\* missed by the last one.
Watched ==
  registered # 0 /\ ~services[registered].is_persistent =>
    \E c \in Conn : reader[c].pc \notin {"none", "missed", "done"} \/ Missed(c)

\* Without overlapping connections: one at a time, which acts on the service that
\* is registered, if any is.
OneAtATime ==
  /\ \A c, d \in Conn : conn[c] \in {"on", "off"} /\ conn[d] \in {"on", "off"} => c = d
  /\ \A c, d \in Conn : conn[c] \in {"on", "off"} /\ d > c => conn[d] = "new"
  /\ registered # 0 =>
       \A c \in Conn : action[c] # NoAction => action[c].service = registered

\* What the peer has not been told of is still to be synchronised.
SyncPending ==
  registered # 0 =>
    \A c \in Conn : conn[c] = "on" =>
      IF services[registered].needs_session_sync THEN open[c] = {}
      ELSE Terms(registered) \subseteq known[c]

IInv ==
  /\ TypeOK /\ References /\ LoopOfConn /\ Watched
  /\ ~Overlap => OneAtATime /\ SyncPending
=============================================================================
