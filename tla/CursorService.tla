--------------------------- MODULE CursorService ---------------------------
(***************************************************************************)
(* The mouse_cursor service: ServiceTmpl::repeat driving run_cursor         *)
(* (src/src/server/service.rs, src/src/server/input_service.rs).  The       *)
(* thread polls the system cursor, publishes a change to the subscribers    *)
(* and serves the current cursor to the connections that wait for a         *)
(* snapshot.  Each action is one lock acquisition or one system call, so    *)
(* connections come and go between any two of them.                         *)
(*                                                                         *)
(* What a connection is sent reaches its peer in order (one channel per     *)
(* connection), so a send updates the peer's state at once: shown[c] is the *)
(* cursor peer c displays and known[c] the cursors whose pixels it holds.   *)
(***************************************************************************)
EXTENDS ServiceTmpl

CONSTANTS Cursor,   \* cursor handles
          None      \* no cursor: hcursor 0, the empty message, a hidden cursor

ASSUME NoneNotCursor == None \notin Cursor
ASSUME CursorNeedsSnapshot == NeedSnapshot = TRUE   \* new_cursor

VARIABLES
  pc,                 \* where the service thread is
  may_reset,          \* repeat: init() was called and reset() was not
  cursor,             \* the system's cursor, None while it is hidden
  polled,             \* the handle get_cursor returned in this round
  hcursor,            \* StateCursor.hcursor
  cursor_data,        \* StateCursor.cursor_data, named by its cursor
  cached_cursor_data, \* StateCursor.cached_cursor_data
  cached,             \* MouseCursorSub.cached of each subscription
  shown,              \* what each peer displays
  known,              \* the cursors each peer has the pixels of
  late                \* history: subscribed after the snapshot in progress
                      \* was sent, and sent nothing since

threadVars == <<pc, may_reset, polled, hcursor, cursor_data, cached_cursor_data>>
peerVars == <<cached, shown, known>>
vars == <<tmplVars, threadVars, peerVars, cursor, late>>

Steps == {"active", "has_subscribes", "get_cursor", "get_cursor_data",
          "send_shared", "snapshot", "swap_send", "swap_drop", "exit"}

TypeOK ==
  /\ TmplTypeOK
  /\ pc \in Steps
  /\ may_reset \in BOOLEAN
  /\ cursor \in Cursor \cup {None}
  /\ polled \in Cursor \cup {None}
  /\ hcursor \in Cursor \cup {None}
  /\ cursor_data \in Cursor \cup {None}
  /\ cached_cursor_data \in SUBSET Cursor
  /\ cached \in [Conn -> SUBSET Cursor]
  /\ shown \in [Conn -> Cursor \cup {None}]
  /\ known \in [Conn -> SUBSET Cursor]
  /\ late \in SUBSET Conn

Init ==
  /\ TmplInit
  /\ pc = "active"
  /\ may_reset = FALSE
  /\ cursor \in Cursor \cup {None}
  /\ polled = None
  /\ hcursor = None
  /\ cursor_data = None
  /\ cached_cursor_data = {}
  /\ cached = [c \in Conn |-> {}]
  /\ shown = [c \in Conn |-> None]
  /\ known = [c \in Conn |-> {}]
  /\ late = {}

-----------------------------------------------------------------------------
(* Sending.  MouseCursorSub::send passes the pixels of a cursor on once and  *)
(* only its id afterwards; a peer that is sent an id shows its own copy.     *)

\* Mutant: one cache for all subscribers instead of one each.
SendOncePerService(S, h) ==
  IF h = None
  THEN UNCHANGED peerVars
  ELSE LET seen == UNION {cached[c] : c \in Conn} IN
       /\ cached' = [c \in Conn |-> IF c \in S THEN cached[c] \cup {h} ELSE cached[c]]
       /\ known' = [c \in Conn |-> IF c \in S /\ h \notin seen
                                   THEN known[c] \cup {h} ELSE known[c]]
       /\ shown' = [c \in Conn |-> IF c \in S THEN h ELSE shown[c]]

Send(S, h) ==
  IF h = None
  THEN UNCHANGED peerVars
  ELSE /\ cached' = [c \in Conn |-> IF c \in S THEN cached[c] \cup {h} ELSE cached[c]]
       /\ known' = [c \in Conn |-> IF c \in S /\ h \notin cached[c]
                                   THEN known[c] \cup {h} ELSE known[c]]
       /\ shown' = [c \in Conn |-> IF c \in S /\ (h \notin cached[c] \/ h \in known[c])
                                   THEN h ELSE shown[c]]

-----------------------------------------------------------------------------
(* Connections and the system.                                              *)

\* Server::add_connection, Server::subscribe: a subscription starts with an
\* empty cache (From<ConnInner>).
Subscribe(c) ==
  /\ ~IsSubed(c)
  /\ OnSubscribe(c)
  /\ cached' = [cached EXCEPT ![c] = {}]
  /\ late' = IF pc = "swap_drop" THEN late \cup {c} ELSE late
  /\ UNCHANGED <<active, threadVars, cursor, shown, known>>

Unsubscribe(c) ==
  /\ IsSubed(c)
  /\ OnUnsubscribe(c)
  /\ late' = late \ {c}
  /\ UNCHANGED <<active, threadVars, cursor, peerVars>>

StopService ==
  /\ Join
  /\ UNCHANGED <<subscribes, new_subscribes, threadVars, cursor, peerVars, late>>

CursorChanges ==
  /\ \E h \in (Cursor \cup {None}) \ {cursor} : cursor' = h
  /\ UNCHANGED <<tmplVars, threadVars, peerVars, late>>

-----------------------------------------------------------------------------
(* The thread: repeat.                                                      *)

CheckActive ==
  /\ pc = "active"
  /\ pc' = IF active THEN "has_subscribes" ELSE "exit"
  /\ UNCHANGED <<tmplVars, may_reset, polled, hcursor, cursor_data,
                 cached_cursor_data, cursor, peerVars, late>>

CallBack ==
  /\ pc = "has_subscribes"
  /\ HasSubscribes
  /\ may_reset' = TRUE
  /\ pc' = "get_cursor"
  /\ UNCHANGED <<tmplVars, polled, hcursor, cursor_data, cached_cursor_data,
                 cursor, peerVars, late>>

\* Mutant: the message outlives the reset.
ResetHandleOnly ==
  /\ pc = "has_subscribes"
  /\ ~HasSubscribes
  /\ hcursor' = None
  /\ cached_cursor_data' = {}
  /\ may_reset' = FALSE
  /\ pc' = "active"
  /\ UNCHANGED <<tmplVars, polled, cursor_data, cursor, peerVars, late>>

ResetState ==
  /\ pc = "has_subscribes"
  /\ ~HasSubscribes
  /\ IF may_reset
     THEN /\ hcursor' = None
          /\ cursor_data' = None
          /\ cached_cursor_data' = {}
          /\ may_reset' = FALSE
     ELSE UNCHANGED <<hcursor, cursor_data, cached_cursor_data, may_reset>>
  /\ pc' = "active"
  /\ UNCHANGED <<tmplVars, polled, cursor, peerVars, late>>

-----------------------------------------------------------------------------
(* The thread: run_cursor.                                                  *)

GetCursor ==
  /\ pc = "get_cursor"
  /\ polled' = cursor
  /\ pc' = IF cursor \in {None, hcursor} THEN "snapshot" ELSE "get_cursor_data"
  /\ UNCHANGED <<tmplVars, may_reset, hcursor, cursor_data, cached_cursor_data,
                 cursor, peerVars, late>>

\* The system does not tell: the round ends before its snapshot.
GetCursorFails ==
  /\ pc = "get_cursor"
  /\ pc' = "active"
  /\ UNCHANGED <<tmplVars, may_reset, polled, hcursor, cursor_data,
                 cached_cursor_data, cursor, peerVars, late>>

\* Mutant: the handle is noted before the call that may fail.
GetCursorDataTooLate ==
  /\ pc = "get_cursor_data"
  /\ hcursor' = polled
  /\ IF polled \in cached_cursor_data \cup {cursor}
     THEN /\ cached_cursor_data' = cached_cursor_data \cup {polled}
          /\ pc' = "send_shared"
     ELSE /\ pc' = "active"
          /\ UNCHANGED cached_cursor_data
  /\ UNCHANGED <<tmplVars, may_reset, polled, cursor_data, cursor, peerVars, late>>

\* The pixels come from the cache, or from the system if it still shows the
\* polled cursor; otherwise the call fails and the round ends.
GetCursorData ==
  /\ pc = "get_cursor_data"
  /\ IF polled \in cached_cursor_data \cup {cursor}
     THEN /\ cached_cursor_data' = cached_cursor_data \cup {polled}
          /\ hcursor' = polled
          /\ pc' = "send_shared"
     ELSE /\ pc' = "active"
          /\ UNCHANGED <<cached_cursor_data, hcursor>>
  /\ UNCHANGED <<tmplVars, may_reset, polled, cursor_data, cursor, peerVars, late>>

SendShared ==
  /\ pc = "send_shared"
  /\ Send(subscribes, hcursor)
  /\ cursor_data' = hcursor
  /\ late' = late \ subscribes
  /\ pc' = "snapshot"
  /\ UNCHANGED <<tmplVars, may_reset, polled, hcursor, cached_cursor_data, cursor>>

\* Mutant: the wrong list is tested.
SnapshotForOld ==
  /\ pc = "snapshot"
  /\ pc' = IF subscribes # {} THEN "swap_send" ELSE "active"
  /\ UNCHANGED <<tmplVars, may_reset, polled, hcursor, cursor_data,
                 cached_cursor_data, cursor, peerVars, late>>

Snapshot ==
  /\ pc = "snapshot"
  /\ pc' = IF new_subscribes # {} THEN "swap_send" ELSE "active"
  /\ UNCHANGED <<tmplVars, may_reset, polled, hcursor, cursor_data,
                 cached_cursor_data, cursor, peerVars, late>>

SwapSend ==
  /\ pc = "swap_send"
  /\ Send(new_subscribes, cursor_data)
  /\ pc' = "swap_drop"
  /\ UNCHANGED <<tmplVars, may_reset, polled, hcursor, cursor_data,
                 cached_cursor_data, cursor, late>>

SwapDrop ==
  /\ pc = "swap_drop"
  /\ SwapNewSubscribes
  /\ pc' = "active"
  /\ UNCHANGED <<active, may_reset, polled, hcursor, cursor_data,
                 cached_cursor_data, cursor, peerVars, late>>

-----------------------------------------------------------------------------

Thread ==
  \/ CheckActive \/ CallBack \/ ResetState
  \/ GetCursor \/ GetCursorFails \/ GetCursorData \/ SendShared
  \/ Snapshot \/ SwapSend \/ SwapDrop

Environment ==
  \/ \E c \in Conn : Subscribe(c) \/ Unsubscribe(c)
  \/ StopService
  \/ CursorChanges

Next == Thread \/ Environment

\* The service thread is a thread of the system's scheduler: it never waits
\* for anything but locks that are held for a bounded time.  The system tells
\* the cursor now and then.
Fairness == WF_vars(Thread) /\ SF_vars(GetCursor)

Spec == Init /\ [][Next]_vars
FairSpec == Spec /\ Fairness

-----------------------------------------------------------------------------
(* What a subscriber is promised.                                            *)

\* No connection is in both lists, so that a message is sent to it once.
OneList == subscribes \cap new_subscribes = {}

\* A peer is told an id only of a cursor whose pixels it was sent before, over
\* every unsubscription, resubscription and promotion: MouseCursorSub caches
\* per subscription, the peer over its whole connection.
IdsResolve ==
  \A c \in Conn : cached[c] \subseteq known[c]

\* Between two rounds a subscriber shows the cursor the service last saw; the
\* only ones that may not are those that subscribed after the snapshot was
\* sent and before ServiceSwap was dropped.
Current ==
  (pc = "active" /\ hcursor # None) =>
    \A c \in subscribes \ late : shown[c] = hcursor

\* The cursor the snapshot hands out is never older than what was published.
SnapshotFresh ==
  pc \in {"snapshot", "swap_send", "swap_drop"} => cursor_data = hcursor

\* The service keeps the promise of a service: the pixels, the ids, the two lists
\* and the steps of the thread come down to bringing subscribers to the cursor
\* last seen.
Promise == INSTANCE Delivery
  WITH State <- Cursor, state <- hcursor, members <- Members, missed <- late, open <- active

Implements == Promise!Spec

\* Whoever stays is brought to the cursor the service stays at, also when the
\* system has hidden it since, unless the cursor changes for ever.
Serves == (<>[][cursor' = cursor]_vars) => Promise!Served

\* The inductive form of the three invariants above: what is true of the two
\* lists at every step of the thread, not only between rounds.
ShownBy(S, h) == h # None => \A c \in S \ late : shown[c] = h

IInv ==
  /\ TypeOK
  /\ OneList
  /\ IdsResolve
  /\ pc # "send_shared" => cursor_data = hcursor /\ ShownBy(subscribes, hcursor)
  /\ pc = "send_shared" => hcursor # None
  /\ pc = "get_cursor_data" => polled # None
  /\ pc = "swap_drop" => ShownBy(new_subscribes, cursor_data)
  /\ late \subseteq Members
  /\ pc # "swap_drop" => late \subseteq subscribes

\* A subscriber that stays shows the cursor the system stays at, unless it
\* subscribed within the snapshot window.
CatchesUp ==
  \A c \in Conn, h \in Cursor :
    (IsSubed(c) /\ c \notin late /\ cursor = h /\ active)
      ~> (shown[c] = h \/ cursor # h \/ ~IsSubed(c) \/ ~active)
=============================================================================
