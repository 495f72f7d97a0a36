--------------------------- MODULE DisplayService ---------------------------
(***************************************************************************)
(* The display service: GenericService::run driving run of                  *)
(* src/src/server/display_service.rs.  SYNC_DISPLAYS is the host's record   *)
(* of its displays, with the flag that tells whether the subscribers were   *)
(* sent it; logins and the video services bring it up to date too.  Every   *)
(* action is one call to the system or one acquisition of a lock.           *)
(*                                                                         *)
(* The displays are versioned: real is what the system has, displays what   *)
(* the record holds, told[c] what peer c was sent last.                     *)
(***************************************************************************)
EXTENDS ServiceTmpl, Naturals

CONSTANTS MaxChange,   \* bound on the changes of the displays
          MaxIgnore    \* bound on the calls of temp_ignore_displays_changed

ASSUME DisplayNeedsSnapshot == NeedSnapshot = TRUE   \* new
ASSUME DisplayBounds == {MaxChange, MaxIgnore} \subseteq Nat

VARIABLES
  pc,         \* where the service thread is
  real,       \* the displays of the system
  displays,   \* SyncDisplaysInfo.displays
  is_synced,  \* SyncDisplaysInfo.is_synced
  ignored,    \* TEMP_IGNORE_DISPLAYS_CHANGED
  ignores,    \* how often they were ignored
  holding,    \* a caller of temp_ignore_displays_changed holds its guard
  sleeping,   \* threads of dropped guards that sleep
  woken,      \* those that cleared the flag and have not taken the lock
  at,         \* where each caller of check_update_displays is
  all,        \* what it enumerated
  msg,        \* the message the thread is about to send
  life,       \* of a connection: "new", "login", "on", "gone"
  told,       \* the displays its peer was sent last
  quiet       \* history: promoted with no message to follow

threadVars == <<pc, msg>>
syncVars == <<displays, is_synced>>
ignoreVars == <<ignored, ignores, holding, sleeping, woken>>
callVars == <<at, all>>
peerVars == <<life, told, quiet>>
vars == <<tmplVars, threadVars, real, syncVars, ignoreVars, callVars, peerVars>>

\* The callers of check_update_displays: a login, a video service, the thread.
Caller == Conn \cup {"video", "display"}

Version == 0..MaxChange
Steps == {"active", "has_subscribes", "ok", "snapshot", "swap", "drop_bail",
          "drop_ignored", "drop_go", "check", "message", "send", "exit"}

TypeOK ==
  /\ TmplTypeOK
  /\ pc \in Steps
  /\ real \in Version /\ displays \in Version /\ msg \in Version
  /\ is_synced \in BOOLEAN /\ ignored \in BOOLEAN /\ holding \in BOOLEAN
  /\ ignores \in 0..MaxIgnore /\ sleeping \in 0..ignores /\ woken \in 0..ignores
  /\ at \in [Caller -> {"idle", "compare", "write", "done"}]
  /\ all \in [Caller -> Version]
  /\ life \in [Conn -> {"new", "login", "on", "gone"}]
  /\ told \in [Conn -> Version]
  /\ quiet \in SUBSET Conn

Init ==
  /\ TmplInit
  /\ pc = "active"
  /\ real = 0 /\ displays = 0 /\ msg = 0
  /\ is_synced = FALSE
  /\ ignored = FALSE /\ holding = FALSE
  /\ ignores = 0 /\ sleeping = 0 /\ woken = 0
  /\ at = [k \in Caller |-> "idle"]
  /\ all = [k \in Caller |-> 0]
  /\ life = [c \in Conn |-> "new"]
  /\ told = [c \in Conn |-> 0]
  /\ quiet = {}

-----------------------------------------------------------------------------
(* check_update_displays, whoever calls it.  The system is asked first; the  *)
(* comparison and the update take the lock one after the other.              *)

Enumerate(k) ==
  /\ at[k] = "idle"
  /\ all' = [all EXCEPT ![k] = real]
  /\ at' = [at EXCEPT ![k] = "compare"]

\* The caller has brought the record up to date and lets its list go.
Done(k) ==
  /\ at' = [at EXCEPT ![k] = "done"]
  /\ all' = [all EXCEPT ![k] = 0]

Compare(k) ==
  /\ at[k] = "compare"
  /\ IF all[k] = displays
     THEN Done(k)
     ELSE at' = [at EXCEPT ![k] = "write"] /\ UNCHANGED all
  /\ UNCHANGED <<tmplVars, threadVars, real, syncVars, ignoreVars, peerVars>>

\* Mutant: a change is taken for known to the peers while changes are ignored.
WriteSynced(k) ==
  /\ at[k] = "write"
  /\ displays' = all[k]
  /\ is_synced' = (is_synced \/ ignored)
  /\ Done(k)
  /\ UNCHANGED <<tmplVars, threadVars, real, ignoreVars, peerVars>>

Write(k) ==
  /\ at[k] = "write"
  /\ displays' = all[k]
  /\ is_synced' = (is_synced /\ ignored)
  /\ Done(k)
  /\ UNCHANGED <<tmplVars, threadVars, real, ignoreVars, peerVars>>

Return(k) == at' = [at EXCEPT ![k] = "idle"]

\* try_broadcast_display_changed of a video service.
VideoChecks ==
  /\ \/ Enumerate("video")
     \/ at["video"] = "done" /\ Return("video") /\ UNCHANGED all
  /\ UNCHANGED <<tmplVars, threadVars, real, syncVars, ignoreVars, peerVars>>

-----------------------------------------------------------------------------
(* Connections.                                                              *)

\* update_get_sync_displays_on_login: the displays are in the PeerInfo that
\* answers the login, the subscription comes after it.
Login(c) ==
  /\ life[c] = "new"
  /\ Enumerate(c)
  /\ life' = [life EXCEPT ![c] = "login"]
  /\ UNCHANGED <<tmplVars, threadVars, real, syncVars, ignoreVars, told, quiet>>

GetSyncDisplays(c) ==
  /\ at[c] = "done"
  /\ told' = [told EXCEPT ![c] = displays]
  /\ Return(c)
  /\ UNCHANGED <<tmplVars, threadVars, real, syncVars, ignoreVars, all, life, quiet>>

Subscribe(c) ==
  /\ life[c] = "login" /\ at[c] = "idle"
  /\ OnSubscribe(c)
  /\ life' = [life EXCEPT ![c] = "on"]
  /\ UNCHANGED <<active, threadVars, real, syncVars, ignoreVars, callVars, told, quiet>>

Unsubscribe(c) ==
  /\ life[c] = "on"
  /\ OnUnsubscribe(c)
  /\ life' = [life EXCEPT ![c] = "gone"]
  /\ told' = [told EXCEPT ![c] = 0]
  /\ quiet' = quiet \ {c}
  /\ UNCHANGED <<active, threadVars, real, syncVars, ignoreVars, callVars>>

-----------------------------------------------------------------------------
(* The system, and temp_ignore_displays_changed.                             *)

DisplaysChange ==
  /\ real < MaxChange
  /\ real' = real + 1
  /\ UNCHANGED <<tmplVars, threadVars, syncVars, ignoreVars, callVars, peerVars>>

\* Turning the virtual-display privacy mode off; one holder at a time.
IgnoreChanges ==
  /\ ~holding /\ ignores < MaxIgnore
  /\ holding' = TRUE
  /\ ignored' = TRUE
  /\ ignores' = ignores + 1
  /\ UNCHANGED <<tmplVars, threadVars, real, syncVars, sleeping, woken, callVars, peerVars>>

DropGuard ==
  /\ holding
  /\ holding' = FALSE
  /\ sleeping' = sleeping + 1
  /\ UNCHANGED <<tmplVars, threadVars, real, syncVars, ignored, ignores, woken,
                 callVars, peerVars>>

\* After a second: also while the next guard is held.
Wake ==
  /\ sleeping > 0
  /\ sleeping' = sleeping - 1
  /\ ignored' = FALSE
  /\ woken' = woken + 1
  /\ UNCHANGED <<tmplVars, threadVars, real, syncVars, ignores, holding, callVars, peerVars>>

\* Mutant: the message of what changed meanwhile is not triggered.
TriggerNothing ==
  /\ woken > 0
  /\ woken' = woken - 1
  /\ UNCHANGED <<tmplVars, threadVars, real, syncVars, ignored, ignores, holding,
                 sleeping, callVars, peerVars>>

Trigger ==
  /\ woken > 0
  /\ woken' = woken - 1
  /\ is_synced' = FALSE
  /\ UNCHANGED <<tmplVars, threadVars, real, displays, ignored, ignores, holding,
                 sleeping, callVars, peerVars>>

StopService ==
  /\ Join
  /\ UNCHANGED <<subscribes, new_subscribes, threadVars, real, syncVars, ignoreVars,
                 callVars, peerVars>>

-----------------------------------------------------------------------------
(* The thread.                                                               *)

Decide(step) ==
  /\ pc' = step
  /\ UNCHANGED <<tmplVars, msg, real, syncVars, ignoreVars, callVars, peerVars>>

CheckActive ==
  /\ pc = "active"
  /\ Decide(IF active THEN "has_subscribes" ELSE "exit")

CheckSubscribes ==
  /\ pc = "has_subscribes"
  /\ Decide(IF HasSubscribes THEN "ok" ELSE "active")

CheckOk ==
  /\ pc = "ok"
  /\ Decide(IF active /\ HasSubscribes THEN "snapshot" ELSE "active")

Snapshot ==
  /\ pc = "snapshot"
  /\ Decide(IF new_subscribes # {} THEN "swap" ELSE "check")

\* Mutant: run starts over for the new subscriber, with the flag as it is.
SwapKeepsSync ==
  /\ pc = "swap"
  /\ Decide(IF ignored THEN "drop_ignored"
            ELSE IF subscribes # {} THEN "drop_bail" ELSE "drop_go")

\* The callback of the snapshot: with others subscribed already, everybody is
\* sent the displays again.
Swap ==
  /\ pc = "swap"
  /\ \/ ignored /\ pc' = "drop_ignored" /\ UNCHANGED is_synced
     \/ ~ignored /\ subscribes # {} /\ pc' = "drop_bail" /\ is_synced' = FALSE
     \/ ~ignored /\ subscribes = {} /\ pc' = "drop_go" /\ UNCHANGED is_synced
  /\ UNCHANGED <<tmplVars, msg, real, displays, ignoreVars, callVars, peerVars>>

SwapDrop ==
  /\ pc \in {"drop_bail", "drop_ignored", "drop_go"}
  /\ SwapNewSubscribes
  /\ quiet' = IF pc = "drop_go" THEN quiet \cup new_subscribes ELSE quiet
  /\ pc' = IF pc = "drop_bail" THEN "active" ELSE "check"
  /\ UNCHANGED <<active, msg, real, syncVars, ignoreVars, callVars, life, told>>

\* check_get_displays_changed_msg; a round whose enumeration fails ends.
Check ==
  /\ pc = "check"
  /\ Enumerate("display")
  /\ pc' = "message"
  /\ UNCHANGED <<tmplVars, msg, real, syncVars, ignoreVars, peerVars>>

CheckFails ==
  /\ pc = "check"
  /\ Decide("ok")

\* get_displays_msg: the flag is set before anything is sent.
GetDisplaysMsg ==
  /\ pc = "message" /\ at["display"] = "done"
  /\ Return("display")
  /\ is_synced' = TRUE
  /\ IF is_synced
     THEN pc' = "ok" /\ UNCHANGED msg
     ELSE pc' = "send" /\ msg' = displays
  /\ UNCHANGED <<tmplVars, real, displays, ignoreVars, all, peerVars>>

Send ==
  /\ pc = "send"
  /\ told' = [c \in Conn |-> IF c \in subscribes THEN msg ELSE told[c]]
  /\ msg' = 0
  /\ quiet' = quiet \ subscribes
  /\ pc' = "ok"
  /\ UNCHANGED <<tmplVars, real, syncVars, ignoreVars, callVars, life>>

-----------------------------------------------------------------------------

Thread ==
  \/ CheckActive \/ CheckSubscribes \/ CheckOk \/ Snapshot \/ Swap \/ SwapDrop
  \/ Check \/ CheckFails \/ Compare("display") \/ Write("display")
  \/ GetDisplaysMsg \/ Send

Connection(c) ==
  \/ Login(c) \/ Compare(c) \/ Write(c) \/ GetSyncDisplays(c)
  \/ Subscribe(c) \/ Unsubscribe(c)

Video == VideoChecks \/ Compare("video") \/ Write("video")

Next ==
  \/ Thread \/ Video
  \/ \E c \in Conn : Connection(c)
  \/ DisplaysChange \/ IgnoreChanges \/ DropGuard \/ Wake \/ Trigger
  \/ StopService

Spec == Init /\ [][Next]_vars

\* The thread runs and can enumerate the displays now and then; the holder
\* drops its guard and the thread of the guard wakes up.
FairSpec ==
  /\ Spec
  /\ WF_vars(Thread) /\ SF_vars(Check)
  /\ WF_vars(DropGuard) /\ WF_vars(Wake) /\ WF_vars(Trigger)

-----------------------------------------------------------------------------

\* is_synced does not lie: when it is set, changes are not ignored and nothing
\* is under way, every subscriber was sent what the record holds, whoever wrote
\* it and whenever they subscribed.  Excepted are those promoted while nobody
\* else was subscribed: run sends them nothing until the next change, though
\* the displays may have changed since their login.
Synced ==
  (is_synced /\ ~ignored /\ woken = 0 /\ pc # "send") =>
    \A c \in subscribes \ quiet : told[c] = displays

\* Every guard that was taken is held, or its thread sleeps, or has woken up and
\* not yet triggered, or is done.
Guards == sleeping + woken + (IF holding THEN 1 ELSE 0) <= ignores

\* The inductive invariant behind Synced: a message that is about to be sent holds
\* what the record holds, and a swap that tells nobody leaves the flag cleared, or
\* to be cleared by a guard.
IInv ==
  /\ TypeOK
  /\ Guards
  /\ Synced
  /\ pc = "send" /\ is_synced /\ ~ignored /\ woken = 0 => msg = displays
  /\ pc = "drop_bail" => ~is_synced
  /\ pc = "drop_ignored" /\ is_synced => ignored \/ woken > 0

\* The displays the system stays with reach every subscriber that stays, a
\* change while changes were ignored included.
Reaches(c) ==
  (life[c] = "on" /\ c \notin quiet)
    ~> (told[c] = real \/ life[c] # "on" \/ c \in quiet \/ ~active)

ChangesReach == \A c \in Conn : Reaches(c)
=============================================================================
