----------------------------- MODULE PrivacyMode -----------------------------
(***************************************************************************)
(* Privacy mode of a Windows host: src/src/privacy_mode.rs, its two kinds   *)
(* of implementation, turn_on_privacy, turn_off_privacy and the ends of a    *)
(* connection in src/src/server/connection.rs, and the watch the video      *)
(* service keeps on it.  One peer at a time holds it, the user at the host   *)
(* may end it, and every step under the lock of PRIVACY_MODE is one action.  *)
(*                                                                         *)
(* "topmost" stands for win_mag, with the window that covers the screen;     *)
(* "virtual" for win_virtual_display on the amyuni driver, which is turned   *)
(* on by a thread that the connection waits for with a timeout.             *)
(***************************************************************************)
EXTENDS Naturals, FiniteSets

CONSTANTS Conn,        \* connections; a connection's id is used once
          NoConn,      \* INVALID_PRIVACY_MODE_CONN_ID
          MaxRequests, \* bound on requests, and on what the user at the host does
          MaxFailures  \* bound on what Windows refuses

Impl == {"topmost", "virtual"}

\* turn_on_privacy_sync is called by the connection itself, by a thread the
\* connection waits for, or by a thread it has given up.
Mode == {"sync", "async", "late"}

ASSUME NoConnIsNone == NoConn \notin Conn
ASSUME PrivacyBounds == MaxRequests \in Nat /\ MaxFailures \in Nat

VARIABLES
  impl,      \* the implementation in PRIVACY_MODE
  holder,    \* its conn_id
  applied,   \* the implementations in effect on the host's screen and input
  pc,        \* how far each connection is
  step,      \* what its handler is at, "idle" in its loop
  threads,   \* requests under way: who asked, for what, its number, and its mode
  late,      \* connections whose thread had not answered in time
  shows,     \* connections whose peer shows privacy mode as on
  off_by_peer, \* connections with PrvOffByPeer under way
  on_by_other, \* connections with PrvOnByOther under way
  captured,  \* privacy_mode_id of the capturer
  restarting, \* the video service is between two capturers
  requests, failures

modeVars == <<impl, holder, applied>>
peerVars == <<pc, shows, on_by_other>>
videoVars == <<captured, restarting>>
vars == <<modeVars, step, threads, late, peerVars, off_by_peer, videoVars, requests, failures>>

TypeOK ==
  /\ impl \in Impl /\ holder \in Conn \cup {NoConn} /\ applied \subseteq Impl
  /\ pc \in [Conn -> {"out", "login", "in", "closing", "leaving", "gone"}]
  /\ step \in [Conn -> {"idle", "wait", "check", "failed", "off"}]
  /\ threads \subseteq Conn \X Impl \X (1..MaxRequests) \X Mode
  /\ \A c \in Conn : step[c] = "wait" <=> \E t \in threads : t[1] = c /\ t[4] # "late"
  /\ {late, shows, off_by_peer, on_by_other} \subseteq SUBSET Conn
  /\ captured \in Conn \cup {NoConn} /\ restarting \in BOOLEAN
  /\ requests \in 0..MaxRequests /\ failures \in 0..MaxFailures

Init ==
  /\ impl \in Impl /\ holder = NoConn /\ applied = {}
  /\ pc = [c \in Conn |-> "out"] /\ step = [c \in Conn |-> "idle"]
  /\ threads = {} /\ late = {} /\ shows = {} /\ off_by_peer = {} /\ on_by_other = {}
  /\ captured = NoConn /\ restarting = FALSE
  /\ requests = 0 /\ failures = 0

Request == requests < MaxRequests /\ requests' = requests + 1
Failure == failures < MaxFailures /\ failures' = failures + 1
At(c, s) == pc[c] = "in" /\ step[c] = s
Goto(c, s) == step' = [step EXCEPT ![c] = s]
Becomes(c, p) == pc' = [pc EXCEPT ![c] = p]

-----------------------------------------------------------------------------
(* privacy_mode.rs.                                                          *)

\* check_on_conn_id.
Occupied(c) == holder \notin {NoConn, c}

\* check_off_conn_id.
MayTurnOff(c) == NoConn \in {holder, c} \/ holder = c

\* turn_off_privacy: refused, done, or failed half way.
TurnOff(c) ==
  \/ ~MayTurnOff(c) /\ UNCHANGED <<holder, applied, failures>>
  \/ /\ MayTurnOff(c)
     /\ holder' = NoConn /\ applied' = applied \ {impl}
     /\ UNCHANGED failures
  \/ MayTurnOff(c) /\ Failure /\ UNCHANGED <<holder, applied>>

\* Mutant: the implementation before is left as it is.
AfterClearKept == applied

\* clear, and the end of the implementation before: both try to turn it off.
AfterClear == applied \ {impl}

\* turn_on_privacy_sync: already on, occupied by another, or turned on, after
\* the implementation before was cleared, if it is another one.
TurnOnSync(c, k, result) ==
  IF Occupied(c) THEN result = "error" /\ UNCHANGED <<modeVars, failures>>
  ELSE IF holder = c /\ impl = k THEN result = "on" /\ UNCHANGED <<modeVars, failures>>
  ELSE
    /\ impl' = k
    /\ \E cleared, restored \in BOOLEAN :
         LET left == IF impl # k /\ cleared THEN AfterClear ELSE applied IN
         /\ impl = k => cleared
         /\ ~restored => result = "error" /\ k = "virtual"
         /\ IF cleared /\ restored THEN UNCHANGED failures ELSE Failure
         /\ holder' = IF result = "on" THEN c ELSE NoConn
         /\ applied' = IF result = "on" \/ ~restored THEN left \cup {k}
                       ELSE IF k = "virtual" THEN left \ {k} ELSE left

\* switch, from the options of the user at the host: what was on ends with the
\* implementation, if it can be turned off.
Switch(k) ==
  /\ Request
  /\ k # impl /\ impl' = k
  /\ holder' = NoConn
  /\ \/ applied' = applied \ (IF holder = NoConn THEN {} ELSE {impl}) /\ UNCHANGED failures
     \/ holder # NoConn /\ Failure /\ UNCHANGED applied
  /\ UNCHANGED <<step, threads, late, peerVars, off_by_peer, videoVars>>

\* The user at the host presses Ctrl + P, or closes the service: every peer is
\* told through the connection manager.
OffByPeer ==
  /\ Request
  /\ TurnOff(NoConn)
  /\ off_by_peer' = IF holder # NoConn /\ failures' = failures
                    THEN off_by_peer \cup {c \in Conn : pc[c] = "in"} ELSE off_by_peer
  /\ UNCHANGED <<impl, step, threads, late, peerVars, videoVars>>

-----------------------------------------------------------------------------
(* A connection.                                                             *)

\* check_privacy_mode_on, and what follows until the peer is authorized.
Login(c) ==
  /\ pc[c] = "out"
  /\ Becomes(c, IF holder = NoConn THEN "login" ELSE "gone")
  /\ UNCHANGED <<modeVars, step, threads, late, shows, on_by_other, off_by_peer, videoVars, requests, failures>>

Authorize(c) ==
  /\ pc[c] = "login"
  /\ Becomes(c, "in")
  /\ UNCHANGED <<modeVars, step, threads, late, shows, on_by_other, off_by_peer, videoVars, requests, failures>>

\* What a connection makes of the result of turn_on_privacy.
Result(c, result) ==
  /\ Goto(c, CASE result = "on" -> "check" [] result = "failed" -> "idle" [] result = "error" -> "failed")
  /\ shows' = IF result = "failed" THEN shows \ {c} ELSE shows

Results == {"on", "failed", "error"}

\* turn_on_privacy: is_async_privacy_mode asks the implementation so far, under
\* a lock of its own; another thread may come before turn_on_privacy_sync.
TurnOn(c, k) ==
  /\ Request
  /\ At(c, "idle")
  /\ threads' = threads \cup {<<c, k, requests', IF impl = "virtual" THEN "async" ELSE "sync">>}
  /\ Goto(c, "wait")
  /\ UNCHANGED <<modeVars, late, peerVars, off_by_peer, videoVars, failures>>

\* turn_on_privacy_sync; its answer is lost when nobody waits for it.
TurnOnNow(t) ==
  /\ t \in threads
  /\ threads' = threads \ {t}
  /\ \E result \in Results :
       /\ result = "failed" => t[2] = "topmost"
       /\ TurnOnSync(t[1], t[2], result)
       /\ IF t[4] = "late" THEN UNCHANGED <<step, shows>> ELSE Result(t[1], result)
  /\ UNCHANGED <<late, pc, on_by_other, off_by_peer, videoVars, requests>>

GivenUp(t) == (threads \ {t}) \cup {<<t[1], t[2], t[3], "late">>}

\* The timeout of turn_on_privacy_async.
Timeout(t) ==
  /\ t \in threads /\ t[4] = "async"
  /\ late' = late \cup {t[1]}
  /\ threads' = GivenUp(t)
  /\ Goto(t[1], "failed")
  /\ UNCHANGED <<modeVars, peerVars, off_by_peer, videoVars, requests, failures>>

\* check_privacy_mode_err: what "topmost" turned on may not work, and is turned
\* off again.
Check(c) ==
  /\ At(c, "check")
  /\ Goto(c, "idle")
  /\ \/ /\ shows' = shows \cup {c} /\ UNCHANGED <<holder, applied, failures>>
     \/ /\ impl = "topmost"
        /\ TurnOff(c)
        /\ shows' = shows \ {c}
  /\ UNCHANGED <<impl, threads, late, pc, on_by_other, off_by_peer, videoVars, requests>>

\* is_in_privacy_mode, after a request that failed or timed out.
Failed(c) ==
  /\ At(c, "failed")
  /\ Goto(c, IF holder # NoConn THEN "off" ELSE "idle")
  /\ shows' = shows \ {c}
  /\ UNCHANGED <<modeVars, threads, late, pc, on_by_other, off_by_peer, videoVars, requests, failures>>

FailedOff(c) ==
  /\ At(c, "off")
  /\ TurnOff(NoConn)
  /\ Goto(c, "idle")
  /\ UNCHANGED <<impl, threads, late, peerVars, off_by_peer, videoVars, requests>>

\* turn_off_privacy, at the request of the peer.
TurnOffRequest(c) ==
  /\ Request
  /\ At(c, "idle")
  /\ TurnOff(c)
  /\ shows' = IF MayTurnOff(c) /\ failures' = failures THEN shows \ {c} ELSE shows
  /\ UNCHANGED <<impl, step, threads, late, pc, on_by_other, off_by_peer, videoVars>>

\* PrvOffByPeer comes through; PrvOnByOther makes the peer leave.
TellOff(c) ==
  /\ c \in off_by_peer /\ At(c, "idle")
  /\ off_by_peer' = off_by_peer \ {c}
  /\ shows' = shows \ {c}
  /\ UNCHANGED <<modeVars, step, threads, late, pc, on_by_other, videoVars, requests, failures>>

\* The loop ends: the peer left, because it was told to or on its own account.
End(c) ==
  /\ At(c, "idle")
  /\ Becomes(c, "closing")
  /\ shows' = shows \ {c}
  /\ off_by_peer' = off_by_peer \ {c}
  /\ on_by_other' = on_by_other \ {c}
  /\ UNCHANGED <<modeVars, step, threads, late, videoVars, requests, failures>>

EndByOther(c) == c \in on_by_other /\ End(c)

\* Mutant: a connection that ends leaves privacy mode to the others.
AfterLoopGone(c) == "gone"

\* get_privacy_mode_conn_id, after the loop.
AfterLoopGoto(c) == IF holder = c THEN "leaving" ELSE "gone"

AfterLoop(c) ==
  /\ pc[c] = "closing"
  /\ Becomes(c, AfterLoopGoto(c))
  /\ UNCHANGED <<modeVars, step, threads, late, shows, on_by_other, off_by_peer, videoVars, requests, failures>>

AfterLoopOff(c) ==
  /\ pc[c] = "leaving"
  /\ TurnOff(c)
  /\ Becomes(c, "gone")
  /\ UNCHANGED <<impl, step, threads, late, shows, on_by_other, off_by_peer, videoVars, requests>>

-----------------------------------------------------------------------------
(* The video service.                                                        *)

\* Mutant: only privacy mode turned on is looked for.
ChangedOnly == holder \notin {NoConn, captured}

Changed == holder # captured

\* check_privacy_mode_changed.
CheckChanged ==
  /\ ~restarting /\ Changed
  /\ restarting' = TRUE
  /\ on_by_other' = IF holder = NoConn THEN on_by_other
                    ELSE on_by_other \cup {c \in Conn \ {holder} : pc[c] = "in"}
  /\ UNCHANGED <<modeVars, step, threads, late, pc, shows, off_by_peer, captured, requests, failures>>

\* get_capturer.
Capture ==
  /\ restarting
  /\ restarting' = FALSE
  /\ captured' = holder
  /\ UNCHANGED <<modeVars, step, threads, late, peerVars, off_by_peer, requests, failures>>

-----------------------------------------------------------------------------

Handler(c) ==
  \/ \E t \in threads : t[1] = c /\ TurnOnNow(t)
  \/ Check(c) \/ Failed(c) \/ FailedOff(c) \/ AfterLoop(c) \/ AfterLoopOff(c)
  \/ TellOff(c) \/ EndByOther(c)

Next ==
  \/ \E c \in Conn :
       \/ Login(c) \/ Authorize(c) \/ TurnOffRequest(c) \/ End(c)
       \/ \E k \in Impl : TurnOn(c, k)
       \/ Handler(c)
  \/ \E t \in threads : Timeout(t)
  \/ \E k \in Impl : Switch(k)
  \/ OffByPeer
  \/ CheckChanged \/ Capture

\* Threads end, connections go on, the video service looks at every frame.
Fairness == (\A c \in Conn : WF_vars(Handler(c))) /\ WF_vars(CheckChanged \/ Capture)

Spec == Init /\ [][Next]_vars
FairSpec == Spec /\ Fairness

-----------------------------------------------------------------------------
(* Properties                                                                *)

\* Privacy mode does not outlive the connection that holds it, unless it came on
\* after the connection had stopped waiting, or Windows refused to end it.
HolderPresent ==
  holder # NoConn /\ pc[holder] = "gone" => holder \in late \/ failures > 0

\* What must hold in every state: types, with the threads that are waited for,
\* and the presence of the holder, in one invariant.
Inv == TypeOK /\ HolderPresent

\* What hides the screen is the implementation in charge, and only while it is
\* held, whatever implementations were asked for or switched to and whichever
\* requests failed half way, unless Windows refused to end one.
HiddenWhileHeld ==
  failures = 0 => applied = IF holder = NoConn THEN {} ELSE {impl}

\* The capturer comes to follow the privacy mode in force, and a peer that the
\* check told of another's privacy mode does not stay beside its holder.  A peer
\* let in after the check, or in before a holder that came to be during the
\* restart of the service, was never told, and stays.
Followed == <>[](captured = holder /\ \A c \in Conn \ {holder} : pc[c] = "in" => c \notin on_by_other)

-----------------------------------------------------------------------------
(* What a comment says and the code does not do.                            *)

\* "Failed to turn off privacy mode that belongs to someone else."  A peer's
\* request, granted or refused, does not end what another peer holds.  It does
\* not hold: a request that is refused ends it.
OthersUntouched ==
  [][\A c, d \in Conn : c # d /\ holder = c /\ step'[d] # step[d] => holder' = c]_vars
-----------------------------------------------------------------------------
(* The inductive invariant of the proofs.                                    *)

\* Only a connection that is in has a request under way, and waits for one
\* thread at a time.
OneAwaited ==
  /\ \A c \in Conn : step[c] # "idle" => pc[c] = "in"
  /\ \A t, u \in threads : t[1] = u[1] /\ t[4] # "late" /\ u[4] # "late" => t = u

\* Who holds privacy mode, or may come to hold it, has been in; a thread that is
\* not waited for has been given up.
HeldFromWithin ==
  /\ holder # NoConn => pc[holder] \notin {"out", "login"}
  /\ \A t \in threads : pc[t[1]] \notin {"out", "login"} /\ (t[4] = "late" => t[1] \in late)

IInv == Inv /\ OneAwaited /\ HeldFromWithin /\ HiddenWhileHeld
=============================================================================
