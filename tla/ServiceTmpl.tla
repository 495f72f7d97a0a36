---------------------------- MODULE ServiceTmpl ----------------------------
(***************************************************************************)
(* The subscriber lists every service of the host is built on              *)
(* (src/src/server/service.rs).  A service is one thread and one           *)
(* RwLock<ServiceInner>; each operator below is one acquisition of that    *)
(* lock, so a service module composes its steps from them and interleaves  *)
(* them with the connections that subscribe and unsubscribe.               *)
(*                                                                         *)
(* A service created with need_snapshot parks a new subscriber in          *)
(* new_subscribes until a snapshot has been taken for it; the thread sends *)
(* ordinary messages to subscribes only.                                   *)
(***************************************************************************)
EXTENDS Connections   \* each has at most one subscription

CONSTANT NeedSnapshot    \* ServiceInner.need_snapshot

ASSUME NeedSnapshotBool == NeedSnapshot \in BOOLEAN

VARIABLES subscribes,      \* connections that receive what is published
          new_subscribes,  \* connections that wait for a snapshot
          active           \* cleared by join()

tmplVars == <<subscribes, new_subscribes, active>>

TmplTypeOK ==
  /\ subscribes \in SUBSET Conn
  /\ new_subscribes \in SUBSET Conn
  /\ active \in BOOLEAN

TmplInit ==
  /\ subscribes = {}
  /\ new_subscribes = {}
  /\ active = TRUE

Members == subscribes \cup new_subscribes

IsSubed(c) == c \in Members

HasSubscribes == Members # {}

\* Mutant: need_snapshot is not looked at.
OnSubscribeAtOnce(c) ==
  /\ subscribes' = subscribes \cup {c}
  /\ UNCHANGED new_subscribes

OnSubscribe(c) ==
  IF c \in subscribes
  THEN UNCHANGED <<subscribes, new_subscribes>>
  ELSE IF NeedSnapshot
       THEN /\ new_subscribes' = new_subscribes \cup {c}
            /\ UNCHANGED subscribes
       ELSE /\ subscribes' = subscribes \cup {c}
            /\ UNCHANGED new_subscribes

OnUnsubscribe(c) ==
  IF c \in subscribes
  THEN /\ subscribes' = subscribes \ {c}
       /\ UNCHANGED new_subscribes
  ELSE /\ new_subscribes' = new_subscribes \ {c}
       /\ UNCHANGED subscribes

\* Drop of ServiceSwap: every waiting subscriber is promoted, whether or not
\* the snapshot was sent to it, and also when the callback failed.
SwapNewSubscribes ==
  /\ subscribes' = subscribes \cup new_subscribes
  /\ new_subscribes' = {}

\* join(): the thread sees the flag at its next `while sp.active()`.
Join ==
  /\ active
  /\ active' = FALSE
=============================================================================
