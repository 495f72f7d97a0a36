------------------------------ MODULE Delivery ------------------------------
(***************************************************************************)
(* What a service of the host promises its subscribers, whatever its thread *)
(* and its two lists of subscribers do: a peer is only ever brought to the  *)
(* state the service has at that moment, and whoever stays is brought to    *)
(* the state the service stays at.  A subscriber may be missed as it joins; *)
(* it is then served with the next state that is published.                 *)
(***************************************************************************)

CONSTANTS Conn,    \* subscribers
          State,   \* what a service tells
          None     \* nothing to tell

VARIABLES state,   \* what the service has to tell
          members, \* who is subscribed
          missed,  \* who was missed when it joined
          shown,   \* what each peer was brought to
          open     \* the service runs

vars == <<state, members, missed, shown, open>>

Init ==
  /\ state = None
  /\ members = {} /\ missed = {}
  /\ shown = [c \in Conn |-> None]
  /\ open = TRUE

Join(c) ==
  /\ c \notin members
  /\ members' = members \cup {c}
  /\ missed' \in {missed, missed \cup {c}}
  /\ UNCHANGED <<state, shown, open>>

Leave(c) ==
  /\ c \in members
  /\ members' = members \ {c}
  /\ missed' = missed \ {c}
  /\ UNCHANGED <<state, shown, open>>

Record(h) ==
  /\ state' = h
  /\ UNCHANGED <<members, missed, shown, open>>

\* Some or all of the subscribers are brought to the present state at once.
Bring(S) ==
  /\ state # None
  /\ shown' = [c \in Conn |-> IF c \in S THEN state ELSE shown[c]]
  /\ missed' = missed \ S
  /\ UNCHANGED <<state, members, open>>

Close ==
  /\ open /\ open' = FALSE
  /\ UNCHANGED <<state, members, missed, shown>>

Next ==
  \/ \E c \in Conn : Join(c) \/ Leave(c)
  \/ \E h \in State \cup {None} : Record(h)
  \/ \E S \in SUBSET members : Bring(S)
  \/ Close

Spec == Init /\ [][Next]_vars

Served ==
  \A c \in Conn, h \in State :
    (c \in members \ missed /\ state = h /\ open)
      ~> (shown[c] = h \/ state # h \/ c \notin members \/ ~open)
=============================================================================
