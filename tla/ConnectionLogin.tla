-------------------------- MODULE ConnectionLogin --------------------------
(***************************************************************************)
(* How a connection is let in: the login request, the second factor, the    *)
(* click of the user, and how it ends, of src/src/server/connection.rs,     *)
(* with the state connections share: SESSIONS, AUTHED_CONNS, SWITCH_SIDES_UUID *)
(* and the temporary password.  A connection is a task that handles one     *)
(* message at a time; tasks run on several threads, and every action is one *)
(* acquisition of a lock.                                                   *)
(*                                                                         *)
(* A peer sends its messages in whatever order it likes, and under whatever  *)
(* name and session id it likes.                                             *)
(***************************************************************************)
EXTENDS Naturals

CONSTANTS Conn,         \* connections
          Key,          \* session keys: peer, name and session id
          NoName,       \* the key of a connection that sent no login request
          Tfa,          \* a second factor is configured
          MaxPassword   \* bound on the temporary passwords

ASSUME NoNameKey == NoName \in Key
ASSUME TfaBool == Tfa \in BOOLEAN
ASSUME OnePassword == MaxPassword \in Nat \ {0}

VARIABLES
  pc,           \* what a connection is at, "idle" in the select of its loop
  kind,         \* what it is for: "remote" unless it asks for files
  key, password,   \* lr: the session key of my_id, my_name, session_id; the password
  require_2fa, from_switch, authorized,   \* fields of Connection
  coding,       \* in the handler of a right code
  sessions,     \* SESSIONS
  authed,       \* AUTHED_CONNS
  temporary,    \* the temporary password
  switches,     \* SWITCH_SIDES_UUID
  trusted,      \* trusted devices
  accepted,     \* history: the passwords that were right for a key
  names,        \* history: the keys a connection came with
  coded,        \* history: the keys a right code was given for
  host          \* history: connections the local user is letting in

connVars == <<pc, kind, key, password, require_2fa, from_switch, authorized, coding>>
sharedVars == <<sessions, authed, temporary, switches, trusted>>
histVars == <<accepted, names, coded, host>>
vars == <<connVars, sharedVars, histVars>>

\* 0 is the empty password, 1 .. MaxPassword the temporary ones.
Permanent == MaxPassword + 1
Passwords == 0..Permanent

NoSession == [password |-> Permanent + 1, tfa |-> FALSE]
Session == [password : 0..MaxPassword, tfa : BOOLEAN]
Steps == {"idle", "recent", "validate", "insert", "set_2fa",
          "logon", "authed", "trust", "remove_session", "after", "drop", "gone"}

TypeOK ==
  /\ pc \in [Conn -> Steps]
  /\ kind \in [Conn -> {"remote", "file"}]
  /\ password \in [Conn -> Passwords]
  /\ {require_2fa, from_switch, authorized, coding} \subseteq SUBSET Conn
  /\ key \in [Conn -> Key]
  /\ authed \subseteq Conn \X Key
  /\ sessions \in [Key -> Session \cup {NoSession}]
  /\ temporary \in 1..MaxPassword
  /\ switches \subseteq Key /\ trusted \subseteq Key
  /\ accepted \in [Key -> SUBSET Passwords] /\ coded \subseteq Key
  /\ names \in [Conn -> SUBSET Key]
  /\ host \subseteq Conn

Init ==
  /\ pc = [c \in Conn |-> "gone"]
  /\ kind = [c \in Conn |-> "remote"]
  /\ key = [c \in Conn |-> NoName]
  /\ password = [c \in Conn |-> 0]
  /\ require_2fa = {}
  /\ from_switch = {} /\ authorized = {} /\ coding = {}
  /\ sessions = [k \in Key |-> NoSession]
  /\ authed = {}
  /\ temporary = 1
  /\ switches = {} /\ trusted = {}
  /\ accepted = [k \in Key |-> {}] /\ names = [c \in Conn |-> {NoName}] /\ coded = {} /\ host = {}

-----------------------------------------------------------------------------

Goto(c, step) == pc' = [pc EXCEPT ![c] = step]

\* A connection is accepted and its loop begins.
Open(c) ==
  /\ pc[c] = "gone"
  /\ Goto(c, "idle")
  /\ require_2fa' = IF Tfa THEN require_2fa \cup {c} ELSE require_2fa
  /\ UNCHANGED <<kind, key, password, from_switch, authorized, coding, sharedVars,
                 histVars>>

\* A login request is kept before anything of it is checked.  A trusted device
\* needs no code.
WithoutValidation(c, k, p) ==
  /\ key' = [key EXCEPT ![c] = k]
  /\ names' = [names EXCEPT ![c] = @ \cup {k}]
  /\ password' = [password EXCEPT ![c] = p]
  /\ require_2fa' \in {require_2fa, require_2fa \ {d \in {c} : k \in trusted}}

LoginRequest(c) ==
  /\ pc[c] = "idle"
  /\ \E k \in Key, p \in Passwords : WithoutValidation(c, k, p)
  /\ IF c \in authorized
     THEN UNCHANGED <<pc, kind>>
     ELSE /\ kind' \in {kind, [kind EXCEPT ![c] = "file"]}
          /\ Goto(c, "recent")
  /\ UNCHANGED <<from_switch, authorized, coding, sharedVars, accepted, coded, host>>

\* With ApproveMode::Click no password is looked at.
ApproveByClick(c) ==
  /\ pc[c] = "recent"
  /\ Goto(c, "idle")
  /\ UNCHANGED <<kind, key, password, require_2fa, from_switch, authorized, coding,
                 sharedVars, histVars>>

\* SESSIONS without those that were not heard of for SESSION_TIMEOUT.
Retained == {[k \in Key |-> IF k \in E THEN NoSession ELSE sessions[k]] : E \in SUBSET Key}

\* validate_one_password with the password of the session.
Validates(c, session) ==
  session.password # 0 /\ session # NoSession /\ password[c] = session.password

\* is_recent_session(false) and what follows when there is none.
RecentSession(c) ==
  /\ pc[c] = "recent"
  /\ sessions' \in Retained
  /\ \/ /\ password[c] # 0 /\ Validates(c, sessions'[key[c]])
        /\ Goto(c, "logon")
     \/ password[c] = 0 /\ Goto(c, "idle")
     \/ /\ password[c] # 0 /\ ~Validates(c, sessions'[key[c]])
        /\ Goto(c, "validate")
  /\ UNCHANGED <<kind, key, password, require_2fa, from_switch, authorized, coding, authed,
                 temporary, switches, trusted, histVars>>

-----------------------------------------------------------------------------

\* Mutant: any right password makes a session.
InsertsForAny(c) == TRUE

\* Only the temporary password makes a session.
InsertsFor(c) == password[c] = temporary

\* check_failure, whose counts are not modelled, may refuse any attempt;
\* validate_password.
Validate(c) ==
  /\ pc[c] = "validate"
  /\ \/ /\ password[c] \in {temporary, Permanent}
        /\ accepted' = [accepted EXCEPT ![key[c]] = @ \cup {password[c]}]
        /\ Goto(c, IF InsertsFor(c) THEN "insert" ELSE "logon")
     \/ Goto(c, "idle") /\ UNCHANGED accepted
  /\ UNCHANGED <<kind, key, password, require_2fa, from_switch, authorized, coding, sharedVars,
                 names, coded, host>>

\* update_or_insert_session.
InsertSession(c) ==
  /\ pc[c] = "insert"
  /\ sessions' = [sessions EXCEPT ![key[c]] = [password |-> password[c], tfa |-> FALSE]]
  /\ Goto(c, "logon")
  /\ UNCHANGED <<kind, key, password, require_2fa, from_switch, authorized, coding,
                 authed, temporary, switches, trusted, histVars>>

\* A code that check_current finds right.  Nothing else is looked at: neither
\* whether a code was asked for nor whether a password was shown.
Auth2fa(c) ==
  /\ pc[c] = "idle" /\ c \in require_2fa
  /\ coding' = coding \cup {c}
  /\ coded' = coded \cup {key[c]}
  /\ Goto(c, "set_2fa")
  /\ UNCHANGED <<kind, key, password, require_2fa, from_switch, authorized, sharedVars,
                 accepted, names, host>>

\* set_session_2fa, for a session that may not exist.
SetSession2fa(c) ==
  /\ pc[c] = "set_2fa"
  /\ require_2fa' = require_2fa \ {c}
  /\ sessions' = [sessions EXCEPT ![key[c]] =
                    [password |-> IF @ = NoSession THEN 0 ELSE @.password, tfa |-> TRUE]]
  /\ Goto(c, "logon")
  /\ UNCHANGED <<kind, key, password, from_switch, authorized, coding, authed,
                 temporary, switches, trusted, histVars>>

\* The end of the handler of a right code: the device may be trusted from now on.
AddTrustedDevice(c) ==
  /\ pc[c] = "trust"
  /\ trusted' \in {trusted, trusted \cup {key[c]}}
  /\ coding' = coding \ {c}
  /\ Goto(c, "idle")
  /\ UNCHANGED <<kind, key, password, require_2fa, from_switch, authorized, sessions, authed,
                 temporary, switches, histVars>>

\* Data::Authorize of the connection manager.
Authorize(c) ==
  /\ pc[c] = "idle"
  /\ require_2fa' = require_2fa \ {c}
  /\ host' = host \cup {c}
  /\ Goto(c, "logon")
  /\ UNCHANGED <<kind, key, password, from_switch, authorized, coding, sharedVars,
                 accepted, names, coded>>

\* The local user lets the peer take control in turn; the uuid is good for one
\* answer, right or wrong, of that peer.
InsertSwitchSidesUuid ==
  /\ \E k \in Key : switches' = switches \cup {k}
  /\ UNCHANGED <<connVars, sessions, authed, temporary, trusted, histVars>>

SwitchSidesResponse(c) ==
  /\ pc[c] = "idle"
  /\ \E k \in Key, p \in Passwords : WithoutValidation(c, k, p)
  /\ switches' = switches \ {key'[c]}
  /\ \/ /\ key'[c] \in switches
        /\ from_switch' = from_switch \cup {c}
        /\ host' = host \cup {c}
        /\ Goto(c, "logon")
     \/ UNCHANGED <<pc, from_switch, host>>
  /\ UNCHANGED <<kind, authorized, coding, sessions, authed, temporary,
                 trusted, accepted, coded>>

-----------------------------------------------------------------------------
(* send_logon_response.                                                      *)

\* Mutant: a session of the peer is taken for one with a code.
RecentAny(c) == sessions'[key[c]] # NoSession

\* is_recent_session(true).
RecentTfa(c) == password[c] # 0 /\ sessions'[key[c]].tfa

\* Where the handler that called send_logon_response goes on.
Answered(c) == Goto(c, IF c \in coding THEN "trust" ELSE "idle")

Logon(c) ==
  /\ pc[c] = "logon"
  /\ IF c \in require_2fa \ authorized THEN sessions' \in Retained ELSE UNCHANGED sessions
  /\ \/ /\ c \in authorized
        /\ Answered(c)
        /\ UNCHANGED authorized
     \/ /\ c \in require_2fa \ authorized /\ ~RecentTfa(c) /\ c \notin from_switch
        /\ Answered(c)
        /\ UNCHANGED authorized
     \/ /\ c \notin authorized
        /\ c \notin require_2fa \/ RecentTfa(c) \/ c \in from_switch
        /\ authorized' = authorized \cup {c}
        /\ Goto(c, "authed")
  /\ host' = host \ {c}
  /\ UNCHANGED <<kind, key, password, require_2fa, from_switch, coding, authed, temporary, switches,
                 trusted, accepted, names, coded>>

\* AuthedConnID::new, and the answer.
Authed(c) ==
  /\ pc[c] = "authed"
  /\ authed' = authed \cup {<<c, key[c]>>}
  /\ Answered(c)
  /\ UNCHANGED <<kind, key, password, require_2fa, from_switch, authorized, coding, sessions,
                 temporary, switches, trusted, histVars>>

-----------------------------------------------------------------------------
(* The end.                                                                  *)

\* The peer, the connection manager, the web console or the host closes, so that
\* the peer does not come back by itself; or the peer is lost.
End(c) ==
  /\ pc[c] = "idle"
  /\ \/ Goto(c, "remove_session")
     \/ Goto(c, "after")
  /\ UNCHANGED <<kind, key, password, require_2fa, from_switch, authorized, coding,
                 sharedVars, histVars>>

AuthedRemote(c) == \E e \in authed : e[1] = c /\ kind[c] = "remote"

AnotherRemote(c) ==
  \E d \in Conn \ {c} : <<d, key[c]>> \in authed /\ kind[d] = "remote"

\* check_remove_session.
RemoveSession(c) ==
  /\ pc[c] = "remove_session"
  /\ IF AuthedRemote(c) \/ ~AnotherRemote(c)
     THEN sessions' = [sessions EXCEPT ![key[c]] = NoSession]
     ELSE UNCHANGED sessions
  /\ Goto(c, "after")
  /\ UNCHANGED <<kind, key, password, require_2fa, from_switch, authorized, coding,
                 authed, temporary, switches, trusted, histVars>>

\* After the loop: update_temporary_password.
After(c) ==
  /\ pc[c] = "after"
  /\ c \in authorized => temporary < MaxPassword
  /\ temporary' = IF c \in authorized THEN temporary + 1 ELSE temporary
  /\ Goto(c, "drop")
  /\ UNCHANGED <<kind, key, password, require_2fa, from_switch, authorized, coding,
                 sessions, authed, switches, trusted, histVars>>

\* Drop of AuthedConnID and of the connection; its place may be taken by a new one.
Drop(c) ==
  /\ pc[c] = "drop"
  /\ Goto(c, "gone")
  /\ kind' = [kind EXCEPT ![c] = "remote"]
  /\ key' = [key EXCEPT ![c] = NoName]
  /\ names' = [names EXCEPT ![c] = {NoName}]
  /\ password' = [password EXCEPT ![c] = 0]
  /\ require_2fa' = require_2fa \ {c}
  /\ from_switch' = from_switch \ {c}
  /\ authorized' = authorized \ {c}
  /\ coding' = coding \ {c}
  /\ authed' = {e \in authed : e[1] # c}
  /\ UNCHANGED <<sessions, temporary, switches, trusted,
                 accepted, coded, host>>
-----------------------------------------------------------------------------

Connection(c) ==
  \/ Open(c) \/ LoginRequest(c) \/ ApproveByClick(c) \/ RecentSession(c)
  \/ Validate(c) \/ InsertSession(c) \/ Auth2fa(c) \/ SetSession2fa(c)
  \/ AddTrustedDevice(c) \/ Authorize(c) \/ SwitchSidesResponse(c) \/ Logon(c) \/ Authed(c)
  \/ End(c) \/ RemoveSession(c) \/ After(c) \/ Drop(c)

Next ==
  \/ \E c \in Conn : Connection(c)
  \/ InsertSwitchSidesUuid

Spec == Init /\ [][Next]_vars

-----------------------------------------------------------------------------
(* Properties                                                                *)

\* Who is let in was let in by the local user, or has just given a right code, or
\* showed a password that was right for the key it comes with, now or when its
\* session began; and where a second factor is configured, a right code was given
\* for a key the connection came with (send_logon_response over
\* validate_password, SESSIONS, trusted devices and the handler of Auth2fa, to
\* which the code is enough).
Entitled ==
  [][\A c \in authorized' \ authorized :
       \/ c \in host
       \/ /\ c \in coding \/ password[c] \in accepted[key[c]]
          /\ Tfa => names[c] \cap coded # {}]_vars
-----------------------------------------------------------------------------
(* The inductive invariant of the proofs.                                    *)

\* The password of c was right for its key.
Right(c) == password[c] \in accepted[key[c]]

\* A session that has a password was made for a right one, and one with a second
\* factor for a right code; devices are trusted after a right code.
SessionsEarned ==
  /\ \A k \in Key :
       /\ sessions[k] # NoSession /\ sessions[k].password # 0
            => sessions[k].password \in accepted[k]
       /\ sessions[k].tfa => k \in coded
  /\ trusted \subseteq coded

\* What a connection has shown at each step on its way in: a right password, or
\* a right code that it is about to be let in for.
WayIn ==
  \A c \in Conn :
    /\ key[c] \in names[c]
    /\ pc[c] \in {"recent", "validate", "insert"} => c \notin authorized
    /\ pc[c] = "insert" => Right(c) /\ password[c] \in 1..MaxPassword
    /\ pc[c] \in {"set_2fa", "trust"} => c \in coding
    /\ c \in coding => /\ pc[c] \in {"set_2fa", "logon", "authed", "trust"}
                       /\ key[c] \in coded
    /\ pc[c] = "logon" => c \in authorized \cup host \cup coding \/ Right(c)

\* The local user lets in at once: nobody is let in by him and asked for a code.
HostAtOnce ==
  \A c \in Conn :
    /\ c \in host => pc[c] = "logon" /\ (c \in from_switch \/ c \notin require_2fa)
    /\ c \in from_switch => c \in authorized \cup host

\* Who needs no code has given one, or is let in by the local user.
CodeNeeded ==
  Tfa => \A c \in Conn :
    pc[c] # "gone" =>
      c \in require_2fa \cup authorized \cup host \/ names[c] \cap coded # {}

IInv == TypeOK /\ SessionsEarned /\ WayIn /\ HostAtOnce /\ CodeNeeded
=============================================================================
