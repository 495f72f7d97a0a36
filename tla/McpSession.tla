----------------------------- MODULE McpSession -----------------------------
(***************************************************************************)
(* The tools an AI client drives terminals with: src/src/mcp.  The server   *)
(* answers one request after the other (run_server); each session has a     *)
(* task that owns the stream to its host (spawn_stream_task), and another   *)
(* task takes out sessions that are too old.  Each action is one turn of a  *)
(* loop, one message, or one acquisition of the lock of the sessions.       *)
(*                                                                         *)
(* Commands are numbered.  A command puts out its lines <<"out", k, i>> in  *)
(* order, those that are not blank, and the sentinel typed after it         *)
(* <<"mark", k, 0>>.  Prompts and echoes are not among them, but a line may *)
(* look like one.  Time passes at will: any sleep or timeout may be long or *)
(* short.                                                                   *)
(***************************************************************************)
EXTENDS Naturals, Sequences

CONSTANTS Session,     \* ids of sessions, each used once (a fresh Uuid)
          NoSession,   \* get_peer_info connects for none
          MaxCommands, \* bound on the commands run
          Pieces,      \* lines a command puts out
          Mistaken,    \* of each command: lines that look like a prompt, or end in it
          MaxFailures  \* bound on streams that break and shells that end

ASSUME NoSessionIsNone == NoSession \notin Session
Command == 1..MaxCommands

ASSUME MistakenLines == Mistaken \in [Command -> SUBSET (Command \X (1..Pieces))]
ASSUME McpBounds == {MaxCommands, Pieces, MaxFailures} \subseteq Nat

VARIABLES
  pc,       \* what the server is at
  cur,      \* the session of the request
  cmd,      \* the number of the last command
  got,      \* the output collected for it
  answer,   \* the last answer
  sessions, \* SessionManager.sessions
  task,     \* of each session: its stream task
  cmds,     \* the channel cmd_tx
  output,   \* the channel output_rx
  wire,     \* what the host sent and the task has not read
  shell,    \* the terminal at the host
  lines,    \* what was typed there and is not done
  progress, \* pieces its command has put out
  failures,
  late      \* history: sessions in which a command timed out

serverVars == <<pc, cur, cmd, got, answer, sessions, late>>
terminalVars == <<shell, lines, progress>>
toolsVars == <<serverVars, task, cmds, output, wire, terminalVars, failures>>

\* What the commands in K put out, and what is typed of them.
PieceOf(K) == {"out"} \X K \X (1..Pieces) \cup {"mark"} \X K \X {0}
LineOf(K) == {"type", "echo"} \X K
OutOf(k, i) == <<"out", k, i>>
MarkOf(k) == <<"mark", k, 0>>
TypeOf(k) == <<"type", k>>
EchoOf(k) == <<"echo", k>>
State == {<<"opened", 0, 0>>, <<"failed", 0, 0>>}
Closed == <<"closed", 0, 0>>
Open == <<"open", 0>>
Close == <<"close", 0>>

ToolsTypeOK ==
  /\ pc \in {"idle", "auth", "opening", "drain", "type", "sentinel", "collect",
             "exists", "remove", "down"}
  /\ cur \in Session \cup {NoSession} /\ cmd \in 0..MaxCommands
  /\ answer \in {"none", "done", "output", "error", "timeout", "disconnected"}
  /\ got \in Seq(PieceOf(Command) \cup State)
  /\ sessions \subseteq Session /\ late \subseteq Session
  /\ task \in [Session -> {"none", "running", "ended"}]
  /\ cmds \in [Session -> Seq(LineOf(Command) \cup {Open, Close})]
  /\ output \in [Session -> Seq(PieceOf(Command) \cup State)]
  /\ wire \in [Session -> Seq(PieceOf(Command) \cup State \cup {Closed})]
  /\ lines \in [Session -> Seq(LineOf(Command))]
  /\ shell \in [Session -> {"none", "up", "down"}]
  /\ progress \in [Session -> 0..Pieces] /\ failures \in 0..MaxFailures
  /\ \A s \in Session : task[s] # "running" => cmds[s] = <<>> /\ wire[s] = <<>>
  /\ \A s \in sessions : task[s] # "none"

ToolsInit ==
  /\ pc = "idle" /\ cur = NoSession /\ cmd = 0 /\ got = <<>> /\ answer = "none"
  /\ sessions = {} /\ late = {}
  /\ task = [s \in Session |-> "none"]
  /\ cmds = [s \in Session |-> <<>>] /\ output = cmds /\ wire = cmds /\ lines = cmds
  /\ shell = [s \in Session |-> "none"]
  /\ progress = [s \in Session |-> 0]
  /\ failures = 0

Put(ch, s, m) == [ch EXCEPT ![s] = Append(@, m)]
Take(ch, s) == [ch EXCEPT ![s] = Tail(@)]

\* A TerminalSession exists, with its ends of the two channels.
Held(s) == s \in sessions \/ (pc = "opening" /\ cur = s)

-----------------------------------------------------------------------------
(* The server: dispatch and the tools.                                       *)

Answer(a) == pc' = "idle" /\ answer' = a

\* connect_terminal, get_peer_info.
Connect(s) ==
  /\ pc = "idle"
  /\ s # NoSession => task[s] = "none" /\ shell[s] = "none"
  /\ pc' = "auth" /\ cur' = s /\ answer' = "none" /\ got' = <<>>
  /\ UNCHANGED <<cmd, sessions, late, task, cmds, output, wire, terminalVars, failures>>

\* connect_and_auth: no answer in time, a login that is refused, or a stream of
\* which the task sends the request to open a terminal.
Authenticated ==
  /\ pc = "auth"
  /\ \/ Answer("error") /\ UNCHANGED <<task, cmds>>
     \/ cur = NoSession /\ Answer("done") /\ UNCHANGED <<task, cmds>>
     \/ /\ cur # NoSession
        /\ pc' = "opening"
        /\ task' = [task EXCEPT ![cur] = "running"]
        /\ cmds' = Put(cmds, cur, Open)
        /\ UNCHANGED answer
  /\ UNCHANGED <<cur, cmd, got, sessions, late, output, wire, terminalVars, failures>>

\* connect_terminal gives up: the channels and what they hold are gone.
Abandon == Answer("error") /\ output' = [output EXCEPT ![cur] = <<>>] /\ UNCHANGED sessions

Opening ==
  /\ pc = "opening"
  /\ \/ /\ output[cur] # <<>>
        /\ \/ Head(output[cur])[1] = "opened" /\ Answer("done")
              /\ sessions' = sessions \cup {cur} /\ output' = Take(output, cur)
           \/ Head(output[cur])[1] = "failed" /\ Abandon
     \/ output[cur] = <<>> /\ task[cur] = "ended" /\ Abandon
     \/ Abandon
  /\ UNCHANGED <<cur, cmd, got, late, task, cmds, wire, terminalVars, failures>>

RunCommand(s) ==
  /\ pc = "idle" /\ cmd < MaxCommands
  /\ cur' = s /\ got' = <<>>
  /\ IF s \in sessions
     THEN pc' = "drain" /\ cmd' = cmd + 1 /\ answer' = "none"
     ELSE Answer("error") /\ UNCHANGED cmd
  /\ UNCHANGED <<sessions, late, task, cmds, output, wire, terminalVars, failures>>

Drain ==
  /\ pc = "drain"
  /\ pc' = "type"
  /\ output' = [output EXCEPT ![cur] = <<>>]
  /\ UNCHANGED <<cur, cmd, got, answer, sessions, late, task, cmds, wire, terminalVars, failures>>

\* The command, and half a second later the sentinel; neither is sent to a task
\* that has ended or for a session that was taken out.
SendLine ==
  /\ pc \in {"type", "sentinel"}
  /\ IF cur \in sessions /\ task[cur] = "running"
     THEN /\ cmds' = Put(cmds, cur, IF pc = "type" THEN TypeOf(cmd) ELSE EchoOf(cmd))
          /\ pc' = IF pc = "type" THEN "sentinel" ELSE "collect"
          /\ UNCHANGED answer
     ELSE Answer("error") /\ UNCHANGED cmds
  /\ UNCHANGED <<cur, cmd, got, sessions, late, task, output, wire, terminalVars, failures>>

\* Mutant: one sentinel for all commands.
FinishedAny(m) == m[1] = "mark"

\* The sentinel of this command, on a line of its own.
Finished(m) == m = MarkOf(cmd)

\* clean_command_output: the lines of q, with their places, that do not look like
\* a prompt or a sentinel and do not end in command k, genuine output or not.
CleanCommandOutput(k, q) ==
  [j \in {j \in DOMAIN q : q[j][1] = "out" /\ <<q[j][2], q[j][3]>> \notin Mistaken[k]} |-> q[j]]

\* What run_command returns when the sentinel has come.
Returned == CleanCommandOutput(cmd, got)

Collect ==
  /\ pc = "collect"
  /\ IF cur \in sessions /\ output[cur] # <<>>
     THEN /\ got' = Append(got, Head(output[cur]))
          /\ output' = Take(output, cur)
          /\ IF Finished(Head(output[cur])) THEN Answer("output") ELSE UNCHANGED <<pc, answer>>
     ELSE pc' = "exists" /\ UNCHANGED <<got, output, answer>>
  /\ UNCHANGED <<cur, cmd, sessions, late, task, cmds, wire, terminalVars, failures>>

Exists ==
  /\ pc = "exists"
  /\ IF cur \in sessions THEN pc' = "collect" /\ UNCHANGED answer ELSE Answer("disconnected")
  /\ UNCHANGED <<cur, cmd, got, sessions, late, task, cmds, output, wire, terminalVars, failures>>

\* Mutant: the clock starts with the first output.
TimeoutOfOutput ==
  /\ pc = "collect" /\ got # <<>>
  /\ Answer("timeout")
  /\ late' = late \cup {cur}
  /\ UNCHANGED <<cur, cmd, got, sessions, task, cmds, output, wire, terminalVars, failures>>

\* The 30 seconds are over, with what was collected so far.
Timeout ==
  /\ pc = "collect"
  /\ Answer("timeout")
  /\ late' = late \cup {cur}
  /\ UNCHANGED <<cur, cmd, got, sessions, task, cmds, output, wire, terminalVars, failures>>

CloseTerminal(s) ==
  /\ pc = "idle"
  /\ cur' = s /\ got' = <<>>
  /\ IF s \in sessions
     THEN /\ pc' = "remove" /\ answer' = "none"
          /\ cmds' = IF task[s] = "running" THEN Put(cmds, s, Close) ELSE cmds
     ELSE Answer("error") /\ UNCHANGED cmds
  /\ UNCHANGED <<cmd, sessions, late, task, output, wire, terminalVars, failures>>

\* A session leaves the map, and its ends of the channels are dropped.
Forget(s) ==
  /\ sessions' = sessions \ {s}
  /\ output' = [output EXCEPT ![s] = <<>>]

Remove ==
  /\ pc = "remove"
  /\ Forget(cur)
  /\ Answer("done")
  /\ UNCHANGED <<cur, cmd, got, late, task, cmds, wire, terminalVars, failures>>

\* cleanup_expired, whatever the session is used for.
Expire(s) ==
  /\ pc # "down" /\ s \in sessions
  /\ Forget(s)
  /\ UNCHANGED <<pc, cur, cmd, got, answer, late, task, cmds, wire, terminalVars, failures>>

\* stdin is closed: the process ends.
Eof ==
  /\ pc = "idle"
  /\ pc' = "down" /\ sessions' = {}
  /\ task' = [s \in Session |-> IF task[s] = "running" THEN "ended" ELSE task[s]]
  /\ cmds' = [s \in Session |-> <<>>] /\ output' = cmds' /\ wire' = cmds'
  /\ UNCHANGED <<cur, cmd, got, answer, late, terminalVars, failures>>

-----------------------------------------------------------------------------
(* The stream task of a session.                                             *)

Ends(s) ==
  /\ task' = [task EXCEPT ![s] = "ended"]
  /\ cmds' = [cmds EXCEPT ![s] = <<>>]
  /\ wire' = [wire EXCEPT ![s] = <<>>]

\* What comes from the stream is passed on; nobody takes it when the session is
\* gone, which ends the task unless it is the answer to the opening.
TaskReads(s) ==
  /\ task[s] = "running" /\ wire[s] # <<>>
  /\ LET m == Head(wire[s]) IN
     IF m[1] = "closed" \/ (m[1] \in {"out", "mark"} /\ ~Held(s))
     THEN Ends(s) /\ UNCHANGED output
     ELSE /\ wire' = Take(wire, s)
          /\ output' = IF Held(s) THEN Put(output, s, m) ELSE output
          /\ UNCHANGED <<task, cmds>>
  /\ UNCHANGED <<serverVars, terminalVars, failures>>

\* What the tools sent goes to the host, which handles each message at once.
TaskSends(s) ==
  /\ task[s] = "running" /\ cmds[s] # <<>>
  /\ cmds' = Take(cmds, s)
  /\ LET m == Head(cmds[s]) IN
     CASE m[1] = "open" ->
            /\ \E opened \in BOOLEAN :
                 /\ shell' = IF opened THEN [shell EXCEPT ![s] = "up"] ELSE shell
                 /\ wire' = Put(wire, s, <<IF opened THEN "opened" ELSE "failed", 0, 0>>)
            /\ UNCHANGED <<lines, progress>>
       [] m[1] = "close" ->
            /\ shell' = [shell EXCEPT ![s] = "down"]
            /\ wire' = IF shell[s] = "up" THEN Put(wire, s, Closed) ELSE wire
            /\ lines' = [lines EXCEPT ![s] = <<>>] /\ progress' = [progress EXCEPT ![s] = 0]
       [] OTHER ->
            /\ lines' = IF shell[s] = "up" THEN Put(lines, s, m) ELSE lines
            /\ UNCHANGED <<shell, wire, progress>>
  /\ UNCHANGED <<serverVars, task, output, failures>>

\* Mutant: the end of the channel is "fine", as it is for that of the bridge.
SessionGoneIgnored(s) ==
  /\ task[s] = "running" /\ cmds[s] = <<>> /\ ~Held(s) /\ wire[s] # <<>>
  /\ Ends(s)
  /\ UNCHANGED <<serverVars, output, terminalVars, failures>>

\* The session is gone and all it sent has been passed on.
SessionGone(s) ==
  /\ task[s] = "running" /\ cmds[s] = <<>> /\ ~Held(s)
  /\ Ends(s)
  /\ UNCHANGED <<serverVars, output, terminalVars, failures>>

StreamFails(s) ==
  /\ task[s] = "running" /\ failures < MaxFailures
  /\ failures' = failures + 1
  /\ Ends(s)
  /\ UNCHANGED <<serverVars, output, terminalVars>>

-----------------------------------------------------------------------------
(* The host: a terminal that works off what is typed, and ends with its     *)
(* connection.                                                               *)

\* The echo of a sentinel is a line of its own, unless the output before it has
\* no newline at its end or the command took the line as its input: then none
\* comes that is found.
ShellWorks(s) ==
  /\ shell[s] = "up" /\ task[s] = "running" /\ lines[s] # <<>>
  /\ LET l == Head(lines[s]) IN
     IF l[1] = "type" /\ progress[s] < Pieces
     THEN /\ wire' = Put(wire, s, OutOf(l[2], progress[s] + 1))
          /\ progress' = [progress EXCEPT ![s] = @ + 1]
          /\ UNCHANGED lines
     ELSE /\ \/ l[1] = "echo" /\ wire' = Put(wire, s, MarkOf(l[2]))
             \/ UNCHANGED wire
          /\ progress' = [progress EXCEPT ![s] = 0]
          /\ lines' = Take(lines, s)
  /\ UNCHANGED <<serverVars, task, cmds, output, shell, failures>>

ShellDown(s) ==
  /\ shell' = [shell EXCEPT ![s] = "down"]
  /\ lines' = [lines EXCEPT ![s] = <<>>]
  /\ progress' = [progress EXCEPT ![s] = 0]

ShellExits(s) ==
  /\ shell[s] = "up" /\ task[s] = "running" /\ failures < MaxFailures
  /\ failures' = failures + 1
  /\ ShellDown(s)
  /\ wire' = Put(wire, s, Closed)
  /\ UNCHANGED <<serverVars, task, cmds, output>>

HostDrops(s) ==
  /\ task[s] = "ended" /\ shell[s] = "up"
  /\ ShellDown(s)
  /\ UNCHANGED <<serverVars, task, cmds, output, wire, failures>>

-----------------------------------------------------------------------------

Server == Opening \/ Drain \/ SendLine \/ Collect \/ Exists \/ Timeout \/ Remove

Task(s) == TaskReads(s) \/ TaskSends(s) \/ SessionGone(s)

ToolsNext ==
  \/ Server \/ Authenticated \/ Eof
  \/ Connect(NoSession)
  \/ \E s \in Session :
       \/ Connect(s) \/ RunCommand(s) \/ CloseTerminal(s) \/ Expire(s)
       \/ Task(s) \/ StreamFails(s)
       \/ ShellWorks(s) \/ ShellExits(s) \/ HostDrops(s)

\* Tasks are scheduled and their clocks run: 30 seconds, once over, stay over.  A
\* host notices that its connection is gone; what else it does is up to it.
ToolsFairness ==
  /\ WF_toolsVars(Server) /\ SF_toolsVars(Timeout)
  /\ \A s \in Session : WF_toolsVars(Task(s)) /\ WF_toolsVars(HostDrops(s))

ToolsSpec == ToolsInit /\ [][ToolsNext]_toolsVars
ToolsFairSpec == ToolsSpec /\ ToolsFairness

-----------------------------------------------------------------------------
(* Properties                                                                *)

\* All that command k puts out is in a sequence of messages ...
AllOut(k, q) == \A i \in 1..Pieces : \E j \in DOMAIN q : q[j] = OutOf(k, i)

\* ... and what is there of it is in its order.
IsOut(m, k) == m[1] = "out" /\ m[2] = k
Ordered(k, q) ==
  \A i, j \in DOMAIN q : i < j /\ IsOut(q[i], k) /\ IsOut(q[j], k) => q[i][3] < q[j][3]

\* What is returned as the output of a command is in its order and all of it that
\* cleaning does not mistake for a prompt or an echo, and has nothing of another
\* command, whatever sessions came and went; only a session in which a command
\* timed out returns the rest of that command along with the next one.
Own ==
  answer = "output" =>
    /\ Ordered(cmd, Returned)
    /\ \A i \in 1..Pieces : <<cmd, i>> \notin Mistaken[cmd] =>
         \E j \in DOMAIN Returned : Returned[j] = OutOf(cmd, i)
    /\ cur \notin late => \A j \in DOMAIN Returned : Returned[j][2] = cmd

\* What must hold in every state: types, with the tasks and channels that end
\* together, and whose output is whose, in one invariant.
ToolsInv == ToolsTypeOK /\ Own

-----------------------------------------------------------------------------
(* The inductive invariant.                                                  *)

Ready == {"drain", "type"}                     \* the command is not typed
Sent == {"sentinel", "collect", "exists"}      \* it is

Live(s) == task[s] = "running" /\ shell[s] = "up"

\* What a request at some step is about.
Requests ==
  /\ pc \notin {"idle", "down"} => answer = "none"
  /\ pc \in Ready \cup Sent \cup {"opening", "remove"} => cur \in Session
  /\ pc \in Ready \cup Sent => cmd \in Command
  /\ pc \in Ready \cup {"sentinel"} => got = <<>>
  /\ pc = "auth" /\ cur \in Session => task[cur] = "none"

\* A terminal is asked for once, and before anything else.
OpenedFirst(s) ==
  /\ task[s] = "none" =>
       cmds[s] = <<>> /\ output[s] = <<>> /\ wire[s] = <<>> /\ shell[s] = "none"
  /\ shell[s] # "up" => lines[s] = <<>>
  /\ lines[s] = <<>> => progress[s] = 0
  /\ \/ cmds[s] \in Seq(LineOf(Command) \cup {Close})
     \/ /\ cmds[s] = <<Open>> /\ s \notin sessions
        /\ output[s] = <<>> /\ wire[s] = <<>> /\ shell[s] = "none"

OpenedOnce == \A s \in Session : OpenedFirst(s)

\* All that is on the way in a session is of the commands in K.
OnlyOf(s, K) ==
  /\ cmds[s] \in Seq(LineOf(K) \cup {Open, Close})
  /\ output[s] \in Seq(PieceOf(K) \cup State)
  /\ wire[s] \in Seq(PieceOf(K) \cup State \cup {Closed})
  /\ lines[s] \in Seq(LineOf(K))

\* What is under way is of commands that were typed.
Typed == IF pc \in Ready THEN 1..(cmd - 1) ELSE 1..cmd
Numbered == \A s \in Session : OnlyOf(s, Typed)

\* Between commands nothing is on the way in a session where none timed out.
CleanBetween ==
  \A s \in Session \ late :
    Held(s) /\ task[s] # "ended" /\ ~(pc \in Sent /\ cur = s) => OnlyOf(s, {})

\* During one, nothing of another.
OwnOnly ==
  pc \in Sent /\ cur \in sessions \ late =>
    OnlyOf(cur, {cmd}) /\ got \in Seq(PieceOf({cmd}) \cup State)

\* What was collected for an answer, before it is cleaned.
Collected ==
  answer = "output" =>
    /\ AllOut(cmd, got) /\ Ordered(cmd, got)
    /\ cur \notin late => \A j \in DOMAIN got : got[j][1] = "out" => got[j][2] = cmd

\* How far command k is: f is what came or is to come of it, w what its shell has
\* to do, p what that has put out of the first of w.
WorkOnce(k, w) ==
  /\ \A i, j \in DOMAIN w : w[i] = w[j] /\ w[i] \in {TypeOf(k), EchoOf(k)} => i = j
  /\ \A i, j \in DOMAIN w : w[i] = TypeOf(k) /\ w[j] = EchoOf(k) => i < j

PutOut(k, f, w, p) ==
  \A i \in DOMAIN w, j \in DOMAIN f :
    w[i] = TypeOf(k) /\ IsOut(f[j], k) => i = 1 /\ f[j][3] <= p

MarkIsLast(k, f, w) ==
  \A j \in DOMAIN f : f[j] = MarkOf(k) =>
    /\ \A i \in 1..Pieces : \E h \in 1..(j - 1) : f[h] = OutOf(k, i)
    /\ \A h \in DOMAIN f : h > j => ~IsOut(f[h], k) /\ f[h] # f[j]
    /\ \A i \in DOMAIN w : w[i] \notin {TypeOf(k), EchoOf(k)}

\* While the shell runs, it puts out what is missing.
NothingMissing(k, f, w, p) ==
  /\ (\A i \in DOMAIN w : w[i] # TypeOf(k)) => AllOut(k, f)
  /\ w # <<>> /\ w[1] = TypeOf(k) =>
       \A i \in 1..p : \E j \in DOMAIN f : f[j] = OutOf(k, i)

Progress(k, f, w, p, live) ==
  /\ Ordered(k, f)
  /\ WorkOnce(k, w)
  /\ PutOut(k, f, w, p)
  /\ MarkIsLast(k, f, w)
  /\ live => NothingMissing(k, f, w, p)

\* Before the sentinel is typed.
Unmarked(k, f, w) ==
  /\ \A j \in DOMAIN f : f[j] # MarkOf(k)
  /\ \A i \in DOMAIN w : w[i] # EchoOf(k)

Flow == got \o output[cur] \o wire[cur]
Work == lines[cur] \o cmds[cur]

Flows ==
  pc \in Sent /\ cur \in sessions =>
    /\ Progress(cmd, Flow, Work, progress[cur], Live(cur))
    /\ pc = "sentinel" => Unmarked(cmd, Flow, Work)

ToolsIInv ==
  /\ ToolsTypeOK /\ Collected
  /\ Requests /\ OpenedOnce /\ Numbered /\ CleanBetween /\ OwnOnly /\ Flows

-----------------------------------------------------------------------------

\* A request about a terminal is answered once the login at the host is over,
\* whatever the host and the task do then.  The login (connect_and_auth) is not in
\* this: its timeout is for one message, so that a host which goes on sending
\* messages that neither let in nor refuse keeps the request for as long as it likes.
Answered == pc \notin {"idle", "auth", "down"} ~> pc \in {"idle", "down"}

\* Nothing is left of a session the tools no longer know: its task and its
\* terminal at the host end, whether it was closed, given up while it was
\* opened, or too old, and wherever its last messages were.
NothingLeft ==
  \A s \in Session :
    (task[s] # "none" /\ ~Held(s)) ~> (task[s] = "ended" /\ shell[s] # "up")
=============================================================================
