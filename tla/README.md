# A formal model of RustDesk

These TLA+ modules model RustDesk (`src/src`, Rust). On the side that is
controlled: the services of the host, which run one thread each and publish to
the connections that subscribe, the way a video frame takes to a peer, the
record of displays, the negotiation of the codec, the terminals that outlive a
connection, how a connection is let in, privacy mode, and the registration at
the rendezvous servers. On the side that controls: the way of a frame from the
stream to the decoder, and the sessions an AI client drives. TLC checks the
modules on small instances; TLAPS proves theorems about all twelve components for
every value of their constants.

1. [The system](#the-system) – components, state, operations, interactions
2. [Modules](#modules) – what models what, and how it corresponds to the code
3. [Runs](#runs) – what TLC checks, with which bounds and which fairness
4. [Where code and comments disagree](#where-code-and-comments-disagree)
5. [Proofs](#proofs)
6. [What is not modelled](#what-is-not-modelled)
7. [Plan](#plan)

To check: `tlc -config X.cfg XMC.tla` for each module `X` with a configuration, and
`tlapm` for each module whose name ends in `Proofs`. Ten runs set
`CHECK_DEADLOCK FALSE`: the models are bounded (connections come once or a bounded
number of times, a stopped service stays stopped, an AI client asks no more), so they
really stop; `rendezvous` and `video_thread` do not, and check for deadlock.

## The system

A host process holds a `Server` (`src/src/server.rs`): a map of services and a
map of connections. A service is a `ServiceTmpl` (`src/src/server/service.rs`)
with two maps of subscribers under one lock and one thread that runs until
`join()` clears its flag. A `Connection` (`src/src/server/connection.rs`) is an
asynchronous task with a `select` loop over its channels; services hand it
messages through `ConnInner::send`, which sorts them into a video channel and a
channel for the rest. Further global state is shared by threads and tasks:
`SYNC_DISPLAYS`, `PEER_DECODINGS`, `ENCODE_CODEC_FORMAT`, `TERMINAL_SERVICES`,
`FRAME_FETCHED_NOTIFIERS`, `CONN_DISPLAY_IDS`, `LOGIN_FAILURES`, `SESSIONS`,
`PRIVACY_MODE`, `SOLVING_PK_MISMATCH`.

| Component (source under `src/src/`) | State | Operations | Interacts with | Hard behaviour | Correct when |
|---|---|---|---|---|---|
| Service framework (`server/service.rs`) | subscribers, waiting subscribers, active flag | subscribe, unsubscribe, send to all, snapshot and swap, join | every service and connection | a subscriber comes between the snapshot and the swap | nobody is in both lists; who waits is promoted |
| Mouse cursor (`server/input_service.rs`) | last handle, message, cache per subscription | poll, publish, snapshot | system, framework | poll overtaken by a change; ids sent for pixels | each peer shows the cursor last seen and holds its pixels |
| Video service (`server/video_service.rs`) | capturer, encoder, refresh flag, counters | start, check, capture, encode, wait, SWITCH | display service, codec negotiation, QoS, connections | arrivals while encoding, failures, requests while starting over | everyone gets a key frame first, and a picture in the end |
| Video delivery (`server/video_service.rs`, `server/connection.rs`) | send and fetched ids, notifier, queue of a connection | send, notify, wait, back-pressure, close | video services of all displays share one queue | slow or silent peers, late acknowledgements | no needless waiting; what is dropped is superseded |
| Display service (`server/display_service.rs`) | `SYNC_DISPLAYS`, the ignore flag | enumerate, compare, update, broadcast | logins, video services, privacy mode | several writers in separate locked steps | no change is lost for a subscriber |
| Codec negotiation (`libs/scrap/src/common/codec.rs`) | abilities of the peers, the format | update, fallback, choose, SWITCH | all connections, all video services | the shared format changes between two reads | displays settle on an encoder that fits |
| Terminals (`server/terminal_service.rs`) | registry, sessions, buffers | open, data, resize, close, read, clean up | connections, shells, cleanup task | reconnections, ends told once, removal by id | a peer that comes back knows its terminals; what is not persistent ends; ends that are noticed are told |
| Video QoS (`server/video_qos.rs`) | delays and options per peer, fps, ratio | delay, frame, adjust | connections, video service | feedback with delay, several peers | bounds; the slowest peer counts |
| Connection (`server/connection.rs`) | authorization, permissions, options | login, 2FA, messages, close | all of the above, connection manager | failure counts read and written around an await, sessions that expire | who is in showed a password or a code, or the local user let it in |
| Audio, clipboard, input, positions (`server/*_service.rs`) | last sent, format, owner mark, pressed keys | poll, publish, inject | framework, system | a restart between two messages | new subscribers get the format; keys are released |
| File transfer (`ui_cm_interface.rs`) | jobs | read, write, confirm, cancel | connection manager over IPC | overwrite questions, cancellation | |
| Rendezvous mediator (`rendezvous_mediator.rs`) | registration, timers, host in use | register, keep alive, punch | UDP or TCP server | lost and duplicated replies, change of server | every server knows the id in the end |
| Privacy mode (`privacy_mode.rs`) | holder | turn on, off, check | connections, display service | the holder leaves | one holder; nothing hidden without one; who is told of another's leaves |
| Client (`client.rs`, `client/io_loop.rs`) | frame queues, decoders, jobs | receive, decode, ask for refresh | the host | queue overrun, resets between frames, a codec that fails | tokens match frames; what is lost is asked for; a picture comes |
| Session tools (`mcp/`) | sessions, their stream tasks and channels | connect, run, close, expire | the host's terminals | output after a timeout, a session that expires in use | every request past the login is answered, with nothing of another command; no terminal is left behind |
| Connection manager, API sync, downloader, updater, plugins, portable service, terminal helper, LAN, port forwarding, adapters and UI | | | | | see `PROJECT.json` |

`PROJECT.json` lists every component with its status, and the hazards with the line
each is at and the properties that watch it. Hazards that no property watches are
listed under *What is not modelled*.

## Modules

| Module | Models | Uses |
|---|---|---|
| `Connections` | the connections of a host, finitely many | |
| `ServiceTmpl` | the subscriber lists under their lock | `Connections` |
| `Delivery` | abstract: what a service promises its subscribers | |
| `CursorService` | the `mouse_cursor` service: `ServiceTmpl::repeat` and `run_cursor` | `ServiceTmpl`; implements `Delivery` |
| `VideoChannel` | frames and `SwitchDisplay` on their way to the peers | `Connections` |
| `VideoService` | `GenericService::run` and `run` of one display | `ServiceTmpl` |
| `DisplayService` | `SYNC_DISPLAYS`, its writers, and the display thread | `ServiceTmpl` |
| `CodecNegotiation` | `Encoder::update`, `set_fallback` and the threads that choose an encoder | `Connections` |
| `TerminalService` | the registry of terminal services, sessions, reader loops, cleanup | |
| `OutputBuffer` | the output a terminal keeps | |
| `ConnectionLogin` | how a connection is let in, and how it ends | |
| `PrivacyMode` | `PRIVACY_MODE`, the connections that ask for it, the check of the video service | |
| `RendezvousRegistration` | `start_udp` and `handle_resp` for several servers, over UDP | |
| `VideoThread` | the client: from the stream to the decoder of one display | |
| `McpSession` | the server of the session tools, stream tasks and terminals | |
| `CursorServiceProofs`, `ConnectionLoginProofs`, `PrivacyModeProofs`, `RendezvousRegistrationProofs` | theorems about the module they are named after, with their proofs | that module |
| `VideoProofs` | theorems about `VideoService` and `VideoChannel` | both |
| `DisplayProofs` | theorems about `DisplayService` and `CodecNegotiation` | both |
| `TerminalProofs` | theorems about `TerminalService` and `OutputBuffer` | both |
| `ClientProofs` | theorems about `VideoThread` and `McpSession` | both |

`XMC` instantiates module `X` for TLC, `X.cfg` gives its constants values. Where
one module of proofs is about two components, the second has names of its own
for what every module has: `ChannelSpec`, `CodecSpec`, `BufferSpec`, `ToolsSpec`.

The grain is the same in all of them: **one action per lock acquisition, system
call or wait of the code**, so that every other thread may act between any two.
A variable `pc` (or `stage`) says where a thread is. Operators whose comment begins with
*Mutant* are wrong versions of the definition after them; they are used to see
that a property notices the mistake, never by a specification.

**ServiceTmpl.** `subscribes`, `new_subscribes`, `active` are the fields of
`ServiceInner`; `OnSubscribe`, `OnUnsubscribe`, `SwapNewSubscribes` (the `Drop`
of `ServiceSwap`), `Join` are its methods. The three service modules build their
steps from these operators and differ in what happens between them.

**CursorService.** The thread of `repeat` (`CheckActive`, `CallBack`,
`ResetState`) and the calls of `run_cursor` (`GetCursor` … `SwapDrop`) in order.
A cursor changes at any time, so `get_cursor_data` may fail (`CURSOR_ERR`) for a
handle that is gone, and `get_cursor` may fail. A send reaches the peer at once:
there is one ordered channel per connection, and nothing else is compared with
it. `MouseCursorSub.cached` is kept per subscription, `known` per peer.

**Delivery.** What a service promises, whatever its thread and its two lists do: a
peer is only ever brought to the state the service has at that moment (`Bring`),
and whoever stays is brought to the state the service stays at (`Served`), except
who was missed as it joined and is served with the next state. `CursorService`
maps its variables on it (`Promise`): `hcursor` is the state, `late` the missed.

**VideoChannel.** `SendFrame`/`SetSend`/`TryWaitNext`/`WaitTimeout` are the
`VideoFrameController` and the wait of the main loop; `Deliver` is the `rx_video`
branch with its back-pressure; `VideoReceived` the acknowledgement of a peer that
does it itself; `LeaveLoop` and `RemoveConnection` the two ends of a connection.
A service is at a `stage`. What a connection passes on of a queue `q` is the
operator `PassedOn(q)`, the loop over its messages as a recursive function. Frame
numbers are not in the code: they are history.

**VideoService.** `wanted` counts the configurations a running service compares
itself with (codec, mode, privacy mode, recording, displays), `built` is the one
it was built for. `key` says that the encoder has encoded nothing, so that its
next frame can be decoded by itself. `alone` records who was promoted while
nobody else was subscribed: `handle_one_frame` starts over for a new subscriber
only if there is another one, and a subscriber may be given to an encoder that
is past its key frame if that other one has just left.

**DisplayService.** Displays are versions. `check_update_displays` is called by
logins, by a video service and by the display thread: `Enumerate`, `Compare` and
`Write` are its three steps. `IgnoreChanges`, `DropGuard`, `Wake`, `Trigger` are
`temp_ignore_displays_changed`: the guard, the thread that sleeps for a second
when it is dropped, and what that thread does. One caller holds a guard at a time
(`win_virtual_display.rs:525`), but the threads of older guards overlap it.

**CodecNegotiation.** Three acquisitions of the lock of the format stand between
the beginning of a service and its main loop: negotiate (`GetEncoderConfig`),
read (`Choose`), set the fallback (`Fallback`), read again (`Label`). Modelled is
a build with the `vram` feature, which negotiates in the thread, with
`HwRamEncoder`s. Ties between preferences go by the order of a hash map, which
does not change between two updates: `most` keeps the choice.

**TerminalService.** One service id. Objects (`PersistentTerminalService`,
sessions) are numbered as they are created, because the code removes them by id
or by terminal id after it has let go of them, and by then the id may stand for
another. An object nothing refers to is dropped and stops its shells
(`Reachable`). The reader of a connection reads, clones the map, processes, and
cleans up in separate locked steps; the lookups of a round are taken together in
`ReadOutputs`, and the removals of a round in `CleanUp`. Before that loop its
thread waits in `GenericService::run` for a subscriber (`EnterRun`); a connection
dropped meanwhile ends it there (`LeaveWait`), and the clean up at the end of `run`
is never executed: the reader is `"missed"`. Hours pass between any two steps, so
the idle timeouts of the cleanup task are always taken to have run out. Of a
shell, the host sees only whether its `reader_thread` is finished
(`ReaderThreadEnds`, at any moment). On Linux and Windows the exit of a direct
shell does not finish it (`terminal_service.rs:925`): such an exit is noticed by
nobody and told to nobody, and no property here says otherwise.

**OutputBuffer.** Bytes are places in the output of the shell; a held line is a
range of them (`Line`). What a chunk is split into (`LinesOf`), the bytes held
(`Held`) and what `get_recent` takes (`Taking`) are recursive functions, one step
per turn of the loops of the code. `total_size` counts modulo `Width` like `usize`
in a release build. A chunk fits the buffer (`ChunkFits`): the thread of the reader
reads 4096 bytes at a time, `MAX_OUTPUT_BUFFER_SIZE` is 1 MB. The trimming loop is one step per iteration so that it can fail to end.
`Recent` is `get_recent`, for any number of bytes asked for. Its caller,
`handle_open`, asks for 4096 bytes when a peer comes back and throws them away
(`terminal_service.rs:806`), so what is shown of it is about the function only:
no peer is handed anything.

**ConnectionLogin.** A connection handles one message at a time; every
acquisition of a lock of `SESSIONS`, `AUTHED_CONNS`, `SWITCH_SIDES_UUID` or the
temporary password is an action. The peer sends its messages in any order, and
names itself (`key`: its id, name and session id) in each login request and switch
response as it likes. A password is a number, 0 the empty one; the temporary
passwords follow one another. The handler of a second-factor code looks only at
whether the connection still needs one and at the code itself
(`connection.rs:2393`): a right code lets in, without a password and without
having been asked for, and the model has it so. `coding` marks a connection in
that handler, whose last step is to trust the device (`AddTrustedDevice`), after
the logon. `accepted`, `coded`, `names` and `host` are history: which passwords
and codes were right for a key, the keys a connection came with, and whom the
local user is letting in. `check_failure`, whose counts are not modelled, may
refuse any attempt, and any session may expire at any look at `SESSIONS`.

**PrivacyMode.** `holder`, `impl` are the fields of `PRIVACY_MODE`; `applied` are
the implementations that hide something. Each acquisition of its lock is one
action, with every way in which the calls to Windows may fail, up to
`MaxFailures`. To turn privacy mode on, a connection reads how
(`TurnOn`: itself, or in a thread) and does so in a step of its own (`TurnOnNow`);
`turn_on_privacy_async` is a thread (`threads`), whose answer is not waited for
after `Timeout`: the thread is `"late"` and goes on, beside any later one. The video
service (`CheckChanged`, `Capture`) finds the change and tells those subscribed
then, which makes their clients leave.

**RendezvousRegistration.** One task per server. `waiting` stands for `fails` and
`last_register_sent`: it counts the requests since the last reply. Servers and
network are external: of each kind of request to one server the newest is under
way, replies are a set, a message may be lost, doubled, delayed, a server may
forget the host, the socket may die with its network. The identity and the
confirmations are shared by the tasks through the configuration.

**VideoThread.** `network`, `channel` (`video_receiver`), `queue` (`video_queue`)
and `data` (the queue of the io loop) are the four queues; a key frame travels in
the channel, any other one in the queue, with a token in the channel. `Pop` and
the look at `discard_queue` are two steps. `last` is history: the last frame
decoded together with all it builds on. The host is reduced to an encoder that
starts over when it is asked to.

**McpSession.** The server answers one request at a time (`pc`). A session's
stream task (`TaskReads`, `TaskSends`, `SessionGone`) owns the stream; `cmds` and
`output` are its two channels, `wire` what the host sent. A terminal of the host
works off the lines it was typed and ends with its connection. Commands print a
bounded number of pieces (`OutOf`), lines of output, at any speed, so each may time
out; behind it a sentinel is typed (`EchoOf`), which comes back on a line of its own
(`MarkOf`) or not at all: a command may take it as its input, and output without a
newline at its end leaves it on the same line, where it is not found
(`ShellWorks`). What is returned is what `CleanCommandOutput` leaves of what was
collected: it takes out sentinels, prompts and the lines of `Mistaken`, genuine
output that looks like a prompt or ends in the first line of the command.

## Runs

| Run | Instance | Shows |
|---|---|---|
| `cursor` | 2 connections, 2 cursors | `IdsResolve`, `Current`; `Implements`, `Serves`, `CatchesUp` |
| `video_channel` | 1 display, 3 messages, 2 connections of which one acknowledges | `WaitHasCause`, `FramesInOrder`, `NewestArrives` |
| `video_service` | 3 connections, 1 reconfiguration, 1 repeated frame, 2 failures | `SharedFromTheKey`, `EncoderShared`, `Settles` |
| `display` | 2 connections, 1 change, 2 guards, a video service | `Synced`, `ChangesReach` |
| `codec` | 2 peers, 2 displays, 3 changes | `LabelKeepsMode`; `ModeFollowed`, `SwitchStops` |
| `terminal` | 2 connections in turn, 2 terminals, 2 services, 2 sessions | `TypeOK`, `RestoreComplete`, `NonPersistentEnds`; `EndIsTold`, `IdleRemoved` |
| `output_buffer` | 5 bytes, 3 lines, chunks of 3, 11 bytes of output | `BufferInv` (`BufferTypeOK`, `FlagIsRight`), `HoldsTheEnd`, `RecentIsEnd`, `SizeDrift` |
| `login` | 2 connections of one key, 2 temporary passwords, a second factor | `TypeOK`, `Entitled` |
| `rendezvous` | 2 servers, 3 ids of which the first is taken, 1 fault, 1 retry | `Inv` (`TypeOK`, `SolvingUnconfirmed`); `Registered` |
| `video_thread` | 2 codecs, 1 decodable, queue of 2, channel of 3, 1 frame dropped, 1 change | `Inv` (`TypeOK`, `TokensMatch`), `LossIsRepaired`; `Shown` |
| `privacy` | 2 connections, 2 implementations, 3 requests, 1 failure | `Inv` (`TypeOK`, `HolderPresent`), `HiddenWhileHeld`; `Followed` |
| `mcp` | 1 session, 3 commands of 2 pieces, of which cleaning drops 2, 2 failures | `ToolsInv` (`ToolsTypeOK`, `Own`); `NothingLeft`, `Answered` |

All runs pass. The types
of `CursorService`, `VideoChannel`, `VideoService`, `DisplayService` and
`CodecNegotiation` are not checked by a run: they are theorems, as are
`OneList` (nobody is in both lists) and `SnapshotFresh` (the snapshot hands out
what was published last) of the first. What the properties say and which behaviour
of the code they are about stands before each of them.

**Why the bounds are enough.** Two connections give what the hazards need: one
that is served while the other comes, goes or waits, and, because a connection of
`CursorService` may come back, a second subscription of the same peer. In
`VideoService` a third is there so that one can come while a second leaves. Two
cursors give a change, a way back to a cached cursor and a poll that is
overtaken. Three messages fill a queue from which the first is dropped while
another is on the way. One change of the displays with two guards gives a change
that is hidden by one guard and found after the other. Three changes of the
codec let a peer come, a mode change and a second peer come or leave. Two
sessions of a terminal give one that is closed while the reader holds it and one
that takes its place. In `OutputBuffer` 11 bytes are more than twice what fits,
so lines are completed, trimmed, and trimmed while incomplete. Two connections of
one key give a session that one makes, another uses, and either removes, while a
second temporary password makes the one of the session old; both may be made
again when they are gone. With two keys the run would not end in time: a peer that
shows something under one and comes in under the other, within a connection or from
one to the next, is covered by the theorem, and by TLC with one connection at a time
(`Conn = {c1}`, `Key = {k1, k2}`), which passes as well. Two servers give one that refuses the id while the
other confirms it, and a task that may not register meanwhile; one fault hits any
message at any moment. A queue of two frames overflows with tokens, a key frame
and a reset in the channel; both a larger channel (4) and one more frame dropped
pass as well. Three requests of two peers give one that holds privacy mode, one
that is refused, a request beside a late thread of another, and a change of the
implementation or a switch by the local user.
Three commands give one that times out before, and one after, another; of the
second, a line of its own and one of the first that comes late look to cleaning
like the command.

**Fairness.** Threads run (`WF` of a thread's steps) and tasks are scheduled.
Strong fairness is used where a step can fail any number of times in a row in
the model but not for ever in the system: `GetCursor` (the system answers now and
then), `Check` of the display service, and `Start`, `CaptureFrame`,
`EncodeAndSend` of the video service (the screen changes, encoders work). Peers
are fair only where the code counts on them: they acknowledge frames they get,
and they ask for a refresh when they cannot decode. In `RendezvousRegistration`
`Rebind` is strongly fair, because a look-up of a minute ago gets old again and
again, and no datagram stays under way for ever; faults are bounded. In
`VideoThread` the host keeps encoding and starts over when asked, which is what
`VideoService` shows. In
`TerminalService` the readers run and the cleanup task looks again and again; that
it finds a service which nobody is connected to idle is assumed only as long as
nobody is (`WF` of `NobodyOn /\ CleanupInactive`), and what it has decided it does.
In `McpSession` the timeout of a command is strongly fair:
30 seconds, once over, stay over; a host notices that its connection is gone,
and its shells need not answer. Nothing else is assumed:
connections need not leave, configurations need not change, shells need not end.
Liveness properties except a service that is stopped (`~active`) and a
connection that is gone.

## Where code and comments disagree

Each of these was met while modelling. The property that states what the comment
says stands at the end of its module, and does not hold; TLC finds the
counterexample in seconds with the instance given. They are part of no run.

* `VideoChannel!OnlyStaleDropped` – "Backpressure: drop stale frames"
  (`connection.rs:831`). The loop keeps one message of all that are queued, of
  whichever display: with two displays the only frame of one is dropped for a
  frame of the other, and a `SwitchDisplay` that was received first is
  overwritten. (`Display = {d1, d2}`, `Conn = {c1}`, as an invariant.)
* `CodecNegotiation!LabelIsEncoder` – "Force correct codec_format regardless of
  negotiation timing" (`video_service.rs:1466`). The format is read again after
  the encoder was chosen; a login in between makes the service take one encoder
  for another, and its main loop, which compares the format it believes in, never
  switches. (One peer, one display, `MaxChanges = 2`, as an invariant.)
* `TerminalService!SurvivesDrop` with overlapping connections – "Persistent
  terminal service that can survive connection drops"
  (`terminal_service.rs:617`). The reader of an old connection decides under the
  lock of the service and removes by id afterwards; a connection that comes in
  between, as when the peer is back before the host has noticed that it was lost, and
  makes the service persistent, loses it. (One terminal, `Overlap = TRUE`.)
* `TerminalService!OnlyClosedCleaned` – "Clean up closed terminals"
  (`terminal_service.rs:1427`). They are removed by terminal id in a second locked
  step; a terminal closed and opened again in between is removed with its shell
  running. (One connection, one terminal, two sessions.)
* `OutputBuffer!TrimEnds` – "Trim old data if buffer is too large"
  (`terminal_service.rs:427`). `total_size` leaves out the bytes that complete an
  incomplete line (this is exact: `SizeDrift`) and is reduced by them when the
  line is dropped. It wraps, and the loop turns for ever over an empty deque.
  (`MaxAppended = 12`, under `BufferFairSpec`.)
* `PrivacyMode!OthersUntouched` – "Failed to turn off privacy mode that belongs to
  someone else." (`privacy_mode.rs:33`). A request that is refused because another
  peer holds privacy mode ends it: `connection.rs:4183` sees that privacy mode is
  on and turns it off with `INVALID_PRIVACY_MODE_CONN_ID`, which is good for
  anybody's. (The instance of the run.)

Two more are plain from the code and have no property: `clean_command_output` is to
skip a line that ends in the command "only if it looks like a prompt line with the
command", and skips any that does, `tools` for `ls` (`mcp/tools/terminal.rs:296`);
and a peer that comes back is not sent the recent output that is asked for on its
behalf (`terminal_service.rs:806`, "For now, just acknowledge the reconnection").

Some properties hold only within limits that the comments at them name, because
outside they do not hold: `SwitchStops` does not with a peer that prefers
`ScreenContent` and two displays outside office mode; `ChangesReach` and `Synced`
except a subscriber that is promoted while nobody else is subscribed; `WaitHasCause`
says that a wait has a cause, while a wait may end early, on an acknowledgement
of an earlier frame; the bytes an `OutputBuffer` holds are not bounded by its
limit, because a chunk that prolongs a line returns before the trimming;
`HolderPresent` except a connection that has stopped waiting for the thread that
turns privacy mode on (7.5 s), and both it and `HiddenWhileHeld` except what
Windows refuses to undo; `Own` excepts a session of which a command has timed out,
because what that command prints later comes with the answer of the next, and says
of what is missing from an answer only that cleaning took it for something else;
`Answered` leaves out the login in `connect_terminal`, which has a timeout for each
message and none for itself, so that a host that goes on sending may keep it, and the
server, for as long as it likes; `NonPersistentEnds` excepts a service whose last
reader was joined before it ran, which is left to the cleanup task (`IdleRemoved`) or
to the next connection; `EndIsTold` begins with the end of the reader thread, which
the exit of a shell need not cause; `Followed` is about the peers that the check of
the video service told: one that is let in after that check, or was in before a holder
that came to be while the service starts over, is told nothing and stays; `Entitled`
takes a right code for enough, because the code does; `Shown`
excepts a client that has come to take every codec it decodes for unsupported,
which a reset followed by a frame of the running encoder can bring about.

## Proofs

All twelve components have proofs, all of them of the same shape: an inductive
invariant that stands in the module itself (`IInv`; `ChannelInv` and `CauseInv` of
`VideoChannel`, `BufferIInv`, `ToolsIInv`, `CodecIInv`; `Inv` of
`RendezvousRegistration` is inductive as it stands), a lemma that it holds in the initial
states, lemmas that every step keeps it, with one case per action and one lemma per
conjunct that is hard, the theorem that it is invariant (`Invariance`,
`ChannelInvariance`, `BufferInvariance`, `ToolsInvariance`,
`CodecInvariance`), and one theorem per
property that follows from it. They hold for any set of connections, servers,
terminals, keys, codecs or sessions, any sizes of queues and buffers, any number of
changes, failures, messages and guards. TLC was run on each inductive invariant
before it was proved. Every invariant that a run checks is stated by a theorem.

| Theorem | Says |
|---|---|
| `CursorServiceProofs!TypeCorrect` | the types |
| `CursorServiceProofs!OneListCorrect` | nobody is in both lists |
| `CursorServiceProofs!IdsResolveCorrect` | ids are sent only of cursors whose pixels were sent |
| `CursorServiceProofs!CurrentCorrect` | between rounds each subscriber shows the cursor last seen, except those of the snapshot window |
| `CursorServiceProofs!SnapshotFreshCorrect` | the snapshot hands out what was published last |
| `CursorServiceProofs!ImplementsCorrect` | the service implements `Delivery` |
| `VideoProofs!TypeCorrect` | the types, and the bounds of the counters |
| `VideoProofs!SharedFromTheKeyCorrect` | who comes while another is served gets no frame it cannot decode |
| `VideoProofs!EncoderSharedCorrect` | an encoder past its key frame serves those who have it, or who came as the others left |
| `VideoProofs!ChannelTypeCorrect` | the types, whatever is passed on of a queue |
| `VideoProofs!InOrder` | a peer gets the frames of a display in their order, whatever is dropped |
| `VideoProofs!NoIdleWait` | a service waits for an open connection with reason (one display) |
| `DisplayProofs!TypeCorrect` | the types |
| `DisplayProofs!SyncedCorrect` | the flag does not lie: when it is set and nothing is under way, subscribers were sent the record |
| `DisplayProofs!CodecTypeCorrect` | the types: what is negotiated is a format |
| `DisplayProofs!LabelKeepsModeCorrect` | a running service knows whether its encoder is one of screen content |
| `TerminalProofs!TypeCorrect` | the types |
| `TerminalProofs!NonPersistentEndsCorrect` | a service that is not persistent ends with its connections, overlapping or not, unless the reader of the last never ran |
| `TerminalProofs!RestoreCompleteCorrect` | who comes back and opens a terminal knows all there are (`~Overlap`) |
| `TerminalProofs!BufferInvCorrect` | the types and the range of the size; the flag tells whether the last line lacks its newline |
| `TerminalProofs!HoldsTheEndCorrect` | what is held is the end of the output, without a gap |
| `TerminalProofs!RecentIsEndCorrect` | `get_recent` returns whole lines, the last ones, as many as it may |
| `TerminalProofs!SizeDriftCorrect` | the size is short by exactly the bytes that completed lines, modulo the width |
| `ConnectionLoginProofs!TypeCorrect` | the types |
| `ConnectionLoginProofs!EntitledCorrect` | whoever is let in showed a right password of its key, has just given a right code, or was let in by the local user; with a second factor, a right code was given for its key in the first two cases |
| `PrivacyModeProofs!InvCorrect` | the types; privacy mode does not outlive its holder |
| `PrivacyModeProofs!HiddenWhileHeldCorrect` | only the implementation in charge hides the screen, and only while it is held |
| `RendezvousRegistrationProofs!InvCorrect` | the types; the key is unconfirmed during a search for an id |
| `ClientProofs!InvCorrect` | the types, the bound of the queue; as many tokens as frames |
| `ClientProofs!LossIsRepairedCorrect` | a picture that is not right is on its way to be repaired |
| `ClientProofs!ToolsInvCorrect` | the types; what cleaning leaves of an answer is in order, lacks nothing that cleaning does not mistake, and has nothing of another command unless one timed out |

**Assumptions**, each checked by TLC where it has an instance: the services are
created with `need_snapshot` (`*NeedsSnapshot`, from their `new`); `None` is not
a cursor; a host has finitely many connections (`ConnFinite`), of which some
acknowledge frames themselves (`AckRequiredConns`); bounds are naturals, and an encoder may fail at least once before it is
given up (`VideoBounds`); passwords are numbered and a connection without a login request has
the empty name (`OnePassword`, `NoNameKey`); what cleaning mistakes are lines of
commands (`MistakenLines`); the limits on failures, requests and
messages are naturals (`FailBounds`, `RegistrationBounds`, `PrivacyBounds`, `Sizes`, `Bounds`,
`MaxMessagesNat`, `ChangesNat`, `BoundsNat`, `SizesNat`, `McpBounds`); no more output
is appended than the size can count besides the limit (`WidthFits`), and a chunk is
no larger than the limit (`ChunkFits`); the
codecs a machine decodes are codecs (`CodecsNamed`), those a host encodes in hardware
and those a peer reports too (`HostedHardware`, `DecodingType`), and the ids a server has given
away are ids (`TakenIds`); what stands for none is no member (`NoConnIsNone`,
`NoHostIsNone`, `NoSessionIsNone`); connections with terminals are numbered and finitely many
(`ConnNumbered`). `RestoreCompleteCorrect` assumes `~Overlap` besides, that a peer
comes back only after its old connection has ended, because without it the property
does not hold: TLC finds it violated with `Overlap = TRUE`. `NoIdleWait` assumes one
display: with several, the back-pressure may drop the frame one of them waits for.
Besides these, what
the modules assume of their interleaving is what is proved about: an action is
one lock acquisition or call.

**Why the invariants are stronger than the properties.**

* *CursorService.* `Current` speaks of the moment between two rounds only. What
  is preserved by every step is that at each `pc` except the one between recording
  a handle and sending it, what is sent next is the recorded handle and all
  subscribers show it (`ShownBy`), and that before `SwapDrop` those who are about
  to be promoted show it too. That they do rests on `late`: who subscribes after
  the snapshot was sent is promoted without it. `IdsResolve` needs the one lemma
  about a send, `SendEffect`.
* *Refinement.* `ImplementsCorrect` rests on `IInv` with two conjuncts of its own:
  those who missed a state are subscribers, and from the snapshot on they are among
  those promoted. `InitImplements` maps the initial states, `StepImplements` every
  action: noting a handle is a `Record`, a send a `Bring` (`SendBrings`), a
  subscription a `Join`, the end of a connection a `Leave`, and all else stutters.
* *VideoService.* A promotion that does not start over (`drop_go`) is safe because
  it happens only while nobody is subscribed, and the only way there is by
  `subscribes` being empty at the swap and subscribers only leaving meanwhile. A
  refresh is cleared only by a service that has just been given its encoder.
* *VideoChannel.* `FramesInOrder` is about the log of a peer; what a step keeps is
  that each queue is in order too (`QueueInOrder`) and behind the log (`LogBehind`),
  and that the loop over a queue passes on, of each message at most once and in
  their order, messages of the queue only. This is proved for queues of any length by
  induction (`Induction`: a set of naturals with a failure has a least one, from the
  well-foundedness of `<`). `CauseInv` adds that the frame a service waits for was
  the last message it sent, and what holds between the sending and the waiting
  (`SentHasCause`), when a notification may already have come.
* *DisplayService.* `is_synced` is set before the message is sent, so `Synced`
  excepts that moment, and `IInv` says instead that the message about to be sent
  is what the record holds, unless somebody has written the record since and
  cleared the flag, or a guard keeps it from doing so and will clear it. The two
  branches of the swap that end in a promotion without a message are safe because
  the flag is cleared (`drop_bail`) or a guard is about to clear it
  (`drop_ignored`). `Guards` counts guards, so that `woken` stays within bounds.
* *CodecNegotiation.* The types are inductive: the most frequent preference is one
  (`MostFrequentPrefers`), and "Auto" becomes a format (`NegotiatedFormat`). A service reads the
  negotiated codec twice, for its encoder and for its label, and another display may
  set it in between; `CodecIInv` adds what makes the mode right nevertheless: from
  the choice of the encoder on it is one of screen content exactly when the service
  was started in office mode (`Wanted`), which both readings go by.
* *TerminalService.* `NonPersistentEnds` speaks of the time when all connections
  are gone; what each step keeps is that a service that is not persistent has a
  reader left to look at it, or was missed by the last one (`Watched`), and a loop
  that ends looks at it under the lock of the registry. This is so with overlapping
  connections too.
  `SyncPending` says where the knowledge of the peer stands before it has opened
  a terminal; that the action of a connection is on the registered service
  (`OneAtATime`) is what fails when connections overlap.
* *OutputBuffer.* `SizeDrift` is modulo the width; what is kept is that the size is
  what it should be or has wrapped once (`Drift`): less than the width may ever be
  appended, and a wrapped size is over the limit, so that the trimming does not end.
  A line that lacks its newline is not trimmed away unless that has happened
  (`IncompleteIsKept`), as it is no larger than a chunk, or else the flag would
  outlive its line. What the loops compute is proved with `Induction` and `Iterate` (an
  iteration has a value for every number of turns), with invariants of their own: the
  lines of a chunk follow one another (`Chain`), and what `get_recent` takes is an
  end of the lines.
* *ConnectionLogin.* `Entitled` is about the step that authorizes. What leads
  there is that sessions are made of right passwords and codes only
  (`SessionsEarned`), which are compared, validated, inserted and used under
  different acquisitions of the lock; that a connection on its way in has shown a
  right password, or is in the handler of a right code, or is let in by the local
  user, at each step of it (`WayIn`); and that `require_2fa` is taken back only for a
  code given for one of its keys, or by the local user (`CodeNeeded`, `HostAtOnce`).
* *PrivacyMode.* A thread that turns privacy mode on may end after its connection
  has; that it is then given up, so that the holder counts as late, is
  `HeldFromWithin`, and that a connection waits for one thread at a time, beside any
  number of late ones, so that the answer it takes is of that one, is `OneAwaited`.
* *VideoThread.* Tokens are counted by the places they take (`Places`), so that
  one taken off or put in changes the count by one (`TokensTail`, `TokensAppend`).
  `LossIsRepaired` needs to know when a frame of the queue cannot fail for want of
  the one before it. `NetworkJoins` says that the connection loses nothing;
  `Whole` that, as long as no key frame is to come, the queue behind the token of
  the newest key frame in the channel (or, if there is none, behind what is held
  or shown) is without a gap up to what is under way, and of the format of the
  host. So a queued frame that is not decoded then follows a loss that was there
  before, or is of a format that cannot be decoded, which is marked as
  unsupported (`FailureMarked`) and told to the host (`MarksTold`); a frame is
  discarded only while a key frame is to come (`DiscardUntilKey`).
* *McpSession.* An answer is right because of what was collected (`Collected`), of
  which cleaning takes away and to which it adds nothing (`CleaningKeeps`), and that
  because of where the pieces of a command are before. `Flow` is what was collected and what is on its way to
  the collector, `Work` what is typed and not done; `Progress` relates the two: the
  pieces are in order; the command and its sentinel are each typed once, in that
  order; no piece came that the shell has not put out; the sentinel comes after
  all pieces and nothing of the command after it; and nothing is missing while the
  shell lives, so that the sentinel, which only a living shell prints, has all of it
  before it. Every step moves the border between the two sequences, puts one element
  from `Work` to `Flow`, or cuts off an end of them (`Cut`). That no other command's
  output is among it needs `Numbered` (what is on its way was typed before),
  `CleanBetween` (between commands a session where none timed out is empty) and
  `OwnOnly`; `OpenedFirst` and `Requests` say what each step of a request can rely on.

**Only model-checked.** All liveness properties (`Serves`, `CatchesUp`,
`NewestArrives`, `Settles`, `ChangesReach`, `ModeFollowed`, `SwitchStops`,
`EndIsTold`, `IdleRemoved`, `Registered`, `Shown`, `Followed`, `Answered`,
`NothingLeft`): fairness
and `ENABLED` are out of the prover's reach. All invariants and action properties of
the runs are proved, and the refinement. The induction theorems of the library
take an operator and cannot be used; where an induction over data is needed it
is done over a set of naturals, as said above. No module declares a `RECURSIVE`
operator.

## What is not modelled

`PROJECT.json` gives every component with its status and the reason. Within the
modelled parts: the high-fps pipeline of Windows, screenshots, recording and UAC
in the video service (they end in the steps that are there); Wayland in the
display service; the driver calls of encoders (the video service has their
failures); decoders and `VRamEncoder` in the negotiation; options of services
(`send_to_others`, `send_without`) that the modelled services do not use; input,
resizing, the child processes (how they are killed and reaped) and the Windows helper
of the terminals; the registry of terminal
services as far as it holds more than one id. Contents, sizes, wording and times
are abstracted: a timeout may strike at any moment at which it could. Of a connection:
the counts of `LOGIN_FAILURES`, the message loop after the login, permissions, file
transfer; of the mediator: punching, relaying, TCP, `start_all`; of privacy mode:
the magnifier and the calls to Windows; of the client: its login, jobs, audio,
clipboard, recording. Video QoS is left to tests so far: its bounds are assignments
with `clamp`, and its quality is a matter of measured times.

**Hazards that no property watches.**

* An acknowledgement of an earlier frame ends the wait for the current one
  (`video_service.rs:1368`), and a `SwitchDisplay` overtakes frames in a queue that is
  cut short (`connection.rs:842`); the model does both.
* A failed send in the inner loop of the back-pressure calls `on_close` and leaves
  only that loop (`connection.rs:843`).
* `LOGIN_FAILURES` is read, awaited upon and written back: concurrent attempts from
  one address may be counted once (`connection.rs:3509`).
* The session is kept for another connection that is in `AUTHED_CONNS`; one that was
  validated and is not there yet loses it (`connection.rs:5501`).
* A display change found by a service that starts over for another reason is not
  sent as a `SwitchDisplay` (`video_service.rs:1788`); the `PeerInfo` of the display
  service follows.
* `set_fallback` takes every hardware encoder whose name lacks `h264` for H265, and
  overwrites a format negotiated since (`codec.rs:361`, `codec.rs:367`).
* The cleanup task removes a service by id that a peer may have come back to
  (`terminal_service.rs:195`); the exit of a shell goes unnoticed when its reader
  thread stays (`terminal_service.rs:925`); a child whose `kill` failed is neither
  killed nor reaped (`terminal_service.rs:1318`); input for a shell that does not read
  it holds the lock of its session (`terminal_service.rs:1294`).
* Persistent services whose shells have ended fill the registry up to `MAX_SERVICES`
  (`terminal_service.rs:103`); output is dropped when its channel is full
  (`terminal_service.rs:936`, by design).
* `PRIVACY_MODE.switch` does not tell the peer that held it (`privacy_mode.rs:164`).
* A restart asked for between reading the servers and clearing `SHOULD_EXIT` is
  lost (`rendezvous_mediator.rs:122`); while one server has the host look for another
  id, and goes silent, no other server registers it (`rendezvous_mediator.rs:799`).
* A host that goes on sending keeps the login of a session for ever
  (`mcp/session.rs:153`); a command that has timed out answers for the next
  (`mcp/tools/terminal.rs:185`).
* A stream task whose bridge is dropped spins, for `recv` returns at once
  (`mcp/session.rs:318`).
* The audio format reaches new subscribers from a state that restarts reset
  (`audio_service.rs:214`).

External code is modelled from how the code here uses it: `hbb_common` (messages,
streams, configuration) is a submodule that is not in the tree.

## Plan

1. (done) the service framework with the cursor service; video delivery; the video
   service; the display service; the codec; terminals; first proofs.
2. (done) the connection's login and end; privacy mode; the registration at the
   rendezvous servers; the client's way of a frame; the session tools; `Delivery`
   and the proof that `CursorService` implements it.
3. Proofs (done: `Entitled` of the login, terminals, privacy mode,
   the registration, `TokensMatch` and `LossIsRepaired` of the client, video delivery,
   the output buffer, the types of the codec negotiation, the answers of the session
   tools): every invariant of a run is a theorem.
4. The input channel of a terminal (a bounded channel sent on under the lock of
   the session); a failed send in a connection's loop; audio (a snapshot whose
   state a restart resets); `DisplayService` shown to implement `Delivery`.
5. Video QoS as functions with bounds; the downloader and the updater; the
   portable service's shared memory; the composition of `VideoThread` with
   `VideoService`.
