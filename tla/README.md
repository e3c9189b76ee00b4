# Verification of mps-emulator

mps-emulator impersonates a Scanivalve MPS pressure scanner: it accepts TCP
connections on a control port and on a binary port, executes the scanner's
commands, and streams simulated frames over TCP and UDP. This directory holds
TLA+ models of its code, TLC configurations that check them on small instances,
and theorems that TLAPS proves for instances of every size. Paths below are
relative to the repository; `mps.cpp`, `server-layer.cpp` and so on are in
`application/src` and `aerolib/src/aero`.

## The system

| component | state | operations | threads |
| --- | --- | --- | --- |
| virtual scanner (`scanivalve/mps.cpp`) | `m_Running`, `m_Scanning`, `m_Calibrating` (atomics), `m_Status`, `m_cfg`, the scan layout, the scan's start time (plain fields) | `Start`, `Shutdown`, `StartScan`, `StopScan`, `CalZ`, `ParseCommands`, `ScanThreadFn` | its scan thread; every thread that calls it |
| thread pool (`core/threads.cpp`) | `m_Tasks`, `m_Stop` under `m_QueueMutex`, the workers' stop tokens | constructor, `Enqueue`, `StopAll` | its workers; every thread that enqueues; the owner |
| TCP/UDP server (`networking/server.cpp`) | `m_Connections` (no lock), `m_DataQueue` under `m_StreamLock`, `m_ServerIsRunning` | `Start`, `Stop`, accept, handler and stream loops, `KickClient`, `Send*`, `Stream*` | accept thread, stream thread, one handler per connection |
| server layer (`server-layer.cpp`) | active control client, active binary client, `m_Cmds` | `OnAttach`, `OnDetach`, `OnUpdate`, the callbacks of both servers, of the device and of the console | all of the above |
| application (`core/application.cpp`, `core/entrypoint.h`) | `m_Running`, `g_ApplicationRunning`, `s_Instance` | `Run`, `Restart`, `Shutdown`, destructor | main thread; a handler that executes SHUTDOWN or RESTART |
| console (`console.cpp`) | `m_InputThreadRunning`, `m_MessageCallback` | constructor, destructor, input loop | input thread |
| commands (`ParseCommands`, `OnCommand`, `utils/string-utils.cpp`) | the partial command of each client | assemble, split, dispatch, `SET ...` | handler threads, console |
| scan layout and frames (`ConfigureScanLayout`, `SetDataFormat`, `ScanThreadFn`) | packet type, channel counts, format flags | configure at StartScan, assemble per frame | client threads write, scan thread reads |
| helpers | none | buffers, byte order, arguments, log, timer | |

How they interact: the accept thread puts a handler for each connection into
the server's pool and calls the layer's connect callback; a handler calls the
layer's receive callback, which calls `ParseCommands` of the device in the
handler's thread; the scan thread calls the layer's frame and status callbacks,
which send to the active client or push onto the stream queue. The main thread
calls `OnUpdate` and, at the end, `OnDetach`, which shuts the device down and
then stops both servers. There is one mutex in each thread pool and one around
the stream queue; nothing protects the device, the connection table or the
layer's client fields.

What makes each component correct:

* scanner: STATUS says what is going on; every operation takes effect at once;
  a STOP ends the frames, a finite scan has the frames asked for and is timed
  from its own start; a calibration ends; a shutdown ends.
* pool: each task starts once and in order; no wakeup is lost; `StopAll`
  returns, having started what was queued.
* server and layer: the last client to connect owns the device, exactly one
  owns it, a kicked client's handler ends without touching another client.
* lifecycle: a restart leaves no thread, socket or callback of the old
  application behind; SHUTDOWN is not lost; networking is initialised while a
  server runs.
* commands: one command per line however the stream is cut; a SET that fails
  changes nothing.
* frames: the packet matches the layout announced for the scan.

The hazards that the properties are aimed at are listed in `PROJECT.json`,
each at its line; a note says where a property leaves something of one open.

## Modules

| module | what it is |
| --- | --- |
| `MpsDevice` | class `Mps`: client threads, scan thread and shutdown, one action per access to a shared field |
| `ScannerStatus` | what the STATUS register promises, without threads |
| `MCMpsDevice` | the instances of `MpsDevice` for TLC |
| `MpsDeviceProofs` | theorems about `MpsDevice` |
| `ThreadPool` | class `ThreadPool`: workers, `Enqueue`, `StopAll` |
| `MCThreadPool` | the instances of `ThreadPool` for TLC |
| `ThreadPoolProofs` | theorems about `ThreadPool` |
| `Server` | class `Server` with the connect, disconnect and receive callbacks of `ServerLayer`: accept thread, handlers, senders |
| `Ownership` | what README.md promises about the client in control, without threads |
| `MCServer` | the instances of `Server` for TLC |
| `ServerProofs` | theorems about `Server`: types, handlers, late commands, the client in control, the queue of handlers, and that it implements `Ownership` |
| `Lifecycle` | the restart loop, `OnAttach`, `OnUpdate`, `OnDetach`, `Start` and `Stop` of both servers, the WinSock count, the console |
| `LifecycleProofs` | theorems about `Lifecycle` |
| `Settings` | `SplitString` and `Mps::ParseCommands` as operators |
| `SettingsProofs` | lemmas about `ParseCommands` |
| `Session` | a client's command line: `OnDataReceived` and `OnCommand` over `Settings` |
| `SessionProofs` | theorems about `Session` and `SplitString` |
| `Frames` | `ConfigureScanLayout`, the frame that `ScanThreadFn` assembles, its delivery and the UDP queue, over `Settings` |
| `FramesProofs` | theorems about `Frames` |
| `Emulator` | `Lifecycle`, `Session` and `Frames` in one specification |
| `EmulatorProofs` | theorem about `Emulator` |
| `MCEmulator` | the instance of `Emulator` for TLC |

Which module has which part of a function that several share: the threads that
call `ParseCommands` and what it does to `m_Scanning` and the status are in
`MpsDevice`, the command and its arguments in `Settings`; who may call it is in
`Server`; when there is a device to call it on is in `Lifecycle`. `Frames` and
`Session` both use `Settings`, so that a command means the same during a scan as
without one.

### MpsDevice

`pc` says where each thread is. A client (`Callers`) that is `idle` may call
StartScan, StopScan, CalZ, or store a frame count with SET FPS; the labels
`start_*`, `stop_*` and `calz_*` are the points between two accesses to a shared
field inside those functions. The scan thread walks through `ScanThreadFn`:
`run` and `scan` are the tests of its two loops, `cal*` the calibration, `begin`
the load of the start time, `emit` the frame, `fps` the test that ends a finite
scan (which calls StopScan, the same actions as a client's), `next` the
increment. The main thread calls StopScan, clears `m_Running` (`off`) and joins.

Kept out: the content of frames, the commands that touch neither of the
modelled fields, and time. A sleep is a step that may be delayed at will. Of
`m_ScanStartTime` the model keeps whether the start time the scan thread has
loaded is the latest (`frame_start`). The frame number saturates at `MaxFrame`,
which exceeds every value in `FpsValues`: from there on no equality with
`frames_per_scan` can hold, as with the 32-bit counter until it wraps after
2^32 frames.

Three history variables serve the properties: `late` counts frames delivered
since `m_Scanning` was cleared, `fpsMoved` says that SET FPS was executed
since the scan thread last entered its scan loop, and `raced` that two threads
have been, at some time, between the first and the last shared access of
StartScan, StopScan, CalZ or the end of a calibration (`MidOperation`). A
property that says `raced \/ ...` is about behaviours up to the first such
overlap; without the proviso it is false, and that is what the missing lock
costs. Client threads may still be arbitrarily interleaved with the scan thread
and with each other outside these stretches.

`ScannerStatus` is the abstract specification: SCAN, STOP, CALZ and the end of
a calibration each happen at one instant. The mapping takes `m_Scanning` and
`m_Calibrating` as they are and, for the status, `Announced`: the value that
a thread which has written its flag is about to write, else `m_Status`.
`SerialStepsAreAtomic` says that each step maps to an abstract operation or to
a stutter, up to the first overlap.

### ThreadPool

Every critical section of `m_QueueMutex` is one action. A worker is at `test`
(the loop condition), `lock` (about to evaluate the predicate of `wait`, first
or after waking), `waiting`, `run` or `exited`. `notify_one` is called outside the
mutex and is an action of its own (`Notify`, of which `notifies` are owed); it is
lost if nobody waits. `SpuriousWakeup` may happen at any time and is not subject
to fairness. A task is enqueued at most once. Tasks in `Endless` return only
after the owner has cleared the flag they poll (`Dismiss`): the scan thread,
the accept and stream loops and the handlers of clients that stay connected
are of this kind. `StopAll` is modelled call by call: `m_Stop`, `notify_all`,
`request_stop` for each worker (in any order, workers being alike), `join`. A
second `StopAll` (from a destructor) finds no threads and is left out.

### Server

One module serves both servers, whose callbacks are the same code: `Control` is
TRUE for port 23, whose clients type, are checked for permission and get a
prompt, and FALSE for port 503. `pc` says where each thread is: `Accept` runs
`AcceptConnectionThreadFn` and, within it, the connect callback; the handler of a
connection, which bears the connection's name, runs `HandleConnectionThreadFn`
and, within it, the receive callback; `Senders` are the scan thread or any
other that calls `OnScanFrame`, `OnLabviewFrame` or `OnStatusChanged`. `KickClient`
(labels `kick_*`, the disconnect callback included) and `SendBuffer` (`send*`) are
called by all of them. Each action is one access to a shared field or one system
call. `HandlerStarts` stands for the pool: the first handler in the queue starts
when one of the `Workers` left for handlers is free, which `ThreadPool` justifies.

A client's id is the handle of its socket, and the operating system gives a
handle again once it is closed (`AcceptConnection` takes any that is not open).
`recv` waits on the socket that had the handle when it was called (`rx`). A
socket holds at most one unread message. Clients send and leave as they like. An
operation on `m_Connections` or `m_Cmds` takes effect at once: what two racing
ones do to the inside of a `std::map` is undefined and is not modelled, but an
entry that `operator[]` makes for an erased client is (`"blank"`). Of `m_Cmds` the
model keeps whose characters wait under an id (`partial`). A thread's argument is
forgotten when the call returns, so that states differ only where the code's do.

Two histories state provisos. `raced`: the active client changed in two threads
at once, or under a handler that had just tested it, or the newest client left
before it became active (`Overlap`). `reused`: a handle was given while a handler,
a sender or the layer still held the old one (`StillHeld`). Without them nearly
every promise about ownership is false, as the violations show; with them the
promises hold on the instances checked: no other interleaving threatens them there.
`late` counts the commands a client executed after another was given control,
and `eligible` the clients that were in control since a sender tested that there
is one.

`Ownership` is the abstract specification: a client asks, the owner is released
because it left or because another asks, the one that asks is granted control.
Under the mapping the owner is the connection whose handle is the active id while
`m_TCP...ClientConnected` is set, or about to be by the accept thread.

### Lifecycle

`main` says where the main thread is in `Main`, `Application::Run` and what they
call; `at` is the server it is busy with. `Create` is `CreateApplication`;
`StartDevice`, `MakeServer`, `StartServes`, `StartStream`, `StartFails` and
`MakeConsole` are the calls of `OnAttach` in their order; `TestRunning` and `Update`
the main loop; `Detach` to `JoinWorkers` are `~Application` and `OnDetach`, with
`Server::Stop` from `StopServing` to `JoinWorkers`; then comes the second `Stop`, of
`~Server` (`again`), and the destructors of the layer and the console.

The scan thread is reduced to its two loops and to the frame that it delivers
through `m_Device` and `m_Server`; an accept thread to the test, the wait and the
entry of a connection into `m_Connections`; a handler to its loop, its command and
its kick. RESTART and SHUTDOWN are executed by a handler or by the console, in
two steps where the code has two, at any label of the main thread.
`HandlerDevice` and `ConsoleDevice` stand for every other command: it looks whether
there is a device, and uses it in a later step; the console then answers through
`m_Server`, which it does not check.

A null or dangling pointer (`s_Instance`, `m_Server`, `m_Device`) is a crash, which
ends the behaviour; for the erased iterator of `Stop` and the destroyed `m_Cmds`,
whose use is undefined, the process may die or go on. So it may in `JoinDevice` when a
scan was started again after the device's Shutdown: `~Mps` stops it a second time, and
reports the status through an `m_Device` that is null already. The WinSock count is kept
as the code keeps it: `InitializeNetworking` counts up, each of the two `Stop`s and
each failing `Start` counts down, and a count that reaches zero or less closes
every socket of the process.

### Settings and Session

A token is a word or a number with or without other text behind it (`"12abc"`),
which is what `sscanf`, `strtol` and the comparisons of `ParseCommands` tell apart.
`ParseCommands` gives the set of outcomes of a command: a new configuration,
errno, the kind of reply, and the operation of the device it calls; the set has
several elements where the code reads an uninitialised integer (SET ENUDP, SET
ENFTP) or casts a number that does not fit (SET RATE). Integers keep the width of
the C++ types, scaled. The rate is a float: a number of parts of a Hz, of which
there are `Grain`, or `NaN`. `UpdateScanAverages` rounds 500 / rate up, and where that
is no `uint32_t` (`BadRate`: NaN, not positive, or so small that the result does not
fit) the cast is undefined and makes zero, one or a large number. LIST S prints a
rate with six significant digits: `Printed` is the nearest of the rates in `Printable`.
Beyond that the arithmetic is exact: the rounding of a float that is read or divided is
not modelled.

`Session` has one action per `recv`. A segment of one character (`Key`) is collected in
`m_Cmds` with backspace and escape, any other (`Segment`) replaces what was
collected; both end in `OnCommand`, which splits at CR and LF and executes the
first piece. The histories say what the user of a terminal sees: `typed` the line,
`due` the command that Enter, Escape or a segment should execute; where the user
could mean nothing in particular (an LF inside a line, a segment that is not
one line) they follow the code, and `EachLineOnce` says nothing.

### Frames

`caller` walks through `StartScan`: one label per assignment of
`ConfigureScanLayout` that the scan thread can tell from the next, then the averages,
then `m_Scanning`. SET RATE, too, has two steps: `SetOrGet` stores the rate, `FinishRate` the
averages, and a frame may come in between. `frame.at` walks through one round of the inner loop: the samples, the
division, the LabVIEW packet with the three sizes tried one after the other,
the binary packet with its switch, and the two callbacks, which test the
configuration again. A packet is its type, with the channels it has room for, and
the number of channels that were copied into it. `queue` and `sending` are the
stream thread's. `Promised` is the specification: a table, written from README.md,
of what each target gets for a configuration and a device.

## Runs

The bounds are in the `.cfg` files. Deadlock is checked for the device. For the
pool it is not: once every task has been enqueued and the pool has stopped,
nothing is left to happen; `StopReturns` takes its place. Nor is it for the
server, whose threads wait for clients when every connection has been made and
closed; `AcceptedIsHandled` and `KickedHandlerEnds` take its place. Nor for the
emulator, where an application that has been shut down, a client that has nothing
more to send, a process that has died and the bounds all end a behaviour;
`RestartCompletes`, `StartsAreRetried` and `QueuedIsSent` take its place.

| run | instance | what it shows |
| --- | --- | --- |
| `mps_safety` | 2 clients, counts {0, 2}, `MaxFrame` 3, clients symmetric | types; at most one late frame; STATUS truthful and operations atomic up to the first overlap; a finite scan keeps to its count |
| `mps_live` | 1 client, counts {0, 2} | a calibration ends, a scan produces a frame, a finite scan ends, a shutdown is joined unless a scan runs |
| `mps_calz_temporary` | 1 client | violated: CALZ may stay for ever |
| `mps_frames_of_this_scan` | 1 client | violated: frames of a new scan timed from an old start |
| `mps_shutdown_stops` | 1 client | violated: a scan started during Shutdown is never ended, although the clients fall silent |
| `pool` | 2 workers, 2 short tasks, 1 endless | order, wakeups, nobody asleep after `notify_all`; `StopAll` returns; every task starts |
| `server_control` | 3 connections, 2 handles, 1 worker for handlers, control server | types; one late command; every entry has its handler; the last client to connect owns the device and nobody inherits its characters; control passes as in `Ownership` |
| `server_prompts` | 2 connections, 2 workers for handlers, 1 sender, control server | with handlers at once: no prompt reaches a client that was not in control |
| `server_binary` | 2 connections, 1 worker for handlers, binary server | a kick frees the worker, so that every accepted client is served; no handler waits in the queue behind one that only its client can release; a closed connection's handler ends |
| `server_last_one_wins` | 2 connections, 2 workers | violated: the disconnect of a leaving client takes control from the one that connects |
| `server_only_newer_kicks` | 3 connections, 2 workers | violated: the second kick of a client closes a newer one that got its handle |
| `emulator` | lifecycle: 1 connection, 2 lives, 1 failing call; session: 6 keys, 38 segments; frames: 4 device types, 64 configurations, 6 commands | after a life nothing of it is left; a running server listens; the process dies only in a shutdown and never of the scan thread; no life after SHUTDOWN; starts that fail are retried until both servers can be reached, and a restart completes. A line is executed once and as it was meant; LIST replays, the rate to the digits printed; a refused command changes next to nothing. A frame is delivered as README.md promises, packets are whole, averages are averages, a division by zero takes a rate that makes no number of averages or a SET RATE that is half done, what is queued is sent |

Why the bounds are enough. Two clients produce every pairwise overlap of
operations with each other, with the scan thread and with the shutdown, which
is a fourth thread in them; the theorems below lift the safety properties to
any number. A count of 2 with saturation at 3 has a frame before, at and beyond
the count. In the pool one worker may run the endless task while the other
looks, sleeps or runs, and there are more tasks than workers; any larger pool is
covered by the theorems. The liveness run of the device is smaller because one
client already interleaves with all of the other threads' operations.

Three connections over two handles make the system give a handle again while
a third client is about, which is where kicks go wrong; two connections with two
workers for handlers overlap the handlers with each other and with the accept
thread. The binary server has, besides the accept loop, one worker, and so has
the run; the control server has five with the accept loop and the stream, of
which a run of two shows the overlaps.

`emulator` checks three machines that share no variable, and one at a time: an
initial state lets one of them move while the other two rest in a state in which
they have nothing to do, so that the state space is the sum of the three and not
their product. What couples them in the code is not lost: the lifecycle lets a
command arrive at any time, the session runs every command on any
configuration, and the frames take any configuration that commands can leave.

* Lifecycle. Two lives are one restart, and the count of WinSock users is off by
  as much after it as after any later one. One connection meets each stage of
  `Start` and `Stop` of the control server; the kicks between several are in
  `Server`. `MaxFails` is 1: one call fails, anywhere. With the console there are neither clients nor failing calls
  (`FailBound`, `ClientBound`): the console executes the commands that a client
  does, so that both at once add interleavings of two equal things.
* Session. Five keys with one segment, or one key with two segments
  (`KeysOrSegments`): a line of one word, edited, ended by CR or CR LF, before or
  after a segment. The segments (`SegmentsSent`) hold every SET with good, bad,
  missing and surplus arguments and numbers at both ends of their ranges. Widths
  are scaled: `Short` 4 for 2^16, `Long` 8 for 2^32, `PadBit` 2 for 0x40; the order
  among them, on which the comparisons depend, is kept. A Hz has 32 parts (`Grain`);
  `FullRate`, 128 parts, stands for 500 Hz and `OwnRate`, 64, for 10 Hz. Rates of one
  significant bit can be printed (`PrintableRates`). The rates sent are 0, NaN, ordinary
  ones, one with a digit more than is printed (`LongRate`) and one so small that 128
  averages would not fit below 8 (`TinyRate`). Two segments suffice for a setting
  to meet the errno of an earlier one, and the FORMAT of one the refusal of another.
* Frames. `Unknown` is a device type outside the table. Every device and
  configuration scans one frame; four commands (SCAN, STOP, SCAN and a SET in
  between, which may be of `TinyRate`) and two frames, in which a frame overlaps the next StartScan, are left
  to one device with the configuration of `OnAttach` (`FewCommands`).

Fairness. A client's command that was begun is carried on, the scan thread runs,
and so do a shutdown, a worker, an `Enqueue` that has pushed and a `StopAll` that
was called: these are threads the operating system schedules. `Emit` is
fair because a `send` that blocks for ever is outside the model. In the server
the accept thread and the handlers run, each under weak fairness of its own; a
`recv` without a message is not enabled. In `Lifecycle` every thread the program
makes is fair; in `Frames` the caller once it is inside StartScan or SET RATE, the scan thread and
the stream thread; in `Session` nothing is. Nobody is obliged to issue a command,
to connect, to send, to leave, to type a line, to enqueue, to stop or to wake
spuriously. `RestartCompletes` therefore names the two places where a restart does
hang: in the join of the scan thread when a SCAN got in behind its back (the same
flaw as in `mps_shutdown_stops`), and in the join of the console's thread, which waits
in `getline` for a line.

## Proofs

`MpsDeviceProofs` proves, for any set of clients, any frame bound and any set of
counts: type correctness, `AtMostOneLateFrame`, `StatusIsTruthful`,
`SerialStepsAreAtomic` and `FiniteScanBounded`. They rest on the assumptions
`ThreadsAreDistinct` and `FrameBound` and on three inductive invariants:

* `LateInv`: a frame in the making was begun during a scan, so that none has
  been counted late before it is delivered. `late <= 1` alone is not inductive:
  it does not say that `late` is 0 when a frame begins.
* `SerialInv`: before the first overlap, what a thread inside an operation has
  tested or written still holds (a StartScan that has passed its test finds
  `m_Scanning` clear until it sets it, and so on), and the status is explained
  by a flag or by a thread that is about to overwrite it. Steps fall into those
  that move a thread and touch nothing else (`QuietStep`), for which one lemma
  serves, and the eight that write a flag or the status (`WritingStep`).
* `LoopInv`: in a scan loop entered for the present scan the frame number is
  bounded by the count at every label of the loop, and a StartScan about to set
  its flag finds the scan thread outside the loop or before its first frame.
  The last part is needed because STOP followed by SCAN within one frame would
  otherwise let the counter run past the count.

`ThreadPoolProofs` proves, for any finite set of workers and any set of tasks,
type correctness, `FifoOnce`, `NobodySleepsAfterStop` and `NoLostWakeup`. The
last counts: each queued task is covered by a worker that looks or by a
notification to come, so that taking a task takes one from both sides; the
cardinality facts come from the library's theorems on finite sets. `SleepInv`
adds that no worker is told to stop before `notify_all`.

`ServerProofs` proves, for any set of connections, handles and
senders, any number of workers and both kinds of server, every safety property of
`Server` that a run checks. They rest on the assumptions `NamesAreDistinct` and
`ServerParameters` and on three inductive invariants:

* `TypeInv` adds to the types that the accept thread knows the connection it is
  busy with and that the connection's handler is new until it is enqueued;
  without it the queue might hold a handler twice. `EveryClientHasHandler` is
  inductive on top of it: only `KickErase` leads to the labels where a handler no
  longer counts, and it has just erased the entry.
* `LateInv`: unless a handle was given while it was held, an id tells its holder,
  the active id tells the client made active last (`Apart`), and, on the control
  server, a client that has executed a late command is neither the current nor the
  newest one and is not past the permission check (`OneLate`), so that it cannot
  execute a second. This proof does not use the proviso `raced`: overlaps of the
  callbacks do not break the bound.
* `Orderly`, under both provisos: what the active id, the flag, the table, the sockets
  and the labels of the threads have to do with each other at every point of a
  change of owner. `LastOneWinsSerially` speaks of the points where the accept thread is
  outside its callback only. To get from one to the next, the invariant has to
  say how far the callback is (`Grants`), that until it clears the flag the old owner
  is in control or its handler is ending (`Serves`), which of the two threads that can
  end a client has got how far (`Kicks`), that the newest and the current client
  stay connected and in the table until they leave (`Remains`) and that nobody else's
  socket is open (`Opens`). On top of these, a handler reads and executes only what
  the owner has sent (`Receives`, `Executes`), what waits in `m_Cmds` is the owner's or about
  to be erased (`Typed`), and whoever holds the id that a sender has read was in
  control since its test (`Sees`).

Since nothing takes `raced` back, the proof may assume at every step that no two
threads are inside a change of owner in the state it starts from (`Overlap`).
`LastClientOwns`, `CommandsAreOwn` and `FramesReachOwners` follow. `LateCommands` holds of the
binary server as well, which up to the first overlap never executes a late command
at all: it has no permission check, but a kicked client's socket is closed before the next client is
current, and so its handler has nothing to read. `ControlPasses` is the refinement: each
of the server's actions, under the mapping and up to the first overlap, is an
`Ask`, a `Leave`, a `Release`, a `Grant` or a stutter.

`QueueIsServed` (`QueueGoesOn`) adds to `Orderly` who may be in the queue. In a server with
one worker, a handler that sits in `recv` on an open socket keeps every later client
out for as long as its own client likes. It does not happen, because the accept
thread enqueues the handler first and kicks the old client after: whenever it is
back at `accept`, the only open socket is the newest client's, whose handler is
the last in the queue, so that it runs only when the queue is empty.
`ClosedHandlersEnd` says that a handler whose connection is closed is not held up in `recv`,
and that `EndsIn`, the number of steps it still has before it, goes down with each
step that it makes. It needs the proviso `reused` alone: given again, the handle is a
socket on which `recv` may wait.

`LifecycleProofs` proves, for any set of connections, any number of lives and of
failing calls: type correctness, `OldLifeIsOver`, `DiesOnlyInDetach`,
`NoLifeAfterShutdown` and `RunningServersListen`. They rest on the assumption
`LifecycleBounds`. The first four follow from one
inductive invariant, `LifeInv`, which says for every label of the main thread what is
there and what is gone: `MainInv` which of its objects the main thread holds,
`UpInv` which servers it has made, `DownInv` what `Stop` has achieved so far. None of the
properties is inductive alone: that `m_Connections` is empty between two lives, say,
needs that the accept thread was joined before the second `Stop` cleared it, because
the first one could not know of a connection that was accepted and not yet entered
(`pend`). `NoLifeAfterShutdown`
follows because the main thread reaches `Create` only with every thread that might
be inside SHUTDOWN joined (`ControlOver`, `con = "none"`).

`RunningServersListen` needs `ListenInv` on top: in the first life the WinSock count is
the number of the running servers, so that a `Start` that fails cannot
bring it to zero under the other one; in later lives, where the count is already
too low, a running server has its socket as long as nothing has failed.

`JoinsEnd` is about the joins of `Stop`, in which a restart could hang. What the
main thread is about to join there cannot block (`JoinsAreAnswered`): the accept thread
and the handlers find their sockets closed, the stream thread its loop over. And
each step of a thread that is joined brings its end nearer (`Drains`). The two
places that `RestartCompletes` excepts are the two that `JoinsEnd` does not speak of: the
scan thread while `m_Scanning` is set, and the console in `getline`.

`FramesProofs` proves, for any commands, configurations, devices and bounds: type
correctness, `FramesAsPromised`, `PacketsAreWhole`, `AveragesAreAverages` and
`DiesOnlyOfBadRate`. They rest on `SettingsBounds`, `FramesBounds` and `FramesInputs` (a
command has a token, and a configuration the fields of `m_cfg` with a rate), on the
lemmas of `SettingsProofs` (whatever the tokens, `ParseCommands` keeps the fields and the
rate, and the number of averages fits a `uint32_t` and is zero only for a `BadRate`) and
on the inductive invariant `FramesInv`, which ties the two threads together. Its part
`InStep` says that the averages are zero only with a `BadRate`, or between the two stores
of SET RATE, where a frame divides by what the old rate has left. For the caller, `LaidOut`
says at each label of StartScan which parts of the layout are already those of
the configuration; for the scan thread, `Filled`, `Summed` and `SoFar` say at each label
what the frame has copied, summed and delivered, in terms of the layout that it
is going to read again. The two do not meet but in a frame that is marked
as overlapped (`Alone`). Looking for this invariant showed that the mark itself was
wrong in an earlier version of the model: a second StartScan, coming after the torn
frame had ended, took the mark back while `output` was still that frame's. The
history variable is corrected in `BeginScan`; the run's bound of four commands is too
small to show it.

`PacketsInOrder` is an action property of the stream: of the packets on their way, the one
the stream thread has taken and those in the queue, a step leaves the sequence as
it is, appends the UDP packet of the frame being delivered, or sends the first.
None is lost, doubled or overtaken between the two threads.

`SessionProofs` proves, for any keys, segments and widths of the integer types: type
correctness, `EachLineOnce`, `RefusalChangesLittle` and `ListReplays`. They rest on
`SettingsBounds`, `SessionBounds` and `SessionInputs` (clients send tokens, the unit of
`OnAttach` is in the table of units, and no unit is the empty word). What a loop over
a sequence computes cannot be proved by induction here, so the operators say it
outright: the pieces of `SplitString` are the longest runs without a delimiter, in the
order of their starts, and the formats that SET FORMAT sets are the last ones in front of
the first pair that is refused. The proof that the k-th piece exists for each k goes by
the least place with k starts up to it.

* `LineInv`: as long as the line is the one that its user sees (`aligned`), `m_Cmds` is that line
  behind some line feeds, and the line holds no CR or LF; otherwise `m_Cmds` is longer than the line.
  The line feeds have to be there: that of a CR LF is collected in front of the next line, and
  BS on an empty line takes it back. `EachLineOnce` follows because the first piece of
  `m_Cmds` is then the line.
* `Good`, command by command, for the types and for `RefusalChangesLittle`: an outcome
  is in its domain, and a refusal changes formats only where a pair of tokens says so.
* `Copied`, for `ListReplays`: which settings the new device has after each of the twelve lines.
  The new rate is the one printed, which printed again stays as it is (`PrintedTwice`), so
  that the new device prints the same lines although its rate may not be the old one.

The proof of BS failed at first for a good reason: two guards of a CASE in the history
`typed` overlapped, so that the definition left open what TLC takes from the order of
the cases. The guards exclude each other now.

`EmulatorProofs` proves `EmulatorTypeOK` of the composition, whichever of the three
machines moves: from the steps that the three modules prove, and from the fact
that a step of one leaves the variables of the others alone.

Only model-checked: the violations, which are counterexamples, and the liveness
properties. Fairness and ENABLED are out of the prover's reach. What is proved of most
liveness properties is their safety core: that nothing can block on the way, and
that every step the thread makes brings it nearer to the goal. That the thread
makes steps at all is the fairness, and that a decreasing number comes to an end
an induction, and both stay with TLC.

| checked by TLC | safety core that is proved |
| --- | --- |
| the four liveness properties of `MpsDevice` | `ScanThreadAnswers`: each step of the scan thread is nearer to a frame, to the calibration or to its end, and it leaves its loop only after a shutdown |
| `StopReturns`, `EnqueuedIsStarted` | `NobodySleepsAfterStop`, `NoLostWakeup` |
| `AcceptedIsHandled` | `QueueIsServed` |
| `KickedHandlerEnds` | `ClosedHandlersEnd` |
| `RestartCompletes` | `JoinsEnd` |
| `QueuedIsSent` | `PacketsInOrder` |
| `StartsAreRetried` | none: that each `OnUpdate` tries again is the action itself; that one of the tries succeeds is fairness and the bound on failing calls |

## Divergences without a run

Met while modelling, and visible in the models though no run is devoted to them:

* README.md 144 says that CALZ sets the status "for 2 seconds"; a SCAN or a STOP
  during the two seconds overwrites it (mps.cpp 224, 254-256).
* mps.h 30 says of the frame count "0 = continuous"; a scan whose count is
  lowered by SET FPS below the current frame never ends, because the count is
  tested with `==` (mps.cpp 500). `FiniteScanBounded` and `UndisturbedScanEnds`
  therefore exclude it with `fpsMoved`.
* threads.cpp 55 says that workers stop "when the queue is drained"; a worker
  that tests its `stop_token` first (13) leaves what is queued.
* README.md 37 grants a client on port 23 full control; a command that it sends
  at once may be refused, because its handler is enqueued (server.cpp 104) before
  it is made active (107).
* README.md says that commands may be written in upper or in lower case; the
  fold leaves out ENFTP, which is known in upper case only (mps.cpp 610).
* mps.cpp 681 tests errno, which nothing clears: after a SET SIM with a number out
  of the range of `unsigned long` every later SET SIM of that client is refused.
* A segment with two lines executes the first only, and a line in two segments
  is executed in two halves (server-layer.cpp 333); `EachLineOnce` excludes both.
* A SHUTDOWN or RESTART during `OnAttach` is overwritten by `Run` (application.cpp
  47): the application runs on until another of them comes, and then does not come
  back, because g_ApplicationRunning stays cleared.
* `Stop` runs twice for each server, from `OnDetach` and from the destructor, and
  counts a WinSock user off each time: the count is low after a restart, and a
  server that then fails to start closes the sockets of the other one, although
  socket.h 78 speaks of "No remaining dependants". `RunningServersListen` excludes it.
* server-layer.cpp 117 says of a server that shuts down "for some reason, restart it".
  `OnUpdate` asks `m_ServerIsRunning` only, which stays set on a server that is dead: one
  whose stream socket could not be made, as that ends `Start` after the flag was set
  (server.cpp 59, 118), and one whose sockets the other server's failing `Start`
  closed, which happens in and after a restart. `StartsAreRetried` excludes both.
* The lines of LIST S do not give back a rate of more than six significant digits
  (mps.cpp 736), as `ListReplays` says.
* SET RATE stores the rate and the averages one after the other (mps.cpp 575, 577):
  after a SET RATE 0 a frame may divide by zero with a new rate that is positive.
* `Stop` erases the entry of `m_Connections` that its loop stands on (server.cpp 71).
* A SHUTDOWN, RESTART or device command that a handler executes during `OnDetach`
  may meet a null `s_Instance` or `m_Device`; at the console also a null
  `m_Server` or a destroyed `m_Cmds`. A SCAN there may make `~Mps` use the null `m_Device`. `DiesOnlyInDetach` says where.
* A STOP while no scan runs is answered without the prompt that follows other
  commands, because the status does not change (mps.cpp 247).
* The seed is set anew by StartScan so that scans repeat (mps.cpp 206); a late frame
  of the scan before may still draw from the generator.
* The code builds on Windows only: mps.cpp 234 lacks a semicolon in the other
  branch, and `WSAGetLastError` is called without a condition.

## Plan

Done: `MpsDevice`, `ThreadPool`, `Server` with `Ownership`, `Lifecycle`, `Frames`, `Session` and
their proofs; `Settings` with its lemmas; `Emulator`. Every invariant and action
property that a run checks is a theorem, but for those that are violated.

What would come next: `Lifecycle` with more than one connection in TLC's instance, once
the scan thread and the console are split off. The theorems hold for any number
already.

## Not modelled

* The command-line parser (`utils/args.h`): sequential, over before a thread starts; what
  it may hand on is an input (`ipValid`, `consoleOn`, `Devices`).
* Buffers, byte order, `extract_last_octet`: helpers without a state of their own; who
  owns a buffer's memory is not modelled.
* `StreamData`, `IsClientConnected`, `PollConnection` and `KillThread`, which have no caller
  or no body.
* The random samples and the times of a frame; the wording of replies.
* What two racing operations do to the inside of a `std::map`, and the end of the
  console's input, at which its thread spins.
* Log, timer, assertions, build files, and the data files, which the program does not
  read; the protocol library, which is not in the repository: of its packets the
  models keep the kinds and the number of channels that the code in `mps.cpp` names.
