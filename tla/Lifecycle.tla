----------------------------- MODULE Lifecycle -----------------------------
(***************************************************************************)
(* The life of the application: the restart loop of the main thread        *)
(* (entrypoint.h, application.cpp), what ServerLayer builds in OnAttach,   *)
(* keeps alive in OnUpdate and takes down in OnDetach, Start and Stop of   *)
(* the two servers with the count of users of WinSock, and the console.    *)
(*                                                                         *)
(* Threads.  The main thread (main), the device's scan thread (scan), the  *)
(* accept thread of each server (acc), the stream thread of the control    *)
(* server (stream), the handlers of its connections (hd) and the           *)
(* console's input thread (con).  A handler or the console may execute     *)
(* RESTART and SHUTDOWN at any time, also while the main thread builds     *)
(* the application or takes it down.                                       *)
(*                                                                         *)
(* Abstractions.  The operations of the device between its start and its   *)
(* end are in MpsDevice and those of a server between Start and Stop in    *)
(* Server: here a client only connects, sends a command and leaves, and    *)
(* the clients of the binary server, which can only start and stop scans,  *)
(* are left out.  Pools have a worker for every task (ThreadPool).  What a *)
(* null or a dangling pointer and an erased iterator do is a crash, or     *)
(* nothing where the build may also go on.                                 *)
(***************************************************************************)
EXTENDS Integers

CONSTANTS
  Conns,       (* connections that clients may make to the control server  *)
  MaxLives,    (* bound on the applications created one after the other    *)
  MaxFails     (* bound on the system calls that fail in Start             *)

ASSUME LifecycleBounds == MaxLives \in Nat \ {0} /\ MaxFails \in Nat

Servers == {"control", "binary"}

VARIABLES
  ipValid,     (* --bind-ip can be parsed                                  *)
  consoleOn,   (* --enable-console                                         *)
  life,        (* which application this is                                *)
  appRunning,  (* g_ApplicationRunning                                     *)
  running,     (* m_Running of the application                             *)
  instance,    (* s_Instance is set                                        *)
  main,        (* where the main thread is                                 *)
  at,          (* the server it is busy with                               *)
  attached,    (* OnAttach has returned and OnDetach has not begun         *)
  again,       (* it is in the second Stop, the one of the destructor      *)
  devOn,       (* m_Device is set                                          *)
  devRun,      (* m_Running of the device                                  *)
  scanning,    (* m_Scanning of the device                                 *)
  scan,        (* where the scan thread is                                 *)
  exists,      (* servers whose pointer is set                             *)
  serving,     (* servers whose m_ServerIsRunning is set                   *)
  open,        (* the sockets that each server has open                    *)
  wsaCount,    (* s_WSAInstances                                           *)
  wsaUp,       (* s_WSAInitialized                                         *)
  acc,         (* where the accept thread of each server is                *)
  pend,        (* connections accepted and not yet in m_Connections        *)
  stream,      (* where the stream thread is                               *)
  table,       (* m_Connections of the control server                      *)
  sock,        (* connections whose socket is open                         *)
  hd,          (* where each handler is                                    *)
  con,         (* where the console's thread is                            *)
  inputOn,     (* m_InputThreadRunning                                     *)
  callback,    (* m_MessageCallback is set                                 *)
  crashed,     (* the process has died                                     *)
  fails,       (* history: system calls that have failed in Start          *)
  udpFailed    (* history: this life's stream socket could not be made     *)

arguments == <<ipValid, consoleOn>>
app == <<appRunning, running, instance>>
mainVars == <<main, at, attached, again>>
device == <<devOn, devRun, scanning>>
wsa == <<wsaCount, wsaUp>>
net == <<wsa, open>>
conns == <<pend, table, sock>>
threads == <<scan, acc, stream, hd, con>>
console == <<inputOn, callback>>
notes == <<fails, udpFailed>>
lifecycleVars ==
  <<arguments, app, mainVars, device, net, conns, threads, console, notes,
    life, exists, serving, crashed>>

UpLabels == {"run", "loop", "update", "start", "stream"}
MainLabels ==
  {"test", "exit", "create", "device", "server", "console", "callback",
   "detach", "dev_stop", "dev_off", "dev_join", "stop", "kicks", "close",
   "join", "layers", "callback_off", "console_join"} \cup UpLabels
HandlerLabels == {"none", "queued", "loop", "recv", "restart", "shutdown",
                  "shutdown2", "device", "use", "kick"}
ConsoleLabels == {"none", "start", "test", "getline", "restart", "shutdown",
                  "shutdown2", "device", "use", "reply"}

(* Before the first application, and after the last one.                   *)
AllOff ==
  /\ life = 0 /\ at = "control"
  /\ open = [s \in Servers |-> {}]
  /\ acc = [s \in Servers |-> "none"]
  /\ hd = [c \in Conns |-> "none"]
  /\ scan = "none" /\ stream = "none" /\ con = "none"
  /\ wsaCount = 0 /\ fails = 0
  /\ exists = {} /\ serving = {} /\ pend = {} /\ table = {} /\ sock = {}
  /\ running = FALSE /\ instance = FALSE /\ attached = FALSE /\ again = FALSE
  /\ devOn = FALSE /\ devRun = FALSE /\ scanning = FALSE /\ wsaUp = FALSE
  /\ inputOn = FALSE /\ callback = FALSE /\ crashed = FALSE /\ udpFailed = FALSE

LifecycleInit ==
  /\ AllOff
  /\ main = "test"
  /\ appRunning = TRUE
  /\ ipValid \in BOOLEAN
  /\ consoleOn \in BOOLEAN

-----------------------------------------------------------------------------
(* The main thread, up to the main loop.                                   *)

(* Bounds: the console executes the commands that a client executes, and   *)
(* failing calls have nothing to do with either.  With the console, no     *)
(* client connects and no call fails.                                      *)
FailBound == IF consoleOn THEN 0 ELSE MaxFails
ClientBound == IF consoleOn THEN {} ELSE Conns

Goto(from, to) == main = from /\ main' = to

(* Main: the test of g_ApplicationRunning.                                 *)
TestApp ==
  /\ IF appRunning THEN life < MaxLives /\ Goto("test", "create")
                   ELSE Goto("test", "exit")
  /\ UNCHANGED <<arguments, app, at, attached, again, device, net, conns,
                 threads, console, notes, life, exists, serving, crashed>>

CreateUnset ==
  /\ Goto("create", "device")
  /\ life' = life + 1
  /\ running' = FALSE
  /\ udpFailed' = FALSE
  /\ UNCHANGED <<arguments, appRunning, instance, at, attached, again, device,
                 net, conns, threads, console, fails, exists, serving, crashed>>

(* CreateApplication, with the constructors of Application and ServerLayer. *)
Create ==
  /\ Goto("create", "device")
  /\ life' = life + 1
  /\ instance' = TRUE
  /\ running' = FALSE
  /\ udpFailed' = FALSE
  /\ UNCHANGED <<arguments, appRunning, at, attached, again, device, net,
                 conns, threads, console, fails, exists, serving, crashed>>

(* OnAttach: the device and Mps::Start.                                    *)
StartDevice ==
  /\ Goto("device", "server")
  /\ at' = "control"
  /\ devOn' = TRUE /\ devRun' = TRUE /\ scanning' = FALSE
  /\ scan' = "run"
  /\ UNCHANGED <<arguments, app, attached, again, net, conns, acc, stream, hd,
                 con, console, notes, life, exists, serving, crashed>>

MakeServer ==
  /\ Goto("server", "start")
  /\ exists' = exists \cup {at}
  /\ UNCHANGED <<arguments, app, at, attached, again, device, net, conns,
                 threads, console, notes, life, serving, crashed>>

(* WSACleanup closes every socket of the process.                          *)
WSACleanup ==
  /\ wsaUp' = FALSE
  /\ open' = [s \in Servers |-> {}]
  /\ sock' = {}

CleanupNetworkingAtOnce(n) ==
  /\ wsaCount' = n - 1
  /\ WSACleanup

(* CleanupNetworking, for a count that has become n.                       *)
CleanupNetworking(n) ==
  /\ wsaCount' = n - 1
  /\ IF n - 1 > 0 THEN UNCHANGED <<wsaUp, open, sock>> ELSE WSACleanup

(* InitializeNetworking counts its callers, also those that come later.    *)
InitializeNetworking == wsaCount + 1

(* Where Start returns to: OnAttach or OnUpdate.                           *)
StartReturns ==
  /\ main' = IF attached THEN IF at = "control" THEN "update" ELSE "loop"
             ELSE IF at = "control" THEN "server" ELSE "console"
  /\ at' = IF at = "control" THEN "binary" ELSE at

(* A Start that ends before m_ServerIsRunning is set: WSAStartup, the      *)
(* socket, its address or the bind has failed.                             *)
StartFails ==
  /\ main = "start"
  /\ IF ipValid THEN fails < FailBound /\ fails' = fails + 1 ELSE UNCHANGED fails
  /\ \/ ~wsaUp /\ UNCHANGED <<net, sock>>
     \/ CleanupNetworking(InitializeNetworking)
  /\ StartReturns
  /\ UNCHANGED <<arguments, app, attached, again, device, pend, table, threads,
                 console, udpFailed, life, exists, serving, crashed>>

(* Start up to the accept thread.                                          *)
StartServes ==
  /\ main = "start"
  /\ ipValid
  /\ wsaUp' = TRUE
  /\ wsaCount' = InitializeNetworking
  /\ open' = [open EXCEPT ![at] = {"tcp"}]
  /\ serving' = serving \cup {at}
  /\ acc' = [acc EXCEPT ![at] = "test"]
  /\ IF at = "control" THEN main' = "stream" /\ UNCHANGED at ELSE StartReturns
  /\ UNCHANGED <<arguments, app, attached, again, device, conns, scan, stream,
                 hd, con, console, notes, life, exists, crashed>>

(* The stream socket of the control server.                                *)
StartStream ==
  /\ main = "stream"
  /\ StartReturns
  /\ \/ /\ open' = [open EXCEPT ![at] = @ \cup {"udp"}]
        /\ stream' = "poll"
        /\ UNCHANGED <<wsa, sock, notes>>
     \/ /\ fails < FailBound
        /\ fails' = fails + 1
        /\ udpFailed' = TRUE
        /\ CleanupNetworking(wsaCount)
        /\ UNCHANGED stream
  /\ UNCHANGED <<arguments, app, attached, again, device, pend, table, scan,
                 acc, hd, con, console, life, exists, serving, crashed>>

MakeConsole ==
  /\ IF consoleOn THEN Goto("console", "callback") /\ con' = "start"
                  ELSE Goto("console", "run") /\ UNCHANGED con
  /\ UNCHANGED <<arguments, app, at, attached, again, device, net, conns, scan,
                 acc, stream, hd, console, notes, life, exists, serving, crashed>>

SetMessageCallback ==
  /\ Goto("callback", "run")
  /\ callback' = TRUE
  /\ UNCHANGED <<arguments, app, at, attached, again, device, net, conns,
                 threads, inputOn, notes, life, exists, serving, crashed>>

-----------------------------------------------------------------------------
(* The main loop.                                                          *)

Run ==
  /\ Goto("run", "loop")
  /\ running' = TRUE
  /\ attached' = TRUE
  /\ UNCHANGED <<arguments, appRunning, instance, at, again, device, net, conns,
                 threads, console, notes, life, exists, serving, crashed>>

TestRunning ==
  /\ Goto("loop", IF running THEN "update" ELSE "detach")
  /\ at' = "control"
  /\ UNCHANGED <<arguments, app, attached, again, device, net, conns, threads,
                 console, notes, life, exists, serving, crashed>>

UpdateForgotten ==
  /\ main = "update"
  /\ StartReturns
  /\ UNCHANGED <<arguments, app, attached, again, device, net, conns, threads,
                 console, notes, life, exists, serving, crashed>>

(* OnUpdate, for one server after the other.                               *)
Update ==
  /\ main = "update"
  /\ IF at \notin serving THEN main' = "start" /\ UNCHANGED at ELSE StartReturns
  /\ UNCHANGED <<arguments, app, attached, again, device, net, conns, threads,
                 console, notes, life, exists, serving, crashed>>

-----------------------------------------------------------------------------
(* The main thread takes the application down: ~Application, OnDetach.      *)

Detach ==
  /\ Goto("detach", "dev_stop")
  /\ instance' = FALSE
  /\ attached' = FALSE
  /\ UNCHANGED <<arguments, appRunning, running, at, again, device, net, conns,
                 threads, console, notes, life, exists, serving, crashed>>

(* Mps::Shutdown: StopScan, m_Running, StopAll; then the device is gone.   *)
StopDevice ==
  /\ \/ Goto("dev_stop", "dev_off") /\ scanning' = FALSE /\ UNCHANGED devRun
     \/ Goto("dev_off", "dev_join") /\ devRun' = FALSE /\ UNCHANGED scanning
  /\ UNCHANGED <<arguments, app, at, attached, again, devOn, net, conns, threads,
                 console, notes, life, exists, serving, crashed>>

JoinDeviceForgotten ==
  /\ Goto("dev_join", "stop")
  /\ devOn' = FALSE /\ scanning' = FALSE
  /\ at' = "control"
  /\ UNCHANGED <<arguments, app, attached, again, devRun, net, conns, threads,
                 console, notes, life, exists, serving, crashed>>

(* ~Mps runs Shutdown a second time, when m_Device is already null: if a   *)
(* scan was started again and has changed m_Status, StopScan reports it    *)
(* through OnStatusChanged, which uses m_Device.                           *)
JoinDevice ==
  /\ Goto("dev_join", "stop")
  /\ scan = "none"
  /\ devOn' = FALSE /\ scanning' = FALSE
  /\ at' = "control"
  /\ crashed' \in IF scanning THEN BOOLEAN ELSE {FALSE}
  /\ UNCHANGED <<arguments, app, attached, again, devRun, net, conns,
                 threads, console, notes, life, exists, serving>>

(* Server::Stop.                                                           *)
StopServing ==
  /\ Goto("stop", "kicks")
  /\ serving' = serving \ {at}
  /\ UNCHANGED <<arguments, app, at, attached, again, device, net, conns,
                 threads, console, notes, life, exists, crashed>>

Entries == IF at = "control" THEN table ELSE {}

(* The loop over m_Connections erases the entry it stands on.              *)
KickEntry ==
  /\ main = "kicks"
  /\ \E c \in Entries : table' = table \ {c} /\ sock' = sock \ {c}
  /\ crashed' \in BOOLEAN
  /\ UNCHANGED <<arguments, app, mainVars, device, net, pend, threads, console,
                 notes, life, exists, serving>>

ClearEntries ==
  /\ Goto("kicks", "close")
  /\ Entries = {}
  /\ UNCHANGED <<arguments, app, at, attached, again, device, net, conns,
                 threads, console, notes, life, exists, serving, crashed>>

CloseSocketsForgotten ==
  /\ main = "close"
  /\ wsaCount' = wsaCount - 1
  /\ UNCHANGED <<open, wsaUp, sock>>
  /\ IF ~again THEN main' = "join" /\ UNCHANGED <<again, at>>
     ELSE /\ again' = FALSE
          /\ main' = IF at = "control" THEN "stop" ELSE "layers"
          /\ at' = "binary"
  /\ UNCHANGED <<arguments, app, attached, device, pend, table, threads,
                 console, notes, life, exists, serving, crashed>>

(* The sockets are closed and the user of WinSock counted off, in the      *)
(* first Stop and again in the one of the destructor.                      *)
CloseSockets ==
  /\ main = "close"
  /\ wsaCount' = wsaCount - 1
  /\ IF wsaCount' > 0
     THEN open' = [open EXCEPT ![at] = {}] /\ UNCHANGED <<wsaUp, sock>>
     ELSE WSACleanup
  /\ IF ~again THEN main' = "join" /\ UNCHANGED <<again, at>>
     ELSE /\ again' = FALSE
          /\ main' = IF at = "control" THEN "stop" ELSE "layers"
          /\ at' = "binary"
  /\ UNCHANGED <<arguments, app, attached, device, pend, table, threads,
                 console, notes, life, exists, serving, crashed>>

JoinWorkersForgotten ==
  /\ Goto("join", "kicks")
  /\ exists' = exists \ {at}
  /\ again' = TRUE
  /\ UNCHANGED <<arguments, app, at, attached, device, net, conns, threads,
                 console, notes, life, serving, crashed>>

(* StopAll: the workers are joined, and a task that none has taken is      *)
(* dropped; then the pointer is reset and the destructor begins.           *)
JoinWorkers ==
  /\ Goto("join", "kicks")
  /\ acc[at] = "none"
  /\ at = "control" =>
       stream = "none" /\ \A c \in Conns : hd[c] \in {"none", "queued"}
  /\ hd' = IF at = "control" THEN [c \in Conns |-> "none"] ELSE hd
  /\ exists' = exists \ {at}
  /\ again' = TRUE
  /\ UNCHANGED <<arguments, app, at, attached, device, net, conns, scan, acc,
                 stream, con, console, notes, life, serving, crashed>>

(* ~ServerLayer and, in it, ~Console and the join of its jthread.          *)
ClearLayers ==
  /\ IF consoleOn THEN Goto("layers", "callback_off") /\ inputOn' = FALSE
                  ELSE Goto("layers", "test") /\ UNCHANGED inputOn
  /\ UNCHANGED <<arguments, app, at, attached, again, device, net, conns,
                 threads, callback, notes, life, exists, serving, crashed>>

ClearCallback ==
  /\ Goto("callback_off", "console_join")
  /\ callback' = FALSE
  /\ UNCHANGED <<arguments, app, at, attached, again, device, net, conns,
                 threads, inputOn, notes, life, exists, serving, crashed>>

JoinConsole ==
  /\ Goto("console_join", "test")
  /\ con = "none"
  /\ UNCHANGED <<arguments, app, at, attached, again, device, net, conns,
                 threads, console, notes, life, exists, serving, crashed>>

MainThread ==
  \/ TestApp \/ Create \/ StartDevice \/ MakeServer \/ StartFails \/ StartServes
  \/ StartStream \/ MakeConsole \/ SetMessageCallback
  \/ Run \/ TestRunning \/ Update
  \/ Detach \/ StopDevice \/ JoinDevice \/ StopServing \/ KickEntry
  \/ ClearEntries \/ CloseSockets \/ JoinWorkers \/ ClearLayers
  \/ ClearCallback \/ JoinConsole

-----------------------------------------------------------------------------
(* The scan thread: the loops of ScanThreadFn, whose frames go through     *)
(* OnScanFrame to m_Device and m_Server, the latter unguarded.             *)
ScanThread ==
  /\ \/ scan = "run" /\ scan' = (IF devRun THEN "scan" ELSE "none") /\ UNCHANGED crashed
     \/ scan = "scan" /\ scan' = (IF scanning THEN "frame" ELSE "run") /\ UNCHANGED crashed
     \/ scan = "frame" /\ scan' = "scan" /\ crashed' = ~(devOn /\ "control" \in exists)
  /\ UNCHANGED <<arguments, app, mainVars, device, net, conns, acc, stream, hd,
                 con, console, notes, life, exists, serving>>

(* The accept thread of s tests m_ServerIsRunning; listen and accept fail  *)
(* at once on a closed socket.                                             *)
TestServing(s) ==
  /\ \/ acc[s] = "test" /\ acc' = [acc EXCEPT ![s] = IF s \in serving THEN "listen" ELSE "none"]
     \/ acc[s] = "listen" /\ "tcp" \notin open[s] /\ acc' = [acc EXCEPT ![s] = "test"]
  /\ UNCHANGED <<arguments, app, mainVars, device, net, conns, scan, stream, hd,
                 con, console, notes, life, exists, serving, crashed>>

AcceptConnection(c) ==
  /\ acc["control"] = "listen" /\ "tcp" \in open["control"]
  /\ c \in ClientBound /\ hd[c] = "none" /\ c \notin table \cup sock
  /\ acc' = [acc EXCEPT !["control"] = "enter"]
  /\ pend' = {c}
  /\ sock' = sock \cup {c}
  /\ UNCHANGED <<arguments, app, mainVars, device, net, table, scan, stream, hd,
                 con, console, notes, life, exists, serving, crashed>>

(* The connection is entered into m_Connections and its handler enqueued.  *)
EnterConnection ==
  /\ acc["control"] = "enter"
  /\ acc' = [acc EXCEPT !["control"] = "test"]
  /\ table' = table \cup pend
  /\ hd' = [c \in Conns |-> IF c \in pend THEN "queued" ELSE hd[c]]
  /\ pend' = {}
  /\ UNCHANGED <<arguments, app, mainVars, device, net, sock, scan, stream, con,
                 console, notes, life, exists, serving, crashed>>

(* The stream thread sees the end of m_ServerIsRunning.                    *)
StreamEnds ==
  /\ stream = "poll" /\ "control" \notin serving
  /\ stream' = "none"
  /\ UNCHANGED <<arguments, app, mainVars, device, net, conns, scan, acc, hd,
                 con, console, notes, life, exists, serving, crashed>>

-----------------------------------------------------------------------------
(* The commands that reach the application, from a handler or the console. *)

HandlerGoto(c, from, to) == hd[c] = from /\ hd' = [hd EXCEPT ![c] = to]

(* What Application::Restart does through s_Instance.                      *)
ThroughInstance ==
  IF instance THEN running' = FALSE /\ UNCHANGED crashed
              ELSE crashed' = TRUE /\ UNCHANGED running

(* The loop of HandleConnectionThreadFn, up to recv.                       *)
HandlerLoop(c) ==
  /\ \/ HandlerGoto(c, "queued", "loop")
     \/ HandlerGoto(c, "loop", IF "control" \in serving /\ c \in table THEN "recv" ELSE "kick")
     \/ c \notin sock /\ HandlerGoto(c, "recv", "kick")
  /\ UNCHANGED <<arguments, app, mainVars, device, net, conns, scan, acc, stream,
                 con, console, notes, life, exists, serving, crashed>>

(* The client leaves or sends a command.                                   *)
Receive(c) ==
  /\ c \in sock
  /\ \E to \in {"kick", "restart", "shutdown", "device"} : HandlerGoto(c, "recv", to)
  /\ UNCHANGED <<arguments, app, mainVars, device, net, conns, scan, acc, stream,
                 con, console, notes, life, exists, serving, crashed>>

(* RESTART, and the first half of SHUTDOWN.                                *)
HandlerRestart(c) ==
  /\ \/ HandlerGoto(c, "restart", "loop")
     \/ HandlerGoto(c, "shutdown", "shutdown2")
  /\ ThroughInstance
  /\ UNCHANGED <<arguments, appRunning, instance, mainVars, device, net, conns,
                 scan, acc, stream, con, console, notes, life, exists, serving>>

HandlerShutdown(c) ==
  /\ HandlerGoto(c, "shutdown2", "loop")
  /\ appRunning' = FALSE
  /\ UNCHANGED <<arguments, running, instance, mainVars, device, net, conns,
                 scan, acc, stream, con, console, notes, life, exists, serving,
                 crashed>>

(* Any other command looks at m_Device and then uses it: START and STOP    *)
(* are the ones that matter here.                                          *)
HandlerDevice(c) ==
  /\ \/ /\ HandlerGoto(c, "device", IF devOn THEN "use" ELSE "loop")
        /\ UNCHANGED <<scanning, crashed>>
     \/ /\ HandlerGoto(c, "use", "loop")
        /\ IF devOn THEN scanning' \in BOOLEAN /\ UNCHANGED crashed
                    ELSE crashed' = TRUE /\ UNCHANGED scanning
  /\ UNCHANGED <<arguments, app, mainVars, devOn, devRun, net, conns, scan, acc,
                 stream, con, console, notes, life, exists, serving>>

(* KickClient, for the handler itself.                                     *)
HandlerKick(c) ==
  /\ HandlerGoto(c, "kick", "none")
  /\ table' = table \ {c}
  /\ sock' = sock \ {c}
  /\ UNCHANGED <<arguments, app, mainVars, device, net, pend, scan, acc, stream,
                 con, console, notes, life, exists, serving, crashed>>

ConsoleGoto(from, to) == con = from /\ con' = to

(* InputThreadFn, up to a line of input.                                   *)
ConsoleLoop ==
  /\ \/ ConsoleGoto("start", "test") /\ inputOn' = TRUE
     \/ ConsoleGoto("test", IF inputOn THEN "getline" ELSE "none") /\ UNCHANGED inputOn
  /\ UNCHANGED <<arguments, app, mainVars, device, net, conns, scan, acc, stream,
                 hd, callback, notes, life, exists, serving, crashed>>

(* A line arrives; without a callback, or when it is no command, nothing   *)
(* is done with it.                                                        *)
ConsoleLine ==
  /\ \/ ConsoleGoto("getline", "test")
     \/ /\ callback
        /\ \E to \in {"restart", "shutdown", "device"} : ConsoleGoto("getline", to)
  /\ UNCHANGED <<arguments, app, mainVars, device, net, conns, scan, acc, stream,
                 hd, console, notes, life, exists, serving, crashed>>

(* m_Cmds is destroyed before m_Console, which ends the thread.            *)
MembersGone == main \in {"callback_off", "console_join"}

ConsoleRestart ==
  /\ ConsoleGoto("restart", "test")
  /\ ThroughInstance
  /\ UNCHANGED <<arguments, appRunning, instance, mainVars, device, net, conns,
                 scan, acc, stream, hd, console, notes, life, exists, serving>>

(* SHUTDOWN also answers, through an m_Server it does not check.           *)
ConsoleShutdown ==
  /\ \/ /\ ConsoleGoto("shutdown", "shutdown2")
        /\ IF "control" \in exists THEN ThroughInstance
                                   ELSE crashed' = TRUE /\ UNCHANGED running
        /\ UNCHANGED appRunning
     \/ /\ ConsoleGoto("shutdown2", "test")
        /\ appRunning' = FALSE
        /\ UNCHANGED <<running, crashed>>
  /\ UNCHANGED <<arguments, instance, mainVars, device, net, conns, scan, acc,
                 stream, hd, console, notes, life, exists, serving>>

(* Any other command, as in HandlerDevice; it passes m_Cmds before it, and *)
(* answers through an m_Server that it does not check.                     *)
ConsoleDevice ==
  /\ \/ /\ ConsoleGoto("device", IF devOn THEN "use" ELSE "test")
        /\ crashed' \in IF MembersGone THEN BOOLEAN ELSE {FALSE}
        /\ UNCHANGED scanning
     \/ /\ ConsoleGoto("use", "reply")
        /\ IF devOn THEN scanning' \in BOOLEAN /\ UNCHANGED crashed
                    ELSE crashed' = TRUE /\ UNCHANGED scanning
     \/ /\ ConsoleGoto("reply", "test")
        /\ crashed' = ("control" \notin exists)
        /\ UNCHANGED scanning
  /\ UNCHANGED <<arguments, app, mainVars, devOn, devRun, net, conns, scan, acc,
                 stream, hd, console, notes, life, exists, serving>>

Handler(c) == \/ HandlerLoop(c) \/ HandlerRestart(c) \/ HandlerShutdown(c)
              \/ HandlerDevice(c) \/ HandlerKick(c)
ConsoleThread == ConsoleLoop \/ ConsoleRestart \/ ConsoleShutdown \/ ConsoleDevice
Clients == ConsoleLine \/ \E c \in Conns : AcceptConnection(c) \/ Receive(c)

LifecycleNext ==
  /\ ~crashed
  /\ \/ MainThread \/ ScanThread \/ EnterConnection \/ StreamEnds
     \/ \E s \in Servers : TestServing(s)
     \/ \E c \in Conns : Handler(c)
     \/ ConsoleThread \/ Clients

(* The threads are scheduled fairly; clients and the user at the console   *)
(* do what they like.                                                      *)
LifecycleFairness ==
  /\ WF_lifecycleVars(~crashed /\ MainThread)
  /\ WF_lifecycleVars(~crashed /\ ScanThread)
  /\ WF_lifecycleVars(~crashed /\ EnterConnection)
  /\ WF_lifecycleVars(~crashed /\ StreamEnds)
  /\ \A s \in Servers : WF_lifecycleVars(~crashed /\ TestServing(s))
  /\ \A c \in Conns : WF_lifecycleVars(~crashed /\ Handler(c))
  /\ WF_lifecycleVars(~crashed /\ ConsoleThread)

LifecycleSpec == LifecycleInit /\ [][LifecycleNext]_lifecycleVars /\ LifecycleFairness

-----------------------------------------------------------------------------
(* Properties.                                                             *)

MainTypes ==
  /\ ipValid \in BOOLEAN /\ consoleOn \in BOOLEAN
  /\ appRunning \in BOOLEAN /\ running \in BOOLEAN /\ instance \in BOOLEAN
  /\ main \in MainLabels /\ at \in Servers
  /\ attached \in BOOLEAN /\ again \in BOOLEAN

DeviceTypes ==
  /\ devOn \in BOOLEAN /\ devRun \in BOOLEAN /\ scanning \in BOOLEAN
  /\ scan \in {"none", "run", "scan", "frame"}

ServerTypes ==
  /\ exists \subseteq Servers /\ serving \subseteq Servers
  /\ open \in [Servers -> SUBSET {"tcp", "udp"}]
  /\ wsaCount \in Int /\ wsaUp \in BOOLEAN
  /\ acc \in [Servers -> {"none", "test", "listen", "enter"}]
  /\ stream \in {"none", "poll"}
  /\ pend \subseteq Conns /\ table \subseteq Conns /\ sock \subseteq Conns
  /\ hd \in [Conns -> HandlerLabels]

OtherTypes ==
  /\ life \in 0..MaxLives
  /\ con \in ConsoleLabels
  /\ inputOn \in BOOLEAN /\ callback \in BOOLEAN /\ crashed \in BOOLEAN
  /\ fails \in 0..MaxFails /\ udpFailed \in BOOLEAN

(* A thread and a flag are there only with the object they belong to.      *)
ThreadsHaveObjects ==
  /\ scan # "none" \/ scanning => devOn
  /\ \A s \in Servers : s \in serving \/ acc[s] # "none" => s \in exists
  /\ con # "none" \/ callback => consoleOn

(* Every variable stays in its domain, and a thread or a flag of the       *)
(* device, of a server or of the console is there only with its object.    *)
LifecycleTypeOK ==
  MainTypes /\ DeviceTypes /\ ServerTypes /\ OtherTypes /\ ThreadsHaveObjects

BetweenLives == main \in {"test", "create", "exit"}

(* When the main thread creates the next application or leaves, nothing of *)
(* the old one is left: no thread, no pointer, no entry and no socket.     *)
(* Stop and the destructors must wait for, close and reset everything,     *)
(* also what the accept thread entered after m_Connections was cleared.    *)
OldLifeIsOver ==
  BetweenLives =>
    /\ scan = "none" /\ stream = "none" /\ con = "none"
    /\ \A s \in Servers : acc[s] = "none" /\ open[s] = {}
    /\ \A c \in Conns : hd[c] = "none"
    /\ exists = {} /\ serving = {} /\ table = {} /\ sock = {} /\ pend = {}
    /\ ~devOn /\ ~instance

ShutdownBegun ==
  ~appRunning \/ con = "shutdown2" \/ \E c \in Conns : hd[c] = "shutdown2"

(* Shutdown clears m_Running before g_ApplicationRunning: the main loop    *)
(* may leave in between, and still no new application is created, because  *)
(* the thread that executes SHUTDOWN is joined first.                      *)
NoLifeAfterShutdown == [][life' # life => ~ShutdownBegun]_lifecycleVars

(* A server that OnUpdate takes for running has its listening socket, so   *)
(* that it need not be started again.  Each server is stopped twice and    *)
(* the count of WinSock users is low after a restart, and a stream socket  *)
(* that cannot be made leaves the server marked as running: in neither     *)
(* case does this hold.                                                    *)
RunningServersListen ==
  main \in UpLabels /\ (life = 1 \/ fails = 0) /\ ~udpFailed =>
    \A s \in serving : "tcp" \in open[s]

(* The process dies only in the shutdown of an application, when a command *)
(* of a client or of the console still uses s_Instance, m_Server or        *)
(* m_Device, or ~Mps stops a scan that one has started: never while the    *)
(* application is built or runs, and never of the scan thread, whose       *)
(* frames always find a device and a server that exist, although           *)
(* OnScanFrame tests neither m_Server nor, the second time, m_Device.      *)
DiesOnlyInDetach ==
  /\ crashed => ~attached /\ ~instance
  /\ scan = "frame" => devOn /\ "control" \in exists

InRunLoop == main \in UpLabels /\ attached

(* A server that can be reached: marked as running, with its accept thread *)
(* and its listening socket, and with its stream thread if it has one.     *)
Serves(s) ==
  /\ s \in serving /\ acc[s] # "none" /\ "tcp" \in open[s]
  /\ s = "control" => stream = "poll"

(* OnUpdate starts a server again until its threads run and it listens,    *)
(* whichever call before m_ServerIsRunning has failed in the first life.   *)
(* It does not start it again where the flag is set on a dead server: a    *)
(* stream socket that cannot be made leaves one behind, and so does a call *)
(* that fails once the count of WinSock users is low, in or after a        *)
(* restart, as its WSACleanup closes the sockets of the other server.      *)
StartsAreRetried ==
  []<>(ipValid /\ InRunLoop /\ ~udpFailed /\ (life = 1 \/ fails = 0) =>
         \A s \in Servers : Serves(s))

(* After RESTART or SHUTDOWN the main thread takes the application down to *)
(* the end.  It hangs only where a scan was started again behind its back  *)
(* and where the console waits for its last line.                          *)
RestartCompletes ==
  InRunLoop /\ ~running ~>
    \/ BetweenLives
    \/ crashed
    \/ main = "dev_join" /\ scanning
    \/ main = "console_join" /\ con = "getline"
=============================================================================
