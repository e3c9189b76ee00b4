-------------------------- MODULE LifecycleProofs --------------------------
(***************************************************************************)
(* Theorems about Lifecycle, for any set of connections, any number of     *)
(* lives and of failing calls.                                             *)
(***************************************************************************)
EXTENDS Lifecycle, TLAPS

(* What the main thread has at each of its labels.                         *)
Gone == {"layers", "callback_off", "console_join", "test", "exit", "create"}
TearDown == {"stop", "kicks", "close", "join"}
DeviceDown == {"detach", "dev_stop", "dev_off", "dev_join"}
WithDevice == {"server", "start", "stream", "console", "callback", "run", "loop", "update"}
              \cup DeviceDown
Built == {"device", "detach"} \cup (WithDevice \ DeviceDown)

(* No server has been made in this life yet.                               *)
Early == main = "device" \/ (main = "server" /\ at = "control")

(* The binary server has not been made yet or is gone.                     *)
NoBinary ==
  \/ main \in Gone \cup {"device", "server"}
  \/ main \in {"start", "stream"} /\ at = "control" /\ ~attached

(* The labels of the main thread and the objects that it keeps.            *)
MainInv ==
  /\ instance <=> main \in Built
  /\ devOn <=> main \in WithDevice
  /\ attached => main \in {"loop", "update", "start", "stream", "detach"}
  /\ main \in {"loop", "update"} => attached
  /\ again => main \in {"kicks", "close"}
  /\ main = "callback" => consoleOn
  /\ main = "create" => appRunning /\ life < MaxLives
  /\ main \in {"test", "exit", "create"} \/ Early => con = "none"

(* The servers that the main thread has made and not yet taken down.       *)
UpInv ==
  /\ main \in {"console", "callback", "run"} \cup DeviceDown \/ attached => exists = Servers
  /\ main \in {"start", "stream"} => {at, "control"} \subseteq exists
  /\ main = "server" /\ at = "binary" => "control" \in exists
  /\ scanning \/ scan = "frame" => "control" \in exists

ControlOver ==
  /\ "control" \notin exists /\ "control" \notin serving
  /\ acc["control"] = "none" /\ open["control"] = {} /\ stream = "none"
  /\ \A c \in Conns : hd[c] = "none"
  /\ table = {} /\ pend = {} /\ sock = {}

BinaryOver ==
  /\ "binary" \notin exists /\ "binary" \notin serving
  /\ acc["binary"] = "none" /\ open["binary"] = {}

(* What Stop and the destructor after it have achieved at each label.      *)
DownInv ==
  /\ main \in {"kicks", "close", "join"} => at \notin serving
  /\ main = "join" \/ again => open[at] = {}
  /\ again => acc[at] = "none" /\ at \notin exists
  /\ again /\ at = "control" => stream = "none" /\ \A c \in Conns : hd[c] = "none"
  /\ main = "close" /\ again /\ at = "control" => table = {}
  /\ pend # {} => acc["control"] = "enter"
  /\ sock \subseteq table \cup pend
  /\ main \in Gone \/ Early \/ (main \in TearDown /\ at = "binary") => ControlOver
  /\ NoBinary => BinaryOver
  /\ main \in {"server", "start"} => at \notin serving
  /\ main = "stream" => at = "control"
  /\ \A s \in Servers : acc[s] # "none" /\ main \notin TearDown => s \in serving

LifeInv ==
  /\ LifecycleTypeOK /\ MainInv /\ UpInv /\ DownInv /\ DiesOnlyInDetach

-----------------------------------------------------------------------------
(* The names of groups of variables and of labels carry no meaning.        *)
USE DEF arguments, app, mainVars, device, net, wsa, conns, threads, console, notes,
        Servers, MainLabels, UpLabels, HandlerLabels, ConsoleLabels,
        Gone, TearDown, DeviceDown, WithDevice, Built, Early, NoBinary,
        Goto, HandlerGoto, ConsoleGoto

-----------------------------------------------------------------------------
(* Each step preserves the invariant: the main thread up to its loop.      *)
LEMMA TestAppInv == LifeInv /\ ~crashed /\ TestApp => LifeInv'
<1>. SUFFICES ASSUME LifeInv, ~crashed, TestApp PROVE LifeInv'
  OBVIOUS
<1>. USE LifecycleBounds DEF LifeInv, LifecycleTypeOK, TestApp
<1>1. MainTypes'
  BY DEF MainTypes
<1>2. DeviceTypes'
  BY DEF DeviceTypes
<1>3. ServerTypes'
  BY DEF ServerTypes
<1>4. OtherTypes'
  BY DEF OtherTypes
<1>5. ThreadsHaveObjects'
  BY DEF ThreadsHaveObjects
<1>6. MainInv'
  BY DEF MainInv
<1>7. UpInv'
  BY DEF UpInv
<1>8. DownInv'
  BY DEF DownInv, ControlOver, BinaryOver
<1>9. DiesOnlyInDetach'
  BY DEF DiesOnlyInDetach
<1>. QED BY <1>1, <1>2, <1>3, <1>4, <1>5, <1>6, <1>7, <1>8, <1>9

LEMMA CreateInv == LifeInv /\ ~crashed /\ Create => LifeInv'
<1>. SUFFICES ASSUME LifeInv, ~crashed, Create PROVE LifeInv'
  OBVIOUS
<1>. USE LifecycleBounds DEF LifeInv, LifecycleTypeOK, Create
<1>1. MainTypes'
  BY DEF MainTypes
<1>2. DeviceTypes'
  BY DEF DeviceTypes
<1>3. ServerTypes'
  BY DEF ServerTypes
<1>4. OtherTypes'
  <2>1. life' \in 0..MaxLives
    BY DEF OtherTypes, MainInv
  <2>2. fails' \in 0..MaxFails /\ udpFailed' \in BOOLEAN
    BY DEF OtherTypes
  <2>3. con' \in ConsoleLabels
    BY DEF OtherTypes
  <2>4. inputOn' \in BOOLEAN /\ callback' \in BOOLEAN /\ crashed' \in BOOLEAN
    BY DEF OtherTypes
  <2>. QED BY <2>1, <2>2, <2>3, <2>4 DEF OtherTypes
<1>5. ThreadsHaveObjects'
  BY DEF ThreadsHaveObjects
<1>6. MainInv'
  BY DEF MainInv
<1>7. UpInv'
  BY DEF UpInv
<1>8. DownInv'
  BY DEF DownInv, ControlOver, BinaryOver
<1>9. DiesOnlyInDetach'
  BY DEF DiesOnlyInDetach
<1>. QED BY <1>1, <1>2, <1>3, <1>4, <1>5, <1>6, <1>7, <1>8, <1>9

LEMMA StartDeviceInv == LifeInv /\ ~crashed /\ StartDevice => LifeInv'
<1>. SUFFICES ASSUME LifeInv, ~crashed, StartDevice PROVE LifeInv'
  OBVIOUS
<1>. USE LifecycleBounds DEF LifeInv, LifecycleTypeOK, StartDevice
<1>1. MainTypes'
  BY DEF MainTypes
<1>2. DeviceTypes'
  BY DEF DeviceTypes
<1>3. ServerTypes'
  BY DEF ServerTypes
<1>4. OtherTypes'
  BY DEF OtherTypes
<1>5. ThreadsHaveObjects'
  BY DEF ThreadsHaveObjects
<1>6. MainInv'
  BY DEF MainInv
<1>7. UpInv'
  BY DEF UpInv
<1>8. DownInv'
  BY DEF DownInv, ControlOver, BinaryOver
<1>9. DiesOnlyInDetach'
  BY DEF DiesOnlyInDetach
<1>. QED BY <1>1, <1>2, <1>3, <1>4, <1>5, <1>6, <1>7, <1>8, <1>9

LEMMA MakeServerInv == LifeInv /\ ~crashed /\ MakeServer => LifeInv'
<1>. SUFFICES ASSUME LifeInv, ~crashed, MakeServer PROVE LifeInv'
  OBVIOUS
<1>. USE LifecycleBounds DEF LifeInv, LifecycleTypeOK, MakeServer
<1>1. MainTypes'
  BY DEF MainTypes
<1>2. DeviceTypes'
  BY DEF DeviceTypes
<1>3. ServerTypes'
  BY DEF ServerTypes, MainTypes
<1>4. OtherTypes'
  BY DEF OtherTypes
<1>5. ThreadsHaveObjects'
  BY DEF ThreadsHaveObjects
<1>6. MainInv'
  BY DEF MainInv
<1>7. UpInv'
  BY DEF UpInv, MainTypes
<1>8. DownInv'
  BY DEF MainInv, DownInv, BinaryOver
<1>9. DiesOnlyInDetach'
  BY DEF DiesOnlyInDetach
<1>. QED BY <1>1, <1>2, <1>3, <1>4, <1>5, <1>6, <1>7, <1>8, <1>9

LEMMA StartFailsInv == LifeInv /\ ~crashed /\ StartFails => LifeInv'
<1>. SUFFICES ASSUME LifeInv, ~crashed, StartFails PROVE LifeInv'
  OBVIOUS
<1>. USE LifecycleBounds DEF LifeInv, LifecycleTypeOK, StartFails, StartReturns,
                             CleanupNetworking, WSACleanup,
                             InitializeNetworking, FailBound
<1>1. MainTypes'
  BY DEF MainTypes
<1>2. DeviceTypes'
  BY DEF DeviceTypes
<1>3. ServerTypes'
  <2>1. exists' \subseteq Servers /\ serving' \subseteq Servers
    BY DEF ServerTypes
  <2>2. open' \in [Servers -> SUBSET {"tcp", "udp"}]
    BY DEF ServerTypes
  <2>3. wsaCount' \in Int
    BY DEF ServerTypes
  <2>4. wsaUp' \in BOOLEAN
    BY DEF ServerTypes
  <2>5. acc' \in [Servers -> {"none", "test", "listen", "enter"}] /\ stream' \in {"none", "poll"}
    BY DEF ServerTypes
  <2>6. pend' \subseteq Conns /\ table' \subseteq Conns /\ sock' \subseteq Conns
    BY DEF ServerTypes
  <2>7. hd' \in [Conns -> HandlerLabels]
    BY DEF ServerTypes
  <2>. QED BY <2>1, <2>2, <2>3, <2>4, <2>5, <2>6, <2>7 DEF ServerTypes
<1>4. OtherTypes'
  BY DEF OtherTypes
<1>5. ThreadsHaveObjects'
  BY DEF ThreadsHaveObjects
<1>6. MainInv'
  BY DEF MainInv
<1>7. UpInv'
  <2>1. {at, "control"} \subseteq exists /\ exists' = exists /\ attached' = attached
    BY DEF UpInv
  <2>2. CASE attached
    <3>1. exists = Servers
      BY <2>2 DEF UpInv
    <3>. QED BY <2>1, <2>2, <3>1 DEF UpInv, MainTypes
  <2>3. CASE ~attached
    <3>1. CASE at = "control"
      BY <2>1, <2>3, <3>1 DEF UpInv, MainTypes
    <3>2. CASE at = "binary"
      <4>1. exists = Servers
        BY <2>1, <3>2 DEF ServerTypes
      <4>. QED BY <2>1, <2>3, <3>2, <4>1 DEF UpInv, MainTypes
    <3>. QED BY <3>1, <3>2 DEF MainTypes
  <2>. QED BY <2>2, <2>3 DEF MainTypes
<1>8. DownInv'
  BY DEF MainInv, DownInv, BinaryOver
<1>9. DiesOnlyInDetach'
  BY DEF DiesOnlyInDetach
<1>. QED BY <1>1, <1>2, <1>3, <1>4, <1>5, <1>6, <1>7, <1>8, <1>9

LEMMA StartServesInv == LifeInv /\ ~crashed /\ StartServes => LifeInv'
<1>. SUFFICES ASSUME LifeInv, ~crashed, StartServes PROVE LifeInv'
  OBVIOUS
<1>. USE LifecycleBounds DEF LifeInv, LifecycleTypeOK, StartServes,
                             StartReturns, CleanupNetworking, WSACleanup,
                             InitializeNetworking, FailBound
<1>1. MainTypes'
  BY DEF MainTypes
<1>2. DeviceTypes'
  BY DEF DeviceTypes
<1>3. ServerTypes'
  BY DEF ServerTypes, MainTypes
<1>4. OtherTypes'
  BY DEF OtherTypes
<1>5. ThreadsHaveObjects'
  BY DEF ThreadsHaveObjects, UpInv
<1>6. MainInv'
  BY DEF MainInv
<1>7. UpInv'
  <2>1. {at, "control"} \subseteq exists /\ exists' = exists /\ attached' = attached
    BY DEF UpInv
  <2>2. CASE attached
    <3>1. exists = Servers
      BY <2>2 DEF UpInv
    <3>. QED BY <2>1, <2>2, <3>1 DEF UpInv, MainTypes
  <2>3. CASE ~attached
    <3>1. CASE at = "control"
      BY <2>1, <2>3, <3>1 DEF UpInv, MainTypes
    <3>2. CASE at = "binary"
      <4>1. exists = Servers
        BY <2>1, <3>2 DEF ServerTypes
      <4>. QED BY <2>1, <2>3, <3>2, <4>1 DEF UpInv, MainTypes
    <3>. QED BY <3>1, <3>2 DEF MainTypes
  <2>. QED BY <2>2, <2>3 DEF MainTypes
<1>8. DownInv'
  BY DEF MainInv, DownInv, BinaryOver
<1>9. DiesOnlyInDetach'
  BY DEF DiesOnlyInDetach
<1>. QED BY <1>1, <1>2, <1>3, <1>4, <1>5, <1>6, <1>7, <1>8, <1>9

LEMMA StartStreamInv == LifeInv /\ ~crashed /\ StartStream => LifeInv'
<1>. SUFFICES ASSUME LifeInv, ~crashed, StartStream PROVE LifeInv'
  OBVIOUS
<1>. USE LifecycleBounds DEF LifeInv, LifecycleTypeOK, StartStream,
                             StartReturns, CleanupNetworking, WSACleanup,
                             InitializeNetworking, FailBound
<1>1. MainTypes'
  BY DEF MainTypes
<1>2. DeviceTypes'
  BY DEF DeviceTypes
<1>3. ServerTypes'
  <2>1. exists' \subseteq Servers /\ serving' \subseteq Servers
    BY DEF ServerTypes
  <2>2. open' \in [Servers -> SUBSET {"tcp", "udp"}]
    BY DEF ServerTypes
  <2>3. wsaCount' \in Int
    BY DEF ServerTypes
  <2>4. wsaUp' \in BOOLEAN
    BY DEF ServerTypes
  <2>5. acc' \in [Servers -> {"none", "test", "listen", "enter"}] /\ stream' \in {"none", "poll"}
    BY DEF ServerTypes
  <2>6. pend' \subseteq Conns /\ table' \subseteq Conns /\ sock' \subseteq Conns
    BY DEF ServerTypes
  <2>7. hd' \in [Conns -> HandlerLabels]
    BY DEF ServerTypes
  <2>. QED BY <2>1, <2>2, <2>3, <2>4, <2>5, <2>6, <2>7 DEF ServerTypes
<1>4. OtherTypes'
  <2>1. life' \in 0..MaxLives
    BY DEF OtherTypes
  <2>2. fails' \in 0..MaxFails
    BY DEF OtherTypes
  <2>3. udpFailed' \in BOOLEAN
    BY DEF OtherTypes
  <2>4. con' \in ConsoleLabels
    BY DEF OtherTypes
  <2>5. inputOn' \in BOOLEAN /\ callback' \in BOOLEAN /\ crashed' \in BOOLEAN
    BY DEF OtherTypes
  <2>. QED BY <2>1, <2>2, <2>3, <2>4, <2>5 DEF OtherTypes
<1>5. ThreadsHaveObjects'
  BY DEF ThreadsHaveObjects
<1>6. MainInv'
  BY DEF MainInv
<1>7. UpInv'
  BY DEF UpInv, DownInv
<1>8. DownInv'
  BY DEF ServerTypes, MainInv, DownInv, BinaryOver
<1>9. DiesOnlyInDetach'
  BY DEF DiesOnlyInDetach
<1>. QED BY <1>1, <1>2, <1>3, <1>4, <1>5, <1>6, <1>7, <1>8, <1>9

LEMMA MakeConsoleInv == LifeInv /\ ~crashed /\ MakeConsole => LifeInv'
<1>. SUFFICES ASSUME LifeInv, ~crashed, MakeConsole PROVE LifeInv'
  OBVIOUS
<1>. USE LifecycleBounds DEF LifeInv, LifecycleTypeOK, MakeConsole
<1>1. MainTypes'
  BY DEF MainTypes
<1>2. DeviceTypes'
  BY DEF DeviceTypes
<1>3. ServerTypes'
  BY DEF ServerTypes
<1>4. OtherTypes'
  BY DEF OtherTypes
<1>5. ThreadsHaveObjects'
  BY DEF ThreadsHaveObjects
<1>6. MainInv'
  BY DEF MainInv
<1>7. UpInv'
  BY DEF UpInv
<1>8. DownInv'
  BY DEF DownInv
<1>9. DiesOnlyInDetach'
  BY DEF DiesOnlyInDetach
<1>. QED BY <1>1, <1>2, <1>3, <1>4, <1>5, <1>6, <1>7, <1>8, <1>9

LEMMA SetMessageCallbackInv == LifeInv /\ ~crashed /\ SetMessageCallback => LifeInv'
<1>. SUFFICES ASSUME LifeInv, ~crashed, SetMessageCallback PROVE LifeInv'
  OBVIOUS
<1>. USE LifecycleBounds DEF LifeInv, LifecycleTypeOK, SetMessageCallback
<1>1. MainTypes'
  BY DEF MainTypes
<1>2. DeviceTypes'
  BY DEF DeviceTypes
<1>3. ServerTypes'
  BY DEF ServerTypes
<1>4. OtherTypes'
  BY DEF OtherTypes
<1>5. ThreadsHaveObjects'
  BY DEF ThreadsHaveObjects, MainInv
<1>6. MainInv'
  BY DEF MainInv
<1>7. UpInv'
  BY DEF UpInv
<1>8. DownInv'
  BY DEF DownInv
<1>9. DiesOnlyInDetach'
  BY DEF DiesOnlyInDetach
<1>. QED BY <1>1, <1>2, <1>3, <1>4, <1>5, <1>6, <1>7, <1>8, <1>9

-----------------------------------------------------------------------------
(* The main loop and the end of the application.                           *)
LEMMA RunInv == LifeInv /\ ~crashed /\ Run => LifeInv'
<1>. SUFFICES ASSUME LifeInv, ~crashed, Run PROVE LifeInv'
  OBVIOUS
<1>. USE LifecycleBounds DEF LifeInv, LifecycleTypeOK, Run
<1>1. MainTypes'
  BY DEF MainTypes
<1>2. DeviceTypes'
  BY DEF DeviceTypes
<1>3. ServerTypes'
  BY DEF ServerTypes
<1>4. OtherTypes'
  BY DEF OtherTypes
<1>5. ThreadsHaveObjects'
  BY DEF ThreadsHaveObjects
<1>6. MainInv'
  BY DEF MainInv
<1>7. UpInv'
  BY DEF UpInv
<1>8. DownInv'
  BY DEF DownInv
<1>9. DiesOnlyInDetach'
  BY DEF DiesOnlyInDetach
<1>. QED BY <1>1, <1>2, <1>3, <1>4, <1>5, <1>6, <1>7, <1>8, <1>9

LEMMA TestRunningInv == LifeInv /\ ~crashed /\ TestRunning => LifeInv'
<1>. SUFFICES ASSUME LifeInv, ~crashed, TestRunning PROVE LifeInv'
  OBVIOUS
<1>. USE LifecycleBounds DEF LifeInv, LifecycleTypeOK, TestRunning
<1>1. MainTypes'
  BY DEF MainTypes
<1>2. DeviceTypes'
  BY DEF DeviceTypes
<1>3. ServerTypes'
  BY DEF ServerTypes
<1>4. OtherTypes'
  BY DEF OtherTypes
<1>5. ThreadsHaveObjects'
  BY DEF ThreadsHaveObjects
<1>6. MainInv'
  BY DEF MainInv
<1>7. UpInv'
  BY DEF UpInv, MainInv
<1>8. DownInv'
  BY DEF MainInv, DownInv
<1>9. DiesOnlyInDetach'
  BY DEF DiesOnlyInDetach
<1>. QED BY <1>1, <1>2, <1>3, <1>4, <1>5, <1>6, <1>7, <1>8, <1>9

LEMMA UpdateInv == LifeInv /\ ~crashed /\ Update => LifeInv'
<1>. SUFFICES ASSUME LifeInv, ~crashed, Update PROVE LifeInv'
  OBVIOUS
<1>. USE LifecycleBounds DEF LifeInv, LifecycleTypeOK, Update, StartReturns
<1>1. MainTypes'
  BY DEF MainTypes
<1>2. DeviceTypes'
  BY DEF DeviceTypes
<1>3. ServerTypes'
  BY DEF ServerTypes
<1>4. OtherTypes'
  BY DEF OtherTypes
<1>5. ThreadsHaveObjects'
  BY DEF ThreadsHaveObjects
<1>6. MainInv'
  BY DEF MainInv
<1>7. UpInv'
  BY DEF UpInv, MainInv, MainTypes
<1>8. DownInv'
  BY DEF MainInv, DownInv
<1>9. DiesOnlyInDetach'
  BY DEF DiesOnlyInDetach
<1>. QED BY <1>1, <1>2, <1>3, <1>4, <1>5, <1>6, <1>7, <1>8, <1>9

LEMMA DetachInv == LifeInv /\ ~crashed /\ Detach => LifeInv'
<1>. SUFFICES ASSUME LifeInv, ~crashed, Detach PROVE LifeInv'
  OBVIOUS
<1>. USE LifecycleBounds DEF LifeInv, LifecycleTypeOK, Detach
<1>1. MainTypes'
  BY DEF MainTypes
<1>2. DeviceTypes'
  BY DEF DeviceTypes
<1>3. ServerTypes'
  BY DEF ServerTypes
<1>4. OtherTypes'
  BY DEF OtherTypes
<1>5. ThreadsHaveObjects'
  BY DEF ThreadsHaveObjects
<1>6. MainInv'
  BY DEF MainInv
<1>7. UpInv'
  BY DEF UpInv
<1>8. DownInv'
  BY DEF DownInv
<1>9. DiesOnlyInDetach'
  BY DEF DiesOnlyInDetach
<1>. QED BY <1>1, <1>2, <1>3, <1>4, <1>5, <1>6, <1>7, <1>8, <1>9

LEMMA StopDeviceInv == LifeInv /\ ~crashed /\ StopDevice => LifeInv'
<1>. SUFFICES ASSUME LifeInv, ~crashed, StopDevice PROVE LifeInv'
  OBVIOUS
<1>. USE LifecycleBounds DEF LifeInv, LifecycleTypeOK, StopDevice
<1>1. MainTypes'
  BY DEF MainTypes
<1>2. DeviceTypes'
  BY DEF DeviceTypes
<1>3. ServerTypes'
  BY DEF ServerTypes
<1>4. OtherTypes'
  BY DEF OtherTypes
<1>5. ThreadsHaveObjects'
  BY DEF ThreadsHaveObjects
<1>6. MainInv'
  BY DEF MainInv
<1>7. UpInv'
  BY DEF UpInv
<1>8. DownInv'
  BY DEF DownInv
<1>9. DiesOnlyInDetach'
  BY DEF DiesOnlyInDetach
<1>. QED BY <1>1, <1>2, <1>3, <1>4, <1>5, <1>6, <1>7, <1>8, <1>9

LEMMA JoinDeviceInv == LifeInv /\ ~crashed /\ JoinDevice => LifeInv'
<1>. SUFFICES ASSUME LifeInv, ~crashed, JoinDevice PROVE LifeInv'
  OBVIOUS
<1>. USE LifecycleBounds DEF LifeInv, LifecycleTypeOK, JoinDevice
<1>1. MainTypes'
  BY DEF MainTypes
<1>2. DeviceTypes'
  BY DEF DeviceTypes
<1>3. ServerTypes'
  BY DEF ServerTypes
<1>4. OtherTypes'
  BY DEF OtherTypes
<1>5. ThreadsHaveObjects'
  BY DEF ThreadsHaveObjects
<1>6. MainInv'
  BY DEF MainInv
<1>7. UpInv'
  BY DEF UpInv
<1>8. DownInv'
  BY DEF MainInv, DownInv
<1>9. DiesOnlyInDetach'
  BY DEF MainInv, DiesOnlyInDetach
<1>. QED BY <1>1, <1>2, <1>3, <1>4, <1>5, <1>6, <1>7, <1>8, <1>9

LEMMA StopServingInv == LifeInv /\ ~crashed /\ StopServing => LifeInv'
<1>. SUFFICES ASSUME LifeInv, ~crashed, StopServing PROVE LifeInv'
  OBVIOUS
<1>. USE LifecycleBounds DEF LifeInv, LifecycleTypeOK, StopServing
<1>1. MainTypes'
  BY DEF MainTypes
<1>2. DeviceTypes'
  BY DEF DeviceTypes
<1>3. ServerTypes'
  BY DEF ServerTypes
<1>4. OtherTypes'
  BY DEF OtherTypes
<1>5. ThreadsHaveObjects'
  BY DEF ThreadsHaveObjects
<1>6. MainInv'
  BY DEF MainInv
<1>7. UpInv'
  BY DEF UpInv
<1>8. DownInv'
  BY DEF DownInv, ControlOver
<1>9. DiesOnlyInDetach'
  BY DEF DiesOnlyInDetach
<1>. QED BY <1>1, <1>2, <1>3, <1>4, <1>5, <1>6, <1>7, <1>8, <1>9

LEMMA KickEntryInv == LifeInv /\ ~crashed /\ KickEntry => LifeInv'
<1>. SUFFICES ASSUME LifeInv, ~crashed, KickEntry PROVE LifeInv'
  OBVIOUS
<1>. USE LifecycleBounds DEF LifeInv, LifecycleTypeOK, KickEntry, Entries
<1>1. MainTypes'
  BY DEF MainTypes
<1>2. DeviceTypes'
  BY DEF DeviceTypes
<1>3. ServerTypes'
  BY DEF ServerTypes
<1>4. OtherTypes'
  BY DEF OtherTypes
<1>5. ThreadsHaveObjects'
  BY DEF ThreadsHaveObjects
<1>6. MainInv'
  BY DEF MainInv
<1>7. UpInv'
  BY DEF UpInv
<1>8. DownInv'
  BY DEF DownInv
<1>9. DiesOnlyInDetach'
  BY DEF MainInv, DiesOnlyInDetach
<1>. QED BY <1>1, <1>2, <1>3, <1>4, <1>5, <1>6, <1>7, <1>8, <1>9

LEMMA ClearEntriesInv == LifeInv /\ ~crashed /\ ClearEntries => LifeInv'
<1>. SUFFICES ASSUME LifeInv, ~crashed, ClearEntries PROVE LifeInv'
  OBVIOUS
<1>. USE LifecycleBounds DEF LifeInv, LifecycleTypeOK, ClearEntries, Entries
<1>1. MainTypes'
  BY DEF MainTypes
<1>2. DeviceTypes'
  BY DEF DeviceTypes
<1>3. ServerTypes'
  BY DEF ServerTypes
<1>4. OtherTypes'
  BY DEF OtherTypes
<1>5. ThreadsHaveObjects'
  BY DEF ThreadsHaveObjects
<1>6. MainInv'
  BY DEF MainInv
<1>7. UpInv'
  BY DEF UpInv
<1>8. DownInv'
  BY DEF DownInv, ControlOver
<1>9. DiesOnlyInDetach'
  BY DEF DiesOnlyInDetach
<1>. QED BY <1>1, <1>2, <1>3, <1>4, <1>5, <1>6, <1>7, <1>8, <1>9

LEMMA CloseSocketsInv == LifeInv /\ ~crashed /\ CloseSockets => LifeInv'
<1>. SUFFICES ASSUME LifeInv, ~crashed, CloseSockets PROVE LifeInv'
  OBVIOUS
<1>. USE LifecycleBounds DEF LifeInv, LifecycleTypeOK, CloseSockets, WSACleanup
<1>1. MainTypes'
  BY DEF MainTypes
<1>2. DeviceTypes'
  BY DEF DeviceTypes
<1>3. ServerTypes'
  <2>1. exists' \subseteq Servers /\ serving' \subseteq Servers
    BY DEF ServerTypes
  <2>2. open' \in [Servers -> SUBSET {"tcp", "udp"}]
    BY DEF ServerTypes
  <2>3. wsaCount' \in Int
    OBVIOUS
  <2>4. wsaUp' \in BOOLEAN
    BY DEF ServerTypes
  <2>5. acc' \in [Servers -> {"none", "test", "listen", "enter"}] /\ stream' \in {"none", "poll"}
    BY DEF ServerTypes
  <2>6. pend' \subseteq Conns /\ table' \subseteq Conns /\ sock' \subseteq Conns
    BY DEF ServerTypes
  <2>7. hd' \in [Conns -> HandlerLabels]
    BY DEF ServerTypes
  <2>. QED BY <2>1, <2>2, <2>3, <2>4, <2>5, <2>6, <2>7 DEF ServerTypes
<1>4. OtherTypes'
  BY DEF OtherTypes
<1>5. ThreadsHaveObjects'
  BY DEF ThreadsHaveObjects
<1>6. MainInv'
  BY DEF MainInv
<1>7. UpInv'
  BY DEF UpInv
<1>8. DownInv'
  BY DEF MainTypes, ServerTypes, DownInv, ControlOver, BinaryOver
<1>9. DiesOnlyInDetach'
  BY DEF DiesOnlyInDetach
<1>. QED BY <1>1, <1>2, <1>3, <1>4, <1>5, <1>6, <1>7, <1>8, <1>9

LEMMA JoinWorkersInv == LifeInv /\ ~crashed /\ JoinWorkers => LifeInv'
<1>. SUFFICES ASSUME LifeInv, ~crashed, JoinWorkers PROVE LifeInv'
  OBVIOUS
<1>. USE LifecycleBounds DEF LifeInv, LifecycleTypeOK, JoinWorkers
<1>1. MainTypes'
  BY DEF MainTypes
<1>2. DeviceTypes'
  BY DEF DeviceTypes
<1>3. ServerTypes'
  BY DEF ServerTypes
<1>4. OtherTypes'
  BY DEF OtherTypes
<1>5. ThreadsHaveObjects'
  BY DEF ThreadsHaveObjects, DownInv
<1>6. MainInv'
  BY DEF MainInv
<1>7. UpInv'
  BY DEF UpInv, MainInv, ThreadsHaveObjects
<1>8. DownInv'
  BY DEF DownInv, ControlOver
<1>9. DiesOnlyInDetach'
  BY DEF MainInv, DiesOnlyInDetach
<1>. QED BY <1>1, <1>2, <1>3, <1>4, <1>5, <1>6, <1>7, <1>8, <1>9

LEMMA ClearLayersInv == LifeInv /\ ~crashed /\ ClearLayers => LifeInv'
<1>. SUFFICES ASSUME LifeInv, ~crashed, ClearLayers PROVE LifeInv'
  OBVIOUS
<1>. USE LifecycleBounds DEF LifeInv, LifecycleTypeOK, ClearLayers
<1>1. MainTypes'
  BY DEF MainTypes
<1>2. DeviceTypes'
  BY DEF DeviceTypes
<1>3. ServerTypes'
  BY DEF ServerTypes
<1>4. OtherTypes'
  BY DEF OtherTypes
<1>5. ThreadsHaveObjects'
  BY DEF ThreadsHaveObjects
<1>6. MainInv'
  BY DEF MainInv, ThreadsHaveObjects
<1>7. UpInv'
  BY DEF UpInv
<1>8. DownInv'
  BY DEF DownInv, ControlOver, BinaryOver
<1>9. DiesOnlyInDetach'
  BY DEF DiesOnlyInDetach
<1>. QED BY <1>1, <1>2, <1>3, <1>4, <1>5, <1>6, <1>7, <1>8, <1>9

LEMMA ClearCallbackInv == LifeInv /\ ~crashed /\ ClearCallback => LifeInv'
<1>. SUFFICES ASSUME LifeInv, ~crashed, ClearCallback PROVE LifeInv'
  OBVIOUS
<1>. USE LifecycleBounds DEF LifeInv, LifecycleTypeOK, ClearCallback
<1>1. MainTypes'
  BY DEF MainTypes
<1>2. DeviceTypes'
  BY DEF DeviceTypes
<1>3. ServerTypes'
  BY DEF ServerTypes
<1>4. OtherTypes'
  BY DEF OtherTypes
<1>5. ThreadsHaveObjects'
  BY DEF ThreadsHaveObjects
<1>6. MainInv'
  BY DEF MainInv
<1>7. UpInv'
  BY DEF UpInv
<1>8. DownInv'
  BY DEF DownInv, ControlOver, BinaryOver
<1>9. DiesOnlyInDetach'
  BY DEF DiesOnlyInDetach
<1>. QED BY <1>1, <1>2, <1>3, <1>4, <1>5, <1>6, <1>7, <1>8, <1>9

LEMMA JoinConsoleInv == LifeInv /\ ~crashed /\ JoinConsole => LifeInv'
<1>. SUFFICES ASSUME LifeInv, ~crashed, JoinConsole PROVE LifeInv'
  OBVIOUS
<1>. USE LifecycleBounds DEF LifeInv, LifecycleTypeOK, JoinConsole
<1>1. MainTypes'
  BY DEF MainTypes
<1>2. DeviceTypes'
  BY DEF DeviceTypes
<1>3. ServerTypes'
  BY DEF ServerTypes
<1>4. OtherTypes'
  BY DEF OtherTypes
<1>5. ThreadsHaveObjects'
  BY DEF ThreadsHaveObjects
<1>6. MainInv'
  BY DEF MainInv
<1>7. UpInv'
  BY DEF UpInv
<1>8. DownInv'
  BY DEF DownInv, ControlOver, BinaryOver
<1>9. DiesOnlyInDetach'
  BY DEF DiesOnlyInDetach
<1>. QED BY <1>1, <1>2, <1>3, <1>4, <1>5, <1>6, <1>7, <1>8, <1>9

-----------------------------------------------------------------------------
(* The scan thread, the threads of the servers and the console.            *)
LEMMA ScanThreadInv == LifeInv /\ ~crashed /\ ScanThread => LifeInv'
<1>. SUFFICES ASSUME LifeInv, ~crashed, ScanThread PROVE LifeInv'
  OBVIOUS
<1>. USE LifecycleBounds DEF LifeInv, LifecycleTypeOK, ScanThread
<1>1. MainTypes'
  BY DEF MainTypes
<1>2. DeviceTypes'
  BY DEF DeviceTypes
<1>3. ServerTypes'
  BY DEF ServerTypes
<1>4. OtherTypes'
  BY DEF OtherTypes
<1>5. ThreadsHaveObjects'
  BY DEF ThreadsHaveObjects
<1>6. MainInv'
  BY DEF MainInv
<1>7. UpInv'
  BY DEF UpInv
<1>8. DownInv'
  BY DEF DownInv, ControlOver, BinaryOver
<1>9. DiesOnlyInDetach'
  BY DEF MainInv, UpInv, MainTypes, ThreadsHaveObjects, DiesOnlyInDetach
<1>. QED BY <1>1, <1>2, <1>3, <1>4, <1>5, <1>6, <1>7, <1>8, <1>9

LEMMA EnterConnectionInv == LifeInv /\ ~crashed /\ EnterConnection => LifeInv'
<1>. SUFFICES ASSUME LifeInv, ~crashed, EnterConnection PROVE LifeInv'
  OBVIOUS
<1>. USE LifecycleBounds DEF LifeInv, LifecycleTypeOK, EnterConnection
<1>1. MainTypes'
  BY DEF MainTypes
<1>2. DeviceTypes'
  BY DEF DeviceTypes
<1>3. ServerTypes'
  BY DEF ServerTypes
<1>4. OtherTypes'
  BY DEF OtherTypes
<1>5. ThreadsHaveObjects'
  BY DEF ThreadsHaveObjects
<1>6. MainInv'
  BY DEF MainInv
<1>7. UpInv'
  BY DEF UpInv
<1>8. DownInv'
  BY DEF DownInv, ControlOver, BinaryOver
<1>9. DiesOnlyInDetach'
  BY DEF DiesOnlyInDetach
<1>. QED BY <1>1, <1>2, <1>3, <1>4, <1>5, <1>6, <1>7, <1>8, <1>9

LEMMA StreamEndsInv == LifeInv /\ ~crashed /\ StreamEnds => LifeInv'
<1>. SUFFICES ASSUME LifeInv, ~crashed, StreamEnds PROVE LifeInv'
  OBVIOUS
<1>. USE LifecycleBounds DEF LifeInv, LifecycleTypeOK, StreamEnds
<1>1. MainTypes'
  BY DEF MainTypes
<1>2. DeviceTypes'
  BY DEF DeviceTypes
<1>3. ServerTypes'
  BY DEF ServerTypes
<1>4. OtherTypes'
  BY DEF OtherTypes
<1>5. ThreadsHaveObjects'
  BY DEF ThreadsHaveObjects
<1>6. MainInv'
  BY DEF MainInv
<1>7. UpInv'
  BY DEF UpInv
<1>8. DownInv'
  BY DEF DownInv, ControlOver, BinaryOver
<1>9. DiesOnlyInDetach'
  BY DEF DiesOnlyInDetach
<1>. QED BY <1>1, <1>2, <1>3, <1>4, <1>5, <1>6, <1>7, <1>8, <1>9

LEMMA ConsoleLoopInv == LifeInv /\ ~crashed /\ ConsoleLoop => LifeInv'
<1>. SUFFICES ASSUME LifeInv, ~crashed, ConsoleLoop PROVE LifeInv'
  OBVIOUS
<1>. USE LifecycleBounds DEF LifeInv, LifecycleTypeOK, ConsoleLoop
<1>1. MainTypes'
  BY DEF MainTypes
<1>2. DeviceTypes'
  BY DEF DeviceTypes
<1>3. ServerTypes'
  BY DEF ServerTypes
<1>4. OtherTypes'
  BY DEF OtherTypes
<1>5. ThreadsHaveObjects'
  BY DEF ThreadsHaveObjects
<1>6. MainInv'
  BY DEF MainInv
<1>7. UpInv'
  BY DEF UpInv
<1>8. DownInv'
  BY DEF DownInv, ControlOver, BinaryOver
<1>9. DiesOnlyInDetach'
  BY DEF DiesOnlyInDetach
<1>. QED BY <1>1, <1>2, <1>3, <1>4, <1>5, <1>6, <1>7, <1>8, <1>9

LEMMA ConsoleLineInv == LifeInv /\ ~crashed /\ ConsoleLine => LifeInv'
<1>. SUFFICES ASSUME LifeInv, ~crashed, ConsoleLine PROVE LifeInv'
  OBVIOUS
<1>. USE LifecycleBounds DEF LifeInv, LifecycleTypeOK, ConsoleLine
<1>1. MainTypes'
  BY DEF MainTypes
<1>2. DeviceTypes'
  BY DEF DeviceTypes
<1>3. ServerTypes'
  BY DEF ServerTypes
<1>4. OtherTypes'
  BY DEF OtherTypes
<1>5. ThreadsHaveObjects'
  BY DEF ThreadsHaveObjects
<1>6. MainInv'
  BY DEF MainInv
<1>7. UpInv'
  BY DEF UpInv
<1>8. DownInv'
  BY DEF DownInv, ControlOver, BinaryOver
<1>9. DiesOnlyInDetach'
  BY DEF DiesOnlyInDetach
<1>. QED BY <1>1, <1>2, <1>3, <1>4, <1>5, <1>6, <1>7, <1>8, <1>9

LEMMA ConsoleRestartInv == LifeInv /\ ~crashed /\ ConsoleRestart => LifeInv'
<1>. SUFFICES ASSUME LifeInv, ~crashed, ConsoleRestart PROVE LifeInv'
  OBVIOUS
<1>. USE LifecycleBounds DEF LifeInv, LifecycleTypeOK, ConsoleRestart,
                             ThroughInstance
<1>1. MainTypes'
  BY DEF MainTypes
<1>2. DeviceTypes'
  BY DEF DeviceTypes
<1>3. ServerTypes'
  BY DEF ServerTypes
<1>4. OtherTypes'
  BY DEF OtherTypes
<1>5. ThreadsHaveObjects'
  BY DEF ThreadsHaveObjects
<1>6. MainInv'
  BY DEF MainInv
<1>7. UpInv'
  BY DEF UpInv
<1>8. DownInv'
  BY DEF DownInv, ControlOver, BinaryOver
<1>9. DiesOnlyInDetach'
  BY DEF MainInv, DiesOnlyInDetach
<1>. QED BY <1>1, <1>2, <1>3, <1>4, <1>5, <1>6, <1>7, <1>8, <1>9

LEMMA ConsoleShutdownInv == LifeInv /\ ~crashed /\ ConsoleShutdown => LifeInv'
<1>. SUFFICES ASSUME LifeInv, ~crashed, ConsoleShutdown PROVE LifeInv'
  OBVIOUS
<1>. USE LifecycleBounds DEF LifeInv, LifecycleTypeOK, ConsoleShutdown,
                             ThroughInstance
<1>1. MainTypes'
  BY DEF MainTypes, MainInv
<1>2. DeviceTypes'
  BY DEF DeviceTypes
<1>3. ServerTypes'
  BY DEF ServerTypes
<1>4. OtherTypes'
  BY DEF OtherTypes
<1>5. ThreadsHaveObjects'
  BY DEF ThreadsHaveObjects
<1>6. MainInv'
  BY DEF MainInv
<1>7. UpInv'
  BY DEF UpInv
<1>8. DownInv'
  BY DEF DownInv, ControlOver, BinaryOver
<1>9. DiesOnlyInDetach'
  BY DEF MainInv, UpInv, MainTypes, DiesOnlyInDetach
<1>. QED BY <1>1, <1>2, <1>3, <1>4, <1>5, <1>6, <1>7, <1>8, <1>9

LEMMA ConsoleScans ==
  ASSUME ConsoleDevice
  PROVE  scanning' = scanning \/ (devOn /\ scanning' \in BOOLEAN)
<1>1. CASE UNCHANGED scanning
  BY <1>1
<1>2. CASE devOn /\ scanning' \in BOOLEAN
  BY <1>2
<1>3. CASE ~devOn /\ UNCHANGED scanning
  BY <1>3
<1>. QED BY <1>1, <1>2, <1>3 DEF ConsoleDevice

LEMMA ConsoleDeviceInv == LifeInv /\ ~crashed /\ ConsoleDevice => LifeInv'
<1>. SUFFICES ASSUME LifeInv, ~crashed, ConsoleDevice PROVE LifeInv'
  OBVIOUS
<1>. USE LifecycleBounds DEF LifeInv, LifecycleTypeOK, ConsoleDevice,
                             MembersGone
<1>0. /\ con # "none" /\ con' # "none" /\ consoleOn
      /\ main \notin {"test", "exit", "create"} /\ ~Early
  BY DEF MainInv, ThreadsHaveObjects
<1>10. devOn => "control" \in exists
  BY <1>0 DEF MainInv, UpInv, MainTypes
<1>11. scanning' = scanning \/ (devOn /\ scanning' \in BOOLEAN)
  BY ConsoleScans
<1>1. MainTypes'
  BY DEF MainTypes
<1>2. DeviceTypes'
  BY DEF DeviceTypes
<1>3. ServerTypes'
  BY DEF ServerTypes
<1>4. OtherTypes'
  BY DEF OtherTypes
<1>5. ThreadsHaveObjects'
  BY <1>0, <1>11 DEF ThreadsHaveObjects
<1>6. MainInv'
  BY DEF MainInv
<1>7. UpInv'
  BY <1>0, <1>10, <1>11 DEF UpInv
<1>8. DownInv'
  BY DEF DownInv, ControlOver, BinaryOver
<1>9. DiesOnlyInDetach'
  <2>1. crashed' => ~devOn \/ "control" \notin exists \/ main \in Gone
    OBVIOUS
  <2>2. crashed' => ~instance /\ ~attached
    BY <1>0, <1>10, <2>1 DEF MainInv
  <2>3. scan' = scan /\ devOn' = devOn /\ exists' = exists
    OBVIOUS
  <2>. QED BY <2>2, <2>3 DEF DiesOnlyInDetach
<1>. QED BY <1>1, <1>2, <1>3, <1>4, <1>5, <1>6, <1>7, <1>8, <1>9

-----------------------------------------------------------------------------
(* The accept threads and the handlers.                                    *)
LEMMA TestServingInv ==
  ASSUME LifeInv, ~crashed, NEW s \in Servers, TestServing(s)
  PROVE LifeInv'
<1>. USE LifecycleBounds DEF LifeInv, LifecycleTypeOK, TestServing
<1>1. MainTypes'
  BY DEF MainTypes
<1>2. DeviceTypes'
  BY DEF DeviceTypes
<1>3. ServerTypes'
  BY DEF ServerTypes
<1>4. OtherTypes'
  BY DEF OtherTypes
<1>5. ThreadsHaveObjects'
  BY DEF ThreadsHaveObjects, ServerTypes
<1>6. MainInv'
  BY DEF MainInv
<1>7. UpInv'
  BY DEF UpInv
<1>8. DownInv'
  BY DEF MainTypes, ServerTypes, DownInv, ControlOver, BinaryOver
<1>9. DiesOnlyInDetach'
  BY DEF DiesOnlyInDetach
<1>. QED BY <1>1, <1>2, <1>3, <1>4, <1>5, <1>6, <1>7, <1>8, <1>9

LEMMA AcceptConnectionInv ==
  ASSUME LifeInv, ~crashed, NEW c \in Conns, AcceptConnection(c)
  PROVE LifeInv'
<1>. USE LifecycleBounds DEF LifeInv, LifecycleTypeOK, AcceptConnection,
                             ClientBound
<1>1. MainTypes'
  BY DEF MainTypes
<1>2. DeviceTypes'
  BY DEF DeviceTypes
<1>3. ServerTypes'
  BY DEF ServerTypes
<1>4. OtherTypes'
  BY DEF OtherTypes
<1>5. ThreadsHaveObjects'
  BY DEF ThreadsHaveObjects
<1>6. MainInv'
  BY DEF MainInv
<1>7. UpInv'
  BY DEF UpInv
<1>8. DownInv'
  BY DEF ServerTypes, DownInv, ControlOver, BinaryOver
<1>9. DiesOnlyInDetach'
  BY DEF DiesOnlyInDetach
<1>. QED BY <1>1, <1>2, <1>3, <1>4, <1>5, <1>6, <1>7, <1>8, <1>9

LEMMA HandlerLoopInv ==
  ASSUME LifeInv, ~crashed, NEW c \in Conns, HandlerLoop(c)
  PROVE LifeInv'
<1>. USE LifecycleBounds DEF LifeInv, LifecycleTypeOK, HandlerLoop
<1>1. MainTypes'
  BY DEF MainTypes
<1>2. DeviceTypes'
  BY DEF DeviceTypes
<1>3. ServerTypes'
  BY DEF ServerTypes
<1>4. OtherTypes'
  BY DEF OtherTypes
<1>5. ThreadsHaveObjects'
  BY DEF ThreadsHaveObjects
<1>6. MainInv'
  BY DEF MainInv
<1>7. UpInv'
  BY DEF UpInv
<1>8. DownInv'
  BY DEF DownInv, ControlOver, BinaryOver
<1>9. DiesOnlyInDetach'
  BY DEF DiesOnlyInDetach
<1>. QED BY <1>1, <1>2, <1>3, <1>4, <1>5, <1>6, <1>7, <1>8, <1>9

LEMMA ReceiveInv ==
  ASSUME LifeInv, ~crashed, NEW c \in Conns, Receive(c)
  PROVE LifeInv'
<1>. USE LifecycleBounds DEF LifeInv, LifecycleTypeOK, Receive
<1>1. MainTypes'
  BY DEF MainTypes
<1>2. DeviceTypes'
  BY DEF DeviceTypes
<1>3. ServerTypes'
  BY DEF ServerTypes
<1>4. OtherTypes'
  BY DEF OtherTypes
<1>5. ThreadsHaveObjects'
  BY DEF ThreadsHaveObjects
<1>6. MainInv'
  BY DEF MainInv
<1>7. UpInv'
  BY DEF UpInv
<1>8. DownInv'
  BY DEF DownInv, ControlOver, BinaryOver
<1>9. DiesOnlyInDetach'
  BY DEF DiesOnlyInDetach
<1>. QED BY <1>1, <1>2, <1>3, <1>4, <1>5, <1>6, <1>7, <1>8, <1>9

LEMMA HandlerRestartInv ==
  ASSUME LifeInv, ~crashed, NEW c \in Conns, HandlerRestart(c)
  PROVE LifeInv'
<1>. USE LifecycleBounds DEF LifeInv, LifecycleTypeOK, HandlerRestart,
                             ThroughInstance
<1>1. MainTypes'
  BY DEF MainTypes
<1>2. DeviceTypes'
  BY DEF DeviceTypes
<1>3. ServerTypes'
  BY DEF ServerTypes
<1>4. OtherTypes'
  BY DEF OtherTypes
<1>5. ThreadsHaveObjects'
  BY DEF ThreadsHaveObjects
<1>6. MainInv'
  BY DEF MainInv
<1>7. UpInv'
  BY DEF UpInv
<1>8. DownInv'
  BY DEF DownInv, ControlOver, BinaryOver
<1>9. DiesOnlyInDetach'
  BY DEF MainInv, DiesOnlyInDetach
<1>. QED BY <1>1, <1>2, <1>3, <1>4, <1>5, <1>6, <1>7, <1>8, <1>9

LEMMA HandlerShutdownInv ==
  ASSUME LifeInv, ~crashed, NEW c \in Conns, HandlerShutdown(c)
  PROVE LifeInv'
<1>. USE LifecycleBounds DEF LifeInv, LifecycleTypeOK, HandlerShutdown
<1>1. MainTypes'
  BY DEF MainTypes
<1>2. DeviceTypes'
  BY DEF DeviceTypes
<1>3. ServerTypes'
  BY DEF ServerTypes
<1>4. OtherTypes'
  BY DEF OtherTypes
<1>5. ThreadsHaveObjects'
  BY DEF ThreadsHaveObjects
<1>6. MainInv'
  BY DEF MainInv, DownInv, ControlOver
<1>7. UpInv'
  BY DEF UpInv
<1>8. DownInv'
  BY DEF DownInv, ControlOver, BinaryOver
<1>9. DiesOnlyInDetach'
  BY DEF DiesOnlyInDetach
<1>. QED BY <1>1, <1>2, <1>3, <1>4, <1>5, <1>6, <1>7, <1>8, <1>9

LEMMA HandlerDeviceInv ==
  ASSUME LifeInv, ~crashed, NEW c \in Conns, HandlerDevice(c)
  PROVE LifeInv'
<1>. USE LifecycleBounds DEF LifeInv, LifecycleTypeOK, HandlerDevice
<1>1. MainTypes'
  BY DEF MainTypes
<1>2. DeviceTypes'
  BY DEF DeviceTypes
<1>3. ServerTypes'
  BY DEF ServerTypes
<1>4. OtherTypes'
  BY DEF OtherTypes
<1>5. ThreadsHaveObjects'
  BY DEF ThreadsHaveObjects
<1>6. MainInv'
  BY DEF MainInv
<1>7. UpInv'
  BY DEF UpInv, MainInv, MainTypes, DownInv, ControlOver
<1>8. DownInv'
  BY DEF DownInv, ControlOver, BinaryOver
<1>9. DiesOnlyInDetach'
  BY DEF MainInv, DownInv, ControlOver, DiesOnlyInDetach
<1>. QED BY <1>1, <1>2, <1>3, <1>4, <1>5, <1>6, <1>7, <1>8, <1>9

LEMMA HandlerKickInv ==
  ASSUME LifeInv, ~crashed, NEW c \in Conns, HandlerKick(c)
  PROVE LifeInv'
<1>. USE LifecycleBounds DEF LifeInv, LifecycleTypeOK, HandlerKick
<1>1. MainTypes'
  BY DEF MainTypes
<1>2. DeviceTypes'
  BY DEF DeviceTypes
<1>3. ServerTypes'
  BY DEF ServerTypes
<1>4. OtherTypes'
  BY DEF OtherTypes
<1>5. ThreadsHaveObjects'
  BY DEF ThreadsHaveObjects
<1>6. MainInv'
  BY DEF MainInv
<1>7. UpInv'
  BY DEF UpInv
<1>8. DownInv'
  BY DEF DownInv, ControlOver, BinaryOver
<1>9. DiesOnlyInDetach'
  BY DEF DiesOnlyInDetach
<1>. QED BY <1>1, <1>2, <1>3, <1>4, <1>5, <1>6, <1>7, <1>8, <1>9

-----------------------------------------------------------------------------
(* The invariant, and what follows from it.                                *)
LEMMA InitInv == LifecycleInit => LifeInv
<1>. SUFFICES ASSUME LifecycleInit PROVE LifeInv
  OBVIOUS
<1>. USE LifecycleBounds DEF LifecycleInit, AllOff
<1>1. MainTypes /\ DeviceTypes
  BY DEF MainTypes, DeviceTypes
<1>2. ServerTypes
  <2>1. open \in [Servers -> SUBSET {"tcp", "udp"}]
    OBVIOUS
  <2>2. acc \in [Servers -> {"none", "test", "listen", "enter"}]
    OBVIOUS
  <2>3. hd \in [Conns -> HandlerLabels]
    OBVIOUS
  <2>4. wsaCount \in Int
    OBVIOUS
  <2>5. wsaUp \in BOOLEAN
    OBVIOUS
  <2>6. /\ exists \subseteq Servers /\ serving \subseteq Servers
        /\ pend \subseteq Conns /\ table \subseteq Conns /\ sock \subseteq Conns
        /\ stream \in {"none", "poll"}
    OBVIOUS
  <2>. QED BY <2>1, <2>2, <2>3, <2>4, <2>5, <2>6 DEF ServerTypes
<1>3. OtherTypes
  <2>1. life \in 0..MaxLives /\ fails \in 0..MaxFails
    OBVIOUS
  <2>2. con \in ConsoleLabels
    OBVIOUS
  <2>. QED BY <2>1, <2>2 DEF OtherTypes
<1>4. ThreadsHaveObjects /\ DiesOnlyInDetach
  BY DEF ThreadsHaveObjects, DiesOnlyInDetach
<1>5. MainInv
  BY DEF MainInv
<1>6. UpInv
  BY DEF UpInv
<1>7. ControlOver /\ BinaryOver
  BY DEF ControlOver, BinaryOver
<1>8. DownInv
  BY <1>7 DEF DownInv
<1>. QED BY <1>1, <1>2, <1>3, <1>4, <1>5, <1>6, <1>8 DEF LifeInv, LifecycleTypeOK

LEMMA MainThreadInv == LifeInv /\ ~crashed /\ MainThread => LifeInv'
BY TestAppInv, CreateInv, StartDeviceInv, MakeServerInv, StartFailsInv, StartServesInv,
   StartStreamInv, MakeConsoleInv, SetMessageCallbackInv, RunInv, TestRunningInv,
   UpdateInv, DetachInv, StopDeviceInv, JoinDeviceInv, StopServingInv, KickEntryInv,
   ClearEntriesInv, CloseSocketsInv, JoinWorkersInv, ClearLayersInv, ClearCallbackInv,
   JoinConsoleInv DEF MainThread

LEMMA HandlersInv ==
  ASSUME LifeInv, ~crashed, NEW c \in Conns, Handler(c)
  PROVE LifeInv'
BY HandlerLoopInv, HandlerRestartInv, HandlerShutdownInv, HandlerDeviceInv, HandlerKickInv
   DEF Handler

LEMMA NextInv == LifeInv /\ [LifecycleNext]_lifecycleVars => LifeInv'
<1>. SUFFICES ASSUME LifeInv, [LifecycleNext]_lifecycleVars PROVE LifeInv'
  OBVIOUS
<1>1. CASE UNCHANGED lifecycleVars
  BY <1>1 DEF lifecycleVars, LifeInv, LifecycleTypeOK, MainTypes, DeviceTypes, ServerTypes,
     OtherTypes, ThreadsHaveObjects, MainInv, UpInv, DownInv, ControlOver, BinaryOver,
     DiesOnlyInDetach
<1>2. CASE LifecycleNext
  <2>. USE <1>2 DEF LifecycleNext
  <2>1. CASE MainThread
    BY <2>1, MainThreadInv
  <2>2. CASE ScanThread \/ EnterConnection \/ StreamEnds
    BY <2>2, ScanThreadInv, EnterConnectionInv, StreamEndsInv
  <2>3. CASE \E s \in Servers : TestServing(s)
    BY <2>3, TestServingInv
  <2>4. CASE \E c \in Conns : Handler(c)
    BY <2>4, HandlersInv
  <2>5. CASE ConsoleThread
    BY <2>5, ConsoleLoopInv, ConsoleRestartInv, ConsoleShutdownInv, ConsoleDeviceInv
       DEF ConsoleThread
  <2>6. CASE Clients
    BY <2>6, ConsoleLineInv, AcceptConnectionInv, ReceiveInv DEF Clients
  <2>. QED BY <2>1, <2>2, <2>3, <2>4, <2>5, <2>6
<1>. QED BY <1>1, <1>2

LEMMA Invariance == LifecycleSpec => []LifeInv
BY InitInv, NextInv, PTL DEF LifecycleSpec

-----------------------------------------------------------------------------
(* Every variable keeps its type, and threads and flags have their object, *)
(* through every restart: ServerLayer makes an object before it starts the *)
(* threads that use it, and joins them before it resets the pointer.       *)
THEOREM LifecycleTypeCorrect == LifecycleSpec => []LifecycleTypeOK
<1>1. LifeInv => LifecycleTypeOK
  BY DEF LifeInv
<1>. QED BY <1>1, Invariance, PTL

(* A command dies of s_Instance, m_Server or m_Device only while OnDetach  *)
(* takes the application down, and OnScanFrame never dies of them.         *)
THEOREM CrashesAreInDetach == LifecycleSpec => []DiesOnlyInDetach
<1>1. LifeInv => DiesOnlyInDetach
  BY DEF LifeInv
<1>. QED BY <1>1, Invariance, PTL

(* When Main tests g_ApplicationRunning, creates or leaves, the threads,   *)
(* the entries, the sockets and the pointers of the last application are   *)
(* gone: what Shutdown, Stop and the destructors reset and wait for.       *)
THEOREM NothingIsLeft == LifecycleSpec => []OldLifeIsOver
<1>1. LifeInv => OldLifeIsOver
  <2>. SUFFICES ASSUME LifeInv, BetweenLives PROVE OldLifeIsOver
    BY DEF OldLifeIsOver
  <2>1. main \in {"test", "create", "exit"}
    BY DEF BetweenLives
  <2>2. ControlOver /\ BinaryOver
    BY <2>1 DEF LifeInv, DownInv
  <2>3. con = "none" /\ ~devOn /\ ~instance
    BY <2>1 DEF LifeInv, MainInv
  <2>4. scan = "none"
    BY <2>3 DEF LifeInv, LifecycleTypeOK, ThreadsHaveObjects
  <2>5. exists = {} /\ serving = {}
    BY <2>2 DEF LifeInv, LifecycleTypeOK, ServerTypes, ControlOver, BinaryOver
  <2>. QED BY <2>2, <2>3, <2>4, <2>5 DEF OldLifeIsOver, ControlOver, BinaryOver
<1>. QED BY <1>1, Invariance, PTL

(* Application::Shutdown clears m_Running before g_ApplicationRunning, and *)
(* yet Main never creates an application after a SHUTDOWN has begun.       *)
THEOREM ShutdownIsFinal == LifecycleSpec => NoLifeAfterShutdown
<1>1. LifeInv /\ [LifecycleNext]_lifecycleVars =>
        [life' # life => ~ShutdownBegun]_lifecycleVars
  <2>. SUFFICES ASSUME LifeInv, LifecycleNext, life' # life PROVE ~ShutdownBegun
    BY DEF lifecycleVars
  <2>1. Create
    BY DEF LifecycleNext, MainThread, Clients, Handler, ConsoleThread,
       TestApp, StartDevice, MakeServer, StartFails, StartServes, StartStream,
       MakeConsole, SetMessageCallback, Run, TestRunning, Update, Detach, StopDevice,
       JoinDevice, StopServing, KickEntry, ClearEntries, CloseSockets, JoinWorkers,
       ClearLayers, ClearCallback, JoinConsole, ScanThread, EnterConnection, StreamEnds,
       TestServing, HandlerLoop, HandlerRestart, HandlerShutdown, HandlerDevice,
       HandlerKick, ConsoleLoop, ConsoleRestart, ConsoleShutdown, ConsoleDevice,
       ConsoleLine, AcceptConnection, Receive
  <2>2. main = "create"
    BY <2>1 DEF Create
  <2>3. appRunning /\ con = "none"
    BY <2>2 DEF LifeInv, MainInv
  <2>4. \A c \in Conns : hd[c] = "none"
    BY <2>2 DEF LifeInv, DownInv, ControlOver
  <2>. QED BY <2>3, <2>4 DEF ShutdownBegun
<1>. QED BY <1>1, Invariance, PTL DEF LifecycleSpec, NoLifeAfterShutdown

-----------------------------------------------------------------------------
(* The users of WinSock.  Up to the first teardown their count is that of  *)
(* the running servers; later it is too low, and then a call that fails in *)
(* Start closes the sockets of the other server: RunningServersListen      *)
(* rests on the count in the first life, and then on nothing failing.      *)
Afoot == main \notin TearDown \cup Gone
Counted(s) == IF s \in serving THEN 1 ELSE 0

ListenInv ==
  /\ life = 0 => wsaCount = 0 /\ main \in {"test", "exit", "create"}
  /\ ~ipValid => serving = {}
  /\ Afoot /\ life = 1 /\ ~udpFailed =>
       wsaCount = Counted("control") + Counted("binary")
  /\ Afoot /\ (life = 1 \/ fails = 0) /\ ~udpFailed =>
       \A s \in serving : "tcp" \in open[s]

(* A step that neither starts a server nor closes a socket.                *)
LEMMA ListenKept ==
  ASSUME ListenInv, UNCHANGED <<ipValid, life, fails, udpFailed, serving, wsaCount, open>>,
         Afoot' => Afoot, life = 0 => main' \in {"test", "exit", "create"}
  PROVE  ListenInv'
BY DEF ListenInv, Counted

LEMMA CreateListen ==
  ASSUME LifeInv, ListenInv, Create
  PROVE  ListenInv'
<1>1. serving = {}
  BY DEF LifeInv, DownInv, ControlOver, BinaryOver, LifecycleTypeOK, ServerTypes, Create
<1>2. life \in Nat
  BY LifecycleBounds DEF LifeInv, LifecycleTypeOK, OtherTypes
<1>. QED BY <1>1, <1>2 DEF ListenInv, Counted, Create

LEMMA StartFailsListen ==
  ASSUME LifeInv, ListenInv, StartFails
  PROVE  ListenInv'
<1>1. Afoot /\ life # 0 /\ UNCHANGED <<ipValid, life, udpFailed, serving>>
  BY DEF ListenInv, StartFails, Afoot
<1>2. serving \subseteq Servers /\ wsaCount \in Int /\ fails \in Nat
  BY LifecycleBounds DEF LifeInv, LifecycleTypeOK, ServerTypes, OtherTypes
<1>3. wsaCount' = wsaCount
  BY <1>2 DEF StartFails, CleanupNetworking, InitializeNetworking
<1>4. fails' = 0 => fails = 0 /\ ~ipValid
  BY <1>2 DEF StartFails
<1>5. UNCHANGED open \/ wsaCount <= 0
  BY <1>2 DEF StartFails, CleanupNetworking, InitializeNetworking
<1>6. CASE serving = {}
  BY <1>1, <1>3, <1>6 DEF ListenInv, Counted
<1>7. CASE serving # {} /\ life = 1 /\ ~udpFailed
  <2>1. wsaCount > 0
    <3>1. Counted("control") = 1 \/ Counted("binary") = 1
      BY <1>2, <1>7 DEF Counted
    <3>2. Counted("control") \in {0, 1} /\ Counted("binary") \in {0, 1}
      BY DEF Counted
    <3>3. wsaCount = Counted("control") + Counted("binary")
      BY <1>1, <1>7 DEF ListenInv
    <3>. QED BY <3>1, <3>2, <3>3
  <2>. QED BY <1>1, <1>2, <1>3, <1>5, <1>7, <2>1 DEF ListenInv, Counted
<1>8. CASE serving # {} /\ (life # 1 \/ udpFailed)
  BY <1>1, <1>3, <1>4, <1>8 DEF ListenInv
<1>. QED BY <1>6, <1>7, <1>8

LEMMA StartServesListen ==
  ASSUME LifeInv, ListenInv, StartServes
  PROVE  ListenInv'
<1>1. /\ Afoot /\ life # 0 /\ UNCHANGED <<ipValid, life, udpFailed, fails>>
      /\ ipValid /\ serving' = serving \cup {at} /\ wsaCount' = wsaCount + 1
      /\ open' = [open EXCEPT ![at] = {"tcp"}]
  BY DEF ListenInv, StartServes, Afoot, InitializeNetworking
<1>2. at \in Servers /\ at \notin serving
  BY DEF LifeInv, DownInv, StartServes, LifecycleTypeOK, MainTypes
<1>3. open \in [Servers -> SUBSET {"tcp", "udp"}] /\ wsaCount \in Int /\ serving \subseteq Servers
  BY DEF LifeInv, LifecycleTypeOK, ServerTypes
<1>4. (life = 1 \/ fails = 0) /\ ~udpFailed => \A s \in serving' : "tcp" \in open'[s]
  BY <1>1, <1>2, <1>3 DEF ListenInv
<1>5. life = 1 /\ ~udpFailed => wsaCount' = (Counted("control") + Counted("binary"))'
  BY <1>1, <1>2, <1>3 DEF ListenInv, Counted
<1>. QED BY <1>1, <1>4, <1>5 DEF ListenInv

LEMMA StartStreamListen ==
  ASSUME LifeInv, ListenInv, StartStream
  PROVE  ListenInv'
<1>1. Afoot /\ life # 0 /\ UNCHANGED <<ipValid, life, serving>>
  BY DEF ListenInv, StartStream, Afoot
<1>2. CASE udpFailed'
  BY <1>1, <1>2 DEF ListenInv
<1>3. CASE ~udpFailed'
  <2>1. /\ open' = [open EXCEPT ![at] = @ \cup {"udp"}]
        /\ UNCHANGED <<wsaCount, fails, udpFailed>>
    BY <1>3 DEF StartStream
  <2>2. open \in [Servers -> SUBSET {"tcp", "udp"}] /\ serving \subseteq Servers
    BY DEF LifeInv, LifecycleTypeOK, ServerTypes
  <2>3. \A s \in serving : "tcp" \in open[s] => "tcp" \in open'[s]
    BY <2>1, <2>2
  <2>. QED BY <1>1, <2>1, <2>3 DEF ListenInv, Counted
<1>. QED BY <1>2, <1>3

(* Stop ends what is claimed of the servers of this life.                  *)
LEMMA TearDownListen ==
  ASSUME LifeInv, ListenInv, main \in TearDown, MainThread
  PROVE  ListenInv'
<1>1. life # 0
  BY DEF ListenInv
<1>2. ~Afoot' /\ UNCHANGED <<ipValid, life>> /\ serving' \subseteq serving
  BY DEF MainThread, Afoot, TestApp, Create, StartDevice, MakeServer, StartFails,
         StartServes, StartStream, MakeConsole, SetMessageCallback, Run, TestRunning,
         Update, Detach, StopDevice, JoinDevice, StopServing, KickEntry, ClearEntries,
         CloseSockets, JoinWorkers, ClearLayers, ClearCallback, JoinConsole
<1>. QED BY <1>1, <1>2 DEF ListenInv

LEMMA MainThreadListen ==
  ASSUME LifeInv, ListenInv, MainThread
  PROVE  ListenInv'
<1>1. CASE main \in TearDown
  BY <1>1, TearDownListen
<1>2. CASE Create \/ StartFails \/ StartServes \/ StartStream
  BY <1>2, CreateListen, StartFailsListen, StartServesListen, StartStreamListen
<1>3. CASE /\ main \notin TearDown
           /\ ~(Create \/ StartFails \/ StartServes \/ StartStream)
  <2>1. /\ UNCHANGED <<ipValid, life, fails, udpFailed, serving, wsaCount, open>>
        /\ Afoot' => Afoot
        /\ life = 0 => main' \in {"test", "exit", "create"}
    BY <1>3 DEF ListenInv, Afoot, MainThread, TestApp, StartDevice, MakeServer,
       MakeConsole, SetMessageCallback, Run, TestRunning, Update, StartReturns, Detach,
       StopDevice, JoinDevice, StopServing, KickEntry, ClearEntries, CloseSockets,
       JoinWorkers, ClearLayers, ClearCallback, JoinConsole
  <2>. QED BY <2>1, ListenKept
<1>. QED BY <1>1, <1>2, <1>3

LEMMA NextListen ==
  ASSUME LifeInv, ListenInv, [LifecycleNext]_lifecycleVars
  PROVE  ListenInv'
<1>1. CASE MainThread
  BY <1>1, MainThreadListen
<1>2. CASE ~MainThread
  <2>1. UNCHANGED <<main, ipValid, life, fails, udpFailed, serving, wsaCount, open>>
    BY <1>2 DEF LifecycleNext, lifecycleVars, Clients, Handler, ConsoleThread,
       ScanThread, EnterConnection, StreamEnds,
       TestServing, HandlerLoop, HandlerRestart, HandlerShutdown, HandlerDevice,
       HandlerKick, ConsoleLoop, ConsoleRestart, ConsoleShutdown, ConsoleDevice,
       ConsoleLine, AcceptConnection, Receive
  <2>. QED BY <2>1, ListenKept DEF ListenInv, Afoot
<1>. QED BY <1>1, <1>2

(* OnUpdate need not start a server again that it takes for running: its   *)
(* listening socket is open, in the first life and, if nothing failed, in  *)
(* every later one.                                                        *)
THEOREM ServersListen == LifecycleSpec => []RunningServersListen
<1>1. LifecycleInit => ListenInv
  BY DEF LifecycleInit, AllOff, ListenInv, Counted, Afoot
<1>2. LifeInv /\ ListenInv /\ [LifecycleNext]_lifecycleVars => ListenInv'
  BY NextListen
<1>3. ListenInv => RunningServersListen
  BY DEF ListenInv, RunningServersListen, Afoot
<1>. QED BY <1>1, <1>2, <1>3, Invariance, PTL DEF LifecycleSpec

-----------------------------------------------------------------------------
(* The joins of a restart.  That they end is a liveness property; here is  *)
(* what it rests on, for any number of connections: nobody who is joined   *)
(* can block, and every step of theirs takes them nearer to their end.     *)

(* Stop has cleared m_ServerIsRunning.                                     *)
Stopping == main \in {"kicks", "close", "join"}

(* Where threads wait for a client, or go round their loop again.          *)
AcceptBlocks(s) == acc[s] = "listen" /\ "tcp" \in open[s]
StreamBlocks == stream = "poll" /\ "control" \in serving
HandlerBlocks(c) == hd[c] = "recv" /\ c \in sock

(* Nobody whom the main thread joins can block: Stop has closed the socket *)
(* of accept and the sockets of recv before it joins, and cleared the flags*)
(* of the loops (server.cpp 64-80, mps.cpp 41-45).                         *)
JoinsAreAnswered ==
  /\ main = "join" =>
       /\ ~AcceptBlocks(at)
       /\ at = "control" => ~StreamBlocks /\ \A c \in Conns : ~HandlerBlocks(c)
  /\ main = "dev_join" => ~devRun

(* The most steps that a thread has left once the flag of its loop is      *)
(* cleared: a handler may still receive a command, execute it and test.    *)
AcceptLeft == [none |-> 0, test |-> 1, enter |-> 2, listen |-> 3]
HandlerLeft ==
  [none |-> 0, kick |-> 1, loop |-> 2, queued |-> 3, restart |-> 3, use |-> 3,
   shutdown2 |-> 3, shutdown |-> 4, device |-> 4, recv |-> 5]
ScanLeft == [none |-> 0, run |-> 1, scan |-> 2, frame |-> 3]

(* A thread of the server that Stop is busy with only comes nearer to its  *)
(* end; the one handler that may still begin is that of a connection which *)
(* the accept thread had accepted, with a step that it has then done.      *)
Drains ==
  /\ Stopping /\ at' = at =>
       /\ acc'[at] # acc[at] => AcceptLeft[acc'[at]] < AcceptLeft[acc[at]]
       /\ at = "control" =>
            /\ stream' \in {stream, "none"}
            /\ \A c \in Conns : hd'[c] # hd[c] =>
                 \/ HandlerLeft[hd'[c]] < HandlerLeft[hd[c]]
                 \/ c \in pend /\ acc'[at] # acc[at]
  /\ main = "dev_join" /\ ~scanning /\ scan' # scan =>
       ScanLeft[scan'] < ScanLeft[scan]

(* What RestartCompletes rests on: a restart does not hang in a join,      *)
(* however many clients are connected and whatever they have in hand.      *)
StopJoins == []JoinsAreAnswered /\ [][Drains]_lifecycleVars

(* A connection that was accepted has no handler before it is entered, and *)
(* none is in recv with its socket open once m_Connections was cleared.    *)
JoinInv ==
  /\ \A c \in pend : hd[c] = "none"
  /\ main \in {"close", "join"} /\ at = "control" => \A c \in Conns : ~HandlerBlocks(c)
  /\ main = "dev_join" => ~devRun

LEMMA MainThreadJoin ==
  ASSUME LifeInv, JoinInv, MainThread
  PROVE  JoinInv'
<1>1. CASE ClearEntries
  <2>1. at = "control" => table = {}
    BY <1>1 DEF ClearEntries, Entries
  <2>2. at = "control" => sock \subseteq pend
    BY <2>1 DEF LifeInv, DownInv
  <2>. QED BY <1>1, <2>2 DEF ClearEntries, JoinInv, HandlerBlocks
<1>2. CASE JoinWorkers
  BY <1>2 DEF JoinWorkers, JoinInv, LifeInv, LifecycleTypeOK, ServerTypes
<1>3. CASE CloseSockets
  <2>1. UNCHANGED <<pend, hd>> /\ sock' \subseteq sock
    BY <1>3 DEF CloseSockets, WSACleanup
  <2>2. main' # "dev_join" /\ (main' = "join" => at' = at) /\ main' # "close"
    BY <1>3 DEF CloseSockets
  <2>. QED BY <1>3, <2>1, <2>2 DEF CloseSockets, JoinInv, HandlerBlocks
<1>4. CASE ~ClearEntries /\ ~JoinWorkers /\ ~CloseSockets
  <2>1. UNCHANGED <<pend, hd>> /\ main' \notin {"close", "join"}
    BY <1>4 DEF MainThread, TestApp, Create, StartDevice, MakeServer, StartFails,
         StartServes, StartStream, StartReturns, MakeConsole, SetMessageCallback, Run,
         TestRunning, Update, Detach, StopDevice, JoinDevice, StopServing, KickEntry,
         ClearLayers, ClearCallback, JoinConsole
  <2>2. main' = "dev_join" => ~devRun'
    BY <1>4 DEF MainThread, TestApp, Create, StartDevice, MakeServer, StartFails,
         StartServes, StartStream, StartReturns, MakeConsole, SetMessageCallback, Run,
         TestRunning, Update, Detach, StopDevice, JoinDevice, StopServing, KickEntry,
         ClearLayers, ClearCallback, JoinConsole
  <2>. QED BY <2>1, <2>2 DEF JoinInv
<1>. QED BY <1>1, <1>2, <1>3, <1>4

(* The steps of the other threads, none of which moves the main thread.    *)
LEMMA OthersJoin ==
  ASSUME LifeInv, JoinInv, LifecycleNext, ~MainThread
  PROVE  JoinInv'
<1>1. UNCHANGED <<main, at, devRun>>
  BY DEF LifecycleNext, Clients, Handler, ConsoleThread, ScanThread, EnterConnection,
     StreamEnds, TestServing, HandlerLoop, HandlerRestart, HandlerShutdown,
     HandlerDevice, HandlerKick, ConsoleLoop, ConsoleRestart, ConsoleShutdown,
     ConsoleDevice, ConsoleLine, AcceptConnection, Receive
<1>2. CASE UNCHANGED <<pend, sock, hd>>
  BY <1>1, <1>2 DEF JoinInv, HandlerBlocks
<1>3. CASE EnterConnection
  BY <1>1, <1>3 DEF EnterConnection, JoinInv, HandlerBlocks
<1>4. ASSUME NEW c \in Conns, AcceptConnection(c)
      PROVE  JoinInv'
  BY <1>1, <1>4 DEF AcceptConnection, JoinInv, HandlerBlocks
<1>5. ASSUME NEW c \in Conns, Handler(c) \/ Receive(c)
      PROVE  JoinInv'
  <2>1. hd \in [Conns -> HandlerLabels]
    BY DEF LifeInv, LifecycleTypeOK, ServerTypes
  <2>2. pend' = pend /\ sock' \subseteq sock
    BY <1>5 DEF Handler, HandlerLoop, HandlerRestart, HandlerShutdown, HandlerDevice,
       HandlerKick, Receive
  <2>3. /\ hd[c] # "none" /\ \A d \in Conns \ {c} : hd'[d] = hd[d]
        /\ hd'[c] = "recv" => "control" \in serving
    BY <1>5, <2>1 DEF Handler, HandlerLoop, HandlerRestart, HandlerShutdown,
       HandlerDevice, HandlerKick, Receive
  <2>4. pend \subseteq Conns
    BY DEF LifeInv, LifecycleTypeOK, ServerTypes
  <2>5. main \in {"close", "join"} /\ at = "control" => "control" \notin serving
    BY DEF LifeInv, DownInv
  <2>. QED BY <1>1, <2>2, <2>3, <2>4, <2>5 DEF JoinInv, HandlerBlocks
<1>6. CASE \/ ScanThread \/ StreamEnds \/ ConsoleThread \/ ConsoleLine
           \/ \E s \in Servers : TestServing(s)
  <2>1. UNCHANGED <<pend, sock, hd>>
    BY <1>6 DEF ConsoleThread, ScanThread, StreamEnds, TestServing, ConsoleLoop,
       ConsoleRestart, ConsoleShutdown, ConsoleDevice, ConsoleLine
  <2>. QED BY <1>2, <2>1
<1>. QED BY <1>3, <1>4, <1>5, <1>6 DEF LifecycleNext, Clients

LEMMA JoinsInvariance == LifecycleSpec => []JoinInv
<1>1. LifecycleInit => JoinInv
  BY DEF LifecycleInit, AllOff, JoinInv
<1>2. LifeInv /\ JoinInv /\ [LifecycleNext]_lifecycleVars => JoinInv'
  <2>1. UNCHANGED lifecycleVars /\ JoinInv => JoinInv'
    BY DEF lifecycleVars, JoinInv, HandlerBlocks
  <2>. QED BY <2>1, MainThreadJoin, OthersJoin
<1>. QED BY <1>1, <1>2, Invariance, PTL DEF LifecycleSpec

(* What the flags say while the threads of a server or of the device are   *)
(* to end.                                                                 *)
LEMMA StoppingKnows ==
  ASSUME LifeInv
  PROVE  /\ Stopping => at \notin serving
         /\ at \in Servers
         /\ acc \in [Servers -> {"none", "test", "listen", "enter"}]
         /\ hd \in [Conns -> HandlerLabels]
  BY DEF Stopping, LifeInv, DownInv, LifecycleTypeOK, MainTypes, ServerTypes

LEMMA AcceptDrains ==
  ASSUME LifeInv, LifecycleNext, Stopping, acc' # acc
  PROVE  /\ at' = at
         /\ acc'[at] # acc[at] => AcceptLeft[acc'[at]] < AcceptLeft[acc[at]]
<1>1. CASE MainThread
  BY <1>1 DEF MainThread, Stopping, TestApp, Create, StartDevice, MakeServer, StartFails,
     StartServes, StartStream, MakeConsole, SetMessageCallback, Run, TestRunning,
     Update, Detach, StopDevice, JoinDevice, StopServing, KickEntry, ClearEntries,
     CloseSockets, JoinWorkers, ClearLayers, ClearCallback, JoinConsole
<1>2. ASSUME NEW s \in Servers, TestServing(s)
      PROVE  /\ at' = at
             /\ acc'[at] # acc[at] => AcceptLeft[acc'[at]] < AcceptLeft[acc[at]]
  BY <1>2, StoppingKnows DEF TestServing, AcceptLeft
<1>3. CASE EnterConnection
  BY <1>3, StoppingKnows DEF EnterConnection, AcceptLeft
<1>4. ASSUME NEW c \in Conns, AcceptConnection(c)
      PROVE  /\ at' = at
             /\ acc'[at] # acc[at] => AcceptLeft[acc'[at]] < AcceptLeft[acc[at]]
  BY <1>4, StoppingKnows DEF AcceptConnection, AcceptLeft
<1>5. CASE ScanThread \/ StreamEnds \/ ConsoleThread \/ ConsoleLine
  BY <1>5 DEF ConsoleThread, ScanThread, StreamEnds, ConsoleLoop, ConsoleRestart,
     ConsoleShutdown, ConsoleDevice, ConsoleLine
<1>6. ASSUME NEW c \in Conns, Handler(c) \/ Receive(c)
      PROVE  acc' = acc
  BY <1>6 DEF Handler, HandlerLoop, HandlerRestart, HandlerShutdown, HandlerDevice,
     HandlerKick, Receive
<1>. QED BY <1>1, <1>2, <1>3, <1>4, <1>5, <1>6 DEF LifecycleNext, Clients

LEMMA HandlerDrains ==
  ASSUME LifeInv, LifecycleNext, Stopping, at = "control", NEW d \in Conns,
         hd'[d] # hd[d]
  PROVE  \/ HandlerLeft[hd'[d]] < HandlerLeft[hd[d]]
         \/ d \in pend /\ acc'[at] # acc[at]
<1>1. CASE MainThread
  <2>1. JoinWorkers
    BY <1>1 DEF MainThread, TestApp, Create, StartDevice, MakeServer, StartFails,
       StartServes, StartStream, MakeConsole, SetMessageCallback, Run, TestRunning,
       Update, Detach, StopDevice, JoinDevice, StopServing, KickEntry, ClearEntries,
       CloseSockets, ClearLayers, ClearCallback, JoinConsole
  <2>2. hd[d] = "queued" /\ hd'[d] = "none"
    BY <2>1 DEF JoinWorkers
  <2>. QED BY <2>2 DEF HandlerLeft
<1>2. ASSUME NEW c \in Conns, Handler(c) \/ Receive(c)
      PROVE  HandlerLeft[hd'[d]] < HandlerLeft[hd[d]]
  <2>1. c = d
    BY <1>2, StoppingKnows DEF Handler, HandlerLoop, HandlerRestart, HandlerShutdown,
       HandlerDevice, HandlerKick, Receive
  <2>2. CASE HandlerLoop(d)
    BY <2>2, StoppingKnows DEF HandlerLoop, HandlerLeft
  <2>3. CASE HandlerRestart(d) \/ HandlerShutdown(d)
    BY <2>3, StoppingKnows DEF HandlerRestart, HandlerShutdown, HandlerLeft
  <2>4. CASE HandlerDevice(d) \/ HandlerKick(d)
    BY <2>4, StoppingKnows DEF HandlerDevice, HandlerKick, HandlerLeft
  <2>5. CASE Receive(d)
    BY <2>5, StoppingKnows DEF Receive, HandlerLeft
  <2>. QED BY <1>2, <2>1, <2>2, <2>3, <2>4, <2>5 DEF Handler
<1>3. CASE EnterConnection
  BY <1>3, StoppingKnows DEF EnterConnection
<1>4. CASE \/ ScanThread \/ StreamEnds \/ ConsoleThread \/ ConsoleLine
           \/ (\E s \in Servers : TestServing(s))
           \/ (\E c \in Conns : AcceptConnection(c))
  BY <1>4 DEF ConsoleThread, ScanThread, StreamEnds, TestServing, ConsoleLoop,
     ConsoleRestart, ConsoleShutdown, ConsoleDevice, ConsoleLine, AcceptConnection
<1>. QED BY <1>1, <1>2, <1>3, <1>4 DEF LifecycleNext, Clients

LEMMA StreamDrains ==
  ASSUME LifeInv, LifecycleNext, Stopping
  PROVE  stream' \in {stream, "none"}
  BY DEF LifecycleNext, MainThread, Stopping, TestApp, Create, StartDevice, MakeServer,
     StartFails, StartServes, StartStream, MakeConsole, SetMessageCallback, Run,
     TestRunning, Update, Detach, StopDevice, JoinDevice, StopServing, KickEntry,
     ClearEntries, CloseSockets, JoinWorkers, ClearLayers, ClearCallback, JoinConsole,
     Clients, Handler, ConsoleThread, ScanThread, EnterConnection, StreamEnds,
     TestServing, HandlerLoop, HandlerRestart, HandlerShutdown, HandlerDevice,
     HandlerKick, ConsoleLoop, ConsoleRestart, ConsoleShutdown, ConsoleDevice,
     ConsoleLine, AcceptConnection, Receive

LEMMA ScanDrains ==
  ASSUME LifeInv, JoinInv, LifecycleNext, main = "dev_join", ~scanning, scan' # scan
  PROVE  ScanLeft[scan'] < ScanLeft[scan]
<1>1. ScanThread
  BY DEF LifecycleNext, MainThread, TestApp, Create, StartDevice, MakeServer,
     StartFails, StartServes, StartStream, MakeConsole, SetMessageCallback, Run,
     TestRunning, Update, Detach, StopDevice, JoinDevice, StopServing, KickEntry,
     ClearEntries, CloseSockets, JoinWorkers, ClearLayers, ClearCallback, JoinConsole,
     Clients, Handler, ConsoleThread, EnterConnection, StreamEnds,
     TestServing, HandlerLoop, HandlerRestart, HandlerShutdown, HandlerDevice,
     HandlerKick, ConsoleLoop, ConsoleRestart, ConsoleShutdown, ConsoleDevice,
     ConsoleLine, AcceptConnection, Receive
<1>. QED BY <1>1 DEF ScanThread, ScanLeft, JoinInv

(* A restart does not hang in a join of Stop, however many clients are     *)
(* connected and whatever they have in hand: none of the joined threads    *)
(* can block, and each of their steps brings its end nearer.  The join of  *)
(* the scan thread, too, only has to wait as long as nobody has set        *)
(* m_Scanning again.                                                       *)
THEOREM JoinsEnd == LifecycleSpec => StopJoins
<1>1. LifeInv /\ JoinInv => JoinsAreAnswered
  <2>. SUFFICES ASSUME LifeInv, JoinInv PROVE JoinsAreAnswered
    OBVIOUS
  <2>1. main = "join" => at \notin serving /\ open[at] = {}
    BY DEF LifeInv, DownInv
  <2>. QED BY <2>1 DEF JoinsAreAnswered, JoinInv, AcceptBlocks, StreamBlocks
<1>2. LifeInv /\ JoinInv /\ [LifecycleNext]_lifecycleVars => [Drains]_lifecycleVars
  <2>. SUFFICES ASSUME LifeInv, JoinInv, LifecycleNext PROVE Drains
    OBVIOUS
  <2>. QED BY AcceptDrains, HandlerDrains, StreamDrains, ScanDrains DEF Drains
<1>. QED BY <1>1, <1>2, Invariance, JoinsInvariance, PTL DEF LifecycleSpec, StopJoins

=============================================================================
