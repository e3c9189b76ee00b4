------------------------------- MODULE Server -------------------------------
(***************************************************************************)
(* The clients of one of the two servers: class Server (aerolib,           *)
(* networking/server.cpp) together with the callbacks that ServerLayer     *)
(* installs in it.  Control = TRUE is the control server of port 23 and    *)
(* FALSE the binary server of port 503, whose callbacks are the same code  *)
(* without prompts, typed commands and the permission check.               *)
(*                                                                         *)
(* Threads.  Accept runs AcceptConnectionThreadFn.  Each connection has a  *)
(* task of the server's pool that runs HandleConnectionThreadFn; it is     *)
(* named by its connection.  Senders are threads that deliver frames       *)
(* (OnScanFrame, OnLabviewFrame) or prompts (OnStatusChanged).  Nothing    *)
(* locks m_Connections, m_Cmds or the active client's fields; each step    *)
(* below is one access to one of them, or one system call.                 *)
(*                                                                         *)
(* Abstractions.  A client's id is the handle that the operating system    *)
(* gives its socket, and handles are given again once closed.  A socket    *)
(* holds at most one unread message.  An operation on a std::map takes     *)
(* effect at once; what two racing ones do to its nodes is not modelled,   *)
(* and a broadcast visits the map in one step.  The server runs: Start and *)
(* Stop are not here.                                                      *)
(***************************************************************************)
EXTENDS Naturals, Sequences, FiniteSets

CONSTANTS
  Conns,       (* connections that clients may make                        *)
  Handles,     (* the values of a socket handle                            *)
  Nobody,      (* the id 0, and no connection                              *)
  Accept,      (* the accept thread                                        *)
  Senders,     (* threads that send frames or prompts                      *)
  Workers,     (* the workers left for the handlers of connections         *)
  Control      (* control server or binary server                          *)

ASSUME NamesAreDistinct ==
  /\ Nobody \notin Handles \cup Conns
  /\ Accept \notin Senders
  /\ ({Accept} \cup Senders) \cap Conns = {}

ASSUME ServerParameters ==
  /\ Workers \in Nat \ {0}
  /\ Control \in BOOLEAN

VARIABLES
  sock,        (* of a connection: "away", "open" or "closed" here         *)
  left,        (* connections that the client has ended                    *)
  sent,        (* connections with an unread message                       *)
  id,          (* the handle a connection was accepted with                *)
  table,       (* m_Connections: no entry, the client's, or a "blank" one  *)
               (* that operator[] has made                                 *)
  active,      (* m_ActiveTCP...ClientId                                   *)
  connected,   (* m_TCP...ClientConnected                                  *)
  partial,     (* m_Cmds: whose characters wait under an id                *)
  queue,       (* handlers waiting for a worker                            *)
  pc,          (* where each thread is                                     *)
  arg,         (* of Accept and Senders: the id they have read             *)
  rx,          (* of a handler: the socket its recv was called on          *)
  newest,      (* history: the latest connection accepted                  *)
  current,     (* history: the latest connection made active               *)
  late,        (* history: commands executed for a superseded connection   *)
  eligible,    (* history: owners since a sender's test                    *)
  raced,       (* history: a change of owner overlapped another use of it  *)
  reused       (* history: a handle was given while someone still held it  *)

client == <<left, sent>>
owning == <<active, connected>>
history == <<newest, current>>
vars == <<sock, left, sent, id, table, active, connected, partial, queue, pc,
          arg, rx, newest, current, late, eligible, raced, reused>>

Threads == Conns \cup {Accept} \cup Senders
KickLabels ==
  {"kick_test", "kick_flag", "kick_id", "kick_cmds", "kick_erase", "kick_close"}
GrantLabels == {"insert", "enqueue", "connect", "test", "victim", "uncmd",
                "set_id"} \cup KickLabels
AcceptLabels ==
  {"accept", "set_connected", "send", "send_lookup"} \cup GrantLabels
HandlerLabels ==
  {"none", "queued", "find", "lookup", "call", "recv", "check", "exec",
   "send", "send_lookup", "done"} \cup KickLabels
SenderLabels == {"idle", "nonzero", "read", "send", "send_lookup"}

Goto(t, from, to) ==
  /\ pc[t] = from
  /\ pc' = [pc EXCEPT ![t] = to]

(* The connection whose open socket has handle h.                          *)
OpenAt(h) == {c \in Conns : sock[c] = "open" /\ id[c] = h}

-----------------------------------------------------------------------------
Init ==
  /\ sock = [c \in Conns |-> "away"]
  /\ left = {}
  /\ sent = {}
  /\ id = [c \in Conns |-> Nobody]
  /\ table = [h \in Handles |-> "none"]
  /\ active = Nobody
  /\ connected = FALSE
  /\ partial = [h \in Handles |-> Nobody]
  /\ queue = <<>>
  /\ pc = [t \in Threads |-> IF t = Accept THEN "accept"
                       ELSE IF t \in Senders THEN "idle" ELSE "none"]
  /\ arg = [t \in {Accept} \cup Senders |-> Nobody]
  /\ rx = [c \in Conns |-> Nobody]
  /\ newest = Nobody
  /\ current = Nobody
  /\ late = [c \in Conns |-> 0]
  /\ eligible = [t \in Senders |-> {}]
  /\ raced = FALSE
  /\ reused = FALSE

-----------------------------------------------------------------------------
(* The clients.                                                            *)

ClientSends(c) ==
  /\ sock[c] = "open"
  /\ c \notin left
  /\ sent' = sent \cup {c}
  /\ UNCHANGED <<sock, left, id, table, owning, partial, queue, pc, arg, rx,
                 history, late, reused>>

ClientLeaves(c) ==
  /\ sock[c] = "open"
  /\ c \notin left
  /\ left' = left \cup {c}
  /\ UNCHANGED <<sock, sent, id, table, owning, partial, queue, pc, arg, rx,
                 history, late, reused>>

-----------------------------------------------------------------------------
(* KickClient and SendBuffer, which any thread may call.                   *)

(* The argument with which t calls KickClient or SendBuffer.               *)
KickedId(t) == IF t = Accept THEN arg[Accept] ELSE id[t]
SendTo(t) == IF t \in Senders THEN arg[t]
             ELSE IF t = Accept THEN id[newest] ELSE id[t]

(* Their argument is gone when they return.                                *)
Forget(t) == [u \in DOMAIN arg |-> IF u = t THEN Nobody ELSE arg[u]]

AfterKick(t) == IF t # Accept THEN "done" ELSE IF Control THEN "uncmd" ELSE "set_id"
AfterSend(t) == IF t \in Senders THEN "idle"
                ELSE IF t = Accept THEN "accept" ELSE "find"

(* Fault: whoever leaves, nobody is in control.                            *)
KickTestAlways(t) ==
  /\ Goto(t, "kick_test", "kick_flag")
  /\ UNCHANGED <<sock, client, id, table, owning, partial, queue, arg, rx,
                 history, late, reused>>

(* OnClientDisconnected: if (id == m_ActiveTCPCommandClientId)             *)
KickTest(t) ==
  /\ Goto(t, "kick_test", IF KickedId(t) = active THEN "kick_flag" ELSE "kick_erase")
  /\ UNCHANGED <<sock, client, id, table, owning, partial, queue, arg, rx,
                 history, late, reused>>

KickFlag(t) ==
  /\ Goto(t, "kick_flag", "kick_id")
  /\ connected' = FALSE
  /\ UNCHANGED <<sock, client, id, table, active, partial, queue, arg, rx,
                 history, late, reused>>

KickId(t) ==
  /\ Goto(t, "kick_id", IF Control THEN "kick_cmds" ELSE "kick_erase")
  /\ active' = Nobody
  /\ UNCHANGED <<sock, client, id, table, connected, partial, queue, arg, rx,
                 history, late, reused>>

(* Fault: what the client had typed stays in m_Cmds.                       *)
KickCmdsForgotten(t) ==
  /\ Goto(t, "kick_cmds", "kick_erase")
  /\ UNCHANGED <<sock, client, id, table, owning, partial, queue, arg, rx,
                 history, late, reused>>

KickCmds(t) ==
  /\ Goto(t, "kick_cmds", "kick_erase")
  /\ partial' = [h \in Handles |-> IF h = KickedId(t) THEN Nobody ELSE partial[h]]
  /\ UNCHANGED <<sock, client, id, table, owning, queue, arg, rx, history,
                 late, reused>>

KickErase(t) ==
  /\ Goto(t, "kick_erase", "kick_close")
  /\ table' = [h \in Handles |-> IF h = KickedId(t) THEN "none" ELSE table[h]]
  /\ UNCHANGED <<sock, client, id, owning, partial, queue, arg, rx, history,
                 late, reused>>

(* Fault: a kicked client is forgotten and its socket stays open.          *)
KickCloseForgotten(t) ==
  /\ Goto(t, "kick_close", AfterKick(t))
  /\ UNCHANGED <<sock, client, id, table, owning, partial, queue, arg, rx,
                 history, late, reused>>

(* CloseSocket(id) closes whatever has that handle now.                    *)
KickClose(t) ==
  /\ Goto(t, "kick_close", AfterKick(t))
  /\ sock' = [c \in Conns |->
                IF c \in OpenAt(KickedId(t)) THEN "closed" ELSE sock[c]]
  /\ sent' = sent \ OpenAt(KickedId(t))
  /\ arg' = Forget(t)
  /\ UNCHANGED <<left, id, table, owning, partial, queue, rx, history, late,
                 reused>>

KickClient(t) ==
  \/ KickTest(t) \/ KickFlag(t) \/ KickId(t) \/ KickCmds(t)
  \/ KickErase(t) \/ KickClose(t)

(* if (id == 0) SendBufferToAll; if (m_Connections.find(id) == end) return;*)
SendFind(t) ==
  /\ Goto(t, "send",
          IF SendTo(t) # Nobody /\ table[SendTo(t)] # "none"
          THEN "send_lookup" ELSE AfterSend(t))
  /\ arg' = IF pc'[t] = "send_lookup" THEN arg ELSE Forget(t)
  /\ UNCHANGED <<sock, client, id, table, owning, partial, queue, rx, history,
                 late, reused>>

(* m_Connections[id] makes a blank entry if another thread has erased the  *)
(* client's since; send() then goes to client.id, which is 0 in a blank one*)
SendLookup(t) ==
  /\ Goto(t, "send_lookup", AfterSend(t))
  /\ table' = [table EXCEPT ![SendTo(t)] = IF @ = "none" THEN "blank" ELSE @]
  /\ arg' = Forget(t)
  /\ UNCHANGED <<sock, client, id, owning, partial, queue, rx, history, late,
                 reused>>

SendBuffer(t) == SendFind(t) \/ SendLookup(t)

-----------------------------------------------------------------------------
(* AcceptConnectionThreadFn and OnClientConnected.                         *)

(* Someone holds h: a handler that has not ended, a sender, the layer.     *)
StillHeld(h) ==
  \/ \E c \in Conns : id[c] = h /\ pc[c] # "done"
  \/ \E t \in Senders : arg[t] = h
  \/ active = h

AcceptConnection(c, h) ==
  /\ Goto(Accept, "accept", "insert")
  /\ sock[c] = "away"
  /\ OpenAt(h) = {}
  /\ sock' = [sock EXCEPT ![c] = "open"]
  /\ id' = [id EXCEPT ![c] = h]
  /\ newest' = c
  /\ reused' = (reused \/ StillHeld(h))
  /\ UNCHANGED <<client, table, owning, partial, queue, arg, rx, current, late>>

Insert ==
  /\ Goto(Accept, "insert", "enqueue")
  /\ table' = [table EXCEPT ![id[newest]] = "client"]
  /\ UNCHANGED <<sock, client, id, owning, partial, queue, arg, rx, history,
                 late, reused>>

EnqueueHandler ==
  /\ pc[Accept] = "enqueue"
  /\ pc' = [pc EXCEPT ![Accept] = "connect", ![newest] = "queued"]
  /\ queue' = Append(queue, newest)
  /\ UNCHANGED <<sock, client, id, table, owning, partial, arg, rx, history,
                 late, reused>>

(* OnClientConnected: if (id == m_ActiveTCPCommandClientId) return;        *)
Connect ==
  /\ Goto(Accept, "connect", IF id[newest] = active THEN "accept" ELSE "test")
  /\ current' = IF id[newest] = active THEN newest ELSE current
  /\ UNCHANGED <<sock, client, id, table, owning, partial, queue, arg, rx,
                 newest, late, reused>>

(* Fault: the client in control is not kicked.                             *)
ConnectTestForgotten ==
  /\ Goto(Accept, "test", "set_id")
  /\ UNCHANGED <<sock, client, id, table, owning, partial, queue, arg, rx,
                 history, late, reused>>

(* if (m_TCPCommandClientConnected)                                        *)
ConnectTest ==
  /\ Goto(Accept, "test", IF connected THEN "victim" ELSE "set_id")
  /\ UNCHANGED <<sock, client, id, table, owning, partial, queue, arg, rx,
                 history, late, reused>>

(* m_Server->KickClient(m_ActiveTCPCommandClientId)                        *)
Victim ==
  /\ Goto(Accept, "victim", "kick_test")
  /\ arg' = [arg EXCEPT ![Accept] = active]
  /\ UNCHANGED <<sock, client, id, table, owning, partial, queue, rx, history,
                 late, reused>>

(* m_Cmds.erase(m_ActiveTCPCommandClientId), an id that the kick has just  *)
(* set to 0.                                                               *)
EraseCmds ==
  /\ Goto(Accept, "uncmd", "set_id")
  /\ partial' = [h \in Handles |-> IF h = active THEN Nobody ELSE partial[h]]
  /\ UNCHANGED <<sock, client, id, table, owning, queue, arg, rx, history,
                 late, reused>>

SetId ==
  /\ Goto(Accept, "set_id", "set_connected")
  /\ active' = id[newest]
  /\ current' = newest
  /\ UNCHANGED <<sock, client, id, table, connected, partial, queue, arg, rx,
                 newest, late, reused>>

SetConnected ==
  /\ Goto(Accept, "set_connected", IF Control THEN "send" ELSE "accept")
  /\ connected' = TRUE
  /\ UNCHANGED <<sock, client, id, table, active, partial, queue, arg, rx,
                 history, late, reused>>

(* The call of the layer, after a connection has been accepted.            *)
OnClientConnected ==
  \/ Connect \/ ConnectTest \/ Victim \/ KickClient(Accept) \/ EraseCmds
  \/ SetId \/ SetConnected \/ SendBuffer(Accept)

AcceptThread == Insert \/ EnqueueHandler \/ OnClientConnected

-----------------------------------------------------------------------------
(* HandleConnectionThreadFn.                                               *)

Running(c) == pc[c] \notin {"none", "queued", "done"}

(* Fault: the handler stays in the queue.                                  *)
HandlerStartsUnpopped(c) ==
  /\ queue # <<>> /\ c = Head(queue)
  /\ Cardinality({d \in Conns : Running(d)}) < Workers
  /\ Goto(c, "queued", "find")
  /\ UNCHANGED <<sock, client, id, table, owning, partial, queue, arg, rx,
                 history, late, reused>>

(* A free worker takes the first handler in the queue (module ThreadPool). *)
HandlerStarts(c) ==
  /\ queue # <<>> /\ c = Head(queue)
  /\ Cardinality({d \in Conns : Running(d)}) < Workers
  /\ Goto(c, "queued", "find")
  /\ queue' = Tail(queue)
  /\ UNCHANGED <<sock, client, id, table, owning, partial, arg, rx, history,
                 late, reused>>

(* if (m_Connections.find(id) == m_Connections.end()) break;               *)
HandlerFind(c) ==
  /\ Goto(c, "find", IF table[id[c]] = "none" THEN "kick_test" ELSE "lookup")
  /\ UNCHANGED <<sock, client, id, table, owning, partial, queue, arg, rx,
                 history, late, reused>>

(* auto& client = m_Connections[id];                                       *)
HandlerLookup(c) ==
  /\ Goto(c, "lookup", "call")
  /\ table' = [table EXCEPT ![id[c]] = IF @ = "none" THEN "blank" ELSE @]
  /\ UNCHANGED <<sock, client, id, owning, partial, queue, arg, rx, history,
                 late, reused>>

(* recv waits on the socket that has the handle when it is called.         *)
HandlerCall(c) ==
  /\ Goto(c, "call", "recv")
  /\ rx' = [rx EXCEPT ![c] = IF OpenAt(id[c]) = {} THEN Nobody
                             ELSE CHOOSE d \in OpenAt(id[c]) : TRUE]
  /\ UNCHANGED <<sock, client, id, table, owning, partial, queue, arg, history,
                 late, reused>>

(* The sockets on which recv does not fail or report the end.              *)
Readable == {d \in Conns : sock[d] = "open" /\ (d \in left => d \in sent)}

(* Fault: after an error the handler ends without KickClient.              *)
RecvFailsSilently(c) ==
  /\ rx[c] \notin Readable
  /\ Goto(c, "recv", "done")
  /\ UNCHANGED <<sock, client, id, table, owning, partial, queue, arg, rx,
                 history, late, reused>>

(* Fault: an error of recv is not told from a message still to come.       *)
RecvErrorIgnored(c) ==
  /\ rx[c] \in left \ sent
  /\ Goto(c, "recv", "kick_test")
  /\ rx' = [rx EXCEPT ![c] = Nobody]
  /\ UNCHANGED <<sock, client, id, table, owning, partial, queue, arg, history,
                 late, reused>>

(* bytes_read < 0, the socket is closed; or 0, the client has left.        *)
RecvFails(c) ==
  /\ rx[c] \notin Readable
  /\ Goto(c, "recv", "kick_test")
  /\ rx' = [rx EXCEPT ![c] = Nobody]
  /\ UNCHANGED <<sock, client, id, table, owning, partial, queue, arg, history,
                 late, reused>>

RecvReturns(c) ==
  /\ rx[c] \in Readable \cap sent
  /\ Goto(c, "recv", IF Control THEN "check" ELSE "exec")
  /\ sent' = sent \ {rx[c]}
  /\ UNCHANGED <<sock, left, id, table, owning, partial, queue, arg, rx,
                 history, late, reused>>

(* Fault: any connected client may command.                                *)
CheckNothing(c) ==
  /\ Goto(c, "check", "exec")
  /\ UNCHANGED <<sock, client, id, table, owning, partial, queue, arg, rx,
                 history, late, reused>>

(* OnCommand: if (id != m_ActiveTCPCommandClientId) the client is told that*)
(* it has no permission.                                                   *)
Check(c) ==
  /\ Goto(c, "check", IF id[c] = active THEN "exec" ELSE "send")
  /\ UNCHANGED <<sock, client, id, table, owning, partial, queue, arg, rx,
                 history, late, reused>>

(* A single character, which is kept.                                      *)
Type(c) ==
  /\ Control
  /\ Goto(c, "exec", "find")
  /\ partial' = [partial EXCEPT ![id[c]] = rx[c]]
  /\ UNCHANGED <<sock, client, id, table, owning, queue, arg, rx, history,
                 late, reused>>

(* A command, or the <CR> that completes one; the response is sent.        *)
Execute(c) ==
  /\ Goto(c, "exec", IF Control THEN "send" ELSE "find")
  /\ partial' = IF Control THEN [partial EXCEPT ![id[c]] = Nobody] ELSE partial
  /\ late' = IF rx[c] \in {current, newest} \/ late[rx[c]] = 2 THEN late
             ELSE [late EXCEPT ![rx[c]] = @ + 1]
  /\ UNCHANGED <<sock, client, id, table, owning, queue, arg, rx, history,
                 reused>>

Handler(c) ==
  \/ HandlerStarts(c) \/ HandlerFind(c) \/ HandlerLookup(c) \/ HandlerCall(c)
  \/ RecvFails(c) \/ RecvReturns(c) \/ Check(c) \/ Type(c) \/ Execute(c)
  \/ SendBuffer(c) \/ KickClient(c)

-----------------------------------------------------------------------------
(* OnScanFrame, OnLabviewFrame and OnStatusChanged.                        *)

SenderTest(t) ==
  /\ connected
  /\ Goto(t, "idle", IF Control THEN "nonzero" ELSE "read")
  /\ UNCHANGED <<sock, client, id, table, owning, partial, queue, arg, rx,
                 history, late, reused>>

(* OnStatusChanged also tests that the active id is not 0.                 *)
SenderNonzero(t) ==
  /\ Goto(t, "nonzero", IF active # Nobody THEN "read" ELSE "idle")
  /\ UNCHANGED <<sock, client, id, table, owning, partial, queue, arg, rx,
                 history, late, reused>>

SenderRead(t) ==
  /\ Goto(t, "read", "send")
  /\ arg' = [arg EXCEPT ![t] = active]
  /\ UNCHANGED <<sock, client, id, table, owning, partial, queue, rx, history,
                 late, reused>>

SenderThread(t) ==
  SenderTest(t) \/ SenderNonzero(t) \/ SenderRead(t) \/ SendBuffer(t)

-----------------------------------------------------------------------------
(* The client in control: its id is the active one and it is connected, or *)
(* about to be.                                                            *)
Owners ==
  IF connected \/ pc[Accept] = "set_connected" THEN OpenAt(active) ELSE {}

Owner == IF Owners = {} THEN Nobody ELSE CHOOSE c \in Owners : TRUE

(* The accept thread is on its way to make the newest client active.       *)
Granting == pc[Accept] \in GrantLabels \cup {"set_connected"}

(* A handler between its test of the active id and the end of what depends *)
(* on it.                                                                  *)
Committed(c) == pc[c] \in {"kick_flag", "kick_id", "kick_cmds", "exec"}

(* The active client changes in two threads, or changes under a handler    *)
(* that has tested it, or the newest client leaves before it is active.    *)
Overlap ==
  \/ Granting /\ \E c \in Conns \ {newest} : Committed(c)
  \/ Granting /\ pc[newest] \in KickLabels \cup {"done"}
  \/ \E c, d \in Conns : c # d /\ Committed(c) /\ Committed(d)

Step ==
  \/ \E c \in Conns : ClientSends(c) \/ ClientLeaves(c) \/ Handler(c)
  \/ \E c \in Conns, h \in Handles : AcceptConnection(c, h)
  \/ AcceptThread
  \/ \E t \in Senders : SenderThread(t)

(* Each step also keeps the record of overlaps and of owners.              *)
Recorded(A) ==
  /\ A
  /\ raced' = (raced \/ Overlap')
  /\ eligible' = [t \in Senders |-> IF pc'[t] = "idle" THEN {}
                                      ELSE eligible[t] \cup Owners']

Next == Recorded(Step)

Spec == Init /\ [][Next]_vars

(* The threads of the server run.  No client is obliged to do anything.    *)
Fairness ==
  /\ WF_vars(Recorded(AcceptThread))
  /\ \A c \in Conns : WF_vars(Recorded(Handler(c)))

FairSpec == Spec /\ Fairness

-----------------------------------------------------------------------------
(* Properties.                                                             *)

FieldTypes ==
  /\ sock \in [Conns -> {"away", "open", "closed"}]
  /\ left \subseteq Conns
  /\ sent \subseteq Conns
  /\ id \in [Conns -> Handles \cup {Nobody}]
  /\ table \in [Handles -> {"none", "client", "blank"}]
  /\ active \in Handles \cup {Nobody}
  /\ connected \in BOOLEAN
  /\ partial \in [Handles -> Conns \cup {Nobody}]
  /\ arg \in [{Accept} \cup Senders -> Handles \cup {Nobody}]
  /\ rx \in [Conns -> Conns \cup {Nobody}]
  /\ {newest, current} \subseteq Conns \cup {Nobody}
  /\ late \in [Conns -> 0 .. 2]

RecordTypes ==
  /\ eligible \in [Senders -> SUBSET Conns]
  /\ raced \in BOOLEAN
  /\ reused \in BOOLEAN

PcTypes ==
  /\ pc \in [Threads -> AcceptLabels \cup HandlerLabels \cup SenderLabels]
  /\ pc[Accept] \in AcceptLabels
  /\ \A c \in Conns : pc[c] \in HandlerLabels
  /\ \A t \in Senders : pc[t] \in SenderLabels

(* Two open sockets never have the same handle.                            *)
HandlesApart ==
  \A c, d \in Conns : sock[c] = "open" /\ sock[d] = "open" /\ id[c] = id[d]
                        => c = d

(* The queue holds the handlers that wait, each once.                      *)
QueueHoldsWaiting ==
  /\ queue \in Seq(Conns)
  /\ \A i, j \in DOMAIN queue : queue[i] = queue[j] => i = j
  /\ \A c \in Conns : pc[c] = "queued" <=> \E i \in DOMAIN queue : queue[i] = c

(* Every variable has its type; open sockets have handles of their own and *)
(* the queue is the waiting handlers (server.cpp 83-104, threads.cpp 26).  *)
TypeOK ==
  FieldTypes /\ RecordTypes /\ PcTypes /\ HandlesApart /\ QueueHoldsWaiting

(* At most one command of a client takes effect after a newer client has   *)
(* been given control: the one that had passed the permission check        *)
(* (server-layer.cpp 293) or, on the binary server, had been received.     *)
AtMostOneLateCommand ==
  reused \/ (raced /\ ~Control) \/ \A c \in Conns : late[c] <= 1

(* An entry of m_Connections that the accept thread made has a handler     *)
(* that will erase it, also when clients are kicked twice and handles are  *)
(* given again (server.cpp 98-104, 120-147, 192-200).                      *)
EveryClientHasHandler ==
  \A h \in Handles : table[h] = "client" =>
    \/ \E c \in Conns : id[c] = h /\ pc[c] \notin {"none", "kick_close", "done"}
    \/ pc[Accept] = "enqueue" /\ id[newest] = h

(* No thread is in the middle of a change of owner.                        *)
Settled ==
  pc[Accept] = "accept" /\ \A c \in Conns : pc[c] \notin KickLabels

(* README.md 52, "Last-one-wins".                                          *)
LastOneWins ==
  Settled /\ newest # Nobody /\ newest \notin left => Owner = newest

(* If changes of owner never overlap and no handle is given while someone  *)
(* holds it, the last client to connect is in control as long as it stays  *)
(* (server-layer.cpp 189-216).                                             *)
LastOneWinsSerially == raced \/ reused \/ LastOneWins

(* ... and no client's command begins with characters that another one has *)
(* typed under the same id (server-layer.cpp 198, 214, 299).               *)
NoInheritedCommand ==
  \A c \in Conns :
    pc[c] = "exec" => raced \/ reused \/ partial[id[c]] \in {Nobody, rx[c]}

(* Control passes from client to client as in Ownership, through every     *)
(* kick, departure and connection that do not overlap.                     *)
Asking == IF pc[Accept] \in GrantLabels THEN newest ELSE Nobody

Passing == INSTANCE Ownership WITH
  Clients <- Conns, owner <- Owner, asking <- Asking, gone <- left,
  granted <- {c \in Conns : sock[c] # "away"} \ {Asking}

ControlIsHandedOver ==
  [][raced' \/ reused' \/ Passing!ONext \/ UNCHANGED Passing!ovars]_vars

(* The clients that a send of t reaches.                                   *)
Reached(t) ==
  {c \in Conns \ left : sock[c] = "open" /\ table[id[c]] = "client"
                          /\ arg[t] \in {Nobody, id[c]}}

Sends(t) == pc[t] = "send_lookup" \/ (pc[t] = "send" /\ arg[t] = Nobody)

(* A frame or a prompt reaches clients that were in control since it was   *)
(* tested that there is one, and nobody else but a client in the middle of *)
(* being accepted: the id 0 that the sender may read after its test is     *)
(* "all clients" to SendBuffer (server-layer.cpp 139-141, 165-168).        *)
NoStrayFrames ==
  \A t \in Senders : Sends(t) =>
    raced \/ reused \/ Reached(t) \subseteq eligible[t] \cup
      (IF pc[Accept] # "accept" THEN {newest} ELSE {})

(* Every connection that was accepted gets its handler, however few the    *)
(* workers: the kicked client's handler ends (server.cpp 104, 147).        *)
AcceptedIsHandled ==
  \A c \in Conns : pc[c] = "queued" ~> (pc[c] # "queued" \/ raced \/ reused)

(* recv keeps the handler until its client sends something or leaves.      *)
Blocked(c) == pc[c] = "recv" /\ rx[c] \in Readable \ sent

(* No handler waits behind handlers that only a client can release: while  *)
(* the accept thread waits for the next connection, a handler is in recv   *)
(* on an open socket only if no other is in the queue, because the queue   *)
(* ends with the newest client's and every other client's socket was       *)
(* closed by a kick (server.cpp 104, 125-147, server-layer.cpp 189-216).   *)
QueueGoesOn ==
  raced \/ reused \/ pc[Accept] # "accept" \/ queue = <<>>
    \/ \A c \in Conns : ~Blocked(c)

(* The handler of a connection that was closed ends, unless its handle has *)
(* been given again before (server.cpp 116-147).                           *)
KickedHandlerEnds ==
  \A c \in Conns : sock[c] = "closed" ~> (pc[c] = "done" \/ reused)

-----------------------------------------------------------------------------
(* Statements of the documentation that the code does not meet.  LastOne-  *)
(* Wins is one.                                                            *)

(* README.md 52, "New connections will kick the existing client!": nothing *)
(* but a newer connection does, as long as the client stays and changes of *)
(* owner do not overlap.                                                   *)
OnlyNewerKicks ==
  raced \/ newest = Nobody \/ newest \in left \/ sock[newest] = "open"

=============================================================================
