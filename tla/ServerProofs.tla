---------------------------- MODULE ServerProofs ----------------------------
(***************************************************************************)
(* Theorems about Server, for any set of connections, handles and senders, *)
(* any number of workers, and both kinds of server: types, the handlers of *)
(* the entries in m_Connections and late commands; then who controls the   *)
(* device, and who waits for a worker, as long as changes of owner do not  *)
(* overlap and no handle is given while someone holds it.                  *)
(***************************************************************************)
EXTENDS Server, TLAPS

(* The connection that the accept thread is busy with is known, and its    *)
(* handler is new until it is enqueued.                                    *)
Incoming ==
  /\ pc[Accept] # "accept" => newest \in Conns
  /\ pc[Accept] \in {"insert", "enqueue"} =>
       pc[newest] = "none" /\ sock[newest] # "away"

AwayIsNew == \A c \in Conns : sock[c] = "away" => pc[c] = "none"

(* The parts of TypeInv that moving a thread may disturb.                  *)
Places ==
  PcTypes /\ HandlesApart /\ QueueHoldsWaiting /\ Incoming /\ AwayIsNew

TypeInv == FieldTypes /\ Places

LEMMA InitTypeInv ==
  ASSUME Init
  PROVE  TypeInv /\ RecordTypes
<1>1. PcTypes
  BY NamesAreDistinct
     DEF Init, PcTypes, Threads, AcceptLabels, HandlerLabels, SenderLabels
<1>2. Incoming /\ AwayIsNew
  BY NamesAreDistinct DEF Init, Incoming, AwayIsNew, Threads
<1>3. HandlesApart
  BY DEF Init, HandlesApart
<1>4. QueueHoldsWaiting
  <2>1. \A c \in Conns : pc[c] # "queued"
    BY NamesAreDistinct DEF Init, Threads
  <2>. QED BY <2>1 DEF Init, QueueHoldsWaiting
<1>5. RecordTypes
  BY DEF Init, RecordTypes
<1>6. FieldTypes
  <2>1. late \in [Conns -> 0 .. 2]
    BY DEF Init
  <2>2. connected \in BOOLEAN /\ active \in Handles \cup {Nobody}
    BY DEF Init
  <2>. QED BY <2>1, <2>2 DEF Init, FieldTypes
<1>. QED BY <1>1, <1>2, <1>3, <1>4, <1>5, <1>6 DEF TypeInv, Places

-----------------------------------------------------------------------------
(* Steps that move a thread to another label.                              *)

Own(t, l) ==
  /\ t = Accept => l \in AcceptLabels
  /\ t \in Conns => l \in HandlerLabels
  /\ t \in Senders => l \in SenderLabels

LEMMA GotoType ==
  ASSUME PcTypes, NEW t \in Threads, NEW from, NEW to, Goto(t, from, to),
         Own(t, to)
  PROVE  PcTypes'
  BY NamesAreDistinct DEF PcTypes, Goto, Own, Threads

(* No socket is opened.                                                    *)
SocketsKept ==
  /\ \A c \in Conns : sock'[c] = sock[c] \/ (sock[c] = "open" /\ sock'[c] = "closed")
  /\ UNCHANGED <<id, queue, newest>>

(* A thread that is in the middle of its work moves on.                    *)
LEMMA MovePlaces ==
  ASSUME Places, SocketsKept,
         NEW t \in Threads, NEW from, NEW to, Goto(t, from, to), Own(t, to),
         from \notin {"none", "queued", "accept"},
         to \notin {"none", "queued", "insert", "enqueue"}
  PROVE  Places'
<1>1. PcTypes'
  BY GotoType DEF Places
<1>2. /\ pc \in [Threads -> AcceptLabels \cup HandlerLabels \cup SenderLabels]
      /\ pc[t] = from
      /\ pc' = [pc EXCEPT ![t] = to]
  BY DEF Places, PcTypes, Goto
<1>3. HandlesApart'
  BY DEF Places, HandlesApart, SocketsKept
<1>4. \A c \in Conns : pc'[c] = "queued" <=> pc[c] = "queued"
  BY <1>2 DEF Threads
<1>5. QueueHoldsWaiting'
  BY <1>4 DEF Places, QueueHoldsWaiting, SocketsKept
<1>6. Incoming' /\ AwayIsNew'
  BY <1>2, NamesAreDistinct DEF Places, Incoming, AwayIsNew, SocketsKept, Threads
<1>. QED BY <1>1, <1>3, <1>5, <1>6 DEF Places

-----------------------------------------------------------------------------
(* KickClient and SendBuffer.                                              *)

LEMMA KickTypeInv ==
  ASSUME TypeInv, NEW t \in Conns \cup {Accept}, KickClient(t)
  PROVE  TypeInv'
<1>1. t \in Threads /\ t \notin Senders /\ (t \in Conns <=> t # Accept)
  BY NamesAreDistinct DEF Threads
<1>2. Own(t, AfterKick(t)) /\ \A l \in KickLabels : Own(t, l)
  BY <1>1 DEF Own, AfterKick, AcceptLabels, GrantLabels, HandlerLabels, KickLabels
<1>3. AfterKick(t) \in {"done", "uncmd", "set_id"}
  BY DEF AfterKick
<1>. USE <1>1, <1>2, <1>3, MovePlaces
     DEF TypeInv, FieldTypes, SocketsKept, client, history, owning, KickLabels
<1>4. CASE KickTest(t)
  <2>1. CASE Goto(t, "kick_test", "kick_flag")  BY <1>4, <2>1 DEF KickTest
  <2>2. CASE Goto(t, "kick_test", "kick_erase") BY <1>4, <2>2 DEF KickTest
  <2>. QED BY <1>4, <2>1, <2>2 DEF KickTest
<1>5. CASE KickFlag(t)  BY <1>5 DEF KickFlag
<1>6. CASE KickId(t)
  <2>1. CASE Goto(t, "kick_id", "kick_cmds")  BY <1>6, <2>1 DEF KickId
  <2>2. CASE Goto(t, "kick_id", "kick_erase") BY <1>6, <2>2 DEF KickId
  <2>. QED BY <1>6, <2>1, <2>2 DEF KickId
<1>7. CASE KickCmds(t)  BY <1>7 DEF KickCmds
<1>8. CASE KickErase(t) BY <1>8 DEF KickErase
<1>9. CASE KickClose(t)
  <2>1. SocketsKept
    BY <1>9 DEF KickClose, OpenAt
  <2>2. FieldTypes'
    BY <1>9 DEF KickClose, Forget, OpenAt
  <2>. QED BY <1>9, <2>1, <2>2 DEF KickClose
<1>. QED BY <1>4, <1>5, <1>6, <1>7, <1>8, <1>9 DEF KickClient

LEMMA SendTypeInv ==
  ASSUME TypeInv, NEW t \in Threads, SendBuffer(t)
  PROVE  TypeInv'
<1>1. /\ Own(t, AfterSend(t))
      /\ Own(t, "send_lookup")
      /\ AfterSend(t) \in {"idle", "accept", "find"}
  BY NamesAreDistinct
     DEF Own, AfterSend, AcceptLabels, HandlerLabels, SenderLabels, Threads
<1>2. Forget(t) \in [{Accept} \cup Senders -> Handles \cup {Nobody}]
  BY DEF TypeInv, FieldTypes, Forget
<1>. USE <1>1, <1>2, MovePlaces
     DEF TypeInv, FieldTypes, SocketsKept, client, history, owning
<1>3. CASE SendFind(t)
  <2>1. CASE Goto(t, "send", "send_lookup") BY <1>3, <2>1 DEF SendFind
  <2>2. CASE Goto(t, "send", AfterSend(t))  BY <1>3, <2>2 DEF SendFind
  <2>. QED BY <1>3, <2>1, <2>2 DEF SendFind
<1>4. CASE SendLookup(t) BY <1>4 DEF SendLookup
<1>. QED BY <1>3, <1>4 DEF SendBuffer

-----------------------------------------------------------------------------
(* The accept thread.                                                      *)

LEMMA AcceptTypeInv ==
  ASSUME TypeInv, NEW c \in Conns, NEW h \in Handles, AcceptConnection(c, h)
  PROVE  TypeInv'
<1>. USE DEF AcceptConnection, TypeInv, Places, client, owning
<1>1. PcTypes'
  BY NamesAreDistinct, GotoType DEF Own, AcceptLabels, GrantLabels, Threads
<1>2. FieldTypes'
  BY DEF FieldTypes
<1>3. HandlesApart'
  BY DEF HandlesApart, FieldTypes, OpenAt
<1>4. \A d \in Conns : pc'[d] = pc[d]
  BY NamesAreDistinct DEF Goto, PcTypes, Threads
<1>5. QueueHoldsWaiting'
  BY <1>4 DEF QueueHoldsWaiting
<1>6. Incoming' /\ AwayIsNew'
  BY <1>4 DEF Incoming, AwayIsNew, FieldTypes
<1>. QED BY <1>1, <1>2, <1>3, <1>5, <1>6

LEMMA InsertTypeInv ==
  ASSUME TypeInv, Insert
  PROVE  TypeInv'
<1>. USE DEF Insert, TypeInv, Places, client, history, owning
<1>1. PcTypes'
  BY NamesAreDistinct, GotoType DEF Own, AcceptLabels, GrantLabels, Threads
<1>2. FieldTypes' /\ HandlesApart'
  BY DEF FieldTypes, HandlesApart
<1>3. \A d \in Conns : pc'[d] = pc[d]
  BY NamesAreDistinct DEF Goto, PcTypes, Threads
<1>4. QueueHoldsWaiting'
  BY <1>3 DEF QueueHoldsWaiting
<1>5. Incoming' /\ AwayIsNew'
  BY <1>3 DEF Incoming, AwayIsNew, Goto
<1>. QED BY <1>1, <1>2, <1>4, <1>5

LEMMA AppendHolds ==
  ASSUME NEW q \in Seq(Conns), NEW e \in Conns,
         \A i, j \in DOMAIN q : q[i] = q[j] => i = j,
         \A i \in DOMAIN q : q[i] # e
  PROVE  /\ Append(q, e) \in Seq(Conns)
         /\ \A i, j \in DOMAIN Append(q, e) :
              Append(q, e)[i] = Append(q, e)[j] => i = j
         /\ \A d \in Conns : (\E i \in DOMAIN Append(q, e) : Append(q, e)[i] = d)
                              <=> d = e \/ \E i \in DOMAIN q : q[i] = d
<1> DEFINE A == Append(q, e)
<1>1. /\ A \in Seq(Conns)
      /\ DOMAIN A = DOMAIN q \cup {Len(q) + 1} /\ Len(q) + 1 \notin DOMAIN q
      /\ A[Len(q) + 1] = e
  OBVIOUS
<1>2. \A i \in DOMAIN q : A[i] = q[i]
  OBVIOUS
<1>. HIDE DEF A
<1>3. \A i, j \in DOMAIN A : A[i] = A[j] => i = j
  BY <1>1, <1>2
<1>4. ASSUME NEW d \in Conns
      PROVE  (\E i \in DOMAIN A : A[i] = d) <=> d = e \/ \E i \in DOMAIN q : q[i] = d
  BY <1>1, <1>2
<1>. QED BY <1>1, <1>3, <1>4 DEF A

LEMMA TailHolds ==
  ASSUME NEW q \in Seq(Conns), q # <<>>,
         \A i, j \in DOMAIN q : q[i] = q[j] => i = j
  PROVE  /\ Tail(q) \in Seq(Conns)
         /\ \A i, j \in DOMAIN Tail(q) : Tail(q)[i] = Tail(q)[j] => i = j
         /\ \A d \in Conns : (\E i \in DOMAIN Tail(q) : Tail(q)[i] = d)
                              <=> d # Head(q) /\ \E i \in DOMAIN q : q[i] = d
<1>1. /\ Tail(q) \in Seq(Conns)
      /\ \A i \in DOMAIN Tail(q) : i + 1 \in DOMAIN q /\ Tail(q)[i] = q[i + 1]
      /\ Head(q) = q[1] /\ 1 \in DOMAIN q
  OBVIOUS
<1>2. \A i \in DOMAIN q : i # 1 => i - 1 \in DOMAIN Tail(q) /\ Tail(q)[i - 1] = q[i]
  OBVIOUS
<1>3. \A i \in DOMAIN Tail(q) : i \in Nat \ {0}
  OBVIOUS
<1>4. ASSUME NEW i \in DOMAIN Tail(q), NEW j \in DOMAIN Tail(q),
             Tail(q)[i] = Tail(q)[j]
      PROVE  i = j
  <2>1. i + 1 = j + 1
    BY <1>1, <1>4
  <2>. QED BY <1>3, <2>1
<1>5. \A i \in DOMAIN Tail(q) : Tail(q)[i] # Head(q)
  <2>1. \A i \in DOMAIN Tail(q) : i + 1 # 1
    BY <1>3
  <2>. QED BY <1>1, <2>1
<1>6. ASSUME NEW d \in Conns, NEW i \in DOMAIN q, q[i] = d, d # Head(q)
      PROVE  \E j \in DOMAIN Tail(q) : Tail(q)[j] = d
  <2>1. i - 1 \in DOMAIN Tail(q) /\ Tail(q)[i - 1] = d
    BY <1>1, <1>2, <1>6
  <2>. QED BY <2>1
<1>7. ASSUME NEW d \in Conns, NEW i \in DOMAIN Tail(q), Tail(q)[i] = d
      PROVE  d # Head(q) /\ \E j \in DOMAIN q : q[j] = d
  BY <1>1, <1>5, <1>7
<1>. QED BY <1>1, <1>4, <1>6, <1>7

LEMMA EnqueueTypeInv ==
  ASSUME TypeInv, EnqueueHandler
  PROVE  TypeInv'
<1>. USE DEF EnqueueHandler, TypeInv, Places, client, history, owning
<1>1. /\ newest \in Conns
      /\ pc[newest] = "none"
      /\ sock[newest] # "away"
  BY DEF Incoming
<1>2. /\ \A d \in Conns : pc'[d] = IF d = newest THEN "queued" ELSE pc[d]
      /\ pc'[Accept] = "connect"
      /\ PcTypes'
  BY <1>1, NamesAreDistinct
     DEF PcTypes, Threads, AcceptLabels, GrantLabels, HandlerLabels
<1>3. FieldTypes' /\ HandlesApart'
  BY DEF FieldTypes, HandlesApart
<1>4. QueueHoldsWaiting'
  <2>1. /\ queue \in Seq(Conns)
        /\ \A i, j \in DOMAIN queue : queue[i] = queue[j] => i = j
        /\ \A i \in DOMAIN queue : queue[i] # newest
    BY <1>1 DEF QueueHoldsWaiting
  <2>2. /\ queue' \in Seq(Conns)
        /\ \A i, j \in DOMAIN queue' : queue'[i] = queue'[j] => i = j
        /\ \A d \in Conns : (\E i \in DOMAIN queue' : queue'[i] = d)
                             <=> d = newest \/ \E i \in DOMAIN queue : queue[i] = d
    BY <1>1, <2>1, AppendHolds
  <2>3. \A d \in Conns : pc[d] = "queued" <=> \E i \in DOMAIN queue : queue[i] = d
    BY DEF QueueHoldsWaiting
  <2>4. \A d \in Conns : pc'[d] = "queued" <=> (d = newest \/ pc[d] = "queued")
    BY <1>2
  <2>5. \A d \in Conns : pc'[d] = "queued" <=> \E i \in DOMAIN queue' : queue'[i] = d
    BY <2>2, <2>3, <2>4
  <2>. QED BY <2>2, <2>5 DEF QueueHoldsWaiting
<1>5. Incoming' /\ AwayIsNew'
  BY <1>1, <1>2 DEF Incoming, AwayIsNew
<1>. QED BY <1>2, <1>3, <1>4, <1>5

LEMMA OnClientConnectedTypeInv ==
  ASSUME TypeInv, OnClientConnected
  PROVE  TypeInv'
<1>1. Accept \in Threads /\ Accept \notin Conns \cup Senders
  BY NamesAreDistinct DEF Threads
<1>2. \A l \in {"accept", "test", "victim", "kick_test", "set_id",
                "set_connected", "send"} : Own(Accept, l)
  BY <1>1 DEF Own, AcceptLabels, GrantLabels, KickLabels
<1>3. pc[Accept] # "accept" => newest \in Conns
  BY DEF TypeInv, Places, Incoming
<1>. USE <1>1, <1>2, <1>3, MovePlaces
     DEF TypeInv, FieldTypes, SocketsKept, client, history, owning
<1>4. CASE Connect
  <2>1. CASE Goto(Accept, "connect", "accept") BY <1>4, <2>1 DEF Connect
  <2>2. CASE Goto(Accept, "connect", "test")   BY <1>4, <2>2 DEF Connect
  <2>. QED BY <1>4, <2>1, <2>2 DEF Connect
<1>5. CASE ConnectTest
  <2>1. CASE Goto(Accept, "test", "victim") BY <1>5, <2>1 DEF ConnectTest
  <2>2. CASE Goto(Accept, "test", "set_id") BY <1>5, <2>2 DEF ConnectTest
  <2>. QED BY <1>5, <2>1, <2>2 DEF ConnectTest
<1>6. CASE Victim    BY <1>6 DEF Victim
<1>7. CASE EraseCmds BY <1>7 DEF EraseCmds
<1>8. CASE SetId     BY <1>8 DEF SetId, Goto
<1>9. CASE SetConnected
  <2>1. CASE Goto(Accept, "set_connected", "send")   BY <1>9, <2>1 DEF SetConnected
  <2>2. CASE Goto(Accept, "set_connected", "accept") BY <1>9, <2>2 DEF SetConnected
  <2>. QED BY <1>9, <2>1, <2>2 DEF SetConnected
<1>. QED
  BY <1>4, <1>5, <1>6, <1>7, <1>8, <1>9, KickTypeInv, SendTypeInv
     DEF OnClientConnected

-----------------------------------------------------------------------------
(* The handlers and the senders.                                           *)

LEMMA HandlerStartsTypeInv ==
  ASSUME TypeInv, NEW c \in Conns, HandlerStarts(c)
  PROVE  TypeInv'
<1>. USE DEF HandlerStarts, TypeInv, Places, client, history, owning
<1>1. PcTypes'
  BY NamesAreDistinct, GotoType DEF Own, HandlerLabels, Threads
<1>2. /\ \A d \in Conns : pc'[d] = IF d = c THEN "find" ELSE pc[d]
      /\ pc'[Accept] = pc[Accept]
      /\ pc[c] = "queued"
  BY NamesAreDistinct DEF Goto, PcTypes, Threads
<1>3. FieldTypes' /\ HandlesApart'
  BY DEF FieldTypes, HandlesApart
<1>4. QueueHoldsWaiting'
  <2>1. /\ queue \in Seq(Conns)
        /\ \A i, j \in DOMAIN queue : queue[i] = queue[j] => i = j
    BY DEF QueueHoldsWaiting
  <2>2. /\ queue' \in Seq(Conns)
        /\ \A i, j \in DOMAIN queue' : queue'[i] = queue'[j] => i = j
        /\ \A d \in Conns : (\E i \in DOMAIN queue' : queue'[i] = d)
                             <=> d # c /\ \E i \in DOMAIN queue : queue[i] = d
    BY <2>1, TailHolds
  <2>. QED BY <1>2, <2>2 DEF QueueHoldsWaiting
<1>5. Incoming' /\ AwayIsNew'
  BY <1>2 DEF Incoming, AwayIsNew
<1>. QED BY <1>1, <1>3, <1>4, <1>5

LEMMA HandlerTypeInv ==
  ASSUME TypeInv, NEW c \in Conns, Handler(c)
  PROVE  TypeInv'
<1>1. c \in Threads /\ c \notin Senders /\ c # Accept
  BY NamesAreDistinct DEF Threads
<1>2. \A l \in {"find", "lookup", "call", "recv", "check", "exec", "send",
                "kick_test"} : Own(c, l)
  BY <1>1 DEF Own, HandlerLabels, KickLabels
<1>. USE <1>1, <1>2, MovePlaces
     DEF TypeInv, FieldTypes, SocketsKept, client, history, owning
<1>3. CASE HandlerFind(c)
  <2>1. CASE Goto(c, "find", "kick_test") BY <1>3, <2>1 DEF HandlerFind
  <2>2. CASE Goto(c, "find", "lookup")    BY <1>3, <2>2 DEF HandlerFind
  <2>. QED BY <1>3, <2>1, <2>2 DEF HandlerFind
<1>4. CASE HandlerLookup(c) BY <1>4 DEF HandlerLookup
<1>5. CASE HandlerCall(c)
  <2>1. rx' \in [Conns -> Conns \cup {Nobody}]
    <3>1. OpenAt(id[c]) # {} => (CHOOSE d \in OpenAt(id[c]) : TRUE) \in Conns
      BY DEF OpenAt
    <3>. QED BY <1>5, <3>1 DEF HandlerCall
  <2>. QED BY <1>5, <2>1 DEF HandlerCall
<1>6. CASE RecvFails(c) BY <1>6 DEF RecvFails
<1>7. CASE RecvReturns(c)
  <2>1. CASE Goto(c, "recv", "check") BY <1>7, <2>1 DEF RecvReturns
  <2>2. CASE Goto(c, "recv", "exec")  BY <1>7, <2>2 DEF RecvReturns
  <2>. QED BY <1>7, <2>1, <2>2 DEF RecvReturns
<1>8. CASE Check(c)
  <2>1. CASE Goto(c, "check", "exec") BY <1>8, <2>1 DEF Check
  <2>2. CASE Goto(c, "check", "send") BY <1>8, <2>2 DEF Check
  <2>. QED BY <1>8, <2>1, <2>2 DEF Check
<1>9. CASE Type(c) BY <1>9 DEF Type
<1>10. CASE Execute(c)
  <2>1. late' \in [Conns -> 0 .. 2]
    <3>1. CASE late' = late
      BY <3>1
    <3>2. CASE late[rx[c]] # 2 /\ late' = [late EXCEPT ![rx[c]] = @ + 1]
      <4>1. rx[c] \in Conns => late[rx[c]] + 1 \in 0 .. 2
        BY <3>2
      <4>. QED BY <3>2, <4>1
    <3>. QED BY <1>10, <3>1, <3>2 DEF Execute
  <2>2. CASE Goto(c, "exec", "send") BY <1>10, <2>1, <2>2 DEF Execute
  <2>3. CASE Goto(c, "exec", "find") BY <1>10, <2>1, <2>3 DEF Execute
  <2>. QED BY <1>10, <2>2, <2>3 DEF Execute
<1>. QED
  BY <1>3, <1>4, <1>5, <1>6, <1>7, <1>8, <1>9, <1>10,
     HandlerStartsTypeInv, KickTypeInv, SendTypeInv
     DEF Handler

LEMMA SenderTypeInv ==
  ASSUME TypeInv, NEW t \in Senders, SenderThread(t)
  PROVE  TypeInv'
<1>1. t \in Threads /\ t \notin Conns /\ t # Accept
  BY NamesAreDistinct DEF Threads
<1>2. \A l \in {"idle", "nonzero", "read", "send"} : Own(t, l)
  BY <1>1 DEF Own, SenderLabels
<1>. USE <1>1, <1>2, MovePlaces
     DEF TypeInv, FieldTypes, SocketsKept, client, history, owning
<1>3. CASE SenderTest(t)
  <2>1. CASE Goto(t, "idle", "nonzero") BY <1>3, <2>1 DEF SenderTest
  <2>2. CASE Goto(t, "idle", "read")    BY <1>3, <2>2 DEF SenderTest
  <2>. QED BY <1>3, <2>1, <2>2 DEF SenderTest
<1>4. CASE SenderNonzero(t)
  <2>1. CASE Goto(t, "nonzero", "read") BY <1>4, <2>1 DEF SenderNonzero
  <2>2. CASE Goto(t, "nonzero", "idle") BY <1>4, <2>2 DEF SenderNonzero
  <2>. QED BY <1>4, <2>1, <2>2 DEF SenderNonzero
<1>5. CASE SenderRead(t) BY <1>5 DEF SenderRead
<1>. QED BY <1>3, <1>4, <1>5, SendTypeInv DEF SenderThread

LEMMA StepTypeInv ==
  ASSUME TypeInv, Step
  PROVE  TypeInv'
<1>1. ASSUME NEW c \in Conns, ClientSends(c) \/ ClientLeaves(c)
      PROVE  TypeInv'
  BY <1>1 DEF ClientSends, ClientLeaves, owning, history, TypeInv, FieldTypes,
     Places, PcTypes, HandlesApart, QueueHoldsWaiting, Incoming, AwayIsNew
<1>. QED
  BY <1>1, AcceptTypeInv, InsertTypeInv, EnqueueTypeInv,
     OnClientConnectedTypeInv, HandlerTypeInv, SenderTypeInv
     DEF Step, AcceptThread

LEMMA NextRecordTypes ==
  ASSUME RecordTypes, Next, reused' \in BOOLEAN
  PROVE  RecordTypes'
<1>1. raced' \in BOOLEAN
  <2>1. (raced \/ Overlap') \in BOOLEAN
    BY DEF RecordTypes
  <2>. QED BY <2>1 DEF Next, Recorded
<1>2. eligible' \in [Senders -> SUBSET Conns]
  <2>1. Owners' \subseteq Conns
    BY DEF Owners, OpenAt
  <2>. QED BY <2>1 DEF Next, Recorded, RecordTypes
<1>. QED BY <1>1, <1>2 DEF RecordTypes

(* reused changes only when a connection is accepted.                      *)
LEMMA StepReused ==
  ASSUME Step
  PROVE  \/ reused' = reused
         \/ \E c \in Conns, h \in Handles :
              AcceptConnection(c, h) /\ reused' = (reused \/ StillHeld(h))
<1>1. ASSUME NEW t, KickClient(t) \/ SendBuffer(t)
      PROVE  reused' = reused
  BY <1>1 DEF KickClient, KickTest, KickFlag, KickId, KickCmds, KickErase,
     KickClose, SendBuffer, SendFind, SendLookup
<1>2. ASSUME AcceptThread
      PROVE  reused' = reused
  BY <1>1, <1>2 DEF AcceptThread, Insert, EnqueueHandler, OnClientConnected,
     Connect, ConnectTest, Victim, EraseCmds, SetId, SetConnected
<1>3. ASSUME NEW c \in Conns, Handler(c) \/ ClientSends(c) \/ ClientLeaves(c)
      PROVE  reused' = reused
  BY <1>1, <1>3 DEF Handler, HandlerStarts, HandlerFind, HandlerLookup,
     HandlerCall, RecvFails, RecvReturns, Check, Type, Execute, ClientSends,
     ClientLeaves
<1>4. ASSUME NEW t \in Senders, SenderThread(t)
      PROVE  reused' = reused
  BY <1>1, <1>4 DEF SenderThread, SenderTest, SenderNonzero, SenderRead
<1>5. ASSUME NEW c \in Conns, NEW h \in Handles, AcceptConnection(c, h)
      PROVE  AcceptConnection(c, h) /\ reused' = (reused \/ StillHeld(h))
  BY <1>5 DEF AcceptConnection
<1>. QED BY <1>2, <1>3, <1>4, <1>5 DEF Step

LEMMA NextTypeInv ==
  ASSUME TypeInv, RecordTypes, [Next]_vars
  PROVE  (TypeInv /\ RecordTypes)'
<1>1. CASE UNCHANGED vars
  BY <1>1 DEF vars, TypeInv, RecordTypes, FieldTypes, Places, PcTypes,
     HandlesApart, QueueHoldsWaiting, Incoming, AwayIsNew
<1>2. CASE Next
  <2>1. Step
    BY <1>2 DEF Next, Recorded
  <2>2. reused' \in BOOLEAN
    <3>1. ASSUME NEW h \in Handles
          PROVE  (reused \/ StillHeld(h)) \in BOOLEAN
      OBVIOUS
    <3>. QED BY <2>1, <3>1, StepReused DEF RecordTypes
  <2>. QED BY <1>2, <2>1, <2>2, StepTypeInv, NextRecordTypes
<1>. QED BY <1>1, <1>2

THEOREM ServerTypeInv == Spec => [](TypeInv /\ RecordTypes)
<1>1. Init => TypeInv /\ RecordTypes
  BY InitTypeInv
<1>2. TypeInv /\ RecordTypes /\ [Next]_vars => (TypeInv /\ RecordTypes)'
  BY NextTypeInv
<1>. QED BY <1>1, <1>2, PTL DEF Spec

(* Type correctness; open sockets have handles of their own, and the queue *)
(* of the pool is the handlers that wait.                                  *)
THEOREM ServerTypeCorrect == Spec => []TypeOK
<1>1. TypeInv /\ RecordTypes => TypeOK
  BY DEF TypeInv, Places, TypeOK
<1>. QED BY <1>1, ServerTypeInv, PTL

-----------------------------------------------------------------------------
(* An entry of m_Connections has a handler that will erase it.             *)

(* A thread that moves on, neither from nor to the labels in question.     *)
LEMMA MoveGuarded ==
  ASSUME TypeInv, EveryClientHasHandler, UNCHANGED <<id, newest>>,
         \A h \in Handles : table'[h] = "client" => table[h] = "client",
         NEW t \in Threads, NEW from, NEW to, Goto(t, from, to),
         from # "enqueue",
         to \notin {"none", "kick_close", "done"}
  PROVE  EveryClientHasHandler'
<1>1. \A c \in Conns : pc'[c] = pc[c] \/ (c = t /\ pc'[c] = to)
  BY DEF TypeInv, Places, PcTypes, Goto, Threads
<1>2. pc[Accept] = "enqueue" => pc'[Accept] = "enqueue"
  BY DEF TypeInv, Places, PcTypes, Goto, Threads
<1>. QED BY <1>1, <1>2 DEF EveryClientHasHandler

LEMMA KickHasHandler ==
  ASSUME TypeInv, EveryClientHasHandler,
         NEW t \in Conns \cup {Accept}, KickClient(t)
  PROVE  EveryClientHasHandler'
<1>1. t \in Threads
  BY DEF Threads
<1>2. \A c \in Conns : c # t => pc'[c] = pc[c]
  BY DEF TypeInv, Places, PcTypes, Goto, Threads, KickClient, KickTest,
     KickFlag, KickId, KickCmds, KickErase, KickClose
<1>3. CASE KickTest(t) \/ KickFlag(t) \/ KickId(t) \/ KickCmds(t)
  <2>1. PICK from \in {"kick_test", "kick_flag", "kick_id", "kick_cmds"},
             to \in {"kick_flag", "kick_id", "kick_cmds", "kick_erase"} :
             Goto(t, from, to)
    BY <1>3 DEF KickTest, KickFlag, KickId, KickCmds, Goto
  <2>2. UNCHANGED <<id, newest, table>>
    BY <1>3 DEF KickTest, KickFlag, KickId, KickCmds, history
  <2>. QED BY <1>1, <2>1, <2>2, MoveGuarded
<1>4. CASE KickErase(t)
  <2>1. /\ UNCHANGED <<id, newest>>
        /\ \A h \in Handles : table'[h] = "client" =>
             table[h] = "client" /\ h # KickedId(t)
        /\ pc[t] = "kick_erase"
    BY <1>4 DEF KickErase, Goto, history, TypeInv, FieldTypes
  <2>2. t = Accept => pc[Accept] # "enqueue"
    BY <2>1
  <2>3. pc[Accept] = "enqueue" => pc'[Accept] = "enqueue"
    BY <1>1, <1>4, <2>1, NamesAreDistinct
       DEF KickErase, Goto, TypeInv, Places, PcTypes, Threads
  <2>4. t # Accept => KickedId(t) = id[t]
    BY DEF KickedId
  <2>. QED BY <1>2, <2>1, <2>3, <2>4, NamesAreDistinct DEF EveryClientHasHandler
<1>5. CASE KickClose(t)
  <2>1. UNCHANGED <<id, newest, table>> /\ pc[t] = "kick_close"
    BY <1>5 DEF KickClose, Goto, history
  <2>2. pc[Accept] = "enqueue" => pc'[Accept] = "enqueue"
    BY <1>1, <1>5, <2>1
       DEF KickClose, Goto, TypeInv, Places, PcTypes, Threads
  <2>. QED BY <1>2, <2>1, <2>2 DEF EveryClientHasHandler
<1>. QED BY <1>3, <1>4, <1>5 DEF KickClient

LEMMA SendHasHandler ==
  ASSUME TypeInv, EveryClientHasHandler, NEW t \in Threads, SendBuffer(t)
  PROVE  EveryClientHasHandler'
<1>1. \E from, to : /\ Goto(t, from, to)
                    /\ from # "enqueue"
                    /\ to \notin {"none", "kick_close", "done"}
  BY DEF SendBuffer, SendFind, SendLookup, AfterSend
<1>2. /\ UNCHANGED <<id, newest>>
      /\ \A h \in Handles : table'[h] = "client" => table[h] = "client"
  BY DEF SendBuffer, SendFind, SendLookup, history, TypeInv, FieldTypes
<1>. QED BY <1>1, <1>2, MoveGuarded

LEMMA AcceptThreadHasHandler ==
  ASSUME TypeInv, EveryClientHasHandler, AcceptThread
  PROVE  EveryClientHasHandler'
<1>1. Accept \in Threads
  BY DEF Threads
<1>2. CASE Insert
  <2>1. /\ pc'[Accept] = "enqueue"
        /\ \A c \in Conns : pc'[c] = pc[c]
        /\ pc[Accept] = "insert"
    BY <1>2, NamesAreDistinct DEF Insert, Goto, TypeInv, Places, PcTypes, Threads
  <2>2. \A h \in Handles : table'[h] = "client" =>
          table[h] = "client" \/ h = id[newest]
    BY <1>2 DEF Insert, TypeInv, FieldTypes
  <2>. QED BY <1>2, <2>1, <2>2 DEF Insert, history, EveryClientHasHandler
<1>3. CASE EnqueueHandler
  <2>1. newest \in Conns
    BY <1>3 DEF EnqueueHandler, TypeInv, Places, Incoming
  <2>2. /\ pc'[newest] = "queued"
        /\ \A c \in Conns : c # newest => pc'[c] = pc[c]
    BY <1>3, <2>1, NamesAreDistinct
       DEF EnqueueHandler, TypeInv, Places, PcTypes, Threads
  <2>. QED BY <1>3, <2>1, <2>2 DEF EnqueueHandler, history, EveryClientHasHandler
<1>4. CASE Connect \/ ConnectTest \/ Victim \/ EraseCmds \/ SetId \/ SetConnected
  <2>1. \E from, to : /\ Goto(Accept, from, to)
                      /\ from # "enqueue"
                      /\ to \notin {"none", "kick_close", "done"}
    BY <1>4 DEF Connect, ConnectTest, Victim, EraseCmds, SetId, SetConnected
  <2>2. UNCHANGED <<id, newest, table>>
    BY <1>4 DEF Connect, ConnectTest, Victim, EraseCmds, SetId, SetConnected,
       history
  <2>. QED BY <1>1, <2>1, <2>2, MoveGuarded
<1>. QED
  BY <1>1, <1>2, <1>3, <1>4, KickHasHandler, SendHasHandler
     DEF AcceptThread, OnClientConnected

LEMMA HandlerHasHandler ==
  ASSUME TypeInv, EveryClientHasHandler, NEW c \in Conns, Handler(c)
  PROVE  EveryClientHasHandler'
<1>1. c \in Threads
  BY DEF Threads
<1>2. CASE KickClient(c) \/ SendBuffer(c)
  BY <1>1, <1>2, KickHasHandler, SendHasHandler
<1>3. CASE ~(KickClient(c) \/ SendBuffer(c))
  <2>1. \E from, to : /\ Goto(c, from, to)
                      /\ from # "enqueue"
                      /\ to \notin {"none", "kick_close", "done"}
    BY <1>3 DEF Handler, HandlerStarts, HandlerFind, HandlerLookup, HandlerCall,
       RecvFails, RecvReturns, Check, Type, Execute
  <2>2. UNCHANGED <<id, newest>>
    BY <1>3 DEF Handler, HandlerStarts, HandlerFind, HandlerLookup, HandlerCall,
       RecvFails, RecvReturns, Check, Type, Execute, history
  <2>3. \A h \in Handles : table'[h] = "client" => table[h] = "client"
    BY <1>3 DEF Handler, HandlerStarts, HandlerFind, HandlerLookup, HandlerCall,
       RecvFails, RecvReturns, Check, Type, Execute, TypeInv, FieldTypes
  <2>. QED BY <1>1, <2>1, <2>2, <2>3, MoveGuarded
<1>. QED BY <1>2, <1>3

LEMMA StepHasHandler ==
  ASSUME TypeInv, EveryClientHasHandler, Step
  PROVE  EveryClientHasHandler'
<1>1. ASSUME NEW c \in Conns, ClientSends(c) \/ ClientLeaves(c)
      PROVE  EveryClientHasHandler'
  BY <1>1 DEF ClientSends, ClientLeaves, history, EveryClientHasHandler
<1>2. ASSUME NEW c \in Conns, NEW h \in Handles, AcceptConnection(c, h)
      PROVE  EveryClientHasHandler'
  <2>1. /\ \A d \in Conns : pc'[d] = pc[d]
        /\ pc[Accept] = "accept"
        /\ pc[c] = "none"
    BY <1>2, NamesAreDistinct
       DEF AcceptConnection, Goto, TypeInv, Places, PcTypes, AwayIsNew, Threads
  <2>2. \A d \in Conns : d # c => id'[d] = id[d]
    BY <1>2 DEF AcceptConnection, TypeInv, FieldTypes
  <2>. QED BY <1>2, <2>1, <2>2 DEF AcceptConnection, EveryClientHasHandler
<1>3. ASSUME NEW t \in Senders, SenderThread(t)
      PROVE  EveryClientHasHandler'
  <2>1. t \in Threads
    BY DEF Threads
  <2>2. CASE SenderTest(t) \/ SenderNonzero(t) \/ SenderRead(t)
    <3>1. \E from, to : /\ Goto(t, from, to)
                        /\ from # "enqueue"
                        /\ to \notin {"none", "kick_close", "done"}
      BY <2>2 DEF SenderTest, SenderNonzero, SenderRead
    <3>2. UNCHANGED <<id, newest, table>>
      BY <2>2 DEF SenderTest, SenderNonzero, SenderRead, history
    <3>. QED BY <2>1, <3>1, <3>2, MoveGuarded
  <2>. QED BY <1>3, <2>1, <2>2, SendHasHandler DEF SenderThread
<1>. QED
  BY <1>1, <1>2, <1>3, AcceptThreadHasHandler, HandlerHasHandler DEF Step

(* Every entry of m_Connections that the accept thread has made has a      *)
(* handler on its way to erase it (server.cpp 98-104, 120-147, 192-200).   *)
THEOREM ClientsHaveHandlers == Spec => []EveryClientHasHandler
<1>1. Init => EveryClientHasHandler
  BY DEF Init, EveryClientHasHandler
<1>2. TypeInv /\ EveryClientHasHandler /\ [Next]_vars => EveryClientHasHandler'
  <2>1. UNCHANGED vars /\ EveryClientHasHandler => EveryClientHasHandler'
    BY DEF vars, EveryClientHasHandler
  <2>. QED BY <2>1, StepHasHandler DEF Next, Recorded
<1>. QED BY <1>1, <1>2, ServerTypeInv, PTL DEF Spec

-----------------------------------------------------------------------------
(* Late commands on the control server.  As long as no handle has been     *)
(* given while someone held it, a handle tells its holder, and so does the *)
(* active id; a client that has executed a late command is not current any *)
(* more and cannot pass the permission check.                              *)

Held(c) == sock[c] # "away" /\ pc[c] # "done"

(* A socket that is not away has a handle, and a handler that has ended    *)
(* has closed it.                                                          *)
Lives ==
  \A c \in Conns :
    /\ sock[c] # "away" => id[c] \in Handles
    /\ pc[c] = "done" => sock[c] # "open"

Apart ==
  /\ \A c, d \in Conns : Held(c) /\ Held(d) /\ id[c] = id[d] => c = d
  /\ \A c \in Conns : Held(c) /\ id[c] = id[newest] => c = newest
  /\ \A c \in Conns : Held(c) /\ id[c] = active => c = current
  /\ \A c \in Conns : rx[c] \in {c, Nobody}

OneLate ==
  Control => \A c \in Conns :
    /\ late[c] <= 1
    /\ late[c] # 0 => /\ c # current /\ c # newest
                      /\ sock[c] # "away" /\ pc[c] # "exec"

LateInv == reused \/ (Apart /\ OneLate)

(* A step that opens no socket, makes nobody active and lets no client     *)
(* execute a late command.                                                 *)
Quiet ==
  /\ \A c \in Conns : sock'[c] = sock[c] \/ (sock[c] = "open" /\ sock'[c] = "closed")
  /\ UNCHANGED <<id, newest, current, late, reused>>
  /\ active' \in {active, Nobody}
  /\ \A c \in Conns :
       /\ pc[c] = "done" => pc'[c] = "done"
       /\ pc'[c] = "done" => pc[c] = "done" \/ sock'[c] # "open"
       /\ Control /\ ~reused /\ pc'[c] = "exec" => pc[c] = "exec" \/ late[c] = 0
       /\ rx'[c] \in {rx[c], Nobody}

LEMMA QuietLate ==
  ASSUME Lives, LateInv, Quiet
  PROVE  (Lives /\ LateInv)'
<1>1. Lives'
  BY DEF Lives, Quiet
<1>2. ASSUME ~reused
      PROVE  Apart' /\ OneLate'
  <2>1. \A c \in Conns : Held(c)' => Held(c)
    BY DEF Held, Quiet
  <2>2. \A c \in Conns : Held(c)' => id[c] # Nobody
    BY <2>1, NamesAreDistinct DEF Lives, Held
  <2>3. Apart'
    BY <1>2, <2>1, <2>2 DEF LateInv, Apart, Quiet
  <2>4. OneLate'
    BY <1>2 DEF LateInv, OneLate, Quiet
  <2>. QED BY <2>3, <2>4
<1>. QED BY <1>1, <1>2 DEF LateInv, Quiet

(* A thread that moves, other than to "done" or into a command.            *)
LEMMA MoveQuiet ==
  ASSUME TypeInv, UNCHANGED <<sock, id, newest, current, late, reused>>,
         active' \in {active, Nobody},
         \A c \in Conns : rx'[c] \in {rx[c], Nobody},
         NEW t \in Threads, NEW from, NEW to, Goto(t, from, to),
         from # "done", to # "done", to = "exec" => ~Control
  PROVE  Quiet
<1>1. \A c \in Conns : pc'[c] = pc[c] \/ (c = t /\ pc'[c] = to /\ pc[c] = from)
  BY DEF TypeInv, Places, PcTypes, Goto, Threads
<1>. QED BY <1>1 DEF Quiet

LEMMA KickQuiet ==
  ASSUME TypeInv, NEW t \in Conns \cup {Accept}, KickClient(t)
  PROVE  Quiet
<1>1. t \in Threads
  BY DEF Threads
<1>2. CASE KickTest(t) \/ KickFlag(t) \/ KickId(t) \/ KickCmds(t) \/ KickErase(t)
  <2>1. \E from, to : Goto(t, from, to) /\ from # "done" /\ to \notin {"done", "exec"}
    BY <1>2 DEF KickTest, KickFlag, KickId, KickCmds, KickErase
  <2>2. /\ UNCHANGED <<sock, id, newest, current, late, reused, rx>>
        /\ active' \in {active, Nobody}
    BY <1>2 DEF KickTest, KickFlag, KickId, KickCmds, KickErase, history, owning
  <2>. QED BY <1>1, <2>1, <2>2, MoveQuiet
<1>3. CASE KickClose(t)
  <2>1. /\ UNCHANGED <<id, newest, current, late, reused, rx, active>>
        /\ \A c \in Conns : sock'[c] = IF c \in OpenAt(KickedId(t)) THEN "closed"
                                                                    ELSE sock[c]
    BY <1>3 DEF KickClose, history, owning
  <2>2. \A c \in Conns : \/ pc'[c] = pc[c]
                         \/ /\ c = t /\ pc[c] = "kick_close"
                            /\ pc'[c] = AfterKick(t)
    BY <1>1, <1>3 DEF KickClose, Goto, TypeInv, Places, PcTypes, Threads
  <2>3. \A c \in Conns : sock'[c] = sock[c] \/ (sock[c] = "open" /\ sock'[c] = "closed")
    BY <2>1 DEF OpenAt
  <2>4. t \in Conns => KickedId(t) = id[t] /\ sock'[t] # "open"
    BY <2>1, NamesAreDistinct DEF KickedId, OpenAt
  <2>5. AfterKick(t) # "exec"
    BY DEF AfterKick
  <2>. QED BY <2>1, <2>2, <2>3, <2>4, <2>5 DEF Quiet
<1>. QED BY <1>2, <1>3 DEF KickClient

LEMMA SendQuiet ==
  ASSUME TypeInv, NEW t \in Threads, SendBuffer(t)
  PROVE  Quiet
<1>1. \E from, to : Goto(t, from, to) /\ from # "done" /\ to \notin {"done", "exec"}
  BY DEF SendBuffer, SendFind, SendLookup, AfterSend
<1>2. UNCHANGED <<sock, id, newest, current, late, reused, rx, active>>
  BY DEF SendBuffer, SendFind, SendLookup, history, owning
<1>. QED BY <1>1, <1>2, MoveQuiet

LEMMA AcceptLate ==
  ASSUME TypeInv, Lives, LateInv,
         NEW c \in Conns, NEW h \in Handles, AcceptConnection(c, h)
  PROVE  (Lives /\ LateInv)'
<1>1. /\ \A d \in Conns : pc'[d] = pc[d]
      /\ pc[c] = "none" /\ sock[c] = "away"
  BY NamesAreDistinct
     DEF AcceptConnection, Goto, TypeInv, Places, PcTypes, AwayIsNew, Threads
<1>2. /\ \A d \in Conns : id'[d] = IF d = c THEN h ELSE id[d]
      /\ \A d \in Conns : sock'[d] = IF d = c THEN "open" ELSE sock[d]
      /\ newest' = c
      /\ UNCHANGED <<active, current, late, rx>>
      /\ reused' = (reused \/ StillHeld(h))
  BY DEF AcceptConnection, TypeInv, FieldTypes, owning
<1>3. Lives'
  BY <1>1, <1>2 DEF Lives
<1>4. ASSUME ~reused, ~StillHeld(h)
      PROVE  Apart' /\ OneLate'
  <2>1. \A d \in Conns : Held(d)' <=> Held(d) \/ d = c
    BY <1>1, <1>2 DEF Held
  <2>2. active # h /\ \A d \in Conns : Held(d) => id[d] # h
    BY <1>4 DEF StillHeld, Held
  <2>3. Apart /\ OneLate
    BY <1>4 DEF LateInv
  <2>4. Apart'
    BY <1>2, <2>1, <2>2, <2>3 DEF Apart
  <2>5. OneLate'
    BY <1>1, <1>2, <2>3 DEF OneLate
  <2>. QED BY <2>4, <2>5
<1>. QED BY <1>2, <1>3, <1>4 DEF LateInv

LEMMA AcceptThreadLate ==
  ASSUME TypeInv, Lives, LateInv, AcceptThread
  PROVE  (Lives /\ LateInv)'
<1>1. Accept \in Threads
  BY DEF Threads
<1>2. CASE KickClient(Accept) \/ SendBuffer(Accept)
  BY <1>1, <1>2, KickQuiet, SendQuiet, QuietLate
<1>3. CASE Insert \/ ConnectTest \/ Victim \/ EraseCmds \/ SetConnected
  <2>1. \E from, to : /\ Goto(Accept, from, to)
                      /\ from # "done" /\ to \notin {"done", "exec"}
    BY <1>3 DEF Insert, ConnectTest, Victim, EraseCmds, SetConnected
  <2>2. UNCHANGED <<sock, id, newest, current, late, reused, rx, active>>
    BY <1>3 DEF Insert, ConnectTest, Victim, EraseCmds, SetConnected, history,
       owning
  <2>. QED BY <1>1, <2>1, <2>2, MoveQuiet, QuietLate
<1>4. CASE EnqueueHandler
  <2>1. newest \in Conns /\ pc[newest] = "none"
    BY <1>4 DEF EnqueueHandler, TypeInv, Places, Incoming
  <2>2. \A c \in Conns : pc'[c] = IF c = newest THEN "queued" ELSE pc[c]
    BY <1>4, <2>1, NamesAreDistinct
       DEF EnqueueHandler, TypeInv, Places, PcTypes, Threads
  <2>3. UNCHANGED <<sock, id, newest, current, late, reused, rx, active>>
    BY <1>4 DEF EnqueueHandler, history, owning
  <2>. QED BY <2>1, <2>2, <2>3, QuietLate DEF Quiet
<1>5. CASE Connect \/ SetId
  <2>1. /\ UNCHANGED <<sock, id, newest, late, reused, rx>>
        /\ \A c \in Conns : pc'[c] = pc[c]
        /\ newest \in Conns
    BY <1>5, NamesAreDistinct
       DEF Connect, SetId, Goto, history, owning, TypeInv, Places, PcTypes,
           Incoming, Threads
  <2>2. \/ UNCHANGED <<active, current>>
        \/ current' = newest /\ active' = id[newest]
    BY <1>5 DEF Connect, SetId, history, owning
  <2>3. Lives'
    BY <2>1 DEF Lives
  <2>4. ASSUME ~reused
        PROVE  Apart' /\ OneLate'
    <3>1. Apart /\ OneLate /\ \A c \in Conns : Held(c)' <=> Held(c)
      BY <2>1, <2>4 DEF LateInv, Held
    <3>. QED BY <2>1, <2>2, <3>1 DEF Apart, OneLate
  <2>. QED BY <2>1, <2>3, <2>4 DEF LateInv
<1>. QED
  BY <1>2, <1>3, <1>4, <1>5 DEF AcceptThread, OnClientConnected

LEMMA HandlerLate ==
  ASSUME TypeInv, Lives, LateInv, NEW c \in Conns, Handler(c)
  PROVE  (Lives /\ LateInv)'
<1>1. c \in Threads
  BY DEF Threads
<1>2. CASE KickClient(c) \/ SendBuffer(c)
  BY <1>1, <1>2, KickQuiet, SendQuiet, QuietLate
<1>3. CASE HandlerStarts(c) \/ HandlerFind(c) \/ HandlerLookup(c) \/ RecvFails(c)
             \/ RecvReturns(c) \/ Type(c)
  <2>1. \E from, to : /\ Goto(c, from, to)
                      /\ from # "done" /\ to # "done" /\ (to = "exec" => ~Control)
    BY <1>3 DEF HandlerStarts, HandlerFind, HandlerLookup, RecvFails,
       RecvReturns, Type
  <2>2. /\ UNCHANGED <<sock, id, newest, current, late, reused, active>>
        /\ \A d \in Conns : rx'[d] \in {rx[d], Nobody}
    BY <1>3 DEF HandlerStarts, HandlerFind, HandlerLookup, RecvFails,
       RecvReturns, Type, history, owning, TypeInv, FieldTypes
  <2>. QED BY <1>1, <2>1, <2>2, MoveQuiet, QuietLate
<1>4. CASE HandlerCall(c)
  <2>1. /\ UNCHANGED <<sock, id, newest, current, late, reused, active>>
        /\ \A d \in Conns : pc'[d] = IF d = c THEN "recv" ELSE pc[d]
        /\ pc[c] = "call"
        /\ \A d \in Conns : d # c => rx'[d] = rx[d]
    BY <1>1, <1>4 DEF HandlerCall, Goto, history, owning, TypeInv, FieldTypes,
       Places, PcTypes, Threads
  <2>2. Lives'
    BY <2>1 DEF Lives
  <2>3. ASSUME ~reused
        PROVE  rx'[c] \in {c, Nobody}
    <3>1. ASSUME NEW d \in OpenAt(id[c])
          PROVE  d = c
      <4>1. Held(d) /\ Held(c) /\ id[d] = id[c] /\ d \in Conns
        BY <2>1 DEF OpenAt, Held, Lives, TypeInv, Places, AwayIsNew
      <4>. QED BY <2>3, <4>1 DEF LateInv, Apart
    <3>2. OpenAt(id[c]) # {} => (CHOOSE d \in OpenAt(id[c]) : TRUE) = c
      BY <3>1
    <3>. QED BY <1>4, <3>2 DEF HandlerCall, TypeInv, FieldTypes
  <2>4. ASSUME ~reused
        PROVE  Apart' /\ OneLate'
    <3>1. Apart /\ OneLate /\ \A d \in Conns : Held(d)' <=> Held(d)
      BY <2>1, <2>4 DEF LateInv, Held
    <3>2. Apart'
      BY <2>1, <2>3, <2>4, <3>1 DEF Apart
    <3>3. OneLate'
      BY <2>1, <3>1 DEF OneLate
    <3>. QED BY <3>2, <3>3
  <2>. QED BY <2>1, <2>2, <2>4 DEF LateInv
<1>5. CASE Check(c)
  <2>1. /\ UNCHANGED <<sock, id, newest, current, late, reused, active, rx>>
        /\ pc[c] = "check"
        /\ \A d \in Conns : d # c => pc'[d] = pc[d]
        /\ pc'[c] = IF id[c] = active THEN "exec" ELSE "send"
    BY <1>1, <1>5 DEF Check, Goto, history, owning, TypeInv, Places, PcTypes,
       Threads
  <2>2. ASSUME Control, ~reused, id[c] = active
        PROVE  late[c] = 0
    <3>1. Held(c)
      BY <2>1 DEF Held, TypeInv, Places, AwayIsNew
    <3>2. c = current
      BY <2>2, <3>1 DEF LateInv, Apart
    <3>. QED BY <2>2, <3>2 DEF LateInv, OneLate
  <2>3. Quiet
    BY <2>1, <2>2 DEF Quiet
  <2>. QED BY <2>3, QuietLate
<1>6. CASE Execute(c)
  <2>1. /\ UNCHANGED <<sock, id, newest, current, reused, active, rx>>
        /\ pc[c] = "exec"
        /\ \A d \in Conns : d # c => pc'[d] = pc[d]
        /\ pc'[c] = IF Control THEN "send" ELSE "find"
    BY <1>1, <1>6 DEF Execute, Goto, history, owning, TypeInv, Places, PcTypes,
       Threads
  <2>2. Lives'
    BY <2>1 DEF Lives
  <2>3. ASSUME ~reused
        PROVE  Apart' /\ OneLate'
    <3>1. Apart /\ OneLate /\ \A d \in Conns : Held(d)' <=> Held(d)
      BY <2>1, <2>3 DEF LateInv, Held
    <3>2. Apart'
      BY <2>1, <3>1 DEF Apart
    <3>3. (Control => late[c] = 0) /\ sock[c] # "away"
      BY <2>1, <3>1 DEF OneLate, TypeInv, Places, AwayIsNew
    <3>4. ASSUME Control
          PROVE  \/ late' = late
                 \/ c \notin {current, newest} /\ late' = [late EXCEPT ![c] = 1]
      <4>1. rx[c] \in {c, Nobody}
        BY <3>1 DEF Apart
      <4>2. CASE rx[c] = c
        <5>1. late' = IF c \in {current, newest} \/ late[c] = 2 THEN late
                      ELSE [late EXCEPT ![c] = late[c] + 1]
          BY <1>6, <4>2 DEF Execute
        <5>2. late[c] + 1 = 1
          BY <3>3, <3>4
        <5>. QED BY <3>3, <3>4, <5>1, <5>2
      <4>3. CASE rx[c] = Nobody
        <5>1. \A n : [late EXCEPT ![Nobody] = n] = late
          BY NamesAreDistinct DEF TypeInv, FieldTypes
        <5>. QED BY <1>6, <4>3, <5>1 DEF Execute
      <4>. QED BY <4>1, <4>2, <4>3
    <3>5. OneLate'
      BY <2>1, <3>1, <3>3, <3>4 DEF OneLate, TypeInv, FieldTypes
    <3>. QED BY <3>2, <3>5
  <2>. QED BY <2>1, <2>2, <2>3 DEF LateInv
<1>. QED BY <1>2, <1>3, <1>4, <1>5, <1>6 DEF Handler

LEMMA StepLate ==
  ASSUME TypeInv, Lives, LateInv, Step
  PROVE  (Lives /\ LateInv)'
<1>1. ASSUME NEW c \in Conns, ClientSends(c) \/ ClientLeaves(c)
      PROVE  (Lives /\ LateInv)'
  BY <1>1, QuietLate DEF ClientSends, ClientLeaves, owning, history, Quiet
<1>2. ASSUME NEW t \in Senders, SenderThread(t)
      PROVE  (Lives /\ LateInv)'
  <2>1. t \in Threads
    BY DEF Threads
  <2>2. CASE SenderTest(t) \/ SenderNonzero(t) \/ SenderRead(t)
    <3>1. \E from, to : Goto(t, from, to) /\ from # "done" /\ to \notin {"done", "exec"}
      BY <2>2 DEF SenderTest, SenderNonzero, SenderRead
    <3>2. UNCHANGED <<sock, id, newest, current, late, reused, rx, active>>
      BY <2>2 DEF SenderTest, SenderNonzero, SenderRead, history, owning
    <3>. QED BY <2>1, <3>1, <3>2, MoveQuiet, QuietLate
  <2>. QED BY <1>2, <2>1, <2>2, SendQuiet, QuietLate DEF SenderThread
<1>. QED
  BY <1>1, <1>2, AcceptLate, AcceptThreadLate, HandlerLate DEF Step

LEMMA ServerLateInv == Spec => [](Lives /\ LateInv)
<1>1. Init => Lives /\ LateInv
  <2>1. ASSUME Init
        PROVE  /\ \A c \in Conns : sock[c] = "away" /\ pc[c] = "none"
               /\ \A c \in Conns : late[c] = 0 /\ rx[c] = Nobody
    BY <2>1, NamesAreDistinct DEF Init, Threads
  <2>. QED BY <2>1 DEF Lives, LateInv, Apart, OneLate, Held
<1>2. TypeInv /\ (Lives /\ LateInv) /\ [Next]_vars => (Lives /\ LateInv)'
  <2>1. UNCHANGED vars /\ Lives /\ LateInv => (Lives /\ LateInv)'
    BY DEF vars, Lives, LateInv, Apart, OneLate, Held
  <2>. QED BY <2>1, StepLate DEF Next, Recorded
<1>. QED BY <1>1, <1>2, ServerTypeInv, PTL DEF Spec

-----------------------------------------------------------------------------
(* Who controls the device.  What is true without overlaps is not a matter *)
(* of one field: the active id, the flag, the table and the sockets are    *)
(* set one after the other by the accept thread and by the handlers, so    *)
(* the invariant says how they agree at every point of a change of owner.  *)

(* The handler has given its client up.                                    *)
Leaving(c) == pc[c] \in KickLabels \cup {"done"}

(* Where the accept thread has not begun to take the active client's place.*)
Untouched ==
  {"accept", "insert", "enqueue", "connect", "test", "victim", "kick_test",
   "send", "send_lookup"}

(* Where it has removed the active client.                                 *)
Removed == {"kick_close", "uncmd", "set_id"}

(* The active id is the current client's, and current is the newest client *)
(* unless the accept thread is making it so.                               *)
Names ==
  /\ newest # Nobody => sock[newest] # "away"
  /\ current # Nobody => sock[current] # "away"
  /\ active # Nobody => current # Nobody /\ active = id[current]
  /\ connected => active # Nobody
  /\ pc[Accept] \notin GrantLabels => current = newest

(* How far the accept thread has come with a change of owner: the client   *)
(* that it kicks is the current one and never the newest, and nobody is    *)
(* active when it is done.                                                 *)
Grants ==
  /\ pc[Accept] \in GrantLabels => active # id[newest]
  /\ pc[Accept] = "set_connected" => active = id[newest]
  /\ pc[Accept] = "victim" => connected
  /\ pc[Accept] \in {"kick_test", "kick_flag", "kick_id"} => active = arg[Accept]
  /\ pc[Accept] \in KickLabels =>
       /\ arg[Accept] # id[newest]
       /\ current # Nobody
       /\ arg[Accept] = id[current] \/ (Leaving(current) /\ current \in left)
  /\ pc[Accept] \in {"kick_cmds", "kick_erase"} \cup Removed => active = Nobody
  /\ pc[Accept] \in {"kick_id", "kick_cmds", "kick_erase"} \cup Removed => ~connected

(* Until then the current client is in control, or its handler is ending.  *)
Serves ==
  /\ pc[Accept] \in Untouched /\ current # Nobody =>
       Leaving(current) \/ (connected /\ active = id[current])
  /\ pc[Accept] \in Untouched /\ ~connected =>
       active = Nobody \/ pc[current] = "kick_id"

(* How far a handler has come that kicks its own client.                   *)
Kicks ==
  \A c \in Conns :
    /\ pc[c] \in {"kick_flag", "kick_id"} => active = id[c]
    /\ pc[c] = "kick_id" => ~connected
    /\ pc[c] \in {"kick_cmds", "kick_erase", "kick_close"} => active # id[c]

(* The newest client, and the current one until the accept thread has      *)
(* removed it, stay connected and in the table until they leave.           *)
Stays(c) ==
  IF Leaving(c) THEN c \in left
  ELSE /\ sock[c] = "open"
       /\ (c # newest \/ pc[Accept] # "insert") => table[id[c]] # "none"

Remains ==
  /\ newest # Nobody => Stays(newest)
  /\ current # Nobody /\ pc[Accept] \notin Removed => Stays(current)

(* Nobody else's socket is open, but of clients that have left.            *)
Opens ==
  \A c \in Conns : sock[c] = "open" /\ c # newest =>
     \/ c = current /\ pc[Accept] \notin {"uncmd", "set_id"}
     \/ Leaving(c) /\ c \in left

Succession == Names /\ Grants /\ Serves /\ Kicks /\ Remains /\ Opens

(* A handler reads from its own client, and executes only what the client  *)
(* in control (the binary server: the newest or the current one) has sent. *)
Receives ==
  \A c \in Conns :
    /\ pc[c] \in {"check", "exec"} => rx[c] = c
    /\ pc[c] = "recv" /\ sock[c] = "open" => rx[c] = c

Executes ==
  \A c \in Conns : pc[c] = "exec" =>
    IF Control THEN active = id[c] ELSE c \in {newest, current}

(* What waits in m_Cmds is the current client's, or about to be erased.    *)
Typed ==
  \A h \in Handles : partial[h] # Nobody =>
    /\ Control
    /\ \/ active = h /\ partial[h] = current
       \/ \E t \in Conns \cup {Accept} : pc[t] = "kick_cmds" /\ KickedId(t) = h

Prompt == ~Control => \A c \in Conns : late[c] = 0

Commanding == Receives /\ Executes /\ Typed /\ Prompt

(* A sender that has found a client connected has seen the current one in  *)
(* control, and whoever holds the id that it has read.                     *)
Sees ==
  \A t \in Senders :
    /\ pc[t] = "send_lookup" => arg[t] # Nobody
    /\ pc[t] # "idle" /\ current # Nobody /\ sock[current] = "open" =>
         current \in eligible[t]
    /\ pc[t] \in {"send", "send_lookup"} /\ arg[t] # Nobody =>
         OpenAt(arg[t]) \subseteq eligible[t]

(* What is known when nothing has overlapped and no handle was reused.     *)
Serial ==
  /\ TypeInv /\ Lives /\ Apart
  /\ Succession /\ Commanding
  /\ ~Overlap

(* A thread that moves, place by place.                                    *)
LEMMA Moved ==
  ASSUME TypeInv, NEW t \in Threads, NEW from, NEW to, Goto(t, from, to)
  PROVE  /\ pc[t] = from
         /\ \A u \in Threads : pc'[u] = IF u = t THEN to ELSE pc[u]
         /\ \A c \in Conns : pc'[c] = IF c = t THEN to ELSE pc[c]
         /\ pc'[Accept] = IF t = Accept THEN to ELSE pc[Accept]
         /\ \A s \in Senders : pc'[s] = IF s = t THEN to ELSE pc[s]
  BY DEF TypeInv, Places, PcTypes, Goto, Threads

-----------------------------------------------------------------------------
(* The handlers.                                                           *)

(* A handler that moves, without a change of sockets or of owner, and      *)
(* begins to leave only if its client has ended or the accept thread has   *)
(* removed it.                                                             *)
LEMMA HandlerSucceeds ==
  ASSUME Serial, ~Overlap',
         NEW c \in Conns, NEW from, NEW to, Goto(c, from, to),
         UNCHANGED <<sock, left, id, active, connected, arg, newest, current>>,
         \A h \in Handles : table'[h] = "none" => table[h] = "none",
         from \notin KickLabels \cup {"done"},
         to \notin (KickLabels \ {"kick_test"}) \cup {"done"},
         to = "kick_test" =>
           \/ c \in left
           \/ c # newest /\ (c = current => pc[Accept] \in Removed)
  PROVE  Succession'
<1>1. /\ pc[c] = from
      /\ \A d \in Conns : pc'[d] = IF d = c THEN to ELSE pc[d]
      /\ pc'[Accept] = pc[Accept]
  BY Moved, NamesAreDistinct DEF Serial, Threads
<1>. USE <1>1 DEF Serial, Succession, KickLabels
<1>2. Names' /\ Opens'
  BY DEF Names, Opens, Leaving
<1>5. Grants'
  BY DEF Grants, Leaving, TypeInv, FieldTypes
<1>6. Serves'
  BY DEF Serves, Leaving, TypeInv, FieldTypes, Names
<1>3. Kicks'
  BY DEF Kicks
<1>4. Remains'
  <2>1. \A d \in {newest, current} \ {Nobody} :
          d \in Conns /\ sock[d] # "away" /\ id[d] \in Handles
    BY NamesAreDistinct DEF Names, Lives, TypeInv, FieldTypes
  <2>. QED BY <2>1 DEF Remains, Stays, Leaving
<1>. QED BY <1>2, <1>3, <1>4, <1>5, <1>6

(* No socket changes hands, nobody becomes active and nothing is typed.    *)
LEMMA HandlerCommands ==
  ASSUME Serial, ~Overlap',
         NEW c \in Conns, NEW from, NEW to, Goto(c, from, to),
         UNCHANGED <<sock, id, active, arg, partial, newest, current, late>>,
         rx' = rx \/ (to = "kick_test" /\ rx' = [rx EXCEPT ![c] = Nobody]),
         from # "kick_cmds",
         to \notin {"recv", "check", "exec"}
  PROVE  Commanding'
<1>1. /\ pc[c] = from
      /\ \A d \in Conns : pc'[d] = IF d = c THEN to ELSE pc[d]
      /\ pc'[Accept] = pc[Accept]
  BY Moved, NamesAreDistinct DEF Serial, Threads
<1>. USE <1>1 DEF Serial, Commanding
<1>2. Receives'
  BY DEF Receives, TypeInv, FieldTypes
<1>3. Executes' /\ Prompt'
  BY DEF Executes, Prompt
<1>4. Typed'
  BY DEF Typed, KickedId
<1>. QED BY <1>2, <1>3, <1>4

LEMMA StartsSerially ==
  ASSUME Serial, ~Overlap', NEW c \in Conns, HandlerStarts(c)
  PROVE  Succession' /\ Commanding'
  BY HandlerSucceeds, HandlerCommands
     DEF HandlerStarts, client, owning, history, KickLabels

LEMMA FindSerially ==
  ASSUME Serial, ~Overlap', NEW c \in Conns, HandlerFind(c)
  PROVE  Succession' /\ Commanding'
<1>1. pc[c] = "find" /\ sock[c] # "away"
  BY DEF HandlerFind, Goto, Serial, TypeInv, Places, AwayIsNew
<1>2. ASSUME table[id[c]] = "none", c \notin left
      PROVE  c # newest /\ (c = current => pc[Accept] \in Removed)
  BY <1>1, <1>2, NamesAreDistinct
     DEF Serial, Succession, Remains, Stays, Leaving, KickLabels, TypeInv,
         Places, Incoming
<1>. QED
  BY <1>1, <1>2, HandlerSucceeds, HandlerCommands
     DEF HandlerFind, client, owning, history, KickLabels

LEMMA LookupSerially ==
  ASSUME Serial, ~Overlap', NEW c \in Conns, HandlerLookup(c)
  PROVE  Succession' /\ Commanding'
<1>1. \A h \in Handles : table'[h] = "none" => table[h] = "none"
  BY DEF HandlerLookup, Serial, TypeInv, FieldTypes
<1>. QED
  BY <1>1, HandlerSucceeds, HandlerCommands
     DEF HandlerLookup, client, owning, history, KickLabels

LEMMA CallSerially ==
  ASSUME Serial, ~Overlap', NEW c \in Conns, HandlerCall(c)
  PROVE  Succession' /\ Commanding'
<1>1. Succession'
  BY HandlerSucceeds DEF HandlerCall, client, owning, history, KickLabels
<1>2. /\ \A d \in Conns : pc'[d] = IF d = c THEN "recv" ELSE pc[d]
      /\ pc'[Accept] = pc[Accept] /\ pc[c] = "call"
      /\ UNCHANGED <<sock, id, active, arg, partial, newest, current, late>>
  BY Moved, NamesAreDistinct DEF HandlerCall, owning, history, Serial, Threads
<1>. USE <1>2 DEF Serial, Commanding
<1>3. sock[c] = "open" => rx'[c] = c
  <2>1. \A d \in OpenAt(id[c]) : Held(d) /\ id[d] = id[c] /\ d \in Conns
    BY DEF OpenAt, Held, Lives
  <2>2. sock[c] = "open" => OpenAt(id[c]) = {c}
    BY <2>1 DEF OpenAt, Apart, Held
  <2>. QED BY <2>2 DEF HandlerCall, TypeInv, FieldTypes
<1>4. Receives'
  BY <1>3 DEF HandlerCall, Receives, TypeInv, FieldTypes
<1>5. Executes' /\ Prompt'
  BY DEF Executes, Prompt
<1>6. Typed'
  BY DEF Typed, KickedId
<1>. QED BY <1>1, <1>4, <1>5, <1>6

LEMMA FailsSerially ==
  ASSUME Serial, ~Overlap', NEW c \in Conns, RecvFails(c)
  PROVE  Succession' /\ Commanding'
<1>1. pc[c] = "recv" /\ (sock[c] = "open" => c \in left)
  BY DEF RecvFails, Goto, Serial, Commanding, Receives, Readable
<1>2. ASSUME sock[c] # "open"
      PROVE  c # newest /\ (c = current => pc[Accept] \in Removed)
  BY <1>1, <1>2, NamesAreDistinct
     DEF Serial, Succession, Remains, Stays, Leaving, KickLabels
<1>. QED
  BY <1>1, <1>2, HandlerSucceeds, HandlerCommands
     DEF RecvFails, client, owning, history, KickLabels

LEMMA ReturnsSerially ==
  ASSUME Serial, ~Overlap', NEW c \in Conns, RecvReturns(c)
  PROVE  Succession' /\ Commanding'
<1>1. Succession'
  BY HandlerSucceeds DEF RecvReturns, owning, history, KickLabels
<1>2. /\ \A d \in Conns : pc'[d] = IF d = c THEN pc'[c] ELSE pc[d]
      /\ pc'[c] = IF Control THEN "check" ELSE "exec"
      /\ pc'[Accept] = pc[Accept] /\ pc[c] = "recv"
      /\ UNCHANGED <<sock, id, active, arg, partial, newest, current, late, rx>>
  BY Moved, NamesAreDistinct DEF RecvReturns, owning, history, Serial, Threads
<1>3. rx[c] = c /\ sock[c] = "open"
  BY NamesAreDistinct DEF RecvReturns, Readable, Serial, Apart
<1>. USE <1>2, <1>3 DEF Serial, Commanding
<1>4. Receives'
  BY DEF Receives
<1>5. Executes'
  BY DEF Executes, Succession, Opens, Leaving, KickLabels
<1>6. Typed' /\ Prompt'
  BY DEF Typed, KickedId, Prompt
<1>. QED BY <1>1, <1>4, <1>5, <1>6

LEMMA CheckSerially ==
  ASSUME Serial, ~Overlap', NEW c \in Conns, Check(c)
  PROVE  Succession' /\ Commanding'
<1>1. Succession'
  BY HandlerSucceeds DEF Check, client, owning, history, KickLabels
<1>2. /\ \A d \in Conns : pc'[d] = IF d = c THEN pc'[c] ELSE pc[d]
      /\ pc'[c] = IF id[c] = active THEN "exec" ELSE "send"
      /\ pc'[Accept] = pc[Accept] /\ pc[c] = "check"
      /\ UNCHANGED <<sock, id, active, arg, partial, newest, current, late, rx>>
  BY Moved, NamesAreDistinct DEF Check, owning, history, Serial, Threads
<1>3. id[c] = active => c = current
  BY <1>2 DEF Serial, Apart, Held, TypeInv, Places, AwayIsNew
<1>. USE <1>2, <1>3 DEF Serial, Commanding
<1>4. Receives' /\ Executes'
  BY DEF Receives, Executes
<1>5. Typed' /\ Prompt'
  BY DEF Typed, KickedId, Prompt
<1>. QED BY <1>1, <1>4, <1>5

LEMMA TypeSerially ==
  ASSUME Serial, ~Overlap', NEW c \in Conns, Type(c)
  PROVE  Succession' /\ Commanding'
<1>1. Succession'
  BY HandlerSucceeds DEF Type, client, owning, history, KickLabels
<1>2. /\ \A d \in Conns : pc'[d] = IF d = c THEN "find" ELSE pc[d]
      /\ pc'[Accept] = pc[Accept] /\ pc[c] = "exec"
      /\ partial' = [partial EXCEPT ![id[c]] = rx[c]]
      /\ Control
      /\ UNCHANGED <<sock, id, active, arg, newest, current, late, rx>>
  BY Moved, NamesAreDistinct DEF Type, owning, history, Serial, Threads
<1>3. active = id[c] /\ c = current /\ rx[c] = c
  BY <1>2
     DEF Serial, Commanding, Receives, Executes, Apart, Held, TypeInv, Places,
         AwayIsNew
<1>. USE <1>2, <1>3 DEF Serial, Commanding
<1>4. Receives' /\ Executes' /\ Prompt'
  BY DEF Receives, Executes, Prompt
<1>5. Typed'
  BY DEF Typed, KickedId, TypeInv, FieldTypes
<1>. QED BY <1>1, <1>4, <1>5

LEMMA ExecuteSerially ==
  ASSUME Serial, ~Overlap', NEW c \in Conns, Execute(c)
  PROVE  Succession' /\ Commanding'
<1>1. Succession'
  BY HandlerSucceeds DEF Execute, client, owning, history, KickLabels
<1>2. /\ \A d \in Conns : pc'[d] = IF d = c THEN pc'[c] ELSE pc[d]
      /\ pc'[c] \in {"send", "find"}
      /\ pc'[Accept] = pc[Accept] /\ pc[c] = "exec"
      /\ UNCHANGED <<sock, id, active, arg, newest, current, rx>>
  BY Moved, NamesAreDistinct DEF Execute, owning, history, Serial, Threads
<1>. USE <1>2 DEF Serial, Commanding
<1>3. Receives' /\ Executes'
  BY DEF Receives, Executes
<1>4. \A h \in Handles : partial'[h] \in {partial[h], Nobody}
  BY DEF Execute, TypeInv, FieldTypes
<1>5. Typed'
  BY <1>4 DEF Typed, KickedId
<1>6. Prompt'
  <2>1. ~Control => rx[c] \in {current, newest}
    BY DEF Receives, Executes
  <2>. QED BY <2>1 DEF Prompt, Execute
<1>. QED BY <1>1, <1>3, <1>5, <1>6

LEMMA HandlerSendsSerially ==
  ASSUME Serial, ~Overlap', NEW c \in Conns, SendBuffer(c)
  PROVE  Succession' /\ Commanding'
<1>1. AfterSend(c) = "find" /\ SendTo(c) = id[c] /\ c \in Threads
  BY NamesAreDistinct DEF AfterSend, SendTo, Threads
<1>2. Forget(c) = arg
  BY NamesAreDistinct DEF Forget, Serial, TypeInv, FieldTypes
<1>3. \A h \in Handles : table'[h] = "none" => table[h] = "none"
  BY DEF SendBuffer, SendFind, SendLookup, Serial, TypeInv, FieldTypes
<1>4. /\ UNCHANGED <<sock, left, id, active, connected, arg, partial, rx, newest, current, late>>
      /\ \E from \in {"send", "send_lookup"}, to \in {"send_lookup", "find"} :
           Goto(c, from, to)
  BY <1>1, <1>2 DEF SendBuffer, SendFind, SendLookup, client, owning, history,
         Goto
<1>. QED BY <1>3, <1>4, HandlerSucceeds, HandlerCommands DEF KickLabels

-----------------------------------------------------------------------------
(* KickClient by the handler of a connection.                              *)

LEMMA TestSerially ==
  ASSUME Serial, ~Overlap', NEW c \in Conns, KickTest(c)
  PROVE  Succession' /\ Commanding'
<1>1. /\ \A d \in Conns : pc'[d] = IF d = c THEN pc'[c] ELSE pc[d]
      /\ pc'[c] = IF id[c] = active THEN "kick_flag" ELSE "kick_erase"
      /\ pc'[Accept] = pc[Accept] /\ pc[c] = "kick_test"
      /\ UNCHANGED <<sock, left, id, table, active, connected, arg, partial,
                     newest, current, late, rx>>
  BY Moved, NamesAreDistinct
     DEF KickTest, KickedId, client, owning, history, Serial, Threads
<1>. USE <1>1 DEF Serial, Succession, Commanding, KickLabels
<1>2. Names' /\ Kicks' /\ Opens'
  BY DEF Names, Kicks, Opens, Leaving
<1>3. Grants' /\ Serves'
  BY DEF Grants, Serves, Leaving, TypeInv, FieldTypes, Names
<1>4. Remains'
  BY DEF Remains, Stays, Leaving, TypeInv, FieldTypes
<1>5. Receives' /\ Executes' /\ Typed' /\ Prompt'
  BY DEF Receives, Executes, Typed, KickedId, Prompt
<1>. QED BY <1>2, <1>3, <1>4, <1>5

(* A handler that takes control away from its own client: the client is    *)
(* the last one, it has ended, and nobody else is about to follow it.      *)
LEMMA ReleaserIsNewest ==
  ASSUME Serial, NEW c \in Conns, pc[c] \in {"kick_flag", "kick_id", "kick_cmds"}
  PROVE  /\ ~Granting
         /\ pc[c] # "kick_cmds" => c = newest /\ c = current /\ c \in left
<1>1. ~Granting
  BY NamesAreDistinct
     DEF Serial, Overlap, Committed, Granting, Succession, Names, KickLabels
<1>2. pc[c] # "kick_cmds" => c = current
  BY DEF Serial, Succession, Kicks, Apart, Held, TypeInv, Places, AwayIsNew
<1>. QED
  BY <1>1, <1>2, NamesAreDistinct
     DEF Granting, Serial, Succession, Names, Remains, Stays, Leaving,
         KickLabels

LEMMA FlagSerially ==
  ASSUME Serial, ~Overlap', NEW c \in Conns, KickFlag(c)
  PROVE  Succession' /\ Commanding'
<1>1. /\ \A d \in Conns : pc'[d] = IF d = c THEN "kick_id" ELSE pc[d]
      /\ pc'[Accept] = pc[Accept] /\ pc[c] = "kick_flag"
      /\ connected' = FALSE
      /\ UNCHANGED <<sock, left, id, table, active, arg, partial, newest,
                     current, late, rx>>
  BY Moved, NamesAreDistinct DEF KickFlag, client, history, Serial, Threads
<1>2. ~Granting /\ c = newest /\ c = current
  BY <1>1, ReleaserIsNewest
<1>. USE <1>1, <1>2 DEF Serial, Succession, Commanding, KickLabels
<1>3. Names' /\ Grants' /\ Kicks' /\ Opens'
  BY DEF Names, Grants, Granting, GrantLabels, Removed, Kicks, Opens, Leaving
<1>4. Serves' /\ Remains'
  BY DEF Serves, Remains, Stays, Leaving
<1>5. Receives' /\ Executes' /\ Typed' /\ Prompt'
  BY DEF Receives, Executes, Typed, KickedId, Prompt
<1>. QED BY <1>3, <1>4, <1>5

LEMMA IdSerially ==
  ASSUME Serial, ~Overlap', NEW c \in Conns, KickId(c)
  PROVE  Succession' /\ Commanding'
<1>1. /\ \A d \in Conns : pc'[d] = IF d = c THEN pc'[c] ELSE pc[d]
      /\ pc'[c] = IF Control THEN "kick_cmds" ELSE "kick_erase"
      /\ pc'[Accept] = pc[Accept] /\ pc[c] = "kick_id"
      /\ active' = Nobody
      /\ UNCHANGED <<sock, left, id, table, connected, arg, partial, newest,
                     current, late, rx>>
  BY Moved, NamesAreDistinct DEF KickId, client, history, Serial, Threads
<1>2. ~Granting /\ c = newest /\ c = current
  BY <1>1, ReleaserIsNewest
<1>3. active = id[c] /\ ~connected
  BY <1>1 DEF Serial, Succession, Kicks
<1>4. sock[c] # "away" /\ id[c] # Nobody
  BY <1>1, NamesAreDistinct DEF Serial, TypeInv, Places, AwayIsNew, Lives
<1>5. \A d \in Conns : d # c => pc[d] \notin {"kick_flag", "kick_id", "kick_cmds", "exec"}
  BY <1>1 DEF Serial, Overlap, Committed
<1>. USE <1>1, <1>2, <1>3, <1>4, <1>5 DEF Serial, Succession, Commanding, KickLabels
<1>6. Names' /\ Grants' /\ Opens'
  BY DEF Names, Grants, Granting, GrantLabels, Removed, Opens, Leaving
<1>7. Kicks'
  BY NamesAreDistinct DEF Kicks, Lives, TypeInv, Places, AwayIsNew
<1>8. Serves' /\ Remains'
  BY DEF Serves, Remains, Stays, Leaving
<1>9. Receives' /\ Executes' /\ Prompt'
  BY DEF Receives, Executes, Prompt
<1>10. Typed'
  <2>1. ASSUME NEW h \in Handles, partial[h] # Nobody
        PROVE  pc'[c] = "kick_cmds" /\ KickedId(c)' = h
    BY <2>1, NamesAreDistinct DEF Typed, KickedId, Granting, GrantLabels,
           KickLabels
  <2>. QED BY <2>1 DEF Typed
<1>. QED BY <1>6, <1>7, <1>8, <1>9, <1>10

(* The rest of KickClient, when its client is not in control any more.     *)
LEMMA LeaverSucceeds ==
  ASSUME Serial, ~Overlap', NEW c \in Conns, NEW from, NEW to, Goto(c, from, to),
         from \in {"kick_cmds", "kick_erase", "kick_close"},
         to \in {"kick_erase", "kick_close", "done"},
         UNCHANGED <<left, id, active, connected, arg, newest, current, late,
         rx>>,
         \A h \in Handles : h # id[c] => table'[h] = table[h],
         \A d \in Conns : d # c => sock'[d] = sock[d],
         sock'[c] = sock[c] \/ (sock[c] = "open" /\ sock'[c] = "closed"),
         from # "kick_cmds" => partial' = partial
  PROVE  Succession' /\ Receives' /\ Executes' /\ Prompt'
           /\ (from # "kick_cmds" => Typed')
<1>1. /\ \A d \in Conns : pc'[d] = IF d = c THEN to ELSE pc[d]
      /\ pc'[Accept] = pc[Accept]
      /\ pc[c] = from
  BY Moved, NamesAreDistinct DEF Serial, Threads
<1>2. Held(c)
  BY <1>1 DEF Held, Serial, TypeInv, Places, AwayIsNew
<1>. USE <1>2, <1>1 DEF Serial, Succession, Commanding, KickLabels
<1>3. Kicks' /\ Opens'
  BY DEF Kicks, Opens, Leaving
<1>4. Names' /\ Grants' /\ Serves'
  BY DEF Grants, Serves, Leaving, TypeInv, FieldTypes, Names
<1>5. Remains'
  <2>1. ASSUME NEW d \in Conns, sock[d] # "away", d # c
        PROVE  Stays(d) => Stays(d)'
    <3>1. Held(d) => id[d] # id[c]
      BY <2>1 DEF Apart
    <3>. QED BY <2>1, <3>1 DEF Stays, Leaving, Held, Lives
  <2>2. Stays(c) => Stays(c)'
    BY DEF Stays, Leaving
  <2>. QED BY <2>1, <2>2 DEF Remains, Names, TypeInv, FieldTypes
<1>6. Receives' /\ Executes' /\ Prompt'
  BY DEF Receives, Executes, Prompt
<1>7. from # "kick_cmds" => Typed'
  BY DEF Typed, KickedId
<1>. QED BY <1>3, <1>4, <1>5, <1>6, <1>7

LEMMA LeavesSerially ==
  ASSUME Serial, ~Overlap', NEW c \in Conns,
         KickCmds(c) \/ KickErase(c) \/ KickClose(c)
  PROVE  Succession' /\ Commanding'
<1>1. KickedId(c) = id[c] /\ AfterKick(c) = "done"
  BY NamesAreDistinct DEF KickedId, AfterKick
<1>2. CASE KickCmds(c)
  <2>1. Succession' /\ Receives' /\ Executes' /\ Prompt'
    BY <1>2, LeaverSucceeds DEF KickCmds, Goto, client, owning, history
  <2>2. /\ \A d \in Conns : pc'[d] = IF d = c THEN "kick_erase" ELSE pc[d]
        /\ pc'[Accept] = pc[Accept] /\ pc[c] = "kick_cmds"
        /\ UNCHANGED <<id, active, arg, current>>
        /\ \A h \in Handles : partial'[h] = IF h = id[c] THEN Nobody ELSE partial[h]
    BY <1>1, <1>2, Moved, NamesAreDistinct
       DEF KickCmds, owning, history, Serial, Threads
  <2>3. Typed'
    BY <2>2, NamesAreDistinct DEF Serial, Commanding, Typed, KickedId
  <2>. QED BY <2>1, <2>3 DEF Commanding
<1>3. CASE KickErase(c)
  BY <1>1, <1>3, LeaverSucceeds
     DEF KickErase, Goto, client, owning, history, Commanding, Serial, TypeInv,
         FieldTypes
<1>4. CASE KickClose(c)
  <2>1. pc[c] = "kick_close" /\ Held(c)
    BY <1>4 DEF KickClose, Goto, Held, Serial, TypeInv, Places, AwayIsNew
  <2>2. OpenAt(id[c]) \subseteq {c}
    BY <2>1 DEF OpenAt, Held, Serial, Lives, Apart
  <2>3. Forget(c) = arg
    BY NamesAreDistinct DEF Forget, Serial, TypeInv, FieldTypes
  <2>4. /\ \A d \in Conns : d # c => sock'[d] = sock[d]
        /\ sock'[c] = sock[c] \/ (sock[c] = "open" /\ sock'[c] = "closed")
    BY <1>1, <1>4, <2>2 DEF KickClose, OpenAt
  <2>5. /\ Goto(c, "kick_close", "done")
        /\ UNCHANGED <<left, id, table, active, connected, arg, partial, newest,
                       current, late, rx>>
    BY <1>1, <1>4, <2>3 DEF KickClose, owning, history
  <2>. QED BY <2>4, <2>5, LeaverSucceeds DEF Commanding
<1>. QED BY <1>2, <1>3, <1>4

LEMMA HandlerSerially ==
  ASSUME Serial, ~Overlap', NEW c \in Conns, Handler(c)
  PROVE  Succession' /\ Commanding'
  BY StartsSerially, FindSerially, LookupSerially, CallSerially, FailsSerially,
     ReturnsSerially, CheckSerially, TypeSerially, ExecuteSerially,
     HandlerSendsSerially, TestSerially, FlagSerially, IdSerially,
     LeavesSerially
     DEF Handler, KickClient

-----------------------------------------------------------------------------
(* The accept thread.                                                      *)

LEMMA AcceptSerially ==
  ASSUME Serial, ~Overlap', NEW c \in Conns, NEW h \in Handles,
         AcceptConnection(c, h), ~StillHeld(h)
  PROVE  Succession' /\ Commanding'
<1>1. /\ \A d \in Conns : pc'[d] = pc[d]
      /\ pc'[Accept] = "insert" /\ pc[Accept] = "accept"
      /\ pc[c] = "none" /\ sock[c] = "away"
      /\ \A d \in Conns : sock'[d] = IF d = c THEN "open" ELSE sock[d]
      /\ \A d \in Conns : id'[d] = IF d = c THEN h ELSE id[d]
      /\ newest' = c
      /\ UNCHANGED <<left, table, active, connected, arg, partial, current, late, rx>>
  BY Moved, NamesAreDistinct
     DEF AcceptConnection, client, owning, Serial, Threads, TypeInv, FieldTypes,
         Places, AwayIsNew
<1>2. active # h /\ \A d \in Conns : Held(d) => id[d] # h
  BY DEF StillHeld, Held
<1>3. current = newest /\ current # c
  BY <1>1, NamesAreDistinct DEF Serial, Succession, Names, GrantLabels,
         KickLabels
<1>. USE <1>1, <1>2, <1>3 DEF Serial, Succession, Commanding, KickLabels, GrantLabels
<1>4. Names'
  BY NamesAreDistinct DEF Names, TypeInv, FieldTypes
<1>5. Grants'
  BY DEF Grants, Removed
<1>6. Serves'
  BY DEF Serves, Names, Leaving, Untouched, TypeInv, FieldTypes
<1>7. Kicks'
  BY DEF Kicks
<1>8. Remains'
  <2>1. Stays(c)'
    BY DEF Stays, Leaving
  <2>2. current # Nobody => Stays(current)'
    BY DEF Remains, Stays, Leaving, Removed, TypeInv, FieldTypes, Names
  <2>. QED BY <2>1, <2>2 DEF Remains
<1>9. Opens'
  BY DEF Opens, Leaving
<1>10. Receives' /\ Executes' /\ Prompt'
  BY DEF Receives, Executes, Prompt
<1>11. Typed'
  BY NamesAreDistinct DEF Typed, KickedId
<1>. QED BY <1>4, <1>5, <1>6, <1>7, <1>8, <1>9, <1>10, <1>11

(* The accept thread moves; no socket and no owner changes.                *)
LEMMA AcceptCommands ==
  ASSUME Serial, ~Overlap', NEW from, NEW to, Goto(Accept, from, to),
         UNCHANGED <<sock, id, active, partial, newest, current, late, rx>>,
         from # "kick_cmds"
  PROVE  Commanding'
<1>1. /\ \A d \in Conns : pc'[d] = pc[d]
      /\ pc[Accept] = from
  BY Moved, NamesAreDistinct DEF Serial, Threads
<1>. USE <1>1 DEF Serial, Commanding
<1>2. Receives' /\ Executes' /\ Prompt'
  BY DEF Receives, Executes, Prompt
<1>3. Typed'
  BY NamesAreDistinct DEF Typed, KickedId
<1>. QED BY <1>2, <1>3

LEMMA InsertSerially ==
  ASSUME Serial, ~Overlap', Insert
  PROVE  Succession' /\ Commanding'
<1>1. Commanding'
  BY AcceptCommands DEF Insert, owning, history
<1>2. /\ \A d \in Conns : pc'[d] = pc[d]
      /\ pc'[Accept] = "enqueue" /\ pc[Accept] = "insert"
      /\ \A h \in Handles : table'[h] = IF h = id[newest] THEN "client" ELSE table[h]
      /\ UNCHANGED <<sock, left, id, active, connected, arg, newest, current>>
  BY Moved, NamesAreDistinct
     DEF Insert, client, owning, history, Serial, Threads, TypeInv, FieldTypes
<1>. USE <1>1, <1>2 DEF Serial, Succession, KickLabels, GrantLabels
<1>3. Names' /\ Grants' /\ Kicks'
  BY DEF Names, Grants, Kicks, Removed
<1>4. Serves' /\ Opens'
  BY DEF Serves, Opens, Names, Leaving, Untouched, TypeInv, FieldTypes
<1>5. Remains'
  BY DEF Remains, Stays, Leaving, Removed, TypeInv, FieldTypes, Names, Lives
<1>. QED BY <1>1, <1>3, <1>4, <1>5

LEMMA EnqueueSerially ==
  ASSUME Serial, ~Overlap', EnqueueHandler
  PROVE  Succession' /\ Commanding'
<1>1. newest \in Conns /\ pc[newest] = "none"
  BY DEF EnqueueHandler, Serial, TypeInv, Places, Incoming
<1>2. /\ \A d \in Conns : pc'[d] = IF d = newest THEN "queued" ELSE pc[d]
      /\ pc'[Accept] = "connect" /\ pc[Accept] = "enqueue"
      /\ UNCHANGED <<sock, left, id, table, active, connected, arg, partial,
                     newest, current, late, rx>>
  BY <1>1, NamesAreDistinct
     DEF EnqueueHandler, client, owning, history, Serial, Threads, TypeInv,
         Places, PcTypes
<1>. USE <1>1, <1>2 DEF Serial, Succession, Commanding, KickLabels, GrantLabels
<1>3. Names' /\ Grants' /\ Kicks'
  BY DEF Names, Grants, Kicks, Removed
<1>4. Serves' /\ Opens'
  BY DEF Serves, Opens, Names, Leaving, Untouched, TypeInv, FieldTypes
<1>5. Remains'
  BY DEF Remains, Stays, Leaving, Removed, TypeInv, FieldTypes, Names, Lives
<1>6. Receives' /\ Executes' /\ Prompt'
  BY DEF Receives, Executes, Prompt
<1>7. Typed'
  BY NamesAreDistinct DEF Typed, KickedId
<1>. QED BY <1>3, <1>4, <1>5, <1>6, <1>7

(* The newest client is never in control already.                          *)
LEMMA ConnectSerially ==
  ASSUME Serial, ~Overlap', Connect
  PROVE  Succession' /\ Commanding'
<1>1. pc[Accept] = "connect" /\ id[newest] # active
  BY DEF Connect, Goto, Serial, Succession, Grants, GrantLabels
<1>2. Commanding'
  BY <1>1, AcceptCommands DEF Connect, owning, history
<1>3. /\ \A d \in Conns : pc'[d] = pc[d]
      /\ pc'[Accept] = "test"
      /\ UNCHANGED <<sock, left, id, table, active, connected, arg, newest, current>>
  BY <1>1, Moved, NamesAreDistinct
     DEF Connect, client, owning, history, Serial, Threads
<1>. USE <1>1, <1>3 DEF Serial, Succession, KickLabels, GrantLabels
<1>4. Names' /\ Grants' /\ Kicks'
  BY DEF Names, Grants, Kicks, Removed
<1>5. Serves' /\ Opens'
  BY DEF Serves, Opens, Names, Leaving, Untouched, TypeInv, FieldTypes
<1>6. Remains'
  BY DEF Remains, Stays, Leaving, Removed, TypeInv, FieldTypes, Names, Lives
<1>. QED BY <1>2, <1>4, <1>5, <1>6

(* Nobody is in control if nobody is connected, and the client that was    *)
(* has ended.                                                              *)
LEMMA ConnectTestSerially ==
  ASSUME Serial, ~Overlap', ConnectTest
  PROVE  Succession' /\ Commanding'
<1>1. Commanding'
  BY AcceptCommands DEF ConnectTest, owning, history
<1>2. /\ \A d \in Conns : pc'[d] = pc[d]
      /\ pc'[Accept] = IF connected THEN "victim" ELSE "set_id"
      /\ pc[Accept] = "test"
      /\ UNCHANGED <<sock, left, id, table, active, connected, arg, newest, current>>
  BY Moved, NamesAreDistinct
     DEF ConnectTest, client, owning, history, Serial, Threads
<1>. USE <1>2 DEF Serial, Succession, KickLabels, GrantLabels
<1>3. ASSUME ~connected
      PROVE  active = Nobody /\ (current # Nobody => Leaving(current) /\ current \in left)
  <2>1. \A c \in Conns : pc[c] # "kick_id"
    BY DEF Overlap, Granting, Committed
  <2>2. active = Nobody
    BY <1>3, <2>1 DEF Serves, Untouched, Names, TypeInv, FieldTypes
  <2>3. current # Nobody => Leaving(current)
    BY <1>3 DEF Serves, Untouched
  <2>. QED BY <2>2, <2>3 DEF Remains, Removed, Stays
<1>4. Names' /\ Kicks'
  BY DEF Names, Kicks
<1>5. Grants'
  BY <1>3 DEF Grants, Removed
<1>6. Serves'
  BY DEF Serves, Names, Leaving, Untouched, TypeInv, FieldTypes
<1>7. Remains'
  BY DEF Remains, Stays, Leaving, Removed, TypeInv, FieldTypes, Names, Lives
<1>8. Opens'
  BY <1>3, NamesAreDistinct DEF Opens, Leaving
<1>. QED BY <1>1, <1>4, <1>5, <1>6, <1>7, <1>8

LEMMA VictimSerially ==
  ASSUME Serial, ~Overlap', Victim
  PROVE  Succession' /\ Commanding'
<1>1. Commanding'
  BY AcceptCommands DEF Victim, owning, history
<1>2. /\ \A d \in Conns : pc'[d] = pc[d]
      /\ pc'[Accept] = "kick_test" /\ pc[Accept] = "victim"
      /\ arg'[Accept] = active
      /\ UNCHANGED <<sock, left, id, table, active, connected, newest, current>>
  BY Moved, NamesAreDistinct
     DEF Victim, client, owning, history, Serial, Threads, TypeInv, FieldTypes
<1>. USE <1>2 DEF Serial, Succession, KickLabels, GrantLabels
<1>3. Names' /\ Kicks'
  BY DEF Names, Kicks
<1>4. Grants'
  <2>1. connected /\ active # Nobody /\ current # Nobody
    BY DEF Grants, Names
  <2>2. active = id[current] \/ (Leaving(current) /\ current \in left)
    BY <2>1 DEF Names
  <2>3. active = id[current] \/ (Leaving(current)' /\ current \in left)
    BY <2>1, <2>2 DEF Leaving, TypeInv, FieldTypes
  <2>. QED BY <2>1, <2>3 DEF Grants, Removed
<1>5. Serves' /\ Opens'
  BY DEF Serves, Opens, Names, Leaving, Untouched, TypeInv, FieldTypes
<1>6. Remains'
  BY DEF Remains, Stays, Leaving, Removed, TypeInv, FieldTypes, Names, Lives
<1>. QED BY <1>1, <1>3, <1>4, <1>5, <1>6

(* The accept thread removes the client in control.                        *)
LEMMA AcceptTestSerially ==
  ASSUME Serial, ~Overlap', KickTest(Accept)
  PROVE  Succession' /\ Commanding'
<1>1. Commanding'
  BY AcceptCommands DEF KickTest, owning, history
<1>2. pc[Accept] = "kick_test" /\ KickedId(Accept) = active
  BY DEF KickTest, Goto, KickedId, Serial, Succession, Grants
<1>3. /\ \A d \in Conns : pc'[d] = pc[d]
      /\ pc'[Accept] = "kick_flag"
      /\ UNCHANGED <<sock, left, id, table, active, connected, arg, newest, current>>
  BY <1>2, Moved, NamesAreDistinct
     DEF KickTest, client, owning, history, Serial, Threads
<1>. USE <1>2, <1>3 DEF Serial, Succession, KickLabels, GrantLabels
<1>4. Names' /\ Kicks'
  BY DEF Names, Kicks
<1>5. Grants'
  BY DEF Grants, Removed, Leaving, TypeInv, FieldTypes
<1>6. Serves' /\ Opens'
  BY DEF Serves, Opens, Untouched, Leaving
<1>7. Remains'
  BY DEF Remains, Stays, Leaving, Removed, TypeInv, FieldTypes, Names, Lives
<1>. QED BY <1>1, <1>4, <1>5, <1>6, <1>7

LEMMA AcceptFlagSerially ==
  ASSUME Serial, ~Overlap', KickFlag(Accept)
  PROVE  Succession' /\ Commanding'
<1>1. Commanding'
  BY AcceptCommands DEF KickFlag, history
<1>2. /\ \A d \in Conns : pc'[d] = pc[d]
      /\ pc'[Accept] = "kick_id" /\ pc[Accept] = "kick_flag"
      /\ connected' = FALSE
      /\ UNCHANGED <<sock, left, id, table, active, arg, newest, current>>
  BY Moved, NamesAreDistinct
     DEF KickFlag, client, history, Serial, Threads
<1>. USE <1>2 DEF Serial, Succession, KickLabels, GrantLabels
<1>3. Names' /\ Kicks'
  BY DEF Names, Kicks
<1>4. Grants'
  BY DEF Grants, Removed, Leaving, TypeInv, FieldTypes
<1>5. Serves' /\ Opens'
  BY DEF Serves, Opens, Untouched, Leaving
<1>6. Remains'
  BY DEF Remains, Stays, Leaving, Removed, TypeInv, FieldTypes, Names, Lives
<1>. QED BY <1>1, <1>3, <1>4, <1>5, <1>6

LEMMA AcceptIdSerially ==
  ASSUME Serial, ~Overlap', KickId(Accept)
  PROVE  Succession' /\ Commanding'
<1>1. /\ \A d \in Conns : pc'[d] = pc[d]
      /\ pc'[Accept] = IF Control THEN "kick_cmds" ELSE "kick_erase"
      /\ pc[Accept] = "kick_id"
      /\ active' = Nobody
      /\ UNCHANGED <<sock, left, id, table, connected, arg, partial, newest,
                     current, late, rx>>
  BY Moved, NamesAreDistinct
     DEF KickId, client, history, Serial, Threads
<1>2. active = arg[Accept] /\ active # id[newest]
  BY <1>1 DEF Serial, Succession, Grants, GrantLabels, KickLabels
<1>3. \A d \in Conns :
        /\ pc[d] \notin {"kick_flag", "kick_id", "kick_cmds"}
        /\ pc[d] = "exec" => d = newest
  BY <1>1 DEF Serial, Overlap, Committed, Granting, GrantLabels, KickLabels
<1>. USE <1>1, <1>2, <1>3 DEF Serial, Succession, Commanding, KickLabels, GrantLabels
<1>4. Names'
  BY DEF Names, Grants
<1>5. Kicks'
  BY NamesAreDistinct DEF Kicks, Lives, TypeInv, Places, AwayIsNew
<1>6. Grants'
  BY NamesAreDistinct
     DEF Grants, Removed, Leaving, Names, Lives, TypeInv, Places, FieldTypes,
         Incoming
<1>7. Serves' /\ Opens'
  BY DEF Serves, Opens, Untouched, Leaving
<1>8. Remains'
  BY DEF Remains, Stays, Leaving, Removed, TypeInv, FieldTypes, Names, Lives
<1>9. Receives' /\ Executes' /\ Prompt'
  BY DEF Receives, Executes, Prompt
<1>10. Typed'
  BY NamesAreDistinct DEF Typed, KickedId
<1>. QED BY <1>4, <1>5, <1>6, <1>7, <1>8, <1>9, <1>10

LEMMA AcceptCmdsSerially ==
  ASSUME Serial, ~Overlap', KickCmds(Accept)
  PROVE  Succession' /\ Commanding'
<1>1. /\ \A d \in Conns : pc'[d] = pc[d]
      /\ pc'[Accept] = "kick_erase" /\ pc[Accept] = "kick_cmds"
      /\ UNCHANGED <<sock, left, id, table, active, connected, arg, newest,
                     current, late, rx>>
      /\ \A h \in Handles : partial'[h] = IF h = arg[Accept] THEN Nobody ELSE partial[h]
  BY Moved, NamesAreDistinct
     DEF KickCmds, KickedId, client, owning, history, Serial, Threads
<1>. USE <1>1 DEF Serial, Succession, Commanding, KickLabels, GrantLabels
<1>2. Names' /\ Kicks'
  BY DEF Names, Kicks
<1>3. Grants'
  BY DEF Grants, Removed, Leaving, TypeInv, FieldTypes
<1>4. Serves' /\ Opens'
  BY DEF Serves, Opens, Untouched, Leaving
<1>5. Remains'
  BY DEF Remains, Stays, Leaving, Removed, TypeInv, FieldTypes, Names, Lives
<1>6. Receives' /\ Executes' /\ Prompt'
  BY DEF Receives, Executes, Prompt
<1>7. Typed'
  BY NamesAreDistinct DEF Typed, KickedId
<1>. QED BY <1>2, <1>3, <1>4, <1>5, <1>6, <1>7

LEMMA AcceptEraseSerially ==
  ASSUME Serial, ~Overlap', KickErase(Accept)
  PROVE  Succession' /\ Commanding'
<1>1. Commanding'
  BY AcceptCommands DEF KickErase, owning, history
<1>2. /\ \A d \in Conns : pc'[d] = pc[d]
      /\ pc'[Accept] = "kick_close" /\ pc[Accept] = "kick_erase"
      /\ UNCHANGED <<sock, left, id, active, connected, arg, newest, current>>
      /\ \A h \in Handles : table'[h] = IF h = arg[Accept] THEN "none" ELSE table[h]
  BY Moved, NamesAreDistinct
     DEF KickErase, KickedId, client, owning, history, Serial, Threads
<1>. USE <1>2 DEF Serial, Succession, KickLabels, GrantLabels
<1>3. Names' /\ Kicks'
  BY DEF Names, Kicks
<1>4. Grants'
  BY DEF Grants, Removed, Leaving, TypeInv, FieldTypes
<1>5. Serves' /\ Opens'
  BY DEF Serves, Opens, Untouched, Leaving
<1>6. Remains'
  BY DEF Remains, Stays, Leaving, Removed, TypeInv, FieldTypes, Names, Lives,
         Grants
<1>. QED BY <1>1, <1>3, <1>4, <1>5, <1>6

LEMMA AcceptCloseSerially ==
  ASSUME Serial, ~Overlap', KickClose(Accept)
  PROVE  Succession' /\ Commanding'
<1>1. AfterKick(Accept) \in {"uncmd", "set_id"}
  BY DEF AfterKick
<1>2. /\ \A d \in Conns : pc'[d] = pc[d]
      /\ pc'[Accept] \in {"uncmd", "set_id"} /\ pc[Accept] = "kick_close"
      /\ UNCHANGED <<left, id, table, active, connected, partial, newest,
                     current, late, rx>>
      /\ \A d \in Conns : sock'[d] = IF sock[d] = "open" /\ id[d] = arg[Accept]
                                     THEN "closed" ELSE sock[d]
  BY <1>1, Moved, NamesAreDistinct
     DEF KickClose, KickedId, OpenAt, owning, history, Serial, Threads
<1>. USE <1>2 DEF Serial, Succession, Commanding, KickLabels, GrantLabels
<1>3. Names'
  BY DEF Names, TypeInv, FieldTypes
<1>4. Grants'
  BY DEF Grants, Removed
<1>5. Serves' /\ Kicks'
  BY DEF Serves, Untouched, Kicks
<1>6. Remains'
  BY DEF Remains, Stays, Leaving, Removed, TypeInv, FieldTypes, Names, Grants
<1>7. Opens'
  BY DEF Opens, Leaving, Grants
<1>8. Receives' /\ Executes' /\ Prompt'
  BY DEF Receives, Executes, Prompt
<1>9. Typed'
  BY NamesAreDistinct DEF Typed, KickedId
<1>. QED BY <1>3, <1>4, <1>5, <1>6, <1>7, <1>8, <1>9

LEMMA EraseCmdsSerially ==
  ASSUME Serial, ~Overlap', EraseCmds
  PROVE  Succession' /\ Commanding'
<1>1. pc[Accept] = "uncmd" /\ active = Nobody
  BY DEF EraseCmds, Goto, Serial, Succession, Grants, Removed
<1>2. partial' = partial
  BY <1>1, NamesAreDistinct DEF EraseCmds, Serial, TypeInv, FieldTypes
<1>3. Commanding'
  BY <1>2, AcceptCommands DEF EraseCmds, owning, history
<1>4. /\ \A d \in Conns : pc'[d] = pc[d]
      /\ pc'[Accept] = "set_id"
      /\ UNCHANGED <<sock, left, id, table, active, connected, arg, newest, current>>
  BY Moved, NamesAreDistinct
     DEF EraseCmds, client, owning, history, Serial, Threads
<1>. USE <1>1, <1>4 DEF Serial, Succession, KickLabels, GrantLabels
<1>5. Names' /\ Kicks'
  BY DEF Names, Kicks
<1>6. Grants'
  BY DEF Grants, Removed
<1>7. Serves' /\ Opens'
  BY DEF Serves, Opens, Untouched, Leaving
<1>8. Remains'
  BY DEF Remains, Stays, Leaving, Removed, TypeInv, FieldTypes, Names
<1>. QED BY <1>3, <1>5, <1>6, <1>7, <1>8

(* The newest client is given control when nobody has it, and nothing that *)
(* another one has typed is left.                                          *)
LEMMA SetIdSerially ==
  ASSUME Serial, ~Overlap', SetId
  PROVE  Succession' /\ Commanding'
<1>1. /\ \A d \in Conns : pc'[d] = pc[d]
      /\ pc'[Accept] = "set_connected" /\ pc[Accept] = "set_id"
      /\ newest \in Conns /\ active' = id[newest] /\ current' = newest
      /\ UNCHANGED <<sock, left, id, table, connected, arg, partial, newest, late, rx>>
  BY Moved, NamesAreDistinct
     DEF SetId, client, Serial, Threads, TypeInv, Places, Incoming
<1>2. /\ active = Nobody /\ ~connected /\ sock[newest] # "away"
      /\ id[newest] \in Handles
  BY <1>1, NamesAreDistinct DEF Serial, Succession, Grants, Removed, Names,
         Lives
<1>3. \A d \in Conns :
        /\ pc[d] \notin {"kick_flag", "kick_id", "kick_cmds"}
        /\ pc[d] = "exec" => d = newest
        /\ d = newest => ~Leaving(d)
  BY <1>1 DEF Serial, Overlap, Committed, Granting, GrantLabels, KickLabels,
         Leaving
<1>. USE <1>1, <1>2, <1>3 DEF Serial, Succession, Commanding, KickLabels, GrantLabels
<1>4. Names'
  BY NamesAreDistinct DEF Names
<1>5. Grants'
  BY DEF Grants, Removed
<1>6. Serves'
  BY DEF Serves, Untouched
<1>7. Kicks'
  BY DEF Kicks, Leaving, Apart, Held, TypeInv, Places, AwayIsNew
<1>8. Remains'
  BY DEF Remains, Stays, Leaving
<1>9. Opens'
  BY DEF Opens, Leaving
<1>10. Receives' /\ Executes' /\ Prompt'
  BY NamesAreDistinct DEF Receives, Executes, Prompt, Lives, TypeInv, Places,
         AwayIsNew
<1>11. Typed'
  BY NamesAreDistinct DEF Typed, KickedId
<1>. QED BY <1>4, <1>5, <1>6, <1>7, <1>8, <1>9, <1>10, <1>11

LEMMA SetConnectedSerially ==
  ASSUME Serial, ~Overlap', SetConnected
  PROVE  Succession' /\ Commanding'
<1>1. Commanding'
  BY AcceptCommands DEF SetConnected, history
<1>2. /\ \A d \in Conns : pc'[d] = pc[d]
      /\ pc'[Accept] \in {"send", "accept"} /\ pc[Accept] = "set_connected"
      /\ connected' = TRUE
      /\ UNCHANGED <<sock, left, id, table, active, arg, newest, current>>
  BY Moved, NamesAreDistinct
     DEF SetConnected, client, history, Serial, Threads
<1>3. /\ newest \in Conns /\ current = newest /\ active = id[newest]
      /\ id[newest] \in Handles
  BY <1>2, NamesAreDistinct
     DEF Serial, Succession, Grants, Names, TypeInv, Places, Incoming, Lives,
         GrantLabels, KickLabels
<1>4. \A d \in Conns : pc[d] # "kick_id"
  BY <1>2 DEF Serial, Overlap, Committed, Granting, KickLabels
<1>. USE <1>2, <1>3, <1>4 DEF Serial, Succession, KickLabels, GrantLabels
<1>5. Names'
  BY NamesAreDistinct DEF Names
<1>6. Grants'
  BY DEF Grants, Removed
<1>7. Serves' /\ Kicks'
  BY DEF Serves, Kicks
<1>8. Remains' /\ Opens'
  BY DEF Remains, Stays, Leaving, Opens, Removed
<1>. QED BY <1>1, <1>5, <1>6, <1>7, <1>8

LEMMA AcceptSendsSerially ==
  ASSUME Serial, ~Overlap', SendBuffer(Accept)
  PROVE  Succession' /\ Commanding'
<1>1. AfterSend(Accept) = "accept"
  BY NamesAreDistinct DEF AfterSend
<1>2. /\ \A h \in Handles : table'[h] = "none" => table[h] = "none"
      /\ UNCHANGED <<sock, left, id, active, connected, partial, newest, current, late, rx>>
      /\ \E from \in {"send", "send_lookup"}, to \in {"send_lookup", "accept"} :
           Goto(Accept, from, to)
  BY <1>1
     DEF SendBuffer, SendFind, SendLookup, client, owning, history, Goto,
         Serial, TypeInv, FieldTypes
<1>3. Commanding'
  BY <1>2, AcceptCommands
<1>4. /\ \A d \in Conns : pc'[d] = pc[d]
      /\ pc'[Accept] \in {"send_lookup", "accept"}
      /\ pc[Accept] \in {"send", "send_lookup"}
  BY <1>2, Moved, NamesAreDistinct DEF Serial, Threads
<1>. USE <1>2, <1>4 DEF Serial, Succession, KickLabels, GrantLabels
<1>5. Names' /\ Grants' /\ Kicks'
  BY DEF Names, Grants, Kicks, Removed
<1>6. Serves' /\ Opens'
  BY DEF Serves, Opens, Names, Leaving, Untouched, TypeInv, FieldTypes
<1>7. Remains'
  BY DEF Remains, Stays, Leaving, Removed, TypeInv, FieldTypes, Names, Lives
<1>. QED BY <1>3, <1>5, <1>6, <1>7

LEMMA AcceptThreadSerially ==
  ASSUME Serial, ~Overlap', AcceptThread
  PROVE  Succession' /\ Commanding'
  BY InsertSerially, EnqueueSerially, ConnectSerially, ConnectTestSerially,
     VictimSerially, AcceptTestSerially, AcceptFlagSerially, AcceptIdSerially,
     AcceptCmdsSerially, AcceptEraseSerially, AcceptCloseSerially,
     EraseCmdsSerially, SetIdSerially, SetConnectedSerially, AcceptSendsSerially
     DEF AcceptThread, OnClientConnected, KickClient

-----------------------------------------------------------------------------
(* The senders and the clients.                                            *)

LEMMA SenderSerially ==
  ASSUME Serial, ~Overlap', NEW t \in Senders, SenderThread(t)
  PROVE  Succession' /\ Commanding'
<1>1. /\ \A h \in Handles : table'[h] = "none" => table[h] = "none"
      /\ UNCHANGED <<sock, left, id, active, connected, partial, newest,
                     current, late, rx>>
      /\ arg'[Accept] = arg[Accept]
      /\ \E from, to : Goto(t, from, to)
  BY NamesAreDistinct
     DEF SenderThread, SenderTest, SenderNonzero, SenderRead, SendBuffer,
         SendFind,
         SendLookup, Forget, client, owning, history, Serial, TypeInv,
         FieldTypes
<1>2. /\ \A d \in Conns : pc'[d] = pc[d]
      /\ pc'[Accept] = pc[Accept]
  BY <1>1, Moved, NamesAreDistinct DEF Serial, Threads
<1>. USE <1>1, <1>2 DEF Serial, Succession, Commanding
<1>3. Names' /\ Kicks'
  BY DEF Names, Kicks
<1>4. Grants' /\ Serves' /\ Opens'
  BY DEF Grants, Serves, Opens, Leaving, TypeInv, FieldTypes, Names
<1>5. Remains'
  BY DEF Remains, Stays, Leaving, TypeInv, FieldTypes, Names, Lives
<1>6. Receives' /\ Executes' /\ Prompt'
  BY DEF Receives, Executes, Prompt
<1>7. Typed'
  BY DEF Typed, KickedId
<1>. QED BY <1>3, <1>4, <1>5, <1>6, <1>7

LEMMA ClientSerially ==
  ASSUME Serial, NEW c \in Conns, ClientSends(c) \/ ClientLeaves(c)
  PROVE  Succession' /\ Commanding'
<1>1. /\ left \subseteq left'
      /\ UNCHANGED <<sock, id, table, active, connected, partial, pc, arg, newest,
                     current, late, rx>>
  BY DEF ClientSends, ClientLeaves, owning, history
<1>. USE <1>1 DEF Serial, Succession, Commanding
<1>2. Names' /\ Grants' /\ Serves' /\ Kicks'
  BY DEF Names, Grants, Serves, Kicks, Leaving
<1>3. Remains' /\ Opens'
  BY DEF Remains, Stays, Opens, Leaving
<1>4. Commanding'
  BY DEF Receives, Executes, Prompt, Typed, KickedId
<1>. QED BY <1>2, <1>3, <1>4

LEMMA StepSerially ==
  ASSUME Serial, Step, ~Overlap', ~reused'
  PROVE  Succession' /\ Commanding'
<1>1. ASSUME NEW c \in Conns, NEW h \in Handles, AcceptConnection(c, h)
      PROVE  Succession' /\ Commanding'
  BY <1>1, AcceptSerially DEF AcceptConnection
<1>. QED
  BY <1>1, ClientSerially, HandlerSerially, AcceptThreadSerially, SenderSerially
     DEF Step

-----------------------------------------------------------------------------
(* What a sender has seen.                                                 *)

LEMMA KickKeeps ==
  ASSUME TypeInv, NEW t \in Conns \cup {Accept}, KickClient(t)
  PROVE  /\ UNCHANGED <<id, newest, current>>
         /\ \A c \in Conns : sock'[c] = "open" => sock[c] = "open"
         /\ \A s \in Senders : pc'[s] = pc[s] /\ arg'[s] = arg[s]
<1>1. \A s \in Senders : s # t
  BY NamesAreDistinct
<1>2. UNCHANGED <<id, newest, current>> /\ \E from, to : Goto(t, from, to)
  BY DEF KickClient, KickTest, KickFlag, KickId, KickCmds, KickErase, KickClose,
         history
<1>3. \A c \in Conns : sock'[c] = "open" => sock[c] = "open"
  BY DEF KickClient, KickTest, KickFlag, KickId, KickCmds, KickErase, KickClose
<1>4. \A s \in Senders : arg'[s] = arg[s]
  BY <1>1 DEF KickClient, KickTest, KickFlag, KickId, KickCmds, KickErase,
     KickClose, Forget, TypeInv, FieldTypes
<1>. QED BY <1>1, <1>2, <1>3, <1>4, Moved DEF Threads

LEMMA SendKeeps ==
  ASSUME TypeInv, NEW t \in Threads, SendBuffer(t)
  PROVE  /\ UNCHANGED <<id, newest, current, sock>>
         /\ \A s \in Senders : s # t => pc'[s] = pc[s] /\ arg'[s] = arg[s]
<1>1. UNCHANGED <<id, newest, current, sock>> /\ \E from, to : Goto(t, from, to)
  BY DEF SendBuffer, SendFind, SendLookup, history
<1>2. \A s \in Senders : s # t => arg'[s] = arg[s]
  BY DEF SendBuffer, SendFind, SendLookup, Forget, TypeInv, FieldTypes
<1>. QED BY <1>1, <1>2, Moved DEF Threads

(* A step that is not a sender's own: no socket is opened but of a new     *)
(* connection, and only SetId and Connect change who is current.           *)
LEMMA StepKeeps ==
  ASSUME TypeInv, Step
  PROVE  /\ \/ /\ id' = id
               /\ \A c \in Conns : sock'[c] = "open" => sock[c] = "open"
            \/ \E c \in Conns, h \in Handles : AcceptConnection(c, h)
         /\ current' = current \/ SetId \/ Connect
         /\ \A t \in Senders : \/ SenderThread(t)
                               \/ pc'[t] = pc[t] /\ arg'[t] = arg[t]
<1>. DEFINE Kept ==
              /\ id' = id
              /\ \A c \in Conns : sock'[c] = "open" => sock[c] = "open"
            Others(u) ==
              \A t \in Senders : t = u \/ (pc'[t] = pc[t] /\ arg'[t] = arg[t])
<1>1. ASSUME NEW c \in Conns, ClientSends(c) \/ ClientLeaves(c)
      PROVE  Kept /\ current' = current /\ Others(c)
  BY <1>1 DEF ClientSends, ClientLeaves, history
<1>2. ASSUME NEW c \in Conns, Handler(c)
      PROVE  Kept /\ current' = current /\ Others(c)
  <2>1. CASE KickClient(c) \/ SendBuffer(c)
    BY <2>1, KickKeeps, SendKeeps, NamesAreDistinct DEF Threads
  <2>2. CASE ~(KickClient(c) \/ SendBuffer(c))
    <3>1. /\ UNCHANGED <<id, sock, current, arg>>
          /\ \E from, to : Goto(c, from, to)
      BY <1>2, <2>2 DEF Handler, HandlerStarts, HandlerFind, HandlerLookup,
         HandlerCall, RecvFails, RecvReturns, Check, Type, Execute, history
    <3>. QED BY <3>1, Moved, NamesAreDistinct DEF Threads
  <2>. QED BY <2>1, <2>2
<1>3. ASSUME NEW c \in Conns, NEW h \in Handles, AcceptConnection(c, h)
      PROVE  current' = current /\ Others(Accept)
  BY <1>3, Moved, NamesAreDistinct DEF AcceptConnection, Threads
<1>4. ASSUME AcceptThread
      PROVE  Kept /\ (current' = current \/ SetId \/ Connect) /\ Others(Accept)
  <2>1. CASE KickClient(Accept) \/ SendBuffer(Accept)
    BY <2>1, KickKeeps, SendKeeps, NamesAreDistinct DEF Threads
  <2>2. CASE EnqueueHandler
    BY <2>2, NamesAreDistinct
       DEF EnqueueHandler, history, TypeInv, Places, PcTypes, Incoming, Threads
  <2>3. CASE Insert \/ Connect \/ ConnectTest \/ Victim \/ EraseCmds \/ SetId
               \/ SetConnected
    <3>1. /\ UNCHANGED <<id, sock>>
          /\ current' = current \/ SetId \/ Connect
          /\ \E from, to : Goto(Accept, from, to)
      BY <2>3 DEF Insert, Connect, ConnectTest, Victim, EraseCmds, SetId,
         SetConnected, history
    <3>2. \A t \in Senders : arg'[t] = arg[t]
      BY <2>3, NamesAreDistinct
         DEF Insert, Connect, ConnectTest, Victim, EraseCmds, SetId,
         SetConnected, TypeInv, FieldTypes
    <3>. QED BY <3>1, <3>2, Moved, NamesAreDistinct DEF Threads
  <2>. QED BY <1>4, <2>1, <2>2, <2>3 DEF AcceptThread, OnClientConnected
<1>5. ASSUME NEW t \in Senders, SenderThread(t)
      PROVE  Kept /\ current' = current /\ Others(t)
  <2>1. CASE SendBuffer(t)
    BY <2>1, SendKeeps DEF Threads
  <2>2. CASE SenderTest(t) \/ SenderNonzero(t) \/ SenderRead(t)
    <3>1. /\ UNCHANGED <<id, sock, current>>
          /\ \E from, to : Goto(t, from, to)
          /\ \A s \in Senders : s # t => arg'[s] = arg[s]
      BY <2>2 DEF SenderTest, SenderNonzero, SenderRead, history, TypeInv,
             FieldTypes
    <3>. QED BY <3>1, Moved DEF Threads
  <2>. QED BY <1>5, <2>1, <2>2 DEF SenderThread
<1>6. ASSUME NEW u, Others(u), u \notin Senders
      PROVE  \A t \in Senders : \/ SenderThread(t)
                                \/ pc'[t] = pc[t] /\ arg'[t] = arg[t]
  BY <1>6
<1>7. ASSUME NEW u \in Senders, Others(u), SenderThread(u)
      PROVE  \A t \in Senders : \/ SenderThread(t)
                                \/ pc'[t] = pc[t] /\ arg'[t] = arg[t]
  BY <1>7
<1>8. Accept \notin Senders /\ \A c \in Conns : c \notin Senders
  BY NamesAreDistinct
<1>. HIDE DEF Kept, Others
<1>9. \A t \in Senders : \/ SenderThread(t)
                         \/ pc'[t] = pc[t] /\ arg'[t] = arg[t]
  BY <1>1, <1>2, <1>3, <1>4, <1>5, <1>6, <1>7, <1>8 DEF Step
<1>10. /\ Kept \/ \E c \in Conns, h \in Handles : AcceptConnection(c, h)
       /\ current' = current \/ SetId \/ Connect
  BY <1>1, <1>2, <1>3, <1>4, <1>5 DEF Step
<1>. QED BY <1>9, <1>10 DEF Kept

LEMMA OwnerIsCurrent ==
  ASSUME Lives, Apart, TypeInv, NEW c \in OpenAt(active)
  PROVE  c = current
  BY DEF OpenAt, Lives, Apart, Held

LEMMA StepSees ==
  ASSUME Serial, Sees, RecordTypes, Next, ~Overlap', ~reused', Succession'
  PROVE  Sees'
<1>. SUFFICES ASSUME NEW t \in Senders
              PROVE  /\ pc'[t] = "send_lookup" => arg'[t] # Nobody
                     /\ pc'[t] # "idle" /\ current' # Nobody /\ sock'[current'] = "open"
                          => current' \in eligible'[t]
                     /\ pc'[t] \in {"send", "send_lookup"} /\ arg'[t] # Nobody
                          => OpenAt(arg[t])' \subseteq eligible'[t]
  BY DEF Sees
<1>1. /\ Step
      /\ pc'[t] # "idle" => eligible'[t] = eligible[t] \cup Owners'
  BY DEF Next, Recorded
<1>2. /\ \/ /\ id' = id
            /\ \A c \in Conns : sock'[c] = "open" => sock[c] = "open"
         \/ \E c \in Conns, h \in Handles : AcceptConnection(c, h)
      /\ current' = current \/ SetId
      /\ SenderThread(t) \/ (pc'[t] = pc[t] /\ arg'[t] = arg[t])
  <2>1. Connect => current' = current
    BY DEF Connect, Goto, Serial, Succession, Grants, GrantLabels
  <2>. QED BY <1>1, <2>1, StepKeeps DEF Serial
<1>3. pc[t] = "send_lookup" => arg[t] # Nobody
  BY DEF Sees
(* The current client is still known to t, or has just become current.     *)
<1>4. ASSUME pc[t] # "idle", pc'[t] # "idle", current' # Nobody, sock'[current'] = "open"
      PROVE  current' \in eligible'[t]
  <2>1. CASE current' = current
    <3>1. current \in Conns /\ sock[current] # "away"
      BY <1>4, <2>1 DEF Serial, Succession, Names, TypeInv, FieldTypes
    <3>2. sock[current] = "open"
      BY <1>2, <1>4, <2>1, <3>1 DEF AcceptConnection, Serial, TypeInv,
             FieldTypes
    <3>3. current \in eligible[t]
      BY <1>4, <2>1, <3>2 DEF Sees
    <3>. QED BY <1>1, <1>4, <2>1, <3>3
  <2>2. CASE SetId
    <3>1. /\ pc'[Accept] = "set_connected" /\ active' = id[newest]
          /\ current' = newest /\ UNCHANGED <<id, sock>> /\ newest \in Conns
      BY <2>2, Moved DEF SetId, Goto, Serial, Threads, TypeInv, Places,
             Incoming, PcTypes
    <3>2. newest \in Owners'
      BY <1>4, <3>1 DEF Owners, OpenAt
    <3>. QED BY <1>1, <1>4, <3>1, <3>2
  <2>. QED BY <1>2, <2>1, <2>2
(* Nobody is given a handle that t holds.                                  *)
<1>5. ASSUME pc[t] # "idle", pc'[t] # "idle", arg'[t] = arg[t], arg[t] # Nobody,
             OpenAt(arg[t]) \subseteq eligible[t]
      PROVE  OpenAt(arg[t])' \subseteq eligible'[t]
  <2>1. CASE id' = id /\ \A c \in Conns : sock'[c] = "open" => sock[c] = "open"
    BY <1>1, <1>5, <2>1 DEF OpenAt
  <2>2. ASSUME NEW c \in Conns, NEW h \in Handles, AcceptConnection(c, h)
        PROVE  OpenAt(arg[t])' \subseteq eligible'[t]
    <3>1. h # arg[t]
      BY <2>2 DEF AcceptConnection, StillHeld
    <3>2. /\ \A d \in Conns : sock'[d] = IF d = c THEN "open" ELSE sock[d]
          /\ \A d \in Conns : id'[d] = IF d = c THEN h ELSE id[d]
      BY <2>2 DEF AcceptConnection, Serial, TypeInv, FieldTypes
    <3>. QED BY <1>1, <1>5, <3>1, <3>2 DEF OpenAt
  <2>. QED BY <1>2, <2>1, <2>2
<1>6. CASE pc'[t] = pc[t] /\ arg'[t] = arg[t]
  BY <1>3, <1>4, <1>5, <1>6 DEF Sees
<1>7. CASE SenderTest(t)
  <2>1. /\ pc[t] = "idle" /\ pc'[t] \in {"nonzero", "read"} /\ pc'[Accept] = pc[Accept]
        /\ connected /\ UNCHANGED <<sock, id, active, connected, current>>
    BY <1>7, Moved, NamesAreDistinct DEF SenderTest, owning, history, Serial,
           Threads
  <2>2. active # Nobody /\ active = id[current] /\ current \in Conns
    BY <2>1 DEF Serial, Succession, Names, TypeInv, FieldTypes
  <2>3. sock'[current'] = "open" => current' \in Owners'
    BY <2>1, <2>2 DEF Owners, OpenAt
  <2>. QED BY <1>1, <2>1, <2>3
<1>8. CASE SenderNonzero(t) \/ SenderRead(t) \/ SendBuffer(t)
  <2>1. UNCHANGED <<sock, id, active, current>>
    BY <1>8 DEF SenderNonzero, SenderRead, SendBuffer, SendFind, SendLookup,
           owning, history
  <2>2. CASE SenderNonzero(t)
    <3>1. pc[t] = "nonzero" /\ pc'[t] \in {"read", "idle"}
      BY <2>2, Moved DEF SenderNonzero, Serial, Threads
    <3>. QED BY <1>4, <3>1
  <2>3. CASE SenderRead(t)
    <3>1. pc[t] = "read" /\ pc'[t] = "send" /\ arg'[t] = active
      BY <2>3, Moved DEF SenderRead, Serial, Threads, TypeInv, FieldTypes
    <3>2. arg'[t] # Nobody => OpenAt(arg[t])' \subseteq {current}
      BY <2>1, <3>1, OwnerIsCurrent DEF Serial, OpenAt
    <3>3. ASSUME OpenAt(arg[t])' # {}
          PROVE  OpenAt(arg[t])' \subseteq eligible'[t]
      <4>1. arg'[t] # Nobody
        BY <3>3, <2>1, NamesAreDistinct DEF OpenAt, Serial, Lives
      <4>2. current' # Nobody /\ sock'[current'] = "open"
        BY <2>1, <3>2, <3>3, <4>1, NamesAreDistinct DEF OpenAt
      <4>. QED BY <1>4, <2>1, <3>1, <3>2, <4>1, <4>2
    <3>. QED BY <1>4, <3>1, <3>3
  <2>4. CASE SendFind(t)
    <3>1. /\ pc[t] = "send"
          /\ \/ pc'[t] = "send_lookup" /\ arg'[t] = arg[t] /\ arg[t] # Nobody
             \/ pc'[t] = "idle"
      BY <2>4, Moved DEF SendFind, SendTo, AfterSend, Serial, Threads
    <3>. QED BY <1>4, <1>5, <3>1 DEF Sees
  <2>5. CASE SendLookup(t)
    BY <2>5, Moved DEF SendLookup, AfterSend, Serial, Threads
  <2>. QED BY <1>8, <2>2, <2>3, <2>4, <2>5 DEF SendBuffer
<1>. QED BY <1>2, <1>6, <1>7, <1>8 DEF SenderThread

-----------------------------------------------------------------------------
(* The inductive invariant, and the properties that follow from it.        *)

Calm == ~raced /\ ~reused

(* The histories raced and reused are never taken back, so a step that     *)
(* leaves them false comes from a state where all of this is true.         *)
Orderly == Calm => Succession /\ Commanding /\ Sees /\ ~Overlap

LEMMA InitOrderly ==
  ASSUME Init
  PROVE  Orderly
<1>1. /\ \A c \in Conns : pc[c] = "none" /\ sock[c] = "away" /\ late[c] = 0
      /\ pc[Accept] = "accept" /\ \A t \in Senders : pc[t] = "idle"
      /\ active = Nobody /\ newest = Nobody /\ current = Nobody /\ connected = FALSE
      /\ \A h \in Handles : partial[h] = Nobody
  BY NamesAreDistinct DEF Init, Threads
<1>. USE <1>1 DEF KickLabels, GrantLabels
<1>2. Names /\ Grants /\ Serves /\ Kicks
  BY DEF Names, Grants, Serves, Kicks, Removed
<1>3. Remains /\ Opens
  BY DEF Remains, Opens
<1>4. Commanding /\ Sees
  BY DEF Commanding, Receives, Executes, Typed, Prompt, Sees
<1>5. ~Overlap
  BY DEF Overlap, Committed, Granting
<1>. QED BY <1>2, <1>3, <1>4, <1>5 DEF Orderly, Succession

LEMMA NextOrderly ==
  ASSUME TypeInv, RecordTypes, Lives, LateInv, Orderly, Next
  PROVE  Orderly'
<1>1. /\ Step
      /\ raced' = (raced \/ Overlap')
  BY DEF Next, Recorded
<1>2. SUFFICES ASSUME ~raced', ~reused'
               PROVE  Succession' /\ Commanding' /\ Sees' /\ ~Overlap'
  BY DEF Orderly, Calm
<1>3. ~raced /\ ~Overlap'
  BY <1>1, <1>2
<1>4. ~reused
  BY <1>1, <1>2, StepReused
<1>5. Serial /\ Sees
  BY <1>3, <1>4 DEF Serial, Orderly, Calm, LateInv
<1>6. Succession' /\ Commanding'
  BY <1>1, <1>2, <1>3, <1>5, StepSerially
<1>. QED BY <1>2, <1>3, <1>5, <1>6, StepSees

LEMMA SpecOrderly == Spec => []Orderly
<1>1. Init => Orderly
  BY InitOrderly
<1>2. TypeInv /\ RecordTypes /\ (Lives /\ LateInv) /\ Orderly /\ [Next]_vars => Orderly'
  <2>1. UNCHANGED vars /\ Orderly => Orderly'
    BY DEF vars, Orderly, Calm, Succession, Commanding, Names, Grants, Serves,
       Kicks, Remains, Stays, Leaving, Opens, Receives, Executes, Typed,
       KickedId,
       Prompt, Sees, OpenAt, Overlap, Committed, Granting
  <2>. QED BY <2>1, NextOrderly
<1>. QED BY <1>1, <1>2, ServerTypeInv, ServerLateInv, PTL DEF Spec

LEMMA CalmIsSerial ==
  ASSUME TypeInv, LateInv, Lives, Orderly, ~raced, ~reused
  PROVE  Serial /\ Sees
  BY DEF Orderly, Calm, LateInv, Serial

(* As long as changes of owner do not overlap and no handle is given while *)
(* someone holds it, the last client to connect is in control when no      *)
(* thread is changing that, and until it leaves (server-layer.cpp 189-216, *)
(* server.cpp 83-147 and 182-200).                                         *)
THEOREM LastClientOwns == Spec => []LastOneWinsSerially
<1>1. ASSUME TypeInv, Lives, LateInv, Orderly
      PROVE  LastOneWinsSerially
  <2>1. SUFFICES ASSUME ~raced, ~reused, Settled, newest # Nobody, newest \notin left
                 PROVE  Owner = newest
    BY DEF LastOneWinsSerially, LastOneWins
  <2>2. Serial
    BY <1>1, <2>1, CalmIsSerial
  <2>3. pc[Accept] = "accept" /\ current = newest /\ newest \in Conns
    BY <2>1, <2>2
       DEF Serial, Settled, Succession, Names, GrantLabels, KickLabels, TypeInv,
           FieldTypes
  <2>4. ~Leaving(newest) /\ sock[newest] = "open"
    BY <2>1, <2>2, <2>3 DEF Serial, Succession, Remains, Stays
  <2>5. connected /\ active = id[newest]
    BY <2>1, <2>2, <2>3, <2>4 DEF Serial, Succession, Serves, Untouched
  <2>6. OpenAt(active) = {newest}
    BY <2>2, <2>3, <2>4, <2>5 DEF OpenAt, Serial, TypeInv, Places, HandlesApart
  <2>7. Owners = {newest}
    BY <2>5, <2>6 DEF Owners
  <2>. QED BY <2>7 DEF Owner
<1>. QED BY <1>1, ServerTypeInv, ServerLateInv, SpecOrderly, PTL

(* Under the same condition the command that a client completes does not   *)
(* begin with what another one had typed: when a client is given control,  *)
(* m_Cmds is empty (server-layer.cpp 198, 214, 299).                       *)
THEOREM CommandsAreOwn == Spec => []NoInheritedCommand
<1>1. ASSUME TypeInv, Lives, LateInv, Orderly
      PROVE  NoInheritedCommand
  <2>1. SUFFICES ASSUME ~raced, ~reused, NEW c \in Conns, pc[c] = "exec"
                 PROVE  partial[id[c]] \in {Nobody, rx[c]}
    BY DEF NoInheritedCommand
  <2>2. Serial
    BY <1>1, <2>1, CalmIsSerial
  <2>3. Held(c) /\ id[c] \in Handles /\ rx[c] = c
    BY <2>1, <2>2
       DEF Serial, Commanding, Receives, Held, Lives, TypeInv, Places, AwayIsNew
  <2>4. ASSUME partial[id[c]] # Nobody
        PROVE  partial[id[c]] = current /\ active = id[c]
    <3>1. active = id[c]
      BY <2>1, <2>2, <2>3, <2>4 DEF Serial, Commanding, Typed, Executes
    <3>2. \A d \in Conns : pc[d] # "kick_cmds"
      BY <2>1, <2>2 DEF Serial, Overlap, Committed
    <3>3. pc[Accept] # "kick_cmds"
      BY <2>2, <2>3, <3>1, NamesAreDistinct DEF Serial, Succession, Grants
    <3>. QED BY <2>2, <2>3, <2>4, <3>1, <3>2, <3>3 DEF Serial, Commanding, Typed
  <2>5. active = id[c] => c = current
    BY <2>2, <2>3 DEF Serial, Apart
  <2>. QED BY <2>3, <2>4, <2>5
<1>. QED BY <1>1, ServerTypeInv, ServerLateInv, SpecOrderly, PTL

(* Under the same condition a frame or a prompt reaches nobody but clients *)
(* that were in control since the sender's test, and the one that is just  *)
(* being accepted (server-layer.cpp 139-141, 165-168).                     *)
THEOREM FramesReachOwners == Spec => []NoStrayFrames
<1>1. ASSUME TypeInv, Lives, LateInv, Orderly
      PROVE  NoStrayFrames
  <2>1. SUFFICES ASSUME ~raced, ~reused, NEW t \in Senders, Sends(t),
                        NEW c \in Reached(t)
                 PROVE  \/ c \in eligible[t]
                        \/ pc[Accept] # "accept" /\ c = newest
    BY DEF NoStrayFrames
  <2>2. Serial /\ Sees
    BY <1>1, <2>1, CalmIsSerial
  <2>3. c \in Conns /\ c \notin left /\ sock[c] = "open"
    BY DEF Reached
  <2>4. CASE arg[t] # Nobody
    <3>1. c \in OpenAt(arg[t])
      BY <2>3, <2>4 DEF Reached, OpenAt
    <3>. QED BY <2>1, <2>2, <2>4, <3>1 DEF Sees, Sends
  <2>5. CASE arg[t] = Nobody
    <3>1. c \in {newest, current}
      BY <2>2, <2>3 DEF Serial, Succession, Opens
    <3>2. pc[Accept] = "accept" => newest = current
      BY <2>2 DEF Serial, Succession, Names, GrantLabels, KickLabels
    <3>3. c = current => c \in eligible[t]
      BY <2>1, <2>2, <2>3, NamesAreDistinct DEF Sees, Sends
    <3>. QED BY <3>1, <3>2, <3>3
  <2>. QED BY <2>4, <2>5
<1>. QED BY <1>1, ServerTypeInv, ServerLateInv, SpecOrderly, PTL

(* A client that has lost control executes at most one more command, the   *)
(* one that had passed the permission check (server-layer.cpp 290-362),    *)
(* unless a handle was given while it was held; on the binary server none, *)
(* unless changes of owner overlapped.                                     *)
THEOREM LateCommands == Spec => []AtMostOneLateCommand
<1>1. ASSUME LateInv, Orderly
      PROVE  AtMostOneLateCommand
  <2>1. CASE Control
    BY <1>1, <2>1 DEF LateInv, OneLate, AtMostOneLateCommand
  <2>2. CASE ~Control /\ ~raced /\ ~reused
    BY <1>1, <2>2 DEF Orderly, Calm, Commanding, Prompt, AtMostOneLateCommand
  <2>. QED BY <2>1, <2>2 DEF AtMostOneLateCommand
<1>. QED BY <1>1, ServerLateInv, SpecOrderly, PTL

-----------------------------------------------------------------------------
(* The handlers that wait for a worker.  The queue ends with the newest    *)
(* client's handler, once the accept thread has enqueued it.               *)

Arriving == pc[Accept] \in {"insert", "enqueue"}

LastQueued == queue # <<>> /\ ~Arriving => queue[Len(queue)] = newest

(* What a step does to the queue and to the labels where it is behind.     *)
QueueKept == UNCHANGED <<queue, newest>> /\ (Arriving' <=> Arriving)

LEMMA MoveArrives ==
  ASSUME TypeInv, NEW t \in Threads, NEW from, NEW to, Goto(t, from, to),
         t = Accept => {from, to} \cap {"insert", "enqueue"} = {}
  PROVE  Arriving' <=> Arriving
  BY Moved DEF Arriving

LEMMA CallsKeepQueue ==
  ASSUME TypeInv, NEW t \in Threads, KickClient(t) \/ SendBuffer(t)
  PROVE  QueueKept
<1>1. \A l \in {AfterKick(t), AfterSend(t)} : l \notin {"insert", "enqueue"}
  BY DEF AfterKick, AfterSend
<1>2. UNCHANGED <<queue, newest>>
  BY DEF KickClient, KickTest, KickFlag, KickId, KickCmds, KickErase, KickClose,
     SendBuffer, SendFind, SendLookup, history
<1>3. \E from, to : /\ Goto(t, from, to)
                    /\ {from, to} \cap {"insert", "enqueue"} = {}
  <2>1. CASE KickTest(t) \/ KickFlag(t) \/ KickId(t)
    BY <2>1 DEF KickTest, KickFlag, KickId
  <2>2. CASE KickCmds(t) \/ KickErase(t)
    BY <2>2 DEF KickCmds, KickErase
  <2>3. CASE KickClose(t)
    BY <1>1, <2>3 DEF KickClose
  <2>4. CASE SendBuffer(t)
    BY <1>1, <2>4 DEF SendBuffer, SendFind, SendLookup
  <2>. QED BY <2>1, <2>2, <2>3, <2>4 DEF KickClient
<1>4. Arriving' <=> Arriving
  BY <1>3, MoveArrives
<1>. QED BY <1>2, <1>4 DEF QueueKept

LEMMA HandlerKeepsQueue ==
  ASSUME TypeInv, NEW c \in Conns, Handler(c), ~HandlerStarts(c)
  PROVE  QueueKept
<1>1. c \in Threads /\ c # Accept
  BY NamesAreDistinct DEF Threads
<1>2. CASE KickClient(c) \/ SendBuffer(c)
  BY <1>1, <1>2, CallsKeepQueue
<1>3. CASE \/ HandlerFind(c) \/ HandlerLookup(c) \/ HandlerCall(c) \/ RecvFails(c)
           \/ RecvReturns(c) \/ Check(c) \/ Type(c) \/ Execute(c)
  <2>1. UNCHANGED <<queue, newest>>
    BY <1>3 DEF HandlerFind, HandlerLookup, HandlerCall, RecvFails, RecvReturns,
       Check, Type, Execute, history
  <2>2. \E from, to : Goto(c, from, to)
    BY <1>3 DEF HandlerFind, HandlerLookup, HandlerCall, RecvFails, RecvReturns,
       Check, Type, Execute
  <2>. QED BY <1>1, <2>1, <2>2, MoveArrives DEF QueueKept
<1>. QED BY <1>2, <1>3 DEF Handler

LEMMA AcceptThreadKeepsQueue ==
  ASSUME TypeInv, AcceptThread, ~EnqueueHandler
  PROVE  QueueKept
<1>1. Accept \in Threads
  BY DEF Threads
<1>2. CASE Insert
  BY <1>1, <1>2, Moved DEF Insert, QueueKept, Arriving, history
<1>3. CASE KickClient(Accept) \/ SendBuffer(Accept)
  BY <1>1, <1>3, CallsKeepQueue
<1>4. CASE \/ Connect \/ ConnectTest \/ Victim \/ EraseCmds \/ SetId \/ SetConnected
  <2>1. UNCHANGED <<queue, newest>>
    BY <1>4 DEF Connect, ConnectTest, Victim, EraseCmds, SetId, SetConnected, history
  <2>2. Arriving' <=> Arriving
    BY <1>1, <1>4, MoveArrives
       DEF Connect, ConnectTest, Victim, EraseCmds, SetId, SetConnected
  <2>. QED BY <2>1, <2>2 DEF QueueKept
<1>. QED BY <1>2, <1>3, <1>4 DEF AcceptThread, OnClientConnected

LEMMA SenderKeepsQueue ==
  ASSUME TypeInv, NEW t \in Senders, SenderThread(t)
  PROVE  QueueKept
<1>1. t \in Threads /\ t # Accept
  BY NamesAreDistinct DEF Threads
<1>2. CASE SendBuffer(t)
  BY <1>1, <1>2, CallsKeepQueue
<1>3. CASE SenderTest(t) \/ SenderNonzero(t) \/ SenderRead(t)
  <2>1. UNCHANGED <<queue, newest>>
    BY <1>3 DEF SenderTest, SenderNonzero, SenderRead, history
  <2>2. \E from, to : Goto(t, from, to)
    BY <1>3 DEF SenderTest, SenderNonzero, SenderRead
  <2>. QED BY <1>1, <2>1, <2>2, MoveArrives DEF QueueKept
<1>. QED BY <1>2, <1>3 DEF SenderThread

(* What is left of a queue ends as it did.                                 *)
LEMMA TailEndsAlike ==
  ASSUME NEW q \in Seq(Conns), q # <<>>, Tail(q) # <<>>
  PROVE  Tail(q)[Len(Tail(q))] = q[Len(q)]
<1>1. Len(Tail(q)) = Len(q) - 1 /\ Len(q) \in Nat /\ Len(q) > 1
  OBVIOUS
<1>. QED BY <1>1

LEMMA StepLastQueued ==
  ASSUME TypeInv, LastQueued, Step
  PROVE  LastQueued'
<1>1. queue \in Seq(Conns)
  BY DEF TypeInv, Places, QueueHoldsWaiting
<1>2. CASE QueueKept
  BY <1>2 DEF QueueKept, LastQueued
<1>3. ASSUME NEW c \in Conns, NEW h \in Handles, AcceptConnection(c, h)
      PROVE  LastQueued'
  <2>1. Arriving'
    BY <1>3, Moved DEF AcceptConnection, Arriving, Threads
  <2>. QED BY <2>1 DEF LastQueued
<1>4. CASE EnqueueHandler
  <2>1. newest \in Conns /\ newest' = newest
    BY <1>4 DEF EnqueueHandler, history, TypeInv, Places, Incoming
  <2>2. Append(queue, newest)[Len(Append(queue, newest))] = newest
    BY <1>1, <2>1
  <2>. QED BY <1>4, <2>1, <2>2 DEF EnqueueHandler, LastQueued
<1>5. ASSUME NEW c \in Conns, HandlerStarts(c)
      PROVE  LastQueued'
  <2>1. queue # <<>> /\ queue' = Tail(queue) /\ newest' = newest
    BY <1>5 DEF HandlerStarts, history
  <2>2. c \in Threads /\ c # Accept
    BY NamesAreDistinct DEF Threads
  <2>3. Arriving' <=> Arriving
    BY <1>5, <2>2, MoveArrives DEF HandlerStarts
  <2>. QED BY <1>1, <2>1, <2>3, TailEndsAlike DEF LastQueued
<1>6. ASSUME NEW c \in Conns, ClientSends(c) \/ ClientLeaves(c)
      PROVE  QueueKept
  BY <1>6 DEF ClientSends, ClientLeaves, QueueKept, Arriving, history
<1>. QED
  BY <1>2, <1>3, <1>4, <1>5, <1>6, HandlerKeepsQueue, AcceptThreadKeepsQueue,
     SenderKeepsQueue DEF Step

LEMMA SpecLastQueued == Spec => []LastQueued
<1>1. Init => LastQueued
  BY DEF Init, LastQueued
<1>2. TypeInv /\ LastQueued /\ [Next]_vars => LastQueued'
  <2>1. UNCHANGED vars /\ LastQueued => LastQueued'
    BY DEF vars, LastQueued, Arriving
  <2>. QED BY <2>1, StepLastQueued DEF Next, Recorded
<1>. QED BY <1>1, <1>2, ServerTypeInv, PTL DEF Spec

(* A handler that blocks reads from its own client, which is the newest    *)
(* one or, until the accept thread has closed its socket, the current one. *)
LEMMA BlockedAreInControl ==
  ASSUME Serial, NEW c \in Conns, Blocked(c)
  PROVE  /\ rx[c] = c /\ sock[c] = "open"
         /\ c = newest \/ (c = current /\ pc[Accept] \notin {"uncmd", "set_id"})
<1>1. rx[c] \in Conns /\ sock[rx[c]] = "open" /\ pc[c] = "recv"
  BY DEF Blocked, Readable
<1>2. rx[c] = c
  BY <1>1, NamesAreDistinct DEF Serial, Apart
<1>3. ~Leaving(c)
  BY <1>1 DEF Leaving, KickLabels
<1>. QED BY <1>1, <1>2, <1>3 DEF Serial, Succession, Opens

(* Under the same condition no handler that waits for a worker is kept     *)
(* waiting by one that blocks: the workers that a handler could wait for   *)
(* all go on, with however few of them the pool was made (server.cpp 104,  *)
(* 125-147, server-layer.cpp 189-216, threads.cpp 26).                     *)
THEOREM QueueIsServed == Spec => []QueueGoesOn
<1>1. ASSUME TypeInv, Lives, LateInv, Orderly, LastQueued
      PROVE  QueueGoesOn
  <2>1. SUFFICES ASSUME ~raced, ~reused, pc[Accept] = "accept", queue # <<>>,
                        NEW c \in Conns, Blocked(c)
                 PROVE  FALSE
    BY DEF QueueGoesOn
  <2>2. Serial
    BY <1>1, <2>1, CalmIsSerial
  <2>3. c = newest
    BY <2>1, <2>2, BlockedAreInControl
       DEF Serial, Succession, Names, GrantLabels, KickLabels
  <2>4. queue[Len(queue)] = newest
    BY <1>1, <2>1 DEF LastQueued, Arriving
  <2>5. Len(queue) \in DOMAIN queue
    <3>1. queue \in Seq(Conns)
      BY <1>1 DEF TypeInv, Places, QueueHoldsWaiting
    <3>. QED BY <2>1, <3>1
  <2>6. pc[newest] = "queued"
    BY <1>1, <2>3, <2>4, <2>5 DEF TypeInv, Places, QueueHoldsWaiting
  <2>. QED BY <2>1, <2>3, <2>6 DEF Blocked
<1>. QED
  BY <1>1, ServerTypeInv, ServerLateInv, SpecOrderly, SpecLastQueued, PTL

-----------------------------------------------------------------------------
(* The handler of a connection that was closed.  That it ends is a         *)
(* liveness property; here is what it rests on, as long as no handle is    *)
(* given while someone holds it.                                           *)

(* The most steps that a handler has left when its socket is closed.       *)
EndsIn ==
  [done |-> 0, kick_close |-> 1, kick_erase |-> 2, kick_cmds |-> 3, kick_id |-> 4,
   kick_flag |-> 5, kick_test |-> 6, recv |-> 7, call |-> 8, lookup |-> 9,
   find |-> 10, send_lookup |-> 11, send |-> 12, exec |-> 13, check |-> 14,
   queued |-> 14, none |-> 15]

(* A closed connection does not keep its handler in recv, and each step of *)
(* the handler brings its end nearer: it goes through the loop of          *)
(* HandleConnectionThreadFn at most once more.                             *)
ClosedReleases == reused \/ \A c \in Conns : sock[c] = "closed" => ~Blocked(c)

ClosedEnds ==
  \A c \in Conns : sock[c] = "closed" /\ ~reused /\ pc'[c] # pc[c] =>
    EndsIn[pc'[c]] < EndsIn[pc[c]]

(* A step of a thread moves no handler but its own.                        *)
LEMMA OthersStay ==
  ASSUME TypeInv, NEW c \in Conns, pc'[c] # pc[c],
         NEW t \in Threads, NEW from, NEW to, Goto(t, from, to)
  PROVE  t = c
  BY Moved

LEMMA HandlerMoves ==
  ASSUME TypeInv, NEW c \in Conns, pc'[c] # pc[c], Step, ~EnqueueHandler
  PROVE  Handler(c)
<1>1. c \in Threads /\ c # Accept /\ c \notin Senders /\ Accept \in Threads
      /\ Conns \subseteq Threads /\ Senders \subseteq Threads
  BY NamesAreDistinct DEF Threads
<1>2. ASSUME NEW t \in Threads, KickClient(t) \/ SendBuffer(t)
      PROVE  t = c
  BY <1>2, OthersStay DEF KickClient, KickTest, KickFlag, KickId, KickCmds, KickErase,
     KickClose, SendBuffer, SendFind, SendLookup
<1>3. ASSUME NEW d \in Conns, ClientSends(d) \/ ClientLeaves(d)
      PROVE  FALSE
  BY <1>3 DEF ClientSends, ClientLeaves
<1>4. ASSUME NEW d \in Conns, Handler(d)
      PROVE  d = c
  <2>1. CASE KickClient(d) \/ SendBuffer(d)
    BY <1>1, <1>2, <2>1
  <2>2. CASE \/ HandlerStarts(d) \/ HandlerFind(d) \/ HandlerLookup(d) \/ HandlerCall(d)
             \/ RecvFails(d) \/ RecvReturns(d) \/ Check(d) \/ Type(d) \/ Execute(d)
    BY <1>1, <2>2, OthersStay DEF HandlerStarts, HandlerFind, HandlerLookup, HandlerCall,
       RecvFails, RecvReturns, Check, Type, Execute
  <2>. QED BY <1>4, <2>1, <2>2 DEF Handler
<1>5. ASSUME NEW d \in Conns, NEW h \in Handles, AcceptConnection(d, h)
      PROVE  FALSE
  BY <1>1, <1>5, OthersStay DEF AcceptConnection
<1>6. CASE AcceptThread
  <2>1. CASE KickClient(Accept) \/ SendBuffer(Accept)
    BY <1>1, <1>2, <2>1
  <2>2. CASE \/ Insert \/ Connect \/ ConnectTest \/ Victim \/ EraseCmds \/ SetId
             \/ SetConnected
    BY <1>1, <2>2, OthersStay DEF Insert, Connect, ConnectTest, Victim, EraseCmds, SetId,
       SetConnected
  <2>. QED BY <1>1, <1>6, <2>1, <2>2 DEF AcceptThread, OnClientConnected
<1>7. ASSUME NEW t \in Senders, SenderThread(t)
      PROVE  FALSE
  <2>1. t \in Threads /\ t # c
    BY <1>1
  <2>. QED BY <1>2, <1>7, <2>1, OthersStay
           DEF SenderThread, SenderTest, SenderNonzero, SenderRead
<1>. QED BY <1>3, <1>4, <1>5, <1>6, <1>7 DEF Step

LEMMA HandlerEnds ==
  ASSUME TypeInv, NEW c \in Conns, Handler(c), ~Blocked(c), sock[c] = "closed",
         rx[c] \in {c, Nobody}
  PROVE  EndsIn[pc'[c]] < EndsIn[pc[c]]
<1>1. c \in Threads /\ c # Accept /\ c \notin Senders
  BY NamesAreDistinct DEF Threads
<1>2. ASSUME NEW from, NEW to, Goto(c, from, to)
      PROVE  pc[c] = from /\ pc'[c] = to
  BY <1>1, <1>2, Moved
<1>3. AfterKick(c) = "done" /\ AfterSend(c) = "find"
  BY <1>1 DEF AfterKick, AfterSend
<1>4. CASE KickTest(c) \/ KickFlag(c) \/ KickId(c) \/ KickCmds(c) \/ KickErase(c)
  BY <1>2, <1>4 DEF KickTest, KickFlag, KickId, KickCmds, KickErase, EndsIn
<1>5. CASE KickClose(c)
  BY <1>2, <1>3, <1>5 DEF KickClose, EndsIn
<1>6. CASE SendFind(c) \/ SendLookup(c)
  BY <1>2, <1>3, <1>6 DEF SendFind, SendLookup, EndsIn
<1>7. CASE HandlerStarts(c) \/ HandlerFind(c) \/ HandlerLookup(c) \/ HandlerCall(c)
  BY <1>2, <1>7 DEF HandlerStarts, HandlerFind, HandlerLookup, HandlerCall, EndsIn
<1>8. CASE RecvFails(c) \/ Check(c) \/ Type(c) \/ Execute(c)
  BY <1>2, <1>8 DEF RecvFails, Check, Type, Execute, EndsIn
<1>9. ~RecvReturns(c)
  BY NamesAreDistinct DEF RecvReturns, Readable
<1>. QED BY <1>4, <1>5, <1>6, <1>7, <1>8, <1>9 DEF Handler, KickClient, SendBuffer

(* A kick ends the handler of the client that it was for, whatever that    *)
(* handler is doing: none waits in recv on a socket that has been closed,  *)
(* and its loop is left the next time that recv is reached, unless the     *)
(* handle has been given again.  KickedHandlerEnds follows if the handler  *)
(* is scheduled (server.cpp 116-147, 192-200).                             *)
THEOREM ClosedHandlersEnd == Spec => []ClosedReleases /\ [][ClosedEnds]_vars
<1>1. LateInv => ClosedReleases
  BY NamesAreDistinct DEF LateInv, Apart, ClosedReleases, Blocked, Readable
<1>2. ASSUME TypeInv, LateInv, Step
      PROVE  ClosedEnds
  <2>1. SUFFICES ASSUME NEW c \in Conns, sock[c] = "closed", ~reused, pc'[c] # pc[c]
                 PROVE  EndsIn[pc'[c]] < EndsIn[pc[c]]
    BY DEF ClosedEnds
  <2>2. CASE EnqueueHandler
    <3>1. newest \in Conns /\ pc[newest] = "none"
      BY <1>2, <2>2 DEF EnqueueHandler, TypeInv, Places, Incoming
    <3>2. \A d \in Conns : pc'[d] = IF d = newest THEN "queued" ELSE pc[d]
      BY <1>2, <2>2, <3>1, NamesAreDistinct
         DEF EnqueueHandler, TypeInv, Places, PcTypes, Threads
    <3>. QED BY <2>1, <3>1, <3>2 DEF EndsIn
  <2>3. CASE ~EnqueueHandler
    <3>1. Handler(c)
      BY <1>2, <2>1, <2>3, HandlerMoves
    <3>2. rx[c] \in {c, Nobody} /\ ~Blocked(c)
      BY <1>1, <1>2, <2>1 DEF LateInv, Apart, ClosedReleases
    <3>. QED BY <1>2, <2>1, <3>1, <3>2, HandlerEnds
  <2>. QED BY <2>2, <2>3
<1>3. TypeInv /\ LateInv /\ [Next]_vars => [ClosedEnds]_vars
  BY <1>2 DEF Next, Recorded
<1>. QED BY <1>1, <1>3, ServerTypeInv, ServerLateInv, PTL DEF Spec

-----------------------------------------------------------------------------
(* Control passes from client to client as in Ownership.                   *)

Known == {c \in Conns : sock[c] # "away"}

(* A step that changes neither who is in control nor who asks for it.      *)
LEMMA PassesNothing ==
  ASSUME Owners' = Owners, Asking' = Asking, Known' = Known, left' = left
  PROVE  UNCHANGED Passing!ovars
<1>1. Owner' = Owner
  BY DEF Owner
<1>. QED BY <1>1 DEF Passing!ovars, Known

(* The owner, if there is one, has left or is asked to make room.          *)
LEMMA PassesRelease ==
  ASSUME Owners' = {}, Asking' = Asking, Known' = Known, left' = left,
         Owners # {} => Owner \in left \/ (Owner # Nobody /\ Asking # Nobody)
  PROVE  Passing!ONext \/ UNCHANGED Passing!ovars
<1>1. CASE Owners = {}
  BY <1>1, PassesNothing
<1>2. CASE Owners # {}
  <2>1. Owner' = Nobody
    BY DEF Owner
  <2>2. Passing!Release
    BY <1>2, <2>1 DEF Passing!Release, Known
  <2>. QED BY <2>2 DEF Passing!ONext
<1>. QED BY <1>1, <1>2

LEMMA OwnersAreCurrent ==
  ASSUME Serial
  PROVE  /\ Owners \subseteq {current}
         /\ Owners # {} => Owner = current /\ Owner \in Conns
<1>1. Owners \subseteq {current} /\ Owners \subseteq Conns
  BY OwnerIsCurrent DEF Serial, Owners, OpenAt
<1>. QED BY <1>1 DEF Owner

LEMMA HandlerPasses ==
  ASSUME Serial, ~Overlap', NEW c \in Conns, Handler(c)
  PROVE  Passing!ONext \/ UNCHANGED Passing!ovars
<1>1. UNCHANGED <<left, id, newest>> /\ pc'[Accept] = pc[Accept]
  <2>1. /\ UNCHANGED <<left, id, newest>>
        /\ \E from, to : Goto(c, from, to)
    BY DEF Handler, HandlerStarts, HandlerFind, HandlerLookup, HandlerCall,
           RecvFails,
       RecvReturns, Check, Type, Execute, SendBuffer, SendFind, SendLookup,
       KickClient,
       KickTest, KickFlag, KickId, KickCmds, KickErase, KickClose, client,
       history
  <2>. QED BY <2>1, Moved, NamesAreDistinct DEF Serial, Threads
<1>2. Asking' = Asking
  BY <1>1 DEF Asking
<1>3. CASE KickFlag(c)
  <2>1. /\ pc[c] = "kick_flag" /\ connected' = FALSE /\ UNCHANGED sock
    BY <1>3 DEF KickFlag, Goto
  <2>2. ~Granting /\ c = current /\ c \in left
    BY <2>1, ReleaserIsNewest
  <2>3. Owners' = {}
    BY <1>1, <2>1, <2>2 DEF Owners, Granting
  <2>. QED
    BY <1>1, <1>2, <2>1, <2>2, <2>3, OwnersAreCurrent, PassesRelease DEF Known
<1>4. CASE KickId(c)
  <2>1. /\ pc[c] = "kick_id" /\ UNCHANGED <<sock, connected>>
    BY <1>4 DEF KickId, Goto
  <2>2. ~Granting /\ ~connected
    BY <2>1, ReleaserIsNewest DEF Serial, Succession, Kicks
  <2>3. Owners' = {} /\ Owners = {}
    BY <1>1, <2>1, <2>2 DEF Owners, Granting
  <2>. QED BY <1>1, <1>2, <2>1, <2>3, PassesNothing DEF Known
<1>5. CASE KickClose(c)
  <2>1. /\ pc[c] = "kick_close" /\ KickedId(c) = id[c]
        /\ UNCHANGED <<active, connected>>
        /\ \A d \in Conns : sock'[d] = IF d \in OpenAt(id[c]) THEN "closed" ELSE sock[d]
    BY <1>5, NamesAreDistinct DEF KickClose, KickedId, Goto, owning
  <2>2. id[c] # active
    BY <2>1 DEF Serial, Succession, Kicks
  <2>3. OpenAt(active)' = OpenAt(active)
    BY <1>1, <2>1, <2>2 DEF OpenAt
  <2>4. Owners' = Owners
    BY <1>1, <2>1, <2>3 DEF Owners
  <2>5. Known' = Known
    BY <2>1 DEF Known, OpenAt
  <2>. QED BY <1>1, <1>2, <2>4, <2>5, PassesNothing
<1>6. CASE ~(KickFlag(c) \/ KickId(c) \/ KickClose(c))
  <2>1. UNCHANGED <<sock, active, connected>>
    BY <1>6 DEF Handler, HandlerStarts, HandlerFind, HandlerLookup, HandlerCall,
           RecvFails,
       RecvReturns, Check, Type, Execute, SendBuffer, SendFind, SendLookup,
       KickClient,
       KickTest, KickCmds, KickErase, client, owning
  <2>2. Owners' = Owners /\ Known' = Known
    BY <1>1, <2>1 DEF Owners, OpenAt, Known
  <2>. QED BY <1>1, <1>2, <2>2, PassesNothing
<1>. QED BY <1>3, <1>4, <1>5, <1>6

LEMMA AcceptThreadPasses ==
  ASSUME Serial, ~Overlap', AcceptThread
  PROVE  Passing!ONext \/ UNCHANGED Passing!ovars
<1>1. UNCHANGED <<left, id, newest>>
  BY DEF AcceptThread, Insert, EnqueueHandler, OnClientConnected, Connect,
         ConnectTest,
     Victim, EraseCmds, SetId, SetConnected, SendBuffer, SendFind, SendLookup,
     KickClient,
     KickTest, KickFlag, KickId, KickCmds, KickErase, KickClose, client, history
<1>2. Accept \in Threads
  BY DEF Threads
<1>3. newest # Nobody \/ pc[Accept] = "accept"
  BY NamesAreDistinct DEF Serial, TypeInv, Places, Incoming
<1>4. CASE SetId
  <2>1. /\ pc[Accept] = "set_id" /\ pc'[Accept] = "set_connected"
        /\ newest \in Conns /\ active' = id[newest]
        /\ UNCHANGED <<sock, connected>>
    BY <1>2, <1>4, Moved DEF SetId, Serial, TypeInv, Places, Incoming
  <2>2. Owners = {}
    BY <2>1 DEF Owners, Serial, Succession, Grants, Removed
  <2>3. sock[newest] = "open"
    BY <2>1, NamesAreDistinct
       DEF Serial, Overlap, Granting, Leaving, Succession, Remains, Stays,
           GrantLabels, KickLabels
  <2>4. Owners' = {newest}
    BY <1>1, <2>1, <2>3 DEF Owners, OpenAt, Serial, TypeInv, Places,
           HandlesApart
  <2>5. Owner = Nobody /\ Owner' = newest
    BY <2>2, <2>4 DEF Owner
  <2>6. Asking = newest /\ Asking' = Nobody
    BY <2>1 DEF Asking, GrantLabels, KickLabels
  <2>7. Known' = Known /\ newest \in Known
    BY <2>1, <2>3 DEF Known
  <2>8. Known' \ {Nobody} = (Known \ {newest}) \cup {newest}
    BY <2>7, NamesAreDistinct DEF Known
  <2>9. Passing!Grant
    BY <1>1, <2>1, <2>5, <2>6, <2>8, NamesAreDistinct DEF Passing!Grant, Known
  <2>. QED BY <2>9 DEF Passing!ONext
<1>5. CASE KickFlag(Accept)
  <2>1. /\ pc[Accept] = "kick_flag" /\ pc'[Accept] = "kick_id"
        /\ connected' = FALSE /\ UNCHANGED sock
    BY <1>2, <1>5, Moved DEF KickFlag, Serial
  <2>2. Owners' = {}
    BY <2>1 DEF Owners
  <2>3. Asking' = Asking /\ Asking # Nobody
    BY <1>1, <1>3, <2>1 DEF Asking, GrantLabels, KickLabels
  <2>4. Owners # {} => Owner # Nobody
    BY OwnersAreCurrent, NamesAreDistinct
  <2>. QED BY <1>1, <2>1, <2>2, <2>3, <2>4, PassesRelease DEF Known
<1>6. CASE KickId(Accept) \/ KickClose(Accept)
  <2>1. /\ pc[Accept] \in {"kick_id", "kick_close"}
        /\ pc'[Accept] \in {"kick_cmds", "kick_erase", "uncmd", "set_id"}
        /\ connected' = connected
    BY <1>2, <1>6, Moved DEF KickId, KickClose, AfterKick, owning, Serial
  <2>2. ~connected
    BY <2>1 DEF Serial, Succession, Grants, Removed
  <2>3. Owners = {} /\ Owners' = {}
    BY <2>1, <2>2 DEF Owners
  <2>4. Known' = Known
    BY <1>6 DEF KickId, KickClose, Known, OpenAt
  <2>5. Asking' = Asking
    BY <1>1, <2>1 DEF Asking, GrantLabels, KickLabels
  <2>. QED BY <1>1, <2>3, <2>4, <2>5, PassesNothing
<1>7. CASE SetConnected
  <2>1. /\ pc[Accept] = "set_connected" /\ pc'[Accept] \in {"send", "accept"}
        /\ connected' = TRUE /\ UNCHANGED <<sock, active>>
    BY <1>2, <1>7, Moved DEF SetConnected, Serial
  <2>2. Owners' = Owners /\ Known' = Known /\ Asking' = Asking
    BY <1>1, <2>1 DEF Owners, OpenAt, Known, Asking, GrantLabels, KickLabels
  <2>. QED BY <1>1, <2>2, PassesNothing
<1>8. CASE SendBuffer(Accept)
  <2>1. UNCHANGED <<sock, active, connected>> /\ AfterSend(Accept) = "accept"
    BY <1>8, NamesAreDistinct DEF SendBuffer, SendFind, SendLookup, owning,
           AfterSend
  <2>2. /\ pc[Accept] \in {"send", "send_lookup"}
        /\ pc'[Accept] \in {"send_lookup", "accept"}
    BY <1>2, <1>8, <2>1, Moved DEF SendBuffer, SendFind, SendLookup, Serial
  <2>3. Owners' = Owners /\ Known' = Known /\ Asking' = Asking
    BY <1>1, <2>1, <2>2 DEF Owners, OpenAt, Known, Asking, GrantLabels,
           KickLabels
  <2>. QED BY <1>1, <2>3, PassesNothing
<1>9. CASE \/ Insert \/ EnqueueHandler \/ Connect \/ ConnectTest \/ Victim \/ EraseCmds
           \/ KickTest(Accept) \/ KickCmds(Accept) \/ KickErase(Accept)
  <2>1. UNCHANGED <<sock, active, connected>>
    BY <1>9 DEF Insert, EnqueueHandler, Connect, ConnectTest, Victim, EraseCmds,
           KickTest,
       KickCmds, KickErase, owning
  <2>2. pc[Accept] \in GrantLabels /\ pc'[Accept] \in GrantLabels
    <3>1. CASE EnqueueHandler
      BY <3>1, NamesAreDistinct
         DEF EnqueueHandler, GrantLabels, Serial, TypeInv, Places, PcTypes,
             Incoming, Threads
    <3>2. CASE Connect
      BY <1>2, <3>2, Moved
         DEF Connect, Goto, GrantLabels, Serial, Succession, Grants
    <3>3. CASE \/ Insert \/ ConnectTest \/ Victim \/ EraseCmds \/ KickTest(Accept)
               \/ KickCmds(Accept) \/ KickErase(Accept)
      BY <1>2, <3>3, Moved
         DEF Insert, ConnectTest, Victim, EraseCmds, KickTest, KickCmds,
             KickErase,
             GrantLabels, KickLabels, Serial
    <3>. QED BY <1>9, <3>1, <3>2, <3>3
  <2>3. Owners' = Owners /\ Known' = Known /\ Asking' = Asking
    BY <1>1, <2>1, <2>2 DEF Owners, OpenAt, Known, Asking, GrantLabels,
           KickLabels
  <2>. QED BY <1>1, <2>3, PassesNothing
<1>. QED
  BY <1>4, <1>5, <1>6, <1>7, <1>8, <1>9 DEF AcceptThread, OnClientConnected,
         KickClient

LEMMA StepPasses ==
  ASSUME Serial, Step, ~Overlap', ~reused'
  PROVE  Passing!ONext \/ UNCHANGED Passing!ovars
<1>1. ASSUME NEW c \in Conns, ClientSends(c)
      PROVE  UNCHANGED Passing!ovars
  BY <1>1, PassesNothing DEF ClientSends, owning, history, Owners, OpenAt,
         Known, Asking
<1>2. ASSUME NEW c \in Conns, ClientLeaves(c)
      PROVE  Passing!ONext
  <2>1. /\ left' = left \cup {c}
        /\ UNCHANGED <<sock, id, pc, active, connected, newest>>
    BY <1>2 DEF ClientLeaves, owning, history
  <2>2. Owners' = Owners
    BY <2>1 DEF Owners, OpenAt
  <2>3. Owner' = Owner
    BY <2>2 DEF Owner
  <2>4. Passing!Leave(c)
    BY <2>1, <2>3 DEF Passing!Leave, Asking
  <2>. QED BY <2>4 DEF Passing!ONext
<1>3. ASSUME NEW c \in Conns, NEW h \in Handles, AcceptConnection(c, h)
      PROVE  Passing!ONext
  <2>1. h # active
    BY <1>3 DEF AcceptConnection, StillHeld
  <2>2. /\ pc[Accept] = "accept" /\ pc'[Accept] = "insert" /\ newest' = c
        /\ sock[c] = "away"
        /\ \A d \in Conns : sock'[d] = IF d = c THEN "open" ELSE sock[d]
        /\ \A d \in Conns : id'[d] = IF d = c THEN h ELSE id[d]
        /\ UNCHANGED <<left, active, connected>>
    BY <1>3, Moved
       DEF AcceptConnection, client, owning, Serial, TypeInv, FieldTypes,
           Threads
  <2>3. Owners' = Owners
    BY <2>1, <2>2 DEF Owners, OpenAt
  <2>4. Owner' = Owner
    BY <2>3 DEF Owner
  <2>5. Asking = Nobody /\ Asking' = c
    BY <2>2 DEF Asking, GrantLabels, KickLabels
  <2>6. Known' \ {c} = Known \ {Nobody} /\ c \notin Known
    BY <2>2, NamesAreDistinct DEF Known
  <2>7. Passing!Ask(c)
    BY <2>2, <2>4, <2>5, <2>6 DEF Passing!Ask, Known
  <2>. QED BY <2>7 DEF Passing!ONext
<1>4. ASSUME NEW t \in Senders, SenderThread(t)
      PROVE  UNCHANGED Passing!ovars
  <2>1. /\ UNCHANGED <<sock, left, id, active, connected, newest>>
        /\ \E from, to : Goto(t, from, to)
    BY <1>4 DEF SenderThread, SenderTest, SenderNonzero, SenderRead, SendBuffer,
       SendFind, SendLookup, client, owning, history
  <2>2. pc'[Accept] = pc[Accept]
    BY <2>1, Moved, NamesAreDistinct DEF Serial, Threads
  <2>. QED BY <2>1, <2>2, PassesNothing DEF Owners, OpenAt, Known, Asking
<1>. QED BY <1>1, <1>2, <1>3, <1>4, HandlerPasses, AcceptThreadPasses DEF Step

(* Control of the device passes from client to client as the README        *)
(* promises (Ownership): a client gets it when it connects, when nobody    *)
(* has it, and loses it only when it has left or a newer client asks       *)
(* (server-layer.cpp 189-216, server.cpp 182-200), as long as changes of   *)
(* owner do not overlap and no handle is given while someone holds it.     *)
THEOREM ControlPasses == Spec => ControlIsHandedOver
<1>1. ASSUME TypeInv, Lives, LateInv, Orderly, [Next]_vars
      PROVE  [raced' \/ reused' \/ Passing!ONext \/ UNCHANGED Passing!ovars]_vars
  <2>1. SUFFICES ASSUME Next, ~raced', ~reused'
                 PROVE  Passing!ONext \/ UNCHANGED Passing!ovars
    BY <1>1
  <2>2. Step /\ ~raced /\ ~Overlap'
    BY <2>1 DEF Next, Recorded
  <2>3. ~reused
    BY <2>1, <2>2, StepReused
  <2>4. Serial
    BY <1>1, <2>2, <2>3, CalmIsSerial
  <2>. QED BY <2>1, <2>2, <2>4, StepPasses
<1>. QED
  BY <1>1, ServerTypeInv, ServerLateInv, SpecOrderly, PTL DEF Spec,
         ControlIsHandedOver

=============================================================================
