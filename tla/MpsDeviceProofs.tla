-------------------------- MODULE MpsDeviceProofs --------------------------
(***************************************************************************)
(* Theorems about MpsDevice, for any set of callers, any bound on frames   *)
(* and any set of frame counts.                                            *)
(***************************************************************************)
EXTENDS MpsDevice, TLAPS

-----------------------------------------------------------------------------
(* Type correctness.                                                       *)

LEMMA InitTypeOK ==
  ASSUME Init
  PROVE  TypeOK
<1>1. /\ pc \in [Threads -> CallerLabels \cup ScanLabels \cup MainLabels]
      /\ \A t \in Callers : pc[t] \in CallerLabels
      /\ pc[ScanThread] \in ScanLabels
      /\ pc[MainThread] \in MainLabels
  BY ThreadsAreDistinct
     DEF Init, Threads, CallerLabels, ScanLabels, MainLabels
<1>2. frame \in 1 .. MaxFrame
  BY FrameBound DEF Init
<1>3. late \in 0 .. 2
  BY DEF Init
<1>. QED
  BY <1>1, <1>2, <1>3 DEF Init, TypeOK, Statuses

(* A thread that moves to a label of its own leaves every thread at a      *)
(* label of its own.                                                       *)
LEMMA GotoType ==
  ASSUME TypeOK,
         NEW t \in Threads, NEW from, NEW to, Goto(t, from, to),
         t \in Callers => to \in CallerLabels,
         t = ScanThread => to \in ScanLabels,
         t = MainThread => to \in MainLabels
  PROVE  /\ pc' \in [Threads -> CallerLabels \cup ScanLabels \cup MainLabels]
         /\ \A u \in Callers : pc'[u] \in CallerLabels
         /\ pc'[ScanThread] \in ScanLabels
         /\ pc'[MainThread] \in MainLabels
  BY ThreadsAreDistinct DEF TypeOK, Goto, Threads

LEMMA StartScanTypeOK ==
  ASSUME TypeOK, NEW t \in Callers, StartScan(t),
         raced' \in BOOLEAN
  PROVE  TypeOK'
<1>1. t \in Threads /\ t # ScanThread /\ t # MainThread
  BY ThreadsAreDistinct DEF Threads
<1>. USE GotoType, <1>1 DEF TypeOK, CallerLabels, flags, thread, Statuses
<1>2. CASE StartCall(t)    BY <1>2 DEF StartCall
<1>3. CASE StartCheck(t)   BY <1>3 DEF StartCheck
<1>4. CASE StartPrepare(t) BY <1>4 DEF StartPrepare
<1>5. CASE StartFlag(t)    BY <1>5 DEF StartFlag
<1>6. CASE StartStatus(t)  BY <1>6 DEF StartStatus
<1>7. CASE StartNotify(t)  BY <1>7 DEF StartNotify
<1>. QED BY <1>2, <1>3, <1>4, <1>5, <1>6, <1>7 DEF StartScan

LEMMA StopScanTypeOK ==
  ASSUME TypeOK, NEW t \in Threads,
         StopScan(t) \/ (t # ScanThread /\ StopCall(t)),
         raced' \in BOOLEAN
  PROVE  TypeOK'
<1>1. /\ t = ScanThread => t # MainThread /\ t \notin Callers
      /\ t \notin Callers => t = ScanThread \/ t = MainThread
      /\ t = MainThread => t \notin Callers
  BY ThreadsAreDistinct DEF Threads
<1>. USE GotoType, <1>1 DEF TypeOK, CallerLabels, ScanLabels, MainLabels,
         StopLabels, AfterStop, flags, thread, Statuses
<1>2. CASE t # ScanThread /\ StopCall(t) BY <1>2 DEF StopCall
<1>3. CASE StopCheck(t)  BY <1>3 DEF StopCheck
<1>4. CASE StopClear(t)
  <2>1. late' \in 0 .. 2 BY <1>4 DEF StopClear
  <2>. QED BY <1>4, <2>1 DEF StopClear
<1>5. CASE StopStatus(t)
  <2>1. CASE Goto(t, "stop_status", AfterStop(t)) BY <1>5, <2>1 DEF StopStatus
  <2>2. CASE Goto(t, "stop_status", "stop_notify") BY <1>5, <2>2 DEF StopStatus
  <2>. QED BY <1>5, <2>1, <2>2 DEF StopStatus
<1>6. CASE StopNotify(t) BY <1>6 DEF StopNotify
<1>. QED BY <1>2, <1>3, <1>4, <1>5, <1>6 DEF StopScan

LEMMA CalZTypeOK ==
  ASSUME TypeOK, NEW t \in Callers,
         CalZ(t) \/ \E n \in FpsValues : SetFps(t, n),
         raced' \in BOOLEAN
  PROVE  TypeOK'
<1>1. t \in Threads /\ t # ScanThread /\ t # MainThread
  BY ThreadsAreDistinct DEF Threads
<1>. USE GotoType, <1>1 DEF TypeOK, CallerLabels, flags, thread, Statuses
<1>2. CASE CalzCall(t)   BY <1>2 DEF CalzCall
<1>3. CASE CalzFlag(t)   BY <1>3 DEF CalzFlag
<1>4. CASE CalzStatus(t) BY <1>4 DEF CalzStatus
<1>5. CASE CalzNotify(t) BY <1>5 DEF CalzNotify
<1>6. CASE \E n \in FpsValues : SetFps(t, n) BY <1>6 DEF SetFps
<1>. QED BY <1>2, <1>3, <1>4, <1>5, <1>6 DEF CalZ

LEMMA ScanThreadTypeOK ==
  ASSUME TypeOK, ScanThreadFn, raced' \in BOOLEAN
  PROVE  TypeOK'
<1>1. ScanThread \in Threads /\ ScanThread \notin Callers
      /\ ScanThread # MainThread
  BY ThreadsAreDistinct DEF Threads
<1>. USE GotoType, <1>1, FrameBound
     DEF TypeOK, ScanLabels, StopLabels, flags, thread, Statuses
<1>2. CASE RunTest   BY <1>2 DEF RunTest
<1>3. CASE CalTest   BY <1>3 DEF CalTest
<1>4. CASE CalClear  BY <1>4 DEF CalClear
<1>5. CASE CalStatus BY <1>5 DEF CalStatus
<1>6. CASE CalNotify BY <1>6 DEF CalNotify
<1>7. CASE Begin
  <2>1. 1 \in 1 .. MaxFrame BY FrameBound
  <2>. QED BY <1>7, <2>1 DEF Begin
<1>8. CASE ScanTest  BY <1>8 DEF ScanTest
<1>9. CASE Emit      BY <1>9 DEF Emit
<1>10. CASE FpsTest  BY <1>10 DEF FpsTest
<1>11. CASE NextFrame BY <1>11 DEF NextFrame
<1>12. CASE StopScan(ScanThread) BY <1>12, StopScanTypeOK
<1>. QED
  BY <1>2, <1>3, <1>4, <1>5, <1>6, <1>7, <1>8, <1>9, <1>10, <1>11, <1>12
     DEF ScanThreadFn

LEMMA ShutdownTypeOK ==
  ASSUME TypeOK, Shutdown, raced' \in BOOLEAN
  PROVE  TypeOK'
<1>1. MainThread \in Threads /\ MainThread \notin Callers
      /\ ScanThread # MainThread
  BY ThreadsAreDistinct DEF Threads
<1>. USE GotoType, <1>1 DEF TypeOK, MainLabels, flags, thread, Statuses
<1>2. CASE StopScan(MainThread) BY <1>2, StopScanTypeOK
<1>3. CASE ShutdownOff  BY <1>3 DEF ShutdownOff
<1>4. CASE ShutdownJoin BY <1>4 DEF ShutdownJoin
<1>. QED BY <1>2, <1>3, <1>4 DEF Shutdown

LEMMA NextTypeOK ==
  ASSUME TypeOK, [Next]_vars
  PROVE  TypeOK'
<1>1. CASE UNCHANGED vars
  BY <1>1 DEF TypeOK, vars
<1>2. CASE Next
  <2>1. Step /\ raced' \in BOOLEAN
    <3>1. (raced \/ Overlap') \in BOOLEAN
      BY DEF TypeOK, Overlap
    <3>. QED BY <1>2, <3>1 DEF Next, Recorded
  <2>2. ASSUME NEW t \in Callers,
               Command(t) \/ StopCall(t) \/ \E n \in FpsValues : SetFps(t, n)
        PROVE  TypeOK'
    <3>1. t \in Threads /\ t # ScanThread
      BY ThreadsAreDistinct DEF Threads
    <3>. QED
      BY <2>1, <2>2, <3>1, StartScanTypeOK, StopScanTypeOK, CalZTypeOK
         DEF Command
  <2>3. CASE ScanThreadFn BY <2>1, <2>3, ScanThreadTypeOK
  <2>4. CASE StopCall(MainThread)
    BY <2>1, <2>4, StopScanTypeOK, ThreadsAreDistinct DEF Threads
  <2>5. CASE Shutdown BY <2>1, <2>5, ShutdownTypeOK
  <2>. QED BY <2>1, <2>2, <2>3, <2>4, <2>5 DEF Step
<1>. QED BY <1>1, <1>2

(* Type correctness: in particular the frame number stays within the bound *)
(* that saturates it, and every thread stays at labels of its own.         *)
THEOREM TypeCorrect == Spec => []TypeOK
<1>1. Init => TypeOK
  BY InitTypeOK
<1>2. TypeOK /\ [Next]_vars => TypeOK'
  BY NextTypeOK
<1>. QED BY <1>1, <1>2, PTL DEF Spec

-----------------------------------------------------------------------------
(* Inductive invariants.                                                   *)

(* A late frame can only follow the test of m_Scanning that let it begin,  *)
(* so none has been counted when a frame is in the making.                 *)
LateInv ==
  /\ late \in 0 .. 1
  /\ m_Scanning => late = 0
  /\ pc[ScanThread] = "emit" => late = 0

(* What a thread inside an operation relies on.  It holds while no two     *)
(* threads have been inside one together.                                  *)
SerialInv ==
  ~raced =>
    /\ ~Overlap
    /\ \A t \in Threads :
         /\ pc[t] \in {"start_prepare", "start_flag", "stop_status"}
              => ~m_Scanning
         /\ pc[t] \in {"start_status", "stop_clear"} => m_Scanning
         /\ pc[t] \in {"calz_status", "cal_clear"} => m_Calibrating
         /\ pc[t] = "cal_status" => ~m_Calibrating
    /\ m_Status = "SCAN" =>
         m_Scanning \/ \E t \in Threads : pc[t] = "stop_status"
    /\ m_Status = "CALZ" =>
         m_Calibrating \/ \E t \in Threads : pc[t] = "cal_status"

(* Where the scan thread is in a scan loop that it entered for the present *)
(* scan, and how far the frame number has got there.                       *)
LoopInv ==
  (frame_start = "current" /\ ~raced) =>
    /\ (\E t \in Threads : pc[t] = "start_flag") =>
         /\ pc[ScanThread] \notin {"emit", "fps", "next"} \cup StopLabels
         /\ pc[ScanThread] = "scan" => frame = 1
    /\ (fps # 0 /\ ~fpsMoved) =>
         /\ pc[ScanThread] \in {"emit", "fps", "stop_check", "stop_clear"}
              => frame <= fps
         /\ pc[ScanThread] \in {"stop_status", "stop_notify", "next"}
              => frame < fps \/ ~m_Scanning
         /\ pc[ScanThread] = "scan"
              => \/ frame <= fps
                 \/ ~m_Scanning /\ \A t \in Threads : pc[t] # "start_flag"

-----------------------------------------------------------------------------
(* At most one late frame.                                                 *)

LEMMA GotoEffect ==
  ASSUME TypeOK, NEW t \in Threads, NEW from, NEW to, Goto(t, from, to)
  PROVE  /\ pc[t] = from
         /\ pc'[t] = to
         /\ \A u \in Threads \ {t} : pc'[u] = pc[u]
  BY DEF TypeOK, Goto

(* A step that neither moves the scan thread to "emit" nor touches         *)
(* m_Scanning and late.                                                    *)
NoFrameStep ==
  /\ UNCHANGED <<m_Scanning, late>>
  /\ pc'[ScanThread] = "emit" => pc[ScanThread] = "emit"

LEMMA StepsThatMatterToLate ==
  ASSUME TypeOK, Step
  PROVE  \/ NoFrameStep
         \/ \E t \in Callers : StartFlag(t)
         \/ \E t \in Threads : StopClear(t)
         \/ ScanTest
         \/ Emit
<1>1. Callers \subseteq Threads /\ ScanThread \in Threads
      /\ MainThread \in Threads /\ ScanThread \notin Callers
      /\ MainThread # ScanThread
  BY ThreadsAreDistinct DEF Threads
<1>2. ASSUME NEW t \in Threads \ {ScanThread}, NEW from, NEW to,
             Goto(t, from, to), UNCHANGED <<m_Scanning, late>>
      PROVE  NoFrameStep
  BY <1>1, <1>2, GotoEffect DEF NoFrameStep
<1>3. ASSUME NEW from, NEW to, to # "emit",
             Goto(ScanThread, from, to), UNCHANGED <<m_Scanning, late>>
      PROVE  NoFrameStep
  BY <1>1, <1>3, GotoEffect DEF NoFrameStep
<1>4. ASSUME NEW t \in Threads, StopScan(t) \/ (t # ScanThread /\ StopCall(t))
      PROVE  NoFrameStep \/ StopClear(t)
  <2>1. AfterStop(t) # "emit"
    BY DEF AfterStop
  <2>2. CASE t # ScanThread
    BY <1>2, <1>4, <2>2
       DEF StopScan, StopCall, StopCheck, StopStatus, StopNotify, flags
  <2>3. CASE t = ScanThread
    BY <1>3, <1>4, <2>1, <2>3
       DEF StopScan, StopCheck, StopStatus, StopNotify, flags
  <2>. QED BY <2>2, <2>3
<1>5. ASSUME NEW t \in Callers, Command(t) \/ StopCall(t)
      PROVE  NoFrameStep \/ StartFlag(t) \/ StopClear(t)
  <2>1. CASE StartScan(t)
    BY <1>1, <1>2, <2>1
       DEF StartScan, StartCall, StartCheck, StartPrepare, StartStatus,
           StartNotify, flags
  <2>2. CASE CalZ(t)
    BY <1>1, <1>2, <2>2
       DEF CalZ, CalzCall, CalzFlag, CalzStatus, CalzNotify, flags
  <2>. QED BY <1>1, <1>4, <1>5, <2>1, <2>2 DEF Command
<1>6. ASSUME NEW t \in Callers, NEW n \in FpsValues, SetFps(t, n)
      PROVE  NoFrameStep
  BY <1>6 DEF SetFps, NoFrameStep, flags
<1>7. CASE ScanThreadFn
  <2>1. CASE StopScan(ScanThread) BY <1>1, <1>4, <2>1
  <2>. QED
    BY <1>3, <1>7, <2>1
       DEF ScanThreadFn, RunTest, CalTest, CalClear, CalStatus, CalNotify,
           Begin, FpsTest, NextFrame, flags
<1>8. CASE Shutdown
  <2>1. CASE StopScan(MainThread) BY <1>1, <1>4, <2>1
  <2>. QED
    BY <1>1, <1>2, <1>8, <2>1 DEF Shutdown, ShutdownOff, ShutdownJoin, flags
<1>9. CASE StopCall(MainThread) BY <1>1, <1>4, <1>9
<1>. QED BY <1>1, <1>5, <1>6, <1>7, <1>8, <1>9 DEF Step

LEMMA NextLateInv ==
  ASSUME TypeOK, LateInv, [Next]_vars
  PROVE  LateInv'
<1>1. CASE UNCHANGED vars
  BY <1>1 DEF LateInv, vars
<1>2. CASE NoFrameStep
  BY <1>2 DEF NoFrameStep, LateInv
<1>3. ASSUME NEW t \in Callers, StartFlag(t)
      PROVE  LateInv'
  BY <1>3 DEF StartFlag, LateInv
<1>4. ASSUME NEW t \in Threads, StopClear(t)
      PROVE  LateInv'
  <2>1. pc'[ScanThread] = "emit" => pc[ScanThread] = "emit"
    BY <1>4, GotoEffect DEF StopClear, Threads
  <2>. QED BY <1>4, <2>1 DEF StopClear, LateInv
<1>5. CASE ScanTest
  <2>1. pc'[ScanThread] = "emit" => m_Scanning
    BY <1>5, GotoEffect DEF ScanTest, Threads
  <2>. QED BY <1>5, <2>1 DEF ScanTest, LateInv, flags
<1>6. CASE Emit
  <2>1. pc[ScanThread] = "emit" /\ pc'[ScanThread] # "emit"
    BY <1>6, GotoEffect DEF Emit, Threads
  <2>. QED BY <1>6, <2>1 DEF Emit, LateInv, flags
<1>. QED
  BY <1>1, <1>2, <1>3, <1>4, <1>5, <1>6, StepsThatMatterToLate
     DEF Next, Recorded

(* A client that stopped the scan receives at most one more frame before   *)
(* the next scan, for any number of clients.                               *)
THEOREM LateFrames == Spec => []AtMostOneLateFrame
<1>1. Init => LateInv
  BY DEF Init, LateInv
<1>2. TypeOK /\ LateInv /\ [Next]_vars => LateInv'
  BY NextLateInv
<1>3. LateInv => AtMostOneLateFrame
  BY DEF LateInv, AtMostOneLateFrame
<1>. QED BY <1>1, <1>2, <1>3, TypeCorrect, PTL DEF Spec

-----------------------------------------------------------------------------
(* Serial operations.                                                      *)

(* What a thread at a label of SerialInv relies on.                        *)
Premise(label) ==
  /\ label \in {"start_prepare", "start_flag", "stop_status"} => ~m_Scanning
  /\ label \in {"start_status", "stop_clear"} => m_Scanning
  /\ label \in {"calz_status", "cal_clear"} => m_Calibrating
  /\ label = "cal_status" => ~m_Calibrating

(* A thread moves between labels from which m_Status is not written READY, *)
(* and nothing that SerialInv speaks of changes.                           *)
QuietStep(t, from, to) ==
  /\ Goto(t, from, to)
  /\ UNCHANGED <<m_Scanning, m_Calibrating, m_Status>>
  /\ from \notin {"stop_status", "cal_status", "start_status", "calz_status"}
  /\ to \notin {"stop_status", "cal_status", "start_status", "calz_status"}
  /\ Premise(to)

(* The other steps: those that write a flag or the status.                 *)
WritingStep ==
  \/ \E t \in Callers :
       StartFlag(t) \/ StartStatus(t) \/ CalzFlag(t) \/ CalzStatus(t)
  \/ \E t \in Threads : StopClear(t) \/ StopStatus(t)
  \/ CalClear
  \/ CalStatus

LEMMA ThreadFacts ==
  /\ Callers \subseteq Threads
  /\ ScanThread \in Threads
  /\ MainThread \in Threads
  /\ ScanThread \notin Callers
  /\ MainThread \notin Callers
  /\ MainThread # ScanThread
  BY ThreadsAreDistinct DEF Threads

LEMMA QuietOrWriting ==
  ASSUME TypeOK, SerialInv, ~raced, Step
  PROVE  \/ \E t \in Threads : \E from, to : QuietStep(t, from, to)
         \/ UNCHANGED <<pc, m_Scanning, m_Calibrating, m_Status>>
         \/ WritingStep
<1>. USE ThreadFacts
<1>. DEFINE Quiet == \E t \in Threads : \E from, to : QuietStep(t, from, to)
<1>1. ASSUME NEW t \in Threads, NEW from, NEW to, QuietStep(t, from, to)
      PROVE  Quiet
  BY <1>1
<1>. HIDE DEF Quiet
<1>2. ASSUME NEW t \in Threads, StopScan(t) \/ (t # ScanThread /\ StopCall(t))
      PROVE  Quiet \/ WritingStep
  <2>. DEFINE next == AfterStop(t)
  <2>0. next \in {"next", "off", "idle"}
    BY DEF AfterStop
  <2>1. CASE t # ScanThread /\ StopCall(t)
    BY <1>1, <2>1 DEF StopCall, QuietStep, Premise, flags
  <2>2. CASE StopCheck(t)
    <3>1. QuietStep(t, "stop_check", IF m_Scanning THEN "stop_clear" ELSE next)
      <4>. HIDE DEF next
      <4>1. Premise(IF m_Scanning THEN "stop_clear" ELSE next)
        BY <2>0 DEF Premise
      <4>2. Goto(t, "stop_check", IF m_Scanning THEN "stop_clear" ELSE next)
            /\ UNCHANGED <<m_Scanning, m_Calibrating, m_Status>>
        BY <2>2 DEF StopCheck, flags, next
      <4>. QED BY <2>0, <4>1, <4>2 DEF QuietStep
    <3>. QED BY <1>1, <3>1
  <2>3. CASE StopNotify(t)
    <3>1. QuietStep(t, "stop_notify", next)
      BY <2>0, <2>3 DEF StopNotify, QuietStep, Premise, flags
    <3>. QED BY <1>1, <3>1
  <2>. QED BY <1>2, <2>1, <2>2, <2>3 DEF StopScan, WritingStep
<1>3. ASSUME NEW t \in Callers, StartScan(t)
      PROVE  Quiet \/ WritingStep
  <2>1. CASE StartPrepare(t)
    <3>1. ~m_Scanning
      BY <2>1 DEF StartPrepare, Goto, SerialInv
    <3>. QED BY <1>1, <2>1, <3>1 DEF StartPrepare, QuietStep, Premise, flags
  <2>2. CASE StartCheck(t)
    BY <1>1, <2>2 DEF StartCheck, QuietStep, Premise, flags
  <2>3. CASE StartCall(t) \/ StartNotify(t)
    BY <1>1, <2>3 DEF StartCall, StartNotify, QuietStep, Premise, flags
  <2>. QED BY <1>3, <2>1, <2>2, <2>3 DEF StartScan, WritingStep
<1>4. ASSUME NEW t \in Callers, CalZ(t)
      PROVE  Quiet \/ WritingStep
  <2>1. CASE CalzCall(t) \/ CalzNotify(t)
    BY <1>1, <2>1 DEF CalzCall, CalzNotify, QuietStep, Premise, flags
  <2>. QED BY <1>4, <2>1 DEF CalZ, WritingStep
<1>5. CASE ScanThreadFn
  <2>1. CASE RunTest \/ CalTest \/ CalNotify \/ Begin
    BY <1>1, <2>1
       DEF RunTest, CalTest, CalNotify, Begin, QuietStep, Premise, flags
  <2>2. CASE ScanTest \/ Emit \/ FpsTest \/ NextFrame
    BY <1>1, <2>2
       DEF ScanTest, Emit, FpsTest, NextFrame, QuietStep, Premise, flags
  <2>. QED
    BY <1>2, <1>5, <2>1, <2>2 DEF ScanThreadFn, WritingStep, Quiet
<1>6. CASE Shutdown
  <2>1. CASE ShutdownOff \/ ShutdownJoin
    BY <1>1, <2>1 DEF ShutdownOff, ShutdownJoin, QuietStep, Premise, flags
  <2>. QED BY <1>2, <1>6, <2>1 DEF Shutdown, Quiet
<1>7. ASSUME NEW t \in Callers, NEW n \in FpsValues, SetFps(t, n)
      PROVE  UNCHANGED <<pc, m_Scanning, m_Calibrating, m_Status>>
  BY <1>7 DEF SetFps, flags
<1>. QED
  BY <1>2, <1>3, <1>4, <1>5, <1>6, <1>7 DEF Step, Command, Quiet

(* While a thread is inside an operation and no two are, the others are at *)
(* none of the labels of MidOperation.                                     *)
LEMMA AloneInside ==
  ASSUME ~Overlap, NEW t \in Threads, MidOperation(t),
         NEW u \in Threads \ {t}
  PROVE  ~MidOperation(u)
  BY DEF Overlap

LEMMA NextSerialInv ==
  ASSUME TypeOK, SerialInv, [Next]_vars
  PROVE  SerialInv'
<1>1. CASE UNCHANGED vars
  BY <1>1 DEF SerialInv, Overlap, MidOperation, vars
<1>2. CASE Next
  <2>. SUFFICES ASSUME ~raced'
                PROVE  SerialInv'
    BY DEF SerialInv
  <2>1. ~raced /\ ~Overlap /\ ~Overlap' /\ Step
    BY <1>2 DEF Next, Recorded, SerialInv
  <2>. DEFINE Serial(t) == Premise(pc[t])
  <2>2. /\ \A t \in Threads : Serial(t)
        /\ m_Status = "SCAN" =>
             m_Scanning \/ \E t \in Threads : pc[t] = "stop_status"
        /\ m_Status = "CALZ" =>
             m_Calibrating \/ \E t \in Threads : pc[t] = "cal_status"
    BY <2>1 DEF SerialInv, Premise
  <2>3. ASSUME \A t \in Threads : Serial(t)',
               m_Status' = "SCAN" =>
                 m_Scanning' \/ \E t \in Threads : pc'[t] = "stop_status",
               m_Status' = "CALZ" =>
                 m_Calibrating' \/ \E t \in Threads : pc'[t] = "cal_status"
        PROVE  SerialInv'
    BY <2>1, <2>3 DEF SerialInv, Premise
  <2>4. ASSUME NEW t \in Threads, NEW from, NEW to, QuietStep(t, from, to)
        PROVE  SerialInv'
    <3>1. \A u \in Threads : Serial(u)'
      BY <2>2, <2>4, GotoEffect DEF QuietStep, Premise
    <3>2. \A u \in Threads : pc[u] \in {"stop_status", "cal_status"}
                              => pc'[u] = pc[u]
      BY <2>4, GotoEffect DEF QuietStep
    <3>. QED BY <2>2, <2>3, <2>4, <3>1, <3>2 DEF QuietStep
  <2>5. CASE UNCHANGED <<pc, m_Scanning, m_Calibrating, m_Status>>
    BY <2>2, <2>3, <2>5 DEF Premise
  <2>. DEFINE Inside == {"start_prepare", "start_flag", "start_status",
                         "stop_clear", "stop_status", "calz_status",
                         "cal_status"}
  <2>6. ASSUME NEW t \in Threads, pc'[t] \in Inside
        PROVE  \A u \in Threads \ {t} : pc'[u] \notin Inside
    BY <2>1, <2>6 DEF Overlap, MidOperation
  <2>7. ASSUME NEW t \in Callers, StartFlag(t)
        PROVE  SerialInv'
    <3>1. pc'[t] = "start_status" /\ \A u \in Threads \ {t} : pc'[u] = pc[u]
      BY <2>7, GotoEffect, ThreadFacts DEF StartFlag
    <3>2. \A u \in Threads : Serial(u)'
      BY <2>2, <2>6, <2>7, <3>1, ThreadFacts DEF StartFlag, Premise
    <3>3. \A u \in Threads : pc[u] = "cal_status" => pc'[u] = pc[u]
      BY <2>7, <3>1, GotoEffect, ThreadFacts DEF StartFlag
    <3>. QED BY <2>2, <2>3, <2>7, <3>2, <3>3 DEF StartFlag
  <2>8. ASSUME NEW t \in Callers, StartStatus(t)
        PROVE  SerialInv'
    <3>1. /\ pc[t] = "start_status" /\ pc'[t] = "start_notify"
          /\ \A u \in Threads \ {t} : pc'[u] = pc[u]
      BY <2>8, GotoEffect, ThreadFacts DEF StartStatus
    <3>2. \A u \in Threads : Serial(u)'
      BY <2>2, <2>8, <3>1 DEF StartStatus, Premise, flags
    <3>3. m_Scanning
      BY <2>2, <3>1, ThreadFacts DEF Premise
    <3>. QED BY <2>3, <2>8, <3>2, <3>3 DEF StartStatus, flags
  <2>9. ASSUME NEW t \in Callers, CalzFlag(t)
        PROVE  SerialInv'
    <3>1. /\ pc[t] = "calz_flag" /\ pc'[t] = "calz_status"
          /\ \A u \in Threads \ {t} : pc'[u] = pc[u]
      BY <2>9, GotoEffect, ThreadFacts DEF CalzFlag
    <3>2. \A u \in Threads : Serial(u)'
      BY <2>2, <2>6, <2>9, <3>1, ThreadFacts DEF CalzFlag, Premise
    <3>. QED BY <2>2, <2>3, <2>9, <3>1, <3>2 DEF CalzFlag
  <2>10. ASSUME NEW t \in Callers, CalzStatus(t)
         PROVE  SerialInv'
    <3>1. /\ pc[t] = "calz_status" /\ pc'[t] = "calz_notify"
          /\ \A u \in Threads \ {t} : pc'[u] = pc[u]
      BY <2>10, GotoEffect, ThreadFacts DEF CalzStatus
    <3>2. \A u \in Threads : Serial(u)'
      BY <2>2, <2>10, <3>1 DEF CalzStatus, Premise, flags
    <3>3. m_Calibrating
      BY <2>2, <3>1, ThreadFacts DEF Premise
    <3>. QED BY <2>3, <2>10, <3>2, <3>3 DEF CalzStatus, flags
  <2>11. ASSUME NEW t \in Threads, StopClear(t)
         PROVE  SerialInv'
    <3>1. /\ pc[t] = "stop_clear" /\ pc'[t] = "stop_status"
          /\ \A u \in Threads \ {t} : pc'[u] = pc[u]
      BY <2>11, GotoEffect DEF StopClear
    <3>2. \A u \in Threads : Serial(u)'
      BY <2>2, <2>6, <2>11, <3>1 DEF StopClear, Premise
    <3>. QED BY <2>2, <2>3, <2>11, <3>1, <3>2 DEF StopClear
  <2>12. ASSUME NEW t \in Threads, StopStatus(t)
         PROVE  SerialInv'
    <3>1. PICK to \in {AfterStop(t), "stop_notify"} : Goto(t, "stop_status", to)
      BY <2>12 DEF StopStatus
    <3>2. to \in {"next", "off", "idle", "stop_notify"}
      BY DEF AfterStop
    <3>3. pc'[t] = to /\ \A u \in Threads \ {t} : pc'[u] = pc[u]
      BY <3>1, GotoEffect
    <3>4. \A u \in Threads : Serial(u)'
      BY <2>2, <2>12, <3>2, <3>3 DEF StopStatus, Premise, flags
    <3>. QED BY <2>3, <2>12, <3>4 DEF StopStatus
  <2>13. CASE CalClear
    <3>1. /\ pc[ScanThread] = "cal_clear" /\ pc'[ScanThread] = "cal_status"
          /\ \A u \in Threads \ {ScanThread} : pc'[u] = pc[u]
      BY <2>13, GotoEffect, ThreadFacts DEF CalClear
    <3>2. \A u \in Threads \ {ScanThread} : pc[u] # "cal_clear"
      BY DEF TypeOK, Threads, CallerLabels, MainLabels, StopLabels
    <3>3. \A u \in Threads : Serial(u)'
      BY <2>2, <2>6, <2>13, <3>1, <3>2, ThreadFacts DEF CalClear, Premise
    <3>. QED BY <2>2, <2>3, <2>13, <3>1, <3>3, ThreadFacts DEF CalClear
  <2>14. CASE CalStatus
    <3>1. /\ pc'[ScanThread] = "cal_notify"
          /\ \A u \in Threads \ {ScanThread} : pc'[u] = pc[u]
      BY <2>14, GotoEffect, ThreadFacts DEF CalStatus
    <3>2. \A u \in Threads : Serial(u)'
      BY <2>2, <2>14, <3>1 DEF CalStatus, Premise, flags
    <3>. QED BY <2>3, <2>14, <3>2 DEF CalStatus
  <2>. QED
    BY <2>1, <2>4, <2>5, <2>7, <2>8, <2>9, <2>10, <2>11, <2>12, <2>13, <2>14,
       QuietOrWriting DEF WritingStep
<1>. QED BY <1>1, <1>2

LEMMA SerialInvariant == Spec => []SerialInv
<1>1. Init => SerialInv
  BY ThreadFacts DEF Init, SerialInv, Overlap, MidOperation
<1>2. TypeOK /\ SerialInv /\ [Next]_vars => SerialInv'
  BY NextSerialInv
<1>. QED BY <1>1, <1>2, TypeCorrect, PTL DEF Spec

(* What is announced when no thread, or one thread, is between a flag and  *)
(* the status that goes with it.                                           *)
LEMMA AnnouncedValues ==
  ASSUME ~Overlap
  PROVE  /\ \A t \in Threads :
              /\ pc[t] = "calz_status" => Announced = "CALZ"
              /\ pc[t] = "start_status" => Announced = "SCAN"
              /\ pc[t] \in {"stop_status", "cal_status"} => Announced = "READY"
         /\ (\A t \in Threads : pc[t] \notin {"calz_status", "start_status",
                                            "stop_status", "cal_status"})
              => Announced = m_Status
  BY DEF Announced, Overlap, MidOperation

(* The STATUS register does not announce what is not going on, as long as  *)
(* no two operations overlapped.                                           *)
THEOREM Truth == Spec => []StatusIsTruthful
<1>1. SerialInv => StatusIsTruthful
  <2>. SUFFICES ASSUME SerialInv, ~raced
                PROVE  Register!Truthful
    BY DEF StatusIsTruthful
  <2>1. ~Overlap
    BY DEF SerialInv
  <2>2. CASE \E t \in Threads : pc[t] \in {"calz_status", "start_status",
                                          "stop_status", "cal_status"}
    BY <2>1, <2>2, AnnouncedValues DEF SerialInv, Register!Truthful
  <2>3. CASE \A t \in Threads : pc[t] \notin {"calz_status", "start_status",
                                             "stop_status", "cal_status"}
    <3>1. Announced = m_Status
      BY <2>1, <2>3, AnnouncedValues
    <3>. QED BY <2>3, <3>1 DEF SerialInv, Register!Truthful
  <2>. QED BY <2>2, <2>3
<1>. QED BY <1>1, SerialInvariant, PTL

LEMMA SerialStep ==
  ASSUME TypeOK, SerialInv, Next, ~raced'
  PROVE  Register!ANext \/ UNCHANGED Register!avars
<1>1. ~raced /\ ~Overlap /\ ~Overlap' /\ Step
  BY DEF Next, Recorded, SerialInv
<1>2. \A t \in Threads :
        /\ pc'[t] = "calz_status" => Announced' = "CALZ"
        /\ pc'[t] = "start_status" => Announced' = "SCAN"
        /\ pc'[t] \in {"stop_status", "cal_status"} => Announced' = "READY"
  BY <1>1 DEF Announced, Overlap, MidOperation
<1>3. (\A t \in Threads : pc'[t] \notin {"calz_status", "start_status",
                                       "stop_status", "cal_status"})
        => Announced' = m_Status'
  BY <1>1 DEF Announced
<1>. DEFINE Settling == {"calz_status", "start_status", "stop_status",
                         "cal_status"}
            Inside == Settling \cup {"start_prepare", "start_flag", "stop_clear"}
<1>4. ASSUME NEW t \in Threads, pc[t] \in Inside
      PROVE  \A u \in Threads \ {t} : pc[u] \notin Inside
  BY <1>1, <1>4 DEF Overlap, MidOperation
<1>5. ASSUME NEW t \in Threads, NEW from, NEW to, QuietStep(t, from, to)
      PROVE  UNCHANGED Register!avars
  <2>1. /\ pc[t] = from /\ pc'[t] = to
        /\ \A u \in Threads \ {t} : pc'[u] = pc[u]
    BY <1>5, GotoEffect DEF QuietStep
  <2>2. \A u \in Threads : \A l \in Settling : pc'[u] = l <=> pc[u] = l
    BY <1>5, <2>1 DEF QuietStep
  <2>3. Announced' = Announced
    BY <1>5, <2>2 DEF QuietStep, Announced
  <2>. QED BY <1>5, <2>3 DEF QuietStep, Register!avars
<1>6. CASE UNCHANGED <<pc, m_Scanning, m_Calibrating, m_Status>>
  BY <1>6 DEF Announced, Register!avars
(* A step that writes the status makes good what was announced.            *)
<1>7. ASSUME NEW t \in Threads, NEW to, to \notin Settling,
             pc[t] \in Settling, Goto(t, pc[t], to),
             m_Status' = Announced,
             UNCHANGED <<m_Scanning, m_Calibrating>>
      PROVE  UNCHANGED Register!avars
  <2>1. \A u \in Threads : pc'[u] \notin Settling
    BY <1>4, <1>7, GotoEffect
  <2>. QED BY <1>3, <1>7, <2>1 DEF Register!avars
<1>8. ASSUME NEW t \in Callers, StartStatus(t)
      PROVE  UNCHANGED Register!avars
  <2>1. pc[t] = "start_status" BY <1>8 DEF StartStatus, Goto
  <2>2. Announced = "SCAN" BY <1>1, <2>1, AnnouncedValues, ThreadFacts
  <2>. QED BY <1>7, <1>8, <2>1, <2>2, ThreadFacts DEF StartStatus, flags
<1>9. ASSUME NEW t \in Callers, CalzStatus(t)
      PROVE  UNCHANGED Register!avars
  <2>1. pc[t] = "calz_status" BY <1>9 DEF CalzStatus, Goto
  <2>2. Announced = "CALZ" BY <1>1, <2>1, AnnouncedValues, ThreadFacts
  <2>. QED BY <1>7, <1>9, <2>1, <2>2, ThreadFacts DEF CalzStatus, flags
<1>10. ASSUME NEW t \in Threads, StopStatus(t)
       PROVE  UNCHANGED Register!avars
  <2>1. pc[t] = "stop_status" BY <1>10 DEF StopStatus, Goto
  <2>2. Announced = "READY" BY <1>1, <2>1, AnnouncedValues
  <2>3. PICK to \in {AfterStop(t), "stop_notify"} : Goto(t, "stop_status", to)
    BY <1>10 DEF StopStatus
  <2>4. to \notin Settling
    BY DEF AfterStop
  <2>. QED BY <1>7, <1>10, <2>1, <2>2, <2>3, <2>4 DEF StopStatus, flags
<1>11. CASE CalStatus
  <2>1. pc[ScanThread] = "cal_status" BY <1>11 DEF CalStatus, Goto
  <2>2. Announced = "READY" BY <1>1, <2>1, AnnouncedValues, ThreadFacts
  <2>. QED BY <1>7, <1>11, <2>1, <2>2, ThreadFacts DEF CalStatus, flags
(* A step that writes a flag is the abstract operation.                    *)
<1>12. ASSUME NEW t \in Callers, StartFlag(t)
       PROVE  Register!AStartScan
  <2>1. pc[t] = "start_flag" /\ pc'[t] = "start_status"
    BY <1>12, GotoEffect, ThreadFacts DEF StartFlag
  <2>2. ~m_Scanning BY <1>1, <2>1, ThreadFacts DEF SerialInv
  <2>. QED
    BY <1>2, <1>12, <2>1, <2>2, ThreadFacts DEF StartFlag, Register!AStartScan
<1>13. ASSUME NEW t \in Callers, CalzFlag(t)
       PROVE  Register!ACalZ
  <2>1. pc'[t] = "calz_status"
    BY <1>13, GotoEffect, ThreadFacts DEF CalzFlag
  <2>. QED BY <1>2, <1>13, <2>1, ThreadFacts DEF CalzFlag, Register!ACalZ
<1>14. ASSUME NEW t \in Threads, StopClear(t)
       PROVE  Register!AStopScan
  <2>1. pc[t] = "stop_clear" /\ pc'[t] = "stop_status"
    BY <1>14, GotoEffect DEF StopClear
  <2>2. m_Scanning BY <1>1, <2>1 DEF SerialInv
  <2>. QED BY <1>2, <1>14, <2>1, <2>2 DEF StopClear, Register!AStopScan
<1>15. CASE CalClear
  <2>1. pc[ScanThread] = "cal_clear" /\ pc'[ScanThread] = "cal_status"
    BY <1>15, GotoEffect, ThreadFacts DEF CalClear
  <2>2. m_Calibrating BY <1>1, <2>1, ThreadFacts DEF SerialInv
  <2>3. Register!ACalDone
    BY <1>2, <1>15, <2>1, <2>2, ThreadFacts DEF CalClear, Register!ACalDone
  <2>. QED BY <2>3 DEF Register!ANext
<1>. QED
  BY <1>1, <1>5, <1>6, <1>8, <1>9, <1>10, <1>11, <1>12, <1>13, <1>14, <1>15,
     QuietOrWriting DEF WritingStep, Register!ANext

(* Every step of every thread is an atomic SCAN, STOP, CALZ or end of a    *)
(* calibration of ScannerStatus, or leaves the register alone, up to the   *)
(* first overlap of two operations.                                        *)
THEOREM Atomicity == Spec => SerialStepsAreAtomic
<1>1. TypeOK /\ SerialInv /\ [Next]_vars
        => [raced' \/ Register!ANext \/ UNCHANGED Register!avars]_vars
  BY SerialStep
<1>. QED BY <1>1, SerialInvariant, TypeCorrect, PTL
         DEF Spec, SerialStepsAreAtomic

-----------------------------------------------------------------------------
(* Finite scans.                                                           *)

(* A step of another thread that starts nothing and leaves the scan        *)
(* thread's variables and the count alone.                                 *)
AsideStep(t, from, to) ==
  /\ Goto(t, from, to)
  /\ to # "start_flag"
  /\ m_Scanning' => m_Scanning
  /\ UNCHANGED <<frame, frame_start, fps, fpsMoved>>

LEMMA AsideLoopInv ==
  ASSUME TypeOK, LoopInv, raced => raced',
         NEW t \in Threads \ {ScanThread}, NEW from, NEW to,
         AsideStep(t, from, to)
  PROVE  LoopInv'
<1>1. /\ pc'[ScanThread] = pc[ScanThread]
      /\ \A u \in Threads : pc'[u] = "start_flag" => pc[u] = "start_flag"
  BY GotoEffect, ThreadFacts DEF AsideStep
<1>2. m_Scanning \in BOOLEAN /\ m_Scanning' => m_Scanning
  BY DEF TypeOK, AsideStep
<1>. QED BY <1>1, <1>2 DEF LoopInv, AsideStep

LEMMA NumbersTyped ==
  ASSUME TypeOK
  PROVE  frame \in Nat /\ fps \in Nat /\ fps < MaxFrame /\ 1 <= frame
  BY FrameBound DEF TypeOK

(* What the scan thread's own steps do to LoopInv.                         *)
LEMMA ScanThreadLoopInv ==
  ASSUME TypeOK, SerialInv, LoopInv, raced => raced', ScanThreadFn
  PROVE  LoopInv'
<1>. USE ThreadFacts, NumbersTyped
<1>1. \A t \in Threads : pc'[t] = "start_flag" <=> pc[t] = "start_flag"
  <2>1. ASSUME NEW from, NEW to \in ScanLabels, Goto(ScanThread, from, to)
        PROVE  \A t \in Threads : pc'[t] = "start_flag" <=> pc[t] = "start_flag"
    BY <2>1, GotoEffect DEF TypeOK, ScanLabels, StopLabels
  <2>2. CASE StopScan(ScanThread)
    BY <2>1, <2>2
       DEF StopScan, StopCheck, StopClear, StopStatus, StopNotify, AfterStop,
           ScanLabels, StopLabels
  <2>3. CASE RunTest \/ CalTest \/ CalClear \/ CalStatus \/ CalNotify \/ Begin
    BY <2>1, <2>3
       DEF RunTest, CalTest, CalClear, CalStatus, CalNotify, Begin, ScanLabels
  <2>4. CASE ScanTest \/ Emit \/ NextFrame
    BY <2>1, <2>4 DEF ScanTest, Emit, NextFrame, ScanLabels
  <2>5. CASE FpsTest
    <3>1. PICK to \in {"stop_check", "next"} : Goto(ScanThread, "fps", to)
      BY <2>5 DEF FpsTest
    <3>. QED BY <2>1, <3>1 DEF ScanLabels, StopLabels
  <2>. QED BY <2>2, <2>3, <2>4, <2>5 DEF ScanThreadFn
<1>2. ASSUME NEW from, NEW to, Goto(ScanThread, from, to)
      PROVE  pc[ScanThread] = from /\ pc'[ScanThread] = to
  BY <1>2, GotoEffect
<1>3. CASE RunTest \/ CalTest \/ CalClear \/ CalStatus \/ CalNotify
  <2>1. pc'[ScanThread] \in {"cal", "exit", "cal_clear", "begin", "cal_status",
                            "cal_notify"}
    BY <1>2, <1>3 DEF RunTest, CalTest, CalClear, CalStatus, CalNotify
  <2>. QED BY <2>1 DEF LoopInv, StopLabels
<1>4. CASE Begin
  <2>1. pc'[ScanThread] = "scan" /\ frame' = 1 /\ fps' = fps
    BY <1>2, <1>4 DEF Begin
  <2>. QED BY <2>1 DEF LoopInv, StopLabels
<1>. DEFINE Same == UNCHANGED <<frame, frame_start, fps, fpsMoved>>
<1>5. CASE ScanTest
  <2>1. pc[ScanThread] = "scan" /\ Same /\ m_Scanning' = m_Scanning
    BY <1>2, <1>5 DEF ScanTest, flags, thread
  <2>2. CASE ~m_Scanning
    <3>1. pc'[ScanThread] = "run" BY <1>2, <1>5, <2>2 DEF ScanTest
    <3>. QED BY <3>1 DEF LoopInv, StopLabels
  <2>3. CASE m_Scanning
    <3>1. pc'[ScanThread] = "emit" BY <1>2, <1>5, <2>3 DEF ScanTest
    <3>2. ~raced => \A t \in Threads : pc[t] # "start_flag"
      BY <2>3 DEF SerialInv
    <3>. QED BY <1>1, <2>1, <2>3, <3>1, <3>2 DEF LoopInv
  <2>. QED BY <2>2, <2>3
<1>6. CASE Emit
  <2>1. pc[ScanThread] = "emit" /\ pc'[ScanThread] = "fps" /\ Same
    BY <1>2, <1>6 DEF Emit, thread
  <2>. QED BY <1>1, <2>1 DEF LoopInv
<1>7. CASE FpsTest
  <2>1. pc[ScanThread] = "fps" /\ Same
    BY <1>2, <1>7 DEF FpsTest, thread
  <2>2. CASE fps # 0 /\ fps = frame
    <3>1. pc'[ScanThread] = "stop_check" BY <1>2, <1>7, <2>2 DEF FpsTest
    <3>. QED BY <1>1, <2>1, <2>2, <3>1 DEF LoopInv, StopLabels
  <2>3. CASE ~(fps # 0 /\ fps = frame)
    <3>1. pc'[ScanThread] = "next" BY <1>2, <1>7, <2>3 DEF FpsTest
    <3>. QED BY <1>1, <2>1, <2>3, <3>1 DEF LoopInv
  <2>. QED BY <2>2, <2>3
<1>8. CASE NextFrame
  <2>1. /\ pc[ScanThread] = "next" /\ pc'[ScanThread] = "scan"
        /\ m_Scanning' = m_Scanning
        /\ UNCHANGED <<frame_start, fps, fpsMoved>>
    BY <1>2, <1>8 DEF NextFrame, flags
  <2>2. frame < fps => frame' <= fps
    BY <1>8 DEF NextFrame
  <2>. QED BY <1>1, <2>1, <2>2 DEF LoopInv
<1>9. CASE StopScan(ScanThread)
  <2>1. AfterStop(ScanThread) = "next"
    BY DEF AfterStop
  <2>2. CASE StopCheck(ScanThread)
    <3>1. pc[ScanThread] = "stop_check" /\ Same /\ m_Scanning' = m_Scanning
      BY <1>2, <2>2 DEF StopCheck, flags, thread
    <3>2. CASE m_Scanning
      <4>1. pc'[ScanThread] = "stop_clear" BY <1>2, <2>2, <3>2 DEF StopCheck
      <4>. QED BY <1>1, <3>1, <4>1 DEF LoopInv, StopLabels
    <3>3. CASE ~m_Scanning
      <4>1. pc'[ScanThread] = "next" BY <1>2, <2>1, <2>2, <3>3 DEF StopCheck
      <4>. QED BY <1>1, <3>1, <3>3, <4>1 DEF LoopInv, StopLabels
    <3>. QED BY <3>2, <3>3
  <2>3. CASE StopClear(ScanThread)
    <3>1. /\ pc[ScanThread] = "stop_clear" /\ pc'[ScanThread] = "stop_status"
          /\ ~m_Scanning' /\ Same
      BY <1>2, <2>3 DEF StopClear, thread
    <3>. QED BY <1>1, <3>1 DEF LoopInv, StopLabels
  <2>4. CASE StopStatus(ScanThread) \/ StopNotify(ScanThread)
    <3>1. /\ pc[ScanThread] \in {"stop_status", "stop_notify"}
          /\ pc'[ScanThread] \in {"stop_notify", "next"}
          /\ m_Scanning' = m_Scanning
          /\ Same
      BY <1>2, <2>1, <2>4 DEF StopStatus, StopNotify, flags, thread
    <3>. QED BY <1>1, <3>1 DEF LoopInv, StopLabels
  <2>. QED BY <1>9, <2>2, <2>3, <2>4 DEF StopScan
<1>. QED
  BY <1>3, <1>4, <1>5, <1>6, <1>7, <1>8, <1>9
     DEF ScanThreadFn

LEMMA NextLoopInv ==
  ASSUME TypeOK, SerialInv, LoopInv, [Next]_vars
  PROVE  LoopInv'
<1>. USE ThreadFacts
<1>1. CASE UNCHANGED vars
  BY <1>1 DEF LoopInv, vars
<1>2. CASE Next
  <2>1. Step /\ (raced => raced')
    BY <1>2 DEF Next, Recorded
  <2>2. ASSUME NEW t \in Threads \ {ScanThread},
               StopScan(t) \/ StopCall(t)
        PROVE  LoopInv'
    <3>1. AfterStop(t) # "start_flag"
      BY DEF AfterStop
    <3>2. \E from, to : AsideStep(t, from, to)
      BY <2>2, <3>1
         DEF StopScan, StopCall, StopCheck, StopClear, StopStatus, StopNotify,
             AsideStep, flags, thread
    <3>. QED BY <2>1, <3>2, AsideLoopInv
  <2>3. ASSUME NEW t \in Callers, StartScan(t)
        PROVE  LoopInv'
    <3>1. CASE StartPrepare(t)
      BY <3>1 DEF StartPrepare, LoopInv
    <3>2. CASE StartFlag(t)
      <4>1. /\ pc[t] = "start_flag"
            /\ pc'[ScanThread] = pc[ScanThread]
            /\ UNCHANGED <<frame, frame_start, fps, fpsMoved>>
        BY <3>2, GotoEffect DEF StartFlag, thread
      <4>2. \A u \in Threads : pc'[u] = "start_flag" => pc[u] = "start_flag"
        BY <3>2, GotoEffect DEF StartFlag
      <4>. QED BY <2>1, <4>1, <4>2, NumbersTyped DEF LoopInv, StopLabels
    <3>3. CASE StartCall(t) \/ StartCheck(t) \/ StartStatus(t) \/ StartNotify(t)
      <4>1. \E from, to : AsideStep(t, from, to)
        BY <3>3
           DEF StartCall, StartCheck, StartStatus, StartNotify, AsideStep,
               flags, thread
      <4>. QED BY <2>1, <4>1, AsideLoopInv
    <3>. QED BY <2>3, <3>1, <3>2, <3>3 DEF StartScan
  <2>4. ASSUME NEW t \in Callers, CalZ(t)
        PROVE  LoopInv'
    <3>1. \E from, to : AsideStep(t, from, to)
      BY <2>4
         DEF CalZ, CalzCall, CalzFlag, CalzStatus, CalzNotify, AsideStep,
             flags, thread
    <3>. QED BY <2>1, <3>1, AsideLoopInv
  <2>5. ASSUME NEW t \in Callers, NEW n \in FpsValues, SetFps(t, n)
        PROVE  LoopInv'
    BY <2>1, <2>5 DEF SetFps, LoopInv, thread
  <2>6. CASE ScanThreadFn
    BY <2>1, <2>6, ScanThreadLoopInv
  <2>7. CASE Shutdown \/ StopCall(MainThread)
    <3>1. CASE StopScan(MainThread) \/ StopCall(MainThread)
      BY <2>2, <3>1
    <3>2. CASE ShutdownOff \/ ShutdownJoin
      <4>1. \E from, to : AsideStep(MainThread, from, to)
        BY <3>2 DEF ShutdownOff, ShutdownJoin, AsideStep, flags, thread
      <4>. QED BY <2>1, <4>1, AsideLoopInv
    <3>. QED BY <2>7, <3>1, <3>2 DEF Shutdown
  <2>. QED
    BY <2>1, <2>2, <2>3, <2>4, <2>5, <2>6, <2>7 DEF Step, Command
<1>. QED BY <1>1, <1>2

LEMMA LoopInvariant == Spec => []LoopInv
<1>1. Init => LoopInv
  BY DEF Init, LoopInv
<1>2. TypeOK /\ SerialInv /\ LoopInv /\ [Next]_vars => LoopInv'
  BY NextLoopInv
<1>. QED BY <1>1, <1>2, TypeCorrect, SerialInvariant, PTL DEF Spec

(* A finite scan delivers no frame beyond its count, for every count and   *)
(* any number of clients, as long as SET FPS and overlapping operations    *)
(* stay out of it.                                                         *)
THEOREM FiniteScans == Spec => []FiniteScanBounded
<1>1. LoopInv => FiniteScanBounded
  BY DEF LoopInv, FiniteScanBounded
<1>. QED BY <1>1, LoopInvariant, PTL

-----------------------------------------------------------------------------
(* The scan thread answers.  That it does is a liveness property; here is  *)
(* what it rests on, for any number of clients: it never waits for anybody,*)
(* and each of its steps takes it nearer to what is expected of it.        *)

(* The most steps that the scan thread is away from the next frame of a    *)
(* scan, from beginning a calibration, and from the end of its loop.       *)
ToFrame ==
  [emit |-> 0, scan |-> 1, begin |-> 2, next |-> 2, cal_notify |-> 3,
   stop_notify |-> 3, cal_status |-> 4, stop_status |-> 4, cal_clear |-> 5,
   stop_clear |-> 5, cal |-> 6, stop_check |-> 6, run |-> 7, fps |-> 7]
ToCalibration ==
  [cal_clear |-> 0, cal |-> 1, run |-> 2, scan |-> 3, begin |-> 4, next |-> 4,
   cal_notify |-> 5, stop_notify |-> 5, cal_status |-> 6, stop_status |-> 6,
   stop_clear |-> 7, stop_check |-> 8, fps |-> 9, emit |-> 10]
ToExit ==
  [exit |-> 0, run |-> 1, scan |-> 2, begin |-> 3, next |-> 3, cal_notify |-> 4,
   stop_notify |-> 4, cal_status |-> 5, stop_status |-> 5, cal_clear |-> 6,
   stop_clear |-> 6, cal |-> 7, stop_check |-> 7, fps |-> 8, emit |-> 9]

Nearer(steps) == steps[pc'[ScanThread]] < steps[pc[ScanThread]]

(* However the commands of the clients interleave with it, every step of   *)
(* the scan thread takes it nearer to what is asked of it: to a frame while*)
(* a scan is wanted, to the calibration while only that is, to its end     *)
(* while neither the device nor a scan goes on, and through a finite scan  *)
(* that nobody disturbs to the last frame, without skipping the number that*)
(* the test with == is to meet (mps.cpp 272-303, 500-503).                 *)
Advances ==
  pc'[ScanThread] # pc[ScanThread] =>
    /\ m_Scanning /\ m_Running /\ pc[ScanThread] # "emit" => Nearer(ToFrame)
    /\ m_Calibrating /\ ~m_Scanning /\ m_Running /\ pc[ScanThread] # "cal_clear"
         => Nearer(ToCalibration)
    /\ ~m_Scanning /\ ~m_Running => Nearer(ToExit)
    /\ pc[ScanThread] = "next" /\ m_Scanning /\ frame_start = "current" /\ fps # 0
           /\ ~fpsMoved /\ ~raced
         => frame' = frame + 1 /\ frame' <= fps

ScanThreadAdvances == [][Advances]_vars

(* The thread leaves its loop, and is waited for, only when m_Running has  *)
(* been cleared for good.                                                  *)
RunsUntilShutdown ==
  /\ pc[ScanThread] = "exit" => ~m_Running
  /\ pc[MainThread] \in {"join", "done"} => ~m_Running

(* Only the scan thread moves the scan thread.                             *)
LEMMA OthersLeaveScanThread ==
  ASSUME TypeOK, [Next]_vars, pc'[ScanThread] # pc[ScanThread]
  PROVE  ScanThreadFn
<1>. USE ThreadFacts
<1>1. Step
  BY DEF vars, Next, Recorded
<1>2. ASSUME NEW t \in Threads \ {ScanThread}, NEW from, NEW to, Goto(t, from, to)
      PROVE  FALSE
  BY <1>2, GotoEffect
<1>3. ASSUME NEW t \in Threads \ {ScanThread}, StopScan(t) \/ StopCall(t)
      PROVE  FALSE
  BY <1>2, <1>3 DEF StopScan, StopCall, StopCheck, StopClear, StopStatus, StopNotify
<1>4. ASSUME NEW t \in Callers, StartScan(t)
      PROVE  FALSE
  BY <1>2, <1>4 DEF StartScan, StartCall, StartCheck, StartPrepare, StartFlag,
     StartStatus, StartNotify
<1>5. ASSUME NEW t \in Callers, CalZ(t)
      PROVE  FALSE
  BY <1>2, <1>5 DEF CalZ, CalzCall, CalzFlag, CalzStatus, CalzNotify
<1>6. ASSUME NEW t \in Callers, NEW n \in FpsValues, SetFps(t, n)
      PROVE  FALSE
  BY <1>6 DEF SetFps
<1>7. CASE Shutdown \/ StopCall(MainThread)
  BY <1>2, <1>3, <1>7 DEF Shutdown, ShutdownOff, ShutdownJoin
<1>. QED BY <1>1, <1>3, <1>4, <1>5, <1>6, <1>7 DEF Step, Command

(* From where to where each of its steps takes it.                         *)
LEMMA ScanThreadMoves ==
  ASSUME TypeOK, ScanThreadFn
  PROVE  LET from == pc[ScanThread] to == pc'[ScanThread] IN
         /\ from = "run" => to = IF m_Running THEN "cal" ELSE "exit"
         /\ from = "cal" => to = IF m_Calibrating THEN "cal_clear" ELSE "begin"
         /\ from = "cal_clear" => to = "cal_status"
         /\ from = "cal_status" => to = "cal_notify"
         /\ from = "cal_notify" => to = "begin"
         /\ from \in {"begin", "next"} => to = "scan"
         /\ from = "scan" => to = IF m_Scanning THEN "emit" ELSE "run"
         /\ from = "emit" => to = "fps"
         /\ from = "fps" => to \in {"stop_check", "next"}
         /\ from = "stop_check" => to = IF m_Scanning THEN "stop_clear" ELSE "next"
         /\ from = "stop_clear" => to = "stop_status"
         /\ from = "stop_status" => to \in {"stop_notify", "next"}
         /\ from = "stop_notify" => to = "next"
         /\ from # "exit"
<1>. USE ThreadFacts
<1>1. ASSUME NEW from, NEW to, Goto(ScanThread, from, to)
      PROVE  pc[ScanThread] = from /\ pc'[ScanThread] = to
  BY <1>1, GotoEffect
<1>2. AfterStop(ScanThread) = "next"
  BY DEF AfterStop
<1>3. CASE StopScan(ScanThread)
  BY <1>1, <1>2, <1>3 DEF StopScan, StopCheck, StopClear, StopStatus, StopNotify
<1>4. CASE RunTest \/ CalTest \/ CalClear \/ CalStatus \/ CalNotify
  BY <1>1, <1>4 DEF RunTest, CalTest, CalClear, CalStatus, CalNotify
<1>5. CASE Begin \/ ScanTest \/ Emit \/ FpsTest \/ NextFrame
  BY <1>1, <1>5 DEF Begin, ScanTest, Emit, FpsTest, NextFrame
<1>. QED BY <1>3, <1>4, <1>5 DEF ScanThreadFn

LEMMA ComesNearer ==
  ASSUME TypeOK, [Next]_vars, pc'[ScanThread] # pc[ScanThread]
  PROVE  /\ m_Scanning /\ m_Running /\ pc[ScanThread] # "emit" => Nearer(ToFrame)
         /\ m_Calibrating /\ ~m_Scanning /\ m_Running /\ pc[ScanThread] # "cal_clear"
              => Nearer(ToCalibration)
         /\ ~m_Scanning /\ ~m_Running => Nearer(ToExit)
<1>1. ScanThreadFn
  BY OthersLeaveScanThread
<1>2. pc[ScanThread] \in ScanLabels
  BY DEF TypeOK
<1>3. ASSUME m_Scanning, m_Running, pc[ScanThread] # "emit"
      PROVE  Nearer(ToFrame)
  BY <1>1, <1>2, <1>3, ScanThreadMoves DEF Nearer, ToFrame, ScanLabels, StopLabels
<1>4. ASSUME m_Calibrating, ~m_Scanning, m_Running, pc[ScanThread] # "cal_clear"
      PROVE  Nearer(ToCalibration)
  BY <1>1, <1>2, <1>4, ScanThreadMoves DEF Nearer, ToCalibration, ScanLabels, StopLabels
<1>5. ASSUME ~m_Scanning, ~m_Running
      PROVE  Nearer(ToExit)
  BY <1>1, <1>2, <1>5, ScanThreadMoves DEF Nearer, ToExit, ScanLabels, StopLabels
<1>. QED BY <1>3, <1>4, <1>5

LEMMA NextFrameNumber ==
  ASSUME TypeOK, LoopInv, [Next]_vars, pc'[ScanThread] # pc[ScanThread],
         pc[ScanThread] = "next", m_Scanning, frame_start = "current", fps # 0,
         ~fpsMoved, ~raced
  PROVE  frame' = frame + 1 /\ frame' <= fps
<1>1. ScanThreadFn
  BY OthersLeaveScanThread
<1>2. NextFrame
  <2>1. ASSUME NEW from, NEW to, Goto(ScanThread, from, to)
        PROVE  from = "next"
    BY <2>1 DEF Goto
  <2>2. ~StopScan(ScanThread)
    BY <2>1 DEF StopScan, StopCheck, StopClear, StopStatus, StopNotify
  <2>. QED BY <1>1, <2>1, <2>2 DEF ScanThreadFn, RunTest, CalTest, CalClear, CalStatus,
       CalNotify, Begin, ScanTest, Emit, FpsTest
<1>3. frame < fps
  BY DEF LoopInv
<1>. QED BY <1>2, <1>3, NumbersTyped, FrameBound DEF NextFrame

(* Nobody sets m_Running again.                                            *)
LEMMA RunningOnlyFalls ==
  ASSUME TypeOK, [Next]_vars
  PROVE  m_Running' => m_Running
<1>1. CASE UNCHANGED vars
  BY <1>1 DEF vars
<1>2. CASE Next
  <2>1. ASSUME NEW t \in Threads, StopScan(t) \/ StopCall(t)
        PROVE  m_Running' = m_Running
    BY <2>1 DEF StopScan, StopCall, StopCheck, StopClear, StopStatus, StopNotify, flags
  <2>2. ASSUME NEW t \in Callers, StartScan(t)
        PROVE  m_Running' = m_Running
    BY <2>2 DEF StartScan, StartCall, StartCheck, StartPrepare, StartFlag, StartStatus,
       StartNotify, flags
  <2>3. ASSUME NEW t \in Callers, CalZ(t) \/ \E n \in FpsValues : SetFps(t, n)
        PROVE  m_Running' = m_Running
    BY <2>3 DEF CalZ, CalzCall, CalzFlag, CalzStatus, CalzNotify, SetFps, flags
  <2>4. CASE ScanThreadFn
    BY <2>1, <2>4, ThreadFacts DEF ScanThreadFn, RunTest, CalTest, CalClear, CalStatus,
       CalNotify, Begin, ScanTest, Emit, FpsTest, NextFrame, flags
  <2>5. CASE Shutdown \/ StopCall(MainThread)
    BY <2>1, <2>5, ThreadFacts DEF Shutdown, ShutdownOff, ShutdownJoin, flags
  <2>. QED BY <1>2, <2>1, <2>2, <2>3, <2>4, <2>5, ThreadFacts
           DEF Next, Recorded, Step, Command
<1>. QED BY <1>1, <1>2

LEMMA NextRunsUntilShutdown ==
  ASSUME TypeOK, RunsUntilShutdown, [Next]_vars
  PROVE  RunsUntilShutdown'
<1>. USE ThreadFacts
<1>1. ASSUME pc'[ScanThread] = "exit"
      PROVE  ~m_Running'
  <2>1. CASE pc[ScanThread] = "exit"
    BY <2>1, RunningOnlyFalls DEF RunsUntilShutdown
  <2>2. CASE pc[ScanThread] # "exit"
    <3>1. ScanThreadFn
      BY <1>1, <2>2, OthersLeaveScanThread
    <3>2. pc[ScanThread] \in ScanLabels
      BY DEF TypeOK
    <3>3. ~m_Running
      BY <1>1, <3>1, <3>2, ScanThreadMoves DEF ScanLabels, StopLabels
    <3>. QED BY <3>3, RunningOnlyFalls
  <2>. QED BY <2>1, <2>2
<1>2. ASSUME pc'[MainThread] \in {"join", "done"}
      PROVE  ~m_Running'
  <2>1. CASE pc[MainThread] \in {"join", "done"}
    BY <2>1, RunningOnlyFalls DEF RunsUntilShutdown
  <2>2. CASE pc[MainThread] \notin {"join", "done"}
    <3>1. Step
      BY <1>2, <2>2 DEF vars, Next, Recorded
    <3>2. ASSUME NEW t \in Threads \ {MainThread}, NEW from, NEW to, Goto(t, from, to)
          PROVE  FALSE
      BY <1>2, <2>2, <3>2, GotoEffect
    <3>3. ASSUME NEW t \in Threads, StopScan(t) \/ StopCall(t)
          PROVE  FALSE
      <4>1. PICK from, to : Goto(t, from, to) /\ to \notin {"join", "done"}
        BY <3>3 DEF StopScan, StopCall, StopCheck, StopClear, StopStatus, StopNotify,
           AfterStop
      <4>. QED BY <1>2, <2>2, <4>1, GotoEffect
    <3>4. ASSUME NEW t \in Callers, StartScan(t)
          PROVE  FALSE
      BY <3>2, <3>4 DEF StartScan, StartCall, StartCheck, StartPrepare, StartFlag,
         StartStatus, StartNotify
    <3>5. ASSUME NEW t \in Callers, CalZ(t)
          PROVE  FALSE
      BY <3>2, <3>5 DEF CalZ, CalzCall, CalzFlag, CalzStatus, CalzNotify
    <3>6. ASSUME NEW t \in Callers, NEW n \in FpsValues, SetFps(t, n)
          PROVE  FALSE
      BY <1>2, <2>2, <3>6 DEF SetFps
    <3>7. ~ScanThreadFn
      BY <3>2, <3>3 DEF ScanThreadFn, RunTest, CalTest, CalClear, CalStatus, CalNotify,
         Begin, ScanTest, Emit, FpsTest, NextFrame
    <3>8. ~ShutdownJoin
      <4>1. SUFFICES ASSUME ShutdownJoin PROVE FALSE
        OBVIOUS
      <4>. QED BY <2>2, <4>1 DEF ShutdownJoin, Goto
    <3>9. ShutdownOff
      BY <3>1, <3>3, <3>4, <3>5, <3>6, <3>7, <3>8 DEF Step, Command, Shutdown
    <3>. QED BY <3>9 DEF ShutdownOff
  <2>. QED BY <2>1, <2>2
<1>. QED BY <1>1, <1>2 DEF RunsUntilShutdown

(* The scan thread answers a request for a scan or a calibration and a     *)
(* shutdown within a bounded number of its own steps, however many clients *)
(* interleave their commands, as long as the request stands; and a finite  *)
(* scan that is left alone counts up to its last frame without skipping    *)
(* one.  ScanProduces, CalibrationFinishes, ShutdownCompletes and          *)
(* UndisturbedScanEnds follow if the scan thread is scheduled (mps.cpp     *)
(* 41-45, 272-290, 500-503).                                               *)
THEOREM ScanThreadAnswers == Spec => ScanThreadAdvances /\ []RunsUntilShutdown
<1>1. TypeOK /\ LoopInv /\ [Next]_vars => [Advances]_vars
  BY ComesNearer, NextFrameNumber DEF Advances
<1>2. Init => RunsUntilShutdown
  BY ThreadFacts DEF Init, RunsUntilShutdown
<1>3. TypeOK /\ RunsUntilShutdown /\ [Next]_vars => RunsUntilShutdown'
  BY NextRunsUntilShutdown
<1>. QED BY <1>1, <1>2, <1>3, TypeCorrect, LoopInvariant, PTL DEF Spec, ScanThreadAdvances

=============================================================================
