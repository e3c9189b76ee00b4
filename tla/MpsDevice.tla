----------------------------- MODULE MpsDevice -----------------------------
(***************************************************************************)
(* The virtual scanner, class mps::Mps (application/src/scanivalve).       *)
(*                                                                         *)
(* Threads.  Callers are the threads that enter the device through         *)
(* ParseCommands, StartScan, StopScan and CalZ: the handler threads of the *)
(* control server, the handler thread of the TCP binary server and the     *)
(* console's input thread.  ScanThread runs ScanThreadFn.  MainThread runs *)
(* ServerLayer::OnDetach, whose first act is Shutdown().  Nothing in the   *)
(* class takes a lock: m_Running, m_Scanning and m_Calibrating are         *)
(* atomics, m_Status and m_cfg are plain fields.  Each step below is one   *)
(* access of a thread to one of these fields.                              *)
(*                                                                         *)
(* Abstractions.  Time is dropped: a sleep is a step that may be delayed.  *)
(* Of m_ScanStartTime only this is kept: whether the start time that the   *)
(* scan thread has loaded belongs to the latest StartScan.  The frame      *)
(* number saturates at MaxFrame, which stands for every number that no     *)
(* value of frames_per_scan can equal.  The content of a frame is not      *)
(* modelled here.                                                          *)
(***************************************************************************)
EXTENDS Naturals

CONSTANTS
  Callers,      (* threads that issue commands to the device               *)
  ScanThread,   (* the worker that runs ScanThreadFn                       *)
  MainThread,   (* the thread that runs the application loop and Shutdown  *)
  FpsValues,    (* values SET FPS may store; 0 is a continuous scan        *)
  MaxFrame      (* the bound of the frame counter                          *)

ASSUME ThreadsAreDistinct ==
  /\ ScanThread # MainThread
  /\ ScanThread \notin Callers
  /\ MainThread \notin Callers

ASSUME FrameBound ==
  /\ MaxFrame \in Nat \ {0}
  /\ FpsValues \subseteq 0 .. (MaxFrame - 1)

VARIABLES
  m_Running,      (* the scan thread keeps running                         *)
  m_Scanning,     (* a scan is requested or in progress                    *)
  m_Calibrating,  (* a zero calibration is pending or in progress          *)
  m_Status,       (* the register the STATUS command reads                 *)
  fps,            (* m_cfg.frames_per_scan                                 *)
  pc,             (* where each thread is                                  *)
  frame,          (* local of ScanThreadFn: number of the next frame       *)
  frame_start,    (* local of ScanThreadFn: "current" if its start time    *)
                  (* derives from the m_ScanStartTime now stored           *)
  late,           (* history: frames delivered since m_Scanning was cleared*)
  raced,          (* history: two threads have been inside an operation at *)
                  (* the same time                                         *)
  fpsMoved        (* history: SET FPS ran since the thread began the scan  *)

flags == <<m_Running, m_Scanning, m_Calibrating>>
thread == <<frame, frame_start>>
vars == <<m_Running, m_Scanning, m_Calibrating, m_Status, fps, pc,
          frame, frame_start, late, raced, fpsMoved>>

Threads == Callers \cup {ScanThread, MainThread}
Statuses == {"READY", "SCAN", "CALZ"}

StopLabels == {"stop_check", "stop_clear", "stop_status", "stop_notify"}
CallerLabels ==
  {"idle", "start_check", "start_prepare", "start_flag", "start_status",
   "start_notify", "calz_flag", "calz_status", "calz_notify"} \cup StopLabels
ScanLabels ==
  {"run", "cal", "cal_clear", "cal_status", "cal_notify", "begin", "scan",
   "emit", "fps", "next", "exit"} \cup StopLabels
MainLabels == {"idle", "off", "join", "done"} \cup StopLabels

Goto(t, from, to) ==
  /\ pc[t] = from
  /\ pc' = [pc EXCEPT ![t] = to]

(* Between the first and the last access of StartScan, StopScan, CalZ and  *)
(* of the end of a calibration to the shared fields.                       *)
MidOperation(t) ==
  pc[t] \in {"start_prepare", "start_flag", "start_status",
             "stop_clear", "stop_status", "calz_status", "cal_status"}

Overlap ==
  \E t, u \in Threads : t # u /\ MidOperation(t) /\ MidOperation(u)

-----------------------------------------------------------------------------
(* The device as OnAttach leaves it: constructed, Start()ed, scan thread   *)
(* not yet past its first test, no scan, frames_per_scan = 0.              *)
Init ==
  /\ m_Running = TRUE
  /\ m_Scanning = FALSE
  /\ m_Calibrating = FALSE
  /\ m_Status = "READY"
  /\ fps = 0
  /\ pc = [t \in Threads |-> IF t = ScanThread THEN "run" ELSE "idle"]
  /\ frame = 1
  /\ frame_start = "old"
  /\ late = 0
  /\ raced = FALSE
  /\ fpsMoved = FALSE

-----------------------------------------------------------------------------
(* StartScan.                                                              *)

StartCall(t) ==
  /\ Goto(t, "idle", "start_check")
  /\ UNCHANGED <<flags, m_Status, fps, thread, late, fpsMoved>>

(* if (m_Scanning) return;                                                 *)
StartCheck(t) ==
  /\ Goto(t, "start_check", IF m_Scanning THEN "idle" ELSE "start_prepare")
  /\ UNCHANGED <<flags, m_Status, fps, thread, late, fpsMoved>>

(* Re-seeding, the new m_ScanStartTime, ConfigureScanLayout and            *)
(* UpdateScanAverages.                                                     *)
StartPrepare(t) ==
  /\ Goto(t, "start_prepare", "start_flag")
  /\ frame_start' = "old"
  /\ UNCHANGED <<flags, m_Status, fps, frame, late, fpsMoved>>

StartFlag(t) ==
  /\ Goto(t, "start_flag", "start_status")
  /\ m_Scanning' = TRUE
  /\ late' = 0
  /\ UNCHANGED <<m_Running, m_Calibrating, m_Status, fps, thread, fpsMoved>>

StartStatus(t) ==
  /\ Goto(t, "start_status", "start_notify")
  /\ m_Status' = "SCAN"
  /\ UNCHANGED <<flags, fps, thread, late, fpsMoved>>

(* m_OnStatusChanged(): ServerLayer sends a prompt if the status is READY. *)
StartNotify(t) ==
  /\ Goto(t, "start_notify", "idle")
  /\ UNCHANGED <<flags, m_Status, fps, thread, late, fpsMoved>>

StartScan(t) ==
  \/ StartCall(t) \/ StartCheck(t) \/ StartPrepare(t)
  \/ StartFlag(t) \/ StartStatus(t) \/ StartNotify(t)

-----------------------------------------------------------------------------
(* StopScan, called by a command, by the scan thread after the last frame  *)
(* of a finite scan and by Shutdown.                                       *)

AfterStop(t) ==
  IF t = ScanThread THEN "next" ELSE IF t = MainThread THEN "off" ELSE "idle"

(* A command, or Shutdown, calls StopScan; the scan thread does in FpsTest.*)
StopCall(t) ==
  /\ Goto(t, "idle", "stop_check")
  /\ UNCHANGED <<flags, m_Status, fps, thread, late, fpsMoved>>

StopCheck(t) ==
  /\ Goto(t, "stop_check", IF m_Scanning THEN "stop_clear" ELSE AfterStop(t))
  /\ UNCHANGED <<flags, m_Status, fps, thread, late, fpsMoved>>

StopClear(t) ==
  /\ Goto(t, "stop_clear", "stop_status")
  /\ m_Scanning' = FALSE
  /\ late' = IF m_Scanning THEN 0 ELSE late
  /\ UNCHANGED <<m_Running, m_Calibrating, m_Status, fps, thread, fpsMoved>>

(* Fault: the end of a scan is signalled but not written to the register.  *)
StopStatusForgotten(t) ==
  /\ Goto(t, "stop_status",
          IF m_Status = "READY" THEN AfterStop(t) ELSE "stop_notify")
  /\ UNCHANGED <<flags, m_Status, fps, thread, late, fpsMoved>>

StopStatus(t) ==
  /\ Goto(t, "stop_status",
          IF m_Status = "READY" THEN AfterStop(t) ELSE "stop_notify")
  /\ m_Status' = "READY"
  /\ UNCHANGED <<flags, fps, thread, late, fpsMoved>>

StopNotify(t) ==
  /\ Goto(t, "stop_notify", AfterStop(t))
  /\ UNCHANGED <<flags, m_Status, fps, thread, late, fpsMoved>>

StopScan(t) ==
  StopCheck(t) \/ StopClear(t) \/ StopStatus(t) \/ StopNotify(t)

-----------------------------------------------------------------------------
(* CalZ and SET FPS.                                                       *)

CalzCall(t) ==
  /\ Goto(t, "idle", "calz_flag")
  /\ UNCHANGED <<flags, m_Status, fps, thread, late, fpsMoved>>

CalzFlag(t) ==
  /\ Goto(t, "calz_flag", "calz_status")
  /\ m_Calibrating' = TRUE
  /\ UNCHANGED <<m_Running, m_Scanning, m_Status, fps, thread, late, fpsMoved>>

CalzStatus(t) ==
  /\ Goto(t, "calz_status", "calz_notify")
  /\ m_Status' = "CALZ"
  /\ UNCHANGED <<flags, fps, thread, late, fpsMoved>>

CalzNotify(t) ==
  /\ Goto(t, "calz_notify", "idle")
  /\ UNCHANGED <<flags, m_Status, fps, thread, late, fpsMoved>>

CalZ(t) == CalzCall(t) \/ CalzFlag(t) \/ CalzStatus(t) \/ CalzNotify(t)

(* SET FPS <n> stores into m_cfg whatever the device is doing.             *)
SetFps(t, n) ==
  /\ pc[t] = "idle"
  /\ fps' = n
  /\ fpsMoved' = TRUE
  /\ UNCHANGED <<flags, m_Status, pc, thread, late>>

-----------------------------------------------------------------------------
(* ScanThreadFn.                                                           *)

(* Fault: the outer loop ends with the scan instead of with the device.    *)
RunTestOnScan ==
  /\ Goto(ScanThread, "run", IF m_Running /\ m_Scanning THEN "cal" ELSE "exit")
  /\ UNCHANGED <<flags, m_Status, fps, thread, late, fpsMoved>>

(* while (m_Running)                                                       *)
RunTest ==
  /\ Goto(ScanThread, "run", IF m_Running THEN "cal" ELSE "exit")
  /\ UNCHANGED <<flags, m_Status, fps, thread, late, fpsMoved>>

(* if (m_Calibrating), then the two seconds of sleep at "cal_clear".       *)
CalTest ==
  /\ Goto(ScanThread, "cal", IF m_Calibrating THEN "cal_clear" ELSE "begin")
  /\ UNCHANGED <<flags, m_Status, fps, thread, late, fpsMoved>>

(* Fault: the request stays pending after the calibration.                 *)
CalClearForgotten ==
  /\ Goto(ScanThread, "cal_clear", "cal_status")
  /\ UNCHANGED <<flags, m_Status, fps, thread, late, fpsMoved>>

CalClear ==
  /\ Goto(ScanThread, "cal_clear", "cal_status")
  /\ m_Calibrating' = FALSE
  /\ UNCHANGED <<m_Running, m_Scanning, m_Status, fps, thread, late, fpsMoved>>

(* Fault: a calibration ending during a scan goes back to SCAN from CALZ   *)
(* without looking at the scan.                                            *)
CalStatusScan ==
  /\ Goto(ScanThread, "cal_status", "cal_notify")
  /\ m_Status' = "SCAN"
  /\ UNCHANGED <<flags, fps, thread, late, fpsMoved>>

CalStatus ==
  /\ Goto(ScanThread, "cal_status", "cal_notify")
  /\ m_Status' = "READY"
  /\ UNCHANGED <<flags, fps, thread, late, fpsMoved>>

CalNotify ==
  /\ Goto(ScanThread, "cal_notify", "begin")
  /\ UNCHANGED <<flags, m_Status, fps, thread, late, fpsMoved>>

(* Fault: frames are numbered from zero.                                   *)
BeginAtZero ==
  /\ Goto(ScanThread, "begin", "scan")
  /\ frame' = 0
  /\ frame_start' = "current"
  /\ fpsMoved' = FALSE
  /\ UNCHANGED <<flags, m_Status, fps, late>>

(* auto frame_start = m_ScanStartTime; uint32_t frame = 1;                 *)
Begin ==
  /\ Goto(ScanThread, "begin", "scan")
  /\ frame' = 1
  /\ frame_start' = "current"
  /\ fpsMoved' = FALSE
  /\ UNCHANGED <<flags, m_Status, fps, late>>

(* Fault: the inner loop tests that the device runs, not that it scans.    *)
ScanTestOnRunning ==
  /\ Goto(ScanThread, "scan", IF m_Running THEN "emit" ELSE "run")
  /\ UNCHANGED <<flags, m_Status, fps, thread, late, fpsMoved>>

(* while (m_Scanning); when it ends the thread sleeps 100 ms and goes back *)
(* to the outer loop.                                                      *)
ScanTest ==
  /\ Goto(ScanThread, "scan", IF m_Scanning THEN "emit" ELSE "run")
  /\ UNCHANGED <<flags, m_Status, fps, thread, late, fpsMoved>>

(* A frame is sampled (which takes the frame's duration), built and handed *)
(* to m_OnLabviewFrame and m_OnFrame.                                      *)
Emit ==
  /\ Goto(ScanThread, "emit", "fps")
  /\ late' = IF m_Scanning \/ late = 2 THEN late ELSE late + 1
  /\ UNCHANGED <<flags, m_Status, fps, thread, fpsMoved>>

(* Fault: the scan is stopped one frame too late.                          *)
FpsTestOffByOne ==
  /\ Goto(ScanThread, "fps",
          IF fps # 0 /\ fps + 1 = frame THEN "stop_check" ELSE "next")
  /\ UNCHANGED <<flags, m_Status, fps, thread, late, fpsMoved>>

(* Fault: finite scans are never stopped.                                  *)
FpsTestMissing ==
  /\ Goto(ScanThread, "fps", "next")
  /\ UNCHANGED <<flags, m_Status, fps, thread, late, fpsMoved>>

(* if (frames_per_scan && (frames_per_scan == frame)) StopScan();          *)
FpsTest ==
  /\ Goto(ScanThread, "fps",
          IF fps # 0 /\ fps = frame THEN "stop_check" ELSE "next")
  /\ UNCHANGED <<flags, m_Status, fps, thread, late, fpsMoved>>

NextFrame ==
  /\ Goto(ScanThread, "next", "scan")
  /\ frame' = IF frame < MaxFrame THEN frame + 1 ELSE MaxFrame
  /\ UNCHANGED <<flags, m_Status, fps, frame_start, late, fpsMoved>>

ScanThreadFn ==
  \/ RunTest \/ CalTest \/ CalClear \/ CalStatus \/ CalNotify
  \/ Begin \/ ScanTest \/ Emit \/ FpsTest \/ NextFrame
  \/ StopScan(ScanThread)

-----------------------------------------------------------------------------
(* Shutdown: StopScan, then m_Running = false, then StopAll joins the      *)
(* workers of the pool, one of which runs ScanThreadFn.                    *)

(* Fault: the scan thread is not told to stop.                             *)
ShutdownOffForgotten ==
  /\ Goto(MainThread, "off", "join")
  /\ UNCHANGED <<flags, m_Status, fps, thread, late, fpsMoved>>

ShutdownOff ==
  /\ Goto(MainThread, "off", "join")
  /\ m_Running' = FALSE
  /\ UNCHANGED <<m_Scanning, m_Calibrating, m_Status, fps, thread, late,
                 fpsMoved>>

ShutdownJoin ==
  /\ pc[ScanThread] = "exit"
  /\ Goto(MainThread, "join", "done")
  /\ UNCHANGED <<flags, m_Status, fps, thread, late, fpsMoved>>

Shutdown == StopScan(MainThread) \/ ShutdownOff \/ ShutdownJoin

-----------------------------------------------------------------------------
Command(t) == StartScan(t) \/ StopScan(t) \/ CalZ(t)

Step ==
  \/ \E t \in Callers :
       Command(t) \/ StopCall(t) \/ \E n \in FpsValues : SetFps(t, n)
  \/ ScanThreadFn
  \/ StopCall(MainThread)
  \/ Shutdown

(* Each step also keeps the record of overlapping operations.              *)
Recorded(A) == A /\ raced' = (raced \/ Overlap')

Next == Recorded(Step)

Spec == Init /\ [][Next]_vars

(* Threads run: a command that was begun is carried on, the scan thread    *)
(* and a shutdown that was begun make progress.  Nobody is obliged to      *)
(* issue a command or to shut the device down.                             *)
Fairness ==
  /\ \A t \in Callers : WF_vars(pc[t] # "idle" /\ Recorded(Command(t)))
  /\ WF_vars(Recorded(ScanThreadFn))
  /\ WF_vars(Recorded(Shutdown))

FairSpec == Spec /\ Fairness

-----------------------------------------------------------------------------
(* Properties.                                                             *)

(* Every variable has its type.  Of interest: frame starts at 1, as the    *)
(* packets number frames, and late never has to count to 2 (below).        *)
TypeOK ==
  /\ m_Running \in BOOLEAN
  /\ m_Scanning \in BOOLEAN
  /\ m_Calibrating \in BOOLEAN
  /\ m_Status \in Statuses
  /\ fps \in FpsValues \cup {0}
  /\ pc \in [Threads -> CallerLabels \cup ScanLabels \cup MainLabels]
  /\ \A t \in Callers : pc[t] \in CallerLabels
  /\ pc[ScanThread] \in ScanLabels
  /\ pc[MainThread] \in MainLabels
  /\ frame \in 1 .. MaxFrame
  /\ frame_start \in {"current", "old"}
  /\ late \in 0 .. 2
  /\ raced \in BOOLEAN
  /\ fpsMoved \in BOOLEAN

(* STOP does not wait for the frame in the making: mps.cpp 252 only clears *)
(* m_Scanning, which the scan thread tests once per frame (290).  However  *)
(* the commands of all clients, the end of a finite scan and a shutdown    *)
(* interleave, a client that stopped the scan gets at most one more frame  *)
(* until a scan is started again.                                          *)
AtMostOneLateFrame == late <= 1

(* A thread between its write of a flag and its write of m_Status is the   *)
(* one that decides what the register is about to say.                     *)
Announced ==
  CASE \E t \in Threads : pc[t] = "calz_status" -> "CALZ"
    [] \E t \in Threads : pc[t] = "start_status" -> "SCAN"
    [] \E t \in Threads : pc[t] \in {"stop_status", "cal_status"} -> "READY"
    [] OTHER -> m_Status

Register == INSTANCE ScannerStatus WITH
  scanning <- m_Scanning, calibrating <- m_Calibrating, status <- Announced

(* As long as no two threads were ever inside an operation together, SCAN, *)
(* STOP, CALZ and the end of a calibration are each atomic: the flag and   *)
(* the status that follows it change as in ScannerStatus, and no other     *)
(* step of any thread changes what a client can see.  The proviso is what  *)
(* the missing mutex of class Mps costs (mps.cpp 48-51, 223-224, 252-256,  *)
(* 277-278).                                                               *)
SerialStepsAreAtomic ==
  [][raced' \/ Register!ANext \/ UNCHANGED Register!avars]_vars

(* ... and the STATUS answer does not announce a scan that is over or a    *)
(* calibration that is done (GetStatusStr after mps.cpp 224, 256, 278).    *)
StatusIsTruthful == raced \/ Register!Truthful

(* A finite scan, in a scan loop entered for it, delivers no frame beyond  *)
(* frames_per_scan, whatever STOP, SCAN, CALZ and Shutdown do meanwhile,   *)
(* provided SET FPS leaves the count alone and no operations overlap       *)
(* (mps.cpp 500-503: the count is tested with ==, so that a frame number   *)
(* that gets past it is never caught again).                               *)
FiniteScanBounded ==
  (/\ pc[ScanThread] = "emit"
   /\ fps # 0
   /\ frame_start = "current"
   /\ ~fpsMoved
   /\ ~raced) => frame <= fps

(* A requested calibration ends unless a scan holds it off or the device   *)
(* is shut down (mps.cpp 274-278).                                         *)
CalibrationFinishes ==
  m_Calibrating ~> (~m_Calibrating \/ m_Scanning \/ ~m_Running)

(* A requested scan produces a frame unless it is stopped or the device is *)
(* shut down: no interleaving with a calibration or with the end of an     *)
(* earlier scan makes the scan thread miss the request (mps.cpp 272-290).  *)
ScanProduces ==
  m_Scanning ~> (pc[ScanThread] = "emit" \/ ~m_Scanning \/ ~m_Running)

(* A shutdown ends, unless a scan was (re)started after Shutdown called    *)
(* StopScan (mps.cpp 41-45).                                               *)
ShutdownCompletes ==
  pc[MainThread] = "join" ~> (pc[MainThread] = "done" \/ m_Scanning)

(* A finite scan stops by itself, if its count is left alone, no           *)
(* operations overlap and it is not a restart within the scan loop of an   *)
(* earlier scan (mps.cpp 500-501).                                         *)
UndisturbedScanEnds ==
  (/\ pc[ScanThread] = "emit"
   /\ fps # 0
   /\ frame_start = "current"
   /\ ~fpsMoved
   /\ ~raced)
    ~> (~m_Scanning \/ frame_start = "old" \/ fpsMoved \/ raced)

-----------------------------------------------------------------------------
(* Statements of the documentation that the code does not meet.            *)

(* README.md 144: CALZ "simply sets the status to STATUS: CALZ for 2       *)
(* seconds".  Outside a scan it is not shown for ever.                     *)
CalzIsTemporary ==
  (m_Status = "CALZ" /\ ~m_Scanning)
    ~> (m_Status # "CALZ" \/ m_Scanning \/ ~m_Running)

(* mps.cpp 284: "frame start is initially equal to the scan start time     *)
(* then updated each frame": a frame of the scan in progress is timed from *)
(* the start time of that scan.                                            *)
FramesAreOfThisScan ==
  [][ScanTest /\ pc'[ScanThread] = "emit" => frame_start = "current"]_vars

(* mps.cpp 42: after StopScan, m_Running = false is to "stop the canning   *)
(* thread": it does, once the clients have fallen silent.                  *)
ShutdownStopsScanThread ==
  <>[](\A t \in Callers : pc[t] = "idle")
    => (pc[MainThread] = "join" ~> pc[ScanThread] = "exit")

=============================================================================
