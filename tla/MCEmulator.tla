----------------------------- MODULE MCEmulator -----------------------------
(***************************************************************************)
(* The instance of Emulator that TLC checks.  Its three machines share no  *)
(* variable and are looked at one at a time: the initial states choose     *)
(* which of them moves, and the other two rest in states in which they     *)
(* have nothing to do.                                                     *)
(***************************************************************************)
EXTENDS Emulator

CONSTANT c1

(* The terminal: one command, one other word and the keys that edit.       *)
KeysTyped == {Word("SCAN"), Word("X"), CR, LF, BS, ESC}

Set(w, args) == <<Word("SET"), Word(w)>> \o args
Spaced(words) ==
  [i \in 1..(2 * Len(words) - 1) |-> IF i % 2 = 1 THEN words[(i + 1) \div 2] ELSE SP]
Line(words) == Spaced(words) \o <<CR, LF>>

(* Many keys and a segment, or more segments and a key.                    *)
KeysOrSegments == {[keys |-> 5, segments |-> 1], [keys |-> 1, segments |-> 2]}

(* Of the numbers of parts, those of at most one significant bit.          *)
PrintableRates == {0} \cup {2 ^ k : k \in 0..8}

(* A rate of more digits than are printed, and one too small to average.   *)
LongRate == Decimal(1, 1)
TinyRate == Decimal(0, 1)

(* Commands with good, bad, missing and too many arguments, at the ends of *)
(* the ranges of the numbers and beyond.                                   *)
SetLines ==
  {Set("RATE", <<t>>) : t \in {Number(0), Number(1), Number(4), LongRate, TinyRate,
                               Word("NAN"), Word("X")}} \cup
  {Set("FPS", <<t>>) : t \in {Number(-1), Number(2), Word("X")}} \cup
  {Set("ENUDP", <<t>>) : t \in {Number(0), Word("X")}} \cup
  {Set(w, <<t>>) : w \in {"ENFTP", "enftp"}, t \in {Number(1), Word("X")}} \cup
  {Set("IPUDP", <<Word("other")>>), Set("IPUDP", <<Word("other"), Number(-1)>>)} \cup
  {Set("UNITS", <<t>>) : t \in {Word("RAW"), Word("raw")}} \cup
  {Set("SIM", <<t>>) : t \in {Number(0), Number(-1), Number(Short), Number(Long),
                              Trailed(Number(1)), Word("X")}} \cup
  {Set("FORMAT", a) : a \in {<<>>, <<Word("B"), Word("L")>>,
                             <<Word("F"), Word("C"), Word("B")>>,
                             <<Word("T"), Word("F"), Word("F"), Word("L"), Word("B"), Word("L")>>}}

(* Whole lines; two commands in one segment, a command cut in two, a space *)
(* too many, and nothing.                                                  *)
SegmentsSent ==
  {Line(t) : t \in SetLines} \cup
  {Line(<<Word(w)>>) : w \in {"VER", "SCAN", "RESTART", "SET", "X"}} \cup
  {Line(<<Word("GET"), Word("RATE")>>), Line(<<Word("LIST"), Word("S")>>),
   Spaced(Set("FORMAT", <<Word("T"), Word("C")>>)) \o <<SP, CR, LF>>,
   <<Word("STOP"), CR, LF, Word("SCAN"), CR, LF>>, <<Word("SCAN"), SP>>, <<CR, LF>>}

CommandsSent ==
  {<<Word("SCAN")>>, <<Word("STOP")>>, Set("SIM", <<Number(0)>>),
   Set("FORMAT", <<Word("B"), Word("L")>>),
   Set("RATE", <<TinyRate>>), Set("RATE", <<Number(8)>>)}

(* Every configuration that the layout of a scan can tell from another.    *)
ConfigsLeft ==
  {[DefaultConfig EXCEPT !.format = [T |-> "A", F |-> f, B |-> b], !.units = u,
                         !.udp = e, !.ftp = p, !.sim = s] :
     f \in {"B", "C"}, b \in {"B", "L"}, u \in {"PA", "RAW"}, e \in BOOLEAN,
     p \in BOOLEAN, s \in {0, PadBit}}

(* Every device scans a frame with every configuration; more commands and  *)
(* frames come only of one device with the configuration of OnAttach.      *)
FewCommands ==
  \/ commands = 1 /\ frames = 1
  \/ /\ commands = MaxCommands /\ frames = MaxFrames
     /\ setting.cfg = DefaultConfig /\ deviceId = 16 /\ tcpClient

-----------------------------------------------------------------------------
(* An application that has ended, a client that has nothing more to send   *)
(* and a device that nobody commands.                                      *)
LifecycleRests ==
  AllOff /\ main = "exit" /\ appRunning = FALSE /\ ipValid = TRUE /\ consoleOn = FALSE
SessionRests == SessionStart /\ left = [keys |-> 0, segments |-> 0]
FramesRest ==
  /\ deviceId = 16 /\ tcpClient = FALSE /\ commands = 0 /\ frames = 0
  /\ setting = Fresh
  /\ FramesStart

Init ==
  \/ LifecycleInit /\ SessionRests /\ FramesRest
  \/ LifecycleRests /\ SessionInit /\ FramesRest
  \/ LifecycleRests /\ SessionRests /\ FramesInit /\ FewCommands

Next ==
  \/ LifecycleNext /\ UNCHANGED <<sessionVars, framesVars>>
  \/ SessionNext /\ UNCHANGED <<lifecycleVars, framesVars>>
  \/ FramesNext /\ UNCHANGED <<lifecycleVars, sessionVars>>

Spec ==
  /\ Init
  /\ [][Next]_emulatorVars
  /\ LifecycleFairness
  /\ FramesFairness

=============================================================================
