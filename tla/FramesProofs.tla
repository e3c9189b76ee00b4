---------------------------- MODULE FramesProofs ----------------------------
(***************************************************************************)
(* Every frame is what its scan was configured to deliver: the safety      *)
(* properties of Frames, for every command, configuration and device.      *)
(*                                                                         *)
(* The configuration, the layout and the averages are shared by the        *)
(* caller, who computes them one assignment after the other, and the scan  *)
(* thread, which reads them one by one.  None of the properties is         *)
(* inductive: a packet is right because of what the layout was at several  *)
(* earlier reads, and the layout is right because StartScan has finished   *)
(* it.  The invariant FramesInv therefore says, at each place of           *)
(* ConfigureScanLayout, which part of the layout is already that of the    *)
(* configuration (LaidOut) and, at each place of ScanThreadFn, what the    *)
(* frame has copied (Filled), summed (Summed) and delivered (SoFar).  What *)
(* lets the two be taken apart is Alone: while StartScan is under way,     *)
(* there is no frame but one that is marked as overlapped.                 *)
(***************************************************************************)
EXTENDS Frames, SettingsProofs, SequenceTheorems

(* The variables whose domains do not depend on each other.                *)
Domains ==
  /\ deviceId \in Devices /\ tcpClient \in BOOLEAN /\ scanOn \in BOOLEAN
  /\ died \in BOOLEAN /\ overlapped \in BOOLEAN /\ changed \in BOOLEAN
  /\ commands \in 0..MaxCommands /\ frames \in 0..MaxFrames
  /\ caller \in {"idle", "rate", "layout", "reset", "channels", "padding", "type",
                 "info", "averages", "go"}

LayoutType ==
  layout \in [labview : BOOLEAN, binary : BOOLEAN, raw : BOOLEAN, pad : BOOLEAN,
              info : BOOLEAN, type : PacketTypes, physical : Channeled, count : Channeled]

FrameType ==
  frame \in [at : {"idle", "sample", "divide", "labview", "values", "size64",
                   "size32", "size16", "labview_out", "binary", "switch", "copy",
                   "info", "size", "out", "tcp", "end"},
             samples : Nat, divisor : Nat, type : PacketTypes, copied : {0} \cup Channeled]

(* The frame under way may still put one packet in the queue, so that with *)
(* it the packets sent, held and queued are at most as many as the frames. *)
ToStream == IF frame.at \in {"idle", "tcp", "end"} THEN 0 ELSE 1

Packets == [to : {"udp"}, type : PacketTypes, copied : {0} \cup Channeled]
Stream ==
  /\ sent \in Nat /\ queue \in Seq(Packets)
  /\ sending = <<>> \/ \E p \in Packets : sending = <<p>>
  /\ sent + Len(sending) + Len(queue) + ToStream <= MaxFrames - frames

(* The averages are zero only with a bad rate, or while a SET RATE has     *)
(* stored the rate and the averages not yet.                               *)
InStep == Fielded(setting) /\ (caller # "rate" => Shaped(setting))

(* m_Scanning is off while StartScan is under way, and a frame that is not *)
(* finished has been overlapped by it.                                     *)
Starting == caller \notin {"idle", "rate"}
Alone == Starting => ~scanOn /\ (frame.at # "idle" => overlapped)

(* What ConfigureScanLayout computes for the configuration c: m_UseBinary, *)
(* the padding of SIM 0x40, and the channels of a packet.                  *)
Wanted(c) == c.format.B = "B" \/ (c.format.F = "B" /\ (c.udp \/ c.ftp))
Padded(c) == (c.sim \div PadBit) % 2 = 1
Width(pad) == IF pad \/ deviceId = Unknown THEN 64 ELSE deviceId

(* The layout is finished: StartScan is past it, the scan is on, or a      *)
(* frame of it has not been overlapped.                                    *)
UnderWay == frame.at # "idle" /\ ~overlapped
Settled == caller \in {"averages", "go"} \/ scanOn \/ UnderWay

(* Each part of the layout is that of the configuration c from the         *)
(* assignment on that computes it.  Padding is decided after the channels, *)
(* so the count is that of the device in between.                          *)
LaidOut(c) ==
  /\ Starting => setting.cfg = c
  /\ caller \in {"reset", "channels", "padding", "type", "info"} \/ Settled =>
       layout.labview = (c.format.B = "L") /\ layout.binary = Wanted(c)
  /\ caller \in {"channels", "padding", "type", "info"} \/ Settled =>
       layout.raw = (c.units = "RAW") /\ layout.pad = Padded(c)
  /\ caller \in {"channels", "padding", "type"} => layout.type = Undefined /\ ~layout.info
  /\ caller = "padding" => layout.count = Width(FALSE)
  /\ caller \in {"type", "info"} \/ Settled => layout.count = Width(layout.pad)
  /\ caller = "info" \/ Settled =>
       layout.type = IF layout.binary THEN PacketType ELSE Undefined
  /\ Settled => layout.info = (layout.binary /\ layout.type # Undefined)
  /\ deviceId = Unknown => layout.physical = 64

(* The bytes copied are those of the type that the packet gets; the type   *)
(* is known before the copy in a binary packet and after it in a LabVIEW   *)
(* packet.                                                                 *)
Filled ==
  UnderWay =>
    /\ frame.at \in {"size64", "size32", "size16"} => frame.copied = layout.count
    /\ frame.at = "copy" => frame.type.channels = layout.count
    /\ frame.at \in {"labview_out", "info", "size", "out", "tcp"} =>
         frame.copied = frame.type.channels
    /\ frame.at = "size" => layout.info

(* The samples of the frame, against the number of averages.               *)
Summed ==
  /\ frame.at \in {"sample", "divide"} => frame.divisor = 0
  /\ ~overlapped /\ ~changed =>
       /\ frame.at = "sample" => frame.samples <= setting.avg
       /\ frame.at = "divide" => frame.samples = setting.avg

(* The packets of the configuration c, by the place that sends them:       *)
(* OnLabviewFrame, OnScanFrame to the UDP target, OnScanFrame to the       *)
(* client.                                                                 *)
OwnType(c) == Type(IF Padded(c) THEN "legacy" ELSE "own", Width(Padded(c)), c.units = "RAW")
Known(c) == Padded(c) \/ deviceId # Unknown
Out(to, type) == [to |-> to, type |-> type, copied |-> type.channels]
Lab(c) == IF tcpClient /\ c.format.B = "L"
          THEN {Out("tcp", Type("labview", Width(Padded(c)), FALSE))} ELSE {}
Udp(c) == IF Known(c) /\ c.udp /\ c.format.F = "B" THEN {Out("udp", OwnType(c))} ELSE {}
Tcp(c) == IF Known(c) /\ tcpClient /\ c.format.B = "B" THEN {Out("tcp", OwnType(c))} ELSE {}

(* What the frame has delivered on its way, as long as its scan is the     *)
(* last one and its settings are those of the scan.                        *)
Steady == UnderWay /\ ~changed /\ setting.cfg = wanted.cfg
InSizes == {"size64", "size32", "size16"}
InCopy == {"info", "size", "out"}
SoFar(c) ==
  Steady =>
    /\ frame.at \in {"sample", "divide", "labview", "values", "labview_out"} \cup InSizes =>
         output = {}
    /\ frame.at \in {"values", "labview_out"} \cup InSizes => layout.labview
    /\ frame.at \in {"size32", "size16"} => layout.count # 64
    /\ frame.at = "size16" => layout.count # 32
    /\ frame.at = "labview_out" => frame.type = Type("labview", layout.count, FALSE)
    /\ frame.at \in {"binary", "switch", "copy"} \cup InCopy => output = Lab(c)
    /\ frame.at \in {"switch", "copy", "tcp"} \cup InCopy => layout.binary
    /\ frame.at \in {"copy", "tcp"} \cup InCopy => layout.type # Undefined
    /\ frame.at = "copy" => frame.type = layout.type
    /\ frame.at \in {"tcp"} \cup InCopy => frame.type = OwnType(c)
    /\ frame.at = "tcp" => output = Lab(c) \cup Udp(c)
    /\ frame.at = "end" => output = Lab(c) \cup Udp(c) \cup Tcp(c)

(* The inductive invariant.                                                *)
LayoutInv == InStep /\ LayoutType /\ Alone /\ LaidOut(wanted.cfg)
FrameInv ==
  /\ FrameType /\ Filled /\ PacketsAreWhole
  /\ Summed /\ AveragesAreAverages
  /\ SoFar(wanted.cfg)
FramesInv == Domains /\ LayoutInv /\ FrameInv /\ Stream /\ DiesOnlyOfBadRate

-----------------------------------------------------------------------------
(* Steps that leave parts of the invariant as they are.                    *)

(* What the scan thread and the stream thread leave to the caller.         *)
Still == UNCHANGED <<deviceId, tcpClient, setting, layout, scanOn, caller, wanted, commands>>
SameMarks == UNCHANGED <<overlapped, changed>>

LEMMA DeviceChannels ==
  ASSUME Domains
  PROVE  Width(FALSE) \in Channeled /\ Width(TRUE) \in Channeled
  BY FramesBounds DEF Domains, Width, Channeled

LEMMA TypesOfPackets ==
  /\ Undefined \in PacketTypes /\ Legacy \in PacketTypes
  /\ \A n \in Channeled : \A raw \in BOOLEAN :
       /\ Type("own", n, raw) \in PacketTypes
       /\ Type("labview", n, raw) \in PacketTypes
       /\ Type("legacy", n, raw) \in PacketTypes
  BY DEF PacketTypes, Type, Undefined, Legacy, Channeled

(* The layout does not change, and no frame but one of a finished layout   *)
(* begins.                                                                 *)
LEMMA LayoutKept ==
  ASSUME Domains, LayoutInv, Still, UnderWay' => UnderWay \/ scanOn,
         ~Starting \/ frame'.at = "idle" \/ overlapped'
  PROVE  LayoutInv'
<1> USE DEF LayoutInv, Still
<1>1. InStep'
  BY DEF InStep, Shaped, Fielded
<1>2. LayoutType'
  BY DEF LayoutType, PacketTypes
<1>3. Alone'
  BY DEF Alone, Starting
<1>4. LaidOut(wanted.cfg)'
  <2>1. Settled' => Settled
    BY DEF Settled
  <2>. QED BY <2>1 DEF LaidOut, Starting, PacketType, Width
<1>. QED BY <1>1, <1>2, <1>3, <1>4

(* A step of the caller keeps what is known of the frame: it leaves the    *)
(* layout alone while a frame is under way, or marks the frame.            *)
LEMMA FrameKept ==
  ASSUME FrameInv, UNCHANGED <<deviceId, tcpClient, frame, output>>,
         overlapped => overlapped', changed => changed',
         \/ frame.at # "idle" => overlapped'
         \/ /\ UNCHANGED <<layout, wanted, overlapped>>
            /\ setting' = setting \/ changed'
  PROVE  FrameInv'
<1> USE DEF FrameInv
<1>1. FrameType'
  BY DEF FrameType, PacketTypes
<1>2. Filled'
  BY DEF Filled, UnderWay
<1>3. PacketsAreWhole'
  BY DEF PacketsAreWhole
<1>4. Summed'
  BY DEF Summed
<1>5. AveragesAreAverages'
  BY DEF AveragesAreAverages
<1>6. SoFar(wanted.cfg)'
  <2>1. CASE ~Steady'
    BY <2>1 DEF SoFar
  <2>2. CASE Steady'
    <3>1. UNCHANGED <<layout, wanted>> /\ Steady
      BY <2>2 DEF Steady, UnderWay
    <3>2. Lab(wanted.cfg)' = Lab(wanted.cfg)
      BY <3>1 DEF Lab, Out, Width, Padded
    <3>3. Udp(wanted.cfg)' = Udp(wanted.cfg)
      BY <3>1 DEF Udp, OwnType, Known, Width
    <3>4. Tcp(wanted.cfg)' = Tcp(wanted.cfg)
      BY <3>1 DEF Tcp, OwnType, Known, Width
    <3>5. OwnType(wanted.cfg)' = OwnType(wanted.cfg)
      BY <3>1 DEF OwnType, Known, Width, Padded
    <3>. QED BY <3>1, <3>2, <3>3, <3>4, <3>5 DEF SoFar
  <2>. QED BY <2>1, <2>2
<1>. QED BY <1>1, <1>2, <1>3, <1>4, <1>5, <1>6

-----------------------------------------------------------------------------
(* The commands of the caller.                                             *)

(* What the caller leaves to the other threads.                            *)
CallerStill ==
  UNCHANGED <<deviceId, tcpClient, frame, output, frames, queue, sending, sent,
  died>>

LEMMA CallerKeeps ==
  ASSUME FramesInv, ~died, CallerStill
  PROVE  Stream' /\ DiesOnlyOfBadRate'
<1> USE DEF FramesInv, CallerStill
<1>1. Stream'
  BY DEF Stream, ToStream, Packets, PacketTypes
<1>2. DiesOnlyOfBadRate'
  BY DEF DiesOnlyOfBadRate
<1>. QED BY <1>1, <1>2

LEMMA SetOrGetInv ==
  ASSUME FramesInv, ~died, NEW t \in Commands, Command(t), SetOrGet(t)
  PROVE  FramesInv'
<1> USE DEF FramesInv
<1>1. /\ CallerStill /\ caller = "idle"
      /\ UNCHANGED <<layout, scanOn, wanted, overlapped>>
  BY DEF Command, SetOrGet, CallerStill, fixed, scanner, packets
<1>2. PICK o \in ParseCommands(setting, t) : setting' = [o.state EXCEPT !.avg = setting.avg]
  BY DEF SetOrGet
<1>3. caller' = IF SetsRate(t) THEN "rate" ELSE "idle"
  BY DEF SetOrGet
<1>4. changed' = (changed \/ setting' # setting)
  BY DEF SetOrGet
<1>5. Domains'
  <2>1. changed' \in BOOLEAN
    BY <1>4 DEF Domains
  <2>2. commands' \in 0..MaxCommands
    BY FramesBounds DEF Command, Domains
  <2>. QED BY <1>1, <1>3, <2>1, <2>2 DEF Domains, CallerStill
<1>6. InStep'
  <2>1. t \in Seq(TokenSet)
    BY FramesInputs, AnyTokens
  <2>2. Shaped(setting)
    BY <1>1 DEF LayoutInv, InStep
  <2>3. Shaped(o.state)
    BY <1>2, <2>1, <2>2, ParseCommandsShaped
  <2>4. /\ setting'.cfg = o.state.cfg /\ setting'.avg = setting.avg
        /\ DOMAIN setting' = DOMAIN o.state
    BY <1>2, <2>3 DEF Shaped, Fielded
  <2>5. Fielded(setting')
    BY <2>2, <2>3, <2>4 DEF Shaped, Fielded
  <2>6. CASE SetsRate(t)
    BY <1>3, <2>5, <2>6 DEF InStep
  <2>7. CASE ~SetsRate(t)
    <3>1. o.state.cfg.rate = setting.cfg.rate
      BY <1>2, <2>1, <2>2, <2>7, OtherRates DEF SetsRate
    <3>. QED BY <2>2, <2>4, <2>5, <3>1 DEF InStep, Shaped
  <2>. QED BY <2>6, <2>7
<1>7. LayoutInv'
  <2>1. LayoutType'
    BY <1>1 DEF LayoutInv, LayoutType, PacketTypes
  <2>2. Alone'
    BY <1>3 DEF Alone, Starting
  <2>3. LaidOut(wanted.cfg)'
    <3>1. Settled' => Settled
      BY <1>1, <1>3 DEF Settled, UnderWay, CallerStill
    <3>. QED BY <1>1, <1>3, <3>1 DEF LayoutInv, LaidOut, Starting, PacketType, Width,
                    CallerStill
  <2>. QED BY <1>6, <2>1, <2>2, <2>3 DEF LayoutInv
<1>8. FrameInv'
  BY <1>1, <1>4, FrameKept DEF CallerStill
<1>9. Stream' /\ DiesOnlyOfBadRate'
  BY <1>1, CallerKeeps
<1>. QED BY <1>5, <1>7, <1>8, <1>9

(* The second half of SET RATE.                                            *)
LEMMA FinishRateInv ==
  ASSUME FramesInv, ~died, FinishRate
  PROVE  FramesInv'
<1> USE DEF FramesInv
<1>1. CallerStill /\ UNCHANGED <<layout, scanOn, wanted, overlapped, commands>>
  BY DEF FinishRate, CallerStill, fixed, scanner, packets
<1>2. caller = "rate" /\ caller' = "idle" /\ changed' = (changed \/ setting' # setting)
  BY DEF FinishRate
<1>3. PICK a \in UpdateScanAverages(setting.cfg.rate) : setting' = [setting EXCEPT !.avg = a]
  BY DEF FinishRate, cfg
<1>4. InStep'
  <2>1. /\ setting'.cfg = setting.cfg /\ setting'.avg = a
        /\ DOMAIN setting' = DOMAIN setting
    BY <1>3 DEF LayoutInv, InStep, Fielded
  <2>2. a \in 0..(Long - 1) /\ (a = 0 => BadRate(setting.cfg.rate))
    BY AveragesBounds DEF LayoutInv, InStep, Fielded
  <2>. QED BY <2>1, <2>2 DEF LayoutInv, InStep, Shaped, Fielded
<1>5. Domains'
  BY <1>1, <1>2 DEF Domains, CallerStill
<1>6. LayoutInv'
  <2>1. LayoutType'
    BY <1>1 DEF LayoutInv, LayoutType, PacketTypes
  <2>2. Alone'
    BY <1>2 DEF Alone, Starting
  <2>3. LaidOut(wanted.cfg)'
    <3>1. Settled' => Settled
      BY <1>1, <1>2 DEF Settled, UnderWay, CallerStill
    <3>. QED BY <1>1, <1>2, <3>1 DEF LayoutInv, LaidOut, Starting, PacketType, Width,
                    CallerStill
  <2>. QED BY <1>4, <2>1, <2>2, <2>3 DEF LayoutInv
<1>7. FrameInv'
  BY <1>1, <1>2, FrameKept DEF CallerStill
<1>8. Stream' /\ DiesOnlyOfBadRate'
  BY <1>1, CallerKeeps
<1>. QED BY <1>5, <1>6, <1>7, <1>8

LEMMA BeginScanInv ==
  ASSUME FramesInv, ~died, NEW t \in Commands, Command(t), BeginScan
  PROVE  FramesInv'
<1> USE DEF FramesInv
<1>1. CallerStill /\ UNCHANGED <<layout, scanOn, setting, changed>>
  BY DEF Command, BeginScan, CallerStill, fixed, scanner, packets, shared
<1>2. /\ ~scanOn /\ caller = "idle" /\ caller' = "layout" /\ wanted' = setting
      /\ overlapped' = (overlapped \/ frame.at # "idle")
  BY DEF Command, BeginScan
<1>3. Domains'
  <2>1. commands' \in 0..MaxCommands
    BY FramesBounds DEF Command, Domains
  <2>. QED BY <1>1, <1>2, <2>1 DEF Domains, CallerStill
<1>4. LayoutInv'
  <2>1. InStep' /\ LayoutType'
    BY <1>1, <1>2 DEF LayoutInv, LayoutType, PacketTypes, InStep, Shaped, Fielded
  <2>2. Alone'
    BY <1>1, <1>2 DEF Alone, Starting, CallerStill
  <2>3. LaidOut(wanted.cfg)'
    <3>1. ~Settled'
      BY <1>1, <1>2 DEF Settled, UnderWay, CallerStill
    <3>. QED BY <1>1, <1>2, <3>1 DEF LayoutInv, LaidOut, Starting, CallerStill
  <2>. QED BY <2>1, <2>2, <2>3 DEF LayoutInv
<1>5. FrameInv'
  BY <1>1, <1>2, FrameKept DEF CallerStill
<1>6. Stream' /\ DiesOnlyOfBadRate'
  BY <1>1, CallerKeeps
<1>. QED BY <1>3, <1>4, <1>5, <1>6

LEMMA StopScanInv ==
  ASSUME FramesInv, ~died, NEW t \in Commands, Command(t), StopScan
  PROVE  FramesInv'
<1> USE DEF FramesInv
<1>1. CallerStill /\ UNCHANGED <<layout, setting, caller, wanted, overlapped, changed>>
  BY DEF Command, StopScan, CallerStill, fixed, scanner, packets, seen
<1>2. scanOn' = FALSE /\ caller = "idle"
  BY DEF Command, StopScan
<1>3. Domains'
  <2>1. commands' \in 0..MaxCommands
    BY FramesBounds DEF Command, Domains
  <2>. QED BY <1>1, <1>2, <2>1 DEF Domains, CallerStill
<1>4. LayoutInv'
  <2>1. InStep' /\ LayoutType'
    BY <1>1 DEF LayoutInv, LayoutType, PacketTypes, InStep, Shaped, Fielded
  <2>2. Alone'
    BY <1>1, <1>2 DEF Alone, Starting
  <2>3. LaidOut(wanted.cfg)'
    <3>1. Settled' => Settled
      BY <1>1, <1>2 DEF Settled, UnderWay, CallerStill
    <3>. QED BY <1>1, <3>1 DEF LayoutInv, LaidOut, Starting, PacketType, Width,
                    CallerStill
  <2>. QED BY <2>1, <2>2, <2>3 DEF LayoutInv
<1>5. FrameInv'
  BY <1>1, FrameKept DEF CallerStill
<1>6. Stream' /\ DiesOnlyOfBadRate'
  BY <1>1, CallerKeeps
<1>. QED BY <1>3, <1>4, <1>5, <1>6

-----------------------------------------------------------------------------
(* ConfigureScanLayout, one assignment after the other, and the end of     *)
(* StartScan.                                                              *)

LayoutStep ==
  CallerStill /\ UNCHANGED <<setting, scanOn, wanted, overlapped, changed, commands>>

LEMMA ConfigureKeeps ==
  ASSUME FramesInv, ~died, ConfigureScanLayout
  PROVE  /\ LayoutStep
         /\ ~Settled
         /\ Domains' /\ Alone' /\ InStep'
         /\ FrameInv' /\ Stream' /\ DiesOnlyOfBadRate'
<1> USE DEF FramesInv
<1>1. LayoutStep
  BY DEF ConfigureScanLayout, LayoutStep, CallerStill, fixed, scanner, packets,
         seen
<1>2. /\ caller \in {"layout", "reset", "channels", "padding", "type", "info"}
      /\ caller' \in {"reset", "channels", "padding", "type", "info", "averages"}
  BY DEF ConfigureScanLayout, Configure
<1>3. ~scanOn /\ ~UnderWay
  BY <1>2 DEF LayoutInv, Alone, Starting, UnderWay
<1>4. Domains'
  BY <1>1, <1>2 DEF Domains, LayoutStep, CallerStill
<1>5. Alone' /\ InStep'
  BY <1>1, <1>2
     DEF LayoutInv, Alone, Starting, InStep, Shaped, Fielded, LayoutStep, CallerStill
<1>6. FrameInv'
  BY <1>1, <1>3, FrameKept DEF LayoutStep, CallerStill, UnderWay
<1>7. Stream' /\ DiesOnlyOfBadRate'
  BY <1>1, CallerKeeps DEF LayoutStep
<1>8. ~Settled
  BY <1>2, <1>3 DEF Settled
<1>. QED BY <1>1, <1>4, <1>5, <1>6, <1>7, <1>8

(* Each assignment settles its part and relies on those before it.         *)
LEMMA ConfigureInv ==
  ASSUME FramesInv, ~died, ConfigureScanLayout
  PROVE  FramesInv'
<1> USE DEF FramesInv
<1>1. UNCHANGED <<deviceId, tcpClient, setting, wanted>>
  BY ConfigureKeeps DEF LayoutStep, CallerStill
<1>2. PacketType \in PacketTypes
  BY FramesBounds
     DEF Domains, LayoutInv, LayoutType, PacketType, PacketTypes, Legacy, Type,
         Channeled
<1>3. Channels \in Channeled
  BY FramesBounds DEF Domains, LayoutInv, LayoutType, Channels, Channeled
<1>4. \A c : Padded(c) \in BOOLEAN
  BY DEF Padded
<1>5. Settled' => caller' = "averages"
  <2>1. ~UnderWay' /\ ~scanOn'
    BY ConfigureKeeps DEF LayoutStep, CallerStill, Settled, UnderWay
  <2>. QED BY <2>1 DEF Settled, ConfigureScanLayout, Configure
<1>6. CASE caller = "layout"
  <2>1. layout' = [layout EXCEPT !.labview = (cfg.format.B = "L"), !.binary = BinaryWanted]
        /\ caller' = "reset"
    BY <1>6 DEF ConfigureScanLayout, Configure
  <2>2. LayoutType'
    BY <2>1 DEF LayoutInv, LayoutType, BinaryWanted
  <2>3. layout'.labview = (cfg.format.B = "L") /\ layout'.binary = BinaryWanted
    BY <2>1 DEF LayoutInv, LayoutType
  <2>4. layout'.physical = layout.physical
    BY <2>1 DEF LayoutInv, LayoutType
  <2>5. LaidOut(wanted.cfg)'
    BY <1>1, <1>5, <1>6, <2>1 DEF LayoutInv, LaidOut, Starting, BinaryWanted, Wanted, cfg
  <2>. QED BY <2>2, <2>5, ConfigureKeeps DEF LayoutInv
<1>7. CASE caller = "reset"
  <2>1. /\ layout' = [layout EXCEPT !.raw = (cfg.units = "RAW"),
                               !.pad = Padded(cfg),
                               !.info = FALSE, !.type = Undefined]
        /\ caller' = "channels"
    BY <1>7 DEF ConfigureScanLayout, Configure, Padded
  <2>2. LayoutType'
    BY <1>4, <2>1, TypesOfPackets DEF LayoutInv, LayoutType
  <2>3. /\ layout'.raw = (cfg.units = "RAW") /\ layout'.pad = Padded(cfg)
        /\ layout'.info = FALSE /\ layout'.type = Undefined
    BY <2>1 DEF LayoutInv, LayoutType, Padded
  <2>4. /\ layout'.labview = layout.labview /\ layout'.binary = layout.binary
        /\ layout'.physical = layout.physical /\ layout'.count = layout.count
    BY <2>1 DEF LayoutInv, LayoutType
  <2>5. LaidOut(wanted.cfg)'
    BY <1>1, <1>5, <1>7, <2>1, <2>3, <2>4 DEF LayoutInv, LaidOut, Starting, cfg
  <2>. QED BY <2>2, <2>5, ConfigureKeeps DEF LayoutInv
<1>8. CASE caller = "channels"
  <2>1. /\ layout' = [layout EXCEPT !.physical = Channels, !.count = Channels]
        /\ caller' = "padding"
    BY <1>8 DEF ConfigureScanLayout, Configure, Padded
  <2>2. LayoutType'
    BY <1>3, <2>1 DEF LayoutInv, LayoutType
  <2>3. layout'.physical = Channels /\ layout'.count = Channels
    BY <2>1 DEF LayoutInv, LayoutType, Padded
  <2>4. /\ layout'.labview = layout.labview /\ layout'.binary = layout.binary
        /\ layout'.raw = layout.raw /\ layout'.pad = layout.pad
        /\ layout'.info = layout.info /\ layout'.type = layout.type
    BY <2>1 DEF LayoutInv, LayoutType
  <2>5. LaidOut(wanted.cfg)'
    BY <1>1, <1>5, <1>8, <2>1 DEF LayoutInv, LaidOut, Starting, Channels, Width
  <2>. QED BY <2>2, <2>5, ConfigureKeeps DEF LayoutInv
<1>9. CASE caller = "padding"
  <2>1. /\ layout' = [layout EXCEPT !.count = IF layout.pad THEN 64 ELSE @]
        /\ caller' = "type"
    BY <1>9 DEF ConfigureScanLayout, Configure, Padded
  <2>2. LayoutType'
    BY <2>1 DEF LayoutInv, LayoutType, Channeled
  <2>3. layout'.count = (IF layout.pad THEN 64 ELSE layout.count)
    BY <2>1 DEF LayoutInv, LayoutType, Padded
  <2>4. /\ layout'.labview = layout.labview /\ layout'.binary = layout.binary
        /\ layout'.raw = layout.raw /\ layout'.pad = layout.pad
        /\ layout'.info = layout.info /\ layout'.type = layout.type
        /\ layout'.physical = layout.physical
    BY <2>1 DEF LayoutInv, LayoutType
  <2>5. LaidOut(wanted.cfg)'
    BY <1>1, <1>5, <1>9, <2>1 DEF LayoutInv, LaidOut, Starting, Width
  <2>. QED BY <2>2, <2>5, ConfigureKeeps DEF LayoutInv
<1>10. CASE caller = "type"
  <2>1. /\ layout' = [layout EXCEPT !.type = IF layout.binary THEN PacketType ELSE @]
        /\ caller' = "info"
    BY <1>10 DEF ConfigureScanLayout, Configure, Padded
  <2>2. LayoutType'
    BY <1>2, <2>1 DEF LayoutInv, LayoutType
  <2>3. layout'.type = (IF layout.binary THEN PacketType ELSE layout.type)
    BY <2>1 DEF LayoutInv, LayoutType, Padded
  <2>4. /\ layout'.labview = layout.labview /\ layout'.binary = layout.binary
        /\ layout'.raw = layout.raw /\ layout'.pad = layout.pad
        /\ layout'.info = layout.info /\ layout'.physical = layout.physical
        /\ layout'.count = layout.count
    BY <2>1 DEF LayoutInv, LayoutType
  <2>5. LaidOut(wanted.cfg)'
    BY <1>1, <1>5, <1>10, <2>1 DEF LayoutInv, LaidOut, Starting, Width, PacketType
  <2>. QED BY <2>2, <2>5, ConfigureKeeps DEF LayoutInv
<1>11. CASE caller = "info"
  <2>1. /\ layout' = [layout EXCEPT !.info = layout.binary /\ layout.type # Undefined]
        /\ caller' = "averages"
    BY <1>11 DEF ConfigureScanLayout, Configure, Padded
  <2>2. LayoutType'
    BY <2>1 DEF LayoutInv, LayoutType
  <2>3. layout'.info = (layout.binary /\ layout.type # Undefined)
    BY <2>1 DEF LayoutInv, LayoutType, Padded
  <2>4. /\ layout'.labview = layout.labview /\ layout'.binary = layout.binary
        /\ layout'.raw = layout.raw /\ layout'.pad = layout.pad
        /\ layout'.type = layout.type /\ layout'.physical = layout.physical
        /\ layout'.count = layout.count
    BY <2>1 DEF LayoutInv, LayoutType
  <2>5. LaidOut(wanted.cfg)'
    BY <1>1, <1>11, <2>1 DEF LayoutInv, LaidOut, Starting, Width, PacketType
  <2>. QED BY <2>2, <2>5, ConfigureKeeps DEF LayoutInv
<1>. QED BY <1>6, <1>7, <1>8, <1>9, <1>10, <1>11 DEF ConfigureScanLayout,
                Configure

LEMMA FinishStartInv ==
  ASSUME FramesInv, ~died, FinishStart
  PROVE  FramesInv'
<1> USE DEF FramesInv
<1>1. CallerStill /\ UNCHANGED <<layout, wanted, overlapped, changed, commands>>
  BY DEF FinishStart, CallerStill, fixed, scanner, packets, seen
<1>2. ~scanOn /\ ~UnderWay /\ caller \in {"averages", "go"} /\ setting.cfg = wanted.cfg
  BY DEF FinishStart, LayoutInv, Alone, Starting, UnderWay, LaidOut
<1>3. ~UnderWay'
  BY <1>1, <1>2 DEF UnderWay, CallerStill
<1>4. InStep' /\ setting'.cfg = setting.cfg
  <2>1. CASE caller = "averages"
    <3>1. PICK a \in UpdateScanAverages(setting.cfg.rate) : setting' = [setting EXCEPT !.avg = a]
      BY <2>1 DEF FinishStart, cfg
    <3>2. setting'.cfg = setting.cfg /\ setting'.avg = a /\ DOMAIN setting' = DOMAIN setting
      BY <3>1 DEF LayoutInv, InStep, Shaped, Fielded
    <3>3. a \in 0..(Long - 1) /\ (a = 0 => BadRate(setting.cfg.rate))
      BY AveragesBounds DEF LayoutInv, InStep, Shaped, Fielded
    <3>. QED BY <3>2, <3>3 DEF LayoutInv, InStep, Shaped, Fielded
  <2>2. CASE caller = "go"
    BY <2>2 DEF FinishStart, LayoutInv, InStep, Shaped, Fielded
  <2>. QED BY <1>2, <2>1, <2>2
<1>5. \/ caller' = "go" /\ scanOn' = scanOn
      \/ caller' = "idle" /\ scanOn' = TRUE
  BY DEF FinishStart
<1>6. Domains'
  BY <1>1, <1>5 DEF Domains, CallerStill
<1>7. Alone'
  BY <1>2, <1>3, <1>5 DEF Alone, Starting, UnderWay
<1>8. LayoutType'
  BY <1>1 DEF LayoutInv, LayoutType, PacketTypes
<1>9. LaidOut(wanted.cfg)'
  <2>1. Settled
    BY <1>2 DEF Settled
  <2>. QED BY <1>1, <1>2, <1>4, <1>5, <2>1
              DEF LayoutInv, LaidOut, Starting, PacketType, Width, CallerStill
<1>10. FrameInv'
  BY <1>1, <1>2, FrameKept DEF CallerStill, UnderWay
<1>11. Stream' /\ DiesOnlyOfBadRate'
  BY <1>1, CallerKeeps
<1>. QED BY <1>4, <1>6, <1>7, <1>8, <1>9, <1>10, <1>11 DEF LayoutInv

-----------------------------------------------------------------------------
(* The scan thread.                                                        *)

(* What a step of the scan thread leaves alone, but at its two ends and    *)
(* where it queues a packet.                                               *)
ScanStill == Still /\ SameMarks /\ UNCHANGED <<queue, sending, sent, frames>>

(* The packets that are due are the same after a step of the scan thread.  *)
LEMMA SameOutputs ==
  ASSUME Still
  PROVE  /\ Lab(wanted.cfg)' = Lab(wanted.cfg) /\ Udp(wanted.cfg)' = Udp(wanted.cfg)
         /\ Tcp(wanted.cfg)' = Tcp(wanted.cfg) /\ OwnType(wanted.cfg)' = OwnType(wanted.cfg)
<1> USE DEF Still
<1>1. Lab(wanted.cfg)' = Lab(wanted.cfg)
  BY DEF Lab, Out, Width, Padded
<1>2. Udp(wanted.cfg)' = Udp(wanted.cfg)
  BY DEF Udp, OwnType, Known, Width
<1>3. Tcp(wanted.cfg)' = Tcp(wanted.cfg)
  BY DEF Tcp, OwnType, Known, Width
<1>4. OwnType(wanted.cfg)' = OwnType(wanted.cfg)
  BY DEF OwnType, Known, Width, Padded
<1>. QED BY <1>1, <1>2, <1>3, <1>4

LEMMA ScanKeeps ==
  ASSUME FramesInv, ~died, ScanStill, died' \in BOOLEAN, frame.at # "idle",
         frame.at \in {"tcp", "end"} => frame'.at \in {"end", "idle"}
  PROVE  Domains' /\ LayoutInv' /\ Stream'
<1> USE DEF FramesInv, ScanStill, SameMarks
<1>1. Domains'
  BY DEF Domains, Still
<1>2. LayoutInv'
  <2>1. UnderWay' => UnderWay
    BY DEF UnderWay
  <2>2. ~Starting \/ overlapped'
    BY DEF LayoutInv, Alone, Starting
  <2>. QED BY <2>1, <2>2, LayoutKept
<1>3. Stream'
  <2>1. ToStream' <= ToStream /\ ToStream \in 0..1 /\ ToStream' \in 0..1
    BY DEF ToStream
  <2>2. frames \in Int /\ MaxFrames \in Int
    BY FramesBounds DEF Domains
  <2>. QED BY <2>1, <2>2 DEF Stream, Packets, PacketTypes
<1>. QED BY <1>1, <1>2, <1>3

(* While a frame is under way, the layout is that of the configuration     *)
(* with which its scan was started.                                        *)
LEMMA Planned ==
  ASSUME FramesInv, UnderWay
  PROVE  /\ layout.labview = (wanted.cfg.format.B = "L")
         /\ layout.binary = Wanted(wanted.cfg)
         /\ layout.count = Width(Padded(wanted.cfg))
         /\ layout.count \in Channeled
         /\ layout.type # Undefined => layout.type.channels = layout.count
         /\ layout.binary => (layout.type # Undefined) = Known(wanted.cfg)
         /\ layout.binary /\ layout.type # Undefined =>
              OwnType(wanted.cfg) =
                [layout.type EXCEPT !.raw = IF layout.type.kind = "legacy"
                                            THEN layout.raw ELSE @]
<1> DEFINE c == wanted.cfg
<1> USE DEF FramesInv
<1>1. /\ layout.labview = (c.format.B = "L") /\ layout.binary = Wanted(c)
      /\ layout.raw = (c.units = "RAW") /\ layout.pad = Padded(c)
      /\ layout.count = Width(Padded(c))
      /\ layout.type = IF layout.binary THEN PacketType ELSE Undefined
  BY DEF LayoutInv, LaidOut, Starting, Settled
<1>2. layout.count \in Channeled
  BY DEF LayoutInv, LayoutType
<1>3. layout.type # Undefined => layout.type.channels = layout.count
  <2>1. CASE layout.pad
    BY <1>1 DEF PacketType, Width, Legacy, Type
  <2>2. CASE ~layout.pad
    BY <1>1, <2>2 DEF PacketType, Width, Type
  <2>. QED BY <2>1, <2>2
<1>4. layout.binary => (layout.type # Undefined) = Known(c)
  BY <1>1 DEF PacketType, Known, Legacy, Undefined, Type
<1>5. layout.binary /\ layout.type # Undefined =>
        OwnType(c) = [layout.type EXCEPT !.raw = IF layout.type.kind = "legacy"
                                                 THEN layout.raw ELSE @]
  <2>1. CASE layout.pad
    BY <1>1 DEF PacketType, OwnType, Width, Legacy, Type
  <2>2. CASE ~layout.pad /\ layout.binary /\ layout.type # Undefined
    <3>1. layout.type = Type("own", deviceId, layout.raw)
      BY <1>1, <2>2 DEF PacketType
    <3>2. OwnType(c) = Type("own", deviceId, layout.raw)
      BY <1>1, <2>2 DEF OwnType, Width, PacketType
    <3>. QED BY <3>1, <3>2 DEF Type
  <2>. QED BY <2>1, <2>2
<1>. QED BY <1>1, <1>2, <1>3, <1>4, <1>5

LEMMA SampleInv ==
  ASSUME FramesInv, ~died, Sample
  PROVE  FramesInv'
<1> USE DEF FramesInv
<1>1. ScanStill /\ died' = died
  BY DEF Sample, Quietly, Others, ScanStill, SameMarks, Still, fixed, shared,
         packets, seen
<1>2. /\ frame.at = "sample"
      /\ frame'.type = frame.type
      /\ frame'.copied = frame.copied
      /\ frame'.divisor = frame.divisor
      /\ output' = output
      /\ \/ /\ frame'.at = "sample" /\ frame.samples < setting.avg
            /\ frame'.samples = frame.samples + 1
         \/ /\ frame'.at = "divide" /\ ~(frame.samples < setting.avg)
            /\ frame'.samples = frame.samples
  BY DEF Sample, FrameInv, FrameType, Quietly
<1>3. FrameType'
  BY DEF Sample, FrameInv, FrameType
<1>4. Filled'
  BY <1>2 DEF Filled
<1>5. PacketsAreWhole'
  BY <1>1, <1>2 DEF FrameInv, PacketsAreWhole, SameMarks, ScanStill
<1>6. Summed'
  BY <1>1, <1>2
     DEF FrameInv, Summed, Still, SameMarks, ScanStill, FrameType, LayoutInv,
         InStep, Fielded
<1>7. AveragesAreAverages'
  BY <1>2 DEF FrameInv, AveragesAreAverages, Summed
<1>8. SoFar(wanted.cfg)'
  <2>1. CASE ~Steady'
    BY <2>1 DEF SoFar
  <2>2. CASE Steady'
    <3>1. Steady /\ UnderWay
      BY <1>1, <1>2, <2>2 DEF Steady, UnderWay, Still, SameMarks, ScanStill
    <3>. QED BY <1>2, <3>1 DEF FrameInv, SoFar, InSizes, InCopy
  <2>. QED BY <2>1, <2>2
<1>9. FrameInv'
  BY <1>3, <1>4, <1>5, <1>6, <1>7, <1>8 DEF FrameInv
<1>10. Domains' /\ LayoutInv' /\ Stream'
  <2>1. died' \in BOOLEAN
    BY <1>1 DEF Domains
  <2>. QED BY <1>1, <1>2, <2>1, ScanKeeps
<1>11. DiesOnlyOfBadRate'
  BY <1>1, <1>2 DEF DiesOnlyOfBadRate
<1>. QED BY <1>9, <1>10, <1>11

LEMMA DivideInv ==
  ASSUME FramesInv, ~died, Divide
  PROVE  FramesInv'
<1> USE DEF FramesInv
<1>1. ScanStill /\ died' = (setting.avg = 0)
  BY DEF Divide, Others, ScanStill, SameMarks, Still, fixed, shared, packets,
         seen
<1>2. /\ frame.at = "divide"
      /\ frame'.at = "labview"
      /\ frame'.type = frame.type
      /\ frame'.copied = frame.copied
      /\ frame'.samples = frame.samples
      /\ frame'.divisor = setting.avg
      /\ output' = output
  BY DEF Divide, FrameInv, FrameType, Quietly
<1>3. FrameType'
  <2>1. setting.avg \in Nat
    BY SettingsBounds DEF LayoutInv, InStep, Shaped, Fielded
  <2>. QED BY <2>1 DEF Divide, FrameInv, FrameType
<1>4. Filled'
  BY <1>2 DEF Filled
<1>5. PacketsAreWhole'
  BY <1>1, <1>2 DEF FrameInv, PacketsAreWhole, SameMarks, ScanStill
<1>6. Summed'
  BY <1>2 DEF Summed
<1>7. AveragesAreAverages'
  BY <1>1, <1>2 DEF FrameInv, AveragesAreAverages, Summed, SameMarks, ScanStill
<1>8. SoFar(wanted.cfg)'
  <2>1. CASE ~Steady'
    BY <2>1 DEF SoFar
  <2>2. CASE Steady'
    <3>1. Steady /\ UnderWay
      BY <1>1, <1>2, <2>2 DEF Steady, UnderWay, Still, SameMarks, ScanStill
    <3>. QED BY <1>2, <3>1 DEF FrameInv, SoFar, InSizes, InCopy
  <2>. QED BY <2>1, <2>2
<1>9. FrameInv'
  BY <1>3, <1>4, <1>5, <1>6, <1>7, <1>8 DEF FrameInv
<1>10. Domains' /\ LayoutInv' /\ Stream'
  <2>1. died' \in BOOLEAN
    BY <1>1 DEF Domains
  <2>. QED BY <1>1, <1>2, <2>1, ScanKeeps
<1>11. DiesOnlyOfBadRate'
  BY <1>1 DEF DiesOnlyOfBadRate, LayoutInv, InStep, Shaped, ScanStill, Still
<1>. QED BY <1>9, <1>10, <1>11

LEMMA LabviewInv ==
  ASSUME FramesInv, ~died, Labview /\ frame.at = "labview"
  PROVE  FramesInv'
<1> USE DEF FramesInv
<1>1. ScanStill /\ died' = died
  BY DEF Labview, Quietly, Others, ScanStill, SameMarks, Still, fixed, shared,
         packets, seen
<1>2. /\ frame.at = "labview"
      /\ frame'.type = frame.type
      /\ frame'.copied = frame.copied
      /\ frame'.samples = frame.samples
      /\ frame'.divisor = frame.divisor
      /\ output' = output
      /\ frame'.at = IF layout.labview THEN "values" ELSE "binary"
  BY DEF Labview, At, FrameInv, FrameType, Quietly
<1>3. FrameType'
  BY DEF Labview, At, FrameInv, FrameType
<1>4. Filled'
  BY <1>2 DEF Filled
<1>5. PacketsAreWhole'
  BY <1>1, <1>2 DEF FrameInv, PacketsAreWhole, SameMarks, ScanStill
<1>6. Summed'
  BY <1>2 DEF Summed
<1>7. AveragesAreAverages'
  BY <1>1, <1>2 DEF FrameInv, AveragesAreAverages, SameMarks, ScanStill
<1>8. SoFar(wanted.cfg)'
  <2>1. CASE ~Steady'
    BY <2>1 DEF SoFar
  <2>2. CASE Steady'
    <3>1. Steady /\ UnderWay
      BY <1>1, <2>2 DEF Steady, UnderWay, Still, SameMarks, ScanStill
    <3>. QED BY <1>1, <1>2, <3>1, Planned
                DEF FrameInv, SoFar, InSizes, InCopy, Still, ScanStill, Lab
  <2>. QED BY <2>1, <2>2
<1>9. FrameInv'
  BY <1>3, <1>4, <1>5, <1>6, <1>7, <1>8 DEF FrameInv
<1>10. Domains' /\ LayoutInv' /\ Stream'
  <2>1. died' \in BOOLEAN
    BY <1>1 DEF Domains
  <2>. QED BY <1>1, <1>2, <2>1, ScanKeeps
<1>11. DiesOnlyOfBadRate'
  BY <1>1, <1>2 DEF DiesOnlyOfBadRate
<1>. QED BY <1>9, <1>10, <1>11

LEMMA ValuesInv ==
  ASSUME FramesInv, ~died, Labview /\ frame.at = "values"
  PROVE  FramesInv'
<1> USE DEF FramesInv
<1>1. ScanStill /\ died' = died
  BY DEF Labview, Quietly, Others, ScanStill, SameMarks, Still, fixed, shared,
         packets, seen
<1>2. /\ frame.at = "values"
      /\ frame'.at = "size64"
      /\ frame'.type = frame.type
      /\ frame'.copied = layout.count
      /\ frame'.samples = frame.samples
      /\ frame'.divisor = frame.divisor
      /\ output' = output
  BY DEF Labview, At, FrameInv, FrameType, Quietly
<1>3. FrameType'
  BY DEF Labview, At, FrameInv, FrameType, LayoutInv, LayoutType
<1>4. Filled'
  BY <1>1, <1>2 DEF Filled, Still, ScanStill
<1>5. PacketsAreWhole'
  BY <1>1, <1>2 DEF FrameInv, PacketsAreWhole, SameMarks, ScanStill
<1>6. Summed'
  BY <1>2 DEF Summed
<1>7. AveragesAreAverages'
  BY <1>1, <1>2 DEF FrameInv, AveragesAreAverages, SameMarks, ScanStill
<1>8. SoFar(wanted.cfg)'
  <2>1. CASE ~Steady'
    BY <2>1 DEF SoFar
  <2>2. CASE Steady'
    <3>1. Steady /\ UnderWay
      BY <1>1, <2>2 DEF Steady, UnderWay, Still, SameMarks, ScanStill
    <3>. QED BY <1>1, <1>2, <3>1 DEF FrameInv, SoFar, InCopy, Still, ScanStill
  <2>. QED BY <2>1, <2>2
<1>9. FrameInv'
  BY <1>3, <1>4, <1>5, <1>6, <1>7, <1>8 DEF FrameInv
<1>10. Domains' /\ LayoutInv' /\ Stream'
  <2>1. died' \in BOOLEAN
    BY <1>1 DEF Domains
  <2>. QED BY <1>1, <1>2, <2>1, ScanKeeps
<1>11. DiesOnlyOfBadRate'
  BY <1>1, <1>2 DEF DiesOnlyOfBadRate
<1>. QED BY <1>9, <1>10, <1>11

LEMMA Size64Inv ==
  ASSUME FramesInv, ~died, LabviewSize("size64", 64, "size32")
  PROVE  FramesInv'
<1> USE DEF FramesInv
<1>1. ScanStill /\ died' = died
  BY DEF LabviewSize, Quietly, Others, ScanStill, SameMarks, Still, fixed,
         shared, packets, seen
<1>2. /\ frame.at = "size64"
      /\ frame'.copied = frame.copied
      /\ frame'.samples = frame.samples
      /\ frame'.divisor = frame.divisor
      /\ output' = output
      /\ \/ /\ layout.count = 64 /\ frame'.at = "labview_out"
            /\ frame'.type = Type("labview", 64, FALSE)
         \/ layout.count # 64 /\ frame'.at = "size32" /\ frame'.type = frame.type
  BY DEF LabviewSize, FrameInv, FrameType, Quietly
<1>3. FrameType'
  BY TypesOfPackets DEF LabviewSize, FrameInv, FrameType, Channeled
<1>4. Filled'
  BY <1>1, <1>2 DEF FrameInv, Filled, UnderWay, Still, SameMarks, ScanStill,
         Type
<1>5. PacketsAreWhole'
  BY <1>1, <1>2 DEF FrameInv, PacketsAreWhole, SameMarks, ScanStill
<1>6. Summed'
  BY <1>2 DEF Summed
<1>7. AveragesAreAverages'
  BY <1>1, <1>2 DEF FrameInv, AveragesAreAverages, SameMarks, ScanStill
<1>8. SoFar(wanted.cfg)'
  <2>1. CASE ~Steady'
    BY <2>1 DEF SoFar
  <2>2. CASE Steady'
    <3>1. Steady /\ UnderWay
      BY <1>1, <1>2, <2>2 DEF Steady, UnderWay, Still, SameMarks, ScanStill
    <3>. QED BY <1>1, <1>2, <3>1
                DEF FrameInv, SoFar, InSizes, InCopy, Still, ScanStill
  <2>. QED BY <2>1, <2>2
<1>9. FrameInv'
  BY <1>3, <1>4, <1>5, <1>6, <1>7, <1>8 DEF FrameInv
<1>10. Domains' /\ LayoutInv' /\ Stream'
  <2>1. died' \in BOOLEAN
    BY <1>1 DEF Domains
  <2>. QED BY <1>1, <1>2, <2>1, ScanKeeps
<1>11. DiesOnlyOfBadRate'
  BY <1>1, <1>2 DEF DiesOnlyOfBadRate
<1>. QED BY <1>9, <1>10, <1>11

LEMMA Size32Inv ==
  ASSUME FramesInv, ~died, LabviewSize("size32", 32, "size16")
  PROVE  FramesInv'
<1> USE DEF FramesInv
<1>1. ScanStill /\ died' = died
  BY DEF LabviewSize, Quietly, Others, ScanStill, SameMarks, Still, fixed,
         shared, packets, seen
<1>2. /\ frame.at = "size32"
      /\ frame'.copied = frame.copied
      /\ frame'.samples = frame.samples
      /\ frame'.divisor = frame.divisor
      /\ output' = output
      /\ \/ /\ layout.count = 32 /\ frame'.at = "labview_out"
            /\ frame'.type = Type("labview", 32, FALSE)
         \/ layout.count # 32 /\ frame'.at = "size16" /\ frame'.type = frame.type
  BY DEF LabviewSize, FrameInv, FrameType, Quietly
<1>3. FrameType'
  BY TypesOfPackets DEF LabviewSize, FrameInv, FrameType, Channeled
<1>4. Filled'
  BY <1>1, <1>2 DEF FrameInv, Filled, UnderWay, Still, SameMarks, ScanStill,
         Type
<1>5. PacketsAreWhole'
  BY <1>1, <1>2 DEF FrameInv, PacketsAreWhole, SameMarks, ScanStill
<1>6. Summed'
  BY <1>2 DEF Summed
<1>7. AveragesAreAverages'
  BY <1>1, <1>2 DEF FrameInv, AveragesAreAverages, SameMarks, ScanStill
<1>8. SoFar(wanted.cfg)'
  <2>1. CASE ~Steady'
    BY <2>1 DEF SoFar
  <2>2. CASE Steady'
    <3>1. Steady /\ UnderWay
      BY <1>1, <1>2, <2>2 DEF Steady, UnderWay, Still, SameMarks, ScanStill
    <3>. QED BY <1>1, <1>2, <3>1
                DEF FrameInv, SoFar, InSizes, InCopy, Still, ScanStill
  <2>. QED BY <2>1, <2>2
<1>9. FrameInv'
  BY <1>3, <1>4, <1>5, <1>6, <1>7, <1>8 DEF FrameInv
<1>10. Domains' /\ LayoutInv' /\ Stream'
  <2>1. died' \in BOOLEAN
    BY <1>1 DEF Domains
  <2>. QED BY <1>1, <1>2, <2>1, ScanKeeps
<1>11. DiesOnlyOfBadRate'
  BY <1>1, <1>2 DEF DiesOnlyOfBadRate
<1>. QED BY <1>9, <1>10, <1>11

LEMMA Size16Inv ==
  ASSUME FramesInv, ~died, LabviewSize("size16", 16, "binary")
  PROVE  FramesInv'
<1> USE DEF FramesInv
<1>1. ScanStill /\ died' = died
  BY DEF LabviewSize, Quietly, Others, ScanStill, SameMarks, Still, fixed,
         shared, packets, seen
<1>2. /\ frame.at = "size16"
      /\ frame'.copied = frame.copied
      /\ frame'.samples = frame.samples
      /\ frame'.divisor = frame.divisor
      /\ output' = output
      /\ \/ /\ layout.count = 16 /\ frame'.at = "labview_out"
            /\ frame'.type = Type("labview", 16, FALSE)
         \/ layout.count # 16 /\ frame'.at = "binary" /\ frame'.type = frame.type
  BY DEF LabviewSize, FrameInv, FrameType, Quietly
<1>3. FrameType'
  BY TypesOfPackets DEF LabviewSize, FrameInv, FrameType, Channeled
<1>4. Filled'
  BY <1>1, <1>2 DEF FrameInv, Filled, UnderWay, SameMarks, ScanStill, Type
<1>5. PacketsAreWhole'
  BY <1>1, <1>2 DEF FrameInv, PacketsAreWhole, SameMarks, ScanStill
<1>6. Summed'
  BY <1>2 DEF Summed
<1>7. AveragesAreAverages'
  BY <1>1, <1>2 DEF FrameInv, AveragesAreAverages, SameMarks, ScanStill
<1>8. SoFar(wanted.cfg)'
  <2>1. CASE ~Steady'
    BY <2>1 DEF SoFar
  <2>2. CASE Steady'
    <3>1. Steady /\ UnderWay
      BY <1>1, <1>2, <2>2 DEF Steady, UnderWay, Still, SameMarks, ScanStill
    <3>. QED BY <1>1, <1>2, <3>1, Planned
                DEF FrameInv, SoFar, InSizes, InCopy, Still, ScanStill,
                    Channeled
  <2>. QED BY <2>1, <2>2
<1>9. FrameInv'
  BY <1>3, <1>4, <1>5, <1>6, <1>7, <1>8 DEF FrameInv
<1>10. Domains' /\ LayoutInv' /\ Stream'
  <2>1. died' \in BOOLEAN
    BY <1>1 DEF Domains
  <2>. QED BY <1>1, <1>2, <2>1, ScanKeeps
<1>11. DiesOnlyOfBadRate'
  BY <1>1, <1>2 DEF DiesOnlyOfBadRate
<1>. QED BY <1>9, <1>10, <1>11

LEMMA OnLabviewFrameInv ==
  ASSUME FramesInv, ~died, OnLabviewFrame
  PROVE  FramesInv'
<1> USE DEF FramesInv
<1>1. ScanStill /\ died' = died
  BY DEF OnLabviewFrame, Others, ScanStill, SameMarks, Still, fixed, shared,
         packets, seen
<1>2. /\ frame.at = "labview_out"
      /\ frame'.at = "binary"
      /\ frame'.type = frame.type
      /\ frame'.copied = frame.copied
      /\ frame'.samples = frame.samples
      /\ frame'.divisor = frame.divisor
      /\ output' = IF tcpClient /\ setting.cfg.format.B = "L"
                   THEN output \cup {Packet("tcp")} ELSE output
  BY DEF OnLabviewFrame, At, cfg
<1>3. FrameType'
  BY DEF OnLabviewFrame, At, FrameInv, FrameType
<1>4. Filled'
  BY <1>2 DEF Filled
<1>5. PacketsAreWhole'
  BY <1>1, <1>2
     DEF FrameInv, PacketsAreWhole, Filled, UnderWay, Packet, SameMarks,
         ScanStill
<1>6. Summed'
  BY <1>2 DEF Summed
<1>7. AveragesAreAverages'
  BY <1>1, <1>2 DEF FrameInv, AveragesAreAverages, SameMarks, ScanStill
<1>8. SoFar(wanted.cfg)'
  <2>1. CASE ~Steady'
    BY <2>1 DEF SoFar
  <2>2. CASE Steady'
    <3>1. Steady /\ UnderWay
      BY <1>1, <1>2, <2>2 DEF Steady, UnderWay, Still, SameMarks, ScanStill
    <3>2. output = {} /\ layout.labview /\ frame.type = Type("labview", layout.count, FALSE)
          /\ frame.copied = frame.type.channels
      BY <1>2, <3>1 DEF FrameInv, SoFar, Filled
    <3>3. Packet("tcp") = Out("tcp", Type("labview", Width(Padded(wanted.cfg)), FALSE))
      BY <3>1, <3>2, Planned DEF Packet, Out
    <3>4. setting.cfg.format.B = "L" /\ wanted.cfg.format.B = "L"
      BY <3>1, <3>2, Planned DEF Steady
    <3>5. output' = Lab(wanted.cfg)
      BY <1>2, <3>2, <3>3, <3>4 DEF Lab
    <3>. QED BY <1>2, <3>5, SameOutputs, <1>1 DEF ScanStill, SoFar, InSizes,
                    InCopy
  <2>. QED BY <2>1, <2>2
<1>9. FrameInv'
  BY <1>3, <1>4, <1>5, <1>6, <1>7, <1>8 DEF FrameInv
<1>10. Domains' /\ LayoutInv' /\ Stream'
  <2>1. died' \in BOOLEAN
    BY <1>1 DEF Domains
  <2>. QED BY <1>1, <1>2, <2>1, ScanKeeps
<1>11. DiesOnlyOfBadRate'
  BY <1>1, <1>2 DEF DiesOnlyOfBadRate
<1>. QED BY <1>9, <1>10, <1>11

LEMMA BinaryInv ==
  ASSUME FramesInv, ~died, Binary /\ frame.at = "binary"
  PROVE  FramesInv'
<1> USE DEF FramesInv
<1>1. ScanStill /\ died' = died
  BY DEF Binary, Quietly, Others, ScanStill, SameMarks, Still, fixed, shared,
         packets, seen
<1>2. /\ frame.at = "binary"
      /\ frame'.type = frame.type
      /\ frame'.copied = frame.copied
      /\ frame'.samples = frame.samples
      /\ frame'.divisor = frame.divisor
      /\ output' = output
      /\ frame'.at = IF layout.binary THEN "switch" ELSE "end"
  BY DEF Binary, At, FrameInv, FrameType, Quietly
<1>3. FrameType'
  BY DEF Binary, At, FrameInv, FrameType
<1>4. Filled'
  BY <1>2 DEF Filled
<1>5. PacketsAreWhole'
  BY <1>1, <1>2 DEF FrameInv, PacketsAreWhole, SameMarks, ScanStill
<1>6. Summed'
  BY <1>2 DEF Summed
<1>7. AveragesAreAverages'
  BY <1>1, <1>2 DEF FrameInv, AveragesAreAverages, SameMarks, ScanStill
<1>8. SoFar(wanted.cfg)'
  <2>1. CASE ~Steady'
    BY <2>1 DEF SoFar
  <2>2. CASE Steady'
    <3>1. Steady /\ UnderWay
      BY <1>1, <2>2 DEF Steady, UnderWay, Still, SameMarks, ScanStill
    <3>. QED BY <1>1, <1>2, <3>1, Planned, SameOutputs
                DEF FrameInv, SoFar, InSizes, InCopy, Still, ScanStill, Udp,
                    Tcp, Wanted
  <2>. QED BY <2>1, <2>2
<1>9. FrameInv'
  BY <1>3, <1>4, <1>5, <1>6, <1>7, <1>8 DEF FrameInv
<1>10. Domains' /\ LayoutInv' /\ Stream'
  <2>1. died' \in BOOLEAN
    BY <1>1 DEF Domains
  <2>. QED BY <1>1, <1>2, <2>1, ScanKeeps
<1>11. DiesOnlyOfBadRate'
  BY <1>1, <1>2 DEF DiesOnlyOfBadRate
<1>. QED BY <1>9, <1>10, <1>11

LEMMA SwitchInv ==
  ASSUME FramesInv, ~died, Binary /\ frame.at = "switch"
  PROVE  FramesInv'
<1> USE DEF FramesInv
<1>1. ScanStill /\ died' = died
  BY DEF Binary, Quietly, Others, ScanStill, SameMarks, Still, fixed, shared,
         packets, seen
<1>2. /\ frame.at = "switch"
      /\ frame'.at = IF layout.type = Undefined THEN "end" ELSE "copy"
      /\ frame'.type = layout.type
      /\ frame'.copied = frame.copied
      /\ frame'.samples = frame.samples
      /\ frame'.divisor = frame.divisor
      /\ output' = output
  BY DEF Binary, At, FrameInv, FrameType, Quietly
<1>3. FrameType'
  BY DEF Binary, At, FrameInv, FrameType, LayoutInv, LayoutType
<1>4. Filled'
  BY <1>1, <1>2, Planned DEF Filled, UnderWay, Still, SameMarks, ScanStill
<1>5. PacketsAreWhole'
  BY <1>1, <1>2 DEF FrameInv, PacketsAreWhole, SameMarks, ScanStill
<1>6. Summed'
  BY <1>2 DEF Summed
<1>7. AveragesAreAverages'
  BY <1>1, <1>2 DEF FrameInv, AveragesAreAverages, SameMarks, ScanStill
<1>8. SoFar(wanted.cfg)'
  <2>1. CASE ~Steady'
    BY <2>1 DEF SoFar
  <2>2. CASE Steady'
    <3>1. Steady /\ UnderWay
      BY <1>1, <2>2 DEF Steady, UnderWay, Still, SameMarks, ScanStill
    <3>. QED BY <1>1, <1>2, <3>1, Planned, SameOutputs
                DEF FrameInv, SoFar, InSizes, InCopy, Still, ScanStill, Udp, Tcp
  <2>. QED BY <2>1, <2>2
<1>9. FrameInv'
  BY <1>3, <1>4, <1>5, <1>6, <1>7, <1>8 DEF FrameInv
<1>10. Domains' /\ LayoutInv' /\ Stream'
  <2>1. died' \in BOOLEAN
    BY <1>1 DEF Domains
  <2>. QED BY <1>1, <1>2, <2>1, ScanKeeps
<1>11. DiesOnlyOfBadRate'
  BY <1>1, <1>2 DEF DiesOnlyOfBadRate
<1>. QED BY <1>9, <1>10, <1>11

LEMMA CopyInv ==
  ASSUME FramesInv, ~died, Binary /\ frame.at = "copy"
  PROVE  FramesInv'
<1> USE DEF FramesInv
<1>1. ScanStill /\ died' = died
  BY DEF Binary, Quietly, Others, ScanStill, SameMarks, Still, fixed, shared,
         packets, seen
<1>2. /\ frame.at = "copy"
      /\ frame'.at = "info"
      /\ frame'.type = [frame.type EXCEPT !.raw = IF frame.type.kind = "legacy" THEN layout.raw ELSE @]
      /\ frame'.copied = layout.count
      /\ frame'.samples = frame.samples
      /\ frame'.divisor = frame.divisor
      /\ output' = output
  BY DEF Binary, At, FrameInv, FrameType, Quietly
<1>3. FrameType'
  <2>1. layout.raw \in BOOLEAN /\ layout.count \in Channeled /\ frame.type \in PacketTypes
    BY DEF FrameInv, FrameType, LayoutInv, LayoutType
  <2>2. frame'.type \in PacketTypes
    <3>1. CASE frame.type = Undefined
      <4>1. frame'.type = [Undefined EXCEPT !.raw = Undefined.raw]
        BY <1>2, <3>1 DEF Undefined, Type
      <4>2. [Undefined EXCEPT !.raw = Undefined.raw] = Undefined
        BY DEF Undefined, Type
      <4>. QED BY <4>1, <4>2, TypesOfPackets
    <3>2. CASE frame.type # Undefined
      BY <1>2, <2>1, <3>2 DEF PacketTypes
    <3>. QED BY <3>1, <3>2
  <2>3. frame' = [frame EXCEPT !.at = "info", !.copied = layout.count, !.type = frame'.type]
    BY DEF Binary, At, FrameInv, FrameType
  <2>. QED BY <2>1, <2>2, <2>3 DEF FrameInv, FrameType
<1>4. Filled'
  BY <1>1, <1>2 DEF FrameInv, Filled, UnderWay, SameMarks, ScanStill
<1>5. PacketsAreWhole'
  BY <1>1, <1>2 DEF FrameInv, PacketsAreWhole, SameMarks, ScanStill
<1>6. Summed'
  BY <1>2 DEF Summed
<1>7. AveragesAreAverages'
  BY <1>1, <1>2 DEF FrameInv, AveragesAreAverages, SameMarks, ScanStill
<1>8. SoFar(wanted.cfg)'
  <2>1. CASE ~Steady'
    BY <2>1 DEF SoFar
  <2>2. CASE Steady'
    <3>1. Steady /\ UnderWay
      BY <1>1, <2>2 DEF Steady, UnderWay, Still, SameMarks, ScanStill
    <3>. QED BY <1>1, <1>2, <3>1, Planned, SameOutputs
                DEF FrameInv, SoFar, InSizes, Still, ScanStill
  <2>. QED BY <2>1, <2>2
<1>9. FrameInv'
  BY <1>3, <1>4, <1>5, <1>6, <1>7, <1>8 DEF FrameInv
<1>10. Domains' /\ LayoutInv' /\ Stream'
  <2>1. died' \in BOOLEAN
    BY <1>1 DEF Domains
  <2>. QED BY <1>1, <1>2, <2>1, ScanKeeps
<1>11. DiesOnlyOfBadRate'
  BY <1>1, <1>2 DEF DiesOnlyOfBadRate
<1>. QED BY <1>9, <1>10, <1>11

LEMMA InfoInv ==
  ASSUME FramesInv, ~died, Binary /\ frame.at = "info"
  PROVE  FramesInv'
<1> USE DEF FramesInv
<1>1. ScanStill /\ died' = died
  BY DEF Binary, Quietly, Others, ScanStill, SameMarks, Still, fixed, shared,
         packets, seen
<1>2. /\ frame.at = "info"
      /\ frame'.type = frame.type
      /\ frame'.copied = frame.copied
      /\ frame'.samples = frame.samples
      /\ frame'.divisor = frame.divisor
      /\ output' = output
      /\ frame'.at = IF layout.info THEN "size" ELSE "out"
  BY DEF Binary, At, FrameInv, FrameType, Quietly
<1>3. FrameType'
  BY DEF Binary, At, FrameInv, FrameType
<1>4. Filled'
  BY <1>1, <1>2 DEF FrameInv, Filled, UnderWay, Still, SameMarks, ScanStill
<1>5. PacketsAreWhole'
  BY <1>1, <1>2 DEF FrameInv, PacketsAreWhole, SameMarks, ScanStill
<1>6. Summed'
  BY <1>2 DEF Summed
<1>7. AveragesAreAverages'
  BY <1>1, <1>2 DEF FrameInv, AveragesAreAverages, SameMarks, ScanStill
<1>8. SoFar(wanted.cfg)'
  <2>1. CASE ~Steady'
    BY <2>1 DEF SoFar
  <2>2. CASE Steady'
    <3>1. Steady /\ UnderWay
      BY <1>1, <2>2 DEF Steady, UnderWay, Still, SameMarks, ScanStill
    <3>. QED BY <1>1, <1>2, <3>1, SameOutputs
                DEF FrameInv, SoFar, InSizes, InCopy, Still, ScanStill
  <2>. QED BY <2>1, <2>2
<1>9. FrameInv'
  BY <1>3, <1>4, <1>5, <1>6, <1>7, <1>8 DEF FrameInv
<1>10. Domains' /\ LayoutInv' /\ Stream'
  <2>1. died' \in BOOLEAN
    BY <1>1 DEF Domains
  <2>. QED BY <1>1, <1>2, <2>1, ScanKeeps
<1>11. DiesOnlyOfBadRate'
  BY <1>1, <1>2 DEF DiesOnlyOfBadRate
<1>. QED BY <1>9, <1>10, <1>11

LEMMA PacketSizeInv ==
  ASSUME FramesInv, ~died, PacketSize
  PROVE  FramesInv'
<1> USE DEF FramesInv
<1>1. ScanStill /\ died' = ~layout.info
  BY DEF PacketSize, Others, ScanStill, SameMarks, Still, fixed, shared,
         packets, seen
<1>2. /\ frame.at = "size"
      /\ frame'.at = "out"
      /\ frame'.type = frame.type
      /\ frame'.copied = frame.copied
      /\ frame'.samples = frame.samples
      /\ frame'.divisor = frame.divisor
      /\ output' = output
  BY DEF PacketSize, At, FrameInv, FrameType, Quietly
<1>3. FrameType'
  BY DEF PacketSize, At, FrameInv, FrameType
<1>4. Filled'
  BY <1>1, <1>2 DEF FrameInv, Filled, UnderWay, SameMarks, ScanStill
<1>5. PacketsAreWhole'
  BY <1>1, <1>2 DEF FrameInv, PacketsAreWhole, SameMarks, ScanStill
<1>6. Summed'
  BY <1>2 DEF Summed
<1>7. AveragesAreAverages'
  BY <1>1, <1>2 DEF FrameInv, AveragesAreAverages, SameMarks, ScanStill
<1>8. SoFar(wanted.cfg)'
  <2>1. CASE ~Steady'
    BY <2>1 DEF SoFar
  <2>2. CASE Steady'
    <3>1. Steady /\ UnderWay
      BY <1>1, <1>2, <2>2 DEF Steady, UnderWay, Still, SameMarks, ScanStill
    <3>. QED BY <1>1, <1>2, <3>1, SameOutputs
                DEF FrameInv, SoFar, InSizes, InCopy, Still, ScanStill
  <2>. QED BY <2>1, <2>2
<1>9. FrameInv'
  BY <1>3, <1>4, <1>5, <1>6, <1>7, <1>8 DEF FrameInv
<1>10. Domains' /\ LayoutInv' /\ Stream'
  <2>1. died' \in BOOLEAN
    BY <1>1 DEF Domains
  <2>. QED BY <1>1, <1>2, <2>1, ScanKeeps
<1>11. DiesOnlyOfBadRate'
  BY <1>1, <1>2
     DEF DiesOnlyOfBadRate, FrameInv, Filled, UnderWay, SameMarks, ScanStill
<1>. QED BY <1>9, <1>10, <1>11

LEMMA StreamToInv ==
  ASSUME FramesInv, ~died, StreamTo
  PROVE  FramesInv'
<1> USE DEF FramesInv
<1>1. Still /\ SameMarks /\ UNCHANGED <<sending, sent, frames>> /\ died' = died
  BY DEF StreamTo, SameMarks, Still, fixed, shared, seen
<1>2. /\ frame.at = "out"
      /\ frame'.at = "tcp"
      /\ frame'.type = frame.type
      /\ frame'.copied = frame.copied
      /\ frame'.samples = frame.samples
      /\ frame'.divisor = frame.divisor
      /\ output' = IF setting.cfg.udp /\ setting.cfg.format.F = "B"
                   THEN output \cup {Packet("udp")} ELSE output
  BY DEF StreamTo, At, cfg
<1>3. FrameType'
  BY DEF StreamTo, At, FrameInv, FrameType
<1>4. Filled'
  BY <1>1, <1>2 DEF FrameInv, Filled, UnderWay, SameMarks
<1>5. PacketsAreWhole'
  BY <1>1, <1>2 DEF FrameInv, PacketsAreWhole, Filled, UnderWay, Packet,
         SameMarks
<1>6. Summed'
  BY <1>2 DEF Summed
<1>7. AveragesAreAverages'
  BY <1>1, <1>2 DEF FrameInv, AveragesAreAverages, SameMarks
<1>8. SoFar(wanted.cfg)'
  <2>1. CASE ~Steady'
    BY <2>1 DEF SoFar
  <2>2. CASE Steady'
    <3>1. Steady /\ UnderWay
      BY <1>1, <1>2, <2>2 DEF Steady, UnderWay, Still, SameMarks
    <3>. QED BY <1>1, <1>2, <3>1, Planned, SameOutputs
                DEF FrameInv, SoFar, Filled, InSizes, InCopy, Still, Udp, Out,
                    Packet, Steady
  <2>. QED BY <2>1, <2>2
<1>9. FrameInv'
  BY <1>3, <1>4, <1>5, <1>6, <1>7, <1>8 DEF FrameInv
<1>10. Domains' /\ LayoutInv' /\ Stream'
  <2>1. Domains'
    BY <1>1 DEF Domains, Still, SameMarks
  <2>2. LayoutInv'
    <3>1. UnderWay' => UnderWay
      BY <1>1, <1>2 DEF UnderWay, SameMarks
    <3>2. ~Starting \/ overlapped'
      BY <1>1, <1>2 DEF LayoutInv, Alone, Starting, SameMarks
    <3>. QED BY <1>1, <3>1, <3>2, LayoutKept
  <2>3. Stream'
    <3>1. ToStream = 1 /\ ToStream' = 0
      BY <1>2 DEF ToStream
    <3>2. queue' = queue \/ queue' = Append(queue, Packet("udp"))
      BY DEF StreamTo
    <3>3. Packet("udp") \in Packets
      BY DEF Packet, Packets, FrameInv, FrameType
    <3>4. queue \in Seq(Packets) /\ queue' \in Seq(Packets) /\ Len(queue') <= Len(queue) + 1
      BY <3>2, <3>3 DEF Stream
    <3>5. frames \in Int /\ MaxFrames \in Int
      BY FramesBounds DEF Domains
    <3>6. sent' + Len(sending') + Len(queue') + ToStream' <= MaxFrames - frames'
      BY <1>1, <3>1, <3>4, <3>5 DEF Stream
    <3>. QED BY <1>1, <3>4, <3>6 DEF Stream
  <2>. QED BY <2>1, <2>2, <2>3
<1>11. DiesOnlyOfBadRate'
  BY <1>1, <1>2 DEF DiesOnlyOfBadRate
<1>. QED BY <1>9, <1>10, <1>11

LEMMA SendBufferInv ==
  ASSUME FramesInv, ~died, SendBuffer
  PROVE  FramesInv'
<1> USE DEF FramesInv
<1>1. ScanStill /\ died' = died
  BY DEF SendBuffer, Others, ScanStill, SameMarks, Still, fixed, shared,
         packets, seen
<1>2. /\ frame.at = "tcp"
      /\ frame'.at = "end"
      /\ frame'.type = frame.type
      /\ frame'.copied = frame.copied
      /\ frame'.samples = frame.samples
      /\ frame'.divisor = frame.divisor
      /\ output' = IF tcpClient /\ setting.cfg.format.B = "B"
                   THEN output \cup {Packet("tcp")} ELSE output
  BY DEF SendBuffer, At, cfg
<1>3. FrameType'
  BY DEF SendBuffer, At, FrameInv, FrameType
<1>4. Filled'
  BY <1>2 DEF Filled
<1>5. PacketsAreWhole'
  BY <1>1, <1>2
     DEF FrameInv, PacketsAreWhole, Filled, UnderWay, Packet, SameMarks,
         ScanStill
<1>6. Summed'
  BY <1>2 DEF Summed
<1>7. AveragesAreAverages'
  BY <1>1, <1>2 DEF FrameInv, AveragesAreAverages, SameMarks, ScanStill
<1>8. SoFar(wanted.cfg)'
  <2>1. CASE ~Steady'
    BY <2>1 DEF SoFar
  <2>2. CASE Steady'
    <3>1. Steady /\ UnderWay
      BY <1>1, <1>2, <2>2 DEF Steady, UnderWay, Still, SameMarks, ScanStill
    <3>. QED BY <1>1, <1>2, <3>1, Planned, SameOutputs
                DEF FrameInv, SoFar, Filled, InSizes, InCopy, Still, ScanStill,
                    Tcp, Out, Packet, Steady
  <2>. QED BY <2>1, <2>2
<1>9. FrameInv'
  BY <1>3, <1>4, <1>5, <1>6, <1>7, <1>8 DEF FrameInv
<1>10. Domains' /\ LayoutInv' /\ Stream'
  <2>1. died' \in BOOLEAN
    BY <1>1 DEF Domains
  <2>. QED BY <1>1, <1>2, <2>1, ScanKeeps
<1>11. DiesOnlyOfBadRate'
  BY <1>1, <1>2 DEF DiesOnlyOfBadRate
<1>. QED BY <1>9, <1>10, <1>11

LEMMA EndFrameInv ==
  ASSUME FramesInv, ~died, EndFrame
  PROVE  FramesInv'
<1> USE DEF FramesInv
<1>1. ScanStill /\ died' = died
  BY DEF EndFrame, Quietly, Others, ScanStill, SameMarks, Still, fixed, shared,
         packets, seen
<1>2. /\ frame.at = "end"
      /\ frame'.at = "idle"
      /\ frame'.type = frame.type
      /\ frame'.copied = frame.copied
      /\ frame'.samples = frame.samples
      /\ frame'.divisor = frame.divisor
      /\ output' = output
  BY DEF EndFrame, At, FrameInv, FrameType, Quietly
<1>3. FrameType'
  BY DEF EndFrame, At, FrameInv, FrameType
<1>4. Filled'
  BY <1>2 DEF Filled
<1>5. PacketsAreWhole'
  BY <1>1, <1>2 DEF FrameInv, PacketsAreWhole, SameMarks, ScanStill
<1>6. Summed'
  BY <1>2 DEF Summed
<1>7. AveragesAreAverages'
  BY <1>1, <1>2 DEF FrameInv, AveragesAreAverages, SameMarks, ScanStill
<1>8. SoFar(wanted.cfg)'
  <2>1. CASE ~Steady'
    BY <2>1 DEF SoFar
  <2>2. CASE Steady'
    <3>1. Steady /\ UnderWay
      BY <1>2, <2>2 DEF Steady, UnderWay
    <3>. QED BY <1>2 DEF SoFar, InSizes, InCopy
  <2>. QED BY <2>1, <2>2
<1>9. FrameInv'
  BY <1>3, <1>4, <1>5, <1>6, <1>7, <1>8 DEF FrameInv
<1>10. Domains' /\ LayoutInv' /\ Stream'
  <2>1. died' \in BOOLEAN
    BY <1>1 DEF Domains
  <2>. QED BY <1>1, <1>2, <2>1, ScanKeeps
<1>11. DiesOnlyOfBadRate'
  BY <1>1, <1>2 DEF DiesOnlyOfBadRate
<1>. QED BY <1>9, <1>10, <1>11

LEMMA BeginFrameInv ==
  ASSUME FramesInv, ~died, BeginFrame
  PROVE  FramesInv'
<1> USE DEF FramesInv
<1>1. Still /\ UNCHANGED <<queue, sending, sent, died>>
  BY DEF BeginFrame, Still, fixed, shared, packets
<1>2. /\ frame.at = "idle" /\ frame' = [NoFrame EXCEPT !.at = "sample"]
      /\ scanOn /\ output' = {} /\ ~overlapped' /\ ~changed'
      /\ frames > 0 /\ frames' = frames - 1
  BY DEF BeginFrame
<1>3. frame' = [at |-> "sample", samples |-> 0, divisor |-> 0, type |-> Undefined, copied |-> 0]
  BY <1>2 DEF NoFrame
<1>4. Domains'
  <2>1. frames' \in 0..MaxFrames
    BY <1>2, FramesBounds DEF Domains
  <2>2. overlapped' \in BOOLEAN /\ changed' \in BOOLEAN
    BY DEF BeginFrame
  <2>. QED BY <1>1, <2>1, <2>2 DEF Domains, Still
<1>5. LayoutInv'
  <2>1. ~Starting
    BY <1>2 DEF LayoutInv, Alone, Starting
  <2>. QED BY <1>1, <1>2, <2>1, LayoutKept
<1>6. FrameInv'
  <2>1. FrameType'
    BY <1>3, TypesOfPackets DEF FrameType
  <2>2. Filled'
    BY <1>3 DEF Filled
  <2>3. PacketsAreWhole'
    BY <1>2 DEF PacketsAreWhole
  <2>4. Summed'
    <3>1. setting'.avg >= 0
      BY <1>1 DEF LayoutInv, InStep, Shaped, Fielded, Still
    <3>. QED BY <1>3, <3>1 DEF Summed
  <2>5. AveragesAreAverages'
    BY <1>3 DEF AveragesAreAverages
  <2>6. SoFar(wanted.cfg)'
    BY <1>2, <1>3 DEF SoFar, InSizes, InCopy
  <2>. QED BY <2>1, <2>2, <2>3, <2>4, <2>5, <2>6 DEF FrameInv
<1>7. Stream'
  <2>1. ToStream = 0 /\ ToStream' = 1
    BY <1>2, <1>3 DEF ToStream
  <2>2. frames \in Int /\ MaxFrames \in Int
    BY FramesBounds DEF Domains
  <2>. QED BY <1>1, <1>2, <2>1, <2>2 DEF Stream
<1>8. DiesOnlyOfBadRate'
  BY <1>1 DEF DiesOnlyOfBadRate
<1>. QED BY <1>4, <1>5, <1>6, <1>7, <1>8

-----------------------------------------------------------------------------
(* The stream thread.                                                      *)

LEMMA StreamThreadKeeps ==
  ASSUME FramesInv, ~died, TakePacket \/ SendPacket
  PROVE  /\ Domains' /\ LayoutInv' /\ FrameInv' /\ DiesOnlyOfBadRate'
         /\ ToStream' = ToStream /\ frames' = frames
<1> USE DEF FramesInv
<1>1. Still /\ SameMarks /\ UNCHANGED <<frame, output, frames, died>>
  BY DEF TakePacket, SendPacket, Still, SameMarks, fixed, shared, scanner, seen
<1>2. Domains' /\ DiesOnlyOfBadRate'
  BY <1>1 DEF Domains, DiesOnlyOfBadRate, Still, SameMarks
<1>3. LayoutInv'
  <2>1. ~Starting \/ frame'.at = "idle" \/ overlapped'
    BY <1>1 DEF LayoutInv, Alone, Starting, SameMarks
  <2>2. UnderWay' => UnderWay
    BY <1>1 DEF UnderWay, SameMarks
  <2>. QED BY <1>1, <2>1, <2>2, LayoutKept
<1>4. FrameInv'
  BY <1>1, FrameKept DEF Still, SameMarks
<1>5. ToStream' = ToStream /\ frames' = frames
  BY <1>1 DEF ToStream
<1>. QED BY <1>2, <1>3, <1>4, <1>5

LEMMA TakePacketInv ==
  ASSUME FramesInv, ~died, TakePacket
  PROVE  FramesInv'
<1> USE DEF FramesInv
<1>1. sending = <<>> /\ queue # <<>> /\ sending' = <<Head(queue)>> /\ queue' = Tail(queue)
      /\ sent' = sent
  BY DEF TakePacket
<1>2. Head(queue) \in Packets /\ queue' \in Seq(Packets) /\ Len(queue') = Len(queue) - 1
  BY <1>1 DEF Stream
<1>3. Len(sending) = 0 /\ Len(sending') = 1
  BY <1>1
<1>4. sent' + Len(sending') + Len(queue') = sent + Len(sending) + Len(queue)
  BY <1>1, <1>2, <1>3 DEF Stream
<1>5. Stream'
  <2>1. Packets' = Packets
    BY DEF Packets, PacketTypes
  <2>2. sent' + Len(sending') + Len(queue') + ToStream' <= MaxFrames - frames'
    BY <1>4, StreamThreadKeeps DEF Stream
  <2>. QED BY <1>1, <1>2, <2>1, <2>2 DEF Stream
<1>. QED BY <1>5, StreamThreadKeeps

LEMMA SendPacketInv ==
  ASSUME FramesInv, ~died, SendPacket
  PROVE  FramesInv'
<1> USE DEF FramesInv
<1>1. sending # <<>> /\ sending' = <<>> /\ queue' = queue /\ sent' = sent + 1
  BY DEF SendPacket
<1>2. Len(sending) = 1 /\ Len(sending') = 0
  BY <1>1 DEF Stream
<1>3. Stream'
  <2>1. Packets' = Packets
    BY DEF Packets, PacketTypes
  <2>2. sent' + Len(sending') + Len(queue') + ToStream' <= MaxFrames - frames'
    BY <1>1, <1>2, StreamThreadKeeps DEF Stream
  <2>. QED BY <1>1, <2>1, <2>2 DEF Stream
<1>. QED BY <1>3, StreamThreadKeeps

-----------------------------------------------------------------------------
(* The invariant, and the theorems.                                        *)

LEMMA FramesInitInv ==
  ASSUME FramesInit
  PROVE  FramesInv
<1>1. PICK c \in Configs : setting = [cfg |-> c, avg |-> 1, erange |-> FALSE]
  BY DEF FramesInit
<1>2. InStep
  BY <1>1, SettingsBounds, FramesInputs DEF InStep, Shaped, Fielded
<1>3. Domains
  <2>1. commands \in 0..MaxCommands /\ frames \in 0..MaxFrames
    BY FramesBounds DEF FramesInit
  <2>. QED BY <2>1 DEF FramesInit, FramesStart, Domains
<1>4. LayoutInv
  <2>1. LayoutType
    BY DEF FramesInit, FramesStart, LayoutType, PacketTypes, Channeled, Legacy,
           Type
  <2>2. Alone
    BY DEF FramesInit, FramesStart, Alone, Starting
  <2>3. LaidOut(wanted.cfg)
    BY DEF FramesInit, FramesStart, LaidOut, Starting, Settled, UnderWay, NoFrame
  <2>. QED BY <1>2, <2>1, <2>2, <2>3 DEF LayoutInv
<1>5. FrameInv
  <2>1. frame = NoFrame /\ output = {}
    BY DEF FramesInit, FramesStart
  <2>2. FrameType
    BY <2>1, TypesOfPackets DEF FrameType, NoFrame
  <2>3. Filled /\ PacketsAreWhole /\ Summed /\ AveragesAreAverages
    BY <2>1 DEF Filled, PacketsAreWhole, Summed, AveragesAreAverages, NoFrame
  <2>4. SoFar(wanted.cfg)
    BY <2>1 DEF SoFar, Steady, UnderWay, NoFrame
  <2>. QED BY <2>2, <2>3, <2>4 DEF FrameInv
<1>6. Stream
  <2>1. sent = 0 /\ queue = <<>> /\ sending = <<>> /\ ToStream = 0
    BY DEF FramesInit, FramesStart, ToStream, NoFrame
  <2>2. Len(queue) = 0 /\ Len(sending) = 0
    BY <2>1
  <2>3. 0 <= MaxFrames - frames
    BY FramesBounds DEF FramesInit
  <2>. QED BY <2>1, <2>2, <2>3 DEF Stream
<1>7. DiesOnlyOfBadRate
  BY DEF FramesInit, FramesStart, DiesOnlyOfBadRate
<1>. QED BY <1>3, <1>4, <1>5, <1>6, <1>7 DEF FramesInv

LEMMA FramesNextInv ==
  ASSUME FramesInv, [FramesNext]_framesVars
  PROVE  FramesInv'
<1>1. CASE UNCHANGED framesVars
  <2>1. CallerStill /\ Still /\ SameMarks
    BY <1>1
       DEF framesVars, CallerStill, Still, SameMarks, fixed, shared, scanner,
           packets, seen
  <2>2. Domains' /\ DiesOnlyOfBadRate'
    BY <2>1 DEF FramesInv, Domains, DiesOnlyOfBadRate, Still, SameMarks,
           CallerStill
  <2>3. LayoutInv'
    <3>1. ~Starting \/ frame'.at = "idle" \/ overlapped'
      BY <2>1 DEF FramesInv, LayoutInv, Alone, Starting, SameMarks, CallerStill
    <3>2. UnderWay' => UnderWay
      BY <2>1 DEF UnderWay, SameMarks, CallerStill
    <3>. QED BY <2>1, <3>1, <3>2, LayoutKept DEF FramesInv
  <2>4. FrameInv'
    BY <2>1, FrameKept DEF FramesInv, Still, SameMarks, CallerStill
  <2>5. Stream'
    BY <2>1 DEF FramesInv, Stream, ToStream, CallerStill
  <2>. QED BY <2>2, <2>3, <2>4, <2>5 DEF FramesInv
<1>2. CASE FramesNext
  <2>1. ~died
    BY <1>2 DEF FramesNext
  <2>2. CASE \E t \in Commands : Command(t)
    <3>1. PICK t \in Commands : Command(t)
      BY <2>2
    <3>2. SetOrGet(t) \/ BeginScan \/ StopScan
      BY <3>1 DEF Command, Operation
    <3>. QED BY <2>1, <3>1, <3>2, SetOrGetInv, BeginScanInv, StopScanInv
  <2>3. CASE ConfigureScanLayout \/ FinishStart \/ FinishRate
    BY <2>1, <2>3, ConfigureInv, FinishStartInv, FinishRateInv
  <2>4. CASE ScanSteps
    <3>1. CASE Labview
      BY <2>1, <3>1, LabviewInv, ValuesInv DEF Labview, At
    <3>2. CASE Binary
      BY <2>1, <3>2, BinaryInv, SwitchInv, CopyInv, InfoInv DEF Binary, At
    <3>. QED BY <2>1, <2>4, <3>1, <3>2, BeginFrameInv, SampleInv, DivideInv,
                OnLabviewFrameInv, Size64Inv, Size32Inv, Size16Inv,
                PacketSizeInv,
                StreamToInv, SendBufferInv, EndFrameInv
                DEF ScanSteps
  <2>5. CASE TakePacket \/ SendPacket
    BY <2>1, <2>5, TakePacketInv, SendPacketInv
  <2>. QED BY <1>2, <2>2, <2>3, <2>4, <2>5 DEF FramesNext
<1>. QED BY <1>1, <1>2

LEMMA FramesInvariance == FramesSpec => []FramesInv
  BY FramesInitInv, FramesNextInv, PTL DEF FramesSpec

(* What the documentation promises is what the three places of the code    *)
(* send.                                                                   *)
LEMMA PromisedParts ==
  ASSUME NEW c
  PROVE  Promised(c) = Lab(c) \cup Udp(c) \cup Tcp(c)
<1> DEFINE n == Width(Padded(c))
           binary == OwnType(c)
           labview == Type("labview", n, FALSE)
           deliveries == [to : {"udp", "tcp"}, type : {binary, labview}, copied : {n}]
           Due(d) == IF d.to = "udp"
                     THEN d.type = binary /\ Known(c) /\ c.udp /\ c.format.F = "B"
                     ELSE /\ tcpClient
                          /\ \/ d.type = binary /\ Known(c) /\ c.format.B = "B"
                             \/ d.type = labview /\ c.format.B = "L"
<1>1. Promised(c) = {d \in deliveries : Due(d)}
  BY DEF Promised, Width, Padded, OwnType, Known
<1>2. binary.channels = n /\ labview.channels = n
  BY DEF OwnType, Type
<1>3. \A x, y : Out(x, y) = [to |-> x, type |-> y, copied |-> y.channels]
  BY DEF Out
<1> HIDE DEF n, binary, labview
<1>4. ASSUME NEW d \in deliveries, Due(d)
      PROVE  d \in Lab(c) \cup Udp(c) \cup Tcp(c)
  <2>1. d = [to |-> d.to, type |-> d.type, copied |-> n]
    OBVIOUS
  <2>2. CASE d.to = "udp"
    BY <1>2, <1>3, <1>4, <2>2 DEF Udp, binary
  <2>3. CASE d.to = "tcp"
    BY <1>2, <1>3, <1>4, <2>3 DEF Tcp, Lab, binary, labview, n
  <2>. QED BY <2>2, <2>3
<1>5. ASSUME NEW d \in Lab(c) \cup Udp(c) \cup Tcp(c)
      PROVE  d \in deliveries /\ Due(d)
  <2>1. CASE d \in Lab(c)
    <3>1. d = Out("tcp", labview) /\ tcpClient /\ c.format.B = "L"
      BY <2>1 DEF Lab, labview, n
    <3>. QED BY <1>2, <1>3, <3>1
  <2>2. CASE d \in Udp(c)
    <3>1. d = Out("udp", binary) /\ Known(c) /\ c.udp /\ c.format.F = "B"
      BY <2>2 DEF Udp, binary
    <3>. QED BY <1>2, <1>3, <3>1
  <2>3. CASE d \in Tcp(c)
    <3>1. d = Out("tcp", binary) /\ Known(c) /\ tcpClient /\ c.format.B = "B"
      BY <2>3 DEF Tcp, binary
    <3>. QED BY <1>2, <1>3, <3>1
  <2>. QED BY <1>5, <2>1, <2>2, <2>3
<1>. QED BY <1>1, <1>4, <1>5

(* The variables stay in their domains: in particular, each packet of      *)
(* GenerateScanFrame has a type of the table, and the queue of StreamTo    *)
(* never holds more packets than there were frames.                        *)
THEOREM FramesTypeCorrect == FramesSpec => []FramesTypeOK
<1>1. FramesInv => FramesTypeOK
  <2>1. SUFFICES ASSUME FramesInv PROVE FramesTypeOK
    OBVIOUS
  <2>2. setting.avg \in 0..(Long - 1)
    BY <2>1 DEF FramesInv, LayoutInv, InStep, Fielded
  <2>3. frame.type \in PacketTypes /\ frame.copied \in {0} \cup Channeled
    BY <2>1 DEF FramesInv, FrameInv, FrameType
  <2>4. Len(sending) <= 1 /\ sent + Len(sending) + Len(queue) <= MaxFrames - frames
    <3>1. ToStream = 0 \/ ToStream = 1
      BY DEF ToStream
    <3>2. frames \in Int /\ MaxFrames \in Int
      BY <2>1, FramesBounds DEF FramesInv, Domains
    <3>3. Len(sending) = 0 \/ Len(sending) = 1
      BY <2>1 DEF FramesInv, Stream
    <3>4. sent \in Nat /\ Len(queue) \in Nat
      BY <2>1 DEF FramesInv, Stream
    <3>5. sent + Len(sending) + Len(queue) + ToStream <= MaxFrames - frames
      BY <2>1 DEF FramesInv, Stream
    <3> DEFINE m == Len(sending)
               n == Len(queue)
    <3>6. m \in Int /\ n \in Nat /\ m <= 1
      BY <3>3, <3>4
    <3>7. sent + m + n + ToStream <= MaxFrames - frames
      BY <3>5
    <3> HIDE DEF m, n
    <3>8. sent + m + n <= MaxFrames - frames
      BY <3>1, <3>2, <3>4, <3>6, <3>7
    <3>. QED BY <3>6, <3>8 DEF m, n
  <2>. QED BY <2>1, <2>2, <2>3, <2>4
              DEF FramesTypeOK, FramesInv, Domains, LayoutInv, LayoutType
<1>. QED BY <1>1, FramesInvariance, PTL

(* A frame that no command disturbed is delivered by OnScanFrame and       *)
(* OnLabviewFrame exactly as promised for the settings that StartScan saw, *)
(* although StartScan, ConfigureScanLayout, GenerateScanFrame and the      *)
(* callbacks each look at a different part of them.                        *)
THEOREM DeliveredAsPromised == FramesSpec => []FramesAsPromised
<1>1. FramesInv => FramesAsPromised
  BY PromisedParts
     DEF FramesInv, FrameInv, SoFar, Steady, UnderWay, FramesAsPromised
<1>. QED BY <1>1, FramesInvariance, PTL

(* No packet of GenerateScanFrame is filled short of its type or beyond    *)
(* it, also when SET changes the configuration under a running scan,       *)
(* unless StartScan changes the layout under a late frame.                 *)
THEOREM PacketsWhole == FramesSpec => []PacketsAreWhole
<1>1. FramesInv => PacketsAreWhole
  BY DEF FramesInv, FrameInv
<1>. QED BY <1>1, FramesInvariance, PTL

(* ScanThreadFn divides the sum by the number of the samples in it, though *)
(* it reads m_nSubFrameAverages once for each of them and again to divide, *)
(* unless SET RATE or StartScan change it in between.                      *)
THEOREM AveragesCorrect == FramesSpec => []AveragesAreAverages
<1>1. FramesInv => AveragesAreAverages
  BY DEF FramesInv, FrameInv
<1>. QED BY <1>1, FramesInvariance, PTL

(* ScanThreadFn neither divides by zero nor uses a null m_PacketInfo,      *)
(* whatever rate sscanf reads and at whatever moment of a frame, unless    *)
(* ceil(500 / rate) of that rate does not fit in uint32_t, SET RATE is     *)
(* between its two stores or StartScan meets a late frame.                 *)
THEOREM NoOtherDeath == FramesSpec => []DiesOnlyOfBadRate
<1>1. FramesInv => DiesOnlyOfBadRate
  BY DEF FramesInv
<1>. QED BY <1>1, FramesInvariance, PTL
-----------------------------------------------------------------------------
(* The stream.  That a queued packet is sent is a liveness property; here  *)
(* is what it rests on: none is lost, sent twice or overtaken.             *)

OnItsWay == sending \o queue

(* A step leaves the packets that wait alone, adds at the end the packet   *)
(* that a frame delivers, or sends the first.                              *)
StreamStep ==
  \/ sent' = sent /\ OnItsWay' = OnItsWay
  \/ sent' = sent /\ frame.at = "out" /\ OnItsWay' = Append(OnItsWay, Packet("udp"))
       /\ Packet("udp") \in output'
  \/ sent' = sent + 1 /\ OnItsWay # <<>> /\ OnItsWay' = Tail(OnItsWay)

LEMMA HeadThenTail ==
  ASSUME NEW S, NEW q \in Seq(S), q # <<>>
  PROVE  <<Head(q)>> \o Tail(q) = q
  OBVIOUS

LEMMA TailOfFront ==
  ASSUME NEW S, NEW q \in Seq(S), NEW p \in S
  PROVE  <<p>> \o q # <<>> /\ Tail(<<p>> \o q) = q
  OBVIOUS

LEMMA FewPackets ==
  ASSUME Stream
  PROVE  sending \in Seq(Packets) /\ queue \in Seq(Packets) /\ sent \in Nat
<1>1. CASE sending = <<>>
  BY <1>1 DEF Stream
<1>2. ASSUME NEW p \in Packets, sending = <<p>>
      PROVE  sending \in Seq(Packets)
  <2>1. <<p>> \in Seq(Packets)
    OBVIOUS
  <2>. QED BY <1>2, <2>1
<1>. QED BY <1>1, <1>2 DEF Stream

LEMMA StreamToStep ==
  ASSUME Stream, StreamTo
  PROVE  StreamStep
<1>1. UNCHANGED <<sending, sent>> /\ frame.at = "out"
  BY DEF StreamTo, At
<1>2. CASE UNCHANGED queue
  BY <1>1, <1>2 DEF StreamStep, OnItsWay
<1>3. CASE queue' = Append(queue, Packet("udp")) /\ output' = output \cup {Packet("udp")}
  <2>1. OnItsWay' = Append(OnItsWay, Packet("udp"))
    <3>1. ASSUME NEW S, NEW s \in Seq(S), NEW q \in Seq(S), NEW p \in S
          PROVE  s \o Append(q, p) = Append(s \o q, p)
      <4>1. <<p>> \in Seq(S)
        OBVIOUS
      <4>2. Append(q, p) = q \o <<p>> /\ Append(s \o q, p) = (s \o q) \o <<p>>
        BY AppendIsConcat, ConcatProperties
      <4>. QED BY <4>1, <4>2, ConcatAssociative
    <3>2. \A S, T : Seq(S) \subseteq Seq(S \cup T)
      BY SeqMonotonic
    <3> DEFINE S == Packets \cup {Packet("udp")}
    <3>3. sending \in Seq(S) /\ queue \in Seq(S)
      BY <3>2, FewPackets
    <3>. QED BY <1>1, <1>3, <3>1, <3>3 DEF OnItsWay
  <2>. QED BY <1>1, <1>3, <2>1 DEF StreamStep
<1>. QED BY <1>2, <1>3 DEF StreamTo

LEMMA TakePacketStep ==
  ASSUME Stream, TakePacket
  PROVE  StreamStep
<1>1. /\ sending = <<>> /\ queue # <<>> /\ sent' = sent
      /\ sending' = <<Head(queue)>> /\ queue' = Tail(queue)
  BY DEF TakePacket
<1>2. queue \in Seq(Packets)
  BY FewPackets
<1>3. <<Head(queue)>> \o Tail(queue) = queue
  BY <1>1, <1>2, HeadThenTail
<1>4. sending \o queue = queue
  BY <1>1, <1>2, ConcatEmptySeq
<1>. QED BY <1>1, <1>3, <1>4 DEF StreamStep, OnItsWay

LEMMA SendPacketStep ==
  ASSUME Stream, SendPacket
  PROVE  StreamStep
<1>1. sending # <<>> /\ sending' = <<>> /\ queue' = queue /\ sent' = sent + 1
  BY DEF SendPacket
<1>2. PICK p \in Packets : sending = <<p>>
  BY <1>1 DEF Stream
<1>3. queue \in Seq(Packets)
  BY FewPackets
<1>4. <<p>> \o queue # <<>> /\ Tail(<<p>> \o queue) = queue
  BY <1>3, TailOfFront
<1>5. sending' \o queue' = queue
  BY <1>1, <1>3, ConcatEmptySeq
<1>. QED BY <1>1, <1>2, <1>4, <1>5 DEF StreamStep, OnItsWay

(* What the device hands to StreamTo goes out once and in the order of the *)
(* frames, however the stream thread's two steps interleave with the scan  *)
(* thread, STOP and StartScan; QueuedIsSent follows if the stream thread   *)
(* is scheduled (server.cpp 150-190).                                      *)
THEOREM PacketsInOrder == FramesSpec => [][StreamStep]_framesVars
<1>1. ASSUME Stream, FramesNext
      PROVE  StreamStep
  <2>1. CASE UNCHANGED packets
    BY <2>1 DEF packets, StreamStep, OnItsWay
  <2>2. CASE (\E t \in Commands : Command(t)) \/ ConfigureScanLayout \/ FinishStart
            \/ FinishRate
    BY <2>1, <2>2 DEF Command, ConfigureScanLayout, FinishStart, FinishRate
  <2>3. CASE ScanSteps
    BY <1>1, <2>1, <2>3, StreamToStep DEF ScanSteps, BeginFrame, Sample, Divide, Labview,
       LabviewSize, OnLabviewFrame, Binary, PacketSize, SendBuffer, EndFrame, Quietly,
       Others
  <2>. QED BY <1>1, <2>2, <2>3, TakePacketStep, SendPacketStep DEF FramesNext
<1>2. FramesInv /\ [FramesNext]_framesVars => [StreamStep]_framesVars
  BY <1>1 DEF FramesInv
<1>. QED BY <1>2, FramesInvariance, PTL DEF FramesSpec

=============================================================================
