------------------------------- MODULE Frames -------------------------------
(***************************************************************************)
(* What a frame of a scan is made of and where it goes: the layout that    *)
(* StartScan computes (ConfigureScanLayout, UpdateScanAverages), the frame *)
(* that ScanThreadFn assembles by it, its delivery (OnScanFrame,           *)
(* OnLabviewFrame) and the queue of the UDP stream (StreamTo,              *)
(* DataStreamThreadFn).                                                    *)
(*                                                                         *)
(* Threads.  Caller is the handler of the client in control, which sends   *)
(* commands one after the other; the scan thread; the stream thread.  The  *)
(* caller and the scan thread share m_cfg, the layout and the averages     *)
(* without a lock: each step of one of them below is one access to these,  *)
(* or several that the other cannot tell apart.  A frame that is under way *)
(* when its scan is stopped is finished, also by the layout of the next    *)
(* scan (MpsDevice).                                                       *)
(*                                                                         *)
(* Abstractions.  A channel's values are not modelled, only how many are   *)
(* copied; the temperatures go with the pressures.  Times, and the number  *)
(* of frames after which a scan ends by itself (MpsDevice), are left out,  *)
(* and clients of the binary server stay (Server) and send nothing.  A     *)
(* command that stores several fields stores them at once, except for SET  *)
(* RATE, whose rate and averages the scan thread may find out of step.     *)
(***************************************************************************)
EXTENDS Settings

CONSTANTS
  Commands,    (* commands that the client sends, as tokens                *)
  Configs,     (* configurations that earlier commands may have left       *)
  Devices,     (* device types, by their number of channels                *)
  Unknown,     (* a device type that is none of the table's                *)
  MaxCommands, (* bound on the commands                                    *)
  MaxFrames    (* bound on the frames                                      *)

ASSUME FramesBounds ==
  /\ Devices \subseteq {16, 32, 64, Unknown}
  /\ MaxCommands \in Nat \ {0} /\ MaxFrames \in Nat

(* SplitString makes at least one token of a command, and a configuration  *)
(* has the fields of m_cfg.                                                *)
ASSUME FramesInputs ==
  /\ Commands \subseteq Seq(AnyToken) \ {<<>>}
  /\ \A c \in Configs : DOMAIN c = DOMAIN DefaultConfig /\ c.rate \in Rates

VARIABLES
  deviceId,    (* m_cfg.device_id                                          *)
  tcpClient,   (* m_TCPBinaryCleintConnected                               *)
  setting,     (* the rest of m_cfg, and m_nSubFrameAverages               *)
  layout,      (* what ConfigureScanLayout computes                        *)
  scanOn,      (* m_Scanning                                               *)
  caller,      (* where StartScan is                                       *)
  frame,       (* the scan thread: where it is and its locals              *)
  queue,       (* m_DataQueue                                              *)
  sending,     (* the packet that the stream thread holds                  *)
  died,        (* the process has died                                     *)
  wanted,      (* history: the settings when the last scan was started     *)
  overlapped,  (* history: StartScan has overlapped the frame              *)
  changed,     (* history: a SET has changed something during the frame    *)
  output,      (* history: what the frame has delivered                    *)
  sent,        (* history: the number of packets sent                      *)
  commands,    (* history: commands that may still be sent                 *)
  frames       (* history: frames that may still be assembled              *)

fixed == <<deviceId, tcpClient>>
shared == <<setting, layout, scanOn>>
packets == <<queue, sending, sent>>
scanner == <<frame, output, frames>>
seen == <<wanted, overlapped, changed>>
framesVars ==
  <<fixed, shared, caller, scanner, packets, died, seen, commands>>

(* A packet's type, with the channels that it has room for.                *)
Type(kind, channels, raw) == [kind |-> kind, channels |-> channels, raw |-> raw]
Undefined == Type("undefined", 0, FALSE)
Legacy == Type("legacy", 64, FALSE)

NoFrame == [at |-> "idle", samples |-> 0, divisor |-> 0, type |-> Undefined, copied |-> 0]

FramesStart ==
  /\ layout = [labview |-> FALSE, binary |-> FALSE, raw |-> FALSE, pad |-> TRUE,
               info |-> FALSE, type |-> Legacy, physical |-> 64, count |-> 64]
  /\ scanOn = FALSE /\ died = FALSE /\ overlapped = FALSE /\ changed = FALSE
  /\ caller = "idle" /\ frame = NoFrame
  /\ sent = 0
  /\ queue = <<>> /\ sending = <<>> /\ output = {}
  /\ wanted = setting

(* A device begins with the configuration of OnAttach or with another one  *)
(* that earlier commands have left.                                        *)
FramesInit ==
  /\ deviceId \in Devices
  /\ tcpClient \in BOOLEAN
  /\ \E c \in Configs : setting = [cfg |-> c, avg |-> 1, erange |-> FALSE]
  /\ commands \in 1..MaxCommands /\ frames \in 1..MaxFrames
  /\ FramesStart

-----------------------------------------------------------------------------
(* The caller.                                                             *)

SetsRate(t) == t[1] = Word("SET") /\ Len(t) > 2 /\ t[2] = Word("RATE")

(* A command that is no operation of the device.  SET RATE stores the rate *)
(* first and the averages later (FinishRate).                              *)
SetOrGet(t) ==
  /\ \E o \in ParseCommands(setting, t) :
       o.op = "none" /\ setting' = [o.state EXCEPT !.avg = setting.avg]
  /\ changed' = (changed \/ setting' # setting)
  /\ caller' = IF SetsRate(t) THEN "rate" ELSE "idle"
  /\ UNCHANGED <<layout, scanOn, wanted, overlapped>>

BeginScan ==
  /\ ~scanOn
  /\ caller' = "layout"
  /\ wanted' = setting
  /\ overlapped' = (overlapped \/ frame.at # "idle")
  /\ UNCHANGED <<shared, changed>>

StopScan ==
  /\ scanOn' = FALSE
  /\ UNCHANGED <<setting, layout, caller, seen>>

Operation(op) ==
  \/ op = "scan" /\ BeginScan
  \/ op = "stop" /\ StopScan

Command(t) ==
  /\ caller = "idle"
  /\ commands > 0
  /\ commands' = commands - 1
  /\ \/ SetOrGet(t)
     \/ \E o \in ParseCommands(setting, t) : Operation(o.op)
  /\ UNCHANGED <<fixed, scanner, packets, died>>

cfg == setting.cfg

BinaryWantedByClient == cfg.format.B = "B"

(* m_UseBinary.                                                            *)
BinaryWanted ==
  cfg.format.B = "B" \/ (cfg.format.F = "B" /\ (cfg.udp \/ cfg.ftp))

ChannelsUnknown == IF deviceId = Unknown THEN 0 ELSE deviceId

(* The switch over cfg.device_id leaves the channels of an unknown device  *)
(* as they were, and its packet type undefined.                            *)
Channels == IF deviceId = Unknown THEN layout.physical ELSE deviceId

PacketType ==
  IF layout.pad THEN Legacy
  ELSE IF deviceId = Unknown THEN Undefined ELSE Type("own", deviceId, layout.raw)

ConfigureUnpadded ==
  \/ /\ caller = "layout" /\ caller' = "reset"
     /\ layout' = [layout EXCEPT !.labview = (cfg.format.B = "L"), !.binary = BinaryWanted]
  \/ /\ caller = "reset" /\ caller' = "channels"
     /\ layout' = [layout EXCEPT !.raw = (cfg.units = "RAW"),
                     !.pad = ((cfg.sim \div PadBit) % 2 = 1),
                     !.info = FALSE, !.type = Undefined]
  \/ /\ caller = "channels" /\ caller' = "type"
     /\ layout' = [layout EXCEPT !.physical = Channels, !.count = Channels]
  \/ /\ caller = "type" /\ caller' = "info"
     /\ layout' = [layout EXCEPT !.type = IF layout.binary THEN PacketType ELSE @]
  \/ /\ caller = "info" /\ caller' = "averages"
     /\ layout' = [layout EXCEPT !.info = layout.binary /\ layout.type # Undefined]

(* ConfigureScanLayout, in the order of its assignments.                   *)
Configure ==
  \/ /\ caller = "layout" /\ caller' = "reset"
     /\ layout' = [layout EXCEPT !.labview = (cfg.format.B = "L"), !.binary = BinaryWanted]
  \/ /\ caller = "reset" /\ caller' = "channels"
     /\ layout' = [layout EXCEPT !.raw = (cfg.units = "RAW"),
                     !.pad = ((cfg.sim \div PadBit) % 2 = 1),
                     !.info = FALSE, !.type = Undefined]
  \/ /\ caller = "channels" /\ caller' = "padding"
     /\ layout' = [layout EXCEPT !.physical = Channels, !.count = Channels]
  \/ /\ caller = "padding" /\ caller' = "type"
     /\ layout' = [layout EXCEPT !.count = IF layout.pad THEN 64 ELSE @]
  \/ /\ caller = "type" /\ caller' = "info"
     /\ layout' = [layout EXCEPT !.type = IF layout.binary THEN PacketType ELSE @]
  \/ /\ caller = "info" /\ caller' = "averages"
     /\ layout' = [layout EXCEPT !.info = layout.binary /\ layout.type # Undefined]

ConfigureScanLayout ==
  /\ Configure
  /\ UNCHANGED <<fixed, setting, scanOn, scanner, packets, died, seen, commands>>

(* The averages, and then m_Scanning.                                      *)
FinishStart ==
  /\ \/ /\ caller = "averages" /\ caller' = "go"
        /\ \E a \in UpdateScanAverages(cfg.rate) : setting' = [setting EXCEPT !.avg = a]
        /\ UNCHANGED scanOn
     \/ /\ caller = "go" /\ caller' = "idle"
        /\ scanOn' = TRUE
        /\ UNCHANGED setting
  /\ UNCHANGED <<fixed, layout, scanner, packets, died, seen, commands>>

FinishRate ==
  /\ caller = "rate" /\ caller' = "idle"
  /\ \E a \in UpdateScanAverages(cfg.rate) : setting' = [setting EXCEPT !.avg = a]
  /\ changed' = (changed \/ setting' # setting)
  /\ UNCHANGED <<fixed, layout, scanOn, scanner, packets, died, wanted, overlapped, commands>>

-----------------------------------------------------------------------------
(* The scan thread.                                                        *)

Others == <<fixed, shared, caller, packets, seen, commands>>

At(from, to) == frame.at = from /\ frame' = [frame EXCEPT !.at = to]
Quietly == UNCHANGED <<Others, output, frames, died>>

(* while (m_Scanning): a frame begins.                                     *)
BeginFrame ==
  /\ frame.at = "idle"
  /\ scanOn /\ frames > 0
  /\ frame' = [NoFrame EXCEPT !.at = "sample"]
  /\ output' = {}
  /\ frames' = frames - 1
  /\ overlapped' = FALSE /\ changed' = FALSE
  /\ UNCHANGED <<fixed, shared, caller, packets, died, wanted, commands>>

SampleOnceMore ==
  /\ frame.at = "sample"
  /\ frame' = IF frame.samples <= setting.avg THEN [frame EXCEPT !.samples = @ + 1]
              ELSE [frame EXCEPT !.at = "divide"]
  /\ Quietly

(* The loop over m_nSubFrameAverages.                                      *)
Sample ==
  /\ frame.at = "sample"
  /\ frame' = IF frame.samples < setting.avg THEN [frame EXCEPT !.samples = @ + 1]
              ELSE [frame EXCEPT !.at = "divide"]
  /\ Quietly

(* The division by m_nSubFrameAverages.                                    *)
Divide ==
  /\ frame.at = "divide"
  /\ frame' = [frame EXCEPT !.at = "labview", !.divisor = setting.avg]
  /\ died' = (setting.avg = 0)
  /\ UNCHANGED <<Others, output, frames>>

(* The LabVIEW packet: the values are copied, and then the count is        *)
(* compared with one size after the other.                                 *)
Labview ==
  /\ \/ At("labview", IF layout.labview THEN "values" ELSE "binary")
     \/ /\ frame.at = "values"
        /\ frame' = [frame EXCEPT !.at = "size64", !.copied = layout.count]
  /\ Quietly

LabviewSize(from, n, to) ==
  /\ frame.at = from
  /\ frame' = IF layout.count = n
              THEN [frame EXCEPT !.at = "labview_out", !.type = Type("labview", n, FALSE)]
              ELSE [frame EXCEPT !.at = to]
  /\ Quietly

Packet(to) == [to |-> to, type |-> frame.type, copied |-> frame.copied]

(* OnLabviewFrame.                                                         *)
OnLabviewFrame ==
  /\ At("labview_out", "binary")
  /\ output' = IF tcpClient /\ cfg.format.B = "L" THEN output \cup {Packet("tcp")} ELSE output
  /\ UNCHANGED <<Others, frames, died>>

(* The binary packet: m_UseBinary, the switch over m_PacketType, the copy  *)
(* of counts or pressures, and the test of m_PacketInfo.                   *)
Binary ==
  /\ \/ At("binary", IF layout.binary THEN "switch" ELSE "end")
     \/ /\ frame.at = "switch"
        /\ frame' = [frame EXCEPT !.at = IF layout.type = Undefined THEN "end" ELSE "copy",
                                  !.type = layout.type]
     \/ /\ frame.at = "copy"
        /\ frame' = [frame EXCEPT !.at = "info", !.copied = layout.count,
             !.type.raw = IF frame.type.kind = "legacy" THEN layout.raw ELSE @]
     \/ At("info", IF layout.info THEN "size" ELSE "out")
  /\ Quietly

(* m_PacketInfo is read again to be dereferenced.                          *)
PacketSize ==
  /\ At("size", "out")
  /\ died' = ~layout.info
  /\ UNCHANGED <<Others, output, frames>>

(* OnScanFrame, for the UDP target: StreamTo queues a copy.                *)
StreamTo ==
  /\ At("out", "tcp")
  /\ IF cfg.udp /\ cfg.format.F = "B"
     THEN queue' = Append(queue, Packet("udp")) /\ output' = output \cup {Packet("udp")}
     ELSE UNCHANGED <<queue, output>>
  /\ UNCHANGED <<fixed, shared, caller, sending, sent, seen, commands, frames, died>>

(* OnScanFrame, for the binary client.                                     *)
SendBuffer ==
  /\ At("tcp", "end")
  /\ output' = IF tcpClient /\ cfg.format.B = "B" THEN output \cup {Packet("tcp")} ELSE output
  /\ UNCHANGED <<Others, frames, died>>

EndFrame == At("end", "idle") /\ Quietly

ScanSteps ==
  \/ BeginFrame \/ Sample \/ Divide \/ Labview \/ OnLabviewFrame
  \/ LabviewSize("size64", 64, "size32") \/ LabviewSize("size32", 32, "size16")
  \/ LabviewSize("size16", 16, "binary")
  \/ Binary \/ PacketSize \/ StreamTo \/ SendBuffer \/ EndFrame

(* DataStreamThreadFn: a packet is taken, and then sent.                   *)
TakePacket ==
  /\ sending = <<>> /\ queue # <<>>
  /\ sending' = <<Head(queue)>>
  /\ queue' = Tail(queue)
  /\ UNCHANGED <<fixed, shared, caller, scanner, sent, died, seen, commands>>

SendPacketOfScan ==
  /\ sending # <<>>
  /\ sending' = <<>>
  /\ sent' = IF scanOn THEN sent + 1 ELSE sent
  /\ UNCHANGED <<fixed, shared, caller, scanner, queue, died, seen, commands>>

SendPacket ==
  /\ sending # <<>>
  /\ sending' = <<>>
  /\ sent' = sent + 1
  /\ UNCHANGED <<fixed, shared, caller, scanner, queue, died, seen, commands>>

FramesNext ==
  /\ ~died
  /\ \/ \E t \in Commands : Command(t)
     \/ ConfigureScanLayout \/ FinishStart \/ FinishRate
     \/ ScanSteps
     \/ TakePacket \/ SendPacket

FramesFairness ==
  /\ WF_framesVars(~died /\ (ConfigureScanLayout \/ FinishStart \/ FinishRate))
  /\ WF_framesVars(~died /\ ScanSteps)
  /\ WF_framesVars(~died /\ (TakePacket \/ SendPacket))

FramesSpec == FramesInit /\ [][FramesNext]_framesVars /\ FramesFairness

-----------------------------------------------------------------------------
(* Properties.                                                             *)

Channeled == {16, 32, 64}
PacketTypes ==
  {Undefined} \cup [kind : {"legacy", "labview", "own"}, channels : Channeled, raw : BOOLEAN]

(* Every variable stays in its domain; a packet of a type has a number of  *)
(* channels that a device has.                                             *)
FramesTypeOK ==
  /\ deviceId \in Devices /\ tcpClient \in BOOLEAN /\ scanOn \in BOOLEAN
  /\ died \in BOOLEAN /\ overlapped \in BOOLEAN /\ changed \in BOOLEAN
  /\ setting.avg \in 0..(Long - 1)
  /\ layout \in [labview : BOOLEAN, binary : BOOLEAN, raw : BOOLEAN, pad : BOOLEAN,
                 info : BOOLEAN, type : PacketTypes, physical : Channeled, count : Channeled]
  /\ frame.type \in PacketTypes /\ frame.copied \in {0} \cup Channeled
  /\ commands \in 0..MaxCommands /\ frames \in 0..MaxFrames
  /\ Len(sending) <= 1 /\ sent + Len(sending) + Len(queue) <= MaxFrames - frames

(* What the documentation promises of a scan with the configuration c: the *)
(* UDP target gets binary packets if that is what it is set to, the binary *)
(* client the packets of the format B, padded to 64 channels in legacy     *)
(* packets under SIM 0x40 and otherwise of the device's type, raw or not.  *)
(* An unknown device has no packets of its own.                            *)
Promised(c) ==
  LET pad == (c.sim \div PadBit) % 2 = 1
      known == pad \/ deviceId # Unknown
      n == IF pad \/ deviceId = Unknown THEN 64 ELSE deviceId
      binary == Type(IF pad THEN "legacy" ELSE "own", n, c.units = "RAW")
      labview == Type("labview", n, FALSE)
      deliveries == [to : {"udp", "tcp"}, type : {binary, labview}, copied : {n}]
  IN {d \in deliveries :
        IF d.to = "udp" THEN d.type = binary /\ known /\ c.udp /\ c.format.F = "B"
        ELSE /\ tcpClient
             /\ \/ d.type = binary /\ known /\ c.format.B = "B"
                \/ d.type = labview /\ c.format.B = "L"}

(* A frame is delivered as the documentation promises for the settings     *)
(* with which the scan was started, unless another command has come since. *)
(* The layout, the packet and the callbacks each look at a part of them.   *)
FramesAsPromised ==
  frame.at = "end" /\ ~overlapped /\ setting.cfg = wanted.cfg /\ ~changed =>
    output = Promised(wanted.cfg)

(* A packet is filled to its end and no further, also when SET SIM, UNITS  *)
(* or FORMAT change the configuration during the scan: only StartScan      *)
(* changes the layout.  Only a StartScan that meets a late frame of the    *)
(* scan before tears it.                                                   *)
PacketsAreWhole ==
  ~overlapped => \A p \in output : p.copied = p.type.channels

(* The sum of the samples is divided by their number, unless SET RATE or   *)
(* StartScan changes the number in the course of the frame.                *)
AveragesAreAverages ==
  frame.divisor # 0 /\ ~overlapped /\ ~changed => frame.divisor = frame.samples

(* Nothing is divided by zero and no null m_PacketInfo is used, unless the *)
(* rate is one of which UpdateScanAverages makes no number of averages, or *)
(* SET RATE has replaced it and the averages not yet, or StartScan meets a *)
(* late frame.                                                             *)
DiesOnlyOfBadRate == died => overlapped \/ BadRate(setting.cfg.rate) \/ caller = "rate"

(* A packet that was queued is sent, whatever becomes of the scan.         *)
QueuedIsSent ==
  \A k \in 1..MaxFrames :
    sent + Len(sending) + Len(queue) >= k ~> sent >= k \/ died
=============================================================================
