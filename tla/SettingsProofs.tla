--------------------------- MODULE SettingsProofs ---------------------------
(***************************************************************************)
(* What ParseCommands (module Settings) keeps true of the configuration,   *)
(* whatever the tokens of the command: its fields, and the averages of a   *)
(* scan in step with the rate.  The proofs about Frames rest on it.        *)
(***************************************************************************)
EXTENDS Settings, TLAPS

(* The configuration has its fields, with a rate that is a float and a     *)
(* number of averages that fits in its width.                              *)
Fielded(s) ==
  /\ DOMAIN s = {"cfg", "avg", "erange"}
  /\ DOMAIN s.cfg = DOMAIN DefaultConfig
  /\ s.cfg.rate \in Rates
  /\ s.avg \in 0..(Long - 1)

(* The number of averages is zero only for a rate of which                 *)
(* UpdateScanAverages makes no number.                                     *)
Shaped(s) == Fielded(s) /\ (s.avg = 0 => BadRate(s.cfg.rate))

(* A setting that leaves the rate and the averages as they were.           *)
SameRate(s, o) ==
  /\ DOMAIN o = DOMAIN s /\ DOMAIN o.cfg = DOMAIN s.cfg
  /\ o.cfg.rate = s.cfg.rate /\ o.avg = s.avg

LEMMA SameRateShaped ==
  ASSUME NEW s, NEW o, Shaped(s), SameRate(s, o)
  PROVE  Shaped(o)
  BY DEF Shaped, Fielded, SameRate

LEMMA DefaultFields ==
  DOMAIN DefaultConfig =
    {"format", "rate", "fps", "units", "udp", "ip", "port", "ftp", "sim"}
  BY DEF DefaultConfig

(* A frame has at least one sample.                                        *)
LEMMA CeilingBounds ==
  ASSUME NEW rate \in Int, rate > 0, rate < FullRate
  PROVE  Ceiling(rate) \in Nat \ {0}
<1>1. FullRate \in Nat \ {0}
  BY SettingsBounds
<1>. DEFINE q == (FullRate + rate - 1) \div rate
           r == (FullRate + rate - 1) % rate
<1>2. q \in Int /\ r \in 0..(rate - 1) /\ FullRate + rate - 1 = q * rate + r
  BY <1>1
<1>3. q >= 1
  <2>1. SUFFICES ASSUME q <= 0 PROVE FALSE BY <1>2
  <2>2. q * rate <= 0
    BY <1>2, <2>1
  <2>. QED BY <1>1, <1>2, <2>2
<1>. QED BY <1>2, <1>3 DEF Ceiling

(* The averages fit in their width, and are zero for no rate but one that  *)
(* makes the conversion undefined.                                         *)
LEMMA AveragesBounds ==
  ASSUME NEW rate \in Rates, NEW a \in UpdateScanAverages(rate)
  PROVE  /\ a \in 0..(Long - 1)
         /\ a = 0 => BadRate(rate)
<1>0. Long \in Nat /\ Long > 1 /\ FullRate \in Nat
  BY SettingsBounds
<1>1. CASE rate # NaN /\ rate >= FullRate
  BY <1>0, <1>1 DEF UpdateScanAverages
<1>2. CASE ~(rate # NaN /\ rate >= FullRate) /\ BadRate(rate)
  BY <1>0, <1>2 DEF UpdateScanAverages
<1>3. CASE ~(rate # NaN /\ rate >= FullRate) /\ ~BadRate(rate)
  <2>1. rate \in Int /\ rate > 0 /\ rate < FullRate /\ ~(Ceiling(rate) >= Long)
    BY <1>0, <1>3 DEF Rates, BadRate
  <2>2. a = Ceiling(rate)
    BY <1>3 DEF UpdateScanAverages
  <2>. QED BY <1>0, <2>1, <2>2, CeilingBounds
<1>. QED BY <1>1, <1>2, <1>3

-----------------------------------------------------------------------------
(* The settings, one by one.                                               *)

(* The tokens, as the provers can handle them: they do not know of any     *)
(* word that it is in STRING, so the words that the code names are listed. *)
Named ==
  {"", "\r", "\n", "BS", "ESC", "local", "factor", "SET", "RATE", "FPS", "UNITS",
   "FORMAT", "TRIG", "ENFTP", "ENUDP", "IPUDP", "SIM", "ECHO", "XITE", "ETOL",
   "T", "F", "B", "A", "C", "L", "NAN"}
TokenSet == AnyToken \cup [word : Named, tail : BOOLEAN]

LEMMA TokenNumber ==
  ASSUME NEW t \in TokenSet, IsNumber(t)
  PROVE  t.number \in Int /\ t.part \in Int
  BY DEF TokenSet, AnyToken, IsNumber

LEMMA AnyTokens == Seq(AnyToken) \subseteq Seq(TokenSet)
  BY DEF TokenSet

LEMMA ScannedRates ==
  ASSUME NEW t \in TokenSet, NEW old \in Rates
  PROVE  ScannedRate(t, old) \in Rates
<1>1. Grain \in Int
  BY SettingsBounds
<1>2. CASE IsNumber(t)
  BY <1>1, <1>2, TokenNumber DEF ScannedRate, Rates
<1>. QED BY <1>2 DEF ScannedRate, Rates

LEMMA SetRateShaped ==
  ASSUME NEW s, Shaped(s), NEW t \in Seq(TokenSet), Len(t) >= 3,
         NEW o \in SetRate(s, t)
  PROVE  Shaped(o.state)
<1>. DEFINE r == ScannedRate(t[3], s.cfg.rate)
<1>1. r \in Rates
  BY ScannedRates DEF Shaped, Fielded
<1>2. PICK a \in UpdateScanAverages(r) :
        o = Outcome([s EXCEPT !.cfg.rate = r, !.avg = a], "echo")
  BY DEF SetRate
<1>. DEFINE n == [s EXCEPT !.cfg.rate = r, !.avg = a]
<1>3. o.state = n
  BY <1>2 DEF Outcome
<1>4. DOMAIN n = DOMAIN s /\ n.avg = a /\ n.cfg = [s.cfg EXCEPT !.rate = r]
  BY DEF Shaped, Fielded
<1>5. DOMAIN n.cfg = DOMAIN s.cfg /\ n.cfg.rate = r
  BY <1>4, DefaultFields DEF Shaped, Fielded
<1>6. a \in 0..(Long - 1) /\ (a = 0 => BadRate(r))
  BY <1>1, <1>2, AveragesBounds
<1>. HIDE DEF r, n
<1>. QED BY <1>1, <1>3, <1>4, <1>5, <1>6 DEF Shaped, Fielded

(* The other settings change neither the rate nor the averages.            *)
LEMMA SetFpsShaped ==
  ASSUME NEW s, Shaped(s), NEW t, NEW o \in SetFps(s, t)
  PROVE  SameRate(s, o.state)
<1>1. PICK x : o.state = [s EXCEPT !.cfg.fps = x]
  BY DEF SetFps, Outcome
<1>2. o.state.cfg = [s.cfg EXCEPT !.fps = x] /\ o.state.avg = s.avg
  BY <1>1 DEF Shaped, Fielded
<1>. QED BY <1>1, <1>2, DefaultFields DEF SameRate, Shaped, Fielded

LEMMA SetEnUdpShaped ==
  ASSUME NEW s, Shaped(s), NEW t, NEW o \in SetEnUdp(s, t)
  PROVE  SameRate(s, o.state)
<1>1. PICK x \in Flags(t[3]) : o.state = [s EXCEPT !.cfg.udp = x]
  BY DEF SetEnUdp, Outcome
<1>2. o.state.cfg = [s.cfg EXCEPT !.udp = x] /\ o.state.avg = s.avg
  BY <1>1 DEF Shaped, Fielded
<1>. QED BY <1>1, <1>2, DefaultFields DEF SameRate, Shaped, Fielded

LEMMA SetEnFtpShaped ==
  ASSUME NEW s, Shaped(s), NEW t, NEW o \in SetEnFtp(s, t)
  PROVE  SameRate(s, o.state)
<1>1. PICK x \in Flags(t[3]) : o.state = [s EXCEPT !.cfg.ftp = x]
  BY DEF SetEnFtp, Outcome
<1>2. o.state.cfg = [s.cfg EXCEPT !.ftp = x] /\ o.state.avg = s.avg
  BY <1>1 DEF Shaped, Fielded
<1>. QED BY <1>1, <1>2, DefaultFields DEF SameRate, Shaped, Fielded

LEMMA SetFormatShaped ==
  ASSUME NEW s, Shaped(s), NEW t, NEW o \in SetFormat(s, t)
  PROVE  SameRate(s, o.state)
<1>1. PICK x : o.state = [s EXCEPT !.cfg.format = x]
  BY DEF SetFormat, Outcome
<1>2. o.state.cfg = [s.cfg EXCEPT !.format = x] /\ o.state.avg = s.avg
  BY <1>1 DEF Shaped, Fielded
<1>. QED BY <1>1, <1>2, DefaultFields DEF SameRate, Shaped, Fielded

LEMMA SetIpUdpShaped ==
  ASSUME NEW s, Shaped(s), NEW t, NEW o \in SetIpUdp(s, t)
  PROVE  SameRate(s, o.state)
<1>. DEFINE x == t[3]
           y == Scanned(t[4], s.cfg.port) % Short
<1>1. o.state = [s EXCEPT !.cfg.ip = x, !.cfg.port = y]
  BY DEF SetIpUdp, Outcome
<1>. HIDE DEF x, y
<1>2. /\ o.state.cfg = [s.cfg EXCEPT !.ip = x, !.port = y]
      /\ o.state.avg = s.avg
  BY <1>1 DEF Shaped, Fielded
<1>. QED BY <1>1, <1>2, DefaultFields DEF SameRate, Shaped, Fielded

LEMMA RefusedSame ==
  ASSUME NEW s, NEW o \in Refused(s)
  PROVE  o.state = s
  BY DEF Refused, Outcome

LEMMA SetUnitsShaped ==
  ASSUME NEW s, Shaped(s), NEW t, NEW o \in SetUnits(s, t)
  PROVE  SameRate(s, o.state)
<1>1. CASE o \in Refused(s)
  BY <1>1, RefusedSame DEF SameRate
<1>2. CASE o \notin Refused(s)
  <2>. DEFINE x == t[3].word
  <2>1. o.state = [s EXCEPT !.cfg.units = x]
    BY <1>2 DEF SetUnits, Outcome
  <2>. HIDE DEF x
  <2>2. o.state.cfg = [s.cfg EXCEPT !.units = x] /\ o.state.avg = s.avg
    BY <2>1 DEF Shaped, Fielded
  <2>. QED BY <2>1, <2>2, DefaultFields DEF SameRate, Shaped, Fielded
<1>. QED BY <1>1, <1>2

LEMMA SetSimShaped ==
  ASSUME NEW s, Shaped(s), NEW t, NEW o \in SetSim(s, t)
  PROVE  SameRate(s, o.state)
<1>. DEFINE n == t[3].number
           erange == s.erange \/ n >= Long \/ n <= -Long
<1>1. CASE o \in Refused(s)
  BY <1>1, RefusedSame DEF SameRate
<1>2. CASE o \in Refused([s EXCEPT !.erange = erange])
  <2>1. o.state = [s EXCEPT !.erange = erange]
    BY <1>2, RefusedSame
  <2>. QED BY <2>1 DEF SameRate, Shaped, Fielded
<1>3. CASE o.state = [s EXCEPT !.cfg.sim = n % Long]
  <2>. DEFINE x == n % Long
  <2>1. o.state = [s EXCEPT !.cfg.sim = x]
    BY <1>3
  <2>. HIDE DEF x
  <2>2. o.state.cfg = [s.cfg EXCEPT !.sim = x] /\ o.state.avg = s.avg
    BY <2>1 DEF Shaped, Fielded
  <2>. QED BY <2>1, <2>2, DefaultFields DEF SameRate, Shaped, Fielded
<1>. QED BY <1>1, <1>2, <1>3 DEF SetSim, Outcome

-----------------------------------------------------------------------------
(* The commands.                                                           *)

LEMMA SetCommandShaped ==
  ASSUME NEW s, Shaped(s), NEW t \in Seq(TokenSet), NEW o \in SetCommand(s, t)
  PROVE  Shaped(o.state)
<1>3. DOMAIN Settings =
        {"RATE", "FPS", "ENUDP", "ENFTP", "IPUDP", "FORMAT", "UNITS", "SIM"}
  BY DEF Settings
<1>1. CASE o \in Refused(s)
  BY <1>1, RefusedSame
<1>2. CASE o \notin Refused(s)
  <2>0. t[2] \in {Word(w) : w \in DOMAIN Settings}
    BY <1>2 DEF SetCommand
  <2>1. PICK w \in DOMAIN Settings : t[2] = Word(w)
    BY <2>0
  <2>2. t[2].word = w
    BY <2>1 DEF Word
  <2>3. o \in CASE w = "RATE" -> SetRate(s, t)
                [] w = "FPS" -> SetFps(s, t)
                [] w = "ENUDP" -> SetEnUdp(s, t)
                [] w = "ENFTP" -> SetEnFtp(s, t)
                [] w = "IPUDP" -> SetIpUdp(s, t)
                [] w = "FORMAT" -> SetFormat(s, t)
                [] w = "UNITS" -> SetUnits(s, t)
                [] w = "SIM" -> SetSim(s, t)
    BY <1>2, <2>1, <2>2 DEF SetCommand
  <2>4. CASE w = "RATE"
    <3>1. Len(t) >= 3
      <4>1. ~(Len(t) < Settings[w])
        BY <1>2, <2>0, <2>2 DEF SetCommand
      <4>. QED BY <2>4, <4>1 DEF Settings
    <3>. QED BY <2>3, <2>4, <3>1, SetRateShaped
  <2>5. CASE w # "RATE"
    <3>1. SameRate(s, o.state)
      BY <1>3, <2>1, <2>3, <2>5, SetFpsShaped, SetEnUdpShaped, SetEnFtpShaped,
         SetIpUdpShaped, SetFormatShaped, SetUnitsShaped, SetSimShaped
    <3>. QED BY <3>1, SameRateShaped
  <2>. QED BY <2>4, <2>5
<1>. QED BY <1>1, <1>2

(* No command but SET RATE changes the rate.                               *)
LEMMA OtherRates ==
  ASSUME NEW s, Shaped(s), NEW t \in Seq(TokenSet), NEW o \in ParseCommands(s, t),
         ~(t[1] = Word("SET") /\ Len(t) > 2 /\ t[2] = Word("RATE"))
  PROVE  o.state.cfg.rate = s.cfg.rate
<1>1. CASE t[1] = Word("SET") /\ o \notin Refused(s)
  <2>1. o \in SetCommand(s, t)
    BY <1>1 DEF ParseCommands
  <2>2. PICK w \in DOMAIN Settings : t[2] = Word(w)
    BY <1>1, <2>1 DEF SetCommand
  <2>3. t[2].word = w /\ t[2] \in {Word(v) : v \in DOMAIN Settings}
    <3>1. t[2].word = w
      BY <2>2 DEF Word
    <3>. QED BY <2>2, <3>1
  <2>4. w # "RATE"
    <3>1. SUFFICES ASSUME w = "RATE" PROVE FALSE
      OBVIOUS
    <3>2. ~(Len(t) < Settings[t[2].word]) /\ Settings[t[2].word] = 3
      BY <1>1, <2>1, <2>3, <3>1 DEF SetCommand, Settings
    <3>. QED BY <1>1, <2>2, <3>1, <3>2
  <2>5. o \in CASE w = "RATE" -> SetRate(s, t)
                [] w = "FPS" -> SetFps(s, t)
                [] w = "ENUDP" -> SetEnUdp(s, t)
                [] w = "ENFTP" -> SetEnFtp(s, t)
                [] w = "IPUDP" -> SetIpUdp(s, t)
                [] w = "FORMAT" -> SetFormat(s, t)
                [] w = "UNITS" -> SetUnits(s, t)
                [] w = "SIM" -> SetSim(s, t)
    BY <1>1, <2>1, <2>2, <2>3 DEF SetCommand
  <2>6. DOMAIN Settings =
          {"RATE", "FPS", "ENUDP", "ENFTP", "IPUDP", "FORMAT", "UNITS", "SIM"}
    BY DEF Settings
  <2>7. SameRate(s, o.state)
    BY <2>2, <2>4, <2>5, <2>6, SetFpsShaped, SetEnUdpShaped, SetEnFtpShaped,
       SetIpUdpShaped, SetFormatShaped, SetUnitsShaped, SetSimShaped
  <2>. QED BY <2>7 DEF SameRate
<1>2. CASE t[1] = Word("SET") /\ o \in Refused(s)
  BY <1>2, RefusedSame
<1>3. CASE t[1] # Word("SET")
  <2>1. o.state = s
    BY <1>3, RefusedSame DEF ParseCommands, Outcome
  <2>. QED BY <2>1
<1>. QED BY <1>1, <1>2, <1>3

LEMMA ParseCommandsShaped ==
  ASSUME NEW s, Shaped(s), NEW t \in Seq(TokenSet), NEW o \in ParseCommands(s, t)
  PROVE  Shaped(o.state)
<1>1. CASE t[1] = Word("SET")
  BY <1>1, SetCommandShaped DEF ParseCommands
<1>2. CASE t[1] # Word("SET")
  <2>1. o.state = s
    BY <1>2, RefusedSame DEF ParseCommands, Outcome
  <2>. QED BY <2>1
<1>. QED BY <1>1, <1>2

=============================================================================
