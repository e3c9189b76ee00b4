------------------------------ MODULE Settings ------------------------------
(***************************************************************************)
(* The commands of the device and its configuration: SplitString and       *)
(* Mps::ParseCommands as operators, for Session, where clients send        *)
(* commands, and Frames, where a scan runs while they do.                  *)
(*                                                                         *)
(* A token is a word or a number, with or without other text behind it;    *)
(* integers keep the width of the C++ types, scaled.  A rate is a float: a *)
(* number of parts of a Hz, or NaN; infinity is a rate like any above 500  *)
(* Hz.  A word in upper and in lower case is one word, except for ENFTP,   *)
(* which the code knows in upper case only.  A word of one letter stands   *)
(* for every word that begins with it where the code looks at the first    *)
(* letter only.  Replies are reduced to their kind.                        *)
(***************************************************************************)
EXTENDS Integers, Sequences, SequencesExt

CONSTANTS
  UnitNames,   (* the names that mps_units_from_string knows               *)
  Short,       (* 2^16: what fits in a uint16_t is below                   *)
  Long,        (* 2^32, of int, uint32_t and the unsigned long of Windows  *)
  PadBit,      (* MPS_SIM_SIMULATED_64CH                                   *)
  Grain,       (* the parts of a Hz that rates are counted in              *)
  FullRate,    (* 500 Hz in parts: from there on a frame is one sample     *)
  OwnRate,     (* 10 Hz in parts, the rate of OnAttach                     *)
  NaN,         (* the float that is no number                              *)
  Printable    (* the rates of at most six significant digits              *)

ASSUME SettingsBounds ==
  /\ {Short, Long, PadBit, Grain, FullRate, OwnRate} \subseteq Nat \ {0}
  /\ PadBit < Short /\ Short < Long /\ OwnRate < FullRate
  /\ NaN \notin Int
  /\ Printable \subseteq Int /\ 0 \in Printable

Rates == Int \cup {NaN}

(* A number as %d reads it, and the parts behind its point.                *)
Word(w) == [word |-> w, tail |-> FALSE]
Decimal(n, k) == [number |-> n, part |-> k, tail |-> k # 0]
Number(n) == Decimal(n, 0)
Trailed(t) == [t EXCEPT !.tail = TRUE]
AnyToken ==
  [word : STRING, tail : BOOLEAN] \cup [number : Int, part : Int, tail : BOOLEAN]
IsNumber(t) == "number" \in DOMAIN t
LetterAlone(t) == IF IsNumber(t) \/ t.tail THEN "" ELSE t.word
Letter(t) == IF IsNumber(t) THEN "" ELSE t.word
Empty == Word("")

SP == Word(" ")
CR == Word("\r")
LF == Word("\n")
BS == Word("BS")
ESC == Word("ESC")

SplitStringKeepsEmpty(s, delimiters) ==
  LET Step(acc, x) ==
        IF x \notin delimiters THEN [acc EXCEPT !.piece = Append(@, x)]
        ELSE [pieces |-> Append(acc.pieces, acc.piece), piece |-> <<>>]
      end == FoldLeft(Step, [pieces |-> <<>>, piece |-> <<>>], s)
  IN Append(end.pieces, end.piece)

(* A place inside a piece, where the pieces start, and the piece from i on. *)
Inside(s, delimiters, i) == i \in DOMAIN s /\ s[i] \notin delimiters
Starts(s, delimiters) ==
  {i \in DOMAIN s : Inside(s, delimiters, i) /\ ~Inside(s, delimiters, i - 1)}
Piece(s, delimiters, i) ==
  LET last == CHOOSE j \in DOMAIN s :
                i <= j /\ ~Inside(s, delimiters, j + 1) /\
                \A m \in i..j : Inside(s, delimiters, m)
  IN SubSeq(s, i, last)

(* SplitString: the pieces of s between the delimiters that are not empty, *)
(* and the last piece even when it is.                                     *)
SplitString(s, delimiters) ==
  LET starts == Starts(s, delimiters)
      Start(k) == CHOOSE i \in starts : Cardinality({j \in starts : j <= i}) = k
      pieces == [k \in 1..Cardinality(starts) |-> Piece(s, delimiters, Start(k))]
  IN IF Inside(s, delimiters, Len(s)) THEN pieces ELSE Append(pieces, <<>>)

(* The tokens of a command, each one the first key of a piece.             *)
Tokens(cmd) ==
  LET Token(piece) == IF piece = <<>> THEN Empty
                      ELSE IF Len(piece) = 1 THEN piece[1] ELSE Trailed(piece[1])
      pieces == SplitString(cmd, {SP, CR, LF})
  IN [i \in DOMAIN pieces |-> Token(pieces[i])]

-----------------------------------------------------------------------------
(* The state that a command changes: m_cfg, m_nSubFrameAverages and the    *)
(* errno of the thread that parses it.                                     *)

DefaultConfig ==
  [format |-> [T |-> "A", F |-> "B", B |-> "B"], rate |-> OwnRate, fps |-> 0,
   units |-> "PA", udp |-> TRUE, ip |-> Word("local"), port |-> 23 % Short,
   ftp |-> FALSE, sim |-> PadBit]

UpdateScanAveragesDown(rate) ==
  IF rate # NaN /\ rate > 0 THEN {FullRate \div rate} ELSE {0, 1, Long - 1}

(* ceil(500 / rate), which a rate that is NaN, not positive or too small   *)
(* makes too large for uint32_t: the cast is then undefined, and may make  *)
(* zero, one or a large number.                                            *)
Ceiling(rate) == (FullRate + rate - 1) \div rate
BadRate(rate) == rate = NaN \/ rate <= 0 \/ Ceiling(rate) >= Long

UpdateScanAverages(rate) ==
  IF rate # NaN /\ rate >= FullRate THEN {1}
  ELSE IF BadRate(rate) THEN {0, 1, Long - 1}
  ELSE {Ceiling(rate)}

Allowed == [T |-> {"A", "F", "C"}, F |-> {"A", "B", "C"}, B |-> {"B", "L"}]

(* SetDataFormat: which formats a type may be set to.                      *)
SetDataFormat(type, fmt) == type \in DOMAIN Allowed /\ fmt \in Allowed[type]

(* SET FORMAT: pair after pair until one is refused.                       *)
SetFormats(format, t) ==
  LET n == (Len(t) - 2) \div 2
      Type(i) == Letter(t[2 * i + 1])
      Fmt(i) == Letter(t[2 * i + 2])
      done == {i \in 1..n : \A j \in 1..i : SetDataFormat(Type(j), Fmt(j))}
      Sets(f) == {i \in done : Type(i) = f}
  IN [format |-> [f \in DOMAIN format |->
                    IF Sets(f) = {} THEN format[f] ELSE Fmt(Max(Sets(f)))],
      ok |-> done = 1..n /\ Len(t) % 2 = 0]

Outcome(s, r) == [state |-> s, reply |-> r, op |-> "none"]
Refused(s) == {Outcome(s, "refused")}

(* sscanf leaves its target as it was where there is no number.            *)
Scanned(t, old) == IF IsNumber(t) THEN t.number ELSE old

(* %f also reads what is behind the point, and the word for NaN.           *)
ScannedRate(t, old) ==
  IF IsNumber(t) THEN t.number * Grain + t.part
  ELSE IF t.word = "NAN" THEN NaN ELSE old

SetRate(s, t) ==
  LET r == ScannedRate(t[3], s.cfg.rate)
  IN {Outcome([s EXCEPT !.cfg.rate = r, !.avg = a], "echo") : a \in UpdateScanAverages(r)}

SetFps(s, t) == {Outcome([s EXCEPT !.cfg.fps = Scanned(t[3], @) % Long], "echo")}

(* The local of ENUDP and ENFTP is not initialised.                        *)
Flags(t) == IF IsNumber(t) THEN {t.number % Long # 0} ELSE BOOLEAN
SetEnUdp(s, t) == {Outcome([s EXCEPT !.cfg.udp = b], "echo") : b \in Flags(t[3])}
SetEnFtp(s, t) == {Outcome([s EXCEPT !.cfg.ftp = b], "echo") : b \in Flags(t[3])}

SetIpUdp(s, t) ==
  {Outcome([s EXCEPT !.cfg.ip = t[3], !.cfg.port = Scanned(t[4], @) % Short], "echo")}

SetFormat(s, t) ==
  LET f == SetFormats(s.cfg.format, t)
  IN {Outcome([s EXCEPT !.cfg.format = f.format], IF f.ok THEN "echo" ELSE "refused")}

SetUnits(s, t) ==
  IF ~t[3].tail /\ Letter(t[3]) \in UnitNames
  THEN {Outcome([s EXCEPT !.cfg.units = t[3].word], "echo")} ELSE Refused(s)

SetSimUnchecked(s, t) ==
  IF ~IsNumber(t[3]) THEN Refused(s)
  ELSE {Outcome([s EXCEPT !.cfg.sim = t[3].number % Long], "echo")}
SetSimEarly(s, t) ==
  IF ~IsNumber(t[3]) THEN Refused(s)
  ELSE {Outcome([s EXCEPT !.cfg.sim = t[3].number % Short],
                IF t[3].tail \/ t[3].number % Long >= Short THEN "refused" ELSE "echo")}

(* strtoul sets errno on a range error, and nothing clears it.             *)
SetSim(s, t) ==
  IF ~IsNumber(t[3]) THEN Refused(s)
  ELSE LET n == t[3].number
           erange == s.erange \/ n >= Long \/ n <= -Long
       IN IF t[3].tail \/ erange \/ n % Long >= Short THEN Refused([s EXCEPT !.erange = erange])
          ELSE {Outcome([s EXCEPT !.cfg.sim = n % Long], "echo")}

(* How many tokens a setting needs; FORMAT takes pairs, or none.           *)
Settings ==
  [RATE |-> 3, FPS |-> 3, ENUDP |-> 3, ENFTP |-> 3, IPUDP |-> 4, FORMAT |-> 2,
   UNITS |-> 3, SIM |-> 3]

SetCommand(s, t) ==
  IF Len(t) < 2 \/ t[2] \notin {Word(w) : w \in DOMAIN Settings} THEN Refused(s)
  ELSE IF Len(t) < Settings[t[2].word] THEN Refused(s)
  ELSE CASE t[2].word = "RATE" -> SetRate(s, t)
         [] t[2].word = "FPS" -> SetFps(s, t)
         [] t[2].word = "ENUDP" -> SetEnUdp(s, t)
         [] t[2].word = "ENFTP" -> SetEnFtp(s, t)
         [] t[2].word = "IPUDP" -> SetIpUdp(s, t)
         [] t[2].word = "FORMAT" -> SetFormat(s, t)
         [] t[2].word = "UNITS" -> SetUnits(s, t)
         [] t[2].word = "SIM" -> SetSim(s, t)

(* What GET and LIST can be asked for.                                     *)
Queries == [GET |-> {"SN", "RATE", "UNITS", "FPS"}, LIST |-> {"S", "UDP", "M"}]

(* Commands on the device itself, with the Mps operation they call.        *)
Operations == [CALZ |-> "calz", SCAN |-> "scan", STOP |-> "stop", ESC |-> "stop"]

(* ParseCommands: the outcomes of a command, given its tokens.             *)
ParseCommands(s, t) ==
  IF t[1] = Word("SET") THEN SetCommand(s, t)
  ELSE IF t[1] \in {Word("VER"), Word("STATUS")} THEN {Outcome(s, "text")}
  ELSE IF t[1] \in {Word(w) : w \in DOMAIN Operations} \/ Letter(t[1]) = "ESC"
  THEN {[Outcome(s, "later") EXCEPT !.op = Operations[t[1].word]]}
  ELSE IF /\ Len(t) > 1
          /\ \E q \in DOMAIN Queries : t[1] = Word(q) /\ t[2] \in {Word(w) : w \in Queries[q]}
  THEN {Outcome(s, "text")}
  ELSE Refused(s)

-----------------------------------------------------------------------------
(* The replies to LIST, line by line as tokens.  BuildDataFormatResponse   *)
(* puts a comma behind its letters.                                        *)

Distance(a, b) == IF a < b THEN b - a ELSE a - b

(* A float is printed with six significant digits, rounded.                *)
Printed(rate) ==
  IF rate = NaN THEN NaN
  ELSE CHOOSE p \in Printable : \A q \in Printable : Distance(p, rate) <= Distance(q, rate)

RateToken(rate) ==
  IF rate = NaN THEN Word("NAN")
  ELSE LET n == IF rate < 0 THEN -((-rate) \div Grain) ELSE rate \div Grain
       IN Decimal(n, rate - n * Grain)

DataFormatResponse(f) ==
  <<Word("T"), Trailed(Word(f.T)), Word("F"), Trailed(Word(f.F)), Word("B"), Word(f.B)>>

Setting(w, args) == <<Word("SET"), Word(w)>> \o args
Flag(b) == Number(IF b THEN 1 ELSE 0)

ListS(cfg) ==
  <<Setting("RATE", <<RateToken(Printed(cfg.rate))>>),
    Setting("FPS", <<Number(cfg.fps)>>),
    Setting("UNITS", <<Word(cfg.units), Word("factor")>>),
    Setting("FORMAT", DataFormatResponse(cfg.format)),
    Setting("TRIG", <<Number(0), Empty>>),
    Setting("ENFTP", <<Flag(cfg.ftp), Empty>>)>>

ListUdp(cfg) ==
  <<Setting("ENUDP", <<Flag(cfg.udp)>>), Setting("IPUDP", <<cfg.ip, Number(cfg.port)>>)>>

ListM(cfg) ==
  <<Setting("SIM", <<Number(cfg.sim)>>), Setting("ECHO", <<Number(1)>>),
    Setting("XITE", <<Number(2)>>), Setting("ETOL", <<Number(0)>>)>>
=============================================================================
