------------------------------ MODULE Session ------------------------------
(***************************************************************************)
(* The command line of the client in control: how OnDataReceived and       *)
(* OnCommand make commands of what recv returns, and what the commands do  *)
(* to the configuration of an idle device.                                 *)
(*                                                                         *)
(* A segment is what one recv returns.  A segment of one key comes from a  *)
(* terminal and is collected in m_Cmds; any other replaces what was        *)
(* collected and is executed.  One thread serves the client, so that       *)
(* errno is that of one thread.  The permission check is in Server, what   *)
(* SHUTDOWN and RESTART do in Lifecycle and a running scan in Frames.      *)
(***************************************************************************)
EXTENDS Settings

CONSTANTS
  Keys,         (* what a terminal sends key by key                        *)
  Segments,     (* segments of more than one key that clients send         *)
  Budgets       (* bounds on the keys and the other segments that are sent *)

ASSUME SessionBounds ==
  /\ \A b \in Budgets : b.keys \in Nat /\ b.segments \in Nat
  /\ \A s \in Segments : Len(s) > 1

(* Clients send tokens, and the device knows the unit of OnAttach.         *)
ASSUME SessionInputs ==
  /\ Keys \subseteq AnyToken /\ Segments \subseteq Seq(AnyToken)
  /\ DefaultConfig.units \in UnitNames /\ UnitNames \subseteq STRING \ {""}

VARIABLES
  partial,      (* m_Cmds of the client                                    *)
  state,        (* configuration, averages and errno, as in Settings       *)
  reply,        (* the kind of the last reply                              *)
  ran,          (* the command executed with the last segment, if any      *)
  typed,        (* history: the line as its user sees it                   *)
  due,          (* history: the command that the segment should execute    *)
  aligned,      (* history: the line as seen is the one collected          *)
  left          (* keys and segments that may still be sent                *)

history == <<typed, due, aligned, left>>
sessionVars == <<partial, state, reply, ran, history>>

SessionStart ==
  /\ partial = <<>> /\ typed = <<>>
  /\ ran = <<>> /\ due = <<>>
  /\ state = [cfg |-> DefaultConfig, avg |-> 1, erange |-> FALSE]
  /\ reply = "none"
  /\ aligned = TRUE

SessionInit == SessionStart /\ left \in Budgets

Applications == {Word("SHUTDOWN"), Word("RESTART"), Word("REBOOT")}

(* OnCommand from the split of the line on: the first piece is executed,   *)
(* the others are dropped.                                                 *)
ExecuteLine(line) ==
  LET first == SplitString(line, {CR, LF})[1]
  IN /\ partial' = <<>>
     /\ ran' = first
     /\ IF first = <<>> \/ first \in {<<w>> : w \in Applications}
        THEN reply' = "text" /\ UNCHANGED state
        ELSE \E o \in ParseCommands(state, Tokens(first)) :
               state' = o.state /\ reply' = o.reply

(* A key that only edits the line.                                         *)
EditLine(line) ==
  /\ partial' = line
  /\ ran' = <<>>
  /\ reply' = "none"
  /\ UNCHANGED state

OnKey(k) ==
  IF k = CR THEN ExecuteLine(partial)
  ELSE IF k = BS THEN EditLine(IF partial = <<>> THEN <<>> ELSE Front(partial))
  ELSE IF k = ESC THEN ExecuteLine(<<ESC>>)
  ELSE EditLine(Append(partial, k))

OnSegment(s) == ExecuteLine(s)

(* What the user means: CR ends a line, BS takes back a key, and ESC drops *)
(* the line and stops the scan.  LF means nothing behind a CR; inside a    *)
(* line it cuts the line, which is nothing that a user could mean.         *)
Meant(k) ==
  CASE k = CR -> typed [] k = ESC -> <<ESC>> [] OTHER -> <<>>

LineSeen(k) ==
  CASE k \in {CR, ESC} -> <<>>
    [] k = BS /\ typed # <<>> -> Front(typed)
    [] k = LF \/ (k = BS /\ typed = <<>>) -> typed
    [] OTHER -> Append(typed, k)

Key(k) ==
  /\ left.keys > 0
  /\ OnKey(k)
  /\ typed' = LineSeen(k)
  /\ due' = IF aligned THEN Meant(k) ELSE ran'
  /\ aligned' = (partial' = <<>> \/ (aligned /\ (k = LF => typed = <<>>)))
  /\ left' = [left EXCEPT !.keys = @ - 1]

(* A segment is one line if nothing but its end is CR or LF.               *)
OneLine(s) == Len(s) > 2 /\ SubSeq(s, Len(s) - 1, Len(s)) = <<CR, LF>>
              /\ \A i \in 1..(Len(s) - 2) : s[i] \notin {CR, LF, BS, ESC}

Segment(s) ==
  /\ left.segments > 0
  /\ OnSegment(s)
  /\ typed' = <<>>
  /\ due' = IF OneLine(s) THEN SubSeq(s, 1, Len(s) - 2) ELSE ran'
  /\ aligned' = TRUE
  /\ left' = [left EXCEPT !.segments = @ - 1]

SessionNext == (\E k \in Keys : Key(k)) \/ (\E s \in Segments : Segment(s))

SessionSpec == SessionInit /\ [][SessionNext]_sessionVars

-----------------------------------------------------------------------------
(* Properties.                                                             *)

(* Every variable stays in its domain: whatever is sent, every field of    *)
(* the configuration keeps to what its C++ type and the tables allow.      *)
SessionTypeOK ==
  /\ state.cfg.format \in [T : {"A", "F", "C"}, F : {"A", "B", "C"}, B : {"B", "L"}]
  /\ state.cfg.rate \in Rates /\ state.avg \in 0..(Long - 1)
  /\ state.cfg.fps \in 0..(Long - 1)
  /\ state.cfg.port \in 0..(Short - 1) /\ state.cfg.sim \in 0..(Short - 1)
  /\ state.cfg.units \in UnitNames
  /\ state.cfg.udp \in BOOLEAN /\ state.cfg.ftp \in BOOLEAN
  /\ state.erange \in BOOLEAN /\ aligned \in BOOLEAN
  /\ reply \in {"none", "text", "echo", "later", "refused"}
  /\ left.keys \in Nat /\ left.segments \in Nat

(* A line that is typed and edited key by key, and a line that comes in    *)
(* one segment, is executed once and as the user sees it, in any order of  *)
(* the two and with CR or CR LF at the end of the line.  A segment that    *)
(* comes before a typed line has ended drops that line.                    *)
EachLineOnce == ran = due

(* The lines of LIST are commands: a device that is sent what LIST S, LIST *)
(* UDP and LIST M print is configured like the one that printed them, but  *)
(* for a rate of more digits than are printed, and prints them itself.     *)
Lines(cfg) == ListS(cfg) \o ListUdp(cfg) \o ListM(cfg)
Fresh == [cfg |-> DefaultConfig, avg |-> 1, erange |-> FALSE]
Replay(s, t) == (CHOOSE o \in ParseCommands(s, t) : TRUE).state
Replayed(lines) ==
  LET after[i \in 0..Len(lines)] ==
        IF i = 0 THEN Fresh ELSE Replay(after[i - 1], lines[i])
  IN after[Len(lines)].cfg
ListReplays ==
  LET new == Replayed(Lines(state.cfg))
  IN /\ [new EXCEPT !.rate = state.cfg.rate] = state.cfg
     /\ state.cfg.rate \in Printable \cup {NaN} => new = state.cfg
     /\ Lines(new) = Lines(state.cfg)

(* A refused command changes no setting but FORMAT, and of the formats     *)
(* only those that it asks for with a letter that is allowed there.        *)
RefusalChangesLittle ==
  [][reply' = "refused" =>
       LET t == Tokens(ran')
           old == state.cfg.format
           new == state'.cfg.format
       IN /\ state'.avg = state.avg
          /\ state'.cfg = [state.cfg EXCEPT !.format = new]
          /\ \A f \in DOMAIN old :
               new[f] # old[f] =>
                 \E i \in 3..(Len(t) - 1) : Letter(t[i]) = f /\ Letter(t[i + 1]) = new[f]]_sessionVars
=============================================================================
