---------------------------- MODULE SessionProofs ---------------------------
(***************************************************************************)
(* A command line is executed once and as its user sees it, a refusal      *)
(* changes little, and what LIST prints can be sent back: the properties   *)
(* of Session, for every sequence of keys and segments.                    *)
(*                                                                         *)
(* That m_Cmds holds the line as its user sees it (LineInv) is not quite   *)
(* so: the line feed of a CR LF stays in front of the next line, where     *)
(* OnCommand drops it as an empty piece, and BS may take it back.  The     *)
(* proof therefore needs what SplitString returns, for lines of any        *)
(* length: the pieces are counted by their starts, and the first one is    *)
(* what lies between the delimiters in front and the next delimiter.       *)
(***************************************************************************)
EXTENDS Session, SettingsProofs, FiniteSetTheorems, WellFoundedInduction, TLAPS

-----------------------------------------------------------------------------
(* SplitString, for lines of every length.                                 *)

(* Every set of naturals that is not empty has a least element.            *)
LEMMA LeastElement ==
  ASSUME NEW S \in SUBSET Nat, S # {}
  PROVE  \E m \in S : \A n \in S : m <= n
<1>1. PICK m \in S : \A n \in S : <<n, m>> \notin OpToRel(<, Nat)
  BY NatLessThanWellFounded, WFMin
<1>2. \A n \in S : ~(n < m)
  BY <1>1 DEF OpToRel
<1>. QED BY <1>2

(* The elements of S that are at most i.                                   *)
Upto(S, i) == {j \in S : j <= i}

(* The starts of the pieces are finitely many places of the sequence.      *)
LEMMA StartsFinite ==
  ASSUME NEW T, NEW s \in Seq(T), NEW D
  PROVE  /\ IsFiniteSet(Starts(s, D)) /\ Cardinality(Starts(s, D)) \in Nat
         /\ Starts(s, D) \subseteq 1..Len(s)
         /\ \A i \in Int : /\ IsFiniteSet(Upto(Starts(s, D), i))
                           /\ Cardinality(Upto(Starts(s, D), i)) \in Nat
<1>1. Starts(s, D) \subseteq 1..Len(s)
  BY DEF Starts
<1>2. IsFiniteSet(1..Len(s))
  BY FS_Interval
<1>3. IsFiniteSet(Starts(s, D))
  BY <1>1, <1>2, FS_Subset
<1>4. ASSUME NEW i \in Int PROVE IsFiniteSet(Upto(Starts(s, D), i))
  BY <1>3, FS_Subset DEF Upto
<1>. QED BY <1>1, <1>3, <1>4, FS_CardinalityType

(* Counting the starts up to a place reaches every number up to their      *)
(* cardinality, each at a start.                                           *)
LEMMA StartExists ==
  ASSUME NEW T, NEW s \in Seq(T), NEW D, NEW k \in 1..Cardinality(Starts(s, D))
  PROVE  \E i \in Starts(s, D) : Cardinality(Upto(Starts(s, D), i)) = k
<1>. DEFINE S == Starts(s, D)
            Count(i) == Cardinality(Upto(S, i))
            Reach == {i \in 0..Len(s) : Count(i) >= k}
<1>1. IsFiniteSet(S) /\ Cardinality(S) \in Nat /\ S \subseteq 1..Len(s)
      /\ \A i \in Int : IsFiniteSet(Upto(S, i)) /\ Count(i) \in Nat
  BY StartsFinite
<1>2. Upto(S, Len(s)) = S /\ Upto(S, 0) = {}
  BY <1>1 DEF Upto
<1>3. Len(s) \in Reach
  BY <1>1, <1>2
<1>4. PICK i \in Reach : \A n \in Reach : i <= n
  <2>1. Reach \in SUBSET Nat /\ Reach # {}
    BY <1>3
  <2>. HIDE DEF Reach
  <2>. QED BY <2>1, LeastElement
<1>5. Count(0) = 0
  BY <1>2, FS_EmptySet
<1>6. i # 0 /\ i - 1 \notin Reach /\ i - 1 \in 0..Len(s)
  BY <1>4, <1>5
<1>7. Count(i - 1) < k
  BY <1>1, <1>6
<1>8. i \in S
  <2>1. SUFFICES ASSUME i \notin S PROVE FALSE
    OBVIOUS
  <2>2. Upto(S, i) = Upto(S, i - 1)
    BY <1>1, <1>6, <2>1 DEF Upto
  <2>3. Count(i) = Count(i - 1) /\ Count(i) >= k
    BY <1>4, <2>2
  <2>4. Count(i - 1) \in Nat
    BY <1>1, <1>6
  <2>. HIDE DEF Count
  <2>. QED BY <1>7, <2>3, <2>4
<1>9. Count(i) = Count(i - 1) + 1
  <2>1. Upto(S, i) = Upto(S, i - 1) \cup {i} /\ i \notin Upto(S, i - 1)
    BY <1>1, <1>8 DEF Upto
  <2>2. IsFiniteSet(Upto(S, i - 1))
    BY <1>1, <1>6
  <2>. QED BY <2>1, <2>2, FS_AddElement
<1>. QED BY <1>1, <1>4, <1>7, <1>8, <1>9

(* The last place of a piece is the only one with its three properties.    *)
LEMMA PieceIs ==
  ASSUME NEW T, NEW s \in Seq(T), NEW D, NEW a \in DOMAIN s, NEW b \in DOMAIN s, a <= b,
         \A m \in a..b : Inside(s, D, m), ~Inside(s, D, b + 1)
  PROVE  Piece(s, D, a) = SubSeq(s, a, b)
<1>. DEFINE Ends(j) == /\ a <= j /\ ~Inside(s, D, j + 1)
                       /\ \A m \in a..j : Inside(s, D, m)
<1>1. Ends(b)
  OBVIOUS
<1>2. ASSUME NEW j \in DOMAIN s, Ends(j) PROVE j = b
  <2>1. ~(j < b)
    BY <1>2
  <2>2. ~(b < j)
    BY <1>2
  <2>. QED BY <2>1, <2>2
<1>3. b = CHOOSE j \in DOMAIN s : Ends(j)
  BY <1>1, <1>2
<1>. QED BY <1>3 DEF Piece

(* A piece that has started ends.                                          *)
LEMMA PieceEnds ==
  ASSUME NEW T, NEW s \in Seq(T), NEW D, NEW a \in Starts(s, D)
  PROVE  \E b \in DOMAIN s : /\ a <= b /\ ~Inside(s, D, b + 1)
                             /\ \A m \in a..b : Inside(s, D, m)
<1>. DEFINE Stop == {b \in a..Len(s) : ~Inside(s, D, b + 1)}
<1>1. a \in 1..Len(s) /\ Inside(s, D, a)
  BY DEF Starts
<1>2. Len(s) \in Stop
  BY <1>1 DEF Inside
<1>3. PICK b \in Stop : \A n \in Stop : b <= n
  <2>1. Stop \in SUBSET Nat /\ Stop # {}
    BY <1>1, <1>2
  <2>. HIDE DEF Stop
  <2>. QED BY <2>1, LeastElement
<1>4. ASSUME NEW m \in a..b PROVE Inside(s, D, m)
  <2>1. CASE m = a
    BY <1>1, <2>1
  <2>2. CASE m # a
    <3>1. m - 1 \in a..Len(s) /\ m - 1 < b
      BY <1>1, <1>3, <1>4, <2>2
    <3>2. m - 1 \notin Stop
      BY <1>3, <3>1
    <3>. QED BY <3>1, <3>2
  <2>. QED BY <2>1, <2>2
<1>5. b \in DOMAIN s /\ a <= b /\ ~Inside(s, D, b + 1)
  BY <1>1, <1>3
<1>. QED BY <1>4, <1>5

(* A piece is made of what the line is made of.                            *)
LEMMA PieceTyped ==
  ASSUME NEW T, NEW s \in Seq(T), NEW D, NEW a \in Starts(s, D)
  PROVE  Piece(s, D, a) \in Seq(T)
<1>1. a \in DOMAIN s
  BY DEF Starts
<1>2. PICK b \in DOMAIN s : /\ a <= b /\ ~Inside(s, D, b + 1)
                            /\ \A m \in a..b : Inside(s, D, m)
  BY PieceEnds
<1>3. Piece(s, D, a) = SubSeq(s, a, b)
  BY <1>1, <1>2, PieceIs
<1>. QED BY <1>1, <1>2, <1>3

(* The start of the k-th piece.                                            *)
Start(s, D, k) == CHOOSE i \in Starts(s, D) : Cardinality(Upto(Starts(s, D), i)) = k

(* SplitString by its starts.                                              *)
LEMMA SplitIs ==
  ASSUME NEW T, NEW s \in Seq(T), NEW D
  PROVE  LET pieces == [k \in 1..Cardinality(Starts(s, D)) |-> Piece(s, D, Start(s, D, k))]
         IN  SplitString(s, D) = IF Inside(s, D, Len(s)) THEN pieces ELSE Append(pieces, <<>>)
  BY DEF SplitString, Start, Upto

(* The least start is the start of the first piece.                        *)
LEMMA FirstStart ==
  ASSUME NEW T, NEW s \in Seq(T), NEW D, NEW a \in Starts(s, D),
         \A i \in Starts(s, D) : a <= i
  PROVE  Cardinality(Starts(s, D)) >= 1 /\ Start(s, D, 1) = a
<1>. DEFINE S == Starts(s, D)
<1>1. S \subseteq 1..Len(s) /\ \A i \in Int : IsFiniteSet(Upto(S, i))
  BY StartsFinite
<1>2. Upto(S, a) = {a}
  BY <1>1 DEF Upto
<1>3. Cardinality(Upto(S, a)) = 1
  BY <1>2, FS_Singleton
<1>4. ASSUME NEW i \in S, Cardinality(Upto(S, i)) = 1 PROVE i = a
  <2>1. PICK x : Upto(S, i) = {x}
    <3>1. IsFiniteSet(Upto(S, i))
      BY <1>1
    <3>. QED BY <1>4, <3>1, FS_Singleton
  <2>2. i \in Upto(S, i) /\ a \in Upto(S, i)
    BY <1>1 DEF Upto
  <2>. QED BY <2>1, <2>2
<1>5. Cardinality(S) >= 1
  <2>1. IsFiniteSet(S) /\ {a} \subseteq S
    BY StartsFinite
  <2>. QED BY <2>1, <1>2, <1>3, FS_Subset, StartsFinite
<1>. QED BY <1>3, <1>4, <1>5 DEF Start

(* SplitString returns at least one piece, each made of what the line is   *)
(* made of.                                                                *)
LEMMA SplitTyped ==
  ASSUME NEW T, NEW s \in Seq(T), NEW D
  PROVE  SplitString(s, D) \in Seq(Seq(T)) \ {<<>>}
<1>. DEFINE n == Cardinality(Starts(s, D))
            pieces == [k \in 1..n |-> Piece(s, D, Start(s, D, k))]
<1>1. n \in Nat
  BY StartsFinite
<1>2. ASSUME NEW k \in 1..n PROVE Piece(s, D, Start(s, D, k)) \in Seq(T)
  <2>1. Start(s, D, k) \in Starts(s, D)
    BY StartExists DEF Start
  <2>. QED BY <2>1, PieceTyped
<1>3. pieces \in Seq(Seq(T)) /\ Len(pieces) = n
  BY <1>1, <1>2
<1>4. CASE Inside(s, D, Len(s))
  <2>. DEFINE Run == {a \in 1..Len(s) : \A m \in a..Len(s) : Inside(s, D, m)}
  <2>1. Len(s) \in Run
    BY <1>4 DEF Inside
  <2>2. PICK a \in Run : \A m \in Run : a <= m
    <3>1. Run \in SUBSET Nat /\ Run # {}
      BY <2>1
    <3>. HIDE DEF Run
    <3>. QED BY <3>1, LeastElement
  <2>3. a \in Starts(s, D)
    <3>1. a \in 1..Len(s) /\ Inside(s, D, a)
      OBVIOUS
    <3>2. ~Inside(s, D, a - 1)
      <4>1. SUFFICES ASSUME Inside(s, D, a - 1) PROVE FALSE
        OBVIOUS
      <4>2. a - 1 \in 1..Len(s)
        BY <3>1, <4>1 DEF Inside
      <4>3. a - 1 \in Run
        BY <4>1, <4>2
      <4>. QED BY <2>2, <4>3
    <3>. QED BY <3>1, <3>2 DEF Starts
  <2>4. n # 0
    <3>1. IsFiniteSet(Starts(s, D))
      BY StartsFinite
    <3>. QED BY <2>3, <3>1, FS_EmptySet
  <2>5. SplitString(s, D) = pieces
    BY <1>4, SplitIs
  <2>. HIDE DEF pieces, n
  <2>. QED BY <1>1, <1>3, <2>4, <2>5
<1>5. CASE ~Inside(s, D, Len(s))
  <2>1. SplitString(s, D) = Append(pieces, <<>>)
    BY <1>5, SplitIs
  <2>2. <<>> \in Seq(T)
    OBVIOUS
  <2>. HIDE DEF pieces, n
  <2>. QED BY <1>1, <1>3, <2>1, <2>2
<1>. QED BY <1>4, <1>5

(* The first piece is what lies between the delimiters in front and the    *)
(* next one.                                                               *)
LEMMA FirstPiece ==
  ASSUME NEW T, NEW s \in Seq(T), NEW D, NEW a \in DOMAIN s, NEW b \in DOMAIN s, a <= b,
         \A m \in 1..(a - 1) : ~Inside(s, D, m),
         \A m \in a..b : Inside(s, D, m), ~Inside(s, D, b + 1)
  PROVE  SplitString(s, D)[1] = SubSeq(s, a, b)
<1>. DEFINE n == Cardinality(Starts(s, D))
            pieces == [k \in 1..n |-> Piece(s, D, Start(s, D, k))]
<1>1. a \in Starts(s, D)
  BY DEF Starts, Inside
<1>2. \A i \in Starts(s, D) : a <= i
  BY DEF Starts
<1>3. n >= 1 /\ n \in Nat /\ Start(s, D, 1) = a
  BY <1>1, <1>2, FirstStart, StartsFinite
<1>4. pieces[1] = SubSeq(s, a, b)
  BY <1>3, PieceIs
<1>5. Append(pieces, <<>>)[1] = pieces[1]
  <2>. DEFINE P == {Piece(s, D, Start(s, D, k)) : k \in 1..n}
  <2>1. pieces \in [1..n -> P]
    OBVIOUS
  <2>. HIDE DEF pieces, P, n
  <2>2. pieces \in Seq(P) /\ Len(pieces) = n
    BY <1>3, <2>1
  <2>. QED BY <1>3, <2>2
<1>. QED BY <1>4, <1>5, SplitIs

(* A line of nothing but delimiters is one empty piece.                    *)
LEMMA NoPiece ==
  ASSUME NEW T, NEW s \in Seq(T), NEW D, \A m \in DOMAIN s : ~Inside(s, D, m)
  PROVE  SplitString(s, D)[1] = <<>>
<1>1. Starts(s, D) = {}
  BY DEF Starts
<1>2. Cardinality(Starts(s, D)) = 0
  BY <1>1, FS_EmptySet
<1>3. ~Inside(s, D, Len(s))
  BY DEF Inside
<1>. QED BY <1>2, <1>3, SplitIs

-----------------------------------------------------------------------------
(* Every command keeps the settings in their domains, and a refusal        *)
(* changes little.                                                         *)

(* The domains of the configuration, the device and the replies.           *)
Formats == [T : {"A", "F", "C"}, F : {"A", "B", "C"}, B : {"B", "L"}]
ConfigType ==
  [format : Formats, rate : Rates, fps : 0..(Long - 1), units : UnitNames,
   udp : BOOLEAN, ip : TokenSet, port : 0..(Short - 1), ftp : BOOLEAN,
   sim : 0..(Short - 1)]
StateType == [cfg : ConfigType, avg : 0..(Long - 1), erange : BOOLEAN]
Replies == {"none", "text", "echo", "later", "refused"}

(* What a refusal leaves alone.                                            *)
Little(s, o, t) ==
  /\ o.state.avg = s.avg
  /\ o.state.cfg = [s.cfg EXCEPT !.format = o.state.cfg.format]
  /\ \A f \in DOMAIN s.cfg.format :
       o.state.cfg.format[f] # s.cfg.format[f] =>
         \E i \in 3..(Len(t) - 1) :
           Letter(t[i]) = f /\ Letter(t[i + 1]) = o.state.cfg.format[f]

(* What every outcome of every command is.                                 *)
Good(s, o, t) ==
  /\ o.state \in StateType /\ o.reply \in Replies
  /\ o.reply = "refused" => Little(s, o, t)

(* The last of the pairs that set a format exists.                         *)
LEMMA GreatestElement ==
  ASSUME NEW n \in Nat, NEW S \in SUBSET (1..n), S # {}
  PROVE  Max(S) \in S
<1>. DEFINE R == {n - i : i \in S}
<1>1. R \in SUBSET Nat /\ R # {}
  <2>1. \A i \in S : n - i \in Nat
    OBVIOUS
  <2>. QED BY <2>1
<1>. HIDE DEF R
<1>2. PICK m \in R : \A x \in R : m <= x
  BY <1>1, LeastElement
<1>3. PICK k \in S : m = n - k
  BY DEF R
<1>4. \A i \in S : k >= i
  <2>1. SUFFICES ASSUME NEW i \in S PROVE k >= i
    OBVIOUS
  <2>2. n - i \in R
    BY DEF R
  <2>. QED BY <1>2, <1>3, <2>2
<1>. QED BY <1>4 DEF Max

(* A cast to an unsigned type brings every integer into its range.         *)
LEMMA Remainder ==
  ASSUME NEW x \in Int, NEW n \in Nat \ {0}
  PROVE  x % n \in 0..(n - 1)
  OBVIOUS

(* Letter returns the word of a token, if anything.                        *)
LEMMA LetterWord ==
  ASSUME NEW t \in TokenSet, Letter(t) # ""
  PROVE  t.word = Letter(t)
  BY DEF Letter, IsNumber, TokenSet, AnyToken

(* sscanf leaves an integer.                                               *)
LEMMA ScannedInt ==
  ASSUME NEW t \in TokenSet, NEW old \in Int
  PROVE  Scanned(t, old) \in Int
  BY TokenNumber DEF Scanned

(* A refusal that changes nothing changes little.                          *)
LEMMA SameLittle ==
  ASSUME NEW s \in StateType, NEW o, NEW t, o.state = s
  PROVE  Little(s, o, t)
<1>1. s.cfg \in ConfigType
  BY DEF StateType
<1>2. s.cfg = [s.cfg EXCEPT !.format = s.cfg.format]
  BY <1>1 DEF ConfigType
<1>. QED BY <1>2 DEF Little

(* So does Refused.                                                        *)
LEMMA RefusedGood ==
  ASSUME NEW s \in StateType, NEW t, NEW o \in Refused(s)
  PROVE  Good(s, o, t)
  BY SameLittle DEF Refused, Outcome, Good, Replies

(* SET FORMAT: the formats stay in the table, and each one that changes is *)
(* asked for by a pair of tokens, whichever pair is refused.               *)
LEMMA FormatsSet ==
  ASSUME NEW f \in Formats, NEW t \in Seq(TokenSet), Len(t) >= 2
  PROVE  LET r == SetFormats(f, t)
         IN  /\ r.format \in Formats /\ r.ok \in BOOLEAN
             /\ \A k \in DOMAIN f : r.format[k] # f[k] =>
                  \E i \in 3..(Len(t) - 1) :
                    Letter(t[i]) = k /\ Letter(t[i + 1]) = r.format[k]
<1>. DEFINE n == (Len(t) - 2) \div 2
            Type(i) == Letter(t[2 * i + 1])
            Fmt(i) == Letter(t[2 * i + 2])
            done == {i \in 1..n : \A j \in 1..i : SetDataFormat(Type(j), Fmt(j))}
            Sets(k) == {i \in done : Type(i) = k}
            New(k) == IF Sets(k) = {} THEN f[k] ELSE Fmt(Max(Sets(k)))
            r == SetFormats(f, t)
<1>1. r.format = [k \in DOMAIN f |-> New(k)] /\ r.ok \in BOOLEAN
  BY DEF SetFormats
<1>2. n \in Nat /\ 2 * n + 2 <= Len(t)
  OBVIOUS
<1>3. DOMAIN f = {"T", "F", "B"}
  BY DEF Formats
<1>4. ASSUME NEW k \in DOMAIN f
      PROVE  \/ New(k) = f[k]
             \/ /\ New(k) \in Allowed[k]
                /\ \E i \in 3..(Len(t) - 1) : Letter(t[i]) = k /\ Letter(t[i + 1]) = New(k)
  <2>1. CASE Sets(k) = {}
    BY <2>1
  <2>2. CASE Sets(k) # {}
    <3>. DEFINE m == Max(Sets(k))
    <3>1. Sets(k) \in SUBSET (1..n)
      OBVIOUS
    <3>2. m \in Sets(k)
      <4>. HIDE DEF Sets, n
      <4>. QED BY <1>2, <2>2, <3>1, GreatestElement
    <3>3. m \in 1..n /\ SetDataFormat(Type(m), Fmt(m)) /\ Type(m) = k
      BY <3>2
    <3>. HIDE DEF m, n
    <3>4. 2 * m + 1 \in 3..(Len(t) - 1) /\ 2 * m + 2 = 2 * m + 1 + 1
      BY <1>2, <3>3
    <3>5. New(k) = Fmt(m)
      BY <2>2 DEF m
    <3>6. New(k) \in Allowed[k]
      BY <3>3, <3>5 DEF SetDataFormat
    <3>7. Letter(t[2 * m + 1]) = k /\ Letter(t[2 * m + 1 + 1]) = New(k)
      BY <3>3, <3>4, <3>5
    <3>. QED BY <3>4, <3>6, <3>7
  <2>. QED BY <2>1, <2>2
<1>. HIDE DEF New, r
<1>5. r.format \in Formats
  <2>1. New("T") \in {"A", "F", "C"} /\ New("F") \in {"A", "B", "C"} /\ New("B") \in {"B", "L"}
    BY <1>3, <1>4 DEF Formats, Allowed
  <2>. QED BY <1>1, <1>3, <2>1 DEF Formats
<1>6. \A k \in DOMAIN f : r.format[k] = New(k)
  BY <1>1
<1>7. ASSUME NEW k \in DOMAIN f, r.format[k] # f[k]
      PROVE  \E i \in 3..(Len(t) - 1) : Letter(t[i]) = k /\ Letter(t[i + 1]) = r.format[k]
  BY <1>4, <1>6, <1>7
<1>. QED BY <1>1, <1>5, <1>7 DEF r

(* Command by command: the outcome is typed, and a refusal changes little. *)
LEMMA SetRateGood ==
  ASSUME NEW s \in StateType, NEW t \in Seq(TokenSet), Len(t) >= 3, NEW o \in SetRate(s, t)
  PROVE  Good(s, o, t)
<1>. DEFINE r == ScannedRate(t[3], s.cfg.rate)
<1>1. r \in Rates
  <2>1. t[3] \in TokenSet /\ s.cfg.rate \in Rates
    BY DEF StateType, ConfigType
  <2>. QED BY <2>1, ScannedRates
<1>2. PICK a \in UpdateScanAverages(r) :
        o = Outcome([s EXCEPT !.cfg.rate = r, !.avg = a], "echo")
  BY DEF SetRate
<1>3. a \in 0..(Long - 1)
  BY <1>1, AveragesBounds
<1>. HIDE DEF r
<1>4. [s EXCEPT !.cfg.rate = r, !.avg = a] \in StateType
  BY <1>1, <1>3 DEF StateType, ConfigType
<1>. QED BY <1>2, <1>4 DEF Outcome, Good, Replies

LEMMA SetFpsGood ==
  ASSUME NEW s \in StateType, NEW t \in Seq(TokenSet), Len(t) >= 3, NEW o \in SetFps(s, t)
  PROVE  Good(s, o, t)
<1>. DEFINE x == Scanned(t[3], s.cfg.fps) % Long
<1>1. x \in 0..(Long - 1)
  <2>1. Scanned(t[3], s.cfg.fps) \in Int
    <3>1. t[3] \in TokenSet /\ s.cfg.fps \in Int
      BY SettingsBounds DEF StateType, ConfigType
    <3>. QED BY <3>1, ScannedInt
  <2>. QED BY <2>1, Remainder, SettingsBounds
<1>2. o = Outcome([s EXCEPT !.cfg.fps = x], "echo")
  BY DEF SetFps, StateType, ConfigType
<1>. HIDE DEF x
<1>3. [s EXCEPT !.cfg.fps = x] \in StateType
  BY <1>1 DEF StateType, ConfigType
<1>. QED BY <1>2, <1>3 DEF Outcome, Good, Replies

LEMMA FlagsBoolean ==
  ASSUME NEW t, NEW x \in Flags(t)
  PROVE  x \in BOOLEAN
  BY DEF Flags

LEMMA SetEnGood ==
  ASSUME NEW s \in StateType, NEW t, NEW o \in SetEnUdp(s, t) \cup SetEnFtp(s, t)
  PROVE  Good(s, o, t)
<1>1. PICK b \in Flags(t[3]) : \/ o = Outcome([s EXCEPT !.cfg.udp = b], "echo")
                               \/ o = Outcome([s EXCEPT !.cfg.ftp = b], "echo")
  BY DEF SetEnUdp, SetEnFtp
<1>2. b \in BOOLEAN
  BY FlagsBoolean
<1>3. [s EXCEPT !.cfg.udp = b] \in StateType /\ [s EXCEPT !.cfg.ftp = b] \in StateType
  BY <1>2 DEF StateType, ConfigType
<1>. QED BY <1>1, <1>3 DEF Outcome, Good, Replies

LEMMA SetIpUdpGood ==
  ASSUME NEW s \in StateType, NEW t \in Seq(TokenSet), Len(t) >= 4, NEW o \in SetIpUdp(s, t)
  PROVE  Good(s, o, t)
<1>. DEFINE x == t[3]
            y == Scanned(t[4], s.cfg.port) % Short
<1>1. x \in TokenSet /\ y \in 0..(Short - 1)
  <2>1. Scanned(t[4], s.cfg.port) \in Int
    <3>1. t[4] \in TokenSet /\ s.cfg.port \in Int
      BY SettingsBounds DEF StateType, ConfigType
    <3>. QED BY <3>1, ScannedInt
  <2>2. y \in 0..(Short - 1)
    BY <2>1, Remainder, SettingsBounds
  <2>. QED BY <2>2
<1>2. o = Outcome([s EXCEPT !.cfg.ip = x, !.cfg.port = y], "echo")
  BY DEF SetIpUdp, StateType, ConfigType
<1>. HIDE DEF x, y
<1>3. [s EXCEPT !.cfg.ip = x, !.cfg.port = y] \in StateType
  BY <1>1 DEF StateType, ConfigType
<1>. QED BY <1>2, <1>3 DEF Outcome, Good, Replies

LEMMA SetFormatGood ==
  ASSUME NEW s \in StateType, NEW t \in Seq(TokenSet), Len(t) >= 2, NEW o \in SetFormat(s, t)
  PROVE  Good(s, o, t)
<1>. DEFINE r == SetFormats(s.cfg.format, t)
            old == s.cfg.format
            new == r.format
<1>1. old \in Formats /\ s.cfg \in ConfigType
  BY DEF StateType, ConfigType
<1>2. /\ new \in Formats /\ r.ok \in BOOLEAN
      /\ \A k \in DOMAIN old : new[k] # old[k] =>
           \E i \in 3..(Len(t) - 1) : Letter(t[i]) = k /\ Letter(t[i + 1]) = new[k]
  BY <1>1, FormatsSet
<1>3. o.state = [s EXCEPT !.cfg.format = new] /\ o.reply \in {"echo", "refused"}
  BY DEF SetFormat, Outcome
<1>. HIDE DEF r, new
<1>4. o.state \in StateType
  BY <1>1, <1>2, <1>3 DEF StateType, ConfigType
<1>5. o.state.cfg = [s.cfg EXCEPT !.format = new] /\ o.state.avg = s.avg
  BY <1>3 DEF StateType
<1>6. o.state.cfg.format = new
  BY <1>1, <1>5 DEF ConfigType
<1>. QED BY <1>2, <1>3, <1>4, <1>5, <1>6 DEF Good, Little, Replies

LEMMA SetUnitsGood ==
  ASSUME NEW s \in StateType, NEW t \in Seq(TokenSet), Len(t) >= 3, NEW o \in SetUnits(s, t)
  PROVE  Good(s, o, t)
<1>1. CASE o \in Refused(s)
  BY <1>1, RefusedGood
<1>2. CASE o \notin Refused(s)
  <2>. DEFINE x == t[3].word
  <2>1. o = Outcome([s EXCEPT !.cfg.units = x], "echo") /\ Letter(t[3]) \in UnitNames
    BY <1>2 DEF SetUnits
  <2>2. x \in UnitNames
    <3>1. t[3] \in TokenSet
      OBVIOUS
    <3>2. \A u \in UnitNames : u # ""
      BY SessionInputs
    <3>. QED BY <2>1, <3>1, <3>2, LetterWord
  <2>. HIDE DEF x
  <2>3. [s EXCEPT !.cfg.units = x] \in StateType
    BY <2>2 DEF StateType, ConfigType
  <2>. QED BY <2>1, <2>3 DEF Outcome, Good, Replies
<1>. QED BY <1>1, <1>2

LEMMA SetSimGood ==
  ASSUME NEW s \in StateType, NEW t \in Seq(TokenSet), Len(t) >= 3, NEW o \in SetSim(s, t)
  PROVE  Good(s, o, t)
<1>. DEFINE n == t[3].number
            erange == s.erange \/ n >= Long \/ n <= -Long
            x == n % Long
<1>1. CASE o \in Refused(s)
  BY <1>1, RefusedGood
<1>2. CASE o \in Refused([s EXCEPT !.erange = erange])
  <2>1. o.state = [s EXCEPT !.erange = erange] /\ o.reply = "refused"
    BY <1>2 DEF Refused, Outcome
  <2>2. erange \in BOOLEAN
    OBVIOUS
  <2>. HIDE DEF erange
  <2>3. o.state \in StateType /\ o.state.cfg = s.cfg /\ o.state.avg = s.avg
    BY <2>1, <2>2 DEF StateType
  <2>4. s.cfg = [s.cfg EXCEPT !.format = s.cfg.format]
    BY DEF StateType, ConfigType
  <2>. QED BY <2>1, <2>3, <2>4 DEF Good, Little, Replies
<1>3. CASE o = Outcome([s EXCEPT !.cfg.sim = x], "echo") /\ ~(x >= Short) /\ IsNumber(t[3])
  <2>1. x \in 0..(Short - 1)
    <3>1. n \in Int
      BY <1>3, TokenNumber
    <3>. QED BY <1>3, <3>1, Remainder, SettingsBounds
  <2>. HIDE DEF x
  <2>2. [s EXCEPT !.cfg.sim = x] \in StateType
    BY <2>1 DEF StateType, ConfigType
  <2>. QED BY <1>3, <2>2 DEF Outcome, Good, Replies
<1>. QED BY <1>1, <1>2, <1>3 DEF SetSim

(* SET, whatever it sets.                                                  *)
LEMMA SetCommandGood ==
  ASSUME NEW s \in StateType, NEW t \in Seq(TokenSet), NEW o \in SetCommand(s, t)
  PROVE  Good(s, o, t)
<1>1. DOMAIN Settings =
        {"RATE", "FPS", "ENUDP", "ENFTP", "IPUDP", "FORMAT", "UNITS", "SIM"}
  BY DEF Settings
<1>2. CASE o \in Refused(s)
  BY <1>2, RefusedGood
<1>3. CASE o \notin Refused(s)
  <2>1. t[2] \in {Word(w) : w \in DOMAIN Settings} /\ ~(Len(t) < Settings[t[2].word])
    BY <1>3 DEF SetCommand
  <2>2. PICK w \in DOMAIN Settings : t[2] = Word(w)
    BY <2>1
  <2>3. t[2].word = w
    BY <2>2 DEF Word
  <2>4. o \in CASE w = "RATE" -> SetRate(s, t)
                [] w = "FPS" -> SetFps(s, t)
                [] w = "ENUDP" -> SetEnUdp(s, t)
                [] w = "ENFTP" -> SetEnFtp(s, t)
                [] w = "IPUDP" -> SetIpUdp(s, t)
                [] w = "FORMAT" -> SetFormat(s, t)
                [] w = "UNITS" -> SetUnits(s, t)
                [] w = "SIM" -> SetSim(s, t)
    BY <1>3, <2>1, <2>3 DEF SetCommand
  <2>5. Len(t) \in Nat /\ Len(t) >= Settings[w]
    BY <1>1, <2>1, <2>3 DEF Settings
  <2>6. CASE w \in {"RATE", "FPS", "UNITS", "SIM"}
    <3>1. Len(t) >= 3
      BY <2>5, <2>6 DEF Settings
    <3>. QED BY <2>4, <2>6, <3>1, SetRateGood, SetFpsGood, SetUnitsGood,
                SetSimGood
  <2>7. CASE w \in {"ENUDP", "ENFTP"}
    BY <2>4, <2>7, SetEnGood
  <2>8. CASE w \in {"IPUDP", "FORMAT"}
    <3>1. w = "IPUDP" => Len(t) >= 4
      BY <2>5 DEF Settings
    <3>2. w = "FORMAT" => Len(t) >= 2
      BY <2>5 DEF Settings
    <3>. QED BY <2>4, <2>8, <3>1, <3>2, SetIpUdpGood, SetFormatGood
  <2>. QED BY <1>1, <2>6, <2>7, <2>8
<1>. QED BY <1>2, <1>3

(* Every command.                                                          *)
LEMMA ParseCommandsGood ==
  ASSUME NEW s \in StateType, NEW t \in Seq(TokenSet), NEW o \in ParseCommands(s, t)
  PROVE  Good(s, o, t)
<1>1. CASE o \in SetCommand(s, t)
  BY <1>1, SetCommandGood
<1>2. CASE o \in Refused(s)
  BY <1>2, RefusedGood
<1>3. CASE o.state = s /\ o.reply \in {"text", "later"}
  BY <1>3 DEF Good, Replies
<1>. QED BY <1>1, <1>2, <1>3 DEF ParseCommands, Outcome

-----------------------------------------------------------------------------
(* A line, and what OnCommand makes of it.                                 *)

(* The tokens that the code names are tokens.                              *)
LEMMA WordToken ==
  ASSUME NEW w \in STRING \cup Named
  PROVE  Word(w) \in TokenSet
  BY DEF Word, TokenSet, AnyToken

(* Tokens makes tokens of a line.                                          *)
LEMMA TokensTyped ==
  ASSUME NEW cmd \in Seq(TokenSet)
  PROVE  Tokens(cmd) \in Seq(TokenSet)
<1>. DEFINE pieces == SplitString(cmd, {SP, CR, LF})
            Of(piece) == IF piece = <<>> THEN Empty
                            ELSE IF Len(piece) = 1 THEN piece[1] ELSE Trailed(piece[1])
<1>1. pieces \in Seq(Seq(TokenSet))
  BY SplitTyped
<1>2. Tokens(cmd) = [i \in DOMAIN pieces |-> Of(pieces[i])]
  BY DEF Tokens
<1>. HIDE DEF pieces
<1>3. \A t \in TokenSet : Trailed(t) \in TokenSet
  BY DEF Trailed, TokenSet, AnyToken
<1>4. Empty \in TokenSet
  <2>1. "" \in Named
    BY DEF Named
  <2>. QED BY <2>1, WordToken DEF Empty
<1>5. ASSUME NEW i \in DOMAIN pieces PROVE Of(pieces[i]) \in TokenSet
  <2>1. pieces[i] \in Seq(TokenSet)
    BY <1>1
  <2>2. pieces[i] # <<>> => pieces[i][1] \in TokenSet
    BY <2>1
  <2>. QED BY <1>3, <1>4, <2>2
<1>6. Tokens(cmd) \in [1..Len(pieces) -> TokenSet] /\ Len(pieces) \in Nat
  BY <1>1, <1>2, <1>5
<1>. QED BY <1>6

(* OnCommand executes the first piece of what it is given.                 *)
Ends == {CR, LF}
FirstOf(line) == SplitString(line, Ends)[1]

(* What the first piece is, and of what it is made.                        *)
LEMMA FirstOfIs ==
  ASSUME NEW s \in Seq(TokenSet), NEW a \in DOMAIN s, NEW b \in DOMAIN s, a <= b,
         \A m \in 1..(a - 1) : ~Inside(s, Ends, m),
         \A m \in a..b : Inside(s, Ends, m), ~Inside(s, Ends, b + 1)
  PROVE  FirstOf(s) = SubSeq(s, a, b)
  BY FirstPiece DEF FirstOf

LEMMA FirstTyped ==
  ASSUME NEW line \in Seq(TokenSet)
  PROVE  FirstOf(line) \in Seq(TokenSet)
<1>1. SplitString(line, Ends) \in Seq(Seq(TokenSet)) \ {<<>>}
  BY SplitTyped
<1>. QED BY <1>1 DEF FirstOf

(* The four keys of OnDataReceived are tokens and differ.                  *)
LEMMA Editing ==
  /\ CR \in TokenSet /\ LF \in TokenSet /\ BS \in TokenSet /\ ESC \in TokenSet
  /\ CR # LF /\ CR # BS /\ CR # ESC /\ LF # BS /\ LF # ESC /\ BS # ESC
<1>1. CR.word = "\r" /\ LF.word = "\n" /\ BS.word = "BS" /\ ESC.word = "ESC"
  BY DEF CR, LF, BS, ESC, Word
<1>2. CR \in TokenSet /\ LF \in TokenSet /\ BS \in TokenSet /\ ESC \in TokenSet
  <2>1. "\r" \in Named /\ "\n" \in Named /\ "BS" \in Named /\ "ESC" \in Named
    BY DEF Named
  <2>2. Word("\r") \in TokenSet /\ Word("\n") \in TokenSet
    BY <2>1, WordToken
  <2>3. Word("BS") \in TokenSet /\ Word("ESC") \in TokenSet
    BY <2>1, WordToken
  <2>. QED BY <2>2, <2>3 DEF CR, LF, BS, ESC
<1>. QED BY <1>1, <1>2

(* The line as its user sees it is the one collected, behind line feeds.   *)
LineInv ==
  /\ partial \in Seq(TokenSet) /\ typed \in Seq(TokenSet)
  /\ aligned \in BOOLEAN
  /\ Len(typed) <= Len(partial)
  /\ ~aligned => Len(typed) < Len(partial)
  /\ aligned =>
       /\ \A i \in 1..(Len(partial) - Len(typed)) : partial[i] = LF
       /\ \A i \in 1..Len(typed) :
            /\ typed[i] = partial[Len(partial) - Len(typed) + i]
            /\ typed[i] \notin {CR, LF}

(* The rest of the invariant.                                              *)
SessionType ==
  /\ state \in StateType /\ reply \in Replies
  /\ left.keys \in Nat /\ left.segments \in Nat

SessionInv == LineInv /\ SessionType /\ EachLineOnce

(* A typed line comes back as its first piece.                             *)
LEMMA TypedLine ==
  ASSUME LineInv, aligned
  PROVE  FirstOf(partial) = typed
<1>. DEFINE n == Len(partial) - Len(typed)
            b == Len(partial)
<1>1. /\ partial \in Seq(TokenSet) /\ typed \in Seq(TokenSet)
      /\ n \in Nat /\ b \in Nat /\ Len(typed) = b - n
      /\ \A i \in 1..n : partial[i] = LF
      /\ \A i \in 1..Len(typed) : typed[i] = partial[n + i] /\ typed[i] \notin {CR, LF}
      /\ DOMAIN partial = 1..b /\ DOMAIN typed = 1..Len(typed)
  BY DEF LineInv
<1>. HIDE DEF n
<1>2. \A i \in 1..n : ~Inside(partial, Ends, i)
  BY <1>1 DEF Inside, Ends
<1>3. CASE typed = <<>>
  <2>1. n = b
    BY <1>1, <1>3
  <2>2. \A i \in DOMAIN partial : ~Inside(partial, Ends, i)
    BY <1>1, <1>2, <2>1
  <2>. QED BY <1>1, <1>3, <2>2, NoPiece DEF FirstOf
<1>4. CASE typed # <<>>
  <2>. DEFINE a == n + 1
  <2>1. a \in DOMAIN partial /\ b \in DOMAIN partial /\ a <= b /\ a - 1 = n
    BY <1>1, <1>4
  <2>2. ~Inside(partial, Ends, b + 1)
    BY <1>1 DEF Inside, Ends
  <2>3. ASSUME NEW m \in a..b PROVE Inside(partial, Ends, m)
    <3>1. m - n \in 1..Len(typed) /\ m = n + (m - n) /\ m \in DOMAIN partial
      BY <1>1, <2>1, <2>3
    <3>2. typed[m - n] = partial[n + (m - n)] /\ typed[m - n] \notin {CR, LF}
      BY <1>1, <3>1
    <3>. QED BY <3>1, <3>2 DEF Inside, Ends
  <2>4. \A m \in 1..(a - 1) : ~Inside(partial, Ends, m)
    BY <1>2, <2>1
  <2>5. FirstOf(partial) = SubSeq(partial, a, b)
    <3>. HIDE DEF a, b
    <3>. QED BY <1>1, <2>1, <2>2, <2>3, <2>4, FirstOfIs
  <2>6. SubSeq(partial, a, b) = typed
    <3>1. Len(SubSeq(partial, a, b)) = Len(typed) /\ SubSeq(partial, a, b) \in Seq(TokenSet)
      BY <1>1, <2>1
    <3>2. ASSUME NEW i \in 1..Len(typed) PROVE SubSeq(partial, a, b)[i] = typed[i]
      <4>1. SubSeq(partial, a, b)[i] = partial[a + i - 1]
        BY <1>1, <2>1
      <4>2. a + i - 1 = n + i
        BY <1>1
      <4>. QED BY <1>1, <4>1, <4>2
    <3>. QED BY <1>1, <3>1, <3>2
  <2>. QED BY <2>5, <2>6
<1>. QED BY <1>3, <1>4

(* ESC is a line of its own.                                               *)
LEMMA EscapeLine ==
  FirstOf(<<ESC>>) = <<ESC>>
<1>1. PICK s \in Seq(TokenSet) : s = <<ESC>>
  <2>1. <<ESC>> \in Seq(TokenSet)
    BY Editing
  <2>. QED BY <2>1
<1>2. Len(s) = 1 /\ s[1] = ESC /\ 1 \in DOMAIN s
  BY <1>1
<1>3. Inside(s, Ends, 1) /\ ~Inside(s, Ends, 2)
  BY <1>2, Editing DEF Inside, Ends
<1>4. SubSeq(s, 1, 1) = s
  <2>1. SubSeq(s, 1, 1) \in Seq(TokenSet) /\ Len(SubSeq(s, 1, 1)) = 1
    BY <1>2
  <2>2. SubSeq(s, 1, 1)[1] = s[1]
    BY <1>2
  <2>. QED BY <1>2, <2>1, <2>2
<1>5. FirstOf(s) = SubSeq(s, 1, 1)
  <2>1. PICK a \in DOMAIN s : a = 1
    BY <1>2
  <2>2. \A m \in 1..(a - 1) : ~Inside(s, Ends, m)
    BY <2>1
  <2>3. \A m \in a..a : Inside(s, Ends, m)
    BY <1>3, <2>1
  <2>4. ~Inside(s, Ends, a + 1) /\ a <= a
    BY <1>3, <2>1
  <2>5. FirstOf(s) = SubSeq(s, a, a)
    BY <2>2, <2>3, <2>4, FirstOfIs
  <2>. QED BY <2>1, <2>5
<1>. QED BY <1>1, <1>4, <1>5

(* A segment of one line comes back without its end.                       *)
LEMMA WholeLine ==
  ASSUME NEW s \in Seq(TokenSet), OneLine(s)
  PROVE  FirstOf(s) = SubSeq(s, 1, Len(s) - 2)
<1>. DEFINE b == Len(s) - 2
<1>1. b \in DOMAIN s /\ 1 \in DOMAIN s /\ 1 <= b /\ b + 1 = Len(s) - 1 /\ b + 1 \in DOMAIN s
  BY DEF OneLine
<1>2. \A m \in 1..b : Inside(s, Ends, m)
  BY <1>1 DEF OneLine, Inside, Ends
<1>3. s[b + 1] = CR
  <2>1. SubSeq(s, Len(s) - 1, Len(s))[1] = s[Len(s) - 1]
    BY <1>1
  <2>2. SubSeq(s, Len(s) - 1, Len(s)) = <<CR, LF>>
    BY DEF OneLine
  <2>3. <<CR, LF>>[1] = CR
    OBVIOUS
  <2>. QED BY <1>1, <2>1, <2>2, <2>3
<1>4. ~Inside(s, Ends, b + 1)
  BY <1>3 DEF Inside, Ends
<1>5. \A m \in 1..(1 - 1) : ~Inside(s, Ends, m)
  OBVIOUS
<1>. HIDE DEF b
<1>6. FirstOf(s) = SubSeq(s, 1, b)
  BY <1>1, <1>2, <1>4, <1>5, FirstOfIs
<1>. QED BY <1>6 DEF b

(* OnCommand clears m_Cmds and executes the first piece; what it leaves is *)
(* typed, and a refusal changes little.                                    *)
LEMMA ExecuteTyped ==
  ASSUME NEW line \in Seq(TokenSet), state \in StateType, ExecuteLine(line)
  PROVE  /\ partial' = <<>> /\ ran' = FirstOf(line)
         /\ state' \in StateType /\ reply' \in Replies
         /\ reply' = "refused" =>
              Little(state, [state |-> state', reply |-> reply'], Tokens(ran'))
<1>. DEFINE first == FirstOf(line)
<1>1. partial' = <<>> /\ ran' = first
  BY DEF ExecuteLine, FirstOf, Ends
<1>2. Tokens(first) \in Seq(TokenSet)
  BY FirstTyped, TokensTyped
<1>3. CASE reply' = "text" /\ UNCHANGED state
  BY <1>1, <1>3 DEF Replies
<1>4. CASE \E o \in ParseCommands(state, Tokens(first)) : state' = o.state /\ reply' = o.reply
  <2>1. PICK o \in ParseCommands(state, Tokens(first)) : state' = o.state /\ reply' = o.reply
    BY <1>4
  <2>2. Good(state, o, Tokens(first))
    BY <1>2, <2>1, ParseCommandsGood
  <2>. HIDE DEF first
  <2>. QED BY <1>1, <2>1, <2>2 DEF Good, Little, first
<1>. QED BY <1>3, <1>4 DEF ExecuteLine, FirstOf, Ends

-----------------------------------------------------------------------------
(* Keys and segments.                                                      *)

(* A key that edits the line leaves the device alone.                      *)
LEMMA EditTyped ==
  ASSUME NEW line, SessionType, EditLine(line)
  PROVE  /\ partial' = line /\ ran' = <<>> /\ reply' = "none"
         /\ state' \in StateType /\ reply' \in Replies
  BY DEF SessionType, EditLine, Replies

(* The bounds stay natural numbers.                                        *)
LEMMA KeyLeft ==
  ASSUME SessionType, NEW k, Key(k)
  PROVE  left'.keys \in Nat /\ left'.segments \in Nat
<1>1. left' = [left EXCEPT !.keys = @ - 1] /\ left.keys > 0
  BY DEF Key
<1>. QED BY <1>1 DEF SessionType

(* Key by key: CR executes the line as it is seen.                         *)
LEMMA EndKey ==
  ASSUME SessionInv, Key(CR)
  PROVE  SessionInv'
<1>1. ExecuteLine(partial) /\ typed' = <<>>
  BY Editing DEF Key, OnKey, LineSeen
<1>2. due' = IF aligned THEN typed ELSE ran'
  <2>1. Meant(CR) = typed
    BY Editing DEF Meant
  <2>. QED BY <2>1 DEF Key
<1>3. partial' = <<>> /\ ran' = FirstOf(partial) /\ state' \in StateType /\ reply' \in Replies
  BY <1>1, ExecuteTyped DEF SessionInv, LineInv, SessionType
<1>4. aligned' = TRUE
  BY <1>3 DEF Key
<1>5. LineInv'
  BY <1>1, <1>3, <1>4 DEF LineInv
<1>6. ran' = due'
  BY <1>2, <1>3, TypedLine DEF SessionInv
<1>. QED BY <1>3, <1>5, <1>6, KeyLeft DEF SessionInv, SessionType, EachLineOnce

(* ESC drops the line and stops the scan.                                  *)
LEMMA EscapeKey ==
  ASSUME SessionInv, Key(ESC)
  PROVE  SessionInv'
<1>1. ExecuteLine(<<ESC>>) /\ typed' = <<>>
  BY Editing DEF Key, OnKey, LineSeen
<1>2. due' = IF aligned THEN <<ESC>> ELSE ran'
  BY Editing DEF Key, Meant
<1>3. <<ESC>> \in Seq(TokenSet)
  BY Editing
<1>4. partial' = <<>> /\ ran' = <<ESC>> /\ state' \in StateType /\ reply' \in Replies
  <2>1. PICK line \in Seq(TokenSet) : line = <<ESC>>
    BY <1>3
  <2>2. ExecuteLine(line) /\ FirstOf(line) = line
    BY <1>1, <2>1, EscapeLine
  <2>3. /\ partial' = <<>> /\ ran' = FirstOf(line)
        /\ state' \in StateType /\ reply' \in Replies
    BY <2>2, ExecuteTyped DEF SessionInv, SessionType
  <2>. QED BY <2>1, <2>2, <2>3
<1>5. aligned' = TRUE
  BY <1>4 DEF Key
<1>6. LineInv'
  BY <1>1, <1>4, <1>5 DEF LineInv
<1>. QED BY <1>2, <1>4, <1>6, KeyLeft DEF SessionInv, SessionType, EachLineOnce

(* What Front returns.                                                     *)
LEMMA AllButLast ==
  ASSUME NEW S, NEW s \in Seq(S), s # <<>>
  PROVE  /\ Front(s) \in Seq(S) /\ Len(Front(s)) = Len(s) - 1
         /\ \A i \in 1..(Len(s) - 1) : Front(s)[i] = s[i]
<1>1. PICK n \in Nat : n = Len(s) - 1 /\ n + 1 = Len(s)
  OBVIOUS
<1>2. SubSeq(s, 1, n) \in Seq(S) /\ Len(SubSeq(s, 1, n)) = n
  BY <1>1
<1>3. \A i \in 1..n : SubSeq(s, 1, n)[i] = s[i]
  BY <1>1
<1>4. Front(s) = SubSeq(s, 1, n)
  BY <1>1 DEF Front
<1>. QED BY <1>1, <1>2, <1>3, <1>4

(* BS takes back the last key of the line, or a line feed in front of it   *)
(* when nothing is seen of the line.                                       *)
LEMMA BackKey ==
  ASSUME SessionInv, Key(BS)
  PROVE  SessionInv'
<1>1. EditLine(IF partial = <<>> THEN <<>> ELSE Front(partial))
  BY Editing DEF Key, OnKey
<1>2. /\ due' = IF aligned THEN <<>> ELSE ran'
      /\ typed' = IF typed # <<>> THEN Front(typed) ELSE typed
      /\ aligned' = (partial' = <<>> \/ aligned)
  <2>1. Meant(BS) = <<>>
    BY Editing DEF Meant
  <2>2. LineSeen(BS) = IF typed # <<>> THEN Front(typed) ELSE typed
    <3>1. CASE typed # <<>>
      BY <3>1, Editing DEF LineSeen
    <3>2. CASE typed = <<>>
      BY <3>2, Editing DEF LineSeen
    <3>. QED BY <3>1, <3>2
  <2>3. aligned' = (partial' = <<>> \/ (aligned /\ (BS = LF => typed = <<>>)))
    BY DEF Key
  <2>. QED BY <2>1, <2>2, <2>3, Editing DEF Key
<1>3. /\ partial' = IF partial = <<>> THEN <<>> ELSE Front(partial)
      /\ ran' = <<>> /\ state' \in StateType /\ reply' \in Replies
  BY <1>1, EditTyped DEF SessionInv
<1>4. \A s \in Seq(TokenSet) : s # <<>> =>
        /\ Front(s) \in Seq(TokenSet) /\ Len(Front(s)) = Len(s) - 1
        /\ \A i \in 1..(Len(s) - 1) : Front(s)[i] = s[i]
  BY AllButLast
<1>5. LineInv'
  <2>1. partial \in Seq(TokenSet) /\ typed \in Seq(TokenSet)
    BY DEF SessionInv, LineInv
  <2>2. CASE partial = <<>>
    <3>1. typed = <<>> /\ aligned \in BOOLEAN /\ Len(partial) = 0 /\ Len(typed) = 0
      BY <2>1, <2>2 DEF SessionInv, LineInv
    <3>2. partial' = partial /\ typed' = typed /\ aligned' = TRUE
      BY <1>2, <1>3, <2>2, <3>1
    <3>. QED BY <2>1, <3>1, <3>2 DEF LineInv
  <2>3. CASE partial # <<>> /\ typed = <<>>
    <3>1. partial' = Front(partial) /\ typed' = <<>>
      BY <1>2, <1>3, <2>3
    <3>2. partial' \in Seq(TokenSet) /\ Len(partial') = Len(partial) - 1
          /\ \A i \in 1..Len(partial') : partial'[i] = partial[i]
      BY <1>4, <2>1, <2>3, <3>1
    <3>3. aligned => \A i \in 1..Len(partial) : partial[i] = LF
      <4>1. Len(typed) = 0 /\ Len(partial) - 0 = Len(partial)
        BY <2>1, <2>3
      <4>. QED BY <4>1 DEF SessionInv, LineInv
    <3>4. ~aligned' => Len(partial') > 0
      <4>1. partial' # <<>> => Len(partial') > 0
        BY <3>2
      <4>. QED BY <1>2, <4>1
    <3>5. aligned' => \A i \in 1..Len(partial') : partial'[i] = LF
      <4>1. CASE partial' = <<>>
        BY <4>1
      <4>2. CASE partial' # <<>>
        <5>1. Len(partial) \in Nat /\ Len(partial') \in Nat
          BY <2>1, <3>2
        <5>2. aligned' => aligned
          BY <1>2, <4>2
        <5>3. aligned => \A i \in 1..Len(partial') : partial'[i] = LF
          BY <3>2, <3>3, <5>1
        <5>. QED BY <5>2, <5>3
      <4>. QED BY <4>1, <4>2
    <3>6. aligned' \in BOOLEAN
      BY <1>2 DEF SessionInv, LineInv
    <3>7. typed' \in Seq(TokenSet) /\ Len(typed') = 0 /\ Len(partial') \in Nat
      BY <2>1, <3>1, <3>2, <2>3
    <3>. QED BY <3>1, <3>2, <3>4, <3>5, <3>6, <3>7 DEF LineInv
  <2>4. CASE partial # <<>> /\ typed # <<>>
    <3>1. partial' = Front(partial) /\ typed' = Front(typed)
      BY <1>2, <1>3, <2>4
    <3>2. /\ partial' \in Seq(TokenSet) /\ Len(partial') = Len(partial) - 1
          /\ \A i \in 1..Len(partial') : partial'[i] = partial[i]
          /\ typed' \in Seq(TokenSet) /\ Len(typed') = Len(typed) - 1
          /\ \A i \in 1..Len(typed') : typed'[i] = typed[i]
      BY <1>4, <2>1, <2>4, <3>1
    <3>3. /\ Len(partial) \in Nat /\ Len(typed) \in Nat
          /\ Len(typed') <= Len(partial')
          /\ ~aligned => Len(typed') < Len(partial')
      BY <2>1, <3>2 DEF SessionInv, LineInv
    <3>4. CASE aligned
      <4>. DEFINE n == Len(partial) - Len(typed)
      <4>1. /\ \A i \in 1..n : partial[i] = LF
            /\ \A i \in 1..Len(typed) : typed[i] = partial[n + i] /\ typed[i] \notin {CR, LF}
            /\ n >= 0
        BY <3>3, <3>4 DEF SessionInv, LineInv
      <4>2. Len(partial') - Len(typed') = n /\ n \in Nat
        BY <3>2, <3>3
      <4>. HIDE DEF n
      <4>3. \A i \in 1..n : partial'[i] = LF
        BY <3>2, <3>3, <4>1, <4>2
      <4>4. ASSUME NEW i \in 1..Len(typed')
            PROVE  typed'[i] = partial'[n + i] /\ typed'[i] \notin {CR, LF}
        <5>1. i \in 1..Len(typed) /\ typed'[i] = typed[i]
          BY <3>2, <3>3
        <5>2. n + i \in 1..Len(partial') /\ partial'[n + i] = partial[n + i]
          <6>1. Len(partial') = n + Len(typed') /\ Len(partial') \in Nat /\ Len(typed') \in Nat
            <7>1. Len(partial') \in Nat /\ Len(typed') \in Nat
              BY <3>2
            <7>. QED BY <4>2, <7>1
          <6>2. n + i \in 1..Len(partial')
            BY <4>2, <6>1
          <6>. QED BY <3>2, <6>2
        <5>. QED BY <4>1, <5>1, <5>2
      <4>5. aligned' = TRUE
        BY <1>2, <3>4 DEF SessionInv, LineInv
      <4>. QED BY <3>2, <3>3, <4>2, <4>3, <4>4, <4>5 DEF LineInv
    <3>5. CASE ~aligned
      <4>1. partial' # <<>>
        BY <3>2, <3>3, <3>5
      <4>2. aligned' = FALSE
        BY <1>2, <3>5, <4>1 DEF SessionInv, LineInv
      <4>. QED BY <3>2, <3>3, <3>5, <4>2 DEF LineInv
    <3>. QED BY <3>4, <3>5
  <2>. QED BY <2>2, <2>3, <2>4
<1>. QED BY <1>2, <1>3, <1>5, KeyLeft DEF SessionInv, SessionType, EachLineOnce

(* LF is collected: in front of a line it is harmless, inside a line the   *)
(* line is no longer the one that is seen.                                 *)
LEMMA FeedKey ==
  ASSUME SessionInv, Key(LF)
  PROVE  SessionInv'
<1>1. EditLine(Append(partial, LF))
  BY Editing DEF Key, OnKey
<1>2. /\ due' = IF aligned THEN <<>> ELSE ran'
      /\ typed' = typed
      /\ aligned' = (partial' = <<>> \/ (aligned /\ typed = <<>>))
  BY Editing DEF Key, Meant, LineSeen
<1>3. partial' = Append(partial, LF) /\ ran' = <<>> /\ state' \in StateType /\ reply' \in Replies
  BY <1>1, EditTyped DEF SessionInv
<1>4. partial \in Seq(TokenSet) /\ typed \in Seq(TokenSet) /\ Len(typed) <= Len(partial)
  BY DEF SessionInv, LineInv
<1>5. /\ partial' \in Seq(TokenSet) /\ Len(partial') = Len(partial) + 1
      /\ \A i \in 1..Len(partial) : partial'[i] = partial[i]
      /\ partial'[Len(partial) + 1] = LF
      /\ partial' # <<>>
  BY <1>3, <1>4, Editing
<1>6. LineInv'
  <2>1. CASE aligned'
    <3>1. aligned /\ typed = <<>>
      BY <1>2, <1>5, <2>1
    <3>2. \A i \in 1..Len(partial) : partial[i] = LF
      <4>1. Len(typed) = 0 /\ Len(partial) - 0 = Len(partial)
        BY <1>4, <3>1
      <4>. QED BY <3>1, <4>1 DEF SessionInv, LineInv
    <3>3. \A i \in 1..Len(partial') : partial'[i] = LF
      BY <1>4, <1>5, <3>2
    <3>4. aligned' = TRUE /\ typed' = typed
      BY <1>2, <1>5, <3>1
    <3>5. Len(typed') = 0 /\ Len(partial') \in Nat
      BY <1>5, <3>1, <3>4
    <3>. QED BY <1>4, <1>5, <3>3, <3>4, <3>5 DEF LineInv
  <2>2. CASE ~aligned'
    <3>1. aligned' = FALSE
      BY <1>2, <2>2 DEF SessionInv, LineInv
    <3>. QED BY <1>2, <1>4, <1>5, <3>1 DEF LineInv
  <2>. QED BY <2>1, <2>2
<1>. QED BY <1>2, <1>3, <1>6, KeyLeft DEF SessionInv, SessionType, EachLineOnce

(* Every other key is collected and seen.                                  *)
LEMMA OtherKey ==
  ASSUME SessionInv, NEW k \in TokenSet \ {CR, LF, BS, ESC}, Key(k)
  PROVE  SessionInv'
<1>1. EditLine(Append(partial, k))
  BY DEF Key, OnKey
<1>2. /\ due' = IF aligned THEN <<>> ELSE ran'
      /\ typed' = Append(typed, k)
      /\ aligned' = (partial' = <<>> \/ aligned)
  BY DEF Key, Meant, LineSeen
<1>3. partial' = Append(partial, k) /\ ran' = <<>> /\ state' \in StateType /\ reply' \in Replies
  BY <1>1, EditTyped DEF SessionInv
<1>4. partial \in Seq(TokenSet) /\ typed \in Seq(TokenSet) /\ Len(typed) <= Len(partial)
      /\ (~aligned => Len(typed) < Len(partial)) /\ aligned \in BOOLEAN
  BY DEF SessionInv, LineInv
<1>5. /\ partial' \in Seq(TokenSet) /\ Len(partial') = Len(partial) + 1
      /\ \A i \in 1..Len(partial) : partial'[i] = partial[i]
      /\ partial'[Len(partial) + 1] = k
      /\ typed' \in Seq(TokenSet) /\ Len(typed') = Len(typed) + 1
      /\ \A i \in 1..Len(typed) : typed'[i] = typed[i]
      /\ typed'[Len(typed) + 1] = k
      /\ partial' # <<>>
  BY <1>2, <1>3, <1>4
<1>6. aligned' = aligned
  BY <1>2, <1>4, <1>5
<1>7. LineInv'
  <2>1. CASE ~aligned
    BY <1>4, <1>5, <1>6, <2>1 DEF LineInv
  <2>2. CASE aligned
    <3>. DEFINE n == Len(partial) - Len(typed)
    <3>1. /\ \A i \in 1..n : partial[i] = LF
          /\ \A i \in 1..Len(typed) : typed[i] = partial[n + i] /\ typed[i] \notin {CR, LF}
      BY <1>4, <2>2 DEF SessionInv, LineInv
    <3>2. Len(partial') - Len(typed') = n /\ n \in Nat /\ Len(partial) = n + Len(typed)
      BY <1>4, <1>5
    <3>. HIDE DEF n
    <3>3. \A i \in 1..n : partial'[i] = LF
      BY <1>4, <1>5, <3>1, <3>2
    <3>4. ASSUME NEW i \in 1..Len(typed')
          PROVE  typed'[i] = partial'[n + i] /\ typed'[i] \notin {CR, LF}
      <4>1. CASE i = Len(typed) + 1
        BY <1>4, <1>5, <3>2, <4>1
      <4>2. CASE i \in 1..Len(typed)
        BY <1>4, <1>5, <3>1, <3>2, <4>2
      <4>. QED BY <1>4, <1>5, <3>4, <4>1, <4>2
    <3>. QED BY <1>4, <1>5, <1>6, <2>2, <3>2, <3>3, <3>4 DEF LineInv
  <2>. QED BY <2>1, <2>2
<1>. QED BY <1>2, <1>3, <1>7, KeyLeft DEF SessionInv, SessionType, EachLineOnce

(* A segment replaces what was collected.                                  *)
LEMMA SegmentKeeps ==
  ASSUME SessionInv, NEW s \in Segments, Segment(s)
  PROVE  SessionInv'
<1>1. s \in Seq(TokenSet)
  BY SessionInputs, AnyTokens
<1>2. /\ ExecuteLine(s) /\ typed' = <<>> /\ aligned' = TRUE
      /\ due' = IF OneLine(s) THEN SubSeq(s, 1, Len(s) - 2) ELSE ran'
      /\ left' = [left EXCEPT !.segments = @ - 1] /\ left.segments > 0
  BY DEF Segment, OnSegment
<1>3. partial' = <<>> /\ ran' = FirstOf(s) /\ state' \in StateType /\ reply' \in Replies
  BY <1>1, <1>2, ExecuteTyped DEF SessionInv, SessionType
<1>4. left'.keys \in Nat /\ left'.segments \in Nat
  BY <1>2 DEF SessionInv, SessionType
<1>5. LineInv'
  BY <1>2, <1>3 DEF LineInv
<1>6. ran' = due'
  BY <1>1, <1>2, <1>3, WholeLine
<1>. QED BY <1>3, <1>4, <1>5, <1>6 DEF SessionInv, SessionType, EachLineOnce

(* Keys are tokens, and the device of OnAttach is in its domain.           *)
LEMMA KeysTyped ==
  ASSUME NEW k \in Keys
  PROVE  k \in TokenSet
  BY SessionInputs DEF TokenSet

LEMMA FreshTyped == Fresh \in StateType
<1>1. DefaultConfig.ip \in TokenSet
  <2>1. "local" \in Named
    BY DEF Named
  <2>. QED BY <2>1, WordToken DEF DefaultConfig
<1>2. 23 % Short \in 0..(Short - 1)
  <2>1. PICK x \in Int : x = 23
    OBVIOUS
  <2>2. Short \in Nat \ {0}
    BY SettingsBounds
  <2>3. x % Short \in 0..(Short - 1)
    BY <2>2, Remainder
  <2>. QED BY <2>1, <2>3
<1>3. DefaultConfig.port \in 0..(Short - 1) /\ DefaultConfig.sim \in 0..(Short - 1)
      /\ DefaultConfig.fps \in 0..(Long - 1) /\ DefaultConfig.rate \in Rates
  BY <1>2, SettingsBounds DEF DefaultConfig, Rates
<1>4. DefaultConfig.format \in Formats
  BY DEF DefaultConfig, Formats
<1>5. DefaultConfig \in ConfigType
  BY <1>1, <1>3, <1>4, SessionInputs DEF DefaultConfig, ConfigType
<1>6. 1 \in 0..(Long - 1)
  BY SettingsBounds
<1>. QED BY <1>5, <1>6 DEF Fresh, StateType

(* SessionInv is inductive.                                                *)
LEMMA SessionInvInit ==
  ASSUME SessionInit
  PROVE  SessionInv
<1>1. state \in StateType
  BY FreshTyped DEF SessionInit, SessionStart, Fresh
<1>2. left.keys \in Nat /\ left.segments \in Nat
  BY SessionBounds DEF SessionInit
<1>. QED BY <1>1, <1>2
         DEF SessionInit, SessionStart, SessionInv, LineInv, SessionType,
             EachLineOnce, Replies

LEMMA SessionInvNext ==
  ASSUME SessionInv, [SessionNext]_sessionVars
  PROVE  SessionInv'
<1>1. CASE UNCHANGED sessionVars
  BY <1>1 DEF sessionVars, history, SessionInv, LineInv, SessionType,
         EachLineOnce
<1>2. ASSUME NEW k \in Keys, Key(k) PROVE SessionInv'
  <2>1. k \in TokenSet
    BY KeysTyped
  <2>. QED BY <1>2, <2>1, EndKey, EscapeKey, BackKey, FeedKey, OtherKey
<1>. QED BY <1>1, <1>2, SegmentKeeps DEF SessionNext

LEMMA SessionInvariance == SessionSpec => []SessionInv
  BY SessionInvInit, SessionInvNext, PTL DEF SessionSpec

(* Every field of the configuration keeps to what its C++ type and the     *)
(* tables of ParseCommands allow, whatever is sent (SetRate ... SetSim of  *)
(* Mps::ParseCommands).                                                    *)
THEOREM SessionTypeCorrect == SessionSpec => []SessionTypeOK
<1>1. SessionInv => SessionTypeOK
  BY DEF SessionInv, SessionType, LineInv, StateType, ConfigType, Formats,
         Replies, SessionTypeOK
<1>. QED BY <1>1, SessionInvariance, PTL

(* ServerLayer::OnDataReceived and OnCommand: a line typed key by key and  *)
(* edited with BS, and a line that comes in one segment, is executed once  *)
(* and as its user sees it, in any order of the two.                       *)
THEOREM LinesExecuted == SessionSpec => []EachLineOnce
<1>1. SessionInv => EachLineOnce
  BY DEF SessionInv
<1>. QED BY <1>1, SessionInvariance, PTL

(* What RefusalChangesLittle says of one step.                             *)
LittleStep ==
  reply' = "refused" =>
       LET t == Tokens(ran')
           old == state.cfg.format
           new == state'.cfg.format
       IN /\ state'.avg = state.avg
          /\ state'.cfg = [state.cfg EXCEPT !.format = new]
          /\ \A f \in DOMAIN old :
               new[f] # old[f] =>
                 \E i \in 3..(Len(t) - 1) : Letter(t[i]) = f /\ Letter(t[i + 1]) = new[f]

(* A step that replies a refusal executes a line.                          *)
LEMMA RefusedLine ==
  ASSUME SessionInv, NEW line \in Seq(TokenSet), ExecuteLine(line)
  PROVE  LittleStep
<1>1. reply' = "refused" =>
        Little(state, [state |-> state', reply |-> reply'], Tokens(ran'))
  BY ExecuteTyped DEF SessionInv, SessionType
<1>. QED BY <1>1 DEF Little, LittleStep

LEMMA RefusedStep ==
  ASSUME SessionInv, SessionNext
  PROVE  LittleStep
<1>1. ASSUME NEW s \in Segments, Segment(s) PROVE LittleStep
  <2>1. s \in Seq(TokenSet)
    BY SessionInputs, AnyTokens
  <2>. QED BY <1>1, <2>1, RefusedLine DEF Segment, OnSegment
<1>2. ASSUME NEW k \in Keys, Key(k) PROVE LittleStep
  <2>1. CASE \E line : EditLine(line)
    <3>1. reply' = "none"
      BY <2>1 DEF EditLine
    <3>. QED BY <3>1 DEF LittleStep
  <2>2. CASE ExecuteLine(partial)
    BY <2>2, RefusedLine DEF SessionInv, LineInv
  <2>3. CASE ExecuteLine(<<ESC>>)
    <3>1. <<ESC>> \in Seq(TokenSet)
      BY Editing
    <3>. QED BY <2>3, <3>1, RefusedLine
  <2>. QED BY <1>2, <2>1, <2>2, <2>3 DEF Key, OnKey
<1>. QED BY <1>1, <1>2 DEF SessionNext

(* A command that ParseCommands refuses changes no setting but FORMAT, and *)
(* of the formats only those asked for with an allowed letter; SET FORMAT  *)
(* stops at the first pair that is refused and keeps the ones before it.   *)
THEOREM RefusalsChangeLittle == SessionSpec => RefusalChangesLittle
<1>1. SessionInv /\ [SessionNext]_sessionVars => [LittleStep]_sessionVars
  BY RefusedStep
<1>2. SessionSpec => [][LittleStep]_sessionVars
  BY <1>1, SessionInvariance, PTL DEF SessionSpec
<1>. QED BY <1>2, PTL DEF RefusalChangesLittle, LittleStep

-----------------------------------------------------------------------------
(* LIST prints what SET understands.                                       *)

(* The settings of the configuration.                                      *)
Fields == {"format", "rate", "fps", "units", "udp", "ip", "port", "ftp", "sim"}

(* The device s already has the settings F of cfg.                         *)
Copied(s, cfg, F) ==
  s \in StateType /\ s.erange = FALSE /\ \A f \in F : s.cfg[f] = cfg[f]

(* A device that has all the settings has the configuration.               *)
LEMMA ConfigFields ==
  ASSUME NEW c \in ConfigType
  PROVE  DOMAIN c = Fields
  BY DEF ConfigType, Fields

LEMMA AllCopied ==
  ASSUME NEW s, NEW cfg \in ConfigType, Copied(s, cfg, Fields)
  PROVE  s.cfg = cfg
<1>1. s.cfg \in ConfigType
  BY DEF Copied, StateType
<1>2. DOMAIN s.cfg = Fields /\ DOMAIN cfg = Fields
  BY <1>1, ConfigFields
<1>3. \A f \in Fields : s.cfg[f] = cfg[f]
  BY DEF Copied
<1>4. s.cfg = [f \in DOMAIN s.cfg |-> s.cfg[f]] /\ cfg = [f \in DOMAIN cfg |-> cfg[f]]
  BY <1>1 DEF ConfigType
<1>. QED BY <1>2, <1>3, <1>4

(* Words differ if their texts do.                                         *)
LEMMA WordIs ==
  ASSUME NEW v, NEW w, Word(v) = Word(w)
  PROVE  v = w
<1>1. Word(v).word = v /\ Word(w).word = w
  BY DEF Word
<1>. QED BY <1>1

(* Short sequences, and two sequences in a row.                            *)
LEMMA Single ==
  ASSUME NEW S, NEW a \in S
  PROVE  <<a>> \in Seq(S)
  OBVIOUS

LEMMA Pair ==
  ASSUME NEW S, NEW a \in S, NEW b \in S
  PROVE  <<a, b>> \in Seq(S)
  OBVIOUS

LEMMA Joined ==
  ASSUME NEW S, NEW a \in Seq(S), NEW b \in Seq(S)
  PROVE  /\ a \o b \in Seq(S) /\ Len(a \o b) = Len(a) + Len(b)
         /\ \A i \in 1..Len(a) : (a \o b)[i] = a[i]
         /\ \A i \in 1..Len(b) : (a \o b)[Len(a) + i] = b[i]
  OBVIOUS

(* A command that has outcomes has the one that is chosen.                 *)
LEMMA ChosenIn ==
  ASSUME NEW P, P # {}
  PROVE  (CHOOSE o \in P : TRUE) \in P
  OBVIOUS

(* The tokens of a line that LIST prints.                                  *)
LEMMA SettingIs ==
  ASSUME NEW w, NEW S, NEW args \in Seq(S)
  PROVE  /\ Len(Setting(w, args)) = 2 + Len(args)
         /\ Setting(w, args)[1] = Word("SET") /\ Setting(w, args)[2] = Word(w)
         /\ \A i \in 1..Len(args) : Setting(w, args)[2 + i] = args[i]
<1>. DEFINE T == {Word("SET"), Word(w)}
<1>1. PICK h \in Seq(T) : h = <<Word("SET"), Word(w)>>
  <2>1. <<Word("SET"), Word(w)>> \in Seq(T)
    BY Pair
  <2>. QED BY <2>1
<1>2. Len(h) = 2 /\ h[1] = Word("SET") /\ h[2] = Word(w)
  BY <1>1
<1>3. Setting(w, args) = h \o args
  BY <1>1 DEF Setting
<1>4. /\ Len(h \o args) = 2 + Len(args)
      /\ \A i \in 1..2 : (h \o args)[i] = h[i]
      /\ \A i \in 1..Len(args) : (h \o args)[2 + i] = args[i]
  <2>. HIDE DEF T
  <2>1. h \in Seq(T \cup S) /\ args \in Seq(T \cup S)
    OBVIOUS
  <2>2. /\ Len(h \o args) = Len(h) + Len(args)
        /\ \A i \in 1..Len(h) : (h \o args)[i] = h[i]
        /\ \A i \in 1..Len(args) : (h \o args)[Len(h) + i] = args[i]
    BY <2>1, Joined
  <2>. QED BY <1>2, <2>2
<1>. QED BY <1>2, <1>3, <1>4

(* t is a SET of w with at least n tokens.                                 *)
SetLine(t, w, n) ==
  /\ t[1] = Word("SET") /\ t[2] = Word(w) /\ Len(t) \in Nat /\ Len(t) >= n

(* SET with enough tokens runs the branch of its setting.                  *)
LEMMA SetRuns ==
  ASSUME NEW w \in DOMAIN Settings, NEW s, NEW t, SetLine(t, w, Settings[w])
  PROVE  ParseCommands(s, t) =
           CASE w = "RATE" -> SetRate(s, t)
             [] w = "FPS" -> SetFps(s, t)
             [] w = "ENUDP" -> SetEnUdp(s, t)
             [] w = "ENFTP" -> SetEnFtp(s, t)
             [] w = "IPUDP" -> SetIpUdp(s, t)
             [] w = "FORMAT" -> SetFormat(s, t)
             [] w = "UNITS" -> SetUnits(s, t)
             [] w = "SIM" -> SetSim(s, t)
<1>1. t[2].word = w
  BY DEF SetLine, Word
<1>2. t[2] \in {Word(v) : v \in DOMAIN Settings} /\ ~(Len(t) < Settings[t[2].word])
  <2>1. Settings[w] \in Nat
    BY DEF Settings
  <2>. QED BY <1>1, <2>1 DEF SetLine
<1>3. ~(Len(t) < 2)
  BY DEF SetLine, Settings
<1>4. ParseCommands(s, t) = SetCommand(s, t)
  BY DEF ParseCommands, SetLine
<1>. QED BY <1>1, <1>2, <1>3, <1>4 DEF SetCommand

(* Replaying a line with one outcome.                                      *)
LEMMA OneOutcome ==
  ASSUME NEW s, NEW t, NEW n, NEW r, ParseCommands(s, t) = {Outcome(n, r)}
  PROVE  Replay(s, t) = n
<1>1. (CHOOSE o \in ParseCommands(s, t) : TRUE) = Outcome(n, r)
  BY ChosenIn
<1>. QED BY <1>1 DEF Replay, Outcome

(* A setting that ParseCommands does not know leaves the device alone:     *)
(* TRIG, ECHO, XITE and ETOL are printed but cannot be set.                *)
LEMMA UnknownRefused ==
  ASSUME NEW w, w \notin DOMAIN Settings, NEW s, NEW t, t[1] = Word("SET"), t[2] = Word(w)
  PROVE  Replay(s, t) = s
<1>1. t[2] \notin {Word(v) : v \in DOMAIN Settings}
  BY WordIs
<1>2. ParseCommands(s, t) = {Outcome(s, "refused")}
  BY <1>1 DEF ParseCommands, SetCommand, Refused
<1>. QED BY <1>2, OneOutcome

(* The rate that is printed: a nearest one exists, it is a rate again, and *)
(* what is printed already stays as it is.                                 *)
LEMMA NearestExists ==
  ASSUME NEW r \in Int
  PROVE  \E p \in Printable : \A q \in Printable : Distance(p, r) <= Distance(q, r)
<1>. DEFINE D == {Distance(p, r) : p \in Printable}
<1>1. \A p \in Printable : Distance(p, r) \in Nat
  BY SettingsBounds DEF Distance
<1>2. D \in SUBSET Nat /\ D # {}
  BY <1>1, SettingsBounds
<1>3. PICK m \in D : \A n \in D : m <= n
  BY <1>2, LeastElement
<1>4. PICK p \in Printable : m = Distance(p, r)
  BY <1>3
<1>5. \A q \in Printable : Distance(p, r) <= Distance(q, r)
  BY <1>3, <1>4
<1>. QED BY <1>5

LEMMA PrintedRate ==
  ASSUME NEW r \in Rates
  PROVE  /\ Printed(r) \in Printable \cup {NaN} /\ Printed(r) \in Rates
         /\ r \in Printable \cup {NaN} => Printed(r) = r
<1>1. CASE r = NaN
  BY <1>1 DEF Printed, Rates
<1>2. CASE r # NaN
  <2>1. r \in Int
    BY <1>2 DEF Rates
  <2>2. PICK p \in Printable :
          /\ Printed(r) = p
          /\ \A q \in Printable : Distance(p, r) <= Distance(q, r)
    BY <1>2, <2>1, NearestExists DEF Printed
  <2>3. p \in Int
    BY SettingsBounds
  <2>4. ASSUME r \in Printable PROVE p = r
    <3>1. Distance(p, r) <= Distance(r, r)
      BY <2>2, <2>4
    <3>. QED BY <2>1, <2>3, <3>1 DEF Distance
  <2>. QED BY <1>2, <2>2, <2>3, <2>4 DEF Rates
<1>. QED BY <1>1, <1>2

LEMMA PrintedTwice ==
  ASSUME NEW r \in Rates
  PROVE  Printed(Printed(r)) = Printed(r)
  BY PrintedRate

(* %f reads a printed rate back.                                           *)
LEMMA ScannedBack ==
  ASSUME NEW r \in Rates, NEW old
  PROVE  ScannedRate(RateToken(r), old) = r
<1>1. CASE r = NaN
  BY <1>1 DEF RateToken, ScannedRate, Word, IsNumber
<1>2. CASE r # NaN
  <2>1. r \in Int /\ Grain \in Nat \ {0}
    BY <1>2, SettingsBounds DEF Rates
  <2>. DEFINE n == IF r < 0 THEN -((-r) \div Grain) ELSE r \div Grain
  <2>2. n \in Int
    BY <2>1
  <2>3. RateToken(r) = Decimal(n, r - n * Grain)
    BY <1>2 DEF RateToken
  <2>. HIDE DEF n
  <2>4. ScannedRate(RateToken(r), old) = n * Grain + (r - n * Grain)
    BY <2>3 DEF ScannedRate, IsNumber, Decimal
  <2>5. n * Grain \in Int
    BY <2>1, <2>2
  <2>. QED BY <2>1, <2>4, <2>5
<1>. QED BY <1>1, <1>2

(* What LIST keeps of a configuration.                                     *)
Kept(cfg) == [cfg EXCEPT !.rate = Printed(@)]

LEMMA KeptFields ==
  ASSUME NEW cfg \in ConfigType
  PROVE  /\ Kept(cfg) \in ConfigType
         /\ Kept(cfg).rate = Printed(cfg.rate)
         /\ \A f \in Fields \ {"rate"} : Kept(cfg)[f] = cfg[f]
         /\ [Kept(cfg) EXCEPT !.rate = cfg.rate] = cfg
<1>1. cfg.rate \in Rates
  BY DEF ConfigType
<1>2. Printed(cfg.rate) \in Rates
  BY <1>1, PrintedRate
<1>3. DOMAIN cfg = Fields /\ cfg = [f \in Fields |-> cfg[f]]
  BY ConfigFields DEF ConfigType
<1>4. Kept(cfg) \in ConfigType /\ Kept(cfg).rate = Printed(cfg.rate)
  BY <1>2 DEF Kept, ConfigType
<1>5. \A f \in Fields \ {"rate"} : Kept(cfg)[f] = cfg[f]
  BY <1>3 DEF Kept
<1>6. [Kept(cfg) EXCEPT !.rate = cfg.rate] = cfg
  BY <1>3 DEF Kept, Fields
<1>. QED BY <1>4, <1>5, <1>6

(* Line by line: a line of LIST sets what it was printed from.  The        *)
(* averages that RATE computes are not part of the configuration.          *)
LEMMA CopyRate ==
  ASSUME NEW cfg \in ConfigType, NEW F \in SUBSET Fields, NEW s, Copied(s, cfg, F),
         NEW t, SetLine(t, "RATE", 3), t[3] = RateToken(cfg.rate)
  PROVE  Copied(Replay(s, t), cfg, F \cup {"rate"})
<1>1. ParseCommands(s, t) = SetRate(s, t)
  BY SetRuns DEF Settings
<1>2. ScannedRate(t[3], s.cfg.rate) = cfg.rate /\ cfg.rate \in Rates
  BY ScannedBack DEF ConfigType
<1>. DEFINE New(a) == Outcome([s EXCEPT !.cfg.rate = cfg.rate, !.avg = a], "echo")
<1>3. SetRate(s, t) = {New(a) : a \in UpdateScanAverages(cfg.rate)}
  BY <1>2 DEF SetRate
<1>4. UpdateScanAverages(cfg.rate) # {}
  BY DEF UpdateScanAverages
<1>5. PICK a \in UpdateScanAverages(cfg.rate) : Replay(s, t) = New(a).state
  <2>1. PICK o \in ParseCommands(s, t) : Replay(s, t) = o.state
    <3>1. ParseCommands(s, t) # {}
      BY <1>1, <1>3, <1>4
    <3>. QED BY <3>1, ChosenIn DEF Replay
  <2>. QED BY <1>1, <1>3, <2>1
<1>6. Replay(s, t) = [s EXCEPT !.cfg.rate = cfg.rate, !.avg = a]
  BY <1>5 DEF Outcome
<1>7. a \in 0..(Long - 1)
  BY <1>2, AveragesBounds
<1>8. [s EXCEPT !.cfg.rate = cfg.rate, !.avg = a] \in StateType
  BY <1>2, <1>7 DEF Copied, StateType, ConfigType
<1>9. \A f \in F \cup {"rate"} : [s EXCEPT !.cfg.rate = cfg.rate, !.avg = a].cfg[f] = cfg[f]
  BY DEF Copied, StateType, ConfigType, Fields
<1>. QED BY <1>6, <1>8, <1>9 DEF Copied, StateType

(* A cast leaves a number alone that is in range.                          *)
LEMMA Small ==
  ASSUME NEW n \in Nat \ {0}, NEW x \in 0..(n - 1)
  PROVE  x % n = x
  OBVIOUS

LEMMA CopyFps ==
  ASSUME NEW cfg \in ConfigType, NEW F \in SUBSET Fields, NEW s, Copied(s, cfg, F),
         NEW t, SetLine(t, "FPS", 3), t[3] = Number(cfg.fps)
  PROVE  Copied(Replay(s, t), cfg, F \cup {"fps"})
<1>. DEFINE n == [s EXCEPT !.cfg.fps = cfg.fps]
<1>1. ParseCommands(s, t) = SetFps(s, t)
  BY SetRuns DEF Settings
<1>2. Scanned(t[3], s.cfg.fps) = cfg.fps /\ cfg.fps % Long = cfg.fps
  <2>1. cfg.fps \in 0..(Long - 1) /\ Long \in Nat \ {0}
    BY SettingsBounds DEF ConfigType
  <2>2. cfg.fps % Long = cfg.fps
    BY <2>1, Small
  <2>. QED BY <2>2 DEF Scanned, IsNumber, Number, Decimal
<1>3. SetFps(s, t) = {Outcome(n, "echo")}
  BY <1>2 DEF SetFps, Copied, StateType, ConfigType
<1>4. Replay(s, t) = n
  BY <1>1, <1>3, OneOutcome
<1>5. n \in StateType
  BY DEF Copied, StateType, ConfigType
<1>6. \A f \in F \cup {"fps"} : n.cfg[f] = cfg[f]
  BY DEF Copied, StateType, ConfigType, Fields
<1>7. n.erange = FALSE
  BY DEF Copied, StateType
<1>. QED BY <1>4, <1>5, <1>6, <1>7 DEF Copied

(* A flag is printed as 0 or 1 and read back.                              *)
LEMMA FlagOf ==
  ASSUME NEW b \in BOOLEAN
  PROVE  Flags(Flag(b)) = {b}
<1>1. PICK x \in Int : x = IF b THEN 1 ELSE 0
  OBVIOUS
<1>2. Flags(Flag(b)) = {x % Long # 0}
  BY <1>1 DEF Flags, Flag, IsNumber, Number, Decimal
<1>3. Long \in Nat \ {0} /\ Long > 1
  BY SettingsBounds
<1>4. x % Long = x
  BY <1>1, <1>3, Small
<1>. QED BY <1>1, <1>2, <1>4

LEMMA CopyFtp ==
  ASSUME NEW cfg \in ConfigType, NEW F \in SUBSET Fields, NEW s, Copied(s, cfg, F),
         NEW t, SetLine(t, "ENFTP", 3), t[3] = Flag(cfg.ftp)
  PROVE  Copied(Replay(s, t), cfg, F \cup {"ftp"})
<1>. DEFINE n == [s EXCEPT !.cfg.ftp = cfg.ftp]
<1>1. ParseCommands(s, t) = SetEnFtp(s, t)
  BY SetRuns DEF Settings
<1>2. Flags(t[3]) = {cfg.ftp}
  BY FlagOf DEF ConfigType
<1>3. SetEnFtp(s, t) = {Outcome(n, "echo")}
  BY <1>2 DEF SetEnFtp
<1>4. Replay(s, t) = n
  BY <1>1, <1>3, OneOutcome
<1>5. n \in StateType
  BY DEF Copied, StateType, ConfigType
<1>6. \A f \in F \cup {"ftp"} : n.cfg[f] = cfg[f]
  BY DEF Copied, StateType, ConfigType, Fields
<1>7. n.erange = FALSE
  BY DEF Copied, StateType
<1>. QED BY <1>4, <1>5, <1>6, <1>7 DEF Copied

LEMMA CopyUdp ==
  ASSUME NEW cfg \in ConfigType, NEW F \in SUBSET Fields, NEW s, Copied(s, cfg, F),
         NEW t, SetLine(t, "ENUDP", 3), t[3] = Flag(cfg.udp)
  PROVE  Copied(Replay(s, t), cfg, F \cup {"udp"})
<1>. DEFINE n == [s EXCEPT !.cfg.udp = cfg.udp]
<1>1. ParseCommands(s, t) = SetEnUdp(s, t)
  BY SetRuns DEF Settings
<1>2. Flags(t[3]) = {cfg.udp}
  BY FlagOf DEF ConfigType
<1>3. SetEnUdp(s, t) = {Outcome(n, "echo")}
  BY <1>2 DEF SetEnUdp
<1>4. Replay(s, t) = n
  BY <1>1, <1>3, OneOutcome
<1>5. n \in StateType
  BY DEF Copied, StateType, ConfigType
<1>6. \A f \in F \cup {"udp"} : n.cfg[f] = cfg[f]
  BY DEF Copied, StateType, ConfigType, Fields
<1>7. n.erange = FALSE
  BY DEF Copied, StateType
<1>. QED BY <1>4, <1>5, <1>6, <1>7 DEF Copied

LEMMA CopyIp ==
  ASSUME NEW cfg \in ConfigType, NEW F \in SUBSET Fields, NEW s, Copied(s, cfg, F),
         NEW t, SetLine(t, "IPUDP", 4), t[3] = cfg.ip, t[4] = Number(cfg.port)
  PROVE  Copied(Replay(s, t), cfg, F \cup {"ip", "port"})
<1>. DEFINE n == [s EXCEPT !.cfg.ip = cfg.ip, !.cfg.port = cfg.port]
<1>1. ParseCommands(s, t) = SetIpUdp(s, t)
  BY SetRuns DEF Settings
<1>2. Scanned(t[4], s.cfg.port) = cfg.port /\ cfg.port % Short = cfg.port
  <2>1. cfg.port \in 0..(Short - 1) /\ Short \in Nat \ {0}
    BY SettingsBounds DEF ConfigType
  <2>2. cfg.port % Short = cfg.port
    BY <2>1, Small
  <2>. QED BY <2>2 DEF Scanned, IsNumber, Number, Decimal
<1>3. SetIpUdp(s, t) = {Outcome(n, "echo")}
  BY <1>2 DEF SetIpUdp, Copied, StateType, ConfigType
<1>4. Replay(s, t) = n
  BY <1>1, <1>3, OneOutcome
<1>5. n \in StateType
  BY DEF Copied, StateType, ConfigType
<1>6. \A f \in F \cup {"ip", "port"} : n.cfg[f] = cfg[f]
  BY DEF Copied, StateType, ConfigType, Fields
<1>7. n.erange = FALSE
  BY DEF Copied, StateType
<1>. QED BY <1>4, <1>5, <1>6, <1>7 DEF Copied

LEMMA CopyUnits ==
  ASSUME NEW cfg \in ConfigType, NEW F \in SUBSET Fields, NEW s, Copied(s, cfg, F),
         NEW t, SetLine(t, "UNITS", 3), t[3] = Word(cfg.units)
  PROVE  Copied(Replay(s, t), cfg, F \cup {"units"})
<1>. DEFINE n == [s EXCEPT !.cfg.units = cfg.units]
<1>1. ParseCommands(s, t) = SetUnits(s, t)
  BY SetRuns DEF Settings
<1>2. Letter(t[3]) = cfg.units /\ t[3].word = cfg.units /\ t[3].tail = FALSE
  BY DEF Letter, IsNumber, Word
<1>3. SetUnits(s, t) = {Outcome(n, "echo")}
  BY <1>2 DEF SetUnits, ConfigType
<1>4. Replay(s, t) = n
  BY <1>1, <1>3, OneOutcome
<1>5. n \in StateType
  BY DEF Copied, StateType, ConfigType
<1>6. \A f \in F \cup {"units"} : n.cfg[f] = cfg[f]
  BY DEF Copied, StateType, ConfigType, Fields
<1>7. n.erange = FALSE
  BY DEF Copied, StateType
<1>. QED BY <1>4, <1>5, <1>6, <1>7 DEF Copied

LEMMA CopySim ==
  ASSUME NEW cfg \in ConfigType, NEW F \in SUBSET Fields, NEW s, Copied(s, cfg, F),
         NEW t, SetLine(t, "SIM", 3), t[3] = Number(cfg.sim)
  PROVE  Copied(Replay(s, t), cfg, F \cup {"sim"})
<1>. DEFINE n == [s EXCEPT !.cfg.sim = cfg.sim]
<1>1. ParseCommands(s, t) = SetSim(s, t)
  BY SetRuns DEF Settings
<1>2. /\ IsNumber(t[3]) /\ t[3].number = cfg.sim /\ t[3].tail = FALSE
      /\ cfg.sim \in 0..(Short - 1) /\ Short \in Nat /\ Long \in Nat \ {0} /\ Short < Long
  <2>1. cfg.sim \in 0..(Short - 1) /\ Short \in Nat /\ Long \in Nat \ {0} /\ Short < Long
    BY SettingsBounds DEF ConfigType
  <2>2. t[3] = [number |-> cfg.sim, part |-> 0, tail |-> FALSE]
    BY Zenon DEF Number, Decimal
  <2>. QED BY <2>1, <2>2 DEF IsNumber
<1>8. cfg.sim % Long = cfg.sim /\ ~(cfg.sim >= Long) /\ ~(cfg.sim <= -Long) /\ ~(cfg.sim >= Short)
  BY <1>2, Small
<1>3. SetSim(s, t) = {Outcome(n, "echo")}
  BY <1>2, <1>8 DEF SetSim, Copied
<1>4. Replay(s, t) = n
  BY <1>1, <1>3, OneOutcome
<1>5. n \in StateType
  BY DEF Copied, StateType, ConfigType
<1>6. \A f \in F \cup {"sim"} : n.cfg[f] = cfg[f]
  BY DEF Copied, StateType, ConfigType, Fields
<1>7. n.erange = FALSE
  BY DEF Copied, StateType
<1>. QED BY <1>4, <1>5, <1>6, <1>7 DEF Copied

(* A letter is read with or without the comma behind it.                   *)
LEMMA LetterOf ==
  ASSUME NEW w
  PROVE  Letter(Word(w)) = w /\ Letter(Trailed(Word(w))) = w
  BY DEF Letter, Trailed, Word, IsNumber

(* The line of SET FORMAT that is printed for the formats g.               *)
FormatLine(t, g) ==
  /\ Len(t) = 8
  /\ Letter(t[3]) = "T" /\ Letter(t[4]) = g.T
  /\ Letter(t[5]) = "F" /\ Letter(t[6]) = g.F
  /\ Letter(t[7]) = "B" /\ Letter(t[8]) = g.B

(* The only pair for a type is the last one.                               *)
LEMMA OnlyOne ==
  ASSUME NEW i \in Int
  PROVE  Max({i}) = i
  BY DEF Max

(* BuildDataFormatResponse prints three pairs, which all are accepted.     *)
LEMMA FormatsCopied ==
  ASSUME NEW f \in Formats, NEW g \in Formats, NEW t, FormatLine(t, g)
  PROVE  SetFormats(f, t) = [format |-> g, ok |-> TRUE]
<1>. DEFINE n == (Len(t) - 2) \div 2
            Type(i) == Letter(t[2 * i + 1])
            Fmt(i) == Letter(t[2 * i + 2])
            done == {i \in 1..n : \A j \in 1..i : SetDataFormat(Type(j), Fmt(j))}
            Sets(k) == {i \in done : Type(i) = k}
            New(k) == IF Sets(k) = {} THEN f[k] ELSE Fmt(Max(Sets(k)))
<1>1. SetFormats(f, t) =
        [format |-> [k \in DOMAIN f |-> New(k)], ok |-> done = 1..n /\ Len(t) % 2 = 0]
  BY DEF SetFormats
<1>2. n = 3 /\ Len(t) % 2 = 0
  <2>1. PICK l \in Nat : l = 8
    OBVIOUS
  <2>2. (l - 2) \div 2 = 3 /\ l % 2 = 0
    BY <2>1
  <2>. QED BY <2>1, <2>2 DEF FormatLine
<1>3. /\ Type(1) = "T" /\ Type(2) = "F" /\ Type(3) = "B"
      /\ Fmt(1) = g.T /\ Fmt(2) = g.F /\ Fmt(3) = g.B
  <2>1. /\ 2 * 1 + 1 = 3 /\ 2 * 1 + 2 = 4 /\ 2 * 2 + 1 = 5
        /\ 2 * 2 + 2 = 6 /\ 2 * 3 + 1 = 7 /\ 2 * 3 + 2 = 8
    OBVIOUS
  <2>. QED BY <2>1 DEF FormatLine
<1>. HIDE DEF n, Type, Fmt
<1>4. \A i \in 1..3 : SetDataFormat(Type(i), Fmt(i))
  <2>1. SetDataFormat("T", g.T) /\ SetDataFormat("F", g.F) /\ SetDataFormat("B", g.B)
    BY DEF SetDataFormat, Allowed, Formats
  <2>. QED BY <1>3, <2>1
<1>5. done = 1..3
  BY <1>2, <1>4
<1>. HIDE DEF done
<1>6. Sets("T") = {1} /\ Sets("F") = {2} /\ Sets("B") = {3}
  <2>1. \A i \in 1..3 : i = 1 \/ i = 2 \/ i = 3
    OBVIOUS
  <2>. QED BY <1>3, <1>5, <2>1
<1>7. New("T") = g.T /\ New("F") = g.F /\ New("B") = g.B
  <2>1. Max({1}) = 1 /\ Max({2}) = 2 /\ Max({3}) = 3
    BY OnlyOne
  <2>. HIDE DEF Sets
  <2>. QED BY <1>3, <1>6, <2>1
<1>. HIDE DEF New
<1>8. [k \in DOMAIN f |-> New(k)] = g
  <2>1. DOMAIN f = {"T", "F", "B"} /\ g = [T |-> g.T, F |-> g.F, B |-> g.B]
    BY DEF Formats
  <2>. QED BY <1>7, <2>1
<1>. QED BY <1>1, <1>2, <1>5, <1>8

LEMMA CopyFormat ==
  ASSUME NEW cfg \in ConfigType, NEW F \in SUBSET Fields, NEW s, Copied(s, cfg, F),
         NEW t, SetLine(t, "FORMAT", 2), FormatLine(t, cfg.format)
  PROVE  Copied(Replay(s, t), cfg, F \cup {"format"})
<1>. DEFINE n == [s EXCEPT !.cfg.format = cfg.format]
<1>1. ParseCommands(s, t) = SetFormat(s, t)
  BY SetRuns DEF Settings
<1>2. SetFormats(s.cfg.format, t) = [format |-> cfg.format, ok |-> TRUE]
  BY FormatsCopied DEF Copied, StateType, ConfigType
<1>3. SetFormat(s, t) = {Outcome(n, "echo")}
  BY <1>2 DEF SetFormat
<1>4. Replay(s, t) = n
  BY <1>1, <1>3, OneOutcome
<1>5. n \in StateType
  BY DEF Copied, StateType, ConfigType
<1>6. \A f \in F \cup {"format"} : n.cfg[f] = cfg[f]
  BY DEF Copied, StateType, ConfigType, Fields
<1>7. n.erange = FALSE
  BY DEF Copied, StateType
<1>. QED BY <1>4, <1>5, <1>6, <1>7 DEF Copied

(* The lines of LIST, one by one.                                          *)
Listed(l, cfg) ==
  /\ SetLine(l[1], "RATE", 3) /\ l[1][3] = RateToken(cfg.rate)
  /\ SetLine(l[2], "FPS", 3) /\ l[2][3] = Number(cfg.fps)
  /\ SetLine(l[3], "UNITS", 3) /\ l[3][3] = Word(cfg.units)
  /\ SetLine(l[4], "FORMAT", 2) /\ FormatLine(l[4], cfg.format)
  /\ SetLine(l[5], "TRIG", 2)
  /\ SetLine(l[6], "ENFTP", 3) /\ l[6][3] = Flag(cfg.ftp)
  /\ SetLine(l[7], "ENUDP", 3) /\ l[7][3] = Flag(cfg.udp)
  /\ SetLine(l[8], "IPUDP", 4) /\ l[8][3] = cfg.ip /\ l[8][4] = Number(cfg.port)
  /\ SetLine(l[9], "SIM", 3) /\ l[9][3] = Number(cfg.sim)
  /\ SetLine(l[10], "ECHO", 2) /\ SetLine(l[11], "XITE", 2) /\ SetLine(l[12], "ETOL", 2)

(* A setting printed with one or two arguments.                            *)
LEMMA OneArgument ==
  ASSUME NEW w, NEW a
  PROVE  SetLine(Setting(w, <<a>>), w, 3) /\ Setting(w, <<a>>)[3] = a
<1>1. PICK args \in Seq({a}) : args = <<a>>
  <2>1. <<a>> \in Seq({a})
    BY Single
  <2>. QED BY <2>1
<1>2. Len(args) = 1 /\ args[1] = a
  BY <1>1
<1>3. /\ Len(Setting(w, args)) = 3
      /\ Setting(w, args)[1] = Word("SET") /\ Setting(w, args)[2] = Word(w)
      /\ Setting(w, args)[3] = a
  <2>1. /\ Len(Setting(w, args)) = 2 + Len(args)
        /\ Setting(w, args)[1] = Word("SET") /\ Setting(w, args)[2] = Word(w)
        /\ \A i \in 1..Len(args) : Setting(w, args)[2 + i] = args[i]
    BY SettingIs
  <2>2. Setting(w, args)[2 + 1] = a
    BY <1>2, <2>1
  <2>. QED BY <1>2, <2>1, <2>2
<1>. QED BY <1>1, <1>3 DEF SetLine

LEMMA TwoArguments ==
  ASSUME NEW w, NEW a, NEW b
  PROVE  /\ SetLine(Setting(w, <<a, b>>), w, 4)
         /\ Setting(w, <<a, b>>)[3] = a /\ Setting(w, <<a, b>>)[4] = b
<1>1. PICK args \in Seq({a, b}) : args = <<a, b>>
  <2>1. <<a, b>> \in Seq({a, b})
    BY Pair
  <2>. QED BY <2>1
<1>2. Len(args) = 2 /\ args[1] = a /\ args[2] = b
  BY <1>1
<1>3. /\ Len(Setting(w, args)) = 4
      /\ Setting(w, args)[1] = Word("SET") /\ Setting(w, args)[2] = Word(w)
      /\ Setting(w, args)[3] = a /\ Setting(w, args)[4] = b
  <2>1. /\ Len(Setting(w, args)) = 2 + Len(args)
        /\ Setting(w, args)[1] = Word("SET") /\ Setting(w, args)[2] = Word(w)
        /\ \A i \in 1..Len(args) : Setting(w, args)[2 + i] = args[i]
    BY SettingIs
  <2>2. Setting(w, args)[2 + 1] = a /\ Setting(w, args)[2 + 2] = b
    BY <1>2, <2>1
  <2>. QED BY <1>2, <2>1, <2>2
<1>. QED BY <1>1, <1>3 DEF SetLine

(* A sequence by its elements.                                             *)
LEMMA Indexed ==
  ASSUME NEW X, NEW n \in Nat, NEW s, s = [i \in 1..n |-> s[i]],
         \A i \in 1..n : s[i] \in X
  PROVE  s \in Seq(X)
  OBVIOUS

(* l is a, b and c in a row, of six, two and four elements.                *)
InARow(l, a, b, c) ==
  /\ Len(l) = 12
  /\ l[1] = a[1] /\ l[2] = a[2] /\ l[3] = a[3]
  /\ l[4] = a[4] /\ l[5] = a[5] /\ l[6] = a[6]
  /\ l[7] = b[1] /\ l[8] = b[2]
  /\ l[9] = c[1] /\ l[10] = c[2] /\ l[11] = c[3] /\ l[12] = c[4]

LEMMA ThreeJoined ==
  ASSUME NEW X, NEW a \in Seq(X), NEW b \in Seq(X), NEW c \in Seq(X)
  PROVE  Len(a) = 6 /\ Len(b) = 2 /\ Len(c) = 4 => InARow((a \o b) \o c, a, b, c)
<1>. DEFINE ab == a \o b
            l == ab \o c
<1>1. /\ ab \in Seq(X) /\ Len(ab) = Len(a) + Len(b)
      /\ \A i \in 1..Len(a) : ab[i] = a[i]
      /\ \A i \in 1..Len(b) : ab[Len(a) + i] = b[i]
  BY Joined
<1>. HIDE DEF ab
<1>2. /\ Len(l) = Len(ab) + Len(c)
      /\ \A i \in 1..Len(ab) : l[i] = ab[i]
      /\ \A i \in 1..Len(c) : l[Len(ab) + i] = c[i]
  <2>1. ab \in Seq(X)
    BY <1>1
  <2>. QED BY <2>1, Joined
<1>. HIDE DEF l
<1>3. ASSUME Len(a) = 6, Len(b) = 2, Len(c) = 4
      PROVE  InARow(l, a, b, c)
  <2>1. Len(ab) = 8
    BY <1>1, <1>3
  <2>2. /\ ab[1] = a[1] /\ ab[2] = a[2] /\ ab[3] = a[3]
        /\ ab[4] = a[4] /\ ab[5] = a[5] /\ ab[6] = a[6]
        /\ ab[6 + 1] = b[1] /\ ab[6 + 2] = b[2]
    BY <1>1, <1>3
  <2>3. /\ l[1] = ab[1] /\ l[2] = ab[2] /\ l[3] = ab[3] /\ l[4] = ab[4]
        /\ l[5] = ab[5] /\ l[6] = ab[6] /\ l[7] = ab[7] /\ l[8] = ab[8]
    BY <1>2, <2>1
  <2>4. l[8 + 1] = c[1] /\ l[8 + 2] = c[2] /\ l[8 + 3] = c[3] /\ l[8 + 4] = c[4]
    BY <1>2, <1>3, <2>1
  <2>5. Len(l) = 12
    BY <1>2, <1>3, <2>1
  <2>. QED BY <2>2, <2>3, <2>4, <2>5 DEF InARow
<1>. QED BY <1>3 DEF l, ab

(* The line of FORMAT.                                                     *)
LEMMA FormatListed ==
  ASSUME NEW g
  PROVE  LET t == Setting("FORMAT", DataFormatResponse(g))
         IN  SetLine(t, "FORMAT", 2) /\ FormatLine(t, g)
<1>. DEFINE T == {Word("T"), Trailed(Word(g.T)), Word("F"), Trailed(Word(g.F)),
                  Word("B"), Word(g.B)}
            t == Setting("FORMAT", DataFormatResponse(g))
<1>1. PICK args \in Seq(T) : args = DataFormatResponse(g)
  <2>1. DataFormatResponse(g) \in Seq(T)
    <3>1. DataFormatResponse(g) = [i \in 1..6 |-> DataFormatResponse(g)[i]]
      BY DEF DataFormatResponse
    <3>2. \A i \in 1..6 : DataFormatResponse(g)[i] \in T
      BY DEF DataFormatResponse
    <3>. QED BY <3>1, <3>2, Indexed
  <2>. QED BY <2>1
<1>2. /\ Len(args) = 6 /\ args[1] = Word("T") /\ args[2] = Trailed(Word(g.T))
      /\ args[3] = Word("F") /\ args[4] = Trailed(Word(g.F))
      /\ args[5] = Word("B") /\ args[6] = Word(g.B)
  BY <1>1 DEF DataFormatResponse
<1>. HIDE DEF T
<1>3. /\ Len(t) = 2 + Len(args) /\ t[1] = Word("SET") /\ t[2] = Word("FORMAT")
      /\ \A i \in 1..Len(args) : t[2 + i] = args[i]
  BY <1>1, SettingIs
<1>. HIDE DEF t
<1>4. t[2 + 1] = args[1] /\ t[2 + 2] = args[2] /\ t[2 + 3] = args[3]
  BY <1>2, <1>3
<1>5. t[2 + 4] = args[4] /\ t[2 + 5] = args[5] /\ t[2 + 6] = args[6]
  BY <1>2, <1>3
<1>6. Len(t) = 8 /\ t[3] = args[1] /\ t[4] = args[2] /\ t[5] = args[3]
  BY <1>2, <1>3, <1>4
<1>7. t[6] = args[4] /\ t[7] = args[5] /\ t[8] = args[6]
  BY <1>5
<1>8. FormatLine(t, g)
  BY <1>2, <1>6, <1>7, LetterOf DEF FormatLine
<1>9. SetLine(t, "FORMAT", 2)
  BY <1>3, <1>6 DEF SetLine
<1>. QED BY <1>8, <1>9 DEF t

(* LIST S, LIST UDP and LIST M print these lines.                          *)
LEMMA LinesListed ==
  ASSUME NEW cfg \in ConfigType
  PROVE  Len(Lines(cfg)) = 12 /\ Listed(Lines(cfg), Kept(cfg))
<1>. DEFINE X == {ListS(cfg)[i] : i \in 1..6} \cup {ListUdp(cfg)[i] : i \in 1..2}
                 \cup {ListM(cfg)[i] : i \in 1..4}
<1>1. PICK a \in Seq(X) : a = ListS(cfg) /\ Len(a) = 6
  <2>1. Len(ListS(cfg)) = 6 /\ ListS(cfg) = [i \in 1..6 |-> ListS(cfg)[i]]
    BY DEF ListS
  <2>2. ListS(cfg) \in Seq(X)
    BY <2>1, Indexed
  <2>. QED BY <2>1, <2>2
<1>2. PICK b \in Seq(X) : b = ListUdp(cfg) /\ Len(b) = 2
  <2>1. Len(ListUdp(cfg)) = 2 /\ ListUdp(cfg) = [i \in 1..2 |-> ListUdp(cfg)[i]]
    BY DEF ListUdp
  <2>2. ListUdp(cfg) \in Seq(X)
    BY <2>1, Indexed
  <2>. QED BY <2>1, <2>2
<1>3. PICK c \in Seq(X) : c = ListM(cfg) /\ Len(c) = 4
  <2>1. Len(ListM(cfg)) = 4 /\ ListM(cfg) = [i \in 1..4 |-> ListM(cfg)[i]]
    BY DEF ListM
  <2>2. ListM(cfg) \in Seq(X)
    BY <2>1, Indexed
  <2>. QED BY <2>1, <2>2
<1>. HIDE DEF X
<1>4. PICK l \in Seq(X) : l = (a \o b) \o c
  BY Joined
<1>6. Lines(cfg) = l
  BY <1>1, <1>2, <1>3, <1>4 DEF Lines
<1>5. Len(a) = 6 /\ Len(b) = 2 /\ Len(c) = 4
  BY <1>1, <1>2, <1>3
<1>7. /\ Len(l) = 12
      /\ l[1] = a[1] /\ l[2] = a[2] /\ l[3] = a[3] /\ l[4] = a[4] /\ l[5] = a[5] /\ l[6] = a[6]
      /\ l[7] = b[1] /\ l[8] = b[2] /\ l[9] = c[1] /\ l[10] = c[2] /\ l[11] = c[3] /\ l[12] = c[4]
  <2>1. Len(a) = 6 /\ Len(b) = 2 /\ Len(c) = 4 => InARow((a \o b) \o c, a, b, c)
    BY ThreeJoined
  <2>2. InARow(l, a, b, c)
    BY <1>4, <1>5, <2>1, Zenon
  <2>. QED BY <2>2 DEF InARow
<1>8. /\ l[1] = Setting("RATE", <<RateToken(Printed(cfg.rate))>>)
      /\ l[2] = Setting("FPS", <<Number(cfg.fps)>>)
      /\ l[3] = Setting("UNITS", <<Word(cfg.units), Word("factor")>>)
      /\ l[4] = Setting("FORMAT", DataFormatResponse(cfg.format))
      /\ l[5] = Setting("TRIG", <<Number(0), Empty>>)
      /\ l[6] = Setting("ENFTP", <<Flag(cfg.ftp), Empty>>)
  BY <1>1, <1>7 DEF ListS
<1>9. /\ l[7] = Setting("ENUDP", <<Flag(cfg.udp)>>)
      /\ l[8] = Setting("IPUDP", <<cfg.ip, Number(cfg.port)>>)
  BY <1>2, <1>7 DEF ListUdp
<1>10. /\ l[9] = Setting("SIM", <<Number(cfg.sim)>>) /\ l[10] = Setting("ECHO", <<Number(1)>>)
       /\ l[11] = Setting("XITE", <<Number(2)>>) /\ l[12] = Setting("ETOL", <<Number(0)>>)
  BY <1>3, <1>7 DEF ListM
<1>11. \A t, w : SetLine(t, w, 4) \/ SetLine(t, w, 3) => SetLine(t, w, 3) /\ SetLine(t, w, 2)
  BY DEF SetLine
<1>12. /\ SetLine(l[1], "RATE", 3) /\ l[1][3] = RateToken(Printed(cfg.rate))
       /\ SetLine(l[2], "FPS", 3) /\ l[2][3] = Number(cfg.fps)
       /\ SetLine(l[7], "ENUDP", 3) /\ l[7][3] = Flag(cfg.udp)
       /\ SetLine(l[9], "SIM", 3) /\ l[9][3] = Number(cfg.sim)
  <2>1. SetLine(l[1], "RATE", 3) /\ l[1][3] = RateToken(Printed(cfg.rate))
    BY <1>8, OneArgument
  <2>2. SetLine(l[2], "FPS", 3) /\ l[2][3] = Number(cfg.fps)
    BY <1>8, OneArgument
  <2>3. SetLine(l[7], "ENUDP", 3) /\ l[7][3] = Flag(cfg.udp)
    BY <1>9, OneArgument
  <2>4. SetLine(l[9], "SIM", 3) /\ l[9][3] = Number(cfg.sim)
    BY <1>10, OneArgument
  <2>. QED BY <2>1, <2>2, <2>3, <2>4
<1>13. /\ SetLine(l[3], "UNITS", 3) /\ l[3][3] = Word(cfg.units)
       /\ SetLine(l[6], "ENFTP", 3) /\ l[6][3] = Flag(cfg.ftp)
       /\ SetLine(l[8], "IPUDP", 4) /\ l[8][3] = cfg.ip /\ l[8][4] = Number(cfg.port)
  BY <1>8, <1>9, <1>11, TwoArguments
<1>14. /\ SetLine(l[5], "TRIG", 2) /\ SetLine(l[10], "ECHO", 2)
       /\ SetLine(l[11], "XITE", 2) /\ SetLine(l[12], "ETOL", 2)
  BY <1>8, <1>10, <1>11, OneArgument, TwoArguments
<1>15. SetLine(l[4], "FORMAT", 2) /\ FormatLine(l[4], cfg.format)
  BY <1>8, FormatListed
<1>16. /\ Kept(cfg).rate = Printed(cfg.rate)
       /\ Kept(cfg).fps = cfg.fps /\ Kept(cfg).udp = cfg.udp /\ Kept(cfg).sim = cfg.sim
       /\ Kept(cfg).units = cfg.units /\ Kept(cfg).ftp = cfg.ftp /\ Kept(cfg).ip = cfg.ip
       /\ Kept(cfg).port = cfg.port /\ Kept(cfg).format = cfg.format
  BY KeptFields DEF Fields
<1>. QED BY <1>6, <1>7, <1>12, <1>13, <1>14, <1>15, <1>16 DEF Listed

(* After the twelve lines every setting is copied.                         *)
LEMMA ReplayedLines ==
  ASSUME NEW cfg \in ConfigType, NEW l, Listed(l, cfg), NEW r,
         r[0] = Fresh, \A i \in 1..12 : r[i] = Replay(r[i - 1], l[i])
  PROVE  r[12].cfg = cfg
<1>. DEFINE In(i, F) == Copied(r[i], cfg, F)
<1>1. In(0, {})
  BY FreshTyped DEF Copied, Fresh
<1>2. /\ r[1] = Replay(r[0], l[1]) /\ r[2] = Replay(r[1], l[2]) /\ r[3] = Replay(r[2], l[3])
      /\ r[4] = Replay(r[3], l[4]) /\ r[5] = Replay(r[4], l[5]) /\ r[6] = Replay(r[5], l[6])
      /\ r[7] = Replay(r[6], l[7]) /\ r[8] = Replay(r[7], l[8]) /\ r[9] = Replay(r[8], l[9])
      /\ r[10] = Replay(r[9], l[10]) /\ r[11] = Replay(r[10], l[11])
      /\ r[12] = Replay(r[11], l[12])
  OBVIOUS
<1>. DEFINE F1 == {"rate"}
            F2 == F1 \cup {"fps"}
            F3 == F2 \cup {"units"}
            F4 == F3 \cup {"format"}
            F6 == F4 \cup {"ftp"}
            F7 == F6 \cup {"udp"}
            F8 == F7 \cup {"ip", "port"}
            F9 == F8 \cup {"sim"}
<1>3. /\ {} \in SUBSET Fields /\ F1 \in SUBSET Fields /\ F2 \in SUBSET Fields
      /\ F3 \in SUBSET Fields /\ F4 \in SUBSET Fields /\ F6 \in SUBSET Fields
      /\ F7 \in SUBSET Fields /\ F8 \in SUBSET Fields /\ F9 = Fields
  BY DEF Fields
<1>4. In(1, F1)
  <2>1. {} \cup {"rate"} = F1
    OBVIOUS
  <2>. HIDE DEF F1
  <2>. QED BY <1>1, <1>2, <1>3, <2>1, CopyRate DEF Listed
<1>. HIDE DEF F1
<1>5. In(2, F2)
  BY <1>2, <1>3, <1>4, CopyFps DEF Listed
<1>. HIDE DEF F2
<1>6. In(3, F3)
  BY <1>2, <1>3, <1>5, CopyUnits DEF Listed
<1>. HIDE DEF F3
<1>7. In(4, F4)
  BY <1>2, <1>3, <1>6, CopyFormat DEF Listed
<1>. HIDE DEF F4
<1>8. In(5, F4)
  <2>1. "TRIG" \notin DOMAIN Settings
    BY DEF Settings
  <2>2. SetLine(l[5], "TRIG", 2)
    BY DEF Listed
  <2>3. Replay(r[4], l[5]) = r[4]
    BY <2>1, <2>2, UnknownRefused DEF SetLine
  <2>. QED BY <1>2, <1>7, <2>3
<1>9. In(6, F6)
  BY <1>2, <1>3, <1>8, CopyFtp DEF Listed
<1>. HIDE DEF F6
<1>10. In(7, F7)
  BY <1>2, <1>3, <1>9, CopyUdp DEF Listed
<1>. HIDE DEF F7
<1>11. In(8, F8)
  BY <1>2, <1>3, <1>10, CopyIp DEF Listed
<1>. HIDE DEF F8
<1>12. In(9, F9)
  BY <1>2, <1>3, <1>11, CopySim DEF Listed
<1>. HIDE DEF F9
<1>13. In(12, F9)
  <2>1. "ECHO" \notin DOMAIN Settings /\ "XITE" \notin DOMAIN Settings
        /\ "ETOL" \notin DOMAIN Settings
    BY DEF Settings
  <2>2. r[10] = r[9]
    <3>1. SetLine(l[10], "ECHO", 2)
      BY DEF Listed
    <3>2. Replay(r[9], l[10]) = r[9]
      BY <2>1, <3>1, UnknownRefused DEF SetLine
    <3>. QED BY <1>2, <3>2
  <2>3. r[11] = r[10]
    <3>1. SetLine(l[11], "XITE", 2)
      BY DEF Listed
    <3>2. Replay(r[10], l[11]) = r[10]
      BY <2>1, <3>1, UnknownRefused DEF SetLine
    <3>. QED BY <1>2, <3>2
  <2>4. r[12] = r[11]
    <3>1. SetLine(l[12], "ETOL", 2)
      BY DEF Listed
    <3>2. Replay(r[11], l[12]) = r[11]
      BY <2>1, <3>1, UnknownRefused DEF SetLine
    <3>. QED BY <1>2, <3>2
  <2>. QED BY <1>12, <2>2, <2>3, <2>4
<1>. QED BY <1>3, <1>13, AllCopied

(* What is computed line by line is a function, given by its 13 values.    *)
LEMMA ReplayExists ==
  ASSUME NEW l
  PROVE  \E r : r = [i \in 0..12 |-> IF i = 0 THEN Fresh ELSE Replay(r[i - 1], l[i])]
<1>. DEFINE s1 == Replay(Fresh, l[1])
            s2 == Replay(s1, l[2])
            s3 == Replay(s2, l[3])
            s4 == Replay(s3, l[4])
            s5 == Replay(s4, l[5])
            s6 == Replay(s5, l[6])
            s7 == Replay(s6, l[7])
            s8 == Replay(s7, l[8])
            s9 == Replay(s8, l[9])
            s10 == Replay(s9, l[10])
            s11 == Replay(s10, l[11])
            s12 == Replay(s11, l[12])
            At(i) == IF i = 0 THEN Fresh ELSE IF i = 1 THEN s1 ELSE IF i = 2 THEN s2
                     ELSE IF i = 3 THEN s3 ELSE IF i = 4 THEN s4 ELSE IF i = 5 THEN s5
                     ELSE IF i = 6 THEN s6 ELSE IF i = 7 THEN s7 ELSE IF i = 8 THEN s8
                     ELSE IF i = 9 THEN s9 ELSE IF i = 10 THEN s10
                     ELSE IF i = 11 THEN s11 ELSE s12
            r == [i \in 0..12 |-> At(i)]
<1>1. ASSUME NEW i \in 1..12 PROVE At(i) = Replay(At(i - 1), l[i])
  <2>1. s1 = Replay(Fresh, l[1]) /\ s2 = Replay(s1, l[2]) /\ s3 = Replay(s2, l[3])
    OBVIOUS
  <2>2. s4 = Replay(s3, l[4]) /\ s5 = Replay(s4, l[5]) /\ s6 = Replay(s5, l[6])
    OBVIOUS
  <2>3. s7 = Replay(s6, l[7]) /\ s8 = Replay(s7, l[8]) /\ s9 = Replay(s8, l[9])
    OBVIOUS
  <2>4. s10 = Replay(s9, l[10]) /\ s11 = Replay(s10, l[11]) /\ s12 = Replay(s11, l[12])
    OBVIOUS
  <2>. HIDE DEF s1, s2, s3, s4, s5, s6, s7, s8, s9, s10, s11, s12
  <2>. QED BY <2>1, <2>2, <2>3, <2>4
<1>2. At(0) = Fresh
  OBVIOUS
<1>. HIDE DEF At
<1>3. r = [i \in 0..12 |-> IF i = 0 THEN Fresh ELSE Replay(r[i - 1], l[i])]
  <2>1. ASSUME NEW i \in 0..12
        PROVE  At(i) = IF i = 0 THEN Fresh ELSE Replay(r[i - 1], l[i])
    <3>1. CASE i = 0
      BY <1>2, <3>1
    <3>2. CASE i # 0
      <4>1. i \in 1..12 /\ i - 1 \in 0..12
        BY <3>2
      <4>2. r[i - 1] = At(i - 1)
        BY <4>1
      <4>. QED BY <1>1, <3>2, <4>1, <4>2
    <3>. QED BY <3>1, <3>2
  <2>. QED BY <2>1
<1>. HIDE DEF r
<1>. QED BY <1>3

(* The lines of what LIST keeps are those of the configuration itself.     *)
LEMMA SameLines ==
  ASSUME NEW cfg \in ConfigType
  PROVE  Lines(Kept(cfg)) = Lines(cfg)
<1>. DEFINE k == Kept(cfg)
<1>1. Printed(k.rate) = Printed(cfg.rate)
  BY KeptFields, PrintedTwice DEF ConfigType
<1>2. /\ k.fps = cfg.fps /\ k.udp = cfg.udp /\ k.sim = cfg.sim
      /\ k.units = cfg.units /\ k.ftp = cfg.ftp /\ k.ip = cfg.ip
      /\ k.port = cfg.port /\ k.format = cfg.format
  BY KeptFields DEF Fields
<1>. HIDE DEF k
<1>3. ListS(k) = ListS(cfg)
  BY <1>1, <1>2, Zenon DEF ListS
<1>4. ListUdp(k) = ListUdp(cfg) /\ ListM(k) = ListM(cfg)
  BY <1>2, Zenon DEF ListUdp, ListM
<1>5. Lines(k) = Lines(cfg)
  BY <1>3, <1>4, Zenon DEF Lines
<1>. QED BY <1>5 DEF k

(* The lines that LIST S, LIST UDP and LIST M print in any state that a    *)
(* session reaches, sent to a device as OnAttach leaves it, configure it   *)
(* like the one that printed them, with the rate that was printed, which   *)
(* is the one that was set if it has few digits enough; the two devices    *)
(* then print the same lines.                                              *)
THEOREM Replays == SessionSpec => []ListReplays
<1>1. ASSUME SessionInv PROVE ListReplays
  <2>. DEFINE l == Lines(state.cfg)
              r[i \in 0..12] == IF i = 0 THEN Fresh ELSE Replay(r[i - 1], l[i])
  <2>0. state.cfg \in ConfigType /\ state.cfg.rate \in Rates
    BY <1>1 DEF SessionInv, SessionType, StateType, ConfigType
  <2>1. Len(l) = 12 /\ Listed(l, Kept(state.cfg))
    BY <2>0, LinesListed
  <2>. HIDE DEF l
  <2>2. r = [i \in 0..12 |-> IF i = 0 THEN Fresh ELSE Replay(r[i - 1], l[i])]
    BY ReplayExists
  <2>. HIDE DEF r
  <2>3. r[0] = Fresh /\ \A i \in 1..12 : r[i] = Replay(r[i - 1], l[i])
    BY <2>2
  <2>4. Kept(state.cfg) \in ConfigType
    BY <2>0, KeptFields
  <2>5. r[12].cfg = Kept(state.cfg)
    BY <2>1, <2>3, <2>4, ReplayedLines
  <2>6. Replayed(Lines(state.cfg)) = Kept(state.cfg)
    BY <2>1, <2>5 DEF Replayed, l, r
  <2>7. state.cfg.rate \in Printable \cup {NaN} => Kept(state.cfg) = state.cfg
    <3>1. SUFFICES ASSUME state.cfg.rate \in Printable \cup {NaN}
                   PROVE  Kept(state.cfg) = state.cfg
      OBVIOUS
    <3>2. Printed(state.cfg.rate) = state.cfg.rate
      BY <2>0, <3>1, PrintedRate
    <3>. QED BY <2>0, <3>2 DEF Kept, ConfigType
  <2>. QED BY <2>0, <2>6, <2>7, KeptFields, SameLines, Zenon DEF ListReplays
<1>. QED BY <1>1, SessionInvariance, PTL
=============================================================================
