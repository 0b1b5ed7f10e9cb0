--------------------------- MODULE DnsWireProofs ----------------------------
(***************************************************************************)
(* For every set of datagrams and every limit on hops: Parse's cursor      *)
(* stays inside the message and never goes back; and a reply is decoded to *)
(* what the server put in, or, when it is cut off anywhere, rejected.      *)
(***************************************************************************)
EXTENDS DnsReply, ConcatProofs

\* Two bytes of the message are a number (binary.BigEndian.Uint16).
LEMMA WordsAreNumbers ==
    ASSUME msg \in Seq(Byte), NEW o \in Nat, o + 1 < Size
    PROVE Word(o) \in Nat
  <1>1. o + 1 \in 1..Len(msg) /\ o + 2 \in 1..Len(msg)
    BY DEF Size
  <1>2. msg[o + 1] \in Byte /\ msg[o + 2] \in Byte
    BY <1>1, ElementOfSeq
  <1>3. At(o) \in Nat /\ At(o + 1) \in Nat
    <2>1. At(o) = msg[o + 1] /\ At(o + 1) = msg[o + 2]
      <3>1. o + 1 + 1 = o + 2
        OBVIOUS
      <3>2. QED
        BY <3>1, Zenon DEF At
    <2>2. Byte \subseteq Nat
      BY DEF Byte
    <2>3. QED
      BY <1>2, <2>1, <2>2, Zenon
  <1>4. QED
    BY <1>3 DEF Word

\* A part of the message is again a sequence of bytes (labels and RDATA).
LEMMA PartsAreBytes ==
    ASSUME msg \in Seq(Byte), NEW a \in Nat \ {0}, NEW b \in Nat, b <= Size
    PROVE SubSeq(msg, a, b) \in Seq(Byte)
  <1>1. \A n \in a..b : n \in 1..Len(msg)
    BY DEF Size
  <1>2. \A n \in a..b : msg[n] \in Byte
    BY <1>1, ElementOfSeq
  <1>3. QED
    BY <1>2, SubSeqProperties

\* The name that Parse is about to read, or has begun to, is behind the cursor.
LEMMA EndIsInside ==
    ASSUME WireInv, Reading, NEW o \in Nat, name.pos < o, o <= Size
    PROVE EndOr(o) \in Nat /\ off < EndOr(o) /\ EndOr(o) <= Size
  BY DEF WireInv, TypeOK, CursorInside, Reading, EndOr, NoEnd, Size

LEMMA InitInside == Init => WireInv
  <1> SUFFICES ASSUME Init PROVE WireInv
    OBVIOUS
  <1>1. msg \in Seq(Byte)
    BY WireAssumption DEF Init
  <1>2. TypeOK
    BY <1>1, WireAssumption DEF Init, TypeOK, FreshName, NoEnd
  <1>3. CursorInside
    BY <1>1 DEF Init, CursorInside, Size
  <1>4. QED
    BY <1>2, <1>3 DEF WireInv

\* The steps of Parse's own loops.
LEMMA ParseInside ==
    ASSUME WireInv, Header \/ NotAResponse \/ BeginRecord \/ NextSection \/ CutRecord \/ BadName
    PROVE WireInv'
  <1> USE WireAssumption DEF WireInv
  <1>1. CASE Header
    BY <1>1 DEF Header, IsResponse, TypeOK, CursorInside, Size, HeaderSize
  <1>2. CASE NotAResponse
    BY <1>2 DEF NotAResponse, Reject, TypeOK, CursorInside, Size
  <1>3. CASE BeginRecord
    BY <1>3 DEF BeginRecord, FreshName, NoEnd, TypeOK, CursorInside, Size
  <1>4. CASE NextSection
    BY <1>4 DEF NextSection, TypeOK, CursorInside, Size
  <1>5. CASE CutRecord
    BY <1>5 DEF CutRecord, Reject, TypeOK, CursorInside, Size
  <1>6. CASE BadName
    BY <1>6 DEF BadName, Reject, TypeOK, CursorInside, Size
  <1>7. QED
    BY <1>1, <1>2, <1>3, <1>4, <1>5, <1>6

LEMMA TerminatorInside ==
    ASSUME WireInv, Terminator
    PROVE WireInv' /\ off < off'
  <1>1. name.pos \in Nat /\ name.pos + 1 \in Nat /\ name.pos + 1 <= Size
    BY DEF WireInv, TypeOK, Terminator, Reading, Size
  <1>2. off' \in Nat /\ off < off' /\ off' <= Size
    BY <1>1, EndIsInside DEF Terminator
  <1>3. TypeOK'
    BY <1>2 DEF WireInv, TypeOK, Terminator
  <1>4. HeaderSize <= off
    BY DEF WireInv, CursorInside, Terminator, Reading
  <1>5. CursorInside'
    BY <1>2, <1>4 DEF WireInv, TypeOK, CursorInside, Terminator, Size, HeaderSize
  <1>6. QED
    BY <1>2, <1>3, <1>5 DEF WireInv

LEMMA PointerInside ==
    ASSUME WireInv, Pointer
    PROVE WireInv' /\ off' = off
  <1>1. /\ name.pos \in Nat
        /\ name.hops \in Nat
        /\ name.hops <= MaxHops
        /\ name.pos + 2 <= Size
        /\ Size \in Nat
    BY WireAssumption DEF WireInv, TypeOK, Pointer, Reading, IsPointer, Size
  <1>2. Word(name.pos) % 16384 \in Nat
    <2>1. Word(name.pos) \in Nat
      BY <1>1, WordsAreNumbers DEF WireInv, TypeOK
    <2>2. QED
      BY <2>1
  <1>3. /\ EndOr(name.pos + 2) \in Nat
        /\ off < EndOr(name.pos + 2)
        /\ EndOr(name.pos + 2) <= Size
    BY <1>1, EndIsInside DEF Pointer
  <1>4. TypeOK'
    <2>1. name.hops + 1 \in 0..MaxHops + 1 /\ TypeOK
      BY <1>1, WireAssumption DEF WireInv
    <2>2. name' \in [pos : Nat, hops : 0..MaxHops + 1, end : Nat \cup {NoEnd}, labels : Seq(Seq(Byte))]
      BY <1>2, <1>3, <2>1 DEF TypeOK, Pointer
    <2>3. QED
      BY <2>1, <2>2 DEF TypeOK, Pointer
  <1>5. CursorInside'
    BY <1>3 DEF WireInv, TypeOK, CursorInside, Pointer, Reading, Size, NoEnd
  <1>6. QED
    BY <1>4, <1>5 DEF WireInv, Pointer

LEMMA LabelInside ==
    ASSUME WireInv, Label
    PROVE WireInv' /\ off' = off
  <1>1. /\ name.pos \in Nat
        /\ name.hops \in Nat
        /\ name.hops <= MaxHops
        /\ Length \in Nat \ {0}
        /\ name.pos + 1 + Length <= Size
    <2>1. name \in [pos : Nat, hops : 0..MaxHops + 1, end : Nat \cup {NoEnd}, labels : Seq(Seq(Byte))]
      BY DEF WireInv, TypeOK
    <2>2. name.hops <= MaxHops /\ Length \in 1..63 /\ name.pos + 1 + Length <= Size
      BY DEF Label, Reading, IsLabel
    <2>3. QED
      BY <2>1, <2>2, WireAssumption
  <1>2. LabelText \in Seq(Byte)
    <2>1. name.pos + 2 \in Nat \ {0} /\ name.pos + 1 + Length \in Nat
      BY <1>1
    <2>2. msg \in Seq(Byte)
      BY DEF WireInv, TypeOK
    <2>3. QED
      BY <1>1, <2>1, <2>2, PartsAreBytes DEF LabelText
  <1>3. Append(name.labels, LabelText) \in Seq(Seq(Byte))
    BY <1>2 DEF WireInv, TypeOK
  <1>4. TypeOK'
    <2>1. name.pos + 1 + Length \in Nat /\ name.hops + 1 \in 0..MaxHops + 1 /\ TypeOK
      BY <1>1, WireAssumption DEF WireInv
    <2>2. name' \in [pos : Nat, hops : 0..MaxHops + 1, end : Nat \cup {NoEnd}, labels : Seq(Seq(Byte))]
      BY <1>3, <2>1 DEF TypeOK, Label
    <2>3. QED
      BY <2>1, <2>2 DEF TypeOK, Label
  <1>5. CursorInside'
    BY <1>1 DEF WireInv, TypeOK, CursorInside, Label, Reading, Size, NoEnd
  <1>6. QED
    BY <1>4, <1>5 DEF WireInv, Label

LEMMA QuestionInside ==
    ASSUME WireInv, QuestionTail
    PROVE WireInv' /\ off < off'
  <1>1. TypeOK'
    BY DEF WireInv, TypeOK, QuestionTail
  <1>2. CursorInside'
    BY DEF WireInv, TypeOK, CursorInside, QuestionTail, QuestionFits, Size, HeaderSize
  <1>3. QED
    BY <1>1, <1>2 DEF WireInv, TypeOK, QuestionTail

LEMMA AnswerInside ==
    ASSUME WireInv, AnswerTail
    PROVE WireInv' /\ off < off'
  <1>1. off \in Nat /\ off + 10 <= Size /\ Size \in Nat
    BY DEF WireInv, TypeOK, AnswerTail, AnswerFits, Size
  <1>2. RdLength \in Nat
    BY <1>1, WordsAreNumbers DEF WireInv, TypeOK, RdLength
  <1>3. RData \in Seq(Byte)
    <2>1. off + 11 \in Nat \ {0} /\ off + 10 + RdLength \in Nat
      BY <1>1, <1>2
    <2>2. msg \in Seq(Byte) /\ off + 10 + RdLength <= Size
      BY DEF WireInv, TypeOK, AnswerTail, AnswerFits
    <2>3. QED
      BY <2>1, <2>2, PartsAreBytes DEF RData
  <1>4. addrs' \in Seq(Seq(Byte))
    BY <1>3 DEF WireInv, TypeOK, AnswerTail
  <1>5. off' \in Nat /\ off < off' /\ off' <= Size
    BY <1>1, <1>2 DEF AnswerTail, AnswerEnd, AnswerFits
  <1>6. TypeOK'
    BY <1>4, <1>5 DEF WireInv, TypeOK, AnswerTail
  <1>7. CursorInside'
    BY <1>1, <1>5 DEF WireInv, CursorInside, AnswerTail, Size, HeaderSize
  <1>8. QED
    BY <1>5, <1>6, <1>7 DEF WireInv

\* Every step keeps the invariant.
LEMMA NextInside == WireInv /\ [Next]_vars => WireInv'
<1> SUFFICES ASSUME WireInv, [Next]_vars PROVE WireInv'
  OBVIOUS
<1>1. CASE UNCHANGED vars
  BY <1>1 DEF vars, WireInv, TypeOK, CursorInside, Size
<1>2. QED
  BY <1>1, ParseInside, TerminatorInside, PointerInside, LabelInside, QuestionInside, AnswerInside
     DEF Next

\* No datagram brings the cursor of dnswire.Parse past the end of the message.
THEOREM InductiveInvariant == Spec => []WireInv
  BY InitInside, NextInside, PTL DEF Spec

-----------------------------------------------------------------------------
(* Parse comes to its end. *)

LEMMA TurnsRange == WireInv => TurnsLeft \in 0..MaxHops + 4
<1> SUFFICES ASSUME WireInv PROVE TurnsLeft \in 0..MaxHops + 4
  OBVIOUS
<1>1. MaxHops \in Nat /\ name.hops \in 0..MaxHops + 1
  BY WireAssumption DEF WireInv, TypeOK
<1>2. MaxHops + 2 - name.hops \in 0..MaxHops + 4
  BY <1>1
<1>3. QED
  BY <1>1, <1>2 DEF TurnsLeft

LEMMA NextAdvances ==
    ASSUME WireInv, Next, ~UNCHANGED vars
    PROVE  off' > off \/ (off' = off /\ TurnsLeft' < TurnsLeft)
<1>1. MaxHops \in Nat /\ name.hops \in 0..MaxHops + 1 /\ off \in Nat
  BY WireAssumption DEF WireInv, TypeOK
<1>2. CASE Header
  BY <1>2 DEF Header, HeaderSize, WireInv, CursorInside
<1>3. CASE Terminator \/ QuestionTail \/ AnswerTail
  BY <1>3, TerminatorInside, QuestionInside, AnswerInside
<1>4. CASE NotAResponse \/ CutRecord \/ BadName
  <2>1. off' = off /\ at' = "malformed" /\ at \in {"header", "tail", "name"}
    BY <1>4 DEF NotAResponse, CutRecord, BadName, Reject
  <2>2. TurnsLeft > 0 /\ TurnsLeft' = 0
    BY <1>1, <2>1 DEF TurnsLeft, Parsed
  <2>3. QED
    BY <2>1, <2>2
<1>5. CASE BeginRecord
  <2>1. off' = off /\ at = "record" /\ at' = "name" /\ name'.hops = 0
    BY <1>5 DEF BeginRecord, FreshName
  <2>2. TurnsLeft \in {MaxHops + 3, MaxHops + 4} /\ TurnsLeft' = MaxHops + 2
    BY <1>1, <2>1 DEF TurnsLeft, Parsed
  <2>3. QED
    BY <1>1, <2>1, <2>2
<1>6. CASE NextSection
  <2>1. /\ off' = off /\ at = "record"
        /\ \/ section = "question" /\ section' = "answer" /\ at' = at
           \/ at' = "ok"
    BY <1>6 DEF NextSection
  <2>2. QED
    BY <1>1, <2>1 DEF TurnsLeft, Parsed
<1>7. CASE Pointer \/ Label
  <2>1. off' = off /\ at = "name" /\ at' = "name" /\ name'.hops = name.hops + 1
    BY <1>7 DEF Pointer, Label, Reading
  <2>2. QED
    BY <1>1, <2>1 DEF TurnsLeft, Parsed
<1>8. QED
  BY <1>2, <1>3, <1>4, <1>5, <1>6, <1>7 DEF Next

\* The cursor of dnswire.Parse never goes back, whatever a name's pointers say, and
\* stands still only as often as the hop limit allows.
THEOREM AlwaysAdvances == Spec => ParseAdvances
<1>1. WireInv /\ [Next]_vars => [off' > off \/ (off' = off /\ TurnsLeft' < TurnsLeft)]_vars
  BY NextAdvances
<1>2. QED
  BY <1>1, InductiveInvariant, PTL DEF Spec, ParseAdvances

\* The turns that are left altogether.
StepsLeft == (Size - off) * (MaxHops + 5) + TurnsLeft

LEMMA StepsLeftFall ==
    ASSUME NEW n \in Nat, NEW k \in Nat \ {0}, NEW o \in 0..n, NEW p \in 0..n,
           NEW t \in 0..k-1, NEW u \in 0..k-1, p > o \/ (p = o /\ u < t)
    PROVE  (n - p) * k + u < (n - o) * k + t
<1>1. CASE p > o
  <2>1. PICK d \in Nat : n - o = (n - p) + 1 + d
    <3>1. p - o - 1 \in Nat /\ n - o = (n - p) + 1 + (p - o - 1)
      BY <1>1
    <3>2. QED
      BY <3>1
  <2>2. n - p \in Nat
    OBVIOUS
  <2>3. ((n - p) + 1 + d) * k = (n - p) * k + k + d * k
    BY <2>1, <2>2
  <2>4. d * k \in Nat /\ (n - p) * k \in Nat
    BY <2>1, <2>2
  <2>5. QED
    BY <2>1, <2>3, <2>4
<1>2. CASE p = o /\ u < t
  <2>1. n - p = n - o /\ (n - o) * k \in Int
    BY <1>2
  <2>2. QED
    BY <1>2, <2>1
<1>3. QED
  BY <1>1, <1>2

\* However malformed a datagram and whatever the hop limit, Parse takes no more turns
\* than its size and the limit allow (ParseEnds is the same of its scheduling): each
\* takes one from a number.
THEOREM TurnsAreBounded == Spec => [](StepsLeft \in Nat) /\ [][StepsLeft' < StepsLeft]_vars
<1>1. WireInv => /\ Size \in Nat /\ off \in 0..Size /\ MaxHops + 5 \in Nat \ {0}
                 /\ TurnsLeft \in 0..(MaxHops + 5) - 1
  <2>1. WireInv => Size \in Nat /\ off \in 0..Size
    BY DEF WireInv, TypeOK, CursorInside, Size
  <2>2. QED
    BY <2>1, TurnsRange, WireAssumption
<1>2. WireInv => StepsLeft \in Nat
  <2>1. \A n, k, t \in Nat : n * k + t \in Nat
    OBVIOUS
  <2>2. WireInv => Size - off \in Nat /\ MaxHops + 5 \in Nat /\ TurnsLeft \in Nat
    BY <1>1
  <2>3. QED
    BY <2>1, <2>2 DEF StepsLeft
<1>3. WireInv /\ WireInv' /\ [Next]_vars => [StepsLeft' < StepsLeft]_vars
  <2>1. SUFFICES ASSUME WireInv, WireInv', Next, ~UNCHANGED vars
                 PROVE  StepsLeft' < StepsLeft
    OBVIOUS
  <2>2. off' > off \/ (off' = off /\ TurnsLeft' < TurnsLeft)
    BY <2>1, NextAdvances
  <2>3. msg' = msg
    BY <2>1 DEF Next, Header, NotAResponse, BeginRecord, NextSection, Terminator, Pointer, Label,
                BadName, QuestionTail, AnswerTail, CutRecord, Reject, vars
  <2>4. Size' = Size
    BY <2>3 DEF Size
  <2>5. /\ Size \in Nat /\ off \in 0..Size /\ MaxHops + 5 \in Nat \ {0}
        /\ TurnsLeft \in 0..(MaxHops + 5) - 1
    BY <1>1, <2>1
  <2>6. off' \in 0..Size /\ TurnsLeft' \in 0..(MaxHops + 5) - 1
    <3>1. /\ off' \in Nat /\ off' <= Size'
          /\ name'.hops \in 0..MaxHops + 1 /\ MaxHops \in Nat
      BY <2>1, WireAssumption DEF WireInv, TypeOK, CursorInside
    <3>2. off' \in 0..Size
      BY <2>4, <2>5, <3>1
    <3>3. TurnsLeft' \in 0..(MaxHops + 5) - 1
      BY <3>1 DEF TurnsLeft
    <3>4. QED
      BY <3>2, <3>3
  <2>7. (Size - off') * (MaxHops + 5) + TurnsLeft' < (Size - off) * (MaxHops + 5) + TurnsLeft
    BY <2>2, <2>5, <2>6, StepsLeftFall
  <2>8. QED
    BY <2>4, <2>7 DEF StepsLeft
<1>4. QED
  BY <1>2, <1>3, InductiveInvariant, PTL DEF Spec

-----------------------------------------------------------------------------
(* Where a reply has its parts. *)

LabelEnd(b, k) == HeaderSize + Len(LabelsOf(b.name)[k])
RecordEnd(b, k) == LabelEnd(b, Len(b.name)) + 5 + Len(RecordsOf(b.records)[k])

\* Four parts joined are where the lengths of those before them say.
LEMMA PartsJoined ==
    ASSUME NEW h \in Seq(Byte), NEW l \in Seq(Byte), NEW t \in Seq(Byte), NEW r \in Seq(Byte),
           NEW m, m = (h \o l) \o (t \o r)
    PROVE  /\ m \in Seq(Byte)
           /\ Len(m) = Len(h) + Len(l) + Len(t) + Len(r)
           /\ \A j \in 1..Len(h) : m[j] = h[j]
           /\ \A j \in 1..Len(l) : m[Len(h) + j] = l[j]
           /\ \A j \in 1..Len(t) : m[Len(h) + Len(l) + j] = t[j]
           /\ \A j \in 1..Len(r) : m[Len(h) + Len(l) + Len(t) + j] = r[j]
<1> DEFINE a == Len(h)
           b == Len(l)
           c == Len(t)
           d == Len(r)
           f == h \o l
           g == t \o r
<1>1. a \in Nat /\ b \in Nat /\ c \in Nat /\ d \in Nat
  BY LenProperties
<1>2. /\ f \in Seq(Byte) /\ Len(f) = a + b
      /\ \A j \in 1..a : f[j] = h[j]
      /\ \A j \in 1..b : f[a + j] = l[j]
  BY After
<1>3. /\ g \in Seq(Byte) /\ Len(g) = c + d
      /\ \A j \in 1..c : g[j] = t[j]
      /\ \A j \in 1..d : g[c + j] = r[j]
  BY After
<1> HIDE DEF f, g
<1>4. /\ m \in Seq(Byte) /\ Len(m) = Len(f) + Len(g)
      /\ \A j \in 1..Len(f) : m[j] = f[j]
      /\ \A j \in 1..Len(g) : m[Len(f) + j] = g[j]
  <2>1. f \in Seq(Byte) /\ g \in Seq(Byte)
    BY <1>2, <1>3
  <2>2. m = f \o g
    BY DEF f, g
  <2>3. QED
    BY <2>1, <2>2, After
<1> HIDE DEF a, b, c, d
<1>5. /\ \A j \in 1..a + b : m[j] = f[j]
      /\ \A j \in 1..c + d : m[(a + b) + j] = g[j]
      /\ Len(m) = a + b + c + d
  <2>1. Len(f) = a + b /\ Len(g) = c + d
    BY <1>2, <1>3
  <2>2. (\A j \in 1..a + b : m[j] = f[j]) /\ (\A j \in 1..c + d : m[(a + b) + j] = g[j])
    BY <1>4, <2>1
  <2>3. Len(m) = (a + b) + (c + d)
    BY <1>4, <2>1
  <2>4. QED
    <3>1. (a + b) + (c + d) = a + b + c + d
      BY <1>1
    <3>2. QED
      BY <2>2, <2>3, <3>1
<1>6. ASSUME NEW j \in 1..a PROVE m[j] = h[j]
  <2>1. j \in 1..a + b
    BY <1>1
  <2>2. m[j] = f[j] /\ f[j] = h[j]
    BY <1>2, <1>5, <2>1
  <2>3. QED
    BY <2>2
<1>7. ASSUME NEW j \in 1..b PROVE m[a + j] = l[j]
  <2>1. a + j \in 1..a + b
    BY <1>1
  <2>2. QED
    BY <1>2, <1>5, <2>1
<1>8. ASSUME NEW j \in 1..c PROVE m[a + b + j] = t[j]
  <2>1. j \in 1..c + d /\ (a + b) + j = a + b + j
    BY <1>1
  <2>2. QED
    BY <1>3, <1>5, <2>1
<1>9. ASSUME NEW j \in 1..d PROVE m[a + b + c + j] = r[j]
  <2>1. c + j \in 1..c + d /\ (a + b) + (c + j) = a + b + c + j
    BY <1>1
  <2>2. QED
    BY <1>3, <1>5, <2>1
<1>10. QED
  BY <1>4, <1>5, <1>6, <1>7, <1>8, <1>9 DEF a, b, c, d

LEMMA HighLow ==
    ASSUME NEW n \in Uint16
    PROVE  n \in Nat /\ High(n) \in Byte /\ Low(n) \in Byte /\ 256 * High(n) + Low(n) = n
<1>1. n \in Nat /\ n <= 65535
  BY DEF Uint16
<1>2. High(n) \in Byte
  BY <1>1 DEF High, Byte
<1>3. Low(n) \in Byte
  BY <1>1 DEF Low, Byte
<1>4. 256 * High(n) + Low(n) = n
  BY <1>1 DEF High, Low
<1>5. QED
  BY <1>1, <1>2, <1>3, <1>4

\* The label k and its length, as appendName writes them.
LEMMA LabelBytes ==
    ASSUME NEW b, Sendable(b), NEW k \in 1..Len(b.name)
    PROVE  LET bytes == <<Len(b.name[k])>> \o b.name[k]
           IN  /\ bytes \in Seq(Byte)
               /\ Len(b.name[k]) \in 1..63
               /\ Len(bytes) = 1 + Len(b.name[k])
               /\ bytes[1] = Len(b.name[k])
               /\ \A j \in 1..Len(b.name[k]) : bytes[1 + j] = b.name[k][j]
<1> DEFINE label == b.name[k]
           first == <<Len(label)>>
<1>1. label \in Seq(Byte) /\ Len(label) \in 1..63
  BY ElementOfSeq DEF Sendable
<1> HIDE DEF label
<1>2. first \in Seq(Byte) /\ 1 = Len(first) /\ first[1] = Len(label) /\ 1 \in 1..1
  <2>1. Len(label) \in Byte
    BY <1>1 DEF Byte
  <2>2. QED
    BY <2>1
<1> HIDE DEF first
<1>3. /\ first \o label \in Seq(Byte) /\ Len(first \o label) = 1 + Len(label)
      /\ \A j \in 1..1 : (first \o label)[j] = first[j]
      /\ \A j \in 1..Len(label) : (first \o label)[1 + j] = label[j]
  <2>1. /\ first \o label \in Seq(Byte) /\ Len(first \o label) = Len(first) + Len(label)
        /\ \A j \in 1..Len(first) : (first \o label)[j] = first[j]
        /\ \A j \in 1..Len(label) : (first \o label)[Len(first) + j] = label[j]
    <3>1. first \in Seq(Byte) /\ label \in Seq(Byte)
      BY <1>1, <1>2
    <3>2. QED
      BY <3>1, After
  <2>2. QED
    BY <1>2, <2>1
<1>4. QED
  BY <1>1, <1>2, <1>3 DEF first, label

LEMMA LabelsJoined ==
    ASSUME NEW b, Sendable(b)
    PROVE  LET labels == LabelsOf(b.name)
               n == Len(b.name)
           IN  /\ labels[0] = <<>> /\ labels[n] \in Seq(Byte) /\ n \in Nat
               /\ \A k \in 0..n : Len(labels[k]) \in Nat
               /\ \A k \in 0..n-1 :
                    /\ Len(b.name[k+1]) \in 1..63
                    /\ Len(labels[k+1]) = Len(labels[k]) + 1 + Len(b.name[k+1])
                    /\ Len(labels[k+1]) <= Len(labels[n])
                    /\ labels[n][Len(labels[k]) + 1] = Len(b.name[k+1])
                    /\ \A j \in 1..Len(b.name[k+1]) :
                         labels[n][Len(labels[k]) + 1 + j] = b.name[k+1][j]
<1> DEFINE parts == [k \in DOMAIN b.name |-> <<Len(b.name[k])>> \o b.name[k]]
           labels == Joined(parts)
<1>1. PICK n \in Nat : n = Len(b.name) /\ DOMAIN b.name = 1..n
  BY DEF Sendable
<1>2. parts \in Seq(Seq(Byte)) /\ Len(parts) = n
  <2>1. \A k \in 1..n : parts[k] \in Seq(Byte)
    BY <1>1, LabelBytes
  <2>2. parts \in [1..n -> Seq(Byte)]
    BY <1>1, <2>1
  <2>3. QED
    BY <1>1, <2>2
<1>3. labels \in [0..n -> Seq(Byte)] /\ labels[0] = <<>>
  <2> HIDE DEF parts
  <2>1. QED
    BY <1>2, JoinedIs
<1>4. ASSUME NEW k \in 0..n PROVE labels[k] \in Seq(Byte) /\ Len(labels[k]) \in Nat
  <2>1. labels[k] \in Seq(Byte)
    BY <1>3
  <2>2. QED
    BY <2>1, LenProperties
<1>5. ASSUME NEW k \in 0..n-1
      PROVE  /\ Len(b.name[k+1]) \in 1..63
             /\ Len(labels[k+1]) = Len(labels[k]) + 1 + Len(b.name[k+1])
             /\ Len(labels[k+1]) <= Len(labels[n])
             /\ labels[n][Len(labels[k]) + 1] = Len(b.name[k+1])
             /\ \A j \in 1..Len(b.name[k+1]) :
                  labels[n][Len(labels[k]) + 1 + j] = b.name[k+1][j]
  <2> DEFINE size == Len(b.name[k+1])
             start == Len(labels[k])
             end == Len(labels[k+1])
             part == parts[k+1]
             all == labels[n]
             bytes == b.name[k+1]
  <2>1. k + 1 \in 1..n /\ k \in 0..n
    BY <1>1
  <2>2. /\ start \in Nat /\ end = start + Len(part) /\ end <= Len(all)
        /\ \A j \in 1..Len(part) : all[start + j] = part[j]
    <3> HIDE DEF parts
    <3>1. k \in 0..Len(parts)-1
      BY <1>2
    <3>2. QED
      BY <1>2, <3>1, JoinedNext
  <2>3. part = <<Len(b.name[k+1])>> \o b.name[k+1]
    BY <1>1, <2>1
  <2>4. /\ size \in 1..63 /\ Len(part) = 1 + size /\ part[1] = size
        /\ \A j \in 1..size : part[1 + j] = bytes[j]
    BY <1>1, <2>1, <2>3, LabelBytes
  <2> HIDE DEF size, start, end, part, all, parts, labels, bytes
  <2>5. all[start + 1] = size /\ end = start + 1 + size
    BY <2>2, <2>4
  <2>6. ASSUME NEW j \in 1..size PROVE all[start + 1 + j] = bytes[j]
    <3>1. 1 + j \in 1..1 + size /\ start + (1 + j) = start + 1 + j
      BY <2>2, <2>4
    <3>2. QED
      BY <2>2, <2>4, <3>1
  <2>7. QED
    BY <2>2, <2>4, <2>5, <2>6 DEF size, start, end, all, bytes
<1>6. n \in 0..n
  BY <1>1
<1>7. QED
  BY <1>1, <1>3, <1>4, <1>5, <1>6 DEF LabelsOf

\* A record, as Answer writes it.
LEMMA SendableRecord ==
    ASSUME NEW b, Sendable(b), NEW k \in 1..Len(b.records)
    PROVE  /\ b.records[k].type \in Uint16 /\ b.records[k].class \in Uint16
           /\ b.records[k].data \in Seq(Byte) /\ Len(b.records[k].data) \in Uint16
<1>1. b.records \in Seq([type : Uint16, class : Uint16, data : Seq(Byte)]) /\ k \in DOMAIN b.records
  BY DEF Sendable
<1>2. b.records[k] \in [type : Uint16, class : Uint16, data : Seq(Byte)]
  BY <1>1, ElementOfSeq
<1>3. QED
  BY <1>1, <1>2 DEF Sendable

LEMMA RecordBytes ==
    ASSUME NEW r, r.type \in Uint16, r.class \in Uint16, r.data \in Seq(Byte),
           Len(r.data) \in Uint16
    PROVE  /\ EncodeRecord(r) \in Seq(Byte) /\ Len(EncodeRecord(r)) = 12 + Len(r.data)
           /\ EncodeRecord(r)[1] = 192 /\ EncodeRecord(r)[2] = 12
           /\ EncodeRecord(r)[3] = High(r.type) /\ EncodeRecord(r)[4] = Low(r.type)
           /\ EncodeRecord(r)[5] = High(r.class) /\ EncodeRecord(r)[6] = Low(r.class)
           /\ EncodeRecord(r)[11] = High(Len(r.data)) /\ EncodeRecord(r)[12] = Low(Len(r.data))
           /\ \A j \in 1..Len(r.data) : EncodeRecord(r)[12 + j] = r.data[j]
<1> DEFINE data == r.data
           fixed == <<192, 12, High(r.type), Low(r.type), High(r.class), Low(r.class), 0, 0, 0, 60,
                      High(Len(data)), Low(Len(data))>>
           bytes == fixed \o data
<1>1. r.type \in Uint16 /\ r.class \in Uint16 /\ data \in Seq(Byte) /\ Len(data) \in Uint16
  OBVIOUS
<1>2. bytes = EncodeRecord(r)
  BY DEF EncodeRecord, HeaderSize
<1> HIDE DEF data
<1>3. /\ High(r.type) \in Byte /\ Low(r.type) \in Byte
      /\ High(r.class) \in Byte /\ Low(r.class) \in Byte
      /\ High(Len(data)) \in Byte /\ Low(Len(data)) \in Byte
  BY <1>1, HighLow
<1>4. fixed \in Seq(Byte) /\ 12 = Len(fixed)
  BY <1>3 DEF Byte
<1>5. /\ fixed[1] = 192 /\ fixed[2] = 12
      /\ fixed[3] = High(r.type) /\ fixed[4] = Low(r.type)
      /\ fixed[5] = High(r.class) /\ fixed[6] = Low(r.class)
      /\ fixed[11] = High(Len(data)) /\ fixed[12] = Low(Len(data))
  OBVIOUS
<1> HIDE DEF fixed
<1>6. /\ bytes \in Seq(Byte) /\ Len(bytes) = 12 + Len(data)
      /\ \A j \in 1..12 : bytes[j] = fixed[j]
      /\ \A j \in 1..Len(data) : bytes[12 + j] = data[j]
  <2>1. /\ bytes \in Seq(Byte) /\ Len(bytes) = Len(fixed) + Len(data)
        /\ \A j \in 1..Len(fixed) : bytes[j] = fixed[j]
        /\ \A j \in 1..Len(data) : bytes[Len(fixed) + j] = data[j]
    BY <1>1, <1>4, After
  <2>2. QED
    BY <1>4, <2>1
<1> HIDE DEF bytes
<1>7. /\ bytes[1] = 192 /\ bytes[2] = 12
      /\ bytes[3] = High(r.type) /\ bytes[4] = Low(r.type)
      /\ bytes[5] = High(r.class) /\ bytes[6] = Low(r.class)
      /\ bytes[11] = High(Len(data)) /\ bytes[12] = Low(Len(data))
  <2>1. {1, 2, 3, 4, 5, 6, 11, 12} \subseteq 1..12
    OBVIOUS
  <2>2. QED
    BY <1>5, <1>6, <2>1
<1>8. QED
  BY <1>1, <1>2, <1>6, <1>7 DEF data

LEMMA RecordsJoined ==
    ASSUME NEW b, Sendable(b)
    PROVE  LET records == RecordsOf(b.records)
               n == Len(b.records)
           IN  /\ records[0] = <<>> /\ records[n] \in Seq(Byte) /\ n \in Uint16
               /\ \A k \in 0..n : Len(records[k]) \in Nat
               /\ \A k \in 0..n-1 :
                    /\ Len(records[k+1]) = Len(records[k]) + 12 + Len(b.records[k+1].data)
                    /\ Len(records[k+1]) <= Len(records[n])
                    /\ \A j \in 1..12 + Len(b.records[k+1].data) :
                         records[n][Len(records[k]) + j] = EncodeRecord(b.records[k+1])[j]
<1> DEFINE parts == [k \in DOMAIN b.records |-> EncodeRecord(b.records[k])]
           records == Joined(parts)
<1>1. PICK n \in Nat : n = Len(b.records) /\ DOMAIN b.records = 1..n
  BY DEF Sendable
<1>2. parts \in Seq(Seq(Byte)) /\ Len(parts) = n
  <2>1. \A k \in 1..n : parts[k] \in Seq(Byte)
    <3>1. ASSUME NEW k \in 1..n PROVE parts[k] \in Seq(Byte)
      <4>1. /\ b.records[k].type \in Uint16 /\ b.records[k].class \in Uint16
            /\ b.records[k].data \in Seq(Byte) /\ Len(b.records[k].data) \in Uint16
        BY <1>1, SendableRecord
      <4>2. EncodeRecord(b.records[k]) \in Seq(Byte)
        BY <4>1, RecordBytes
      <4>3. QED
        BY <1>1, <4>2
    <3>2. QED
      BY <3>1
  <2>2. parts \in [1..n -> Seq(Byte)]
    BY <1>1, <2>1
  <2>3. QED
    BY <1>1, <2>2
<1>3. records \in [0..n -> Seq(Byte)] /\ records[0] = <<>>
  <2> HIDE DEF parts
  <2>1. QED
    BY <1>2, JoinedIs
<1>4. ASSUME NEW k \in 0..n PROVE records[k] \in Seq(Byte) /\ Len(records[k]) \in Nat
  <2>1. records[k] \in Seq(Byte)
    BY <1>3
  <2>2. QED
    BY <2>1, LenProperties
<1>5. ASSUME NEW k \in 0..n-1
      PROVE  /\ Len(records[k+1]) = Len(records[k]) + 12 + Len(b.records[k+1].data)
             /\ Len(records[k+1]) <= Len(records[n])
             /\ \A j \in 1..12 + Len(b.records[k+1].data) :
                  records[n][Len(records[k]) + j] = EncodeRecord(b.records[k+1])[j]
  <2> DEFINE size == Len(b.records[k+1].data)
             start == Len(records[k])
             end == Len(records[k+1])
             part == parts[k+1]
             all == records[n]
             bytes == EncodeRecord(b.records[k+1])
  <2>1. k + 1 \in 1..n /\ k + 1 \in 1..Len(b.records)
    BY <1>1
  <2>2. /\ start \in Nat /\ end = start + Len(part) /\ end <= Len(all)
        /\ \A j \in 1..Len(part) : all[start + j] = part[j]
    <3> HIDE DEF parts
    <3>1. k \in 0..Len(parts)-1
      BY <1>2
    <3>2. QED
      BY <1>2, <3>1, JoinedNext
  <2>3. part = bytes
    BY <1>1, <2>1
  <2>4. Len(bytes) = 12 + size /\ size \in Uint16
    <3>1. PICK next \in 1..Len(b.records) : next = k + 1
      BY <2>1
    <3>2. /\ Len(EncodeRecord(b.records[next])) = 12 + Len(b.records[next].data)
          /\ Len(b.records[next].data) \in Uint16
      BY SendableRecord, RecordBytes
    <3>3. QED
      BY <3>1, <3>2
  <2> HIDE DEF size, start, end, part, all, parts, records, bytes
  <2>5. end = start + 12 + size
    <3>1. size \in Nat
      BY <2>4, HighLow
    <3>2. end = start + Len(bytes) /\ Len(bytes) = 12 + size
      BY <2>2, <2>3, <2>4
    <3>3. QED
      BY <2>2, <3>1, <3>2
  <2>6. \A j \in 1..12 + size : all[start + j] = bytes[j]
    BY <2>2, <2>3, <2>4
  <2>7. QED
    BY <2>2, <2>5, <2>6 DEF size, start, end, all, bytes
<1>6. n \in 0..n /\ n \in Uint16
  BY <1>1 DEF Sendable
<1>7. QED
  BY <1>1, <1>3, <1>4, <1>5, <1>6 DEF RecordsOf

LEMMA ReplyParts ==
    ASSUME NEW b, Sendable(b)
    PROVE  LET m == Encode(b)
               labels == LabelsOf(b.name)[Len(b.name)]
               records == RecordsOf(b.records)[Len(b.records)]
               start == LabelEnd(b, Len(b.name))
           IN  /\ m \in Seq(Byte)
               /\ Len(m) = start + 5 + Len(records)
               /\ start = HeaderSize + Len(labels)
               /\ Len(labels) \in Nat /\ Len(records) \in Nat
               /\ Len(m) \in Nat /\ HeaderSize <= Len(m)
               /\ \A j \in 1..12 : m[j] = EncodeHeader(b)[j]
               /\ \A j \in 1..Len(labels) : m[HeaderSize + j] = labels[j]
               /\ m[start + 1] = 0
               /\ \A j \in 1..Len(records) : m[start + 5 + j] = records[j]
<1> DEFINE header == EncodeHeader(b)
           labels == LabelsOf(b.name)[Len(b.name)]
           coded == labels \o <<0>>
           type == <<0, 1, 0, 1>>
           records == RecordsOf(b.records)[Len(b.records)]
           m == (header \o coded) \o (type \o records)
<1>1. header \in Seq(Byte) /\ Len(header) = 12
  <2>1. High(Len(b.records)) \in Byte /\ Low(Len(b.records)) \in Byte
    BY HighLow DEF Sendable
  <2>2. QED
    BY <2>1 DEF EncodeHeader, Byte
<1>2. labels \in Seq(Byte) /\ records \in Seq(Byte)
  BY LabelsJoined, RecordsJoined
<1>3. <<0>> \in Seq(Byte) /\ Len(<<0>>) = 1 /\ <<0>>[1] = 0 /\ type \in Seq(Byte) /\ Len(type) = 4
  BY DEF Byte
<1>4. m = Encode(b)
  BY DEF Encode, EncodeName
<1>5. LabelEnd(b, Len(b.name)) = 12 + Len(labels)
  BY DEF LabelEnd, HeaderSize
<1> HIDE DEF labels, records, header, type
<1>6. Len(labels) \in Nat /\ Len(records) \in Nat
  BY <1>2, LenProperties
<1>7. /\ coded \in Seq(Byte) /\ Len(coded) = Len(labels) + Len(<<0>>)
      /\ \A j \in 1..Len(labels) : coded[j] = labels[j]
      /\ \A j \in 1..Len(<<0>>) : coded[Len(labels) + j] = <<0>>[j]
  BY <1>2, <1>3, After
<1>8. Len(coded) = Len(labels) + 1 /\ coded[Len(labels) + 1] = 0
  BY <1>3, <1>6, <1>7
<1> HIDE DEF coded
<1>9. /\ m \in Seq(Byte)
      /\ Len(m) = Len(header) + Len(coded) + Len(type) + Len(records)
      /\ \A j \in 1..Len(header) : m[j] = header[j]
      /\ \A j \in 1..Len(coded) : m[Len(header) + j] = coded[j]
      /\ \A j \in 1..Len(records) : m[Len(header) + Len(coded) + Len(type) + j] = records[j]
  <2>1. header \in Seq(Byte) /\ coded \in Seq(Byte) /\ type \in Seq(Byte) /\ records \in Seq(Byte)
    BY <1>1, <1>2, <1>3, <1>7
  <2>2. QED
    BY <2>1, PartsJoined
<1> HIDE DEF m
<1> DEFINE a == Len(labels)
           d == Len(records)
<1>10. /\ Len(m) = 12 + a + 5 + d
       /\ \A j \in 1..12 : m[j] = header[j]
       /\ \A j \in 1..a + 1 : m[12 + j] = coded[j]
       /\ \A j \in 1..d : m[12 + a + 5 + j] = records[j]
  BY <1>1, <1>3, <1>6, <1>8, <1>9
<1> HIDE DEF a, d
<1>11. a \in Nat /\ d \in Nat
  BY <1>6 DEF a, d
<1>12. (\A j \in 1..a : m[12 + j] = labels[j]) /\ m[12 + a + 1] = 0
  <2>1. a + 1 \in 1..a + 1 /\ 12 + (a + 1) = 12 + a + 1 /\ \A j \in 1..a : j \in 1..a + 1
    BY <1>11
  <2>2. QED
    BY <1>7, <1>8, <1>10, <2>1 DEF a
<1>13. Len(m) \in Nat /\ 12 <= Len(m)
  BY <1>10, <1>11
<1>14. QED
  BY <1>4, <1>5, <1>9, <1>10, <1>11, <1>12, <1>13 DEF a, d, header, labels, records, HeaderSize

\* What Parse finds at the beginning of a reply.
LEMMA ReplyHeader ==
    ASSUME NEW b, Sendable(b)
    PROVE  LET m == Encode(b)
           IN  /\ m \in Seq(Byte)
               /\ m[3] = 129 /\ m[5] = 0 /\ m[6] = 1
               /\ m[7] = High(Len(b.records)) /\ m[8] = Low(Len(b.records))
<1> DEFINE header == EncodeHeader(b)
<1>1. header \in Seq(Byte) /\ 12 = Len(header)
  <2>1. High(Len(b.records)) \in Byte /\ Low(Len(b.records)) \in Byte
    BY HighLow DEF Sendable
  <2>2. QED
    BY <2>1 DEF EncodeHeader, Byte
<1>2. /\ header[3] = 129 /\ header[5] = 0 /\ header[6] = 1
      /\ header[7] = High(Len(b.records)) /\ header[8] = Low(Len(b.records))
  BY DEF EncodeHeader
<1> HIDE DEF header
<1>3. Encode(b) \in Seq(Byte) /\ \A j \in 1..12 : Encode(b)[j] = header[j]
  BY <1>1, ReplyParts DEF header
<1>4. \A j \in {3, 5, 6, 7, 8} : Encode(b)[j] = header[j]
  <2>1. {3, 5, 6, 7, 8} \subseteq 1..12
    OBVIOUS
  <2>2. QED
    BY <1>3, <2>1
<1>5. /\ Encode(b)[3] = header[3] /\ Encode(b)[5] = header[5] /\ Encode(b)[6] = header[6]
      /\ Encode(b)[7] = header[7] /\ Encode(b)[8] = header[8]
  BY <1>4
<1>6. QED
  BY <1>2, <1>3, <1>5

LEMMA ReplyLabels ==
    ASSUME NEW b, Sendable(b)
    PROVE  LET m == Encode(b)
               n == Len(b.name)
           IN  /\ n \in Nat /\ LabelEnd(b, 0) = HeaderSize
               /\ \A k \in 0..n : LabelEnd(b, k) \in Nat /\ HeaderSize <= LabelEnd(b, k)
               /\ \A k \in 0..n-1 :
                    /\ Len(b.name[k+1]) \in 1..63
                    /\ LabelEnd(b, k+1) = LabelEnd(b, k) + 1 + Len(b.name[k+1])
                    /\ LabelEnd(b, k+1) <= LabelEnd(b, n)
                    /\ m[LabelEnd(b, k) + 1] = Len(b.name[k+1])
                    /\ \A j \in 1..Len(b.name[k+1]) :
                         m[LabelEnd(b, k) + 1 + j] = b.name[k+1][j]
               /\ m[LabelEnd(b, n) + 1] = 0
<1> DEFINE m == Encode(b)
           labels == LabelsOf(b.name)
           all == labels[Len(b.name)]
<1>1. PICK n \in Nat : n = Len(b.name)
  BY LabelsJoined
<1>2. labels[0] = <<>> /\ \A k \in 0..n : Len(labels[k]) \in Nat
  BY <1>1, LabelsJoined
<1>3. \A j \in 1..Len(all) : m[12 + j] = all[j]
  BY ReplyParts DEF HeaderSize
<1>4. m[LabelEnd(b, n) + 1] = 0
  BY <1>1, ReplyParts
<1>5. LabelEnd(b, 0) = 12 /\ \A k \in 0..n : LabelEnd(b, k) \in Nat /\ 12 <= LabelEnd(b, k)
  BY <1>1, <1>2 DEF LabelEnd, HeaderSize
<1>6. ASSUME NEW k \in 0..n-1
      PROVE  /\ Len(b.name[k+1]) \in 1..63
             /\ LabelEnd(b, k+1) = LabelEnd(b, k) + 1 + Len(b.name[k+1])
             /\ LabelEnd(b, k+1) <= LabelEnd(b, n)
             /\ m[LabelEnd(b, k) + 1] = Len(b.name[k+1])
             /\ \A j \in 1..Len(b.name[k+1]) : m[LabelEnd(b, k) + 1 + j] = b.name[k+1][j]
  <2> DEFINE size == Len(b.name[k+1])
             start == Len(labels[k])
             end == Len(labels[k+1])
             last == Len(all)
             bytes == b.name[k+1]
  <2>1. /\ size \in 1..63 /\ end = start + 1 + size /\ end <= last
        /\ all[start + 1] = size
        /\ \A j \in 1..size : all[start + 1 + j] = bytes[j]
    BY <1>1, LabelsJoined
  <2>2. start \in Nat /\ end \in Nat /\ last \in Nat
    BY <1>1, <1>2
  <2>3. LabelEnd(b, k) = 12 + start /\ LabelEnd(b, k+1) = 12 + end /\ LabelEnd(b, n) = 12 + last
    BY <1>1 DEF LabelEnd, HeaderSize
  <2>4. \A j \in 1..last : m[12 + j] = all[j]
    BY <1>3
  <2> HIDE DEF size, start, end, last, bytes, all, labels, m
  <2>5. m[12 + start + 1] = size
    <3>1. start + 1 \in 1..last /\ 12 + (start + 1) = 12 + start + 1
      BY <2>1, <2>2
    <3>2. QED
      BY <2>1, <2>4, <3>1
  <2>6. ASSUME NEW j \in 1..size PROVE m[12 + start + 1 + j] = bytes[j]
    <3>1. start + 1 + j \in 1..last /\ 12 + (start + 1 + j) = 12 + start + 1 + j
      BY <2>1, <2>2
    <3>2. QED
      BY <2>1, <2>4, <3>1
  <2>7. LabelEnd(b, k+1) = LabelEnd(b, k) + 1 + size /\ LabelEnd(b, k+1) <= LabelEnd(b, n)
    BY <2>1, <2>2, <2>3
  <2>8. QED
    BY <2>1, <2>3, <2>5, <2>6, <2>7 DEF size, bytes
<1>7. QED
  BY <1>1, <1>4, <1>5, <1>6 DEF HeaderSize

LEMMA ReplyRecords ==
    ASSUME NEW b, Sendable(b)
    PROVE  LET m == Encode(b)
               n == Len(b.records)
           IN  /\ n \in Uint16 /\ RecordEnd(b, 0) = LabelEnd(b, Len(b.name)) + 5
               /\ RecordEnd(b, n) = Len(m)
               /\ \A k \in 0..n : RecordEnd(b, k) \in Nat /\ RecordEnd(b, 0) <= RecordEnd(b, k)
               /\ \A k \in 0..n-1 :
                    /\ RecordEnd(b, k+1) = RecordEnd(b, k) + 12 + Len(b.records[k+1].data)
                    /\ RecordEnd(b, k+1) <= Len(m)
                    /\ \A j \in 1..12 + Len(b.records[k+1].data) :
                         m[RecordEnd(b, k) + j] = EncodeRecord(b.records[k+1])[j]
<1> DEFINE m == Encode(b)
           records == RecordsOf(b.records)
           all == records[Len(b.records)]
           begin == LabelEnd(b, Len(b.name)) + 5
<1>1. PICK n \in Uint16 : n = Len(b.records)
  BY RecordsJoined
<1>2. Len(records[0]) = 0 /\ n \in Nat /\ \A k \in 0..n : Len(records[k]) \in Nat
  <2>1. records[0] = <<>> /\ \A k \in 0..Len(b.records) : Len(records[k]) \in Nat
    BY RecordsJoined
  <2>2. n \in Nat
    BY <1>1, HighLow
  <2>3. QED
    BY <1>1, <2>1, <2>2
<1>3. Len(m) = begin + Len(all) /\ \A j \in 1..Len(all) : m[begin + j] = all[j]
  BY ReplyParts
<1>4. begin \in Nat
  <2>1. LabelEnd(b, Len(b.name)) \in Nat
    BY ReplyParts DEF HeaderSize
  <2>2. QED
    BY <2>1
<1>5. \A k \in 0..n : RecordEnd(b, k) = begin + Len(records[k])
  BY DEF RecordEnd
<1>6. n \in 0..n /\ 0 \in 0..n
  BY <1>2
<1>7. RecordEnd(b, 0) = begin /\ RecordEnd(b, n) = Len(m)
  <2> HIDE DEF begin, records, m
  <2>1. RecordEnd(b, 0) = begin + Len(records[0]) /\ RecordEnd(b, n) = begin + Len(records[n])
    BY <1>5, <1>6
  <2>2. Len(m) = begin + Len(records[n])
    BY <1>1, <1>3
  <2>3. QED
    BY <1>2, <1>4, <2>1, <2>2
<1>8. ASSUME NEW k \in 0..n
      PROVE  RecordEnd(b, k) \in Nat /\ RecordEnd(b, 0) <= RecordEnd(b, k)
  <2>1. RecordEnd(b, k) = begin + Len(records[k]) /\ Len(records[k]) \in Nat
    BY <1>2, <1>5
  <2> HIDE DEF begin
  <2>2. QED
    BY <1>4, <1>7, <2>1
<1>9. ASSUME NEW k \in 0..n-1
      PROVE  /\ RecordEnd(b, k+1) = RecordEnd(b, k) + 12 + Len(b.records[k+1].data)
             /\ RecordEnd(b, k+1) <= Len(m)
             /\ \A j \in 1..12 + Len(b.records[k+1].data) :
                  m[RecordEnd(b, k) + j] = EncodeRecord(b.records[k+1])[j]
  <2> DEFINE size == Len(b.records[k+1].data)
             start == Len(records[k])
             end == Len(records[k+1])
             last == Len(all)
             bytes == EncodeRecord(b.records[k+1])
  <2>1. k \in 0..n /\ k + 1 \in 0..n /\ k + 1 \in 1..n
    BY <1>2
  <2>2. /\ end = start + 12 + size /\ end <= last
        /\ \A j \in 1..12 + size : all[start + j] = bytes[j]
    BY <1>1, RecordsJoined
  <2>3. size \in Nat /\ start \in Nat /\ end \in Nat /\ last \in Nat
    <3>1. PICK next \in 1..Len(b.records) : next = k + 1
      BY <1>1, <2>1
    <3>2. Len(b.records[next].data) \in Uint16
      BY SendableRecord
    <3>3. size \in Nat
      BY <3>1, <3>2, HighLow
    <3>4. start \in Nat /\ end \in Nat /\ last \in Nat
      BY <1>1, <1>2, <1>6, <2>1
    <3>5. QED
      BY <3>3, <3>4
  <2>4. RecordEnd(b, k) = begin + start /\ RecordEnd(b, k+1) = begin + end /\ Len(m) = begin + last
    BY <1>3, <1>5, <2>1
  <2>5. \A j \in 1..last : m[begin + j] = all[j]
    BY <1>3
  <2> HIDE DEF size, start, end, last, bytes, all, records, m, begin
  <2>6. ASSUME NEW j \in 1..12 + size PROVE m[(begin + start) + j] = bytes[j]
    <3>1. start + j \in 1..last /\ begin + (start + j) = (begin + start) + j
      BY <1>4, <2>2, <2>3
    <3>2. QED
      BY <2>2, <2>5, <3>1
  <2>7. RecordEnd(b, k+1) = RecordEnd(b, k) + 12 + size /\ RecordEnd(b, k+1) <= Len(m)
    BY <1>4, <2>2, <2>3, <2>4
  <2>8. QED
    BY <2>4, <2>6, <2>7 DEF size, bytes
<1>10. QED
  BY <1>1, <1>7, <1>9, <1>8

-----------------------------------------------------------------------------
(* Parse on a reply, whole or cut off. *)

\* readName is at the label after the first k of the question's name.
AtLabel(b, k) == k \in 0..Len(b.name) /\ name.pos = LabelEnd(b, k)

\* In the question: one record, whose name is read label by label.
QuestionFollows(b) ==
    /\ addrs = <<>>
    /\ at = "record" /\ i = 0 => off = HeaderSize
    /\ at = "record" /\ i # 0 => i = 1 /\ off = RecordEnd(b, 0) /\ question = b.name
    /\ at \in {"name", "tail"} => i = 0
    /\ at = "name" =>
        /\ name.end = NoEnd
        /\ AtLabel(b, name.hops)
        /\ name.labels = SubSeq(b.name, 1, name.hops)
    /\ at = "tail" => off = LabelEnd(b, Len(b.name)) + 1 /\ name.labels = b.name

\* In an answer: what was read has come out as it went in, and the name is a pointer to
\* the question's.
AnswerFollows(b) ==
    /\ question = b.name
    /\ i \in 0..Len(b.records)
    /\ addrs = Addresses(b.records)[i]
    /\ at \in {"record", "name", "ok"} => off = RecordEnd(b, i)
    /\ at \in {"name", "tail"} => i < Len(b.records)
    /\ at = "name" =>
        \/ name.pos = off /\ name.hops = 0 /\ name.end = NoEnd
        \/ name.end = off + 2 /\ name.hops > 0 /\ AtLabel(b, name.hops - 1)
    /\ at = "tail" => off = RecordEnd(b, i) + 2
    /\ at = "ok" => i = Len(b.records)

\* Parse is where the reply says it is, and what it rejects is not whole.
Follows(b) ==
    /\ at = "header" => section = "question" /\ i = 0 /\ addrs = <<>>
    /\ at = "malformed" => Size < Len(Encode(b))
    /\ at \in {"record", "name", "tail", "ok"} =>
        IF section = "question" THEN at # "ok" /\ QuestionFollows(b) ELSE AnswerFollows(b)

RepliesFollowed == \A b \in Replies : PartOf(Encode(b)) => Follows(b)

\* The bytes that Parse sees of a message are the message's.
LEMMA SeenBytes ==
    ASSUME NEW m, PartOf(m), msg \in Seq(Byte), NEW o \in Nat
    PROVE  /\ o < Size => At(o) = m[o+1]
           /\ o + 1 < Size => Word(o) = 256 * m[o+1] + m[o+2]
<1>1. Size \in Nat /\ \A p \in 1..Size : msg[p] = m[p]
  BY DEF PartOf, Size
<1>2. o < Size => At(o) = m[o+1]
  <2>1. o < Size => o + 1 \in 1..Size
    BY <1>1
  <2>2. QED
    BY <1>1, <2>1 DEF At
<1>3. o + 1 < Size => At(o+1) = m[o+2]
  <2>1. o + 1 < Size => o + 2 \in 1..Size /\ (o + 1) + 1 = o + 2
    BY <1>1
  <2>2. QED
    BY <1>1, <2>1 DEF At
<1>4. o + 1 < Size => o < Size
  BY <1>1
<1>5. QED
  BY <1>2, <1>3, <1>4 DEF Word

\* A reply's addresses, record by record.
LEMMA AddressesJoined ==
    ASSUME NEW b, Sendable(b)
    PROVE  /\ Addresses(b.records)[0] = <<>>
           /\ \A k \in 0..Len(b.records)-1 :
                LET r == b.records[k+1]
                IN  Addresses(b.records)[k+1] =
                      Addresses(b.records)[k] \o
                        (IF r.class = 1 /\ <<r.type, Len(r.data)>> \in {<<1, 4>>, <<28, 16>>}
                         THEN <<r.data>> ELSE <<>>)
<1> DEFINE Found(r) == r.class = 1 /\ <<r.type, Len(r.data)>> \in {<<1, 4>>, <<28, 16>>}
           parts == [k \in DOMAIN b.records |->
                       IF Found(b.records[k]) THEN <<b.records[k].data>> ELSE <<>>]
           all == Joined(parts)
<1>1. PICK n \in Nat : n = Len(b.records) /\ DOMAIN b.records = 1..n
  BY DEF Sendable
<1> HIDE DEF Found
<1>2. parts \in Seq(Seq(Seq(Byte))) /\ Len(parts) = n
  <2>1. ASSUME NEW k \in 1..n PROVE parts[k] \in Seq(Seq(Byte))
    <3>1. b.records[k].data \in Seq(Byte)
      BY <1>1, SendableRecord
    <3>2. QED
      BY <1>1, <3>1
  <2>2. parts \in [1..n -> Seq(Seq(Byte))]
    BY <1>1, <2>1
  <2>3. QED
    BY <1>1, <2>2
<1>3. /\ all[0] = <<>>
      /\ \A k \in 1..n : all[k] = all[k-1] \o parts[k]
  <2> HIDE DEF parts
  <2>1. QED
    BY <1>2, JoinedIs
<1>4. all = Addresses(b.records)
  BY DEF Addresses, Found
<1> HIDE DEF all
<1>5. ASSUME NEW k \in 0..n-1
      PROVE  all[k+1] = all[k] \o (IF Found(b.records[k+1]) THEN <<b.records[k+1].data>> ELSE <<>>)
  <2>1. k + 1 \in 1..n /\ (k + 1) - 1 = k
    BY <1>1
  <2>2. QED
    BY <1>1, <1>3, <2>1
<1>6. QED
  BY <1>1, <1>3, <1>4, <1>5 DEF Found

OnReply(b) == WireInv /\ b \in Replies /\ PartOf(Encode(b)) /\ Follows(b)

LEMMA HeaderFollows ==
    ASSUME NEW b, OnReply(b), Header \/ NotAResponse
    PROVE  Follows(b)'
<1>1. Sendable(b) /\ WireInv /\ PartOf(Encode(b)) /\ Follows(b)
  BY ReplyAssumption DEF OnReply
<1>2. CASE Header
  BY <1>1, <1>2 DEF Header, Follows, QuestionFollows
<1>3. CASE NotAResponse
  <2>1. Size \in Nat /\ msg \in Seq(Byte) /\ Size <= Len(Encode(b))
    BY <1>1 DEF WireInv, TypeOK, Size, PartOf
  <2>2. Size < HeaderSize
    <3>1. 2 < Size => At(2) = Encode(b)[2+1]
      BY <1>1, <2>1, SeenBytes
    <3>2. Encode(b)[3] = 129 /\ 2 + 1 = 3
      BY <1>1, ReplyHeader
    <3>3. QED
      BY <1>3, <2>1, <3>1, <3>2 DEF NotAResponse, IsResponse, HeaderSize
  <2>3. HeaderSize <= Len(Encode(b)) /\ Len(Encode(b)) \in Nat
    BY <1>1, ReplyParts
  <2>4. Size < Len(Encode(b))
    BY <2>1, <2>2, <2>3 DEF HeaderSize
  <2>5. QED
    BY <1>3, <2>4 DEF NotAResponse, Reject, Follows, Size
<1>4. QED
  BY <1>2, <1>3

\* The counts of a reply.
LEMMA ReplyCounts ==
    ASSUME NEW b, OnReply(b), HeaderSize <= Size
    PROVE  Word(4) = 1 /\ Word(6) = Len(b.records)
<1>1. Sendable(b) /\ PartOf(Encode(b)) /\ msg \in Seq(Byte) /\ Size \in Nat
  BY ReplyAssumption DEF OnReply, WireInv, TypeOK, Size
<1>2. Word(4) = 256 * Encode(b)[5] + Encode(b)[6] /\ Word(6) = 256 * Encode(b)[7] + Encode(b)[8]
  <2>1. 4 + 1 < Size /\ 6 + 1 < Size
    BY <1>1 DEF HeaderSize
  <2>2. QED
    BY <1>1, <2>1, SeenBytes
<1>3. Len(b.records) \in Uint16
  BY <1>1 DEF Sendable
<1>4. QED
  BY <1>1, <1>2, <1>3, ReplyHeader, HighLow

LEMMA SectionFollows ==
    ASSUME NEW b, OnReply(b), BeginRecord \/ NextSection
    PROVE  Follows(b)'
<1>1. Sendable(b) /\ WireInv /\ Follows(b) /\ at = "record"
  BY ReplyAssumption DEF OnReply, BeginRecord, NextSection
<1>2. HeaderSize <= Size
  BY <1>1 DEF WireInv, TypeOK, CursorInside, Size, HeaderSize
<1>3. Count = IF section = "question" THEN 1 ELSE Len(b.records)
  BY <1>2, ReplyCounts DEF Count
<1>4. Len(b.name) \in Nat /\ LabelEnd(b, 0) = HeaderSize
  BY <1>1, ReplyLabels
<1>5. Len(b.records) \in Nat /\ Addresses(b.records)[0] = <<>>
  <2>1. Len(b.records) \in Uint16
    BY <1>1 DEF Sendable
  <2>2. QED
    BY <1>1, <2>1, HighLow, AddressesJoined
<1>6. CASE section = "question"
  <2>1. QuestionFollows(b)
    BY <1>1, <1>6 DEF Follows
  <2>2. CASE BeginRecord
    <3>1. i = 0 /\ off = HeaderSize /\ addrs = <<>>
      BY <1>1, <1>3, <1>6, <2>1, <2>2 DEF QuestionFollows, BeginRecord, SectionOver
    <3>2. /\ name' = FreshName(off) /\ at' = "name"
          /\ UNCHANGED <<msg, section, i, off, question, addrs>>
      BY <2>2 DEF BeginRecord
    <3>3. SubSeq(b.name, 1, 0) = <<>>
      BY SubSeqEmpty
    <3>4. /\ AtLabel(b, name.hops)' /\ name'.end = NoEnd
          /\ name'.labels = SubSeq(b.name, 1, name'.hops)
      BY <1>4, <3>1, <3>2, <3>3 DEF AtLabel, FreshName
    <3>5. QuestionFollows(b)'
      BY <3>1, <3>2, <3>4 DEF QuestionFollows
    <3>6. QED
      BY <1>6, <3>2, <3>5 DEF Follows
  <2>3. CASE NextSection
    <3>1. i = 1 /\ off = RecordEnd(b, 0) /\ question = b.name /\ addrs = <<>>
      BY <1>1, <1>3, <1>6, <2>1, <2>3 DEF QuestionFollows, NextSection, SectionOver
    <3>2. /\ section' = "answer" /\ i' = 0 /\ at' = "record"
          /\ UNCHANGED <<msg, off, name, question, addrs>>
      BY <1>1, <1>6, <2>3 DEF NextSection
    <3>3. AnswerFollows(b)'
      BY <1>5, <3>1, <3>2 DEF AnswerFollows
    <3>4. QED
      BY <3>2, <3>3 DEF Follows
  <2>4. QED
    BY <2>2, <2>3
<1>7. CASE section # "question"
  <2>1. AnswerFollows(b) /\ section = "answer"
    BY <1>1, <1>7 DEF Follows, WireInv, TypeOK
  <2>2. CASE BeginRecord
    <3>1. i < Len(b.records)
      BY <1>3, <1>5, <1>7, <2>1, <2>2 DEF AnswerFollows, BeginRecord, SectionOver
    <3>2. /\ name' = FreshName(off) /\ at' = "name"
          /\ UNCHANGED <<msg, section, i, off, question, addrs>>
      BY <2>2 DEF BeginRecord
    <3>3. AnswerFollows(b)'
      BY <1>1, <2>1, <3>1, <3>2 DEF AnswerFollows, FreshName
    <3>4. QED
      BY <1>7, <3>2, <3>3 DEF Follows
  <2>3. CASE NextSection
    <3>1. i = Len(b.records)
      BY <1>3, <1>7, <2>3 DEF NextSection, SectionOver
    <3>2. at' = "ok" /\ UNCHANGED <<msg, section, i, off, name, question, addrs>>
      BY <1>7, <2>3 DEF NextSection
    <3>3. AnswerFollows(b)'
      BY <1>1, <2>1, <3>1, <3>2 DEF AnswerFollows
    <3>4. QED
      BY <1>7, <3>2, <3>3 DEF Follows
  <2>4. QED
    BY <2>2, <2>3
<1>8. QED
  BY <1>6, <1>7

\* What is left of a reply when readName is at one of the labels of its name.
LEMMA NameAt ==
    ASSUME NEW b, OnReply(b), NEW k, AtLabel(b, k)
    PROVE  /\ k \in 0..Len(b.name) /\ Len(b.name) \in Nat /\ Len(b.name) < MaxHops
           /\ name.pos \in Nat /\ name.pos < Len(Encode(b)) /\ Len(Encode(b)) \in Nat
           /\ Size \in Nat /\ Size <= Len(Encode(b))
           /\ name.pos < Size /\ k = Len(b.name) => Length = 0
<1> DEFINE m == Encode(b)
           d == Len(RecordsOf(b.records)[Len(b.records)])
<1>1. Sendable(b) /\ PartOf(m) /\ msg \in Seq(Byte)
  BY ReplyAssumption DEF OnReply, WireInv, TypeOK
<1>2. PICK n \in Nat : n = Len(b.name) /\ n < MaxHops /\ k \in 0..n
  BY <1>1, ReplyLabels DEF Sendable, AtLabel
<1>3. name.pos = LabelEnd(b, k)
  BY DEF AtLabel
<1>4. /\ LabelEnd(b, k) \in Nat /\ LabelEnd(b, n) \in Nat /\ LabelEnd(b, k) <= LabelEnd(b, n)
      /\ m[LabelEnd(b, n) + 1] = 0
  <2>1. n \in 0..n
    OBVIOUS
  <2>2. \A l \in 0..n : LabelEnd(b, l) \in Nat
    BY <1>1, <1>2, ReplyLabels
  <2>3. CASE k = n
    BY <1>1, <1>2, <2>1, <2>2, <2>3, ReplyLabels
  <2>4. CASE k # n
    <3>1. k \in 0..n-1
      BY <1>2, <2>4
    <3>2. /\ Len(b.name[k+1]) \in 1..63
          /\ LabelEnd(b, k+1) = LabelEnd(b, k) + 1 + Len(b.name[k+1])
          /\ LabelEnd(b, k+1) <= LabelEnd(b, n)
          /\ m[LabelEnd(b, n) + 1] = 0
      BY <1>1, <1>2, <3>1, ReplyLabels
    <3>3. LabelEnd(b, k) \in Nat /\ LabelEnd(b, n) \in Nat
      BY <1>2, <2>1, <2>2
    <3> DEFINE size == Len(b.name[k+1])
               here == LabelEnd(b, k)
               next == LabelEnd(b, k+1)
               end == LabelEnd(b, n)
    <3>4. size \in 1..63 /\ next = here + 1 + size /\ next <= end /\ here \in Nat /\ end \in Nat
      BY <3>2, <3>3
    <3> HIDE DEF size, here, next, end
    <3>5. here <= end
      BY <3>4
    <3>6. QED
      BY <3>2, <3>4, <3>5 DEF here, end
  <2>5. QED
    BY <2>3, <2>4
<1>5. Len(m) = LabelEnd(b, n) + 5 + d /\ d \in Nat /\ Len(m) \in Nat
  BY <1>1, <1>2, ReplyParts
<1> HIDE DEF d
<1>6. name.pos \in Nat /\ name.pos < Len(m)
  BY <1>3, <1>4, <1>5
<1>7. Size \in Nat /\ Size <= Len(m)
  BY <1>1 DEF PartOf, Size
<1>8. name.pos < Size /\ k = n => Length = 0
  <2>1. name.pos < Size => At(name.pos) = m[name.pos + 1]
    BY <1>1, <1>6, SeenBytes
  <2>2. QED
    BY <1>3, <1>4, <2>1 DEF Length
<1>9. QED
  BY <1>2, <1>5, <1>6, <1>7, <1>8

\* The reply b has these bytes from o on.
HasBytes(b, o, part) ==
    part \in Seq(Byte) /\ \A j \in 1..Len(part) : Encode(b)[o + j] = part[j]

LEMMA NameAtLabel ==
    ASSUME NEW b, OnReply(b), NEW k, AtLabel(b, k), k # Len(b.name)
    PROVE  \E size \in 1..63 :
              /\ Len(b.name[k+1]) = size /\ HasBytes(b, name.pos + 1, b.name[k+1])
              /\ LabelEnd(b, k+1) = name.pos + 1 + size
              /\ LabelEnd(b, k+1) < Len(Encode(b))
              /\ name.pos < Size => Length = size
<1> DEFINE m == Encode(b)
<1>1. Sendable(b) /\ PartOf(m) /\ msg \in Seq(Byte)
  BY ReplyAssumption DEF OnReply, WireInv, TypeOK
<1>2. PICK n \in Nat : n = Len(b.name)
  BY NameAt
<1>3. k \in 0..n-1 /\ k + 1 \in 1..n
  BY <1>2, NameAt
<1>4. PICK size \in 1..63 : size = Len(b.name[k+1])
  BY <1>1, <1>2, <1>3, ReplyLabels
<1>5. /\ LabelEnd(b, k+1) = LabelEnd(b, k) + 1 + size
      /\ LabelEnd(b, k+1) <= LabelEnd(b, n)
      /\ m[LabelEnd(b, k) + 1] = size
      /\ \A j \in 1..size : m[LabelEnd(b, k) + 1 + j] = b.name[k+1][j]
  BY <1>1, <1>2, <1>3, <1>4, ReplyLabels
<1>6. name.pos = LabelEnd(b, k) /\ name.pos \in Nat
  BY NameAt DEF AtLabel
<1>7. LabelEnd(b, n) < Len(m) /\ LabelEnd(b, n) \in Nat /\ Len(m) \in Nat
  <2> DEFINE d == Len(RecordsOf(b.records)[Len(b.records)])
  <2>1. Len(m) = LabelEnd(b, n) + 5 + d /\ d \in Nat /\ Len(m) \in Nat
    BY <1>1, <1>2, ReplyParts
  <2>2. n \in 0..n /\ \A l \in 0..n : LabelEnd(b, l) \in Nat
    BY <1>1, <1>2, ReplyLabels
  <2> HIDE DEF d
  <2>3. QED
    BY <2>1, <2>2
<1>8. LabelEnd(b, k+1) < Len(m)
  <2>1. LabelEnd(b, k+1) \in Nat
    BY <1>5, <1>6
  <2>2. QED
    BY <1>5, <1>7, <2>1
<1>9. name.pos < Size => Length = size
  <2>1. name.pos < Size => At(name.pos) = m[name.pos + 1]
    BY <1>1, <1>6, SeenBytes
  <2>2. QED
    BY <1>5, <1>6, <2>1 DEF Length
<1>10. HasBytes(b, name.pos + 1, b.name[k+1])
  <2>1. b.name[k+1] \in Seq(Byte)
    BY <1>1, <1>2, <1>3, ElementOfSeq DEF Sendable
  <2>2. QED
    BY <1>4, <1>5, <1>6, <2>1 DEF HasBytes
<1>11. QED
  BY <1>4, <1>5, <1>6, <1>8, <1>9, <1>10

\* At a label of a reply's name readName reads that label, at its end the terminator, and
\* nothing else.
LEMMA NameTurn ==
    ASSUME NEW b, OnReply(b), NEW k, AtLabel(b, k), Reading
    PROVE  ~IsPointer /\ (Length = 0 => k = Len(b.name)) /\ (IsLabel => k # Len(b.name))
<1>1. name.pos < Size
  BY DEF Reading
<1>2. CASE k = Len(b.name)
  <2>1. Length = 0
    BY <1>1, <1>2, NameAt
  <2>2. QED
    BY <1>2, <2>1 DEF IsPointer, IsLabel
<1>3. CASE k # Len(b.name)
  <2>1. Length \in 1..63
    BY <1>1, <1>3, NameAtLabel
  <2>2. QED
    BY <1>3, <2>1 DEF IsPointer
<1>4. QED
  BY <1>2, <1>3

\* Bytes that the message shares with a reply.
LEMMA PartIs ==
    ASSUME NEW b, OnReply(b), NEW o \in Nat, NEW part, HasBytes(b, o, part),
           NEW size \in Nat, size = Len(part), o + size <= Size
    PROVE  SubSeq(msg, o + 1, o + size) = part
<1>1. part \in Seq(Byte)
  BY DEF HasBytes
<1> DEFINE text == SubSeq(msg, o + 1, o + size)
           first == o + 1
           last == o + size
<1>2. \A p \in 1..Size : msg[p] \in Byte /\ msg[p] = Encode(b)[p]
  <2>1. PartOf(Encode(b)) /\ msg \in Seq(Byte)
    BY DEF OnReply, WireInv, TypeOK
  <2>2. QED
    BY <2>1, ElementOfSeq DEF PartOf, Size
<1>3. Size \in Nat
  BY DEF OnReply, WireInv, TypeOK, Size
<1>4. first \in Int /\ last \in Int /\ \A p \in first..last : msg[p] \in Byte
  <2>1. \A p \in first..last : p \in 1..Size
    BY <1>3
  <2>2. QED
    BY <1>2, <2>1
<1>5. /\ text \in Seq(Byte)
      /\ Len(text) = IF first <= last THEN last - first + 1 ELSE 0
      /\ \A j \in 1..last - first + 1 : text[j] = msg[first + j - 1]
  <2>1. text = SubSeq(msg, first, last)
    OBVIOUS
  <2> HIDE DEF first, last, text
  <2>2. QED
    BY <1>4, <2>1, SubSeqProperties
<1> HIDE DEF text
<1>6. Len(text) = size /\ last - first + 1 = size /\ \A j \in 1..size : first + j - 1 = o + j
  BY <1>5
<1>7. ASSUME NEW j \in 1..size PROVE text[j] = part[j]
  <2>1. text[j] = msg[o + j] /\ o + j \in 1..Size
    BY <1>3, <1>5, <1>6
  <2>2. Encode(b)[o + j] = part[j]
    BY DEF HasBytes
  <2>3. QED
    BY <1>2, <2>1, <2>2
<1>8. text = part
  BY <1>1, <1>5, <1>6, <1>7, SeqEqual
<1>9. QED
  BY <1>8 DEF text

LEMMA LabelRead ==
    ASSUME NEW b, OnReply(b), NEW k, AtLabel(b, k), Label
    PROVE  /\ k \in 0..Len(b.name)-1 /\ k + 1 \in 0..Len(b.name)
           /\ name.pos + 1 + Length = LabelEnd(b, k+1)
           /\ LabelText = b.name[k+1]
<1>1. Reading /\ IsLabel /\ name.pos < Size
  BY DEF Label, Reading
<1>2. k # Len(b.name)
  BY <1>1, NameTurn
<1>3. PICK size \in 1..63 :
        /\ Len(b.name[k+1]) = size /\ HasBytes(b, name.pos + 1, b.name[k+1])
        /\ LabelEnd(b, k+1) = name.pos + 1 + size
        /\ Length = size
  BY <1>1, <1>2, NameAtLabel
<1>4. /\ k \in 0..Len(b.name) /\ Len(b.name) \in Nat /\ name.pos \in Nat /\ Size \in Nat
  BY NameAt
<1>5. name.pos + 1 + size <= Size
  BY <1>1, <1>3 DEF IsLabel
<1>6. LabelText = b.name[k+1]
  <2>1. PICK o \in Nat : o = name.pos + 1 /\ o + size <= Size
    BY <1>4, <1>5
  <2>2. LabelText = SubSeq(msg, o + 1, o + size)
    <3>1. name.pos + 2 = o + 1 /\ name.pos + 1 + Length = o + size
      BY <1>3, <1>4, <2>1
    <3>2. QED
      BY <3>1 DEF LabelText
  <2>3. HasBytes(b, o, b.name[k+1]) /\ size \in Nat /\ size = Len(b.name[k+1])
    BY <1>3, <2>1
  <2>4. SubSeq(msg, o + 1, o + size) = b.name[k+1]
    BY <2>1, <2>3, PartIs
  <2>5. QED
    BY <2>2, <2>4
<1>7. QED
  BY <1>2, <1>3, <1>4, <1>6

\* A name of a reply is only bad where the reply is cut off.
LEMMA NameCut ==
    ASSUME NEW b, OnReply(b), NEW k, AtLabel(b, k), name.hops <= MaxHops, BadName
    PROVE  Size < Len(Encode(b))
<1>1. /\ name.pos \in Nat /\ name.pos < Len(Encode(b)) /\ Len(Encode(b)) \in Nat
      /\ Size \in Nat
  BY NameAt
<1>2. CASE ~(name.pos < Size)
  BY <1>1, <1>2
<1>3. CASE name.pos < Size
  <2>1. Reading
    BY <1>3 DEF Reading, BadName
  <2>2. Length # 0 /\ ~IsLabel
    BY <2>1 DEF BadName
  <2>3. k # Len(b.name)
    BY <1>3, <2>2, NameAt
  <2>4. PICK size \in 1..63 :
          /\ LabelEnd(b, k+1) = name.pos + 1 + size
          /\ LabelEnd(b, k+1) < Len(Encode(b))
          /\ Length = size
    BY <1>3, <2>3, NameAtLabel
  <2>5. ~(name.pos + 1 + size <= Size)
    BY <2>2, <2>4 DEF IsLabel
  <2>6. QED
    BY <1>1, <2>4, <2>5
<1>4. QED
  BY <1>2, <1>3

LEMMA QuestionNameFollows ==
    ASSUME NEW b, OnReply(b), at = "name", section = "question",
           Terminator \/ Pointer \/ Label \/ BadName
    PROVE  Follows(b)'
<1>1. /\ QuestionFollows(b) /\ b.name \in Seq(Seq(Byte)) /\ MaxHops \in Nat
  BY ReplyAssumption, WireAssumption DEF OnReply, Follows, Sendable
<1>2. PICK k \in 0..Len(b.name) : k = name.hops
  BY <1>1 DEF QuestionFollows, AtLabel
<1>3. /\ i = 0 /\ addrs = <<>> /\ name.end = NoEnd /\ AtLabel(b, k)
      /\ name.labels = SubSeq(b.name, 1, k)
  BY <1>1, <1>2 DEF QuestionFollows
<1>4. k < MaxHops /\ Len(b.name) \in Nat /\ name.pos \in Nat
  BY <1>1, <1>3, NameAt
<1>5. CASE Terminator
  <2>1. /\ Reading /\ Length = 0 /\ at' = "tail" /\ off' = EndOr(name.pos + 1)
        /\ UNCHANGED <<msg, section, i, name, question, addrs>>
    BY <1>5 DEF Terminator
  <2>2. k = Len(b.name)
    BY <1>3, <2>1, NameTurn
  <2>3. off' = LabelEnd(b, Len(b.name)) + 1
    BY <1>3, <2>1, <2>2 DEF EndOr, AtLabel
  <2>4. SubSeq(b.name, 1, Len(b.name)) = b.name
    BY <1>1, SubSeqFull
  <2>5. QuestionFollows(b)'
    BY <1>3, <2>1, <2>2, <2>3, <2>4 DEF QuestionFollows
  <2>6. QED
    BY <2>1, <2>5 DEF Follows
<1>6. CASE Pointer
  BY <1>3, <1>6, NameTurn DEF Pointer
<1>7. CASE Label
  <2>1. /\ name' = [pos |-> name.pos + 1 + Length, hops |-> k + 1, end |-> NoEnd,
                    labels |-> Append(name.labels, LabelText)]
        /\ UNCHANGED <<msg, at, section, i, off, question, addrs>>
    BY <1>2, <1>3, <1>7 DEF Label
  <2>2. /\ k \in 0..Len(b.name)-1 /\ k + 1 \in 0..Len(b.name)
        /\ name.pos + 1 + Length = LabelEnd(b, k+1)
        /\ LabelText = b.name[k+1]
    BY <1>3, <1>7, LabelRead
  <2>3. SubSeq(b.name, 1, k + 1) = Append(SubSeq(b.name, 1, k), b.name[k+1])
    <3>1. PICK next \in 1..Len(b.name) : next = k + 1 /\ next - 1 = k
      BY <1>4, <2>2
    <3>2. SubSeq(b.name, 1, next) = SubSeq(b.name, 1, next - 1) \o <<b.name[next]>>
      <4>1. 1 \in 1..Len(b.name) /\ next \in 1..Len(b.name)
        BY <1>4, <3>1
      <4>2. QED
        BY <1>1, <4>1, SubSeqRecursiveSecond
    <3>3. SubSeq(b.name, 1, k) \in Seq(Seq(Byte)) /\ b.name[next] \in Seq(Byte)
      <4>1. \A j \in 1..k : b.name[j] \in Seq(Byte)
        BY <1>1, <1>4, ElementOfSeq
      <4>2. 1 \in Int /\ k \in Int
        OBVIOUS
      <4>3. SubSeq(b.name, 1, k) \in Seq(Seq(Byte))
        BY <4>1, <4>2, SubSeqProperties
      <4>4. b.name[next] \in Seq(Byte)
        BY <1>1, <3>1, ElementOfSeq
      <4>5. QED
        BY <4>3, <4>4
    <3>4. Append(SubSeq(b.name, 1, k), b.name[next]) = SubSeq(b.name, 1, k) \o <<b.name[next]>>
      BY <3>3, AppendIsConcat
    <3>5. QED
      BY <3>1, <3>2, <3>4
  <2>4. name'.pos = LabelEnd(b, k+1) /\ name'.hops = k + 1 /\ name'.end = NoEnd
        /\ name'.labels = SubSeq(b.name, 1, k + 1)
    BY <1>3, <2>1, <2>2, <2>3
  <2>5. QuestionFollows(b)'
    BY <1>3, <2>1, <2>2, <2>4 DEF QuestionFollows, AtLabel
  <2>6. QED
    BY <2>1, <2>5 DEF Follows
<1>8. CASE BadName
  <2>1. Size < Len(Encode(b))
    BY <1>1, <1>2, <1>3, <1>4, <1>8, NameCut
  <2>2. at' = "malformed" /\ msg' = msg
    BY <1>8 DEF BadName, Reject
  <2>3. QED
    BY <2>1, <2>2 DEF Follows, Size
<1>9. QED
  BY <1>5, <1>6, <1>7, <1>8

\* The reply's record k+1, of size bytes of data, is what Parse finds from o on, as far as
\* there is anything.
RecordFrom(b, k, o, size) ==
    LET r == b.records[k+1] IN
    /\ o = RecordEnd(b, k) /\ size = Len(r.data) /\ HasBytes(b, o + 12, r.data)
    /\ RecordEnd(b, k+1) = o + 12 + size
    /\ o + 12 + size <= Len(Encode(b)) /\ Len(Encode(b)) \in Nat
    /\ o < Size => At(o) = 192
    /\ o + 1 < Size => Word(o) = 49164
    /\ o + 3 < Size => Word(o + 2) = r.type
    /\ o + 5 < Size => Word(o + 4) = r.class
    /\ o + 11 < Size => Word(o + 10) = size

LEMMA AnswerBytes ==
    ASSUME NEW b, OnReply(b), NEW k \in 0..Len(b.records)-1
    PROVE  \E o \in Nat, size \in Nat : RecordFrom(b, k, o, size)
<1> DEFINE m == Encode(b)
           r == b.records[k+1]
           bytes == EncodeRecord(r)
<1>1. Sendable(b) /\ PartOf(m) /\ msg \in Seq(Byte)
  BY ReplyAssumption DEF OnReply, WireInv, TypeOK
<1>2. PICK n \in Nat : n = Len(b.records)
  <2>1. Len(b.records) \in Uint16
    BY <1>1 DEF Sendable
  <2>2. QED
    BY <2>1, HighLow
<1>3. PICK next \in 1..Len(b.records) : next = k + 1
  BY <1>2
<1>4. /\ r.type \in Uint16 /\ r.class \in Uint16 /\ r.data \in Seq(Byte)
      /\ Len(r.data) \in Uint16
      /\ bytes[1] = 192 /\ bytes[2] = 12
      /\ bytes[3] = High(r.type) /\ bytes[4] = Low(r.type)
      /\ bytes[5] = High(r.class) /\ bytes[6] = Low(r.class)
      /\ bytes[11] = High(Len(r.data)) /\ bytes[12] = Low(Len(r.data))
      /\ \A j \in 1..Len(r.data) : bytes[12 + j] = r.data[j]
  <2>1. r = b.records[next]
    BY <1>3
  <2>2. /\ r.type \in Uint16 /\ r.class \in Uint16 /\ r.data \in Seq(Byte)
        /\ Len(r.data) \in Uint16
    BY <1>1, <2>1, SendableRecord
  <2> HIDE DEF r
  <2>3. QED
    BY <2>2, RecordBytes
<1>5. PICK size \in Nat : size = Len(r.data)
  BY <1>4, HighLow
<1>6. PICK o \in Nat : o = RecordEnd(b, k)
  <2>1. k \in 0..n
    BY <1>2
  <2>2. QED
    BY <1>1, <1>2, <2>1, ReplyRecords
<1>7. Len(m) \in Nat
  BY <1>1, ReplyParts
<1>8. RecordEnd(b, k+1) = o + 12 + size /\ o + 12 + size <= Len(m)
      /\ \A j \in 1..12 + size : m[o + j] = bytes[j]
  <2>1. /\ RecordEnd(b, k+1) = RecordEnd(b, k) + 12 + Len(r.data)
        /\ RecordEnd(b, k+1) <= Len(m)
        /\ \A j \in 1..12 + Len(r.data) : m[RecordEnd(b, k) + j] = bytes[j]
    BY <1>1, <1>2, ReplyRecords
  <2>2. QED
    BY <1>5, <1>6, <2>1
<1> HIDE DEF m, bytes, r
<1>9. ASSUME NEW j \in 1..size PROVE m[o + 12 + j] = r.data[j]
  <2>1. 12 + j \in 1..12 + size /\ o + (12 + j) = o + 12 + j
    OBVIOUS
  <2>2. m[o + (12 + j)] = bytes[12 + j]
    BY <1>8, <2>1
  <2>3. bytes[12 + j] = r.data[j]
    BY <1>4, <1>5
  <2>4. QED
    BY <2>1, <2>2, <2>3
<1>10. \A p \in Nat : /\ o + p < Size => At(o + p) = m[(o + p) + 1]
                      /\ o + p + 1 < Size => Word(o + p) = 256 * m[(o + p) + 1] + m[(o + p) + 2]
  <2>1. ASSUME NEW p \in Nat
        PROVE  /\ o + p < Size => At(o + p) = m[(o + p) + 1]
               /\ (o + p) + 1 < Size => Word(o + p) = 256 * m[(o + p) + 1] + m[(o + p) + 2]
    <3>1. o + p \in Nat
      OBVIOUS
    <3>2. QED
      BY <1>1, <3>1, SeenBytes
  <2>2. QED
    BY <2>1
<1>11. {1, 2, 3, 4, 5, 6, 11, 12} \subseteq 1..12 + size
  OBVIOUS
<1>12. /\ m[o + 1] = 192 /\ m[o + 2] = 12
       /\ m[o + 3] = High(r.type) /\ m[o + 4] = Low(r.type)
       /\ m[o + 5] = High(r.class) /\ m[o + 6] = Low(r.class)
       /\ m[o + 11] = High(size) /\ m[o + 12] = Low(size)
  <2>1. \A j \in {1, 2, 3, 4, 5, 6, 11, 12} : m[o + j] = bytes[j]
    BY <1>8, <1>11
  <2>2. /\ m[o + 1] = bytes[1] /\ m[o + 2] = bytes[2] /\ m[o + 3] = bytes[3] /\ m[o + 4] = bytes[4]
        /\ m[o + 5] = bytes[5] /\ m[o + 6] = bytes[6]
        /\ m[o + 11] = bytes[11] /\ m[o + 12] = bytes[12]
    BY <2>1
  <2>3. QED
    BY <1>4, <1>5, <2>2
<1>13. /\ 256 * High(r.type) + Low(r.type) = r.type
       /\ 256 * High(r.class) + Low(r.class) = r.class
       /\ 256 * High(size) + Low(size) = size
  BY <1>4, <1>5, HighLow
<1>14. o < Size => At(o) = 192
  <2>1. o + 0 = o /\ (o + 0) + 1 = o + 1
    OBVIOUS
  <2>2. o < Size => At(o) = m[o + 1]
    BY <1>10, <2>1
  <2>3. QED
    BY <1>12, <2>2
<1>15. o + 1 < Size => Word(o) = 49164
  <2>1. o \in Nat
    OBVIOUS
  <2>2. o + 1 < Size => Word(o) = 256 * m[o + 1] + m[o + 2]
    BY <1>1, <2>1, SeenBytes
  <2>3. m[o + 1] = 192 /\ m[o + 2] = 12 /\ 256 * 192 + 12 = 49164
    BY <1>12
  <2>4. QED
    BY <2>2, <2>3
<1>16. o + 3 < Size => Word(o + 2) = r.type
  <2>1. (o + 2) + 1 = o + 3 /\ (o + 2) + 2 = o + 4
    OBVIOUS
  <2>2. o + 3 < Size => Word(o + 2) = 256 * m[o + 3] + m[o + 4]
    BY <1>10, <2>1
  <2>3. QED
    BY <1>12, <1>13, <2>2
<1>17. o + 5 < Size => Word(o + 4) = r.class
  <2>1. (o + 4) + 1 = o + 5 /\ (o + 4) + 2 = o + 6
    OBVIOUS
  <2>2. o + 5 < Size => Word(o + 4) = 256 * m[o + 5] + m[o + 6]
    BY <1>10, <2>1
  <2>3. QED
    BY <1>12, <1>13, <2>2
<1>18. o + 11 < Size => Word(o + 10) = size
  <2>1. (o + 10) + 1 = o + 11 /\ (o + 10) + 2 = o + 12
    OBVIOUS
  <2>2. o + 11 < Size => Word(o + 10) = 256 * m[o + 11] + m[o + 12]
    BY <1>10, <2>1
  <2>3. QED
    BY <1>12, <1>13, <2>2
<1>19. /\ o = RecordEnd(b, k) /\ size = Len(r.data) /\ Len(m) \in Nat
       /\ RecordEnd(b, k+1) = o + 12 + size /\ o + 12 + size <= Len(m)
  BY <1>5, <1>6, <1>7, <1>8
<1>20. RecordFrom(b, k, o, size)
  <2> USE DEF m, r
  <2>1. /\ o = RecordEnd(b, k) /\ size = Len(b.records[k+1].data)
        /\ RecordEnd(b, k+1) = o + 12 + size
        /\ o + 12 + size <= Len(Encode(b)) /\ Len(Encode(b)) \in Nat
    BY <1>4, <1>19, Zenon
  <2>2. /\ o < Size => At(o) = 192
        /\ o + 1 < Size => Word(o) = 49164
    BY <1>14, <1>15
  <2>3. /\ o + 3 < Size => Word(o + 2) = b.records[k+1].type
        /\ o + 5 < Size => Word(o + 4) = b.records[k+1].class
    BY <1>16, <1>17, Zenon
  <2>4. o + 11 < Size => Word(o + 10) = size
    BY <1>18, Zenon
  <2>5. HasBytes(b, o + 12, b.records[k+1].data)
    BY <1>4, <1>5, <1>9, Zenon DEF HasBytes
  <2>6. QED
    BY <2>1, <2>2, <2>3, <2>4, <2>5, SMT DEF RecordFrom
<1>21. QED
  BY <1>20

LEMMA AnswerNameFollows ==
    ASSUME NEW b, OnReply(b), at = "name", section = "answer",
           Terminator \/ Pointer \/ Label \/ BadName
    PROVE  Follows(b)'
<1>1. AnswerFollows(b) /\ b.name \in Seq(Seq(Byte)) /\ MaxHops \in Nat
  BY ReplyAssumption, WireAssumption DEF OnReply, Follows, Sendable
<1>2. PICK k \in 0..Len(b.records)-1 : k = i
  <2>1. Len(b.records) \in Nat
    <3>1. Len(b.records) \in Uint16
      BY ReplyAssumption DEF OnReply, Sendable
    <3>2. QED
      BY <3>1, HighLow
  <2>2. QED
    BY <1>1, <2>1 DEF AnswerFollows
<1>3. PICK o \in Nat, size \in Nat : RecordFrom(b, k, o, size)
  BY AnswerBytes
<1>4. /\ o = RecordEnd(b, k)
      /\ RecordEnd(b, k+1) = o + 12 + size
      /\ o + 12 + size <= Len(Encode(b)) /\ Len(Encode(b)) \in Nat
      /\ o < Size => At(o) = 192
      /\ o + 1 < Size => Word(o) = 49164
  BY <1>3 DEF RecordFrom
<1>5. off = o /\ question = b.name /\ addrs = Addresses(b.records)[k] /\ Size \in Nat
  BY <1>1, <1>2, <1>4 DEF AnswerFollows, OnReply, WireInv, TypeOK, Size
<1>6. ASSUME name'.end = off + 2, name'.hops > 0, AtLabel(b, name.hops - 1)',
             UNCHANGED <<msg, at, section, i, off, question, addrs>>
      PROVE  Follows(b)'
  <2>1. AnswerFollows(b)'
    BY <1>1, <1>6 DEF AnswerFollows
  <2>2. QED
    BY <1>6, <2>1 DEF Follows
<1>7. ASSUME BadName, Size < Len(Encode(b))
      PROVE  Follows(b)'
  BY <1>7 DEF BadName, Reject, Follows, Size
<1>8. CASE name.pos = off /\ name.hops = 0 /\ name.end = NoEnd
  <2>1. name.pos < Size => Length = 192
    BY <1>4, <1>5, <1>8 DEF Length
  <2>2. CASE Terminator
    BY <2>1, <2>2 DEF Terminator, Reading
  <2>3. CASE Pointer
    <3>1. /\ name' = [pos |-> Word(o) % 16384, hops |-> 0 + 1, end |-> EndOr(o + 2),
                      labels |-> name.labels]
          /\ UNCHANGED <<msg, at, section, i, off, question, addrs>>
          /\ o + 1 < Size
      BY <1>5, <1>8, <2>3 DEF Pointer, IsPointer
    <3>2. Word(o) % 16384 = 12
      BY <1>4, <3>1
    <3>3. LabelEnd(b, 0) = 12 /\ 0 \in 0..Len(b.name)
      BY ReplyAssumption, ReplyLabels DEF OnReply, HeaderSize
    <3>4. name'.pos = LabelEnd(b, 0) /\ name'.hops = 1 /\ name'.end = off + 2
      BY <1>5, <1>8, <3>1, <3>2, <3>3 DEF EndOr
    <3>5. AtLabel(b, name.hops - 1)'
      BY <3>3, <3>4 DEF AtLabel
    <3>6. QED
      BY <1>6, <3>1, <3>4, <3>5
  <2>4. CASE Label
    <3>1. name.pos < Size /\ Length \in 1..63
      BY <2>4 DEF Label, Reading, IsLabel
    <3>2. Length = 192
      BY <2>1, <3>1
    <3>3. QED
      BY <3>1, <3>2
  <2>5. CASE BadName
    <3>1. ~(o + 1 < Size)
      <4>1. CASE o + 1 < Size
        <5>1. Reading /\ Length = 192
          BY <1>1, <1>5, <1>8, <2>1, <2>5, <4>1 DEF Reading, BadName
        <5>2. IsPointer
          BY <1>5, <1>8, <4>1, <5>1 DEF IsPointer
        <5>3. QED
          BY <2>5, <5>1, <5>2 DEF BadName
      <4>2. QED
        BY <4>1
    <3>2. Size < Len(Encode(b))
      BY <1>4, <1>5, <3>1
    <3>3. QED
      BY <1>7, <2>5, <3>2
  <2>6. QED
    BY <2>2, <2>3, <2>4, <2>5
<1>9. CASE name.end = off + 2 /\ name.hops > 0 /\ AtLabel(b, name.hops - 1)
  <2>1. PICK h \in Nat : name.hops = h + 1
    <3>1. name.hops \in 0..MaxHops + 1
      BY DEF OnReply, WireInv, TypeOK
    <3>2. name.hops - 1 \in Nat /\ name.hops = (name.hops - 1) + 1
      BY <1>1, <1>9, <3>1
    <3>3. QED
      BY <3>2
  <2>2. AtLabel(b, h) /\ h < MaxHops /\ h \in 0..Len(b.name)
    <3>1. name.hops - 1 = h
      BY <2>1
    <3>2. AtLabel(b, h)
      BY <1>9, <3>1
    <3>3. /\ h \in 0..Len(b.name) /\ Len(b.name) \in Nat /\ Len(b.name) < MaxHops
      BY <3>2, NameAt
    <3>4. QED
      BY <1>1, <3>2, <3>3
  <2>3. CASE Terminator
    <3>1. /\ at' = "tail" /\ off' = EndOr(name.pos + 1)
          /\ UNCHANGED <<msg, section, i, name, question, addrs>>
      BY <2>3 DEF Terminator
    <3>2. off' = RecordEnd(b, i) + 2
      BY <1>2, <1>4, <1>5, <1>9, <3>1 DEF EndOr, NoEnd
    <3>3. AnswerFollows(b)'
      BY <1>1, <3>1, <3>2 DEF AnswerFollows
    <3>4. QED
      BY <3>1, <3>3 DEF Follows
  <2>4. CASE Pointer
    BY <2>2, <2>4, NameTurn DEF Pointer
  <2>5. CASE Label
    <3>1. /\ name' = [pos |-> name.pos + 1 + Length, hops |-> h + 1 + 1, end |-> name.end,
                      labels |-> Append(name.labels, LabelText)]
          /\ UNCHANGED <<msg, at, section, i, off, question, addrs>>
      BY <2>1, <2>5 DEF Label
    <3>2. h + 1 \in 0..Len(b.name) /\ name.pos + 1 + Length = LabelEnd(b, h+1)
      BY <2>2, <2>5, LabelRead
    <3>3. name'.pos = LabelEnd(b, h+1) /\ name'.hops = h + 2 /\ name'.end = off + 2
      BY <1>9, <3>1, <3>2
    <3>4. name'.hops - 1 = h + 1 /\ name'.hops > 0
      BY <3>3
    <3>5. AtLabel(b, name.hops - 1)'
      BY <3>2, <3>3, <3>4 DEF AtLabel
    <3>6. QED
      BY <1>6, <3>1, <3>3, <3>4, <3>5
  <2>6. CASE BadName
    <3>1. name.hops <= MaxHops
      BY <1>1, <2>1, <2>2
    <3>2. Size < Len(Encode(b))
      BY <2>2, <2>6, <3>1, NameCut
    <3>3. QED
      BY <1>7, <2>6, <3>2
  <2>7. QED
    BY <2>3, <2>4, <2>5, <2>6
<1>10. QED
  BY <1>1, <1>8, <1>9 DEF AnswerFollows

-----------------------------------------------------------------------------
(* What follows a reply's names. *)

LEMMA QuestionTailFollows ==
    ASSUME NEW b, OnReply(b), QuestionTail
    PROVE  Follows(b)'
<1>1. /\ at' = "record" /\ section = "question" /\ section' = "question"
      /\ question' = IF i = 0 THEN name.labels ELSE question
      /\ off' = off + 4 /\ i' = i + 1 /\ addrs' = addrs /\ at = "tail"
  BY DEF QuestionTail
<1>2. QuestionFollows(b)
  BY <1>1 DEF OnReply, Follows
<1>3. i = 0 /\ addrs = <<>> /\ off = LabelEnd(b, Len(b.name)) + 1 /\ name.labels = b.name
  BY <1>1, <1>2 DEF QuestionFollows
<1>4. RecordEnd(b, 0) = LabelEnd(b, Len(b.name)) + 5
  BY ReplyAssumption, ReplyRecords DEF OnReply
<1>5. LabelEnd(b, Len(b.name)) \in Nat
  <2>1. Sendable(b)
    BY ReplyAssumption DEF OnReply
  <2>2. /\ LabelEnd(b, Len(b.name)) = HeaderSize + Len(LabelsOf(b.name)[Len(b.name)])
        /\ Len(LabelsOf(b.name)[Len(b.name)]) \in Nat
    BY <2>1, ReplyParts
  <2>3. QED
    BY <2>2 DEF HeaderSize
<1>6. off' = RecordEnd(b, 0) /\ question' = b.name /\ i' = 1 /\ addrs' = <<>>
  BY <1>1, <1>3, <1>4, <1>5
<1>7. QuestionFollows(b)'
  BY <1>1, <1>6 DEF QuestionFollows
<1>8. QED
  BY <1>1, <1>7 DEF Follows

\* Parse behind the name of an answer.
LEMMA AtAnswer ==
    ASSUME NEW b, OnReply(b), at = "tail", section = "answer"
    PROVE  \E k \in 0..Len(b.records)-1, o \in Nat, size \in Nat :
              /\ k = i /\ off = o + 2 /\ RecordFrom(b, k, o, size)
              /\ AnswerFits => o + 12 <= Size /\ RdLength = size
              /\ o + 12 <= Size => RdLength = size
<1>1. AnswerFollows(b)
  BY DEF OnReply, Follows
<1>2. PICK k \in 0..Len(b.records)-1 : k = i
  <2>1. Len(b.records) \in Nat
    <3>1. Len(b.records) \in Uint16
      BY ReplyAssumption DEF OnReply, Sendable
    <3>2. QED
      BY <3>1, HighLow
  <2>2. QED
    BY <1>1, <2>1 DEF AnswerFollows
<1>3. PICK o \in Nat, size \in Nat : RecordFrom(b, k, o, size)
  BY AnswerBytes
<1>4. off = o + 2 /\ Size \in Nat
  BY <1>1, <1>2, <1>3 DEF AnswerFollows, RecordFrom, OnReply, WireInv, TypeOK, Size
<1>5. o + 11 < Size => Word(o + 10) = size
  BY <1>3 DEF RecordFrom
<1>6. o + 12 <= Size => RdLength = size
  <2>1. off + 8 = o + 10
    BY <1>4
  <2>2. QED
    BY <1>4, <1>5, <2>1 DEF RdLength
<1>7. AnswerFits => o + 12 <= Size
  BY <1>4 DEF AnswerFits
<1>8. QED
  BY <1>2, <1>3, <1>4, <1>6, <1>7

LEMMA AnswerTailFollows ==
    ASSUME NEW b, OnReply(b), AnswerTail
    PROVE  Follows(b)'
<1>1. /\ at = "tail" /\ section = "answer" /\ AnswerFits
      /\ addrs' = IF IsAddress THEN Append(addrs, RData) ELSE addrs
      /\ off' = off + 10 + RdLength /\ i' = i + 1 /\ at' = "record"
      /\ UNCHANGED <<msg, section, name, question>>
  BY DEF AnswerTail, AnswerEnd
<1>2. PICK k \in 0..Len(b.records)-1, o \in Nat, size \in Nat :
        /\ k = i /\ off = o + 2 /\ RecordFrom(b, k, o, size)
        /\ o + 12 <= Size /\ RdLength = size
  BY <1>1, AtAnswer
<1> DEFINE r == b.records[k+1]
           found == Addresses(b.records)
<1>3. question = b.name /\ addrs = found[k]
  BY <1>1, <1>2 DEF OnReply, Follows, AnswerFollows
<1>4. /\ size = Len(r.data) /\ HasBytes(b, o + 12, r.data) /\ r.data \in Seq(Byte)
      /\ RecordEnd(b, k+1) = o + 12 + size
      /\ o + 3 < Size => Word(o + 2) = r.type
      /\ o + 5 < Size => Word(o + 4) = r.class
  <2>1. RecordFrom(b, k, o, size)
    BY <1>2
  <2>2. /\ size = Len(r.data) /\ HasBytes(b, o + 12, r.data)
        /\ RecordEnd(b, k+1) = o + 12 + size
    BY <2>1 DEF RecordFrom
  <2>3. /\ o + 3 < Size => Word(o + 2) = r.type
        /\ o + 5 < Size => Word(o + 4) = r.class
    BY <2>1 DEF RecordFrom
  <2>4. r.data \in Seq(Byte)
    <3>1. HasBytes(b, o + 12, r.data)
      BY <2>2
    <3> HIDE DEF r
    <3>2. QED
      BY <3>1, Zenon DEF HasBytes
  <2>5. QED
    BY <2>2, <2>3, <2>4, Zenon
<1>5. Size \in Nat /\ o + 12 + size <= Size
  <2>1. Size \in Nat
    BY DEF OnReply, WireInv, TypeOK, Size
  <2>2. QED
    BY <1>1, <1>2, <2>1 DEF AnswerFits
<1>6. Word(off) = r.type /\ Word(off + 2) = r.class
  <2>1. off = o + 2 /\ off + 2 = o + 4 /\ o + 3 < Size /\ o + 5 < Size
    BY <1>2, <1>5
  <2>2. QED
    BY <1>4, <2>1
<1>7. RData = r.data
  <2>1. PICK from \in Nat : from = o + 12 /\ from + size <= Size
    BY <1>5
  <2>2. RData = SubSeq(msg, from + 1, from + size)
    <3>1. off + 11 = from + 1 /\ off + 10 + RdLength = from + size
      BY <1>2, <2>1
    <3>2. QED
      BY <3>1 DEF RData
  <2>3. HasBytes(b, from, r.data)
    BY <1>4, <2>1
  <2>4. QED
    BY <1>4, <2>1, <2>2, <2>3, PartIs
<1>8. addrs' = found[k+1]
  <2>1. found[k+1] = found[k] \o
          (IF r.class = 1 /\ <<r.type, Len(r.data)>> \in {<<1, 4>>, <<28, 16>>}
           THEN <<r.data>> ELSE <<>>)
    BY ReplyAssumption, AddressesJoined DEF OnReply
  <2>2. IsAddress <=> r.class = 1 /\ <<r.type, Len(r.data)>> \in {<<1, 4>>, <<28, 16>>}
    BY <1>2, <1>4, <1>6 DEF IsAddress
  <2>3. found[k] \in Seq(Seq(Byte))
    BY <1>3 DEF OnReply, WireInv, TypeOK
  <2> HIDE DEF found, r
  <2>4. CASE IsAddress
    <3>1. addrs' = Append(found[k], r.data) /\ found[k+1] = found[k] \o <<r.data>>
      BY <1>1, <1>3, <1>7, <2>1, <2>2, <2>4
    <3>2. Append(found[k], r.data) = found[k] \o <<r.data>>
      BY <1>4, <2>3, AppendIsConcat
    <3>3. QED
      BY <3>1, <3>2
  <2>5. CASE ~IsAddress
    <3>1. addrs' = found[k] /\ found[k+1] = found[k] \o <<>>
      BY <1>1, <1>3, <2>1, <2>2, <2>5
    <3>2. found[k] \o <<>> = found[k]
      BY <2>3, ConcatEmptySeq
    <3>3. QED
      BY <3>1, <3>2
  <2>6. QED
    BY <2>4, <2>5
<1>9. off' = RecordEnd(b, k+1) /\ i' = k + 1 /\ k + 1 \in 0..Len(b.records)
  <2>1. Len(b.records) \in Nat
    <3>1. Len(b.records) \in Uint16
      BY ReplyAssumption DEF OnReply, Sendable
    <3>2. QED
      BY <3>1, HighLow
  <2>2. off' = RecordEnd(b, k+1) /\ i' = k + 1
    <3>1. off' = off + 10 + RdLength /\ i' = i + 1 /\ k = i /\ off = o + 2 /\ RdLength = size
      BY <1>1, <1>2
    <3>2. RecordEnd(b, k+1) = o + 12 + size
      BY <1>4
    <3>3. QED
      BY <3>1, <3>2
  <2>3. QED
    BY <2>1, <2>2
<1>10. AnswerFollows(b)'
  BY <1>1, <1>3, <1>8, <1>9 DEF AnswerFollows
<1>11. QED
  BY <1>1, <1>10 DEF Follows

\* A record that does not fit is one that the reply was cut in.
LEMMA CutRecordFollows ==
    ASSUME NEW b, OnReply(b), CutRecord
    PROVE  Follows(b)'
<1>1. /\ at = "tail" /\ at' = "malformed" /\ msg' = msg
      /\ ~(IF section = "question" THEN QuestionFits ELSE AnswerFits)
  BY DEF CutRecord, Reject
<1>2. Size \in Nat
  BY DEF OnReply, WireInv, TypeOK, Size
<1>3. Size < Len(Encode(b))
  <2>1. CASE section = "question"
    <3>1. off = LabelEnd(b, Len(b.name)) + 1
      BY <1>1, <2>1 DEF OnReply, Follows, QuestionFollows
    <3> DEFINE end == LabelEnd(b, Len(b.name))
               d == Len(RecordsOf(b.records)[Len(b.records)])
    <3>2. Len(Encode(b)) = end + 5 + d /\ d \in Nat /\ end \in Nat
      <4>1. Sendable(b)
        BY ReplyAssumption DEF OnReply
      <4>2. /\ Len(Encode(b)) = end + 5 + d /\ d \in Nat
            /\ end = HeaderSize + Len(LabelsOf(b.name)[Len(b.name)])
            /\ Len(LabelsOf(b.name)[Len(b.name)]) \in Nat
        BY <4>1, ReplyParts
      <4>3. end \in Nat
        BY <4>2 DEF HeaderSize
      <4>4. QED
        BY <4>2, <4>3
    <3>3. ~(off + 4 <= Size)
      BY <1>1, <2>1 DEF QuestionFits
    <3> HIDE DEF d
    <3>4. QED
      BY <1>2, <3>1, <3>2, <3>3
  <2>2. CASE section # "question"
    <3>1. section = "answer"
      BY <2>2 DEF OnReply, WireInv, TypeOK
    <3>2. PICK k \in 0..Len(b.records)-1, o \in Nat, size \in Nat :
            /\ off = o + 2 /\ RecordFrom(b, k, o, size)
            /\ o + 12 <= Size => RdLength = size
      BY <1>1, <3>1, AtAnswer
    <3>3. o + 12 + size <= Len(Encode(b)) /\ Len(Encode(b)) \in Nat
      BY <3>2 DEF RecordFrom
    <3>4. ~(off + 10 <= Size /\ off + 10 + RdLength <= Size)
      BY <1>1, <2>2 DEF AnswerFits
    <3>5. CASE o + 12 <= Size
      <4>1. ~(o + 12 + size <= Size)
        BY <3>2, <3>4, <3>5
      <4>2. QED
        BY <1>2, <3>3, <4>1
    <3>6. CASE ~(o + 12 <= Size)
      BY <1>2, <3>3, <3>6
    <3>7. QED
      BY <3>5, <3>6
  <2>3. QED
    BY <2>1, <2>2
<1>4. QED
  BY <1>1, <1>3 DEF Follows, Size

-----------------------------------------------------------------------------
(* RepliesFollowed, with WireInv, is inductive. *)

LEMMA NextFollows ==
    ASSUME NEW b, OnReply(b), [Next]_vars
    PROVE  Follows(b)'
<1>1. CASE Header \/ NotAResponse
  BY <1>1, HeaderFollows
<1>2. CASE BeginRecord \/ NextSection
  BY <1>2, SectionFollows
<1>3. CASE Terminator \/ Pointer \/ Label \/ BadName
  <2>1. at = "name"
    BY <1>3 DEF Terminator, Pointer, Label, BadName, Reading
  <2>2. section \in {"question", "answer"}
    BY DEF OnReply, WireInv, TypeOK
  <2>3. QED
    BY <1>3, <2>1, <2>2, QuestionNameFollows, AnswerNameFollows
<1>4. CASE QuestionTail
  BY <1>4, QuestionTailFollows
<1>5. CASE AnswerTail
  BY <1>5, AnswerTailFollows
<1>6. CASE CutRecord
  BY <1>6, CutRecordFollows
<1>7. CASE UNCHANGED vars
  BY <1>7 DEF OnReply, vars, Follows, QuestionFollows, AnswerFollows, AtLabel, Size
<1>8. QED
  BY <1>1, <1>2, <1>3, <1>4, <1>5, <1>6, <1>7 DEF Next

\* The inductive invariant of a reply: what Parse has of it is what the reply says.
THEOREM InductiveReplies == Spec => []RepliesFollowed
<1>1. Init => RepliesFollowed
  BY DEF Init, RepliesFollowed, Follows
<1>2. WireInv /\ RepliesFollowed /\ [Next]_vars => RepliesFollowed'
  <2> SUFFICES ASSUME WireInv, RepliesFollowed, [Next]_vars, NEW b \in Replies, PartOf(Encode(b))'
               PROVE  Follows(b)'
    BY DEF RepliesFollowed
  <2>1. msg' = msg
    BY DEF Next, vars, Header, NotAResponse, BeginRecord, NextSection, Terminator, Pointer, Label,
           BadName, QuestionTail, AnswerTail, CutRecord, Reject
  <2>2. PartOf(Encode(b))
    BY <2>1 DEF PartOf, Size
  <2>3. OnReply(b)
    BY <2>2 DEF OnReply, RepliesFollowed
  <2>4. QED
    BY <2>3, NextFollows
<1>3. QED
  BY <1>1, <1>2, InductiveInvariant, PTL DEF Spec

\* For every reply that a server can send: cut off anywhere, it is rejected.
THEOREM CutOffIsRejected == Spec => []CutIsRejected
<1>1. WireInv /\ RepliesFollowed => CutIsRejected
  <2> SUFFICES ASSUME WireInv, RepliesFollowed, NEW b \in Replies, PartOf(Encode(b)),
                      Size < Len(Encode(b)), at = "ok"
               PROVE  FALSE
    BY DEF CutIsRejected, Intact
  <2>1. AnswerFollows(b)
    BY DEF RepliesFollowed, Follows
  <2>2. off = RecordEnd(b, Len(b.records))
    BY <2>1 DEF AnswerFollows
  <2>3. RecordEnd(b, Len(b.records)) = Len(Encode(b)) /\ Len(Encode(b)) \in Nat
    BY ReplyAssumption, ReplyRecords, ReplyParts
  <2>4. off <= Size /\ Size \in Nat
    BY DEF WireInv, TypeOK, CursorInside, Size
  <2>5. QED
    BY <2>2, <2>3, <2>4
<1>2. QED
  BY <1>1, InductiveInvariant, InductiveReplies, PTL

\* For every reply that a server can send: Parse gives back the name that was asked for
\* and the addresses among the answers.
THEOREM WhatGoesInComesOut == Spec => []RoundTrip
<1>1. WireInv /\ RepliesFollowed => RoundTrip
  <2> SUFFICES ASSUME WireInv, RepliesFollowed, Parsed, NEW b \in Replies, msg = Encode(b)
               PROVE  /\ at = "ok"
                      /\ question = b.name
                      /\ addrs = Addresses(b.records)[Len(b.records)]
    BY DEF RoundTrip
  <2>1. Size = Len(Encode(b)) /\ Size \in Nat
    BY DEF WireInv, TypeOK, Size
  <2>2. PartOf(Encode(b))
    BY <2>1 DEF PartOf
  <2>3. Follows(b)
    BY <2>2 DEF RepliesFollowed
  <2>4. at = "ok"
    BY <2>1, <2>3 DEF Follows, Parsed
  <2>5. AnswerFollows(b) /\ i = Len(b.records)
    BY <2>3, <2>4 DEF Follows, AnswerFollows
  <2>6. QED
    BY <2>4, <2>5 DEF AnswerFollows
<1>2. QED
  BY <1>1, InductiveInvariant, InductiveReplies, PTL
=============================================================================
