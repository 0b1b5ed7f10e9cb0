------------------------------ MODULE DnsWire -------------------------------
(***************************************************************************)
(* dnswire.Parse and readName: one datagram decoded record by record, with *)
(* names that may continue anywhere in the message through compression     *)
(* pointers. Offsets count from 0, as in the code.                         *)
(*                                                                         *)
(* A name is its sequence of labels; the code joins them with dots. ID,    *)
(* RCode, Truncated and the type of the question are fields at fixed       *)
(* places that nothing here depends on, and are left out.                  *)
(***************************************************************************)
EXTENDS Integers, Sequences

CONSTANTS
    Messages,  \* the datagrams that may arrive, as sequences of bytes
    MaxHops    \* 64: labels and pointers followed before a name is given up

Byte == 0..255

ASSUME WireAssumption == /\ Messages \subseteq Seq(Byte)
                         /\ MaxHops \in Nat

VARIABLES
    msg,
    at,        \* "header", "record", "name", "tail"; then "ok" or "malformed"
    section,   \* the loop Parse is in: "question" or "answer"
    i,         \* its index
    off,       \* Parse's cursor
    name,      \* readName's variables
    question,  \* r.Question.Name
    addrs      \* r.Addrs

vars == <<msg, at, section, i, off, name, question, addrs>>

HeaderSize == 12
Size == Len(msg)
At(o) == msg[o + 1]
Word(o) == 256 * At(o) + At(o + 1)

NoEnd == -1
FreshName(o) == [pos |-> o, hops |-> 0, end |-> NoEnd, labels |-> <<>>]

Init ==
    /\ msg \in Messages
    /\ at = "header"
    /\ section = "question"
    /\ i = 0
    /\ off = 0
    /\ name = FreshName(0)
    /\ question = <<>>
    /\ addrs = <<>>

Reject ==
    /\ at' = "malformed"
    /\ UNCHANGED <<msg, section, i, off, name, question, addrs>>

IsResponse == Size >= HeaderSize /\ At(2) >= 128

Header ==
    /\ at = "header"
    /\ IsResponse
    /\ at' = "record"
    /\ off' = HeaderSize
    /\ UNCHANGED <<msg, section, i, name, question, addrs>>

NotAResponse == at = "header" /\ ~IsResponse /\ Reject

\* QDCOUNT and ANCOUNT; the sections after the answers are not read.
Count == IF section = "question" THEN Word(4) ELSE Word(6)

\* Variant: a message that is used up ends the section, whatever its count.
SectionOverAtEnd == i = Count \/ off = Size

SectionOver == i = Count

\* The loops of Parse: the next record begins with a name, or the section is over.
BeginRecord ==
    /\ at = "record"
    /\ ~SectionOver
    /\ at' = "name"
    /\ name' = FreshName(off)
    /\ UNCHANGED <<msg, section, i, off, question, addrs>>

NextSection ==
    /\ at = "record"
    /\ SectionOver
    /\ IF section = "question" THEN section' = "answer" /\ i' = 0 /\ UNCHANGED at
                               ELSE at' = "ok" /\ UNCHANGED <<section, i>>
    /\ UNCHANGED <<msg, off, name, question, addrs>>

-----------------------------------------------------------------------------
(* readName, one turn of its loop at a time. *)

Reading == at = "name" /\ name.hops <= MaxHops /\ name.pos < Size
Length == At(name.pos)

EndOr(o) == IF name.end = NoEnd THEN o ELSE name.end

Terminator ==
    /\ Reading
    /\ Length = 0
    /\ off' = EndOr(name.pos + 1)
    /\ at' = "tail"
    /\ UNCHANGED <<msg, section, i, name, question, addrs>>

IsPointer == Length >= 192 /\ name.pos + 1 < Size
IsLabel == Length \in 1..63 /\ name.pos + 1 + Length <= Size

\* Variants: the end of the name is not remembered; only labels count as hops.
PointerFollowed ==
    /\ Reading
    /\ IsPointer
    /\ name' = [pos |-> Word(name.pos) % 16384, hops |-> name.hops + 1,
                end |-> NoEnd, labels |-> name.labels]
    /\ UNCHANGED <<msg, at, section, i, off, question, addrs>>

PointerUncounted ==
    /\ Reading
    /\ IsPointer
    /\ name' = [pos |-> Word(name.pos) % 16384, hops |-> name.hops,
                end |-> EndOr(name.pos + 2), labels |-> name.labels]
    /\ UNCHANGED <<msg, at, section, i, off, question, addrs>>

\* The rest of the name is elsewhere: the first pointer is where the name ends.
Pointer ==
    /\ Reading
    /\ IsPointer
    /\ name' = [pos |-> Word(name.pos) % 16384, hops |-> name.hops + 1,
                end |-> EndOr(name.pos + 2), labels |-> name.labels]
    /\ UNCHANGED <<msg, at, section, i, off, question, addrs>>

LabelText == SubSeq(msg, name.pos + 2, name.pos + 1 + Length)

Label ==
    /\ Reading
    /\ IsLabel
    /\ name' = [pos |-> name.pos + 1 + Length, hops |-> name.hops + 1,
                end |-> name.end, labels |-> Append(name.labels, LabelText)]
    /\ UNCHANGED <<msg, at, section, i, off, question, addrs>>

BadName ==
    /\ at = "name"
    /\ ~(Reading /\ (Length = 0 \/ IsPointer \/ IsLabel))
    /\ Reject

-----------------------------------------------------------------------------
(* What follows a record's name. *)

\* Variant: the length is not checked.
QuestionFitsAlways == TRUE

\* Type and class of a question.
QuestionFits == off + 4 <= Size

QuestionTail ==
    /\ at = "tail"
    /\ section = "question"
    /\ QuestionFits
    /\ question' = IF i = 0 THEN name.labels ELSE question
    /\ off' = off + 4
    /\ i' = i + 1
    /\ at' = "record"
    /\ UNCHANGED <<msg, section, name, addrs>>

\* Type, class, TTL, RDLENGTH and RDATA of an answer.
RdLength == Word(off + 8)
AnswerFits == off + 10 <= Size /\ off + 10 + RdLength <= Size
RData == SubSeq(msg, off + 11, off + 10 + RdLength)
IsAddress ==
    /\ Word(off + 2) = 1
    /\ <<Word(off), RdLength>> \in {<<1, 4>>, <<28, 16>>}

\* Variant: the data is read but not skipped.
AnswerEndFixed == off + 10
AnswerEnd == off + 10 + RdLength

AnswerTail ==
    /\ at = "tail"
    /\ section = "answer"
    /\ AnswerFits
    /\ addrs' = IF IsAddress THEN Append(addrs, RData) ELSE addrs
    /\ off' = AnswerEnd
    /\ i' = i + 1
    /\ at' = "record"
    /\ UNCHANGED <<msg, section, name, question>>

CutRecord ==
    /\ at = "tail"
    /\ ~(IF section = "question" THEN QuestionFits ELSE AnswerFits)
    /\ Reject

Parsed == at \in {"ok", "malformed"}

Next ==
    \/ Header \/ NotAResponse \/ BeginRecord \/ NextSection
    \/ Terminator \/ Pointer \/ Label \/ BadName
    \/ QuestionTail \/ AnswerTail \/ CutRecord
    \/ Parsed /\ UNCHANGED vars

Spec == Init /\ [][Next]_vars

\* Parse is one call: it takes its next step.
FairSpec == Spec /\ WF_vars(Next)

-----------------------------------------------------------------------------
(* Properties. *)

TypeOK ==
    /\ msg \in Seq(Byte)
    /\ at \in {"header", "record", "name", "tail", "ok", "malformed"}
    /\ section \in {"question", "answer"}
    /\ i \in Nat
    /\ off \in Nat
    /\ name \in [pos : Nat, hops : 0..MaxHops + 1, end : Nat \cup {NoEnd}, labels : Seq(Seq(Byte))]
    /\ question \in Seq(Seq(Byte))
    /\ addrs \in Seq(Seq(Byte))

\* No datagram, however malformed, brings Parse's cursor past the end of the message
\* (dnswire.go:99-100, 119-131): a name ends behind its beginning and inside the
\* message, even when pointers continue it anywhere, and the cursor never returns
\* into the header.
CursorInside ==
    /\ off <= Size
    /\ at = "header" => off = 0
    /\ at # "header" /\ at # "malformed" => HeaderSize <= off
    /\ at = "name" =>
        IF name.end = NoEnd THEN off <= name.pos ELSE off < name.end /\ name.end <= Size

\* The inductive invariant.
WireInv == TypeOK /\ CursorInside

\* The turns that are left before the cursor has to move: of the loops over the sections,
\* and of readName's, whose hops are counted.
TurnsLeft ==
    IF Parsed THEN 0
    ELSE IF at = "name" THEN MaxHops + 2 - name.hops
    ELSE IF section = "answer" THEN MaxHops + 3
    ELSE MaxHops + 4

\* Every step of Parse brings it nearer to its end (dnswire.go:210-211, 225-227): it
\* consumes bytes, which no pointer gives back to be decoded twice, or one of the turns
\* it may take without.
ParseAdvances ==
    [][off' > off \/ (off' = off /\ TurnsLeft' < TurnsLeft)]_vars

\* "loop" (dnswire_test.go): every datagram is decoded or rejected, pointers that
\* lead back to themselves included.
ParseEnds == <>Parsed
=============================================================================
