------------------------------ MODULE Replies ------------------------------
(***************************************************************************)
(* How an answer of any length becomes messages that Discord takes         *)
(* (bot/discord/handlers/reply.go): it is cut, after the last newline if   *)
(* one is in the second half, a code block that the cut is in is closed    *)
(* and opened again, and each part says which it is.                       *)
(*                                                                         *)
(* A text is a sequence of "x", newlines "n" and backquotes "b"; the mark  *)
(* "Part 1/2" is a sequence of its own length.  The text grows a character *)
(* at a time, so that every text of bounded length is tried.               *)
(***************************************************************************)
EXTENDS Integers, Sequences, SequencesExt

CONSTANTS
    MessageLimit,   \* messageLimit
    Reserve,        \* replyChunkReserve
    FenceWidth,     \* the backquotes that begin or end a code block
    MaxFence,       \* the longest first line of a block that is repeated
    MarkWidth,      \* the length of the mark
    MaxText         \* bound: the length of a text

VARIABLE text

vars == <<text>>

Chars == {"x", "n", "b"}
Backquotes == [i \in 1 .. FenceWidth |-> "b"]
Mark == [i \in 1 .. MarkWidth |-> IF i <= 2 THEN "n" ELSE "p"]

\* The position of the last newline of t from i to j, or 0.
LastNewline(t, i, j) ==
    LET at == {k \in i .. j : t[k] = "n"}
    IN  IF at = {} THEN 0 ELSE CHOOSE k \in at : \A m \in at : m <= k

\* Broken: a character is passed over at every cut.
CutDropsNext(t, i, limit) ==
    LET nl == LastNewline(t, i, i + limit - 1)
        last == IF nl - i > limit \div 2 THEN nl - 1 ELSE i + limit - 1
    IN  [last |-> last, next |-> last + 2]

\* Where splitMessage ends the chunk that begins at i, and begins the next.
Cut(t, i, limit) ==
    LET nl == LastNewline(t, i, i + limit - 1)
    IN  IF nl - i > limit \div 2 THEN [last |-> nl - 1, next |-> nl + 1]
        ELSE [last |-> i + limit - 1, next |-> i + limit]

\* splitMessage: the chunks of t from the i-th character on.
splitMessage(t, limit) ==
    LET chunks[i \in 1 .. Len(t) + limit] ==
            IF i > Len(t) THEN <<>>
            ELSE IF Len(t) - i < limit THEN <<SubSeq(t, i, Len(t))>>
            ELSE LET cut == Cut(t, i, limit)
                 IN  <<SubSeq(t, i, cut.last)>> \o chunks[cut.next]
    IN  IF t = <<>> THEN <<t>> ELSE chunks[1]

\* What a line makes of the line that opened the block, <<>> if none is open.
FenceAfterLine(open, line) ==
    IF ~IsPrefix(Backquotes, line) THEN open
    ELSE IF open # <<>> THEN <<>>
    ELSE IF Len(line) > MaxFence THEN Backquotes ELSE line

\* replyFenceAfter: the line that opened the block t ends in, or <<>>.
replyFenceAfter(open, t) ==
    LET fence[i \in 0 .. Len(t) + 1] ==
            IF i = 0 THEN open
            ELSE IF i <= Len(t) /\ t[i] # "n" THEN fence[i - 1]
            ELSE FenceAfterLine(fence[i - 1], SubSeq(t, LastNewline(t, 1, i - 1) + 1, i - 1))
    IN  fence[Len(t) + 1]

\* Broken: the block is closed but not opened again.
FencedOnce(fence, chunk) ==
    chunk \o (IF replyFenceAfter(fence, chunk) = <<>> THEN <<>> ELSE <<"n">> \o Backquotes)

\* The chunk with the block it is in opened before and closed behind it.
Fenced(fence, chunk) ==
    (IF fence = <<>> THEN <<>> ELSE fence \o <<"n">>) \o chunk
    \o (IF replyFenceAfter(fence, chunk) = <<>> THEN <<>> ELSE <<"n">> \o Backquotes)

\* splitReply
splitReply(t) ==
    LET raw == splitMessage(t, MessageLimit - Reserve)
        fence[i \in 0 .. Len(raw)] ==
            IF i = 0 THEN <<>> ELSE replyFenceAfter(fence[i - 1], raw[i])
        parts == [i \in 1 .. Len(raw) |-> Fenced(fence[i - 1], raw[i])]
    IN  IF Len(parts) = 1 THEN parts ELSE [i \in DOMAIN parts |-> parts[i] \o Mark]

TypeOK == text \in Seq(Chars) /\ Len(text) <= MaxText

Init == text = <<>>

Grow == Len(text) < MaxText /\ \E c \in Chars : text' = Append(text, c)

Next == Grow

Spec == Init /\ [][Next]_vars

-----------------------------------------------------------------------------
(* Properties *)

\* All of t is in the chunks, in order, but for a newline at some of the cuts.
Whole(t, chunks) ==
    LET ends[i \in 0 .. Len(chunks)] ==
            IF i = 0 THEN {0}
            ELSE {k + Len(chunks[i]) : k \in
                    {m \in ends[i - 1] \cup {l + 1 : l \in IF i = 1 THEN {} ELSE ends[i - 1]} :
                        /\ m + Len(chunks[i]) <= Len(t)
                        /\ SubSeq(t, m + 1, m + Len(chunks[i])) = chunks[i]
                        /\ m \in ends[i - 1] \/ t[m] = "n"}}
    IN  Len(t) \in ends[Len(chunks)]

(***************************************************************************)
(* Every part is one that Discord takes, not empty and not too long,       *)
(* whatever was added to it; no word of the answer is lost or said twice;  *)
(* and no part leaves a code block open, in which the mark and the next    *)
(* message of whoever reads it would be shown.                             *)
(***************************************************************************)
RepliesReadable ==
    text # <<>> =>
        LET raw == splitMessage(text, MessageLimit - Reserve)
            parts == splitReply(text)
        IN  /\ \A i \in DOMAIN parts : Len(parts[i]) \in 1 .. MessageLimit
            /\ Whole(text, raw)
            /\ \A i \in DOMAIN parts : replyFenceAfter(<<>>, parts[i]) = <<>>

(***************************************************************************)
(* A part shows as code what is code in the answer, if the answer was cut  *)
(* at its newlines only.  (A line cut in two may have its second half      *)
(* taken for a fence, or the two halves of a fence for none.)              *)
(***************************************************************************)
CodeStaysCode ==
    LET raw == splitMessage(text, MessageLimit - Reserve)
        size == FoldLeft(LAMBDA n, chunk : n + Len(chunk), 0, raw)
        parts == splitReply(text)
        before[i \in 0 .. Len(raw)] ==
            IF i = 0 THEN <<>> ELSE IF i = 1 THEN raw[1] ELSE before[i - 1] \o <<"n">> \o raw[i]
    IN  size + Len(raw) - 1 = Len(text) =>
            \A i \in 2 .. Len(raw) :
                LET fence == replyFenceAfter(<<>>, before[i - 1])
                IN  IsPrefix((IF fence = <<>> THEN <<>> ELSE fence \o <<"n">>) \o raw[i], parts[i])

RepliesInv == TypeOK /\ RepliesReadable /\ CodeStaysCode

=============================================================================
