---------------------------- MODULE LocalProofs ----------------------------
(***************************************************************************)
(* Proofs about the file tools (FileGuard), for any number of              *)
(* conversations, contents, restarts and writes by other programs; about   *)
(* replies of any length (Replies); and that what is proved of each local  *)
(* part holds where all of them are put side by side (MCLocal): a          *)
(* behaviour of that is one of each part that moves in it.                 *)
(***************************************************************************)
EXTENDS MCLocal, Integers, TLAPS

(* The modules that hold the proofs, about the same states: each repeats   *)
(* the definitions of the part that MCLocal has under another letter.      *)
D == INSTANCE ConfigurationProofs WITH
        together <- v1, versions <- v2, schema <- v3, column <- v4, present <- v5,
        files <- v6, sessions <- v7, pc <- v8, applied <- v9, missing <- v10, copy <- v11,
        kept <- v1, writes <- v2, running <- v3, mine <- v4, changed <- v5, older <- v6,
        wanted <- v7, undone <- v8,
        Pages <- WebPages, Limits <- {1, 2}, file <- v1, webWrites <- v2, editing <- v3,
        draft <- v4, up <- v5, loading <- v6, buffer <- v7, web <- v8, garbled <- v9,
        offered <- v10, searching <- v11, config <- v12, answer <- v13
E == INSTANCE ReloadProofs WITH
        file <- v1, hangups <- v2, hupped <- v3, pc <- v4, todo <- v5, fresh <- v6,
        loaded <- v7, stale <- v8, manager <- v9, open <- v10, conns <- v11,
        providers <- v12, agents <- v13, instance <- v14, failed <- v15, request <- v16,
        Limits <- {1, 2}, limit <- v1, disk <- v2, skills <- v3, scan <- v4,
        create <- v5, use <- v6, writes <- v7, basis <- v8, acts <- v9, oneRoot <- v10,
        Fact <- DOMAIN FactLength, Length <- FactLength, memories <- v1, ids <- v2,
        write <- v3,
        context <- v1, shell <- v2, children <- v3, wasCut <- v4, error <- v5,
        place <- v6, answer <- v7,
        Path <- Paths, Pattern <- Patterns, Skipped <- {"skip"}, SearchLimits <- {2, 3},
        tool <- v1, pattern <- v2, atMost <- v3, tree <- v4, always <- v5, ever <- v6,
        ahead <- v7, results <- v8, walk <- v9, changes <- v10
N == INSTANCE InstallationProofs WITH
        newest <- v1, target <- v2, staged <- v3, pc <- v4, own <- v5, found <- v6,
        check <- v7, cache <- v8, unit <- v9, installs <- v10,
        pki <- v1, serverKeys <- v2, start <- v3, running <- v4, disk <- v5,
        clientKeys <- v6, pair <- v7, paired <- v8, raced <- v9, collided <- v10,
        now <- v1, rates <- v2, peer <- v3, at <- v4, allowedAt <- v5, expiresAt <- v6,
        peak <- v7

-----------------------------------------------------------------------------
(* Types *)

\* Every reachable state is well typed; a caller is writing exactly when it
\* holds the mutex (writeTextFile and editTextFile hold fileRevisionMu).
THEOREM FileTypes == Spec => []TypeOK
<1>1. Init => TypeOK
  <2> SUFFICES ASSUME Init PROVE TypeOK OBVIOUS
  <2>1. 0 \in Content /\ 1 \in Content /\ 0 .. 1 \subseteq Content
    BY FileAssumption DEF Content
  <2> QED BY <2>1, FileAssumption DEF Init, TypeOK
<1>2. TypeOK /\ [Next]_vars => TypeOK'
  <2> SUFFICES ASSUME TypeOK, [Next]_vars PROVE TypeOK' OBVIOUS
  <2> USE FileAssumption DEF TypeOK
  <2>1. CASE OutsideWrite
    <3>1. contents + 1 \in Content \/ contents >= MaxContents BY DEF Content
    <3>2. 0 .. contents \subseteq Content BY DEF Content
    <3>3. disk' \in Content /\ contents' \in Content BY <2>1, <3>1, <3>2 DEF OutsideWrite, Content
    <3>4. outside' \in 0 .. MaxOutside BY <2>1 DEF OutsideWrite
    <3> QED BY <2>1, <3>3, <3>4 DEF OutsideWrite
  <2>2. CASE Restart
    <3>1. restarts' \in 0 .. MaxRestarts /\ revision' \in Content BY <2>2 DEF Restart, Content
    <3> QED BY <2>2, <3>1 DEF Restart
  <2>3. ASSUME NEW c \in Caller, Read(c) PROVE TypeOK' BY <2>3 DEF Read, Goto
  <2>4. ASSUME NEW c \in Caller, Remember(c) PROVE TypeOK' BY <2>4 DEF Remember, Goto
  <2>5. ASSUME NEW c \in Caller, Check(c) PROVE TypeOK' BY <2>5 DEF Check, Goto
  <2>6. ASSUME NEW c \in Caller, Replace(c) PROVE TypeOK'
    <3>1. contents + 1 \in Content BY <2>6 DEF Replace, Content
    <3>2. [content |-> contents + 1, by |-> c, checked |-> before[c],
           replaced |-> disk, foreign |-> foreign] \in Write
      BY <3>1 DEF Write
    <3>3. written' \subseteq Write BY <2>6, <3>2 DEF Replace
    <3>4. seen' \in [Caller -> SUBSET Content] BY <2>6, <3>1 DEF Replace
    <3>5. \A d \in Caller : pc'[d] = "writing" <=> mutex' = d BY <2>6 DEF Replace, Goto
    <3> QED BY <2>6, <3>1, <3>3, <3>4, <3>5 DEF Replace, Goto
  <2>7. ASSUME NEW c \in Caller, Abandon(c) PROVE TypeOK' BY <2>7 DEF Abandon, Goto
  <2>8. CASE UNCHANGED vars BY <2>8 DEF vars
  <2> QED BY <2>1, <2>2, <2>3, <2>4, <2>5, <2>6, <2>7, <2>8 DEF Next
<1> QED BY <1>1, <1>2, PTL DEF Spec

-----------------------------------------------------------------------------
(* Updates *)

\* What makes NoLostUpdate inductive: while a caller is between its check and
\* its rename, what it checked is still there, or another program wrote.
CheckedIsThere ==
    \A c \in Caller : pc[c] = "writing" => before[c] = disk \/ foreign

UpdateInv == NoLostUpdate /\ CheckedIsThere

\* A write of the tools never replaces what another of them wrote after its
\* check: what lies between is another program's (fileRevisionMu).
THEOREM UpdatesAreKept == Spec => []NoLostUpdate
<1>1. Init => UpdateInv BY DEF Init, UpdateInv, NoLostUpdate, CheckedIsThere
<1>2. TypeOK /\ TypeOK' /\ UpdateInv /\ [Next]_vars => UpdateInv'
  <2> SUFFICES ASSUME TypeOK, TypeOK', UpdateInv, [Next]_vars PROVE UpdateInv' OBVIOUS
  <2> USE DEF UpdateInv, NoLostUpdate, CheckedIsThere
  <2>1. CASE OutsideWrite BY <2>1 DEF OutsideWrite
  <2>2. CASE Restart BY <2>2 DEF Restart
  <2>3. ASSUME NEW c \in Caller, Read(c) PROVE UpdateInv' BY <2>3 DEF Read, Goto, TypeOK
  <2>4. ASSUME NEW c \in Caller, Remember(c) PROVE UpdateInv' BY <2>4 DEF Remember, Goto, TypeOK
  <2>5. ASSUME NEW c \in Caller, Check(c) PROVE UpdateInv' BY <2>5 DEF Check, Goto, TypeOK
  <2>6. ASSUME NEW c \in Caller, Replace(c) PROVE UpdateInv'
    <3>1. NoLostUpdate' BY <2>6 DEF Replace
    <3>2. \A d \in Caller : pc'[d] # "writing" BY <2>6, FileAssumption DEF Replace, TypeOK
    <3> QED BY <3>1, <3>2
  <2>7. ASSUME NEW c \in Caller, Abandon(c) PROVE UpdateInv' BY <2>7 DEF Abandon, Goto, TypeOK
  <2>8. CASE UNCHANGED vars BY <2>8 DEF vars
  <2> QED BY <2>1, <2>2, <2>3, <2>4, <2>5, <2>6, <2>7, <2>8 DEF Next
<1>3. UpdateInv => NoLostUpdate BY DEF UpdateInv
<1> QED BY <1>1, <1>2, <1>3, FileTypes, PTL DEF Spec

-----------------------------------------------------------------------------
(* Contents that were seen *)

Shown(content) == \E c \in Caller : content \in seen[c]

\* What makes ReplacedWasSeen inductive: what the map holds, and what a caller
\* has checked against it, was shown to some conversation.  A read that has not
\* yet remembered what it read does not count.
SeenInv ==
    /\ ReplacedWasSeen
    /\ revision # 0 => Shown(revision)
    /\ \A c \in Caller : pc[c] = "writing" /\ before[c] # 0 => Shown(before[c])

\* Every step keeps it.
LEMMA SeenStep ==
    ASSUME TypeOK, TypeOK', SeenInv, [Next]_vars PROVE SeenInv'
<1>1. \A content : Shown(content) => Shown(content)'
  <2>1. \A c \in Caller : seen[c] \subseteq seen'[c]
    BY DEF Next, TypeOK, vars, OutsideWrite, Restart, Read, Remember, Check, Replace, Abandon
  <2> QED BY <2>1 DEF Shown
<1>2. ReplacedWasSeen <=> \A w \in written : w.checked # 0 => Shown(w.checked)
  BY DEF ReplacedWasSeen, Shown
<1>3. ReplacedWasSeen' <=> \A w \in written' : w.checked # 0 => Shown(w.checked)'
  BY DEF ReplacedWasSeen, Shown
<1> USE DEF SeenInv
<1>4. CASE OutsideWrite BY <1>1, <1>2, <1>3, <1>4 DEF OutsideWrite
<1>5. CASE Restart BY <1>1, <1>2, <1>3, <1>5 DEF Restart
<1>6. ASSUME NEW c \in Caller, Read(c) PROVE SeenInv'
  BY <1>1, <1>2, <1>3, <1>6 DEF Read, Goto, TypeOK
<1>7. ASSUME NEW c \in Caller, Remember(c) PROVE SeenInv'
  <2>1. Shown(revision)' BY <1>7 DEF Remember, TypeOK, Shown
  <2> QED BY <1>1, <1>2, <1>3, <1>7, <2>1 DEF Remember, Goto, TypeOK
<1>8. ASSUME NEW c \in Caller, Check(c) PROVE SeenInv'
  BY <1>1, <1>2, <1>3, <1>8 DEF Check, Passes, Goto, TypeOK
<1>9. ASSUME NEW c \in Caller, Replace(c) PROVE SeenInv'
  <2>1. Shown(revision)' BY <1>9 DEF Replace, TypeOK, Shown
  <2>2. ReplacedWasSeen' BY <1>1, <1>2, <1>3, <1>9 DEF Replace
  <2>3. \A d \in Caller : pc'[d] # "writing" BY <1>9, FileAssumption DEF Replace, TypeOK
  <2> QED BY <2>1, <2>2, <2>3
<1>10. ASSUME NEW c \in Caller, Abandon(c) PROVE SeenInv'
  BY <1>1, <1>2, <1>3, <1>10 DEF Abandon, Goto, TypeOK
<1>11. CASE UNCHANGED vars BY <1>1, <1>2, <1>3, <1>11 DEF vars
<1> QED BY <1>4, <1>5, <1>6, <1>7, <1>8, <1>9, <1>10, <1>11 DEF Next

\* Nothing that was there when a write was checked is replaced without having
\* been shown to a conversation, restarts and late reads included
\* (requireFileRevision).
THEOREM ReplacedContentsWereSeen == Spec => []ReplacedWasSeen
<1>1. Init => SeenInv BY DEF Init, SeenInv, ReplacedWasSeen
<1>2. TypeOK /\ TypeOK' /\ SeenInv /\ [Next]_vars => SeenInv' BY SeenStep
<1>3. SeenInv => ReplacedWasSeen BY DEF SeenInv
<1> QED BY <1>1, <1>2, <1>3, FileTypes, PTL DEF Spec

-----------------------------------------------------------------------------
(* The parts of a reply: functions that are defined by recursion *)

\* What is assumed of the constants (LocalAssumption): the mark begins with two
\* newlines, a line that is repeated is no longer than MaxFence, and the reserve
\* holds that line and its newline, the end of a block and its newline, and the mark.
RepliesFit ==
    /\ FenceWidth \in Nat \ {0} /\ MarkWidth \in Nat \ {0, 1}
    /\ MaxFence \in Nat /\ FenceWidth <= MaxFence
    /\ Reserve \in Nat /\ MaxFence + FenceWidth + MarkWidth + 2 <= Reserve
    /\ MessageLimit \in Nat /\ Reserve < MessageLimit
    /\ MaxText \in Nat

\* A function that is defined by what it is at 0, and by a step,
Recursion(f, n, F, base, step) ==
    /\ f \in [0 .. n -> F]
    /\ f[0] = base
    /\ \A i \in 1 .. n : f[i] = step[i][f[i - 1]]

\* exists,
LEMMA RecursionExists ==
    ASSUME NEW n \in Nat, NEW F, NEW base \in F, NEW step \in [1 .. n -> [F -> F]]
    PROVE  \E f : Recursion(f, n, F, base, step)
<1> DEFINE Up(m, f) == f[0] = base /\ \A i \in 1 .. m : f[i] = step[i][f[i - 1]]
           Bad == {m \in 0 .. n : ~\E f \in [0 .. n -> F] : Up(m, f)}
<1>1. SUFFICES ASSUME Bad # {} PROVE FALSE
  <2>1. n \notin Bad OBVIOUS
  <2>2. PICK f \in [0 .. n -> F] : Up(n, f) BY <2>1
  <2> QED BY <2>2 DEF Recursion
<1>2. PICK m \in Bad : \A k \in Bad : m <= k
  <2>1. Bad \in SUBSET Nat OBVIOUS
  <2> HIDE DEF Bad
  <2> QED BY <1>1, <2>1, D!LeastNumber
<1>3. m # 0
  <2>1. [i \in 0 .. n |-> base] \in [0 .. n -> F] /\ Up(0, [i \in 0 .. n |-> base]) OBVIOUS
  <2> QED BY <2>1
<1>4. m - 1 \in 0 .. n /\ m - 1 \notin Bad
  <2>1. m \in 0 .. n OBVIOUS
  <2> HIDE DEF Bad
  <2> QED BY <1>2, <1>3, <2>1
<1>5. PICK f \in [0 .. n -> F] : Up(m - 1, f) BY <1>4
<1>6. m \in 1 .. n /\ m - 1 \in 0 .. n BY <1>3, <1>4
<1>7. step[m][f[m - 1]] \in F BY <1>6
<1> DEFINE g == [i \in 0 .. n |-> IF i = m THEN step[m][f[m - 1]] ELSE f[i]]
<1>8. g \in [0 .. n -> F] BY <1>7
<1>9. g[0] = base BY <1>3, <1>5
<1>10. ASSUME NEW i \in 1 .. m PROVE g[i] = step[i][g[i - 1]]
  <2>1. i - 1 \in 0 .. n /\ i \in 0 .. n /\ i - 1 # m BY <1>6
  <2>2. g[i - 1] = f[i - 1] BY <2>1
  <2>3. i # m => i \in 1 .. m - 1 BY <1>6
  <2> QED BY <1>5, <2>1, <2>2, <2>3
<1> HIDE DEF g
<1>11. Up(m, g) BY <1>9, <1>10
<1> QED BY <1>8, <1>11

\* and if the step leads from values to values, these are all it has.
LEMMA RecursionStays ==
    ASSUME NEW n \in Nat, NEW F, NEW f, f[0] \in F,
           \A i \in 1 .. n : f[i - 1] \in F => f[i] \in F
    PROVE  \A i \in 0 .. n : f[i] \in F
<1> DEFINE Bad == {m \in 0 .. n : f[m] \notin F}
<1>1. SUFFICES ASSUME Bad # {} PROVE FALSE OBVIOUS
<1>2. PICK m \in Bad : \A k \in Bad : m <= k
  <2>1. Bad \in SUBSET Nat OBVIOUS
  <2> HIDE DEF Bad
  <2> QED BY <1>1, <2>1, D!LeastNumber
<1>3. m \in 1 .. n /\ m - 1 \in 0 .. n OBVIOUS
<1>4. m - 1 \notin Bad BY <1>2, <1>3
<1> QED BY <1>3, <1>4

-----------------------------------------------------------------------------
(* Lines *)

Letters == T!Chars \cup {"p"}
Strings == Seq(Letters)

IsLastNewline(t, i, j, l) ==
    \/ l = 0 /\ \A k \in i .. j : t[k] # "n"
    \/ l \in i .. j /\ t[l] = "n" /\ \A k \in l + 1 .. j : t[k] # "n"

\* LastNewline is that.
LEMMA LastNewlineIs ==
    ASSUME NEW t, NEW i \in Int, NEW j \in Int PROVE IsLastNewline(t, i, j, T!LastNewline(t, i, j))
<1> DEFINE at == {k \in i .. j : t[k] = "n"}
<1>1. CASE at = {} BY <1>1 DEF T!LastNewline, IsLastNewline
<1>2. CASE at # {}
  <2> DEFINE far == {n \in Nat : j - n \in at}
  <2>1. PICK k \in at : TRUE BY <1>2
  <2>2. j - k \in Nat /\ j - (j - k) = k BY <2>1
  <2>3. far # {} BY <2>1, <2>2
  <2>4. PICK n \in far : \A m \in far : n <= m
    <3> HIDE DEF at
    <3> QED BY <2>3, D!LeastNumber
  <2>5. \A m \in at : m <= j - n
    <3> SUFFICES ASSUME NEW m \in at PROVE m <= j - n OBVIOUS
    <3>1. j - m \in Nat /\ j - (j - m) = m OBVIOUS
    <3>2. j - m \in far BY <3>1
    <3>3. m \in Int /\ n \in Nat OBVIOUS
    <3> HIDE DEF at, far
    <3>4. n <= j - m BY <2>4, <3>2
    <3> QED BY <3>3, <3>4
  <2>6. \E l \in at : \A m \in at : m <= l BY <2>4, <2>5
  <2> DEFINE l == CHOOSE l \in at : \A m \in at : m <= l
  <2>7. l \in at /\ \A m \in at : m <= l BY <2>6
  <2>8. T!LastNewline(t, i, j) = l BY <1>2 DEF T!LastNewline
  <2> HIDE DEF l
  <2>9. \A m \in l + 1 .. j : t[m] # "n" BY <2>7
  <2> QED BY <2>7, <2>8, <2>9 DEF IsLastNewline
<1> QED BY <1>1, <1>2

\* and nothing else is.
LEMMA LastNewlineOne ==
    ASSUME NEW t, NEW i \in Nat \ {0}, NEW j \in Int, NEW l, IsLastNewline(t, i, j, l)
    PROVE  T!LastNewline(t, i, j) = l
<1> DEFINE k == T!LastNewline(t, i, j)
<1>1. IsLastNewline(t, i, j, k) BY LastNewlineIs
<1> HIDE DEF k
<1>2. k = l BY <1>1 DEF IsLastNewline
<1> QED BY <1>2 DEF k

\* The line that ends before i.
LineTo(t, i) == SubSeq(t, T!LastNewline(t, 1, i - 1) + 1, i - 1)

\* That is a text.
LEMMA LineIs ==
    ASSUME NEW t \in Strings, NEW i \in 1 .. Len(t) + 1 PROVE LineTo(t, i) \in Strings
<1> DEFINE l == T!LastNewline(t, 1, i - 1)
<1>1. Len(t) \in Nat /\ i \in Nat /\ i - 1 <= Len(t) BY DEF Strings
<1>2. l \in 0 .. i - 1
  <2>1. IsLastNewline(t, 1, i - 1, l) BY <1>1, LastNewlineIs
  <2> HIDE DEF l
  <2> QED BY <1>1, <2>1 DEF IsLastNewline
<1> HIDE DEF l
<1>3. \A k \in l + 1 .. i - 1 : k \in 1 .. Len(t) BY <1>1, <1>2
<1>4. SubSeq(t, l + 1, i - 1) \in Seq(Letters) BY <1>1, <1>2, <1>3 DEF Strings
<1> QED BY <1>4 DEF LineTo, l, Strings

-----------------------------------------------------------------------------
(* Code blocks *)

\* The definition of replyFenceAfter, and a function that satisfies it.
FenceStep(open, t, fence, i) ==
    IF i = 0 THEN open
    ELSE IF i <= Len(t) /\ t[i] # "n" THEN fence[i - 1]
    ELSE T!FenceAfterLine(fence[i - 1], LineTo(t, i))

Fences(open, t, fence) == fence = [i \in 0 .. Len(t) + 1 |-> FenceStep(open, t, fence, i)]

\* replyFenceAfter is the last value of the function it defines.
LEMMA FenceUnfolds ==
    ASSUME NEW open, NEW t
    PROVE  T!replyFenceAfter(open, t) = (CHOOSE fence : Fences(open, t, fence))[Len(t) + 1]
BY Zenon DEF T!replyFenceAfter, Fences, FenceStep, LineTo

\* What opens or closes a block is backquotes, FenceWidth of them.
LEMMA BackquotesAre ==
    ASSUME RepliesFit
    PROVE  /\ T!Backquotes \in Strings /\ Len(T!Backquotes) = FenceWidth
           /\ \A i \in 1 .. FenceWidth : T!Backquotes[i] = "b"
<1>0. FenceWidth \in Nat BY DEF RepliesFit
<1>1. FenceWidth \in Nat /\ T!Backquotes \in [1 .. FenceWidth -> Letters] BY <1>0 DEF T!Backquotes, Letters, T!Chars
<1>2. T!Backquotes \in Seq(Letters) BY <1>1
<1>3. DOMAIN T!Backquotes = 1 .. FenceWidth BY <1>1
<1>4. Len(T!Backquotes) = FenceWidth BY <1>1, <1>2, <1>3
<1> QED BY <1>1, <1>2, <1>4 DEF T!Backquotes, Strings

\* What a line leaves open is a text, of the given length, within one line that
\* begins a block.
Opening(line) ==
    /\ line \in Strings /\ Len(line) <= MaxFence
    /\ T!IsPrefix(T!Backquotes, line)
    /\ \A i \in 1 .. Len(line) : line[i] # "n"

AnyFence == {line \in Strings : line = <<>> \/ Opening(line)}

\* A text begins with itself.
LEMMA PrefixIsItself ==
    ASSUME NEW s \in Strings PROVE T!IsPrefix(s, s)
BY DEF T!IsPrefix

\* A line leaves a fence open, or none, whatever was open before it.
LEMMA FenceAfterLineIs ==
    ASSUME RepliesFit, NEW open \in AnyFence, NEW line \in Strings,
           \A i \in 1 .. Len(line) : line[i] # "n"
    PROVE  T!FenceAfterLine(open, line) \in AnyFence
<1>1. T!Backquotes \in AnyFence
  <2>1. T!IsPrefix(T!Backquotes, T!Backquotes) BY BackquotesAre, PrefixIsItself
  <2>2. \A i \in 1 .. FenceWidth : T!Backquotes[i] # "n" BY BackquotesAre
  <2> QED BY <2>1, <2>2, BackquotesAre DEF AnyFence, Opening, RepliesFit
<1>2. <<>> \in AnyFence BY DEF AnyFence, Strings
<1>3. T!IsPrefix(T!Backquotes, line) /\ ~(Len(line) > MaxFence) => line \in AnyFence
  <2>1. Len(line) \in Nat BY DEF Strings
  <2> QED BY <2>1 DEF AnyFence, Opening, RepliesFit
<1> QED BY <1>1, <1>2, <1>3 DEF T!FenceAfterLine

\* A line has no newline in it, if it ends before one.
LEMMA LineHasNone ==
    ASSUME NEW t \in Strings, NEW i \in 1 .. Len(t) + 1
    PROVE  \A k \in 1 .. Len(LineTo(t, i)) : LineTo(t, i)[k] # "n"
<1> DEFINE l == T!LastNewline(t, 1, i - 1)
<1>1. Len(t) \in Nat /\ i \in Nat /\ i - 1 <= Len(t) BY DEF Strings
<1>2. IsLastNewline(t, 1, i - 1, l) BY <1>1, LastNewlineIs
<1> HIDE DEF l
<1>3. l \in 0 .. i - 1 /\ \A k \in l + 1 .. i - 1 : t[k] # "n"
  BY <1>1, <1>2 DEF IsLastNewline
<1>4. \A k \in l + 1 .. i - 1 : k \in 1 .. Len(t) BY <1>1, <1>3
<1> DEFINE line == SubSeq(t, l + 1, i - 1)
<1>5. Len(line) = i - 1 - l /\ \A k \in 1 .. i - 1 - l : line[k] = t[l + k]
  BY <1>1, <1>3, <1>4 DEF Strings
<1> HIDE DEF line
<1>6. \A k \in 1 .. i - 1 - l : l + k \in l + 1 .. i - 1 BY <1>1, <1>3
<1>7. \A k \in 1 .. Len(line) : line[k] # "n" BY <1>3, <1>5, <1>6
<1> QED BY <1>7 DEF LineTo, l, line

\* It is defined, and all its values are lines that open a block, or none.
LEMMA FencesAre ==
    ASSUME RepliesFit, NEW open \in AnyFence, NEW t \in Strings
    PROVE  \E fence : /\ Fences(open, t, fence)
                      /\ \A i \in 0 .. Len(t) + 1 : fence[i] \in AnyFence
                      /\ T!replyFenceAfter(open, t) = fence[Len(t) + 1]
<1> DEFINE n == Len(t) + 1
           step == [i \in 1 .. n |-> [fence \in AnyFence |->
                      IF i <= Len(t) /\ t[i] # "n" THEN fence
                      ELSE T!FenceAfterLine(fence, LineTo(t, i))]]
<1>1. Len(t) \in Nat /\ n \in Nat BY DEF Strings
<1>2. \A i \in 1 .. n, fence \in AnyFence : T!FenceAfterLine(fence, LineTo(t, i)) \in AnyFence
  BY LineIs, LineHasNone, FenceAfterLineIs
<1>3. step \in [1 .. n -> [AnyFence -> AnyFence]] BY <1>2
<1>4. \A i \in 1 .. n, fence \in AnyFence :
         step[i][fence] = IF i <= Len(t) /\ t[i] # "n" THEN fence
                          ELSE T!FenceAfterLine(fence, LineTo(t, i))
  OBVIOUS
<1> HIDE DEF step
<1>5. PICK f : Recursion(f, n, AnyFence, open, step)
  <2> HIDE DEF n
  <2>1. n \in Nat BY <1>1
  <2> QED BY <2>1, <1>3, RecursionExists
<1>6. \A i \in 0 .. n : f[i] = FenceStep(open, t, f, i)
  <2> SUFFICES ASSUME NEW i \in 0 .. n PROVE f[i] = FenceStep(open, t, f, i) OBVIOUS
  <2>1. CASE i = 0 BY <1>5, <2>1 DEF FenceStep, Recursion
  <2>2. CASE i # 0
    <3>1. i \in 1 .. n /\ i - 1 \in 0 .. n BY <1>1, <2>2
    <3>2. f[i - 1] \in AnyFence /\ f[i] = step[i][f[i - 1]] BY <1>5, <3>1 DEF Recursion
    <3> QED BY <1>4, <2>2, <3>1, <3>2 DEF FenceStep
  <2> QED BY <2>1, <2>2
<1>7. Fences(open, t, f) BY <1>5, <1>6 DEF Fences, Recursion
<1> DEFINE g == CHOOSE fence : Fences(open, t, fence)
<1>8. Fences(open, t, g) BY <1>7
<1>9. T!replyFenceAfter(open, t) = g[n] BY FenceUnfolds
<1> HIDE DEF g
<1>10. \A i \in 0 .. n : g[i] = FenceStep(open, t, g, i) BY <1>8 DEF Fences
<1>11. g[0] \in AnyFence BY <1>1, <1>10 DEF FenceStep
<1>12. \A i \in 1 .. n : g[i - 1] \in AnyFence => g[i] \in AnyFence
  BY <1>1, <1>2, <1>10 DEF FenceStep
<1>13. \A i \in 0 .. n : g[i] \in AnyFence
  <2> HIDE DEF n
  <2> QED BY <1>1, <1>11, <1>12, RecursionStays
<1> QED BY <1>8, <1>9, <1>13

\* Lines of a text that another follows behind a newline are the same lines,
LEMMA LinesBefore ==
    ASSUME NEW a \in Strings, NEW b \in Strings, NEW i \in 1 .. Len(a) + 1
    PROVE  LineTo(a \o <<"n">> \o b, i) = LineTo(a, i)
<1> DEFINE t == a \o <<"n">> \o b
           l == T!LastNewline(a, 1, i - 1)
<1>1. Len(a) \in Nat /\ Len(b) \in Nat BY DEF Strings
<1>2. Len(t) = Len(a) + 1 + Len(b) /\ \A k \in 1 .. Len(a) : t[k] = a[k] BY <1>1 DEF Strings
<1> HIDE DEF t
<1>3. IsLastNewline(a, 1, i - 1, l) BY LastNewlineIs
<1> HIDE DEF l
<1>4. IsLastNewline(t, 1, i - 1, l) /\ l \in 0 .. i - 1 BY <1>1, <1>2, <1>3 DEF IsLastNewline
<1>5. T!LastNewline(t, 1, i - 1) = l BY <1>1, <1>4, LastNewlineOne
<1>6. SubSeq(t, l + 1, i - 1) = SubSeq(a, l + 1, i - 1)
  <2>1. \A k \in l + 1 .. i - 1 : t[k] = a[k] BY <1>1, <1>2, <1>4
  <2> QED BY <1>1, <1>2, <1>4, <2>1
<1> QED BY <1>5, <1>6 DEF LineTo, l, t

\* and so are those of the text behind the newline.
LEMMA LinesBehind ==
    ASSUME NEW a \in Strings, NEW b \in Strings, NEW i \in 1 .. Len(b) + 1
    PROVE  LineTo(a \o <<"n">> \o b, Len(a) + 1 + i) = LineTo(b, i)
<1> DEFINE t == a \o <<"n">> \o b
           m == Len(a) + 1
           l == T!LastNewline(b, 1, i - 1)
<1>1. Len(a) \in Nat /\ Len(b) \in Nat /\ m \in Nat BY DEF Strings
<1>2. Len(t) = m + Len(b) /\ t[m] = "n" /\ \A k \in 1 .. Len(b) : t[m + k] = b[k]
  BY <1>1 DEF Strings
<1>3. IsLastNewline(b, 1, i - 1, l) BY LastNewlineIs
<1> HIDE DEF t, l
<1>4. l \in 0 .. i - 1 /\ m >= 1 BY <1>1, <1>3 DEF IsLastNewline
<1> HIDE DEF m
<1>5. IsLastNewline(t, 1, m + i - 1, m + l)
  <2>1. m + l \in 1 .. m + i - 1 BY <1>1, <1>4
  <2>2. t[m + l] = "n"
    <3>1. CASE l = 0 BY <1>1, <1>2, <3>1
    <3>2. CASE l # 0
      <4>1. l \in 1 .. Len(b) /\ b[l] = "n" BY <1>1, <1>3, <1>4, <3>2 DEF IsLastNewline
      <4> QED BY <1>2, <4>1
    <3> QED BY <3>1, <3>2
  <2>3. ASSUME NEW k \in m + l + 1 .. m + i - 1 PROVE t[k] # "n"
    <3>1. k - m \in l + 1 .. i - 1 /\ k - m \in 1 .. Len(b) /\ m + (k - m) = k BY <1>1, <1>4
    <3>2. b[k - m] # "n" BY <1>3, <1>4, <3>1 DEF IsLastNewline
    <3> QED BY <1>2, <3>1, <3>2
  <2> QED BY <2>1, <2>2, <2>3 DEF IsLastNewline
<1>6. m + i - 1 \in Int BY <1>1
<1>7. T!LastNewline(t, 1, m + i - 1) = m + l BY <1>5, <1>6, LastNewlineOne
<1>8. SubSeq(t, m + l + 1, m + i - 1) = SubSeq(b, l + 1, i - 1)
  <2> DEFINE p == SubSeq(t, m + l + 1, m + i - 1)
             q == SubSeq(b, l + 1, i - 1)
  <2>1. \A k \in l + 1 .. i - 1 : k \in 1 .. Len(b) BY <1>1, <1>4
  <2>2. q \in Seq(Letters) /\ Len(q) = i - 1 - l /\ \A k \in 1 .. i - 1 - l : q[k] = b[l + k]
    BY <1>1, <1>4, <2>1 DEF Strings
  <2>3. t \in Seq(Letters) BY DEF t, Strings, Letters, T!Chars
  <2>4. \A k \in m + l + 1 .. m + i - 1 : k \in 1 .. Len(t) BY <1>1, <1>2, <1>4
  <2>5. p \in Seq(Letters) /\ Len(p) = i - 1 - l
    BY <1>1, <1>4, <2>3, <2>4
  <2>6. \A k \in 1 .. i - 1 - l : p[k] = t[m + l + k] BY <1>1, <1>4, <2>3, <2>4
  <2> HIDE DEF p, q
  <2>7. ASSUME NEW k \in 1 .. i - 1 - l PROVE p[k] = q[k]
    <3>1. l + k \in 1 .. Len(b) /\ m + l + k = m + (l + k) BY <1>1, <1>4
    <3>2. t[m + (l + k)] = b[l + k] BY <1>2, <3>1
    <3> QED BY <2>2, <2>6, <3>1, <3>2
  <2>8. p = q BY <2>2, <2>5, <2>7
  <2> QED BY <2>8 DEF p, q
<1>9. LineTo(t, m + i) = SubSeq(t, T!LastNewline(t, 1, m + i - 1) + 1, m + i - 1)
  <2>1. (m + i) - 1 = m + i - 1 BY <1>1
  <2> QED BY <2>1 DEF LineTo
<1>10. LineTo(b, i) = SubSeq(b, l + 1, i - 1) BY DEF LineTo, l
<1>11. LineTo(t, m + i) = LineTo(b, i) BY <1>7, <1>8, <1>9, <1>10
<1> QED BY <1>11 DEF t, m

\* What a text leaves open goes on in the text behind the next newline.
LEMMA FenceJoins ==
    ASSUME RepliesFit, NEW open \in AnyFence, NEW a \in Strings, NEW b \in Strings
    PROVE  /\ T!replyFenceAfter(open, a) \in AnyFence
           /\ T!replyFenceAfter(open, a \o <<"n">> \o b)
                 = T!replyFenceAfter(T!replyFenceAfter(open, a), b)
<1> DEFINE t == a \o <<"n">> \o b
           m == Len(a) + 1
           mid == T!replyFenceAfter(open, a)
<1>1. Len(a) \in Nat /\ Len(b) \in Nat /\ m \in Nat BY DEF Strings
<1>2. /\ Len(t) = m + Len(b) /\ t[m] = "n"
      /\ \A k \in 1 .. Len(a) : t[k] = a[k]
      /\ \A k \in 1 .. Len(b) : t[m + k] = b[k]
  BY <1>1 DEF Strings
<1>3. t \in Strings BY DEF t, Strings, Letters, T!Chars
<1>4. \A i \in 1 .. m : LineTo(t, i) = LineTo(a, i) BY LinesBefore
<1>5. \A i \in 1 .. Len(b) + 1 : LineTo(t, m + i) = LineTo(b, i) BY LinesBehind
<1> HIDE DEF t
<1>6. PICK f : /\ Fences(open, t, f) /\ T!replyFenceAfter(open, t) = f[Len(t) + 1]
  BY <1>3, FencesAre
<1>7. PICK g : /\ Fences(open, a, g) /\ mid = g[m] /\ g[m] \in AnyFence
  <2>1. m \in 0 .. Len(a) + 1 BY <1>1
  <2> QED BY <2>1, FencesAre
<1>8. mid \in AnyFence BY <1>7
<1> HIDE DEF mid
<1>9. PICK h : Fences(mid, b, h) /\ T!replyFenceAfter(mid, b) = h[Len(b) + 1] BY <1>8, FencesAre
<1>10. \A i \in 0 .. m + Len(b) + 1 : f[i] = FenceStep(open, t, f, i) BY <1>2, <1>6 DEF Fences
<1>11. \A i \in 0 .. m : g[i] = FenceStep(open, a, g, i) BY <1>7 DEF Fences
<1>12. \A i \in 0 .. Len(b) + 1 : h[i] = FenceStep(mid, b, h, i) BY <1>9 DEF Fences
<1>13. \A i \in 0 .. m : f[i] = g[i]
  <2> DEFINE Bad == {i \in 0 .. m : f[i] # g[i]}
  <2>1. SUFFICES ASSUME Bad # {} PROVE FALSE OBVIOUS
  <2>2. PICK i \in Bad : \A k \in Bad : i <= k
    <3>1. Bad \in SUBSET Nat OBVIOUS
    <3> HIDE DEF Bad
    <3> QED BY <2>1, <3>1, D!LeastNumber
  <2>3. i \in 0 .. m /\ i \in 0 .. m + Len(b) + 1 BY <1>1
  <2>4. i # 0 BY <1>10, <1>11, <2>3 DEF FenceStep
  <2>5. i \in 1 .. m /\ i - 1 \in 0 .. m BY <1>1, <2>3, <2>4
  <2>6. f[i - 1] = g[i - 1]
    <3>1. i - 1 \notin Bad
      <4> HIDE DEF Bad
      <4> QED BY <2>2, <2>3
    <3> QED BY <2>5, <3>1
  <2>7. i <= Len(t) /\ (t[i] # "n" <=> i <= Len(a) /\ a[i] # "n")
    <3>1. CASE i = m BY <1>1, <1>2, <3>1
    <3>2. CASE i # m
      <4>1. i \in 1 .. Len(a) BY <1>1, <2>5, <3>2
      <4> QED BY <1>1, <1>2, <4>1
    <3> QED BY <3>1, <3>2
  <2>8. f[i] = g[i] BY <1>4, <1>10, <1>11, <2>3, <2>4, <2>5, <2>6, <2>7 DEF FenceStep
  <2> QED BY <2>8
<1>14. \A i \in 0 .. Len(b) + 1 : f[m + i] = h[i]
  <2> DEFINE Bad == {i \in 0 .. Len(b) + 1 : f[m + i] # h[i]}
  <2>1. SUFFICES ASSUME Bad # {} PROVE FALSE OBVIOUS
  <2>2. PICK i \in Bad : \A k \in Bad : i <= k
    <3>1. Bad \in SUBSET Nat OBVIOUS
    <3> HIDE DEF Bad
    <3> QED BY <2>1, <3>1, D!LeastNumber
  <2>3. i \in 0 .. Len(b) + 1 /\ m + i \in 0 .. m + Len(b) + 1 BY <1>1
  <2>4. i # 0
    <3>1. h[0] = mid BY <1>1, <1>12 DEF FenceStep
    <3>2. f[m + 0] = mid BY <1>1, <1>7, <1>13
    <3> QED BY <3>1, <3>2
  <2>5. i \in 1 .. Len(b) + 1 /\ i - 1 \in 0 .. Len(b) + 1 BY <1>1, <2>3, <2>4
  <2>6. f[m + i - 1] = h[i - 1]
    <3>1. i - 1 \notin Bad
      <4> HIDE DEF Bad
      <4> QED BY <2>2, <2>3
    <3>2. m + i - 1 = m + (i - 1) BY <1>1, <2>5
    <3> QED BY <2>5, <3>1, <3>2
  <2>7. m + i # 0 /\ (m + i <= Len(t) /\ t[m + i] # "n" <=> i <= Len(b) /\ b[i] # "n")
    <3>1. m + i <= Len(t) <=> i <= Len(b) BY <1>1, <1>2, <2>5
    <3>2. i <= Len(b) => t[m + i] = b[i] BY <1>2, <2>5
    <3> QED BY <1>1, <2>5, <3>1, <3>2
  <2>8. f[m + i] = h[i] BY <1>5, <1>10, <1>12, <2>3, <2>4, <2>5, <2>6, <2>7 DEF FenceStep
  <2> QED BY <2>8
<1>15. Len(b) + 1 \in 0 .. Len(b) + 1 /\ m + (Len(b) + 1) = Len(t) + 1 BY <1>1, <1>2
<1>16. f[Len(t) + 1] = h[Len(b) + 1] BY <1>14, <1>15
<1> QED BY <1>6, <1>8, <1>9, <1>16 DEF t, mid

\* A single line leaves open what its only line does,
LEMMA FenceOfLine ==
    ASSUME RepliesFit, NEW open \in AnyFence, NEW line \in Strings,
           \A i \in 1 .. Len(line) : line[i] # "n"
    PROVE  T!replyFenceAfter(open, line) = T!FenceAfterLine(open, line)
<1> DEFINE n == Len(line)
<1>1. n \in Nat BY DEF Strings
<1>2. PICK f : Fences(open, line, f) /\ T!replyFenceAfter(open, line) = f[n + 1] BY FencesAre
<1>3. \A i \in 0 .. n + 1 : f[i] = FenceStep(open, line, f, i) BY <1>2 DEF Fences
<1>4. \A i \in 0 .. n : f[i] = open
  <2>1. f[0] = open BY <1>1, <1>3 DEF FenceStep
  <2>2. \A i \in 1 .. n : f[i - 1] = open => f[i] = open BY <1>1, <1>3 DEF FenceStep
  <2> DEFINE One == {open}
  <2>3. f[0] \in One /\ \A i \in 1 .. n : f[i - 1] \in One => f[i] \in One BY <2>1, <2>2
  <2>4. \A i \in 0 .. n : f[i] \in One
    <3> HIDE DEF n, One
    <3> QED BY <1>1, <2>3, RecursionStays
  <2> QED BY <2>4
<1>5. LineTo(line, n + 1) = line
  <2>1. n + 1 - 1 = n BY <1>1
  <2>2. IsLastNewline(line, 1, n, 0) BY DEF IsLastNewline
  <2>3. T!LastNewline(line, 1, n) = 0 BY <1>1, <2>2, LastNewlineOne
  <2>4. SubSeq(line, 1, n) = line BY DEF Strings
  <2> QED BY <2>1, <2>3, <2>4 DEF LineTo
<1>6. f[n + 1] = T!FenceAfterLine(f[n], LineTo(line, n + 1))
  <2>1. n + 1 \in 0 .. n + 1 /\ n + 1 # 0 /\ ~(n + 1 <= n) /\ n + 1 - 1 = n BY <1>1
  <2> QED BY <1>3, <2>1 DEF FenceStep
<1> QED BY <1>1, <1>2, <1>4, <1>5, <1>6

\* A line that does not begin with backquotes changes nothing.
LEMMA OrdinaryLine ==
    ASSUME RepliesFit, NEW open \in AnyFence, NEW line \in Strings,
           \A i \in 1 .. Len(line) : line[i] # "n" /\ line[i] # "b"
    PROVE  T!replyFenceAfter(open, line) = open
<1>1. ~T!IsPrefix(T!Backquotes, line)
  <2>1. SUFFICES ASSUME T!IsPrefix(T!Backquotes, line) PROVE FALSE OBVIOUS
  <2>2. 1 \in 1 .. FenceWidth /\ FenceWidth <= Len(line) /\ FenceWidth \in Nat /\ Len(line) \in Nat
    BY <2>1, BackquotesAre DEF RepliesFit, T!IsPrefix, Strings
  <2>3. SubSeq(T!Backquotes, 1, FenceWidth)[1] = "b" /\ SubSeq(line, 1, FenceWidth)[1] = line[1]
    BY <2>2, BackquotesAre DEF Strings
  <2>4. line[1] = "b" BY <2>1, <2>3, BackquotesAre DEF T!IsPrefix
  <2> QED BY <2>2, <2>4
<1> QED BY <1>1, FenceOfLine DEF T!FenceAfterLine

\* A line that opened a block opens it again, and backquotes close it.
LEMMA OpensAndCloses ==
    ASSUME RepliesFit, NEW open \in AnyFence, open # <<>>
    PROVE  /\ T!replyFenceAfter(<<>>, open) = open
           /\ T!replyFenceAfter(open, T!Backquotes) = <<>>
<1>1. <<>> \in AnyFence BY DEF AnyFence, Strings
<1>2. Opening(open) BY DEF AnyFence
<1>3. Len(open) \in Nat /\ MaxFence \in Nat BY <1>2 DEF Opening, Strings, RepliesFit
<1>4. T!replyFenceAfter(<<>>, open) = T!FenceAfterLine(<<>>, open)
  BY <1>1, <1>2, FenceOfLine DEF Opening
<1>5. T!FenceAfterLine(<<>>, open) = open BY <1>2, <1>3 DEF Opening, T!FenceAfterLine
<1>6. T!replyFenceAfter(open, T!Backquotes) = T!FenceAfterLine(open, T!Backquotes)
  <2>1. \A i \in 1 .. Len(T!Backquotes) : T!Backquotes[i] # "n" BY BackquotesAre
  <2> QED BY <2>1, BackquotesAre, FenceOfLine
<1>7. T!IsPrefix(T!Backquotes, T!Backquotes) BY BackquotesAre, PrefixIsItself
<1> QED BY <1>4, <1>5, <1>6, <1>7 DEF T!FenceAfterLine

-----------------------------------------------------------------------------
(* Cuts *)

\* A cut leaves something on both of its sides, and nothing in it but a newline.
LEMMA CutIs ==
    ASSUME NEW t \in Strings, NEW limit \in Nat \ {0}, NEW i \in 1 .. Len(t), Len(t) - i >= limit
    PROVE  LET cut == T!Cut(t, i, limit)
           IN  /\ cut.last \in i .. i + limit - 1 /\ cut.last < Len(t)
               /\ cut.next \in i + 1 .. Len(t)
               /\ \/ cut.next = cut.last + 1
                  \/ cut.next = cut.last + 2 /\ t[cut.last + 1] = "n"
<1> DEFINE nl == T!LastNewline(t, i, i + limit - 1)
<1>1. Len(t) \in Nat /\ i \in Nat /\ i >= 1 BY DEF Strings
<1>2. IsLastNewline(t, i, i + limit - 1, nl) BY <1>1, LastNewlineIs
<1>3. limit \div 2 \in Nat BY Z3
<1>4. T!Cut(t, i, limit) = IF nl - i > limit \div 2 THEN [last |-> nl - 1, next |-> nl + 1]
                           ELSE [last |-> i + limit - 1, next |-> i + limit]
  BY DEF T!Cut
<1> DEFINE half == limit \div 2
<1> HIDE DEF nl, half
<1>5. nl = 0 \/ (nl \in i .. i + limit - 1 /\ t[nl] = "n") BY <1>2 DEF IsLastNewline
<1>6. CASE nl - i > half
  <2>1. nl \in i + 1 .. i + limit - 1 /\ t[nl] = "n" BY <1>1, <1>3, <1>5, <1>6 DEF half
  <2>2. T!Cut(t, i, limit) = [last |-> nl - 1, next |-> nl + 1] BY <1>4, <1>6 DEF half
  <2>3. (nl - 1) + 1 = nl BY <2>1
  <2> QED BY <1>1, <2>1, <2>2, <2>3
<1>7. CASE ~(nl - i > half)
  <2>1. T!Cut(t, i, limit) = [last |-> i + limit - 1, next |-> i + limit] BY <1>4, <1>7 DEF half
  <2> QED BY <1>1, <2>1
<1> QED BY <1>6, <1>7

\* The definition of splitMessage, and a function that satisfies it.
ChunksStep(t, limit, chunks, i) ==
    IF i > Len(t) THEN <<>>
    ELSE IF Len(t) - i < limit THEN <<SubSeq(t, i, Len(t))>>
    ELSE <<SubSeq(t, i, T!Cut(t, i, limit).last)>> \o chunks[T!Cut(t, i, limit).next]

IsChunks(t, limit, chunks) ==
    chunks = [i \in 1 .. Len(t) + limit |-> ChunksStep(t, limit, chunks, i)]

\* splitMessage is the value at 1 of the function it defines.
LEMMA SplitUnfolds ==
    ASSUME NEW t, t # <<>>, NEW limit
    PROVE  T!splitMessage(t, limit) = (CHOOSE chunks : IsChunks(t, limit, chunks))[1]
BY Zenon DEF T!splitMessage, IsChunks, ChunksStep

\* It is defined, from the end of the text on.
LEMMA ChunksExist ==
    ASSUME NEW t \in Strings, NEW limit \in Nat \ {0}
    PROVE  \E chunks : IsChunks(t, limit, chunks)
<1> DEFINE n == Len(t) + limit
           Down(f, d) == /\ f = [i \in 1 .. n |-> f[i]]
                         /\ \A i \in n - d + 1 .. n : f[i] = ChunksStep(t, limit, f, i)
           Bad == {d \in 0 .. n : ~\E f : Down(f, d)}
<1>1. Len(t) \in Nat /\ n \in Nat BY DEF Strings
<1>2. SUFFICES ASSUME Bad # {} PROVE FALSE
  <2>1. n \in 0 .. n /\ n \notin Bad BY <1>1
  <2>2. PICK f : Down(f, n) BY <2>1
  <2>3. \A i \in 1 .. n : i \in n - n + 1 .. n BY <1>1
  <2>4. IsChunks(t, limit, f)
    <3>1. \A i \in 1 .. n : f[i] = ChunksStep(t, limit, f, i) BY <2>2, <2>3
    <3> QED BY <2>2, <3>1 DEF IsChunks
  <2> QED BY <2>4
<1>3. PICK d \in Bad : \A e \in Bad : d <= e
  <2>1. Bad \in SUBSET Nat BY <1>1
  <2> HIDE DEF Bad
  <2> QED BY <1>2, <2>1, D!LeastNumber
<1>4. d # 0
  <2> DEFINE f == [i \in 1 .. n |-> <<>>]
  <2>1. Down(f, 0) BY <1>1
  <2> HIDE DEF f
  <2> QED BY <2>1
<1>5. d \in 1 .. n /\ d - 1 \in 0 .. n BY <1>1, <1>4
<1>6. d - 1 \notin Bad
  <2> HIDE DEF Bad
  <2> QED BY <1>3, <1>5
<1>7. PICK f : Down(f, d - 1) BY <1>5, <1>6
<1> DEFINE lo == n - d + 1
           g == [i \in 1 .. n |-> IF i = lo THEN ChunksStep(t, limit, f, lo) ELSE f[i]]
<1>8. lo \in 1 .. n BY <1>1, <1>5
<1>9. \A i \in lo .. n : ChunksStep(t, limit, g, i) = ChunksStep(t, limit, f, i)
  <2> SUFFICES ASSUME NEW i \in lo .. n
               PROVE  ChunksStep(t, limit, g, i) = ChunksStep(t, limit, f, i)
    OBVIOUS
  <2>1. CASE i > Len(t) BY <2>1 DEF ChunksStep
  <2>2. CASE Len(t) - i < limit BY <2>2 DEF ChunksStep
  <2>3. CASE ~(i > Len(t)) /\ ~(Len(t) - i < limit)
    <3> DEFINE next == T!Cut(t, i, limit).next
    <3>1. i \in 1 .. Len(t) /\ Len(t) - i >= limit BY <1>1, <1>8, <2>3
    <3>2. next \in i + 1 .. Len(t) BY <3>1, CutIs
    <3> HIDE DEF next
    <3>3. next # lo /\ next \in 1 .. n BY <1>1, <1>8, <3>2
    <3>4. g[next] = f[next] BY <3>3
    <3> HIDE DEF g
    <3> QED BY <2>3, <3>4 DEF ChunksStep, next
  <2> QED BY <2>1, <2>2, <2>3
<1>10. \A i \in lo .. n : g[i] = ChunksStep(t, limit, f, i)
  <2> SUFFICES ASSUME NEW i \in lo .. n, i # lo PROVE f[i] = ChunksStep(t, limit, f, i)
    BY <1>1, <1>8
  <2>1. i \in n - (d - 1) + 1 .. n BY <1>1, <1>5
  <2> QED BY <1>7, <2>1
<1>11. g = [i \in 1 .. n |-> g[i]] OBVIOUS
<1> HIDE DEF g
<1>12. Down(g, d) BY <1>9, <1>10, <1>11
<1> QED BY <1>12

\* What c has of t from the i-th character on, when its parts begin at pos: all of
\* it, but for a newline at some of the cuts, and no part is empty or too long.
Pieces(t, limit, i, c, pos) ==
    /\ c \in Seq(Strings) /\ Len(c) >= 1
    /\ pos \in [1 .. Len(c) -> 1 .. Len(t)] /\ pos[1] = i
    /\ \A k \in 1 .. Len(c) :
          /\ Len(c[k]) \in 1 .. limit /\ pos[k] + Len(c[k]) - 1 <= Len(t)
          /\ c[k] = SubSeq(t, pos[k], pos[k] + Len(c[k]) - 1)
    /\ \A k \in 1 .. Len(c) - 1 :
          \/ pos[k + 1] = pos[k] + Len(c[k])
          \/ pos[k + 1] = pos[k] + Len(c[k]) + 1 /\ t[pos[k] + Len(c[k])] = "n"
    /\ pos[Len(c)] + Len(c[Len(c)]) - 1 = Len(t)

\* The rest of a text that fits is one piece,
LEMMA LastPiece ==
    ASSUME NEW t \in Strings, NEW limit \in Nat \ {0}, NEW i \in 1 .. Len(t), Len(t) - i < limit
    PROVE  \E pos : Pieces(t, limit, i, <<SubSeq(t, i, Len(t))>>, pos)
<1> DEFINE p == SubSeq(t, i, Len(t))
           c == <<p>>
           pos == [k \in 1 .. 1 |-> i]
<1>1. Len(t) \in Nat BY DEF Strings
<1>2. p \in Strings /\ Len(p) = Len(t) - i + 1 BY <1>1 DEF Strings
<1> HIDE DEF p
<1>3. c \in Seq(Strings) /\ Len(c) = 1 /\ c[1] = p BY <1>2
<1>4. pos \in [1 .. 1 -> 1 .. Len(t)] /\ pos[1] = i OBVIOUS
<1> HIDE DEF c, pos
<1>5. i + Len(p) - 1 = Len(t) BY <1>1, <1>2
<1>6. Pieces(t, limit, i, c, pos) BY <1>1, <1>2, <1>3, <1>4, <1>5 DEF Pieces, p
<1> QED BY <1>6 DEF c, p

\* and what is before a cut is one more.
LEMMA FirstPiece ==
    ASSUME NEW t \in Strings, NEW limit \in Nat \ {0}, NEW i \in 1 .. Len(t), Len(t) - i >= limit,
           NEW rest, NEW at, Pieces(t, limit, T!Cut(t, i, limit).next, rest, at)
    PROVE  \E pos : Pieces(t, limit, i, <<SubSeq(t, i, T!Cut(t, i, limit).last)>> \o rest, pos)
<1> DEFINE last == T!Cut(t, i, limit).last
           next == T!Cut(t, i, limit).next
           p == SubSeq(t, i, last)
           c == <<p>> \o rest
           n == Len(rest)
           pos == [k \in 1 .. n + 1 |-> IF k = 1 THEN i ELSE at[k - 1]]
<1>1. Len(t) \in Nat /\ rest \in Seq(Strings) /\ n \in Nat /\ n >= 1 BY DEF Strings, Pieces
<1>2. /\ last \in i .. i + limit - 1 /\ last < Len(t) /\ next \in i + 1 .. Len(t)
      /\ next = last + 1 \/ (next = last + 2 /\ t[last + 1] = "n")
  BY CutIs
<1>3. Pieces(t, limit, next, rest, at) OBVIOUS
<1> HIDE DEF last, next
<1>4. p \in Strings /\ Len(p) = last - i + 1 /\ i + Len(p) = last + 1
  <2>1. \A k \in i .. last : k \in 1 .. Len(t) BY <1>1, <1>2
  <2> QED BY <1>1, <1>2, <2>1 DEF Strings
<1>5. p = SubSeq(t, i, i + Len(p) - 1)
  <2>1. i + Len(p) - 1 = last BY <1>2, <1>4
  <2> QED BY <2>1
<1> HIDE DEF p
<1>6. /\ c \in Seq(Strings) /\ Len(c) = n + 1 /\ c[1] = p
      /\ \A k \in 1 .. n : c[k + 1] = rest[k]
  BY <1>1, <1>4
<1>7. at \in [1 .. n -> 1 .. Len(t)] /\ at[1] = next BY <1>3 DEF Pieces
<1>8. /\ pos \in [1 .. n + 1 -> 1 .. Len(t)] /\ pos[1] = i
      /\ \A k \in 1 .. n : pos[k + 1] = at[k]
  <2>1. \A k \in 1 .. n + 1 : k = 1 \/ k - 1 \in 1 .. n BY <1>1
  <2>2. \A k \in 1 .. n : k + 1 \in 1 .. n + 1 /\ k + 1 # 1 /\ (k + 1) - 1 = k BY <1>1
  <2> QED BY <1>1, <1>7, <2>1, <2>2
<1> HIDE DEF c, pos, n
<1>9. ASSUME NEW k \in 1 .. n + 1
      PROVE  /\ Len(c[k]) \in 1 .. limit /\ pos[k] + Len(c[k]) - 1 <= Len(t)
             /\ c[k] = SubSeq(t, pos[k], pos[k] + Len(c[k]) - 1)
  <2>1. CASE k = 1
    <3>1. c[k] = p /\ pos[k] = i BY <1>6, <1>8, <2>1
    <3>2. Len(p) \in 1 .. limit /\ i + Len(p) - 1 <= Len(t) BY <1>1, <1>2, <1>4
    <3> QED BY <1>5, <3>1, <3>2
  <2>2. CASE k # 1
    <3> DEFINE j == k - 1
    <3>1. j \in 1 .. n /\ k = j + 1 BY <1>1, <2>2
    <3>2. c[k] = rest[j] /\ pos[k] = at[j] BY <1>6, <1>8, <3>1
    <3> QED BY <1>3, <3>1, <3>2 DEF Pieces, n
  <2> QED BY <2>1, <2>2
<1>10. ASSUME NEW k \in 1 .. n
       PROVE  \/ pos[k + 1] = pos[k] + Len(c[k])
              \/ pos[k + 1] = pos[k] + Len(c[k]) + 1 /\ t[pos[k] + Len(c[k])] = "n"
  <2>1. CASE k = 1
    <3>1. pos[k] = i /\ c[k] = p /\ pos[k + 1] = next BY <1>1, <1>6, <1>7, <1>8, <2>1
    <3>2. pos[k] + Len(c[k]) = last + 1 BY <1>4, <3>1
    <3>3. (last + 1) + 1 = last + 2 BY <1>2
    <3> QED BY <1>2, <3>1, <3>2, <3>3
  <2>2. CASE k # 1
    <3> DEFINE j == k - 1
    <3>1. j \in 1 .. n - 1 /\ j \in 1 .. n /\ k = j + 1 BY <1>1, <2>2
    <3>2. c[k] = rest[j] /\ pos[k] = at[j] /\ pos[k + 1] = at[j + 1] BY <1>6, <1>8, <3>1
    <3> QED BY <1>3, <3>1, <3>2 DEF Pieces, n
  <2> QED BY <2>1, <2>2
<1>11. pos[n + 1] + Len(c[n + 1]) - 1 = Len(t)
  <2>1. n \in 1 .. n BY <1>1
  <2>2. c[n + 1] = rest[n] /\ pos[n + 1] = at[n] BY <1>6, <1>8, <2>1
  <2> QED BY <1>3, <2>2 DEF Pieces, n
<1>12. Pieces(t, limit, i, c, pos)
  <2>1. Len(c) >= 1 /\ Len(c) - 1 = n BY <1>1, <1>6
  <2> QED BY <1>6, <1>8, <1>9, <1>10, <1>11, <2>1 DEF Pieces
<1> QED BY <1>12 DEF c, p, last

\* splitMessage: the chunks of a text are such pieces of it.
LEMMA ChunksArePieces ==
    ASSUME NEW t \in Strings, t # <<>>, NEW limit \in Nat \ {0}
    PROVE  \E pos : Pieces(t, limit, 1, T!splitMessage(t, limit), pos)
<1> DEFINE f == CHOOSE chunks : IsChunks(t, limit, chunks)
<1>1. Len(t) \in Nat /\ Len(t) >= 1 BY DEF Strings
<1>2. IsChunks(t, limit, f) BY ChunksExist
<1>3. T!splitMessage(t, limit) = f[1] BY SplitUnfolds
<1> HIDE DEF f
<1>4. \A i \in 1 .. Len(t) : f[i] = ChunksStep(t, limit, f, i) BY <1>1, <1>2 DEF IsChunks
<1> DEFINE Good(i) == \E pos : Pieces(t, limit, i, f[i], pos)
           Bad == {d \in 0 .. Len(t) - 1 : ~Good(Len(t) - d)}
<1>5. Bad = {}
  <2> SUFFICES ASSUME Bad # {} PROVE FALSE OBVIOUS
  <2>1. PICK d \in Bad : \A e \in Bad : d <= e
    <3>1. Bad \in SUBSET Nat BY <1>1
    <3> HIDE DEF Bad
    <3> QED BY <3>1, D!LeastNumber
  <2> DEFINE i == Len(t) - d
  <2>2. i \in 1 .. Len(t) /\ d \in Nat BY <1>1
  <2>3. \A j \in i + 1 .. Len(t) : Good(j)
    <3> SUFFICES ASSUME NEW j \in i + 1 .. Len(t) PROVE Good(j) OBVIOUS
    <3>1. Len(t) - j \in 0 .. Len(t) - 1 /\ Len(t) - (Len(t) - j) = j /\ ~(d <= Len(t) - j)
      BY <1>1, <2>2
    <3>2. Len(t) - j \notin Bad
      <4> HIDE DEF Bad
      <4> QED BY <2>1, <3>1
    <3> HIDE DEF Good
    <3> QED BY <3>1, <3>2
  <2>4. f[i] = ChunksStep(t, limit, f, i) BY <1>4, <2>2
  <2>5. ~Good(i) OBVIOUS
  <2> HIDE DEF i, Bad
  <2>6. CASE Len(t) - i < limit
    <3>1. f[i] = <<SubSeq(t, i, Len(t))>> BY <1>1, <2>2, <2>4, <2>6 DEF ChunksStep
    <3> QED BY <2>2, <2>5, <2>6, <3>1, LastPiece
  <2>7. CASE ~(Len(t) - i < limit)
    <3>1. Len(t) - i >= limit BY <1>1, <2>2, <2>7
    <3>2. f[i] = <<SubSeq(t, i, T!Cut(t, i, limit).last)>> \o f[T!Cut(t, i, limit).next]
      BY <1>1, <2>2, <2>4, <2>7 DEF ChunksStep
    <3>3. T!Cut(t, i, limit).next \in i + 1 .. Len(t) BY <2>2, <3>1, CutIs
    <3>4. PICK at : Pieces(t, limit, T!Cut(t, i, limit).next, f[T!Cut(t, i, limit).next], at)
      BY <2>3, <3>3
    <3>5. Good(i) BY <2>2, <3>1, <3>2, <3>4, FirstPiece
    <3> QED BY <2>5, <3>5
  <2> QED BY <2>6, <2>7
<1>6. Len(t) - 1 \in 0 .. Len(t) - 1 /\ Len(t) - (Len(t) - 1) = 1 BY <1>1
<1>7. Good(1)
  <2>1. Len(t) - 1 \notin Bad BY <1>5
  <2> HIDE DEF Good
  <2> QED BY <1>6, <2>1
<1> QED BY <1>3, <1>7

-----------------------------------------------------------------------------
(* Parts *)

\* What is put in front of a chunk, and behind one that leaves a block open.
Front(fence) == IF fence = <<>> THEN <<>> ELSE fence \o <<"n">>
Behind(fence) == IF fence = <<>> THEN <<>> ELSE <<"n">> \o T!Backquotes

\* Texts end to end.
LEMMA EndToEnd ==
    ASSUME NEW a \in Strings, NEW b \in Strings
    PROVE  /\ a \o b \in Strings /\ Len(a \o b) = Len(a) + Len(b)
           /\ a \o <<>> = a /\ <<>> \o a = a /\ <<>> \in Strings
           /\ <<"n">> \in Strings /\ Len(<<"n">>) = 1 /\ Len(<<>>) = 0
BY DEF Strings, Letters, T!Chars

\* Texts end to end are one text, however they are grouped.
LEMMA Associates ==
    ASSUME NEW a \in Strings, NEW b \in Strings, NEW c \in Strings
    PROVE  a \o (b \o c) = a \o b \o c
BY DEF Strings

\* A part is short enough, and leaves no code block open.
LEMMA FencedIs ==
    ASSUME RepliesFit, NEW fence \in AnyFence, NEW chunk \in Strings
    PROVE  LET part1 == T!Fenced(fence, chunk)
           IN  /\ part1 = Front(fence) \o chunk \o Behind(T!replyFenceAfter(fence, chunk))
               /\ part1 \in Strings
               /\ Len(part1) >= Len(chunk)
               /\ Len(part1) <= Len(chunk) + MaxFence + FenceWidth + 2
               /\ T!replyFenceAfter(<<>>, part1) = <<>>
<1> DEFINE after == T!replyFenceAfter(fence, chunk)
           front == Front(fence)
           behind == Behind(after)
           both == front \o chunk
<1>1. T!Fenced(fence, chunk) = both \o behind BY DEF T!Fenced, Front, Behind
<1>2. after \in AnyFence /\ <<>> \in AnyFence /\ <<>> \in Strings
  <2>1. <<>> \in Strings BY EndToEnd
  <2> QED BY <2>1, FenceJoins DEF AnyFence
<1> HIDE DEF after
<1>3. /\ Len(chunk) \in Nat /\ MaxFence \in Nat /\ FenceWidth \in Nat
      /\ fence \in Strings /\ (fence # <<>> => Len(fence) \in 0 .. MaxFence)
  BY DEF Strings, RepliesFit, AnyFence, Opening
<1>4. front \in Strings /\ Len(front) \in 0 .. MaxFence + 1
  <2>1. CASE fence = <<>> BY <1>3, <2>1, EndToEnd DEF Front
  <2>2. CASE fence # <<>>
    <3>1. front = fence \o <<"n">> BY <2>2 DEF Front
    <3>2. <<"n">> \in Strings /\ Len(<<"n">>) = 1 BY EndToEnd
    <3>3. front \in Strings /\ Len(front) = Len(fence) + 1 BY <1>3, <3>1, <3>2, EndToEnd
    <3> QED BY <1>3, <2>2, <3>3
  <2> QED BY <2>1, <2>2
<1>5. behind \in Strings /\ Len(behind) \in 0 .. FenceWidth + 1
  <2>1. CASE after = <<>> BY <1>3, <2>1, EndToEnd DEF Behind
  <2>2. CASE after # <<>>
    <3>1. behind = <<"n">> \o T!Backquotes BY <2>2 DEF Behind
    <3>2. <<"n">> \in Strings /\ Len(<<"n">>) = 1 BY EndToEnd
    <3>3. behind \in Strings /\ Len(behind) = 1 + FenceWidth
      BY <3>1, <3>2, BackquotesAre, EndToEnd
    <3> QED BY <1>3, <3>3
  <2> QED BY <2>1, <2>2
<1>6. T!replyFenceAfter(<<>>, both) = after
  <2>1. CASE fence = <<>> BY <2>1, EndToEnd DEF Front, after
  <2>2. CASE fence # <<>>
    <3>1. both = fence \o <<"n">> \o chunk BY <2>2 DEF Front
    <3>2. T!replyFenceAfter(<<>>, fence) = fence BY <2>2, OpensAndCloses
    <3> QED BY <1>2, <1>3, <3>1, <3>2, FenceJoins DEF after
  <2> QED BY <2>1, <2>2
<1>7. both \in Strings /\ Len(both) = Len(front) + Len(chunk) BY <1>4, EndToEnd
<1>8. T!replyFenceAfter(<<>>, both \o behind) = <<>>
  <2>1. CASE after = <<>>
    <3>1. both \o behind = both BY <1>7, <2>1, EndToEnd DEF Behind
    <3> QED BY <1>6, <2>1, <3>1
  <2>2. CASE after # <<>>
    <3>1. both \o behind = both \o <<"n">> \o T!Backquotes
      <4>1. behind = <<"n">> \o T!Backquotes BY <2>2 DEF Behind
      <4>2. <<"n">> \in Strings /\ T!Backquotes \in Strings BY EndToEnd, BackquotesAre
      <4> HIDE DEF both, behind
      <4> QED BY <1>7, <4>1, <4>2, Associates
    <3>2. T!replyFenceAfter(after, T!Backquotes) = <<>> BY <1>2, <2>2, OpensAndCloses
    <3> HIDE DEF both
    <3> QED BY <1>2, <1>6, <1>7, <3>1, <3>2, BackquotesAre, FenceJoins
  <2> QED BY <2>1, <2>2
<1> HIDE DEF both, front, behind
<1>9. both \o behind \in Strings /\ Len(both \o behind) = Len(both) + Len(behind)
  BY <1>5, <1>7, EndToEnd
<1>10. /\ Len(both \o behind) >= Len(chunk)
       /\ Len(both \o behind) <= Len(chunk) + MaxFence + FenceWidth + 2
  BY <1>3, <1>4, <1>5, <1>7, <1>9
<1> QED BY <1>1, <1>8, <1>9, <1>10 DEF both, front, behind, after

\* Nor does the mark open one.
LEMMA MarkIs ==
    ASSUME RepliesFit, NEW p \in Strings
    PROVE  /\ T!Mark \in Strings /\ Len(T!Mark) = MarkWidth
           /\ T!replyFenceAfter(<<>>, p \o T!Mark) = T!replyFenceAfter(<<>>, p)
<1> DEFINE w == MarkWidth
           words == [i \in 1 .. w - 2 |-> "p"]
           second == <<"n">> \o words
<1>0. w \in Nat /\ w - 2 \in Nat BY DEF RepliesFit
<1>1. words \in Strings /\ Len(words) = w - 2 /\ \A i \in 1 .. w - 2 : words[i] = "p"
  <2>1. words \in [1 .. w - 2 -> Letters] BY DEF Letters
  <2> HIDE DEF words
  <2>2. words \in Strings BY <1>0, <2>1 DEF Strings
  <2>3. Len(words) = w - 2 BY <1>0, <2>1, <2>2 DEF Strings
  <2> QED BY <2>2, <2>3 DEF words
<1>2. T!Mark \in Strings /\ Len(T!Mark) = w /\ \A i \in 1 .. w : T!Mark[i] = IF i <= 2 THEN "n" ELSE "p"
  <2>1. T!Mark \in [1 .. w -> Letters] BY <1>0 DEF T!Mark, Letters, T!Chars
  <2>2. T!Mark \in Strings BY <1>0, <2>1 DEF Strings
  <2>3. Len(T!Mark) = w BY <1>0, <2>1, <2>2 DEF Strings
  <2> QED BY <2>2, <2>3 DEF T!Mark
<1> HIDE DEF words
<1>3. second \in Strings /\ Len(second) = w - 1
      /\ \A i \in 1 .. w - 1 : second[i] = IF i = 1 THEN "n" ELSE "p"
  BY <1>0, <1>1 DEF Strings, Letters, T!Chars
<1>4. second = <<>> \o <<"n">> \o words
  <2>1. <<>> \o <<"n">> = <<"n">> BY EndToEnd
  <2> QED BY <2>1
<1> HIDE DEF second
<1>5. <<"n">> \o second \in Strings /\ Len(<<"n">> \o second) = w
      /\ \A i \in 1 .. w : (<<"n">> \o second)[i] = IF i <= 2 THEN "n" ELSE "p"
  BY <1>0, <1>3 DEF Strings, Letters, T!Chars
<1>6. T!Mark = <<"n">> \o second
  <2> DEFINE m == <<"n">> \o second
  <2>1. m \in Strings /\ Len(m) = w /\ \A i \in 1 .. w : m[i] = IF i <= 2 THEN "n" ELSE "p" BY <1>5
  <2> HIDE DEF m
  <2>2. T!Mark = m BY <1>2, <2>1 DEF Strings
  <2> QED BY <2>2 DEF m
<1>7. <<>> \in AnyFence /\ <<>> \in Strings /\ <<"n">> \in Strings
  <2>1. <<>> \in Strings /\ <<"n">> \in Strings BY EndToEnd
  <2> QED BY <2>1 DEF AnyFence
<1>8. p \o T!Mark = p \o <<"n">> \o second BY <1>3, <1>6, <1>7, Associates
<1> DEFINE g == T!replyFenceAfter(<<>>, p)
<1>9. g \in AnyFence BY <1>7, FenceJoins
<1> HIDE DEF g
<1>10. T!replyFenceAfter(<<>>, p \o T!Mark) = T!replyFenceAfter(g, second)
  BY <1>3, <1>7, <1>8, FenceJoins DEF g
<1>11. T!replyFenceAfter(g, <<>>) = g BY <1>7, <1>9, OrdinaryLine
<1>12. T!replyFenceAfter(g, words) = g BY <1>1, <1>9, OrdinaryLine
<1>13. T!replyFenceAfter(g, second) = g
  <2>1. T!replyFenceAfter(g, <<>> \o <<"n">> \o words)
           = T!replyFenceAfter(T!replyFenceAfter(g, <<>>), words)
    BY <1>1, <1>7, <1>9, FenceJoins, Zenon
  <2> QED BY <1>4, <1>11, <1>12, <2>1
<1> QED BY <1>2, <1>10, <1>13 DEF g

\* The blocks that the chunks of raw end in, one after the other.
Carried(raw, fence) ==
    fence = [i \in 0 .. Len(raw) |-> IF i = 0 THEN <<>> ELSE T!replyFenceAfter(fence[i - 1], raw[i])]

Unmarked(raw, fence) == [i \in 1 .. Len(raw) |-> T!Fenced(fence[i - 1], raw[i])]

Marked(parts) == IF Len(parts) = 1 THEN parts ELSE [i \in DOMAIN parts |-> parts[i] \o T!Mark]

BlocksOf(raw) == CHOOSE blocks : Carried(raw, blocks)

\* splitReply marks the parts that it has put fences around.
LEMMA ReplyUnfolds ==
    ASSUME NEW t
    PROVE  T!splitReply(t) = Marked(Unmarked(T!splitMessage(t, MessageLimit - Reserve),
                                             BlocksOf(T!splitMessage(t, MessageLimit - Reserve))))
BY Zenon DEF T!splitReply, Carried, Unmarked, Marked, BlocksOf

\* Each chunk is read with what the one before left open.
LEMMA CarriedIs ==
    ASSUME RepliesFit, NEW raw \in Seq(Strings)
    PROVE  LET fence == BlocksOf(raw)
           IN  /\ \A i \in 0 .. Len(raw) : fence[i] \in AnyFence
               /\ fence[0] = <<>>
               /\ \A i \in 1 .. Len(raw) : fence[i] = T!replyFenceAfter(fence[i - 1], raw[i])
<1> DEFINE n == Len(raw)
           step == [i \in 1 .. n |-> [fence \in AnyFence |-> T!replyFenceAfter(fence, raw[i])]]
<1>1. n \in Nat /\ <<>> \in AnyFence
  <2>1. <<>> \in Strings BY DEF Strings
  <2> QED BY <2>1 DEF AnyFence
<1>2. \A i \in 1 .. n, fence \in AnyFence : T!replyFenceAfter(fence, raw[i]) \in AnyFence
  <2>1. \A i \in 1 .. n : raw[i] \in Strings OBVIOUS
  <2> QED BY <2>1, FenceJoins
<1>3. step \in [1 .. n -> [AnyFence -> AnyFence]] BY <1>2
<1>4. \A i \in 1 .. n, fence \in AnyFence : step[i][fence] = T!replyFenceAfter(fence, raw[i]) OBVIOUS
<1> HIDE DEF step
<1>5. PICK f : Recursion(f, n, AnyFence, <<>>, step)
  <2> HIDE DEF n
  <2> QED BY <1>1, <1>3, RecursionExists
<1>6. \A i \in 0 .. n : f[i] = IF i = 0 THEN <<>> ELSE T!replyFenceAfter(f[i - 1], raw[i])
  <2> SUFFICES ASSUME NEW i \in 1 .. n PROVE f[i] = T!replyFenceAfter(f[i - 1], raw[i])
    BY <1>1, <1>5 DEF Recursion
  <2>1. i - 1 \in 0 .. n BY <1>1
  <2>2. f[i - 1] \in AnyFence /\ f[i] = step[i][f[i - 1]] BY <1>5, <2>1 DEF Recursion
  <2> QED BY <1>4, <2>2
<1>7. Carried(raw, f) BY <1>5, <1>6 DEF Carried, Recursion
<1> DEFINE g == BlocksOf(raw)
<1>8. Carried(raw, g) BY <1>7 DEF BlocksOf
<1> HIDE DEF g
<1>9. \A i \in 0 .. n : g[i] = IF i = 0 THEN <<>> ELSE T!replyFenceAfter(g[i - 1], raw[i])
  BY <1>8 DEF Carried
<1>10. g[0] = <<>> BY <1>1, <1>9
<1>11. \A i \in 1 .. n : g[i] = T!replyFenceAfter(g[i - 1], raw[i]) BY <1>1, <1>9
<1>12. \A i \in 0 .. n : g[i] \in AnyFence
  <2>1. g[0] \in AnyFence BY <1>1, <1>10
  <2>2. \A i \in 1 .. n : g[i - 1] \in AnyFence => g[i] \in AnyFence BY <1>2, <1>11
  <2> HIDE DEF n
  <2> QED BY <1>1, <2>1, <2>2, RecursionStays
<1> QED BY <1>10, <1>11, <1>12 DEF g

\* splitReply: the parts of a text, each with what the one before left open.
LEMMA PartsAre ==
    ASSUME RepliesFit, NEW t \in Strings, t # <<>>,
           NEW raw, raw = T!splitMessage(t, MessageLimit - Reserve)
    PROVE  \E fence :
              /\ fence[0] = <<>>
              /\ \A i \in 0 .. Len(raw) : fence[i] \in AnyFence
              /\ \A i \in 1 .. Len(raw) : fence[i] = T!replyFenceAfter(fence[i - 1], raw[i])
              /\ DOMAIN T!splitReply(t) = 1 .. Len(raw)
              /\ \A i \in 1 .. Len(raw) :
                    LET bare == T!Fenced(fence[i - 1], raw[i])
                    IN  T!splitReply(t)[i] \in {bare, bare \o T!Mark}
<1> DEFINE limit == MessageLimit - Reserve
<1>1. limit \in Nat \ {0} BY DEF RepliesFit
<1>2. PICK pos : Pieces(t, limit, 1, raw, pos) BY <1>1, ChunksArePieces
<1>3. raw \in Seq(Strings) /\ Len(raw) \in Nat BY <1>2 DEF Pieces
<1> DEFINE fence == BlocksOf(raw)
<1>4. T!splitReply(t) = Marked(Unmarked(raw, fence)) BY ReplyUnfolds
<1>5. /\ fence[0] = <<>> /\ \A i \in 0 .. Len(raw) : fence[i] \in AnyFence
      /\ \A i \in 1 .. Len(raw) : fence[i] = T!replyFenceAfter(fence[i - 1], raw[i])
  BY <1>3, CarriedIs
<1> HIDE DEF fence
<1>6. /\ DOMAIN Unmarked(raw, fence) = 1 .. Len(raw)
      /\ \A i \in 1 .. Len(raw) : Unmarked(raw, fence)[i] = T!Fenced(fence[i - 1], raw[i])
  BY DEF Unmarked
<1>7. /\ DOMAIN T!splitReply(t) = 1 .. Len(raw)
      /\ \A i \in 1 .. Len(raw) :
            T!splitReply(t)[i] \in {Unmarked(raw, fence)[i], Unmarked(raw, fence)[i] \o T!Mark}
  BY <1>4, <1>6 DEF Marked
<1> QED BY <1>5, <1>6, <1>7

-----------------------------------------------------------------------------
(* A whole answer *)

\* The definition of Whole, and a function that satisfies it.
From(chunks, ends, i) == ends \cup {l + 1 : l \in IF i = 1 THEN {} ELSE ends}

Fits(t, chunks, ends, i, m) ==
    /\ m + Len(chunks[i]) <= Len(t)
    /\ SubSeq(t, m + 1, m + Len(chunks[i])) = chunks[i]
    /\ m \in ends \/ t[m] = "n"

EndsAt(t, chunks, ends, i) ==
    {k + Len(chunks[i]) : k \in {m \in From(chunks, ends, i) : Fits(t, chunks, ends, i, m)}}

Ends(t, chunks, ends) ==
    ends = [i \in 0 .. Len(chunks) |-> IF i = 0 THEN {0} ELSE EndsAt(t, chunks, ends[i - 1], i)]

\* Whole is about the last value of the function it defines.
LEMMA WholeUnfolds ==
    ASSUME NEW t, NEW chunks
    PROVE  T!Whole(t, chunks) <=> Len(t) \in (CHOOSE ends : Ends(t, chunks, ends))[Len(chunks)]
BY Zenon DEF T!Whole, Ends, EndsAt, From, Fits

\* The places where a chunk may end are well defined for every list of chunks.
LEMMA EndsExist ==
    ASSUME NEW t, NEW chunks \in Seq(Strings) PROVE \E ends : Ends(t, chunks, ends)
<1> DEFINE n == Len(chunks)
           step == [i \in 1 .. n |-> [ends \in SUBSET Int |-> EndsAt(t, chunks, ends, i)]]
<1>1. n \in Nat /\ {0} \in SUBSET Int OBVIOUS
<1>2. \A i \in 1 .. n, ends \in SUBSET Int : EndsAt(t, chunks, ends, i) \in SUBSET Int
  <2> SUFFICES ASSUME NEW i \in 1 .. n, NEW ends \in SUBSET Int
               PROVE  EndsAt(t, chunks, ends, i) \in SUBSET Int
    OBVIOUS
  <2>1. Len(chunks[i]) \in Int BY DEF Strings
  <2>2. From(chunks, ends, i) \in SUBSET Int
    <3>1. \A l \in ends : l + 1 \in Int OBVIOUS
    <3> QED BY <3>1 DEF From
  <2> QED BY <2>1, <2>2 DEF EndsAt
<1>3. step \in [1 .. n -> [SUBSET Int -> SUBSET Int]] BY <1>2
<1>4. \A i \in 1 .. n, ends \in SUBSET Int : step[i][ends] = EndsAt(t, chunks, ends, i) OBVIOUS
<1> HIDE DEF step
<1>5. PICK f : Recursion(f, n, SUBSET Int, {0}, step)
  <2> DEFINE base == {0}
             Sets == SUBSET Int
  <2>1. base \in Sets /\ step \in [1 .. n -> [Sets -> Sets]] BY <1>1, <1>3
  <2> HIDE DEF n, base, Sets
  <2>2. \E f : Recursion(f, n, Sets, base, step) BY <1>1, <2>1, RecursionExists
  <2> QED BY <2>2 DEF base, Sets
<1>6. \A i \in 0 .. n : f[i] = IF i = 0 THEN {0} ELSE EndsAt(t, chunks, f[i - 1], i)
  <2> SUFFICES ASSUME NEW i \in 0 .. n
               PROVE  f[i] = IF i = 0 THEN {0} ELSE EndsAt(t, chunks, f[i - 1], i)
    OBVIOUS
  <2>1. CASE i = 0 BY <1>5, <2>1 DEF Recursion
  <2>2. CASE i # 0
    <3>1. i \in 1 .. n /\ i - 1 \in 0 .. n BY <1>1, <2>2
    <3>2. f[i - 1] \in SUBSET Int /\ f[i] = step[i][f[i - 1]] BY <1>5, <3>1 DEF Recursion
    <3> QED BY <1>4, <2>2, <3>1, <3>2
  <2> QED BY <2>1, <2>2
<1>7. Ends(t, chunks, f) BY <1>5, <1>6 DEF Ends, Recursion
<1> QED BY <1>7

\* Pieces that begin where the last one ended, or behind a newline there, are whole.
LEMMA PiecesAreWhole ==
    ASSUME NEW t \in Strings, NEW limit \in Nat \ {0}, NEW c, NEW pos, Pieces(t, limit, 1, c, pos)
    PROVE  T!Whole(t, c)
<1> DEFINE n == Len(c)
           f == CHOOSE ends : Ends(t, c, ends)
           end(k) == pos[k] + Len(c[k]) - 1
<1>1. /\ c \in Seq(Strings) /\ n \in Nat /\ n >= 1 /\ Len(t) \in Nat
      /\ pos \in [1 .. n -> 1 .. Len(t)] /\ pos[1] = 1
  BY DEF Pieces, Strings
<1>2. Ends(t, c, f) BY <1>1, EndsExist
<1> HIDE DEF f
<1>3. /\ f[0] = {0}
      /\ \A i \in 1 .. n : f[i] = EndsAt(t, c, f[i - 1], i)
  <2>1. \A i \in 0 .. n : f[i] = IF i = 0 THEN {0} ELSE EndsAt(t, c, f[i - 1], i)
    BY <1>2 DEF Ends
  <2>2. 0 \in 0 .. n /\ \A i \in 1 .. n : i \in 0 .. n /\ i # 0 BY <1>1
  <2> HIDE DEF n
  <2> QED BY <2>1, <2>2
<1>4. ASSUME NEW k \in 1 .. n, NEW ends,
             \/ pos[k] - 1 \in ends
             \/ k # 1 /\ pos[k] - 2 \in ends /\ t[pos[k] - 1] = "n"
      PROVE  end(k) \in EndsAt(t, c, ends, k)
  <2> DEFINE m == pos[k] - 1
  <2>1. /\ pos[k] \in Int /\ Len(c[k]) \in Nat /\ end(k) <= Len(t)
        /\ c[k] = SubSeq(t, pos[k], end(k))
    BY <1>1 DEF Pieces
  <2>2. /\ m \in Int /\ m + 1 = pos[k] /\ m - 1 = pos[k] - 2 /\ (m - 1) + 1 = m
        /\ m + Len(c[k]) = end(k)
    <3>1. pos[k] \in Int /\ Len(c[k]) \in Int BY <2>1
    <3>2. m \in Int /\ m + 1 = pos[k] /\ m - 1 = pos[k] - 2 /\ (m - 1) + 1 = m BY <3>1
    <3>3. m + Len(c[k]) = end(k) BY <3>1
    <3> QED BY <3>2, <3>3
  <2> HIDE DEF m
  <2>3. m \in ends \/ (k # 1 /\ m - 1 \in ends /\ t[m] = "n") BY <1>4, <2>2 DEF m
  <2>4. m \in From(c, ends, k) BY <2>2, <2>3 DEF From
  <2>5. Fits(t, c, ends, k, m) BY <2>1, <2>2, <2>3 DEF Fits
  <2> QED BY <2>2, <2>4, <2>5 DEF EndsAt
<1>5. \A k \in 1 .. n : end(k) \in f[k]
  <2> DEFINE Bad == {k \in 1 .. n : end(k) \notin f[k]}
  <2>1. SUFFICES ASSUME Bad # {} PROVE FALSE OBVIOUS
  <2>2. PICK k \in Bad : \A j \in Bad : k <= j
    <3>1. Bad \in SUBSET Nat BY <1>1
    <3> HIDE DEF Bad
    <3> QED BY <2>1, <3>1, D!LeastNumber
  <2>3. k \in 1 .. n /\ f[k] = EndsAt(t, c, f[k - 1], k) /\ end(k) \notin f[k] BY <1>3
  <2>4. CASE k = 1
    <3>1. pos[k] - 1 \in f[k - 1] BY <1>1, <1>3, <2>4
    <3> QED BY <1>4, <2>3, <3>1
  <2>5. CASE k # 1
    <3> DEFINE j == k - 1
    <3>1. j \in 1 .. n - 1 /\ j \in 1 .. n /\ j + 1 = k BY <1>1, <2>3, <2>5
    <3>2. end(j) \in f[j]
      <4>1. j \notin Bad
        <5> HIDE DEF Bad
        <5> QED BY <1>1, <2>2, <2>3
      <4> HIDE DEF j
      <4> QED BY <3>1, <4>1
    <3>3. \/ pos[k] = pos[j] + Len(c[j])
          \/ pos[k] = pos[j] + Len(c[j]) + 1 /\ t[pos[j] + Len(c[j])] = "n"
      <4> HIDE DEF j
      <4>1. \/ pos[j + 1] = pos[j] + Len(c[j])
            \/ pos[j + 1] = pos[j] + Len(c[j]) + 1 /\ t[pos[j] + Len(c[j])] = "n"
        BY <3>1 DEF Pieces
      <4> QED BY <3>1, <4>1
    <3>4. pos[j] \in Int /\ Len(c[j]) \in Int
      <4>1. Len(c[j]) \in 1 .. limit /\ pos[j] \in 1 .. Len(t)
        <5> HIDE DEF j
        <5> QED BY <3>1 DEF Pieces
      <4> HIDE DEF j
      <4> QED BY <1>1, <4>1
    <3>5. \/ pos[k] - 1 = end(j)
          \/ pos[k] - 2 = end(j) /\ t[pos[k] - 1] = "n"
      <4>1. CASE pos[k] = pos[j] + Len(c[j]) BY <3>4, <4>1
      <4>2. CASE pos[k] = pos[j] + Len(c[j]) + 1 /\ t[pos[j] + Len(c[j])] = "n"
        <5>1. pos[k] - 1 = pos[j] + Len(c[j]) /\ pos[k] - 2 = end(j) BY <3>4, <4>2
        <5> QED BY <4>2, <5>1
      <4> QED BY <3>3, <4>1, <4>2
    <3> HIDE DEF end
    <3> QED BY <1>4, <2>3, <2>5, <3>2, <3>5
  <2> QED BY <2>4, <2>5
<1>6. end(n) = Len(t) BY DEF Pieces
<1>7. Len(t) \in f[n]
  <2>1. n \in 1 .. n BY <1>1
  <2> HIDE DEF end, n
  <2> QED BY <1>5, <1>6, <2>1
<1> QED BY <1>7, WholeUnfolds DEF f

-----------------------------------------------------------------------------
(* Code stays code *)

\* What is before the i-th chunk, as CodeStaysCode puts it together.
Befores(raw, joined) ==
    joined = [i \in 0 .. Len(raw) |->
                IF i = 0 THEN <<>> ELSE IF i = 1 THEN raw[1] ELSE joined[i - 1] \o <<"n">> \o raw[i]]

BeforeIn(raw) == CHOOSE joined : Befores(raw, joined)

\* The text before a chunk is the chunks before it, joined by newlines.
LEMMA BeforesAre ==
    ASSUME NEW raw \in Seq(Strings)
    PROVE  LET joined == BeforeIn(raw)
           IN  /\ \A i \in 0 .. Len(raw) : joined[i] \in Strings
               /\ joined[0] = <<>> /\ (Len(raw) >= 1 => joined[1] = raw[1])
               /\ \A i \in 2 .. Len(raw) : joined[i] = joined[i - 1] \o <<"n">> \o raw[i]
<1> DEFINE n == Len(raw)
           step == [i \in 1 .. n |-> [joined \in Strings |->
                      IF i = 1 THEN raw[1] ELSE joined \o <<"n">> \o raw[i]]]
<1>1. n \in Nat /\ <<>> \in Strings BY DEF Strings
<1>2. \A i \in 1 .. n, joined \in Strings : joined \o <<"n">> \o raw[i] \in Strings /\ raw[i] \in Strings
  <2> SUFFICES ASSUME NEW i \in 1 .. n, NEW joined \in Strings
               PROVE  joined \o <<"n">> \o raw[i] \in Strings /\ raw[i] \in Strings
    OBVIOUS
  <2>1. raw[i] \in Strings OBVIOUS
  <2>2. joined \o <<"n">> \in Strings /\ <<"n">> \in Strings BY EndToEnd
  <2> QED BY <2>1, <2>2, EndToEnd
<1>3. step \in [1 .. n -> [Strings -> Strings]]
  <2>1. ASSUME NEW i \in 1 .. n, NEW joined \in Strings
        PROVE  (IF i = 1 THEN raw[1] ELSE joined \o <<"n">> \o raw[i]) \in Strings
    BY <1>2
  <2> QED BY <2>1
<1>4. \A i \in 1 .. n, joined \in Strings :
         step[i][joined] = IF i = 1 THEN raw[1] ELSE joined \o <<"n">> \o raw[i]
  OBVIOUS
<1> HIDE DEF step
<1>5. PICK f : Recursion(f, n, Strings, <<>>, step)
  <2> HIDE DEF n
  <2> QED BY <1>1, <1>3, RecursionExists
<1>6. \A i \in 0 .. n :
         f[i] = IF i = 0 THEN <<>> ELSE IF i = 1 THEN raw[1] ELSE f[i - 1] \o <<"n">> \o raw[i]
  <2> SUFFICES ASSUME NEW i \in 0 .. n
               PROVE  f[i] = IF i = 0 THEN <<>>
                             ELSE IF i = 1 THEN raw[1] ELSE f[i - 1] \o <<"n">> \o raw[i]
    OBVIOUS
  <2>1. CASE i = 0 BY <1>5, <2>1 DEF Recursion
  <2>2. CASE i # 0
    <3>1. i \in 1 .. n /\ i - 1 \in 0 .. n BY <1>1, <2>2
    <3>2. f[i - 1] \in Strings /\ f[i] = step[i][f[i - 1]] BY <1>5, <3>1 DEF Recursion
    <3> QED BY <1>4, <2>2, <3>1, <3>2
  <2> QED BY <2>1, <2>2
<1>7. Befores(raw, f) BY <1>5, <1>6 DEF Befores, Recursion
<1> DEFINE g == BeforeIn(raw)
<1>8. Befores(raw, g) BY <1>7 DEF BeforeIn
<1> HIDE DEF g
<1>9. \A i \in 0 .. n :
         g[i] = IF i = 0 THEN <<>> ELSE IF i = 1 THEN raw[1] ELSE g[i - 1] \o <<"n">> \o raw[i]
  BY <1>8 DEF Befores
<1>10. g[0] = <<>> /\ (n >= 1 => g[1] = raw[1]) BY <1>1, <1>9
<1>11. ASSUME NEW i \in 2 .. n PROVE g[i] = g[i - 1] \o <<"n">> \o raw[i]
  <2>1. i \in 0 .. n /\ i # 0 /\ i # 1 BY <1>1
  <2> QED BY <1>9, <2>1
<1>12. \A i \in 0 .. n : g[i] \in Strings
  <2>1. g[0] \in Strings BY <1>1, <1>10
  <2>2. \A i \in 1 .. n : g[i - 1] \in Strings => g[i] \in Strings
    <3> SUFFICES ASSUME NEW i \in 1 .. n, g[i - 1] \in Strings PROVE g[i] \in Strings OBVIOUS
    <3>1. i \in 0 .. n /\ i # 0 BY <1>1
    <3>2. g[i] = IF i = 1 THEN raw[1] ELSE g[i - 1] \o <<"n">> \o raw[i] BY <1>9, <3>1
    <3>3. raw[1] \in Strings BY <1>1, <1>2
    <3>4. g[i - 1] \o <<"n">> \o raw[i] \in Strings BY <1>2
    <3> QED BY <3>2, <3>3, <3>4
  <2> HIDE DEF n
  <2> QED BY <1>1, <2>1, <2>2, RecursionStays
<1> QED BY <1>10, <1>11, <1>12 DEF g

\* CodeStaysCode, of the chunks and parts of the text.
LEMMA CodeUnfolds ==
    ASSUME LET raw == T!splitMessage(v1, MessageLimit - Reserve)
           IN  \A i \in 2 .. Len(raw) :
                  LET fence == T!replyFenceAfter(<<>>, BeforeIn(raw)[i - 1])
                  IN  T!IsPrefix(Front(fence) \o raw[i], T!splitReply(v1)[i])
    PROVE  T!CodeStaysCode
BY Zenon DEF T!CodeStaysCode, BeforeIn, Befores, Front

\* A text begins with what it is put together from.
LEMMA BeginsWith ==
    ASSUME NEW a \in Strings, NEW b \in Strings PROVE T!IsPrefix(a, a \o b)
<1>1. Len(a) \in Nat /\ Len(b) \in Nat BY DEF Strings
<1>2. a \o b \in Strings /\ Len(a \o b) = Len(a) + Len(b) BY EndToEnd
<1>3. SubSeq(a, 1, Len(a)) = a BY DEF Strings
<1>4. SubSeq(a \o b, 1, Len(a)) = a BY <1>1 DEF Strings
<1> QED BY <1>1, <1>2, <1>3, <1>4 DEF T!IsPrefix

\* Whatever the answer, its parts are taken, whole, closed and shown as they were meant.
LEMMA RepliesAre == ASSUME RepliesFit, T!TypeOK PROVE T!RepliesInv
<1>1. v1 \in Strings
  <2>1. v1 \in Seq(T!Chars) BY DEF T!TypeOK
  <2>2. \A i \in 1 .. Len(v1) : v1[i] \in Letters BY <2>1 DEF Letters
  <2> QED BY <2>1, <2>2 DEF Strings
<1>2. CASE v1 = <<>>
  <2> DEFINE raw == T!splitMessage(v1, MessageLimit - Reserve)
  <2>1. raw = <<v1>> BY <1>2 DEF T!splitMessage
  <2>2. Len(raw) = 1 BY <2>1
  <2>3. T!CodeStaysCode
    <3> HIDE DEF raw
    <3>1. ~\E i \in 2 .. Len(raw) : TRUE BY <2>2
    <3>2. \A i \in 2 .. Len(raw) :
             LET fence == T!replyFenceAfter(<<>>, BeforeIn(raw)[i - 1])
             IN  T!IsPrefix(Front(fence) \o raw[i], T!splitReply(v1)[i])
      BY <3>1
    <3> QED BY <3>2, CodeUnfolds DEF raw
  <2> QED BY <1>2, <2>3 DEF T!RepliesInv, T!RepliesReadable
<1>3. CASE v1 # <<>>
  <2> DEFINE limit == MessageLimit - Reserve
             raw == T!splitMessage(v1, limit)
             parts == T!splitReply(v1)
             joined == BeforeIn(raw)
  <2>1. limit \in Nat \ {0} /\ limit = MessageLimit - Reserve BY DEF RepliesFit
  <2>2. PICK pos : Pieces(v1, limit, 1, raw, pos) BY <1>1, <1>3, <2>1, ChunksArePieces
  <2>3. PICK fence :
           /\ fence[0] = <<>>
           /\ \A i \in 0 .. Len(raw) : fence[i] \in AnyFence
           /\ \A i \in 1 .. Len(raw) : fence[i] = T!replyFenceAfter(fence[i - 1], raw[i])
           /\ DOMAIN parts = 1 .. Len(raw)
           /\ \A i \in 1 .. Len(raw) :
                 LET bare == T!Fenced(fence[i - 1], raw[i])
                 IN  parts[i] \in {bare, bare \o T!Mark}
    BY <1>1, <1>3, PartsAre
  <2>4. T!Whole(v1, raw) BY <1>1, <2>1, <2>2, PiecesAreWhole
  <2>5. raw \in Seq(Strings) /\ Len(raw) \in Nat BY <2>2 DEF Pieces
  <2>6. /\ \A i \in 0 .. Len(raw) : joined[i] \in Strings
        /\ joined[0] = <<>> /\ (Len(raw) >= 1 => joined[1] = raw[1])
        /\ \A i \in 2 .. Len(raw) : joined[i] = joined[i - 1] \o <<"n">> \o raw[i]
    BY <2>5, BeforesAre
  <2> HIDE DEF raw, parts, joined
  <2>7. ASSUME NEW i \in 1 .. Len(raw)
        PROVE  /\ raw[i] \in Strings /\ Len(raw[i]) \in 1 .. limit
               /\ i - 1 \in 0 .. Len(raw) /\ fence[i - 1] \in AnyFence
    <3>1. Len(raw[i]) \in 1 .. limit BY <2>2 DEF Pieces
    <3>2. i - 1 \in 0 .. Len(raw) BY <2>5
    <3> QED BY <2>3, <2>5, <3>1, <3>2
  <2>8. ASSUME NEW i \in 1 .. Len(raw)
        PROVE  /\ Len(parts[i]) \in 1 .. MessageLimit
               /\ T!replyFenceAfter(<<>>, parts[i]) = <<>>
               /\ T!IsPrefix(Front(fence[i - 1]) \o raw[i], parts[i])
    <3> DEFINE bare == T!Fenced(fence[i - 1], raw[i])
               start == Front(fence[i - 1]) \o raw[i]
               behind == Behind(T!replyFenceAfter(fence[i - 1], raw[i]))
    <3>1. /\ bare = start \o behind
          /\ bare \in Strings /\ Len(bare) >= Len(raw[i])
          /\ Len(bare) <= Len(raw[i]) + MaxFence + FenceWidth + 2
          /\ T!replyFenceAfter(<<>>, bare) = <<>>
      BY <2>7, FencedIs
    <3>2. parts[i] \in {bare, bare \o T!Mark} BY <2>3
    <3>3. start \in Strings /\ behind \in Strings
      <4>1. <<>> \in Strings /\ <<"n">> \in Strings BY DEF Strings, Letters, T!Chars
      <4>2. fence[i - 1] \in Strings BY <2>7 DEF AnyFence
      <4>3. Front(fence[i - 1]) \in Strings BY <4>1, <4>2, EndToEnd DEF Front
      <4>4. start \in Strings BY <2>7, <4>3, EndToEnd
      <4>5. behind \in Strings BY <4>1, BackquotesAre, EndToEnd DEF Behind
      <4> QED BY <4>4, <4>5
    <3> HIDE DEF bare, start, behind
    <3>4. /\ T!Mark \in Strings /\ Len(T!Mark) = MarkWidth
          /\ T!replyFenceAfter(<<>>, bare \o T!Mark) = T!replyFenceAfter(<<>>, bare)
      BY <3>1, MarkIs
    <3>5. Len(bare) \in Nat /\ Len(bare \o T!Mark) = Len(bare) + MarkWidth
      <4>1. Len(bare) \in Nat BY <3>1 DEF Strings
      <4> QED BY <3>1, <3>4, <4>1, EndToEnd
    <3>6. Len(parts[i]) \in 1 .. MessageLimit
      <4>1. /\ MaxFence \in Nat /\ FenceWidth \in Nat /\ MarkWidth \in Nat /\ Reserve \in Nat
            /\ MessageLimit \in Nat /\ MaxFence + FenceWidth + MarkWidth + 2 <= Reserve
        BY DEF RepliesFit
      <4>2. Len(raw[i]) \in 1 .. limit BY <2>7
      <4>3. Len(bare) \in 1 .. MessageLimit BY <2>1, <3>1, <3>5, <4>1, <4>2
      <4>4. Len(bare) + MarkWidth \in 1 .. MessageLimit BY <2>1, <3>1, <3>5, <4>1, <4>2
      <4> QED BY <3>2, <3>5, <4>3, <4>4
    <3>7. T!replyFenceAfter(<<>>, parts[i]) = <<>> BY <3>1, <3>2, <3>4
    <3>8. T!IsPrefix(start, parts[i])
      <4>1. T!IsPrefix(start, bare) BY <3>1, <3>3, BeginsWith
      <4>2. bare \o T!Mark = start \o (behind \o T!Mark) BY <3>1, <3>3, <3>4, Associates
      <4>3. behind \o T!Mark \in Strings BY <3>3, <3>4, EndToEnd
      <4>4. T!IsPrefix(start, bare \o T!Mark) BY <3>3, <4>2, <4>3, BeginsWith
      <4> QED BY <3>2, <4>1, <4>4
    <3> QED BY <3>6, <3>7, <3>8 DEF start
  <2>9. T!RepliesReadable
    BY <2>3, <2>4, <2>8 DEF T!RepliesReadable, raw, parts
  <2>10. \A i \in 1 .. Len(raw) : fence[i] = T!replyFenceAfter(<<>>, joined[i])
    <3> DEFINE Bad == {i \in 1 .. Len(raw) : fence[i] # T!replyFenceAfter(<<>>, joined[i])}
    <3>1. SUFFICES ASSUME Bad # {} PROVE FALSE OBVIOUS
    <3>2. PICK i \in Bad : \A j \in Bad : i <= j
      <4>1. Bad \in SUBSET Nat BY <2>5
      <4> HIDE DEF Bad
      <4> QED BY <3>1, <4>1, D!LeastNumber
    <3>3. i \in 1 .. Len(raw) /\ fence[i] = T!replyFenceAfter(fence[i - 1], raw[i]) BY <2>3
    <3>4. CASE i = 1
      <4>1. fence[1] = T!replyFenceAfter(<<>>, raw[1]) BY <2>3, <3>3, <3>4
      <4> QED BY <2>5, <2>6, <3>3, <3>4, <4>1
    <3>5. CASE i # 1
      <4>1. i - 1 \in 1 .. Len(raw) /\ i \in 2 .. Len(raw) /\ ~(i <= i - 1) BY <2>5, <3>3, <3>5
      <4>2. fence[i - 1] = T!replyFenceAfter(<<>>, joined[i - 1])
        <5>1. i - 1 \notin Bad
          <6> HIDE DEF Bad
          <6> QED BY <3>2, <4>1
        <5> QED BY <4>1, <5>1
      <4>3. joined[i] = joined[i - 1] \o <<"n">> \o raw[i] BY <2>6, <4>1
      <4>4. joined[i - 1] \in Strings BY <2>5, <2>6, <4>1
      <4>5. raw[i] \in Strings BY <2>7, <3>3
      <4>6. <<>> \in AnyFence BY DEF AnyFence, Strings
      <4>7. T!replyFenceAfter(<<>>, joined[i - 1] \o <<"n">> \o raw[i])
               = T!replyFenceAfter(T!replyFenceAfter(<<>>, joined[i - 1]), raw[i])
        BY <4>4, <4>5, <4>6, FenceJoins
      <4> QED BY <3>3, <4>2, <4>3, <4>7
    <3> QED BY <3>4, <3>5
  <2>11. T!CodeStaysCode
    <3>1. \A i \in 2 .. Len(raw) :
             LET open == T!replyFenceAfter(<<>>, joined[i - 1])
             IN  T!IsPrefix(Front(open) \o raw[i], parts[i])
      <4> SUFFICES ASSUME NEW i \in 2 .. Len(raw)
                   PROVE  T!IsPrefix(Front(T!replyFenceAfter(<<>>, joined[i - 1])) \o raw[i], parts[i])
        OBVIOUS
      <4>1. i \in 1 .. Len(raw) /\ i - 1 \in 1 .. Len(raw) BY <2>5
      <4>2. fence[i - 1] = T!replyFenceAfter(<<>>, joined[i - 1]) BY <2>10, <4>1
      <4> QED BY <2>8, <4>1, <4>2
    <3> QED BY <3>1, CodeUnfolds, Zenon DEF raw, parts, joined
  <2> QED BY <2>9, <2>11 DEF T!RepliesInv
<1> QED BY <1>2, <1>3

\* An answer of any length goes out whole, in parts that are not empty, fit in a
\* message and leave no code block open, and what was code is shown as code
\* (splitReply).
THEOREM RepliesStay == ASSUME RepliesFit PROVE T!Spec => []T!RepliesInv
<1>1. T!Init => T!TypeOK BY DEF T!Init, T!TypeOK, T!Chars, RepliesFit
<1>2. T!TypeOK /\ [T!Next]_(T!vars) => T!TypeOK'
  <2> SUFFICES ASSUME T!TypeOK, [T!Next]_(T!vars) PROVE T!TypeOK' OBVIOUS
  <2>1. CASE T!Next
    <3>1. PICK c \in T!Chars : v1' = Append(v1, c) BY <2>1 DEF T!Next, T!Grow
    <3>2. v1 \in Seq(T!Chars) /\ Len(v1) \in Nat /\ Len(v1) < MaxText /\ MaxText \in Nat
      BY <2>1 DEF T!TypeOK, T!Next, T!Grow, RepliesFit
    <3>3. v1' \in Seq(T!Chars) /\ Len(v1') = Len(v1) + 1 BY <3>1, <3>2
    <3> QED BY <3>2, <3>3 DEF T!TypeOK
  <2>2. CASE UNCHANGED T!vars BY <2>2 DEF T!vars, T!TypeOK
  <2> QED BY <2>1, <2>2
<1>3. T!TypeOK => T!RepliesInv BY RepliesAre
<1> QED BY <1>1, <1>2, <1>3, PTL DEF T!Spec

-----------------------------------------------------------------------------
(* One part among the others *)

\* What moves is a part of its own, or nothing of it does.
LEMMA FilesAlone == LocalSpec => Spec
<1>1. LocalInit => Init BY DEF LocalInit
<1>2. [LocalNext]_<<part, vars, shared>> => [Next]_vars BY Zenon DEF LocalNext
<1> QED BY <1>1, <1>2, PTL DEF LocalSpec, Spec

\* A behaviour in which updates move is one of SelfUpdate.
LEMMA UpdateAlone == LocalSpec => [](~(part = "update")) \/ U!Spec
<1>1. LocalInit /\ part = "update" => U!Init BY Zenon DEF LocalInit
<1>2. ~(part = "update") /\ [LocalNext]_<<part, vars, shared>> => (~(part = "update"))'
  BY Zenon DEF LocalNext
<1>3. part = "update" /\ [LocalNext]_<<part, vars, shared>>
         => (part = "update")' /\ [U!Next]_(U!vars)
  BY Zenon DEF LocalNext, shared, U!vars, U!updating
<1> QED BY <1>1, <1>2, <1>3, PTL DEF LocalSpec, U!Spec

\* Likewise for the commands that keep the configuration,
LEMMA ConfigurationAlone == LocalSpec => [](~(part = "configuration")) \/ C!Spec
<1>1. LocalInit /\ part = "configuration" => C!Init BY Zenon DEF LocalInit
<1>2. ~(part = "configuration") /\ [LocalNext]_<<part, vars, shared>>
         => (~(part = "configuration"))'
  BY Zenon DEF LocalNext
<1>3. part = "configuration" /\ [LocalNext]_<<part, vars, shared>>
         => (part = "configuration")' /\ [C!Next]_(C!vars)
  BY Zenon DEF LocalNext, shared, C!vars, C!shared, C!database
<1> QED BY <1>1, <1>2, <1>3, PTL DEF LocalSpec, C!Spec

\* the reload,
LEMMA ReloadAlone == LocalSpec => [](~(part = "reload")) \/ R!Spec
<1>1. LocalInit /\ part = "reload" => R!Init BY Zenon DEF LocalInit
<1>2. ~(part = "reload") /\ [LocalNext]_<<part, vars, shared>> => (~(part = "reload"))'
  BY Zenon DEF LocalNext
<1>3. part = "reload" /\ [LocalNext]_<<part, vars, shared>>
         => (part = "reload")' /\ [R!Next]_(R!vars)
  BY Zenon DEF LocalNext, shared, R!vars, R!mcpVars, R!coreVars
<1> QED BY <1>1, <1>2, <1>3, PTL DEF LocalSpec, R!Spec

\* the programs that share client.json,
LEMMA PreferencesAlone == LocalSpec => [](~(part = "preferences")) \/ P!Spec
<1>1. LocalInit /\ part = "preferences" => P!Init BY Zenon DEF LocalInit
<1>2. ~(part = "preferences") /\ [LocalNext]_<<part, vars, shared>>
         => (~(part = "preferences"))'
  BY Zenon DEF LocalNext
<1>3. part = "preferences" /\ [LocalNext]_<<part, vars, shared>>
         => (part = "preferences")' /\ [P!Next]_(P!vars)
  BY Zenon DEF LocalNext, shared, P!vars
<1> QED BY <1>1, <1>2, <1>3, PTL DEF LocalSpec, P!Spec

\* web.json and the searches,
LEMMA WebAlone == LocalSpec => [](~(part = "web")) \/ W!Spec
<1>1. LocalInit /\ part = "web" => W!Init BY Zenon DEF LocalInit
<1>2. ~(part = "web") /\ [LocalNext]_<<part, vars, shared>> => (~(part = "web"))'
  BY Zenon DEF LocalNext
<1>3. part = "web" /\ [LocalNext]_<<part, vars, shared>>
         => (part = "web")' /\ [W!Next]_(W!vars)
  BY Zenon DEF LocalNext, shared, W!vars
<1> QED BY <1>1, <1>2, <1>3, PTL DEF LocalSpec, W!Spec

\* the bundles and the catalog of the skills,
LEMMA SkillsAlone == LocalSpec => [](~(part = "skills")) \/ K!Spec
<1>1. LocalInit /\ part = "skills" => K!Init BY Zenon DEF LocalInit
<1>2. ~(part = "skills") /\ [LocalNext]_<<part, vars, shared>> => (~(part = "skills"))'
  BY Zenon DEF LocalNext
<1>3. part = "skills" /\ [LocalNext]_<<part, vars, shared>>
         => (part = "skills")' /\ [K!Next]_(K!vars)
  BY Zenon DEF LocalNext, shared, K!vars
<1> QED BY <1>1, <1>2, <1>3, PTL DEF LocalSpec, K!Spec

\* what is remembered,
LEMMA MemoryAlone == LocalSpec => [](~(part = "memory")) \/ M!Spec
<1>1. LocalInit /\ part = "memory" => M!Init BY Zenon DEF LocalInit
<1>2. ~(part = "memory") /\ [LocalNext]_<<part, vars, shared>> => (~(part = "memory"))'
  BY Zenon DEF LocalNext
<1>3. part = "memory" /\ [LocalNext]_<<part, vars, shared>>
         => (part = "memory")' /\ [M!Next]_(M!vars)
  BY Zenon DEF LocalNext, shared, M!vars
<1> QED BY <1>1, <1>2, <1>3, PTL DEF LocalSpec, M!Spec

\* the calls of the shell,
LEMMA ShellAlone == LocalSpec => [](~(part = "shell")) \/ B!Spec
<1>1. LocalInit /\ part = "shell" => B!Init BY Zenon DEF LocalInit
<1>2. ~(part = "shell") /\ [LocalNext]_<<part, vars, shared>> => (~(part = "shell"))'
  BY Zenon DEF LocalNext
<1>3. part = "shell" /\ [LocalNext]_<<part, vars, shared>>
         => (part = "shell")' /\ [B!Next]_(B!vars)
  BY Zenon DEF LocalNext, shared, B!vars
<1> QED BY <1>1, <1>2, <1>3, PTL DEF LocalSpec, B!Spec

\* the searches in files,
LEMMA SearchAlone == LocalSpec => [](~(part = "search")) \/ S!Spec
<1>1. LocalInit /\ part = "search" => S!Init BY Zenon DEF LocalInit
<1>2. ~(part = "search") /\ [LocalNext]_<<part, vars, shared>> => (~(part = "search"))'
  BY Zenon DEF LocalNext
<1>3. part = "search" /\ [LocalNext]_<<part, vars, shared>>
         => (part = "search")' /\ [S!Next]_(S!vars)
  BY Zenon DEF LocalNext, shared, S!vars
<1> QED BY <1>1, <1>2, <1>3, PTL DEF LocalSpec, S!Spec

\* the requests to pair,
LEMMA IntakeAlone == LocalSpec => [](~(part = "intake")) \/ Q!Spec
<1>1. LocalInit /\ part = "intake" => Q!Init BY Zenon DEF LocalInit
<1>2. ~(part = "intake") /\ [LocalNext]_<<part, vars, shared>> => (~(part = "intake"))'
  BY Zenon DEF LocalNext
<1>3. part = "intake" /\ [LocalNext]_<<part, vars, shared>>
         => (part = "intake")' /\ [Q!Next]_(Q!vars)
  BY Zenon DEF LocalNext, shared, Q!vars
<1> QED BY <1>1, <1>2, <1>3, PTL DEF LocalSpec, Q!Spec

\* the replies,
LEMMA RepliesAlone == LocalSpec => [](~(part = "replies")) \/ T!Spec
<1>1. LocalInit /\ part = "replies" => T!Init BY Zenon DEF LocalInit
<1>2. ~(part = "replies") /\ [LocalNext]_<<part, vars, shared>> => (~(part = "replies"))'
  BY Zenon DEF LocalNext
<1>3. part = "replies" /\ [LocalNext]_<<part, vars, shared>>
         => (part = "replies")' /\ [T!Next]_(T!vars)
  BY Zenon DEF LocalNext, shared, T!vars
<1> QED BY <1>1, <1>2, <1>3, PTL DEF LocalSpec, T!Spec

\* and the keys and certificates.
LEMMA IdentityAlone == LocalSpec => [](~(part = "identity")) \/ I!Spec
<1>1. LocalInit /\ part = "identity" => I!Init BY Zenon DEF LocalInit
<1>2. ~(part = "identity") /\ [LocalNext]_<<part, vars, shared>> => (~(part = "identity"))'
  BY Zenon DEF LocalNext
<1>3. part = "identity" /\ [LocalNext]_<<part, vars, shared>>
         => (part = "identity")' /\ [I!Next]_(I!vars)
  BY Zenon DEF LocalNext, shared, I!vars, I!serverVars, I!deviceVars
<1> QED BY <1>1, <1>2, <1>3, PTL DEF LocalSpec, I!Spec

-----------------------------------------------------------------------------
(* What is proved of each part *)

\* Both letters of a part name the same thing: of updates,
LEMMA SameUpdate ==
    /\ U!Init <=> N!U!Init
    /\ [U!Next]_(U!vars) <=> [N!U!Next]_(N!U!vars)
    /\ U!TypeOK <=> N!U!TypeOK
    /\ U!ExecutableIsVerified <=> N!U!ExecutableIsVerified
    /\ U!FailureLeavesNothing <=> N!U!FailureLeavesNothing
    /\ U!DaemonRunsTarget <=> N!U!DaemonRunsTarget
BY Zenon DEF
   U!TypeOK, N!U!TypeOK, U!Tag, N!U!Tag, U!Content, N!U!Content, U!Ended, N!U!Ended,
   U!updating, U!vars, U!NoFile, U!Active, U!Init, U!Goto, U!Publish, U!Expire,
   U!Respawn, U!Fetch, U!CacheWrite, U!Decline, U!Stage, U!Extract, U!Compare,
   U!Replace, U!Look, U!Starts, U!RestartDaemon, U!Kill, U!Update, U!CheckStart,
   U!CheckAsk, U!CheckWrite, U!Install, U!Uninstall, U!Daemon, U!Next,
   U!ExecutableIsVerified, U!FailureLeavesNothing, U!DaemonRunsTarget, N!U!updating,
   N!U!vars, N!U!NoFile, N!U!Active, N!U!Init, N!U!Goto, N!U!Publish, N!U!Expire,
   N!U!Respawn, N!U!Fetch, N!U!CacheWrite, N!U!Decline, N!U!Stage, N!U!Extract,
   N!U!Compare, N!U!Replace, N!U!Look, N!U!Starts, N!U!RestartDaemon, N!U!Kill,
   N!U!Update, N!U!CheckStart, N!U!CheckAsk, N!U!CheckWrite, N!U!Install, N!U!Uninstall,
   N!U!Daemon, N!U!Next, N!U!ExecutableIsVerified, N!U!FailureLeavesNothing,
   N!U!DaemonRunsTarget

\* of the configuration,
LEMMA SameConfiguration ==
    /\ C!Init <=> D!Init
    /\ [C!Next]_(C!vars) <=> [D!Next]_(D!vars)
    /\ C!TypeOK <=> D!TypeOK
    /\ C!MigratedOnce <=> D!MigratedOnce
    /\ C!FilesWellFormed <=> D!FilesWellFormed
    /\ C!ReferencesHold <=> D!ReferencesHold
BY Zenon DEF
   C!database, C!shared, C!vars, C!Migration, C!FieldsOf, C!File, C!NoAgent, C!NoMore,
   C!Empty, C!Members, C!AgentAll, C!AgentIds, C!With, C!TypeOK, C!Init, C!At, C!Goto,
   C!Exit, C!Dies, C!Start, C!Run, C!Migrate, C!LookForColumn, C!AddColumn, C!Loads,
   C!ProviderInit, C!AgentInit, C!BotInit, C!FindMissing, C!CreateEmpty, C!Bootstrap,
   C!Writes, C!Saves, C!FreshProvider, C!FreshAgent, C!Without, C!WithoutAgent,
   C!Provided, C!ProviderAdd, C!SetupProvider, C!SetupAgent, C!ProviderUpdate,
   C!ProviderDefault, C!Unprovided, C!ProviderDelete, C!AgentCreate, C!AgentUpdate,
   C!AgentDefault, C!Dismissed, C!AgentDelete, C!AgentDeleteSaves, C!BotCreate,
   C!BotUpdate, C!BotDelete, C!Converse, C!Command, C!Next, C!MigratedOnce,
   C!WellFormed, C!FilesWellFormed, C!ReferencesHold, D!database, D!shared, D!vars,
   D!Migration, D!FieldsOf, D!File, D!NoAgent, D!NoMore, D!Empty, D!Members, D!AgentAll,
   D!AgentIds, D!With, D!TypeOK, D!Init, D!At, D!Goto, D!Exit, D!Dies, D!Start, D!Run,
   D!Migrate, D!LookForColumn, D!AddColumn, D!Loads, D!ProviderInit, D!AgentInit,
   D!BotInit, D!FindMissing, D!CreateEmpty, D!Bootstrap, D!Writes, D!Saves,
   D!FreshProvider, D!FreshAgent, D!Without, D!WithoutAgent, D!Provided, D!ProviderAdd,
   D!SetupProvider, D!SetupAgent, D!ProviderUpdate, D!ProviderDefault, D!Unprovided,
   D!ProviderDelete, D!AgentCreate, D!AgentUpdate, D!AgentDefault, D!Dismissed,
   D!AgentDelete, D!AgentDeleteSaves, D!BotCreate, D!BotUpdate, D!BotDelete, D!Converse,
   D!Command, D!Next, D!MigratedOnce, D!WellFormed, D!FilesWellFormed, D!ReferencesHold

\* of the reload, and first of one step of it,
LEMMA SameEdit == R!Edit <=> E!Edit
BY SMT DEF R!Edit, E!Edit, R!mcpVars, E!mcpVars, R!coreVars, E!coreVars, R!Fault, E!Fault

\* then of all,
LEMMA SameReload ==
    /\ R!Init <=> E!Init
    /\ [R!Next]_(R!vars) <=> [E!Next]_(E!vars)
    /\ R!ReloadInv <=> E!ReloadInv
BY SameEdit, Zenon DEF
   R!mcpVars, R!coreVars, R!vars, R!Version, R!Conn, R!Session, R!Absent, R!Fault,
   R!Instance, R!TypeOK, R!Init, R!Hangup, R!Take, R!LoadMCP, R!Reuses, R!Dial, R!Used,
   R!Stale, R!Swap, R!Close, R!MCPDone, R!ReadProviders, R!ReadAgents, R!AssignAgents,
   R!ConfigureAgentClients, R!Target, R!AgentVars, R!SafeTools, R!Publish, R!Watch,
   R!Resolve, R!Delegate, R!Finish, R!Next, R!OpenAreManaged, R!CleanReloadIsUsable,
   R!HangupHeard, R!DelegationsCurrent, R!ReloadInv, E!mcpVars, E!coreVars, E!vars,
   E!Version, E!Conn, E!Session, E!Absent, E!Fault, E!Instance, E!TypeOK, E!Init,
   E!Hangup, E!Take, E!LoadMCP, E!Reuses, E!Dial, E!Used, E!Stale, E!Swap, E!Close,
   E!MCPDone, E!ReadProviders, E!ReadAgents, E!AssignAgents, E!ConfigureAgentClients,
   E!Target, E!AgentVars, E!SafeTools, E!Publish, E!Watch, E!Resolve, E!Delegate,
   E!Finish, E!Next, E!OpenAreManaged, E!CleanReloadIsUsable, E!HangupHeard,
   E!DelegationsCurrent, E!ReloadInv

\* of the skills, and first of the sets of what there may be,
LEMMA SameBundles == K!AnyBundle = E!K!AnyBundle
BY SMT DEF K!AnyBundle, E!K!AnyBundle, K!Name, E!K!Name, K!Texts, E!K!Texts, K!Bundle, E!K!Bundle

\* The skills are the same set in both instances.
LEMMA SameSkillSets == K!AnySkill = E!K!AnySkill
BY SameBundles, SMT DEF K!AnySkill, E!K!AnySkill, K!Name, E!K!Name, K!Root, E!K!Root, K!Skill,
                        E!K!Skill

\* So are the specification of the skills and its properties.
LEMMA SameSkills ==
    /\ K!Init <=> E!K!Init
    /\ [K!Next]_(K!vars) <=> [E!K!Next]_(E!K!vars)
    /\ K!SkillsInv <=> E!K!SkillsInv
    /\ K!KeepsScope <=> E!K!KeepsScope
BY SameBundles, SameSkillSets, Zenon DEF
   K!vars, K!Name, K!Root, K!Reloader, K!Scanner, K!NoBundle, K!Bundle, K!Skill,
   K!Texts, K!NoScan, K!NoCreate, K!Failed, K!NoUse, K!Unused, K!Rank, K!Loadable,
   K!FirstOf, K!Before, K!Listed, K!Finds, K!TypeOK, K!Entries, K!HandMade, K!Init,
   K!NewScan, K!Accepts, K!Visit, K!NextRoot, K!Install, K!MayReplace, K!Place, K!Check,
   K!Count, K!Find, K!Write, K!WriteFails, K!ReloadSkills, K!EditByHand, K!Load,
   K!Record, K!Next, K!CatalogCurrent, K!DirectoriesNamed, K!LoadedIsOffered,
   K!KeepsScope, K!SkillsInv, K!Cardinality, E!K!vars, E!K!Name, E!K!Root, E!K!Reloader,
   E!K!Scanner, E!K!NoBundle, E!K!Bundle, E!K!Skill, E!K!Texts, E!K!NoScan,
   E!K!NoCreate, E!K!Failed, E!K!NoUse, E!K!Unused, E!K!Rank, E!K!Loadable, E!K!FirstOf,
   E!K!Before, E!K!Listed, E!K!Finds, E!K!TypeOK, E!K!Entries, E!K!HandMade, E!K!Init,
   E!K!NewScan, E!K!Accepts, E!K!Visit, E!K!NextRoot, E!K!Install, E!K!MayReplace,
   E!K!Place, E!K!Check, E!K!Count, E!K!Find, E!K!Write, E!K!WriteFails,
   E!K!ReloadSkills, E!K!EditByHand, E!K!Load, E!K!Record, E!K!Next, E!K!CatalogCurrent,
   E!K!DirectoriesNamed, E!K!LoadedIsOffered, E!K!KeepsScope, E!K!SkillsInv,
   E!K!Cardinality

\* of client.json,
LEMMA SamePreferences ==
    /\ P!Init <=> D!P!Init
    /\ [P!Next]_(P!vars) <=> [D!P!Next]_(D!P!vars)
    /\ P!PreferencesInv <=> D!P!PreferencesInv
BY Zenon DEF
   P!vars, P!Level, P!Field, P!Settings, P!defaultClient, P!Missing, P!Garbled,
   P!Accepted, P!TypeOK, P!Init, P!Unseen, P!Leave, P!Stay, P!Written, P!NotWritten,
   P!Start, P!StartFirst, P!Create, P!Copy, P!Thinking, P!Command, P!SetLevel, P!Tools,
   P!Pair, P!Setup, P!Quit, P!EditByHand, P!Next, P!SettingsKept, P!PreferencesInv,
   D!P!vars, D!P!Level, D!P!Field, D!P!Settings, D!P!defaultClient, D!P!Missing,
   D!P!Garbled, D!P!Accepted, D!P!TypeOK, D!P!Init, D!P!Unseen, D!P!Leave, D!P!Stay,
   D!P!Written, D!P!NotWritten, D!P!Start, D!P!StartFirst, D!P!Create, D!P!Copy,
   D!P!Thinking, D!P!Command, D!P!SetLevel, D!P!Tools, D!P!Pair, D!P!Setup, D!P!Quit,
   D!P!EditByHand, D!P!Next, D!P!SettingsKept, D!P!PreferencesInv

\* of web.json,
LEMMA SameWeb ==
    /\ W!Init <=> D!W!Init
    /\ [W!Next]_(W!vars) <=> [D!W!Next]_(D!W!vars)
    /\ W!WebInv <=> D!W!WebInv
BY Zenon DEF
   W!vars, W!Config, W!defaultWeb, W!Missing, W!Garbled, W!WebValidate, W!webAccept,
   W!Offers, W!First, W!Sent, W!Collected, W!Good, W!Results, W!Nothing, W!TypeOK,
   W!Init, W!commandVars, W!daemonVars, W!searchVars, W!Write, W!EditByHand, W!Open,
   W!Create, W!Apply, W!Reload, W!ReadFile, W!CreateFile, W!Loaded, W!Ask, W!Answer,
   W!Next, W!SearchesConfigured, W!ResultsFill, W!WebInv, D!W!vars, D!W!Config,
   D!W!defaultWeb, D!W!Missing, D!W!Garbled, D!W!WebValidate, D!W!webAccept,
   D!W!Offers, D!W!First, D!W!Sent, D!W!Collected, D!W!Good, D!W!Results, D!W!Nothing,
   D!W!TypeOK, D!W!Init, D!W!commandVars, D!W!daemonVars, D!W!searchVars, D!W!Write,
   D!W!EditByHand, D!W!Open, D!W!Create, D!W!Apply, D!W!Reload, D!W!ReadFile,
   D!W!CreateFile, D!W!Loaded, D!W!Ask, D!W!Answer, D!W!Next, D!W!SearchesConfigured,
   D!W!ResultsFill, D!W!WebInv

\* of what is remembered,
LEMMA SameMemory ==
    /\ M!Init <=> E!M!Init
    /\ [M!Next]_(M!vars) <=> [E!M!Next]_(E!M!vars)
    /\ M!TypeOK <=> E!M!TypeOK
    /\ M!MemoryBounded <=> E!M!MemoryBounded
BY Zenon DEF
   M!vars, M!Id, M!Entry, M!NoWrite, M!TypeOK, M!Init, M!Total, M!Holds, M!Room,
   M!CheckAdd, M!CheckReplace, M!Insert, M!Update, M!Killed, M!Remove, M!Next,
   M!Longest, M!MemoryBounded, M!Cardinality, M!MapThenSumSet, M!MapThenFoldSet, M!Max,
   E!M!vars, E!M!Id, E!M!Entry, E!M!NoWrite, E!M!TypeOK, E!M!Init, E!M!Total,
   E!M!Holds, E!M!Room, E!M!CheckAdd, E!M!CheckReplace, E!M!Insert, E!M!Update,
   E!M!Killed, E!M!Remove, E!M!Next, E!M!Longest, E!M!MemoryBounded, E!M!Cardinality,
   E!M!MapThenSumSet, E!M!MapThenFoldSet, E!M!Max

\* of the shell,
LEMMA SameShell ==
    /\ B!Init <=> E!Z!Init
    /\ [B!Next]_(B!vars) <=> [E!Z!Next]_(E!Z!vars)
    /\ B!ShellInv <=> E!Z!ShellInv
BY Zenon DEF
   B!vars, B!Child, B!Writers, B!Group, B!TypeOK, B!Init, B!ContextEnds, B!ShellStarts,
   B!ShellEnds, B!ChildEnds, B!Answer, B!Start, B!Terminate, B!Cancel, B!Reap,
   B!Handover, B!Finish, B!EndOfOutput, B!GiveUp, B!Call, B!Next, B!OutputIsWhole,
   B!GroupIsKilled, B!ShellInv, E!Z!vars, E!Z!Child, E!Z!Writers, E!Z!Group,
   E!Z!TypeOK, E!Z!Init, E!Z!ContextEnds, E!Z!ShellStarts, E!Z!ShellEnds,
   E!Z!ChildEnds, E!Z!Answer, E!Z!Start, E!Z!Terminate, E!Z!Cancel, E!Z!Reap,
   E!Z!Handover, E!Z!Finish, E!Z!EndOfOutput, E!Z!GiveUp, E!Z!Call, E!Z!Next,
   E!Z!OutputIsWhole, E!Z!GroupIsKilled, E!Z!ShellInv

\* of the searches in files,
LEMMA SameSearch ==
    /\ S!Init <=> E!G!Init
    /\ [S!Next]_(S!vars) <=> [E!G!Next]_(E!G!vars)
    /\ S!SearchInv <=> E!G!SearchInv
BY Zenon DEF
   S!vars, S!Absent, S!File, S!Link, S!Fits, S!PathMatch, S!Hidden, S!EntryOf,
   S!ReadDir, S!Results, S!InPlainSense, S!Answer, S!TypeOK, S!Init, S!Full, S!Visited,
   S!Entered, S!Enter, S!Pass, S!Lines, S!Shown, S!AtPath, S!Files, S!Held,
   S!Unreadable, S!GrepFile, S!Visit, S!Glob, S!Grep, S!Walk, S!Done, S!Change, S!Next,
   S!AnswerComplete, S!SearchInv, S!Cardinality, S!Last, S!IsPrefix, S!IsStrictPrefix,
   E!G!vars, E!G!Absent, E!G!File, E!G!Link, E!G!Fits, E!G!PathMatch, E!G!Hidden,
   E!G!EntryOf, E!G!ReadDir, E!G!Results, E!G!InPlainSense, E!G!Answer, E!G!TypeOK,
   E!G!Init, E!G!Full, E!G!Visited, E!G!Entered, E!G!Enter, E!G!Pass, E!G!Lines,
   E!G!Shown, E!G!AtPath, E!G!Files, E!G!Held, E!G!Unreadable, E!G!GrepFile, E!G!Visit,
   E!G!Glob, E!G!Grep, E!G!Walk, E!G!Done, E!G!Change, E!G!Next, E!G!AnswerComplete,
   E!G!SearchInv, E!G!Cardinality, E!G!Last, E!G!IsPrefix, E!G!IsStrictPrefix

\* of the requests to pair,
LEMMA SameIntake ==
    /\ Q!Init <=> N!Q!Init
    /\ [Q!Next]_(Q!vars) <=> [N!Q!Next]_(N!Q!vars)
    /\ Q!IntakeInv <=> N!Q!IntakeInv
BY Zenon DEF
   Q!vars, Q!Never, Q!Attempt, Q!TypeOK, Q!Init, Q!In, Q!Tick, Q!Move, Q!Current,
   Q!Allow, Q!Sweep, Q!Room, Q!Count, Q!Insert, Q!Settle, Q!Begin, Q!Next,
   Q!PendingLimited, Q!RateLimited, Q!IntakeInv, Q!Cardinality, N!Q!vars, N!Q!Never,
   N!Q!Attempt, N!Q!TypeOK, N!Q!Init, N!Q!In, N!Q!Tick, N!Q!Move, N!Q!Current,
   N!Q!Allow, N!Q!Sweep, N!Q!Room, N!Q!Count, N!Q!Insert, N!Q!Settle, N!Q!Begin,
   N!Q!Next, N!Q!PendingLimited, N!Q!RateLimited, N!Q!IntakeInv, N!Q!Cardinality

\* and of the keys.
LEMMA SameIdentity ==
    /\ I!Init <=> N!Init
    /\ [I!Next]_(I!vars) <=> [N!Next]_(N!vars)
    /\ I!IdentityInv <=> N!IdentityInv
    /\ I!PairedConnects <=> N!PairedConnects
BY Zenon DEF
   I!serverVars, I!deviceVars, I!vars, I!NoKey, I!ServerKey, I!ClientKey, I!NoCert,
   I!ServerCert, I!ClientCert, I!NotRunning, I!Stopped, I!NotPairing, I!NoPKI, I!TypeOK,
   I!Init, I!At, I!Creating, I!Room, I!MakeKey, I!CALoads, I!StatCA, I!WriteCACert,
   I!WriteCAKey, I!StatServer, I!WriteServerKey, I!Serve, I!KillStarter, I!Connected,
   I!Stop, I!RemovePKI, I!Trust, I!Pinned, I!Connect, I!Issue, I!Saving, I!Collect,
   I!WriteCert, I!WriteKey, I!WriteCA, I!ReadServers, I!WithServer, I!WriteServers,
   I!EndPairing, I!Start, I!Save, I!Next, I!Verified, I!Connects, I!PairedConnects,
   I!IdentityChains, I!IdentityInv, N!serverVars, N!deviceVars, N!vars, N!NoKey,
   N!ServerKey, N!ClientKey, N!NoCert, N!ServerCert, N!ClientCert, N!NotRunning,
   N!Stopped, N!NotPairing, N!NoPKI, N!TypeOK, N!Init, N!At, N!Creating, N!Room,
   N!MakeKey, N!CALoads, N!StatCA, N!WriteCACert, N!WriteCAKey, N!StatServer,
   N!WriteServerKey, N!Serve, N!KillStarter, N!Connected, N!Stop, N!RemovePKI, N!Trust,
   N!Pinned, N!Connect, N!Issue, N!Saving, N!Collect, N!WriteCert, N!WriteKey,
   N!WriteCA, N!ReadServers, N!WithServer, N!WriteServers, N!EndPairing, N!Start,
   N!Save, N!Next, N!Verified, N!Connects, N!PairedConnects, N!IdentityChains,
   N!IdentityInv, I!Cardinality, N!Cardinality

\* There is one notion of finite sets.
LEMMA FinitelyMany == ASSUME NEW S_ PROVE E!IsFiniteSet(S_) <=> IsFiniteSet(S_)
BY Zenon DEF E!IsFiniteSet, IsFiniteSet

\* A write of the file tools never replaces what another of them wrote after its
\* check: what lies between is another program's (fileRevisionMu).
THEOREM LocalUpdatesAreKept == LocalSpec => []NoLostUpdate
BY FilesAlone, UpdatesAreKept, PTL

\* Nothing that was there when a write was checked is replaced without having
\* been shown to a conversation (requireFileRevision).
THEOREM LocalReplacedWasSeen == LocalSpec => []ReplacedWasSeen
BY FilesAlone, ReplacedContentsWereSeen, PTL
\* Whatever fails, whoever is killed and however many update at once, the
\* executable is one whole download whose checksum matched (updateReplace).
THEOREM LocalExecutableIsVerified == LocalSpec => []ExecutableIsVerified
<1>1. U!Spec => []U!ExecutableIsVerified
  BY SameUpdate, N!ExecutableStaysVerified, PTL DEF U!Spec, N!U!Spec
<1>2. U!ExecutableIsVerified => ExecutableIsVerified BY DEF ExecutableIsVerified
<1>3. ~(part = "update") => ExecutableIsVerified BY DEF ExecutableIsVerified
<1> QED BY <1>1, <1>2, <1>3, UpdateAlone, PTL

\* Once every update has ended, and restarted the daemon when it had to, an
\* installed daemon that runs, and was not started before its unit was removed,
\* runs the executable on the disk (daemonInstalled, daemonRestart).
THEOREM LocalDaemonRunsTarget == LocalSpec => []DaemonRunsTarget
<1>1. U!Spec => []U!DaemonRunsTarget
  BY SameUpdate, N!DaemonEndsOnTarget, PTL DEF U!Spec, N!U!Spec
<1>2. U!DaemonRunsTarget => DaemonRunsTarget BY DEF DaemonRunsTarget
<1>3. ~(part = "update") => DaemonRunsTarget BY DEF DaemonRunsTarget
<1> QED BY <1>1, <1>2, <1>3, UpdateAlone, PTL

\* The bounds are as the proofs about the configuration want them.
LEMMA ConstantsFit == D!ConstantsFit BY LocalAssumption DEF D!ConstantsFit

\* However many processes start on one database at once, each migration is
\* applied once (migrate in util/database.go).
THEOREM LocalMigratedOnce == LocalSpec => []MigratedOnce
<1>1. D!Spec => []D!MigratedOnce BY ConstantsFit, D!MigrationsRunOnce
<1>2. C!Spec => []C!MigratedOnce BY <1>1, SameConfiguration, PTL DEF C!Spec, D!Spec
<1>3. C!MigratedOnce => MigratedOnce BY DEF MigratedOnce
<1>4. ~(part = "configuration") => MigratedOnce BY DEF MigratedOnce
<1> QED BY <1>2, <1>3, <1>4, ConfigurationAlone, PTL

\* When commands do not overlap, an agent has its provider and a conversation its
\* agent, even after one that failed or was killed halfway (ProviderDelete,
\* AgentDelete).
THEOREM LocalReferencesHold == LocalSpec => []ReferencesHold
<1>1. D!Spec => []D!ReferencesHold BY ConstantsFit, D!ReferencesStay
<1>2. C!Spec => []C!ReferencesHold BY <1>1, SameConfiguration, PTL DEF C!Spec, D!Spec
<1>3. C!ReferencesHold => ReferencesHold BY DEF ReferencesHold
<1>4. ~(part = "configuration") => ReferencesHold BY DEF ReferencesHold
<1> QED BY <1>2, <1>3, <1>4, ConfigurationAlone, PTL

\* The files keep well formed what the commands leave in them, a setting somebody
\* chose is the one the next program starts with, and a search asks with a
\* configuration that can work (core/provider.go, config/client.go,
\* modules/webconf.go).
THEOREM LocalSettingsInv == LocalSpec => []SettingsInv
<1>1. C!Spec => []C!FilesWellFormed
  <2>1. D!Spec => []D!FilesWellFormed BY ConstantsFit, D!FilesStayWellFormed
  <2> QED BY <2>1, SameConfiguration, PTL DEF C!Spec, D!Spec
<1>2. P!Spec => []P!PreferencesInv
  BY SamePreferences, D!PreferencesStay, PTL DEF P!Spec, D!P!Spec
<1>3. W!Spec => []W!WebInv
  <2>1. D!PagesFit BY LocalAssumption DEF D!PagesFit
  <2>2. D!W!Spec => []D!W!WebInv BY <2>1, D!SearchesStayConfigured
  <2> QED BY <2>2, SameWeb, PTL DEF W!Spec, D!W!Spec
<1>4. /\ C!FilesWellFormed \/ ~(part = "configuration")
      /\ P!PreferencesInv \/ ~(part = "preferences")
      /\ W!WebInv \/ ~(part = "web")
      => SettingsInv
  BY DEF SettingsInv
<1> QED
  BY <1>1, <1>2, <1>3, <1>4, ConfigurationAlone, PreferencesAlone, WebAlone, PTL

\* Between reloads the open connections are those of the manager, a reload
\* without an error leaves usable tools, no SIGHUP is lost, and a delegation
\* never goes to older agents than the request's own (core/reload.go).
THEOREM LocalReloadInv == LocalSpec => []ReloadInv
<1>1. E!BoundsFit BY LocalAssumption DEF E!BoundsFit
<1>2. E!Spec => []E!ReloadInv BY <1>1, E!ReloadHolds
<1>3. R!Spec => []R!ReloadInv BY <1>2, SameReload, PTL DEF R!Spec, E!Spec
<1>4. R!ReloadInv => ReloadInv BY DEF ReloadInv
<1>5. ~(part = "reload") => ReloadInv BY DEF ReloadInv
<1> QED BY <1>3, <1>4, <1>5, ReloadAlone, PTL

\* What a pairing leaves behind on both ends fits together: a server listens
\* with a certificate of its own CA, and a paired device can connect, unless
\* two first starts or two pairings ran at once; and what asks for a pairing stays
\* within its limits as far as the code keeps them (PairingBegin, allowPairing).
THEOREM LocalPairingInv == LocalSpec => []PairingInv
<1>1. N!KeysFit BY LocalAssumption DEF N!KeysFit
<1>2. N!Spec => []N!IdentityInv BY <1>1, N!IdentityHolds
<1>3. N!Spec => []N!PairedConnects BY <1>1, N!PairedDevicesConnect
<1>4. I!Spec => [](I!IdentityInv /\ I!PairedConnects)
  BY <1>2, <1>3, SameIdentity, PTL DEF I!Spec, N!Spec
<1>5. N!LimitsFit BY LocalAssumption DEF N!LimitsFit
<1>6. N!Q!Spec => []N!Q!IntakeInv BY <1>5, N!IntakeIsLimited
<1>7. Q!Spec => []Q!IntakeInv BY <1>6, SameIntake, PTL DEF Q!Spec, N!Q!Spec
<1>8. /\ (I!IdentityInv /\ I!PairedConnects) \/ ~(part = "identity")
      /\ Q!IntakeInv \/ ~(part = "intake")
      => PairingInv
  BY DEF PairingInv
<1> QED BY <1>4, <1>7, <1>8, IdentityAlone, IntakeAlone, PTL

\* The state of each part is well formed, an update that failed leaves nothing,
\* what is remembered stays within its limit as far as the code keeps it, the shell
\* and search tools answer what they found, and a reply goes out whole in parts that
\* Discord takes (updateStage, memoryUsage, bash, searchWalk, splitReply).
THEOREM LocalStateHolds == LocalSpec => []LocalInv
<1>1. LocalSpec => []TypeOK BY FilesAlone, FileTypes, PTL
<1>2. U!Spec => [](U!TypeOK /\ U!FailureLeavesNothing)
  <2>1. N!UpdatesFit BY LocalAssumption DEF N!UpdatesFit
  <2>2. N!U!Spec => []N!U!TypeOK BY <2>1, N!ReleasesHold
  <2> QED BY <2>2, N!FailuresLeaveNothing, SameUpdate, PTL DEF U!Spec, N!U!Spec
<1>3. C!Spec => []C!TypeOK
  <2>1. D!Spec => []D!TypeOK BY ConstantsFit, D!ConfigurationTyped
  <2> QED BY <2>1, SameConfiguration, PTL DEF C!Spec, D!Spec
<1>4. M!Spec => [](M!TypeOK /\ M!MemoryBounded)
  <2>1. E!FactsFit BY LocalAssumption, FinitelyMany DEF E!FactsFit
  <2>2. E!M!Spec => [](E!M!TypeOK /\ E!M!MemoryBounded) BY <2>1, E!MemoryStaysBounded
  <2> QED BY <2>2, SameMemory, PTL DEF M!Spec, E!M!Spec
<1>5. B!Spec => []B!ShellInv
  BY E!ShellCallsHold, SameShell, PTL DEF B!Spec, E!Z!Spec
<1>6. S!Spec => []S!SearchInv
  <2>1. E!SearchesFit
    <3>1. /\ Paths \subseteq Seq(STRING) \ {<<>>} /\ Patterns \subseteq Seq(STRING)
          /\ MaxHits \in Nat /\ MaxChanges \in Nat
      BY LocalAssumption, Zenon
    <3>2. {2, 3} \subseteq Nat \ {0} OBVIOUS
    <3> QED BY <3>1, <3>2, Zenon DEF E!SearchesFit, E!Strings
  <2>2. E!G!Spec => []E!G!SearchInv BY <2>1, E!SearchesAreComplete
  <2> QED BY <2>2, SameSearch, PTL DEF S!Spec, E!G!Spec
<1>7. T!Spec => []T!RepliesInv
  <2>1. RepliesFit BY LocalAssumption DEF RepliesFit
  <2> QED BY <2>1, RepliesStay
<1>8. /\ TypeOK
      /\ (U!TypeOK /\ U!FailureLeavesNothing) \/ ~(part = "update")
      /\ C!TypeOK \/ ~(part = "configuration")
      /\ (M!TypeOK /\ M!MemoryBounded) \/ ~(part = "memory")
      /\ B!ShellInv \/ ~(part = "shell")
      /\ S!SearchInv \/ ~(part = "search")
      /\ T!RepliesInv \/ ~(part = "replies")
      => LocalInv
  BY DEF LocalInv
<1> QED
  BY <1>1, <1>2, <1>3, <1>4, <1>5, <1>6, <1>7, <1>8, UpdateAlone, ConfigurationAlone,
     MemoryAlone, ShellAlone, SearchAlone, RepliesAlone, PTL

\* The catalog is what the roots hold when nothing changed since the scan behind
\* it began, and a creator told that its skill is loaded had it loaded
\* (SkillInitAt, SkillCreateResult).
THEOREM LocalSkillsInv == LocalSpec => []SkillsInv
<1>1. E!NamesFit BY LocalAssumption DEF E!NamesFit
<1>2. E!K!Spec => []E!K!SkillsInv BY <1>1, E!SkillsHold
<1>3. K!Spec => []K!SkillsInv BY <1>2, SameSkills, PTL DEF K!Spec, E!K!Spec
<1>4. K!SkillsInv => SkillsInv BY DEF SkillsInv
<1>5. ~(part = "skills") => SkillsInv BY DEF SkillsInv
<1> QED BY <1>3, <1>4, <1>5, SkillsAlone, PTL

\* What skill_create writes takes no skill from the user's sight but the one it
\* was asked to overwrite (skillCreateConflict).
THEOREM LocalScopeKept == LocalSpec => ScopeKept
<1>1. E!NamesFit BY LocalAssumption DEF E!NamesFit
<1>2. E!K!Spec => E!K!ScopeKept BY <1>1, E!ScopeStays
<1>3. [E!K!KeepsScope]_(E!K!vars) => K!KeepsScope
  <2>1. UNCHANGED E!K!vars => v5' = v5 BY DEF E!K!vars
  <2>2. UNCHANGED E!K!vars => K!KeepsScope BY <2>1 DEF K!KeepsScope
  <2> QED BY <2>2, SameSkills
<1>4. K!KeepsScope => [part = "skills" => K!KeepsScope]_<<part, shared>> OBVIOUS
<1>5. ~(part = "skills") => [part = "skills" => K!KeepsScope]_<<part, shared>> OBVIOUS
<1> QED
  BY <1>2, <1>3, <1>4, <1>5, SameSkills, SkillsAlone, PTL
  DEF ScopeKept, K!Spec, E!K!Spec, E!K!ScopeKept

=============================================================================
