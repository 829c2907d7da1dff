----------------------- MODULE ConfigurationProofs -------------------------
(***************************************************************************)
(* Proofs about the database and the configuration (Configuration), for    *)
(* any number of processes, migrations, providers, agents and bots, with   *)
(* processes killed at any step; about client.json (Preferences), for any  *)
(* number of programs that change it; and about web.json and the searches  *)
(* it is for (WebSearch), for any pages and limits.  They use no fairness. *)
(***************************************************************************)
EXTENDS Configuration, WellFoundedInduction, TLAPS

CONSTANTS Program, MaxWrites, WebCommand, Search, Pages, Limits, MaxWebWrites

VARIABLES kept, writes, running, mine, changed, older, wanted, undone,
          file, webWrites, editing, draft, up, loading, buffer, web, garbled, offered,
          searching, config, answer

P == INSTANCE Preferences
W == INSTANCE WebSearch WITH writes <- webWrites

\* What is assumed of the constants: MCLocal, which gives them their values,
\* states it as LocalAssumption.
ConstantsFit == LastMigration \in Nat /\ None \notin Provider \cup Agent

-----------------------------------------------------------------------------
(* Lists *)

\* A set of numbers has a least one, from which induction over a list follows.
LEMMA LeastNumber ==
    ASSUME NEW T \in SUBSET Nat, T # {} PROVE \E n \in T : \A m \in T : n <= m
<1> DEFINE R == {ss \in Nat \X Nat : ss[1] < ss[2]}
<1>1. IsWellFoundedOn(R, Nat) BY NatLessThanWellFounded, Zenon DEF OpToRel
<1>2. PICK n \in T : \A m \in T : <<m, n>> \notin R BY <1>1, WFMin
<1>3. ASSUME NEW m \in T PROVE n <= m
  <2>1. <<m, n>> \notin R BY <1>2
  <2>2. ~(m < n) BY <2>1
  <2> QED BY <2>2
<1> QED BY <1>3

\* The loop of WithoutAgent over the first n of the list.
Loop(list, id, remaining, i) ==
    IF i = 0 THEN <<>>
    ELSE IF list[i].id = id THEN remaining[i - 1]
    ELSE Append(remaining[i - 1], list[i])

\* It is defined: a loop that goes on for one more begins as that did.
LEMMA LoopEnds ==
    ASSUME NEW list, NEW id, NEW n \in Nat
    PROVE  \E remaining : remaining = [i \in 0 .. n |-> Loop(list, id, remaining, i)]
<1> DEFINE Bad == {m \in Nat : ~\E r : r = [i \in 0 .. m |-> Loop(list, id, r, i)]}
<1>1. SUFFICES ASSUME Bad # {} PROVE FALSE OBVIOUS
<1>2. PICK m \in Bad : \A k \in Bad : m <= k BY <1>1, LeastNumber
<1>3. CASE m = 0
  <2> DEFINE r == [j \in 0 .. 0 |-> <<>>]
  <2>1. r = [i \in 0 .. 0 |-> Loop(list, id, r, i)] BY DEF Loop
  <2> QED BY <1>2, <1>3, <2>1
<1>4. CASE m # 0
  <2>1. m \in Nat /\ m - 1 \in Nat BY <1>4
  <2>2. m - 1 \notin Bad BY <1>2, <2>1
  <2>3. PICK r : r = [i \in 0 .. m - 1 |-> Loop(list, id, r, i)] BY <2>1, <2>2
  <2> DEFINE g == [i \in 0 .. m |-> IF i = m THEN Loop(list, id, r, m) ELSE r[i]]
  <2>4. ASSUME NEW i \in 0 .. m PROVE g[i] = Loop(list, id, g, i)
    <3>1. CASE i = m
      <4>1. g[m - 1] = r[m - 1] BY <2>1
      <4> QED BY <1>4, <2>1, <3>1, <4>1 DEF Loop
    <3>2. CASE i # m /\ i # 0
      <4>1. i \in 0 .. m - 1 /\ i - 1 \in 0 .. m /\ i - 1 # m BY <2>1, <3>2
      <4>2. g[i] = Loop(list, id, r, i) BY <2>3, <3>2, <4>1
      <4>3. g[i - 1] = r[i - 1] BY <4>1
      <4> QED BY <3>2, <4>2, <4>3 DEF Loop
    <3>3. CASE i # m /\ i = 0
      <4>1. i \in 0 .. m - 1 BY <2>1, <3>3
      <4> QED BY <2>3, <3>3, <4>1 DEF Loop
    <3> QED BY <3>1, <3>2, <3>3
  <2>5. g = [i \in 0 .. m |-> Loop(list, id, g, i)] BY <2>4
  <2> QED BY <1>2, <2>5
<1> QED BY <1>3, <1>4

AgentRecord == [id : Agent, provider : Provider]

\* The ids in a list are all different.
Distinct(list) == \A i, j \in 1 .. Len(list) : list[i].id = list[j].id => i = j

\* What the loop of AgentDelete and AgentDefault leaves: all but one agent,
\* none of them twice.
LEMMA WithoutAgentKeeps ==
    ASSUME NEW list \in Seq(AgentRecord), NEW id
    PROVE  /\ WithoutAgent(list, id) \in Seq(AgentRecord)
           /\ Members(WithoutAgent(list, id)) = {a \in Members(list) : a.id # id}
           /\ Distinct(list) => Distinct(WithoutAgent(list, id))
<1> DEFINE n == Len(list)
           f == CHOOSE r : r = [i \in 0 .. n |-> Loop(list, id, r, i)]
<1>1. n \in Nat OBVIOUS
<1>2. WithoutAgent(list, id) = f[n] BY DEF WithoutAgent, Loop
<1>3. f = [i \in 0 .. n |-> Loop(list, id, f, i)] BY <1>1, LoopEnds
<1> HIDE DEF f
<1> DEFINE Kept(m) ==
             /\ f[m] \in Seq(AgentRecord)
             /\ Members(f[m]) = {a \in {list[i] : i \in 1 .. m} : a.id # id}
             /\ Distinct(list) => Distinct(f[m])
           Bad == {m \in 0 .. n : ~Kept(m)}
<1>4. Kept(n)
  <2> HIDE DEF n, Kept
  <2>1. SUFFICES ASSUME Bad # {} PROVE FALSE BY <1>1
  <2>2. PICK m \in Bad : \A k \in Bad : m <= k
    <3>1. Bad \in SUBSET Nat OBVIOUS
    <3> HIDE DEF Bad
    <3> QED BY <2>1, <3>1, LeastNumber
  <2>3. m \in 0 .. n /\ f[m] = Loop(list, id, f, m) /\ ~Kept(m)
    <3> HIDE DEF Loop
    <3> QED BY <1>3
  <2>4. CASE m = 0
    <3>1. f[0] = <<>> BY <2>3, <2>4 DEF Loop
    <3>2. Kept(0) BY <3>1 DEF Kept, Members, Distinct
    <3> QED BY <2>3, <2>4, <3>2
  <2>5. CASE m # 0
    <3>1. m - 1 \in 0 .. n /\ m \in 1 .. n /\ ~(m <= m - 1) BY <1>1, <2>3, <2>5
    <3>2. Kept(m - 1) BY <2>2, <3>1
    <3>3. list[m] \in AgentRecord BY <3>1 DEF n
    <3>4. {list[i] : i \in 1 .. m} = {list[i] : i \in 1 .. m - 1} \cup {list[m]} BY <3>1
    <3>5. CASE list[m].id = id
      <4>1. f[m] = f[m - 1] BY <2>3, <2>5, <3>5 DEF Loop
      <4>2. Kept(m) BY <3>2, <3>4, <3>5, <4>1 DEF Kept
      <4> QED BY <2>3, <4>2
    <3>6. CASE list[m].id # id
      <4>1. f[m] = Append(f[m - 1], list[m]) BY <2>3, <2>5, <3>6 DEF Loop
      <4>2. f[m] \in Seq(AgentRecord) BY <3>2, <3>3, <4>1 DEF Kept
      <4>3. Members(f[m]) = Members(f[m - 1]) \cup {list[m]}
        BY <3>2, <3>3, <4>1 DEF Kept, Members
      <4>4. Members(f[m]) = {a \in {list[i] : i \in 1 .. m} : a.id # id}
        BY <3>2, <3>4, <3>6, <4>3 DEF Kept
      <4>5. ASSUME Distinct(list) PROVE Distinct(f[m])
        <5>1. ASSUME NEW a \in Members(f[m - 1]) PROVE a.id # list[m].id
          <6>1. PICK i \in 1 .. m - 1 : a = list[i] BY <3>2 DEF Kept
          <6>2. i \in 1 .. Len(list) /\ m \in 1 .. Len(list) /\ i # m BY <3>1 DEF n
          <6> QED BY <4>5, <6>1, <6>2 DEF Distinct
        <5>2. Distinct(f[m - 1]) BY <3>2, <4>5 DEF Kept
        <5>3. ASSUME NEW i \in 1 .. Len(f[m]), NEW j \in 1 .. Len(f[m]), f[m][i].id = f[m][j].id
              PROVE  i = j
          <6>1. Len(f[m - 1]) \in Nat /\ Len(f[m]) = Len(f[m - 1]) + 1
            BY <3>2, <3>3, <4>1 DEF Kept
          <6>2. \A k \in 1 .. Len(f[m - 1]) : f[m][k] = f[m - 1][k] /\ f[m - 1][k] \in Members(f[m - 1])
            BY <3>2, <3>3, <4>1 DEF Kept, Members
          <6>3. f[m][Len(f[m])] = list[m] BY <3>2, <3>3, <4>1 DEF Kept
          <6>4. CASE i = Len(f[m]) /\ j # Len(f[m])
            <7>1. j \in 1 .. Len(f[m - 1]) BY <6>1, <6>4
            <7> QED BY <5>1, <5>3, <6>2, <6>3, <6>4, <7>1
          <6>5. CASE i # Len(f[m]) /\ j = Len(f[m])
            <7>1. i \in 1 .. Len(f[m - 1]) BY <6>1, <6>5
            <7> QED BY <5>1, <5>3, <6>2, <6>3, <6>5, <7>1
          <6>6. CASE i # Len(f[m]) /\ j # Len(f[m])
            <7>1. i \in 1 .. Len(f[m - 1]) /\ j \in 1 .. Len(f[m - 1]) BY <6>1, <6>6
            <7>2. f[m - 1][i].id = f[m - 1][j].id BY <5>3, <6>2, <7>1
            <7> QED BY <5>2, <7>1, <7>2 DEF Distinct
          <6> QED BY <6>4, <6>5, <6>6
        <5> QED BY <5>3 DEF Distinct
      <4>6. Kept(m) BY <4>2, <4>4, <4>5 DEF Kept
      <4> QED BY <2>3, <4>6
    <3> QED BY <3>5, <3>6
  <2> QED BY <2>4, <2>5
<1>5. Members(list) = {list[i] : i \in 1 .. n} BY DEF Members
<1> QED BY <1>2, <1>4, <1>5

\* ProviderDelete takes one out of the list, and leaves the others in it.
LEMMA WithoutKeeps ==
    ASSUME NEW list \in Seq(Provider), NEW x \in Members(list)
    PROVE  /\ Without(list, x) \in Seq(Provider)
           /\ Members(list) \ {x} \subseteq Members(Without(list, x))
           /\ Members(Without(list, x)) \subseteq Members(list)
           /\ (\A i, j \in 1 .. Len(list) : list[i] = list[j] => i = j) =>
                 \A i, j \in 1 .. Len(Without(list, x)) :
                     Without(list, x)[i] = Without(list, x)[j] => i = j
<1> DEFINE n == Len(list)
           k == CHOOSE j \in 1 .. Len(list) : list[j] = x
           rest == Without(list, x)
<1>1. n \in Nat /\ k \in 1 .. n /\ list[k] = x BY DEF Members
<1>2. rest = SubSeq(list, 1, k - 1) \o SubSeq(list, k + 1, n) BY DEF Without
<1> HIDE DEF k, rest
<1>3. /\ rest \in Seq(Provider) /\ Len(rest) = n - 1
      /\ \A i \in 1 .. n - 1 : rest[i] = IF i < k THEN list[i] ELSE list[i + 1]
  <2> DEFINE left == SubSeq(list, 1, k - 1)
             right == SubSeq(list, k + 1, n)
  <2>1. /\ left \in Seq(Provider) /\ Len(left) = k - 1
        /\ \A i \in 1 .. k - 1 : left[i] = list[i]
    BY <1>1
  <2>2. /\ right \in Seq(Provider) /\ Len(right) = n - k
        /\ \A i \in 1 .. n - k : right[i] = list[k + i]
    BY <1>1
  <2>3. rest = left \o right BY <1>2
  <2> HIDE DEF left, right, n
  <2>4. rest \in Seq(Provider) /\ Len(rest) = n - 1 BY <1>1, <2>1, <2>2, <2>3
  <2>5. ASSUME NEW i \in 1 .. n - 1 PROVE rest[i] = IF i < k THEN list[i] ELSE list[i + 1]
    <3>1. rest[i] = IF i <= Len(left) THEN left[i] ELSE right[i - Len(left)]
      BY <1>1, <2>1, <2>2, <2>3
    <3>2. CASE i < k BY <1>1, <2>1, <3>1, <3>2
    <3>3. CASE i >= k
      <4>1. i - Len(left) \in 1 .. n - k /\ k + (i - Len(left)) = i + 1 BY <1>1, <2>1, <3>3
      <4> QED BY <1>1, <2>1, <2>2, <3>1, <3>3, <4>1
    <3> QED BY <1>1, <3>2, <3>3
  <2> QED BY <2>4, <2>5
<1>4. ASSUME NEW i \in 1 .. n, list[i] # x PROVE list[i] \in Members(rest)
  <2>1. CASE i < k BY <1>1, <1>3, <2>1 DEF Members
  <2>2. CASE i > k
    <3>1. i - 1 \in 1 .. n - 1 /\ rest[i - 1] = list[i] BY <1>1, <1>3, <2>2
    <3> QED BY <1>3, <3>1 DEF Members
  <2> QED BY <1>1, <1>4, <2>1, <2>2
<1>5. Members(list) \ {x} \subseteq Members(rest) BY <1>4 DEF Members
<1>6. Members(rest) \subseteq Members(list)
  <2>1. ASSUME NEW i \in 1 .. n - 1 PROVE rest[i] \in Members(list)
    <3>1. i \in 1 .. n /\ i + 1 \in 1 .. n BY <1>1
    <3>2. rest[i] = list[i] \/ rest[i] = list[i + 1] BY <1>3
    <3> QED BY <3>1, <3>2 DEF Members
  <2> QED BY <1>3, <2>1 DEF Members
<1>7. ASSUME \A i, j \in 1 .. n : list[i] = list[j] => i = j,
             NEW i \in 1 .. n - 1, NEW j \in 1 .. n - 1, rest[i] = rest[j]
      PROVE  i = j
  <2> DEFINE At1(a) == IF a < k THEN a ELSE a + 1
  <2>1. At1(i) \in 1 .. n /\ At1(j) \in 1 .. n /\ list[At1(i)] = list[At1(j)]
    BY <1>1, <1>3, <1>7
  <2>2. At1(i) = At1(j) BY <1>7, <2>1
  <2> QED BY <1>1, <2>2
<1> QED BY <1>3, <1>5, <1>6, <1>7 DEF rest

-----------------------------------------------------------------------------
(* Types *)

Place == {"off", "migrate", "column", "alter", "ready", "setup", "saving"} \cup File

\* What a process may hold of the files, and the files themselves.
Copy == [providers : Seq(Provider), default : Provider \cup {None},
         global : AgentRecord \cup {NoAgent}, agents : Seq(AgentRecord), bots : SUBSET Bot]

ConfigurationTypes ==
    /\ versions \subseteq Migration /\ schema \in [Migration -> Nat] /\ column \in BOOLEAN
    /\ present \subseteq File
    /\ files \in Copy
    /\ sessions \subseteq Agent
    /\ pc \in [Process -> Place]
    /\ applied \in [Process -> SUBSET Migration]
    /\ missing \in [Process -> BOOLEAN]
    /\ copy \in [Process -> Copy]
    /\ \A p \in Process : missing[p] => pc[p] \in File

\* The files there are.
LEMMA FileNames == File = {"providers", "agents", "bots"}
BY DEF File, FieldsOf

\* A copy with the variables of one file from another is a copy.
LEMMA WithIsCopy ==
    ASSUME NEW c \in Copy, NEW d \in Copy, NEW f \in File
    PROVE  /\ With(c, f, d) \in Copy
           /\ With(c, f, d).providers = IF f = "providers" THEN d.providers ELSE c.providers
           /\ With(c, f, d).default = IF f = "providers" THEN d.default ELSE c.default
           /\ With(c, f, d).global = IF f = "agents" THEN d.global ELSE c.global
           /\ With(c, f, d).agents = IF f = "agents" THEN d.agents ELSE c.agents
           /\ With(c, f, d).bots = IF f = "bots" THEN d.bots ELSE c.bots
<1>1. DOMAIN c = {"providers", "default", "global", "agents", "bots"} BY DEF Copy
<1>2. \A x \in DOMAIN c : With(c, f, d)[x] = IF x \in FieldsOf[f] THEN d[x] ELSE c[x]
  BY DEF With
<1>3. f \in {"providers", "agents", "bots"} BY FileNames
<1>4. /\ FieldsOf["providers"] = {"providers", "default"}
      /\ FieldsOf["agents"] = {"global", "agents"}
      /\ FieldsOf["bots"] = {"bots"}
  BY DEF FieldsOf
<1>5. /\ With(c, f, d).providers = IF f = "providers" THEN d.providers ELSE c.providers
      /\ With(c, f, d).default = IF f = "providers" THEN d.default ELSE c.default
      /\ With(c, f, d).global = IF f = "agents" THEN d.global ELSE c.global
      /\ With(c, f, d).agents = IF f = "agents" THEN d.agents ELSE c.agents
      /\ With(c, f, d).bots = IF f = "bots" THEN d.bots ELSE c.bots
  BY <1>1, <1>2, <1>3, <1>4
<1>6. With(c, f, d) = [providers |-> With(c, f, d).providers, default |-> With(c, f, d).default,
                       global |-> With(c, f, d).global, agents |-> With(c, f, d).agents,
                       bots |-> With(c, f, d).bots]
  BY <1>1 DEF With
<1>7. With(c, f, d) \in Copy BY <1>5, <1>6 DEF Copy
<1> QED BY <1>5, <1>7

\* An empty file is one.
LEMMA EmptyIsCopy == Empty \in Copy BY DEF Empty, Copy, NoAgent

\* What the files and the copies must be like (see WellFormed).
NoneTwice(list) == \A i, j \in 1 .. Len(list) : list[i] = list[j] => i = j
AgentsFit(c) ==
    /\ Distinct(c.agents)
    /\ \A a \in Members(c.agents) : a.id # c.global.id
    /\ c.global = NoAgent => c.agents = <<>>

\* WellFormed by its parts, the list of providers and the agents.
LEMMA WellFormedParts ==
    ASSUME NEW c \in Copy PROVE WellFormed(c) <=> NoneTwice(c.providers) /\ AgentsFit(c)
<1>1. (\A a \in Members(c.agents) : a.id # c.global.id)
         <=> \A i \in 1 .. Len(c.agents) : c.agents[i].id # c.global.id
  BY DEF Members
<1> QED BY <1>1 DEF WellFormed, NoneTwice, AgentsFit, Distinct

\* A new entry at the end of a list.
LEMMA AppendedOnce ==
    ASSUME NEW list \in Seq(Provider), NEW x \in Provider
    PROVE  /\ Append(list, x) \in Seq(Provider)
           /\ Members(Append(list, x)) = Members(list) \cup {x}
           /\ x \notin Members(list) /\ NoneTwice(list) => NoneTwice(Append(list, x))
<1> DEFINE longer == Append(list, x)
<1>1. /\ longer \in Seq(Provider) /\ Len(list) \in Nat /\ Len(longer) = Len(list) + 1
      /\ longer[Len(list) + 1] = x
      /\ \A i \in 1 .. Len(list) : longer[i] = list[i] /\ list[i] \in Members(list)
  BY DEF Members
<1> HIDE DEF longer
<1>2. Members(longer) = Members(list) \cup {x} BY <1>1 DEF Members
<1>3. x \notin Members(list) /\ NoneTwice(list) => NoneTwice(longer) BY <1>1 DEF NoneTwice
<1> QED BY <1>1, <1>2, <1>3 DEF longer

\* An agent with a new id at the end of a list of them.
LEMMA AgentAppendedOnce ==
    ASSUME NEW list \in Seq(AgentRecord), NEW new \in AgentRecord
    PROVE  /\ Append(list, new) \in Seq(AgentRecord)
           /\ Members(Append(list, new)) = Members(list) \cup {new}
           /\ Distinct(list) /\ (\A a \in Members(list) : a.id # new.id) =>
                 Distinct(Append(list, new))
<1> DEFINE longer == Append(list, new)
<1>1. /\ longer \in Seq(AgentRecord) /\ Len(list) \in Nat /\ Len(longer) = Len(list) + 1
      /\ longer[Len(list) + 1] = new
      /\ \A i \in 1 .. Len(list) : longer[i] = list[i] /\ list[i] \in Members(list)
  BY DEF Members
<1> HIDE DEF longer
<1>2. Members(longer) = Members(list) \cup {new} BY <1>1 DEF Members
<1>3. ASSUME Distinct(list), \A a \in Members(list) : a.id # new.id,
             NEW i \in 1 .. Len(longer), NEW j \in 1 .. Len(longer), longer[i].id = longer[j].id
      PROVE  i = j
  <2>1. CASE i \in 1 .. Len(list) /\ j \in 1 .. Len(list) BY <1>1, <1>3, <2>1 DEF Distinct
  <2>2. CASE i = Len(list) + 1 /\ j \in 1 .. Len(list) BY <1>1, <1>3, <2>2
  <2>3. CASE i \in 1 .. Len(list) /\ j = Len(list) + 1 BY <1>1, <1>3, <2>3
  <2>4. CASE i = Len(list) + 1 /\ j = Len(list) + 1 BY <2>4
  <2> QED BY <1>1, <2>1, <2>2, <2>3, <2>4
<1> QED BY <1>1, <1>2, <1>3 DEF longer, Distinct

\* ProviderCreate of a provider that is in no list.
LEMMA ProvidedFits ==
    ASSUME NEW c \in Copy, NEW x \in Provider
    PROVE  /\ Provided(c, x) \in Copy
           /\ Provided(c, x).providers = Append(c.providers, x)
           /\ Provided(c, x).default = IF c.default = None THEN x ELSE c.default
           /\ Provided(c, x).global = c.global /\ Provided(c, x).agents = c.agents
<1>1. c.providers \in Seq(Provider) BY DEF Copy
<1>2. Append(c.providers, x) \in Seq(Provider) BY <1>1
<1>3. (IF c.default = None THEN x ELSE c.default) \in Provider \cup {None} BY DEF Copy
<1> QED BY <1>2, <1>3 DEF Provided, Copy

\* ProviderDelete of a provider that is in the list.
LEMMA UnprovidedFits ==
    ASSUME NEW c \in Copy, NEW x \in Members(c.providers)
    PROVE  LET d == Unprovided(c, x)
           IN  /\ d \in Copy /\ d.global = c.global /\ d.agents = c.agents
               /\ Members(c.providers) \ {x} \subseteq Members(d.providers)
               /\ NoneTwice(c.providers) => NoneTwice(d.providers)
               /\ c.default \in Members(c.providers) /\ d.providers = <<>> => d.default = None
<1> DEFINE rest == Without(c.providers, x)
           d == Unprovided(c, x)
<1>1. c.providers \in Seq(Provider) BY DEF Copy
<1>2. /\ rest \in Seq(Provider) /\ Members(c.providers) \ {x} \subseteq Members(rest)
      /\ NoneTwice(c.providers) => NoneTwice(rest)
  BY <1>1, WithoutKeeps DEF NoneTwice
<1> HIDE DEF rest
<1>3. rest # <<>> => Head(rest) \in Provider BY <1>2
<1>4. d = [c EXCEPT !.providers = rest,
                    !.default = IF c.default # x THEN @ ELSE IF rest = <<>> THEN None ELSE Head(rest)]
  BY DEF Unprovided, rest
<1> HIDE DEF d
<1>5. d \in Copy /\ d.providers = rest /\ d.global = c.global /\ d.agents = c.agents
  BY <1>2, <1>3, <1>4 DEF Copy
<1>6. ASSUME c.default \in Members(c.providers), rest = <<>> PROVE d.default = None
  <2>1. Members(rest) = {} BY <1>6 DEF Members
  <2>2. c.default = x BY <1>2, <1>6, <2>1
  <2> QED BY <1>4, <1>6, <2>2 DEF Copy
<1> QED BY <1>2, <1>5, <1>6 DEF d

\* setupAgent and agentAddExecute put a new agent in the first place or at the end.
Added(c, new, d) ==
    \/ d = [c EXCEPT !.global = new,
                     !.agents = IF c.global = NoAgent THEN @ ELSE Append(@, c.global)]
    \/ c.global = NoAgent /\ d = [c EXCEPT !.global = new]
    \/ c.global # NoAgent /\ d = [c EXCEPT !.agents = Append(@, new)]

\* What AgentAdd makes of the agents.
LEMMA AddedFits ==
    ASSUME ConstantsFit, NEW c \in Copy, AgentsFit(c),
           NEW new \in AgentRecord, new.id \notin AgentIds(c), NEW d, Added(c, new, d)
    PROVE  /\ d \in Copy /\ d.providers = c.providers
           /\ AgentsFit(d) /\ AgentAll(d) = AgentAll(c) \cup {new}
<1> DEFINE Good == /\ d \in Copy /\ d.providers = c.providers
                   /\ AgentsFit(d) /\ AgentAll(d) = AgentAll(c) \cup {new}
<1>1. new # NoAgent BY DEF AgentRecord, NoAgent, ConstantsFit
<1>2. c.agents \in Seq(AgentRecord) /\ c.global \in AgentRecord \cup {NoAgent} BY DEF Copy
<1>3. \A b \in Members(c.agents) : b.id # new.id BY DEF AgentIds, AgentAll
<1>4. c.global # NoAgent => c.global \in AgentRecord /\ c.global.id # new.id
  BY <1>2 DEF AgentIds, AgentAll
<1>5. c.global = NoAgent => c.agents = <<>> /\ Members(c.agents) = {} BY DEF AgentsFit, Members
<1> HIDE DEF Good
<1>6. ASSUME c.global = NoAgent, d.global = new, d.agents = c.agents, d \in Copy,
             d.providers = c.providers
      PROVE  Good
  BY <1>1, <1>5, <1>6 DEF AgentsFit, AgentAll, Good
<1>7. ASSUME c.global = NoAgent, d = [c EXCEPT !.global = new] PROVE Good
  <2>1. d \in Copy /\ d.providers = c.providers /\ d.global = new /\ d.agents = c.agents
    BY <1>7 DEF Copy
  <2> QED BY <1>6, <1>7, <2>1
<1>8. ASSUME c.global # NoAgent,
             d = [c EXCEPT !.global = new, !.agents = Append(c.agents, c.global)]
      PROVE  Good
  <2> DEFINE longer == Append(c.agents, c.global)
  <2>1. /\ longer \in Seq(AgentRecord) /\ Members(longer) = Members(c.agents) \cup {c.global}
        /\ Distinct(longer)
    BY <1>2, <1>4, <1>8, AgentAppendedOnce DEF AgentsFit
  <2>2. d = [c EXCEPT !.global = new, !.agents = longer] BY <1>8
  <2> HIDE DEF longer
  <2>3. d \in Copy /\ d.providers = c.providers /\ d.global = new /\ d.agents = longer
    BY <2>1, <2>2 DEF Copy
  <2>4. AgentsFit(d) BY <1>1, <1>3, <1>4, <1>8, <2>1, <2>3 DEF AgentsFit
  <2>5. AgentAll(d) = AgentAll(c) \cup {new} BY <1>1, <1>8, <2>1, <2>3 DEF AgentAll
  <2> QED BY <2>3, <2>4, <2>5 DEF Good
<1>9. ASSUME c.global # NoAgent, d = [c EXCEPT !.agents = Append(c.agents, new)] PROVE Good
  <2> DEFINE longer == Append(c.agents, new)
  <2>1. /\ longer \in Seq(AgentRecord) /\ Members(longer) = Members(c.agents) \cup {new}
        /\ Distinct(longer)
    BY <1>2, <1>3, AgentAppendedOnce DEF AgentsFit
  <2>2. d = [c EXCEPT !.agents = longer] BY <1>9
  <2> HIDE DEF longer
  <2>3. d \in Copy /\ d.providers = c.providers /\ d.global = c.global /\ d.agents = longer
    BY <2>1, <2>2 DEF Copy
  <2>4. AgentsFit(d) BY <1>1, <1>4, <1>9, <2>1, <2>3 DEF AgentsFit
  <2>5. AgentAll(d) = AgentAll(c) \cup {new} BY <1>9, <2>1, <2>3 DEF AgentAll
  <2> QED BY <2>3, <2>4, <2>5 DEF Good
<1>10. CASE c.global = NoAgent
  <2>1. CASE d = [c EXCEPT !.global = new] BY <1>7, <1>10, <2>1 DEF Good
  <2>2. CASE d = [c EXCEPT !.global = new,
                           !.agents = IF c.global = NoAgent THEN @ ELSE Append(@, c.global)]
    <3>1. d \in Copy /\ d.providers = c.providers /\ d.global = new /\ d.agents = c.agents
      BY <1>10, <2>2 DEF Copy
    <3> QED BY <1>6, <1>10, <3>1 DEF Good
  <2> QED BY <1>10, <2>1, <2>2 DEF Added
<1>11. CASE c.global # NoAgent
  <2>1. CASE d = [c EXCEPT !.agents = Append(@, new)] BY <1>9, <1>11, <2>1 DEF Good
  <2>2. CASE d = [c EXCEPT !.global = new,
                           !.agents = IF c.global = NoAgent THEN @ ELSE Append(@, c.global)]
    <3>1. d = [c EXCEPT !.global = new, !.agents = Append(c.agents, c.global)]
      BY <1>11, <2>2
    <3> QED BY <1>8, <1>11, <3>1 DEF Good
  <2> QED BY <1>11, <2>1, <2>2 DEF Added
<1> QED BY <1>10, <1>11
\* agentApplyUpdate changes the provider of one agent, and no id.
Reassigned(c, a, x) ==
    LET Updated(old) == IF old.id = a THEN [old EXCEPT !.provider = x] ELSE old
    IN  [c EXCEPT !.global = Updated(@), !.agents = [i \in DOMAIN @ |-> Updated(@[i])]]

\* What AgentUpdate makes of them.
LEMMA UpdatedFits ==
    ASSUME ConstantsFit, NEW c \in Copy, AgentsFit(c), NEW a \in Agent, NEW x \in Provider
    PROVE  LET d == Reassigned(c, a, x)
           IN  /\ d \in Copy /\ d.providers = c.providers
               /\ AgentsFit(d) /\ AgentIds(d) = AgentIds(c)
               /\ \A b \in AgentAll(d) : b.provider = x \/ b \in AgentAll(c)
<1> DEFINE Updated(old) == IF old.id = a THEN [old EXCEPT !.provider = x] ELSE old
           list == [i \in DOMAIN c.agents |-> Updated(c.agents[i])]
           d == Reassigned(c, a, x)
<1>1. c.agents \in Seq(AgentRecord) /\ c.global \in AgentRecord \cup {NoAgent} BY DEF Copy
<1>2. ASSUME NEW old \in AgentRecord
      PROVE  /\ Updated(old) \in AgentRecord /\ Updated(old).id = old.id
             /\ Updated(old).provider = x \/ Updated(old) = old
  BY DEF AgentRecord
<1>3. Updated(NoAgent) = NoAgent /\ NoAgent \notin AgentRecord
  BY DEF NoAgent, AgentRecord, ConstantsFit
<1> HIDE DEF Updated
<1>4. /\ Len(c.agents) \in Nat /\ list \in Seq(AgentRecord) /\ Len(list) = Len(c.agents)
      /\ \A i \in 1 .. Len(c.agents) : c.agents[i] \in AgentRecord /\ list[i] = Updated(c.agents[i])
  <2>1. DOMAIN c.agents = 1 .. Len(c.agents) /\ Len(c.agents) \in Nat BY <1>1
  <2>2. \A i \in 1 .. Len(c.agents) : c.agents[i] \in AgentRecord /\ Updated(c.agents[i]) \in AgentRecord
    BY <1>1, <1>2
  <2> QED BY <2>1, <2>2
<1>5. Updated(c.global) \in AgentRecord \cup {NoAgent} /\ Updated(c.global).id = c.global.id
      /\ (Updated(c.global) = NoAgent <=> c.global = NoAgent)
  BY <1>1, <1>2, <1>3
<1>6. d = [c EXCEPT !.global = Updated(c.global), !.agents = list] BY DEF Reassigned, Updated
<1> HIDE DEF list, d
<1>7. d \in Copy /\ d.providers = c.providers /\ d.global = Updated(c.global) /\ d.agents = list
  BY <1>4, <1>5, <1>6 DEF Copy
<1>8. AgentsFit(d)
  <2>1. Distinct(list)
    <3> SUFFICES ASSUME NEW i \in 1 .. Len(c.agents), NEW j \in 1 .. Len(c.agents),
                        list[i].id = list[j].id
                 PROVE  i = j
      BY <1>4 DEF Distinct
    <3>1. c.agents[i].id = c.agents[j].id BY <1>2, <1>4
    <3> QED BY <3>1 DEF AgentsFit, Distinct
  <2>2. ASSUME NEW b \in Members(list) PROVE b.id # c.global.id
    <3>1. PICK i \in 1 .. Len(c.agents) : b = Updated(c.agents[i]) BY <1>4 DEF Members
    <3>2. c.agents[i] \in Members(c.agents) /\ b.id = c.agents[i].id BY <1>2, <1>4, <3>1 DEF Members
    <3> QED BY <3>2 DEF AgentsFit
  <2>3. c.global = NoAgent => list = <<>> BY <1>4 DEF AgentsFit
  <2> QED BY <1>5, <1>7, <2>1, <2>2, <2>3 DEF AgentsFit
<1>9. ASSUME NEW b \in AgentAll(d)
      PROVE  \E old \in AgentAll(c) : b.id = old.id /\ (b.provider = x \/ b = old)
  <2>1. CASE d.global # NoAgent /\ b = d.global BY <1>1, <1>2, <1>5, <1>7, <2>1 DEF AgentAll
  <2>2. CASE b \in Members(list)
    <3>1. PICK i \in 1 .. Len(c.agents) : b = Updated(c.agents[i]) BY <1>4, <2>2 DEF Members
    <3>2. c.agents[i] \in Members(c.agents) BY <3>1 DEF Members
    <3> QED BY <1>2, <1>4, <3>1, <3>2 DEF AgentAll
  <2> QED BY <1>7, <2>1, <2>2 DEF AgentAll
<1>10. ASSUME NEW old \in AgentAll(c) PROVE \E b \in AgentAll(d) : b.id = old.id
  <2>1. CASE c.global # NoAgent /\ old = c.global BY <1>5, <1>7, <2>1 DEF AgentAll
  <2>2. CASE old \in Members(c.agents)
    <3>1. PICK i \in 1 .. Len(c.agents) : old = c.agents[i] BY <2>2 DEF Members
    <3>2. list[i] \in Members(list) /\ list[i].id = old.id BY <1>2, <1>4, <3>1 DEF Members
    <3> QED BY <1>7, <3>2 DEF AgentAll
  <2> QED BY <2>1, <2>2 DEF AgentAll
<1>11. AgentIds(d) = AgentIds(c) BY <1>9, <1>10 DEF AgentIds
<1> QED BY <1>7, <1>8, <1>9, <1>11 DEF d, Updated

\* AgentDefault: the agent and the global one change places.
LEMMA DefaultFits ==
    ASSUME ConstantsFit, NEW c \in Copy, AgentsFit(c), NEW new \in Members(c.agents)
    PROVE  LET rest == WithoutAgent(c.agents, new.id)
               d == [c EXCEPT !.global = new,
                              !.agents = IF c.global = NoAgent THEN rest
                                         ELSE Append(rest, c.global)]
           IN  d \in Copy /\ d.providers = c.providers /\ AgentsFit(d) /\ AgentAll(d) = AgentAll(c)
<1> DEFINE rest == WithoutAgent(c.agents, new.id)
           longer == Append(rest, c.global)
           d == [c EXCEPT !.global = new,
                          !.agents = IF c.global = NoAgent THEN rest ELSE Append(rest, c.global)]
<1>1. c.agents \in Seq(AgentRecord) /\ c.global \in AgentRecord \cup {NoAgent} BY DEF Copy
<1>2. new \in AgentRecord /\ new # NoAgent
  <2>1. new \in AgentRecord BY <1>1 DEF Members
  <2> QED BY <2>1 DEF AgentRecord, NoAgent, ConstantsFit
<1>3. c.global # NoAgent /\ c.global \in AgentRecord BY <1>1 DEF AgentsFit, Members
<1>4. /\ rest \in Seq(AgentRecord) /\ Members(rest) = {b \in Members(c.agents) : b.id # new.id}
      /\ Distinct(rest)
  BY <1>1, WithoutAgentKeeps DEF AgentsFit
<1> HIDE DEF rest
<1>5. \A b \in Members(rest) : b.id # c.global.id BY <1>4 DEF AgentsFit
<1>6. /\ longer \in Seq(AgentRecord) /\ Members(longer) = Members(rest) \cup {c.global}
      /\ Distinct(longer)
  BY <1>3, <1>4, <1>5, AgentAppendedOnce
<1>7. d = [c EXCEPT !.global = new, !.agents = longer] BY <1>3
<1> HIDE DEF longer, d
<1>8. d \in Copy /\ d.providers = c.providers /\ d.global = new /\ d.agents = longer
  BY <1>2, <1>6, <1>7 DEF Copy
<1>9. AgentsFit(d)
  <2>1. c.global.id # new.id BY DEF AgentsFit
  <2> QED BY <1>2, <1>4, <1>6, <1>8, <2>1 DEF AgentsFit
<1>10. ASSUME NEW b \in Members(c.agents), b.id = new.id PROVE b = new
  <2>1. PICK i, j \in 1 .. Len(c.agents) : b = c.agents[i] /\ new = c.agents[j] BY DEF Members
  <2> QED BY <1>10, <2>1 DEF AgentsFit, Distinct
<1>11. AgentAll(d) = AgentAll(c) BY <1>2, <1>3, <1>4, <1>6, <1>8, <1>10 DEF AgentAll
<1> QED BY <1>8, <1>9, <1>11 DEF d, rest

\* AgentDelete: all but one agent are left, and one of them is the global one.
LEMMA DismissedFits ==
    ASSUME ConstantsFit, NEW c \in Copy, AgentsFit(c), NEW a \in Agent
    PROVE  LET d == Dismissed(c, a)
           IN  /\ d \in Copy /\ d.providers = c.providers /\ d.default = c.default
               /\ AgentsFit(d) /\ AgentAll(d) = {b \in AgentAll(c) : b.id # a}
<1> DEFINE rest == WithoutAgent(c.agents, a)
           d == Dismissed(c, a)
<1>1. c.agents \in Seq(AgentRecord) /\ c.global \in AgentRecord \cup {NoAgent} BY DEF Copy
<1>2. /\ rest \in Seq(AgentRecord) /\ Members(rest) = {b \in Members(c.agents) : b.id # a}
      /\ Distinct(rest)
  BY <1>1, WithoutAgentKeeps DEF AgentsFit
<1>3. d = IF c.global.id # a THEN [c EXCEPT !.agents = rest]
          ELSE IF rest = <<>> THEN [c EXCEPT !.global = NoAgent, !.agents = rest]
          ELSE [c EXCEPT !.global = Head(rest), !.agents = Tail(rest)]
  BY DEF Dismissed
<1>4. NoAgent.id = None /\ NoAgent \notin AgentRecord /\ NoAgent.id # a
  BY DEF NoAgent, AgentRecord, ConstantsFit
<1> HIDE DEF rest, d
<1>5. CASE c.global.id # a
  <2>1. /\ d \in Copy /\ d.providers = c.providers /\ d.default = c.default
        /\ d.global = c.global /\ d.agents = rest
    BY <1>2, <1>3, <1>5 DEF Copy
  <2>2. c.global = NoAgent => rest = <<>>
    <3> SUFFICES ASSUME c.global = NoAgent PROVE rest = <<>> OBVIOUS
    <3>1. Members(c.agents) = {} BY DEF AgentsFit, Members
    <3>2. Members(rest) = {} BY <1>2, <3>1
    <3>3. Len(rest) \in Nat /\ \A i \in 1 .. Len(rest) : rest[i] \in Members(rest) BY <1>2 DEF Members
    <3>4. Len(rest) = 0 BY <3>2, <3>3
    <3> QED BY <1>2, <3>4
  <2>3. AgentsFit(d) BY <1>2, <2>1, <2>2 DEF AgentsFit
  <2>4. AgentAll(d) = {b \in AgentAll(c) : b.id # a} BY <1>2, <1>5, <2>1 DEF AgentAll
  <2> QED BY <2>1, <2>3, <2>4 DEF d
<1>6. CASE c.global.id = a /\ rest = <<>>
  <2>1. /\ d \in Copy /\ d.providers = c.providers /\ d.default = c.default
        /\ d.global = NoAgent /\ d.agents = <<>>
    BY <1>2, <1>3, <1>6 DEF Copy
  <2>2. Members(<<>>) = {} BY DEF Members
  <2>3. AgentsFit(d) BY <2>1, <2>2 DEF AgentsFit, Distinct
  <2>4. AgentAll(d) = {b \in AgentAll(c) : b.id # a} BY <1>2, <1>6, <2>1, <2>2 DEF AgentAll
  <2> QED BY <2>1, <2>3, <2>4 DEF d
<1>7. CASE c.global.id = a /\ rest # <<>>
  <2>1. /\ Head(rest) \in AgentRecord /\ Tail(rest) \in Seq(AgentRecord)
        /\ Len(rest) \in Nat \ {0} /\ Len(Tail(rest)) = Len(rest) - 1 /\ Head(rest) = rest[1]
        /\ \A i \in 1 .. Len(rest) - 1 : Tail(rest)[i] = rest[i + 1]
    BY <1>2, <1>7
  <2>2. /\ d \in Copy /\ d.providers = c.providers /\ d.default = c.default
        /\ d.global = Head(rest) /\ d.agents = Tail(rest)
    BY <1>3, <1>7, <2>1 DEF Copy
  <2>3. Members(rest) = {Head(rest)} \cup Members(Tail(rest))
    <3>1. ASSUME NEW i \in 1 .. Len(rest), i # 1 PROVE rest[i] \in Members(Tail(rest))
      <4>1. i - 1 \in 1 .. Len(rest) - 1 /\ Tail(rest)[i - 1] = rest[i] BY <2>1, <3>1
      <4> QED BY <2>1, <4>1 DEF Members
    <3>2. ASSUME NEW i \in 1 .. Len(rest) - 1 PROVE Tail(rest)[i] \in Members(rest)
      BY <2>1 DEF Members
    <3>3. Head(rest) \in Members(rest) BY <2>1 DEF Members
    <3> QED BY <2>1, <3>1, <3>2, <3>3 DEF Members
  <2>4. Distinct(Tail(rest))
    <3> SUFFICES ASSUME NEW i \in 1 .. Len(rest) - 1, NEW j \in 1 .. Len(rest) - 1,
                        rest[i + 1].id = rest[j + 1].id
                 PROVE  i = j
      BY <2>1 DEF Distinct
    <3>1. i + 1 \in 1 .. Len(rest) /\ j + 1 \in 1 .. Len(rest) BY <2>1
    <3>2. i + 1 = j + 1 BY <1>2, <3>1 DEF Distinct
    <3> QED BY <3>2
  <2>5. ASSUME NEW b \in Members(Tail(rest)) PROVE b.id # Head(rest).id
    <3>1. PICK i \in 1 .. Len(rest) - 1 : b = rest[i + 1] BY <2>1 DEF Members
    <3>2. i + 1 \in 1 .. Len(rest) /\ 1 \in 1 .. Len(rest) /\ i + 1 # 1 BY <2>1
    <3> QED BY <1>2, <2>1, <3>1, <3>2 DEF Distinct
  <2>6. AgentsFit(d) BY <1>4, <2>1, <2>2, <2>4, <2>5 DEF AgentsFit
  <2>7. AgentAll(d) = {b \in AgentAll(c) : b.id # a}
    BY <1>2, <1>4, <1>7, <2>1, <2>2, <2>3 DEF AgentAll
  <2> QED BY <2>2, <2>6, <2>7 DEF d
<1> QED BY <1>5, <1>6, <1>7

-----------------------------------------------------------------------------
(* The invariant *)

\* Migrations: what a process has read of the table stays in it, and whoever is
\* past them has run, or found, all.
MigrateInv ==
    /\ MigratedOnce
    /\ \A p \in Process :
          /\ applied[p] \subseteq versions
          /\ pc[p] \notin {"off", "migrate"} => versions = Migration

\* A default among the providers, if there are any.
Chosen(c) == IF c.providers = <<>> THEN c.default = None ELSE c.default \in Members(c.providers)
Knows(p) == pc[p] \in {"agents", "bots", "ready", "setup", "saving"}

\* However commands overlap: the files and the copies are well formed, a
\* process has chosen a default when it has read the providers, and knows
\* nothing before; a file that is missing holds nothing.
FilesInv ==
    /\ WellFormed(files) /\ (files.providers = <<>> => files.default = None)
    /\ \A p \in Process :
          /\ WellFormed(copy[p])
          /\ IF Knows(p) THEN Chosen(copy[p]) ELSE copy[p] = Empty
    /\ \A f \in File \ present : \A x \in FieldsOf[f] : files[x] = Empty[x]

\* The agents of c have their providers, and the conversations their agents.
Refers(c, providers, used) ==
    /\ \A a \in AgentAll(c) : a.provider \in Members(providers)
    /\ used \subseteq AgentIds(c)

\* Commands that do not overlap: what a process holds is what the files hold,
\* but for an agent that is gone when its conversations are.
AloneFits(p) ==
    /\ missing[p] => pc[p] \notin present
    /\ Knows(p) => copy[p].providers = files.providers
    /\ pc[p] = "agents" => copy[p].global = NoAgent /\ copy[p].agents = <<>>
    /\ pc[p] \in {"bots", "ready", "setup"} =>
          copy[p].global = files.global /\ copy[p].agents = files.agents
    /\ pc[p] = "saving" => Refers(copy[p], files.providers, sessions)

AloneInv ==
    ~together =>
        /\ \A p, q \in Process : p # q => pc[p] = "off" \/ pc[q] = "off"
        /\ Refers(files, files.providers, sessions)
        /\ \A p \in Process : AloneFits(p)

ConfigurationInv == ConfigurationTypes /\ MigrateInv /\ FilesInv /\ AloneInv

\* Nothing is wrong with empty files.
LEMMA EmptyFits == WellFormed(Empty) /\ AgentAll(Empty) = {} /\ Chosen(Empty)
BY DEF WellFormed, Empty, NoAgent, AgentAll, Members, Chosen

\* It holds at first, of a directory an earlier release has left as well.
LEMMA ConfigurationStarts == ASSUME ConstantsFit, Init PROVE ConfigurationInv
<1>1. Empty \in Copy /\ WellFormed(Empty)
  BY EmptyIsCopy DEF WellFormed, Empty, NoAgent
<1>2. versions \subseteq Migration /\ (column => versions = Migration)
  BY DEF Init, Migration, ConstantsFit
<1>3. files \in Copy /\ WellFormed(files) /\ (files.providers = <<>> => files.default = None)
      /\ AgentAll(files) = {} /\ present \subseteq File
      /\ \A f \in File \ present : \A x \in FieldsOf[f] : files[x] = Empty[x]
  <2>1. AgentAll(Empty) = {} BY DEF AgentAll, Empty, Members
  <2>2. CASE present = {} /\ files = Empty BY <1>1, <2>1, <2>2 DEF Empty
  <2>3. ASSUME NEW x \in Provider, present = {"providers"}, files = [Empty EXCEPT !.providers = <<x>>]
        PROVE  /\ files \in Copy /\ WellFormed(files) /\ (files.providers = <<>> => files.default = None)
               /\ AgentAll(files) = {} /\ present \subseteq File
               /\ \A f \in File \ present : \A y \in FieldsOf[f] : files[y] = Empty[y]
    <3>1. <<x>> \in Seq(Provider) OBVIOUS
    <3>2. /\ files = [providers |-> <<x>>, default |-> None, global |-> NoAgent, agents |-> <<>>,
                      bots |-> {}]
          /\ files.providers = <<x>> /\ files.default = None
          /\ files.global = NoAgent /\ files.agents = <<>> /\ files.bots = {}
      BY <2>3 DEF Empty
    <3>3. WellFormed(files) BY <3>2 DEF WellFormed
    <3>4. AgentAll(files) = {} BY <3>2 DEF AgentAll, Members
    <3>5. \A f \in File \ present : \A y \in FieldsOf[f] : files[y] = Empty[y]
      <4>1. \A f \in File \ present : f = "agents" \/ f = "bots" BY <2>3, FileNames
      <4>2. FieldsOf["agents"] = {"global", "agents"} /\ FieldsOf["bots"] = {"bots"} BY DEF FieldsOf
      <4>3. /\ files["global"] = Empty["global"] /\ files["agents"] = Empty["agents"]
            /\ files["bots"] = Empty["bots"]
        BY <3>2 DEF Empty
      <4> QED BY <4>1, <4>2, <4>3
    <3>6. files \in Copy BY <3>1, <3>2 DEF Copy
    <3> QED BY <2>3, <3>2, <3>3, <3>4, <3>5, <3>6, FileNames
  <2> QED BY <2>2, <2>3 DEF Init
<1>4. ConfigurationTypes
  BY <1>1, <1>2, <1>3 DEF Init, ConfigurationTypes, Place
<1>5. MigrateInv
  BY <1>2 DEF Init, MigrateInv, MigratedOnce
<1>6. FilesInv BY <1>1, <1>3 DEF Init, FilesInv, Knows
<1>7. AloneInv
  <2>1. sessions = {} BY DEF Init
  <2> QED BY <1>3, <2>1 DEF Init, AloneInv, AloneFits, Refers, Knows
<1> QED BY <1>4, <1>5, <1>6, <1>7 DEF ConfigurationInv


-----------------------------------------------------------------------------
(* The steps *)

\* A process that ends leaves nothing of its own.
LEMMA ExitFacts ==
    ASSUME ConfigurationTypes, NEW p \in Process, Exit(p)
    PROVE  /\ \A q \in Process :
                 /\ pc'[q] = IF q = p THEN "off" ELSE pc[q]
                 /\ applied'[q] = IF q = p THEN {} ELSE applied[q]
                 /\ missing'[q] = IF q = p THEN FALSE ELSE missing[q]
                 /\ copy'[q] = IF q = p THEN Empty ELSE copy[q]
           /\ pc' \in [Process -> Place] /\ applied' \in [Process -> SUBSET Migration]
           /\ missing' \in [Process -> BOOLEAN] /\ copy' \in [Process -> Copy]
BY EmptyIsCopy DEF ConfigurationTypes, Exit, Goto, Place

\* A step of p keeps the invariant when it leaves it true of p and of the files.
LEMMA StepKeeps ==
    ASSUME ConfigurationInv, NEW p \in Process, pc[p] # "off", UNCHANGED together,
           ConfigurationTypes', MigrateInv',
           \A q \in Process \ {p} :
               pc'[q] = pc[q] /\ missing'[q] = missing[q] /\ copy'[q] = copy[q],
           WellFormed(files'), files'.providers = <<>> => files'.default = None,
           \A f \in File \ present' : \A x \in FieldsOf[f] : files'[x] = Empty[x],
           WellFormed(copy'[p]),
           IF Knows(p)' THEN Chosen(copy'[p]) ELSE copy'[p] = Empty,
           ~together => AloneFits(p)' /\ Refers(files', files'.providers, sessions')
    PROVE  ConfigurationInv'
<1>1. ConfigurationTypes /\ FilesInv /\ AloneInv BY DEF ConfigurationInv
<1>2. FilesInv'
  <2>1. ASSUME NEW q \in Process, q # p
        PROVE  WellFormed(copy'[q]) /\ IF Knows(q)' THEN Chosen(copy'[q]) ELSE copy'[q] = Empty
    <3>1. WellFormed(copy[q]) /\ IF Knows(q) THEN Chosen(copy[q]) ELSE copy[q] = Empty
      BY <1>1 DEF FilesInv
    <3>2. Knows(q)' = Knows(q) BY <2>1 DEF Knows
    <3> QED BY <2>1, <3>1, <3>2
  <2>2. \A q \in Process :
           /\ WellFormed(copy'[q])
           /\ IF Knows(q)' THEN Chosen(copy'[q]) ELSE copy'[q] = Empty
    BY <2>1
  <2> QED BY <2>2 DEF FilesInv, WellFormed, Chosen, Members, Knows
<1>3. AloneInv'
  <2> SUFFICES ASSUME ~together PROVE AloneInv' BY DEF AloneInv
  <2>1. \A q, r \in Process : q # r => pc[q] = "off" \/ pc[r] = "off" BY <1>1 DEF AloneInv
  <2>2. ASSUME NEW q \in Process, q # p PROVE pc'[q] = "off" /\ AloneFits(q)'
    <3>1. pc'[q] = "off" BY <2>1, <2>2
    <3>2. ~missing'[q] BY <2>2, <3>1, FileNames DEF ConfigurationTypes
    <3> QED BY <3>1, <3>2 DEF AloneFits, Knows
  <2>3. \A q, r \in Process : q # r => pc'[q] = "off" \/ pc'[r] = "off" BY <2>2
  <2>4. \A q \in Process : AloneFits(q)' BY <2>2
  <2> QED BY <2>3, <2>4 DEF AloneInv, Refers, AgentAll, AgentIds, Members
<1> QED BY <1>2, <1>3 DEF ConfigurationInv

\* A process that ends leaves the others and the files as they are.
LEMMA ExitKeeps ==
    ASSUME ConfigurationInv, NEW p \in Process, pc[p] # "off",
           Exit(p), UNCHANGED <<together, shared>>
    PROVE  ConfigurationInv'
<1>1. ConfigurationTypes /\ MigrateInv /\ FilesInv /\ AloneInv BY DEF ConfigurationInv
<1>2. /\ \A q \in Process :
            /\ pc'[q] = IF q = p THEN "off" ELSE pc[q]
            /\ applied'[q] = IF q = p THEN {} ELSE applied[q]
            /\ missing'[q] = IF q = p THEN FALSE ELSE missing[q]
            /\ copy'[q] = IF q = p THEN Empty ELSE copy[q]
      /\ pc' \in [Process -> Place] /\ applied' \in [Process -> SUBSET Migration]
      /\ missing' \in [Process -> BOOLEAN] /\ copy' \in [Process -> Copy]
  BY <1>1, ExitFacts
<1>3. UNCHANGED <<together, versions, schema, column, present, files, sessions>>
  BY DEF shared, database
<1>4. ConfigurationTypes' BY <1>1, <1>2, <1>3 DEF ConfigurationTypes, Migration
<1>5. MigrateInv' BY <1>1, <1>2, <1>3 DEF MigrateInv, MigratedOnce, Migration
<1>6. AloneFits(p)' /\ ~Knows(p)' BY <1>2 DEF AloneFits, Knows
<1>7. WellFormed(copy'[p]) /\ copy'[p] = Empty BY <1>2, EmptyFits
<1>8. WellFormed(files) /\ (files.providers = <<>> => files.default = None)
      /\ \A f \in File \ present : \A x \in FieldsOf[f] : files[x] = Empty[x]
  BY <1>1 DEF FilesInv
<1>9. ~together => Refers(files, files.providers, sessions) BY <1>1 DEF AloneInv
<1> QED BY <1>2, <1>3, <1>4, <1>5, <1>6, <1>7, <1>8, <1>9, StepKeeps

\* Writing one file whole leaves the others, and what is missing empty.
LEMMA WritesFits ==
    ASSUME ConfigurationTypes, FilesInv, NEW f \in File, NEW c \in Copy, WellFormed(c),
           f = "providers" => (c.providers = <<>> => c.default = None),
           Writes(f, c)
    PROVE  /\ files' \in Copy /\ present' \subseteq File /\ present' = present \cup {f}
           /\ files'.providers = (IF f = "providers" THEN c.providers ELSE files.providers)
           /\ files'.global = (IF f = "agents" THEN c.global ELSE files.global)
           /\ files'.agents = (IF f = "agents" THEN c.agents ELSE files.agents)
           /\ WellFormed(files') /\ (files'.providers = <<>> => files'.default = None)
           /\ \A g \in File \ present' : \A x \in FieldsOf[g] : files'[x] = Empty[x]
<1>1. files \in Copy /\ WellFormed(files) /\ (files.providers = <<>> => files.default = None)
  BY DEF ConfigurationTypes, FilesInv
<1>2. files' = With(files, f, c) BY DEF Writes
<1>3. /\ files' \in Copy
      /\ files'.providers = (IF f = "providers" THEN c.providers ELSE files.providers)
      /\ files'.default = (IF f = "providers" THEN c.default ELSE files.default)
      /\ files'.global = (IF f = "agents" THEN c.global ELSE files.global)
      /\ files'.agents = (IF f = "agents" THEN c.agents ELSE files.agents)
  BY <1>1, <1>2, WithIsCopy
<1>4. WellFormed(files')
  <2>1. NoneTwice(files.providers) /\ AgentsFit(files) /\ NoneTwice(c.providers) /\ AgentsFit(c)
    BY <1>1, WellFormedParts
  <2>2. NoneTwice(files'.providers) BY <1>3, <2>1
  <2>3. AgentsFit(files') BY <1>3, <2>1 DEF AgentsFit
  <2> QED BY <1>3, <2>2, <2>3, WellFormedParts
<1>5. ASSUME NEW g \in File \ present', NEW x \in FieldsOf[g] PROVE files'[x] = Empty[x]
  <2>1. g \in File \ present /\ g # f BY <1>5 DEF Writes
  <2>2. x \notin FieldsOf[f] /\ x \in {"providers", "default", "global", "agents", "bots"}
    BY <2>1, FileNames DEF FieldsOf
  <2>3. x \in DOMAIN files BY <1>1, <2>2 DEF Copy
  <2>4. files'[x] = files[x] BY <1>2, <2>2, <2>3 DEF With
  <2> QED BY <2>1, <2>4 DEF FilesInv
<1> QED BY <1>1, <1>3, <1>4, <1>5 DEF Writes, ConfigurationTypes

-----------------------------------------------------------------------------
(* The commands *)

Working(p) == pc[p] \in {"ready", "setup", "saving"}

\* What a command may leave in its file.
Result(f, c) ==
    /\ WellFormed(c)
    /\ f = "providers" => (c.providers = <<>> => c.default = None)
    /\ ~together =>
          /\ f = "providers" => \A a \in AgentAll(files) : a.provider \in Members(c.providers)
          /\ f = "agents" => Refers(c, files.providers, sessions)

\* A command writes a file and ends.
Ends(p, f, c) == Writes(f, c) /\ Exit(p) /\ UNCHANGED <<together, database, sessions>>

\* Such a step keeps the invariant, if what it writes is the result of a command.
LEMMA EndsKeeps ==
    ASSUME ConstantsFit, ConfigurationInv, NEW p \in Process, Working(p),
           NEW f \in File, NEW c \in Copy, Result(f, c), Ends(p, f, c)
    PROVE  ConfigurationInv'
<1>1. ConfigurationTypes /\ MigrateInv /\ FilesInv /\ AloneInv BY DEF ConfigurationInv
<1>2. /\ \A q \in Process :
            /\ pc'[q] = IF q = p THEN "off" ELSE pc[q]
            /\ applied'[q] = IF q = p THEN {} ELSE applied[q]
            /\ missing'[q] = IF q = p THEN FALSE ELSE missing[q]
            /\ copy'[q] = IF q = p THEN Empty ELSE copy[q]
      /\ pc' \in [Process -> Place] /\ applied' \in [Process -> SUBSET Migration]
      /\ missing' \in [Process -> BOOLEAN] /\ copy' \in [Process -> Copy]
  BY <1>1, ExitFacts DEF Ends
<1>3. UNCHANGED <<together, versions, schema, column, sessions>> BY DEF Ends, database
<1>4. /\ files' \in Copy /\ present' \subseteq File
      /\ files'.providers = (IF f = "providers" THEN c.providers ELSE files.providers)
      /\ files'.global = (IF f = "agents" THEN c.global ELSE files.global)
      /\ files'.agents = (IF f = "agents" THEN c.agents ELSE files.agents)
      /\ WellFormed(files') /\ (files'.providers = <<>> => files'.default = None)
      /\ \A g \in File \ present' : \A x \in FieldsOf[g] : files'[x] = Empty[x]
  BY <1>1, WritesFits DEF Ends, Result
<1>5. ConfigurationTypes' BY <1>1, <1>2, <1>3, <1>4 DEF ConfigurationTypes, Migration
<1>6. MigrateInv' BY <1>1, <1>2, <1>3 DEF MigrateInv, MigratedOnce, Migration
<1>7. ~together => Refers(files', files'.providers, sessions')
  <2> SUFFICES ASSUME ~together PROVE Refers(files', files'.providers, sessions') OBVIOUS
  <2>1. Refers(files, files.providers, sessions) BY <1>1 DEF AloneInv
  <2>2. CASE f = "agents"
    BY <1>3, <1>4, <2>2 DEF Result, Refers, AgentAll, AgentIds
  <2>3. CASE f # "agents"
    BY <1>3, <1>4, <2>1, <2>3 DEF Result, Refers, AgentAll, AgentIds
  <2> QED BY <2>2, <2>3
<1>8. AloneFits(p)' /\ ~Knows(p)' BY <1>2 DEF AloneFits, Knows
<1>9. pc[p] # "off" BY DEF Working
<1>10. WellFormed(copy'[p]) /\ copy'[p] = Empty BY <1>2, EmptyFits
<1> QED BY <1>2, <1>3, <1>4, <1>5, <1>6, <1>7, <1>8, <1>9, <1>10, StepKeeps

\* What a process at work has of the files is well formed, and what it knows of
\* the files when no other is there.
LEMMA WorkingKnows ==
    ASSUME ConfigurationInv, NEW p \in Process, Working(p)
    PROVE  /\ copy[p] \in Copy /\ WellFormed(copy[p])
           /\ NoneTwice(copy[p].providers) /\ AgentsFit(copy[p])
           /\ Chosen(copy[p])
           /\ ~together => /\ Refers(files, files.providers, sessions)
                           /\ copy[p].providers = files.providers
                           /\ pc[p] # "saving" => AgentAll(copy[p]) = AgentAll(files)
                           /\ pc[p] = "saving" => Refers(copy[p], files.providers, sessions)
<1>1. ConfigurationTypes /\ FilesInv /\ AloneInv BY DEF ConfigurationInv
<1>2. copy[p] \in Copy BY <1>1 DEF ConfigurationTypes
<1>3. Knows(p) BY DEF Knows, Working
<1>4. WellFormed(copy[p]) /\ Chosen(copy[p]) BY <1>1, <1>3 DEF FilesInv
<1>5. NoneTwice(copy[p].providers) /\ AgentsFit(copy[p]) BY <1>2, <1>4, WellFormedParts
<1>6. ASSUME ~together PROVE AloneFits(p) /\ Refers(files, files.providers, sessions)
  BY <1>1, <1>6 DEF AloneInv
<1>7. ASSUME ~together, pc[p] # "saving" PROVE AgentAll(copy[p]) = AgentAll(files)
  <2>1. copy[p].global = files.global /\ copy[p].agents = files.agents
    BY <1>6, <1>7 DEF AloneFits, Working
  <2> QED BY <2>1 DEF AgentAll
<1> QED BY <1>2, <1>3, <1>4, <1>5, <1>6, <1>7 DEF AloneFits

\* A command on the providers.
LEMMA ProviderCommands ==
    ASSUME ConstantsFit, ConfigurationInv, NEW p \in Process, NEW x \in Provider,
           ProviderAdd(p, x) \/ ProviderUpdate(p, x) \/ ProviderDefault(p, x) \/ ProviderDelete(p, x)
    PROVE  Working(p) /\ \E f \in File, c \in Copy : Result(f, c) /\ Ends(p, f, c)
<1> DEFINE c == copy[p]
           Good == Working(p) /\ \E f \in File, d \in Copy : Result(f, d) /\ Ends(p, f, d)
<1>1. Working(p) /\ pc[p] # "saving"
  BY DEF ProviderAdd, ProviderUpdate, ProviderDefault, ProviderDelete, Saves, At, Working
<1>2. /\ c \in Copy /\ WellFormed(c) /\ NoneTwice(c.providers) /\ AgentsFit(c) /\ Chosen(c)
      /\ ~together => /\ \A a \in AgentAll(c) : a.provider \in Members(c.providers)
                      /\ AgentAll(files) = AgentAll(c)
  BY <1>1, WorkingKnows DEF Refers
<1>3. "providers" \in File BY FileNames
<1>4. ASSUME NEW d \in Copy, Saves(p, "providers", d),
             NoneTwice(d.providers), d.global = c.global, d.agents = c.agents,
             d.providers = <<>> => d.default = None,
             ~together => \A a \in AgentAll(c) : a.provider \in Members(d.providers)
      PROVE  Good
  <2>1. AgentsFit(d) BY <1>2, <1>4 DEF AgentsFit
  <2>2. WellFormed(d) BY <1>4, <2>1, WellFormedParts
  <2>3. Result("providers", d) BY <1>2, <1>4, <2>2 DEF Result
  <2>4. Ends(p, "providers", d) BY <1>4 DEF Ends, Saves
  <2> QED BY <1>1, <1>3, <1>4, <2>3, <2>4
<1> HIDE DEF Good
<1>5. ASSUME ProviderAdd(p, x) PROVE Good
  <2> DEFINE d == Provided(c, x)
  <2>1. x \notin Members(c.providers) BY <1>5 DEF ProviderAdd, FreshProvider
  <2>2. c.providers \in Seq(Provider) BY <1>2 DEF Copy
  <2>3. /\ d \in Copy /\ d.providers = Append(c.providers, x)
        /\ d.global = c.global /\ d.agents = c.agents
    BY <1>2, ProvidedFits
  <2>4. NoneTwice(d.providers) /\ Members(d.providers) = Members(c.providers) \cup {x}
    BY <1>2, <2>1, <2>2, <2>3, AppendedOnce
  <2>5. d.providers # <<>> BY <2>4 DEF Members
  <2>6. Saves(p, "providers", d) BY <1>5 DEF ProviderAdd
  <2> HIDE DEF d
  <2> QED BY <1>2, <1>4, <2>3, <2>4, <2>5, <2>6
<1>6. ASSUME ProviderUpdate(p, x) PROVE Good
  <2>1. x \in Members(c.providers) /\ Saves(p, "providers", c) BY <1>6 DEF ProviderUpdate
  <2>2. c.providers # <<>> BY <2>1 DEF Members
  <2> QED BY <1>2, <1>4, <2>1, <2>2
<1>7. ASSUME ProviderDefault(p, x) PROVE Good
  <2> DEFINE d == [c EXCEPT !.default = x]
  <2>1. x \in Members(c.providers) /\ Saves(p, "providers", d) BY <1>7 DEF ProviderDefault
  <2>2. c.providers # <<>> BY <2>1 DEF Members
  <2>3. d \in Copy /\ d.providers = c.providers /\ d.global = c.global /\ d.agents = c.agents
    BY <1>2 DEF Copy
  <2> HIDE DEF d
  <2> QED BY <1>2, <1>4, <2>1, <2>2, <2>3
<1>8. ASSUME ProviderDelete(p, x) PROVE Good
  <2> DEFINE d == Unprovided(c, x)
  <2>1. /\ x \in Members(c.providers) /\ Saves(p, "providers", d)
        /\ \A a \in AgentAll(c) : a.provider # x
    BY <1>8 DEF ProviderDelete
  <2>2. /\ d \in Copy /\ d.global = c.global /\ d.agents = c.agents
        /\ Members(c.providers) \ {x} \subseteq Members(d.providers)
        /\ NoneTwice(c.providers) => NoneTwice(d.providers)
        /\ c.default \in Members(c.providers) /\ d.providers = <<>> => d.default = None
    BY <1>2, <2>1, UnprovidedFits
  <2> HIDE DEF d
  <2>3. c.default \in Members(c.providers) BY <1>2, <2>1 DEF Chosen, Members
  <2> QED BY <1>2, <1>4, <2>1, <2>2, <2>3
<1> QED BY <1>5, <1>6, <1>7, <1>8 DEF Good

\* A command on the agents: the file may have what the process had, with an
\* agent of a provider it knows.
LEMMA AgentCommands ==
    ASSUME ConstantsFit, ConfigurationInv, NEW p \in Process, NEW a, NEW x,
           \/ /\ a \in Agent /\ x \in Provider
              /\ AgentCreate(p, a, x) \/ AgentUpdate(p, a, x) \/ SetupAgent(p, a, x)
           \/ AgentDefault(p, a)
           \/ AgentDeleteSaves(p)
    PROVE  Working(p) /\ \E f \in File, c \in Copy : Result(f, c) /\ Ends(p, f, c)
<1> DEFINE c == copy[p]
           new == [id |-> a, provider |-> x]
           Good == Working(p) /\ \E f \in File, d \in Copy : Result(f, d) /\ Ends(p, f, d)
<1>1. Working(p)
  BY DEF AgentCreate, AgentUpdate, SetupAgent, AgentDefault, AgentDeleteSaves, Saves, At, Working
<1>2. /\ c \in Copy /\ WellFormed(c) /\ NoneTwice(c.providers) /\ AgentsFit(c)
      /\ ~together => /\ Refers(files, files.providers, sessions)
                      /\ c.providers = files.providers
                      /\ pc[p] # "saving" => AgentAll(c) = AgentAll(files)
                      /\ pc[p] = "saving" => Refers(c, files.providers, sessions)
  BY <1>1, WorkingKnows
<1>3. "agents" \in File BY FileNames
<1>4. ASSUME NEW d \in Copy, Ends(p, "agents", d), d.providers = c.providers, AgentsFit(d),
             ~together => Refers(d, c.providers, sessions)
      PROVE  Good
  <2>1. WellFormed(d) BY <1>2, <1>4, WellFormedParts
  <2>2. Result("agents", d) BY <1>2, <1>4, <2>1 DEF Result
  <2> QED BY <1>1, <1>3, <1>4, <2>2
<1> HIDE DEF Good, c
<1>5. ASSUME NEW d, AgentAll(d) = AgentAll(c) \cup {new}, x \in Members(c.providers),
             ~together, pc[p] # "saving"
      PROVE  Refers(d, c.providers, sessions)
  BY <1>2, <1>5 DEF Refers, AgentIds
<1>6. ASSUME a \in Agent, x \in Provider, NEW d, Ends(p, "agents", d), Added(c, new, d), a \notin AgentIds(c),
             x \in Members(c.providers), pc[p] # "saving"
      PROVE  Good
  <2>1. new \in AgentRecord /\ new.id = a BY <1>6 DEF AgentRecord
  <2> HIDE DEF new
  <2>2. d \in Copy /\ d.providers = c.providers /\ AgentsFit(d) /\ AgentAll(d) = AgentAll(c) \cup {new}
    BY <1>2, <1>6, <2>1, AddedFits
  <2> QED BY <1>4, <1>5, <1>6, <2>2
<1>7. ASSUME a \in Agent, x \in Provider, AgentCreate(p, a, x) \/ SetupAgent(p, a, x) PROVE Good
  <2>1. a \notin AgentIds(c) /\ x \in Members(c.providers) /\ pc[p] # "saving"
    BY <1>7 DEF AgentCreate, SetupAgent, FreshAgent, Saves, At, c
  <2>2. \E d : Ends(p, "agents", d) /\ Added(c, new, d)
    BY <1>7 DEF AgentCreate, SetupAgent, Saves, Ends, Added, c
  <2> QED BY <1>6, <1>7, <2>1, <2>2
<1>8. ASSUME a \in Agent, x \in Provider, AgentUpdate(p, a, x) PROVE Good
  <2> DEFINE d == Reassigned(c, a, x)
  <2>1. x \in Members(c.providers) /\ pc[p] # "saving" /\ Ends(p, "agents", d)
    BY <1>8 DEF AgentUpdate, Reassigned, Saves, Ends, At, c
  <2>2. /\ d \in Copy /\ d.providers = c.providers /\ AgentsFit(d) /\ AgentIds(d) = AgentIds(c)
        /\ \A b \in AgentAll(d) : b.provider = x \/ b \in AgentAll(c)
    BY <1>2, <1>8, UpdatedFits
  <2> HIDE DEF d
  <2>3. ~together => Refers(d, c.providers, sessions) BY <1>2, <2>1, <2>2 DEF Refers, AgentIds
  <2> QED BY <1>4, <2>1, <2>2, <2>3
<1>9. ASSUME AgentDefault(p, a) PROVE Good
  <2>1. PICK old \in Members(c.agents) :
          /\ old.id = a
          /\ LET rest == WithoutAgent(c.agents, a)
             IN  Saves(p, "agents",
                    [c EXCEPT !.global = old,
                              !.agents = IF c.global = NoAgent THEN rest
                                         ELSE Append(rest, c.global)])
    BY <1>9 DEF AgentDefault, c
  <2> DEFINE rest == WithoutAgent(c.agents, old.id)
             d == [c EXCEPT !.global = old,
                            !.agents = IF c.global = NoAgent THEN rest
                                       ELSE Append(rest, c.global)]
  <2>2. pc[p] # "saving" /\ Ends(p, "agents", d) BY <2>1 DEF Saves, Ends, At
  <2>3. d \in Copy /\ d.providers = c.providers /\ AgentsFit(d) /\ AgentAll(d) = AgentAll(c)
    BY <1>2, DefaultFits
  <2> HIDE DEF d
  <2>4. ~together => Refers(d, c.providers, sessions) BY <1>2, <2>2, <2>3 DEF Refers, AgentIds
  <2> QED BY <1>4, <2>2, <2>3, <2>4
<1>10. ASSUME AgentDeleteSaves(p) PROVE Good
  <2>1. pc[p] = "saving" /\ Ends(p, "agents", c) BY <1>10 DEF AgentDeleteSaves, Ends, At, c
  <2> QED BY <1>2, <1>4, <2>1
<1> QED BY <1>7, <1>8, <1>9, <1>10 DEF Good

\* A command on the bots, to which nothing refers.
LEMMA BotCommands ==
    ASSUME ConfigurationInv, NEW p \in Process, NEW b \in Bot,
           BotCreate(p, b) \/ BotUpdate(p, b) \/ BotDelete(p, b)
    PROVE  Working(p) /\ \E f \in File, c \in Copy : Result(f, c) /\ Ends(p, f, c)
<1>1. Working(p) BY DEF BotCreate, BotUpdate, BotDelete, Saves, At, Working
<1>2. copy[p] \in Copy /\ NoneTwice(copy[p].providers) /\ AgentsFit(copy[p])
  BY <1>1, WorkingKnows
<1>3. PICK bots \in SUBSET Bot : Saves(p, "bots", [copy[p] EXCEPT !.bots = bots])
  <2>1. copy[p].bots \in SUBSET Bot /\ copy[p] = [copy[p] EXCEPT !.bots = copy[p].bots]
    BY <1>2 DEF Copy
  <2> QED BY <2>1 DEF BotCreate, BotUpdate, BotDelete
<1> DEFINE d == [copy[p] EXCEPT !.bots = bots]
<1>4. /\ d \in Copy /\ d.providers = copy[p].providers /\ d.global = copy[p].global
      /\ d.agents = copy[p].agents
  BY <1>2 DEF Copy
<1>5. Ends(p, "bots", d) BY <1>3 DEF Ends, Saves
<1> HIDE DEF d
<1>6. AgentsFit(d) BY <1>2, <1>4 DEF AgentsFit
<1>7. WellFormed(d) BY <1>2, <1>4, <1>6, WellFormedParts
<1>8. Result("bots", d) BY <1>7 DEF Result
<1> QED BY <1>1, <1>4, <1>5, <1>8, FileNames

\* setupProvider goes on with the provider that it has saved.
LEMMA SetupProviderKeeps ==
    ASSUME ConstantsFit, ConfigurationInv, NEW p \in Process, NEW x \in Provider, SetupProvider(p, x)
    PROVE  ConfigurationInv'
<1> DEFINE c == copy[p]
           d == Provided(copy[p], x)
<1>1. ConfigurationTypes /\ MigrateInv /\ FilesInv /\ AloneInv BY DEF ConfigurationInv
<1>2. pc[p] = "ready" /\ Working(p) BY DEF SetupProvider, At, Working
<1>3. /\ c \in Copy /\ NoneTwice(c.providers) /\ AgentsFit(c) /\ Chosen(c)
      /\ ~together => /\ Refers(files, files.providers, sessions)
                      /\ c.providers = files.providers
                      /\ c.global = files.global /\ c.agents = files.agents
  <2>1. ~together => AloneFits(p) BY <1>1 DEF AloneInv
  <2> QED BY <1>2, <2>1, WorkingKnows DEF AloneFits
<1>4. x \notin Members(c.providers) BY DEF SetupProvider, FreshProvider
<1>5. /\ d \in Copy /\ d.providers = Append(c.providers, x)
      /\ d.default = (IF c.default = None THEN x ELSE c.default)
      /\ d.global = c.global /\ d.agents = c.agents
  BY <1>3, ProvidedFits
<1>6. /\ \A q \in Process :
            /\ pc'[q] = IF q = p THEN "setup" ELSE pc[q]
            /\ missing'[q] = missing[q] /\ applied'[q] = applied[q]
            /\ copy'[q] = IF q = p THEN d ELSE copy[q]
      /\ pc' \in [Process -> Place] /\ copy' \in [Process -> Copy]
      /\ UNCHANGED <<together, versions, schema, column, sessions, applied, missing>>
  BY <1>1, <1>5 DEF SetupProvider, Goto, ConfigurationTypes, Place, database
<1>7. Writes("providers", d) BY <1>6 DEF SetupProvider
<1> HIDE DEF d
<1>8. c.providers \in Seq(Provider) BY <1>3 DEF Copy
<1>9. NoneTwice(d.providers) /\ Members(d.providers) = Members(c.providers) \cup {x}
  BY <1>3, <1>4, <1>5, <1>8, AppendedOnce
<1>10. WellFormed(d) /\ Chosen(d) /\ d.providers # <<>>
  <2>1. AgentsFit(d) BY <1>3, <1>5 DEF AgentsFit
  <2>2. d.providers # <<>> BY <1>9 DEF Members
  <2>3. d.default \in Members(d.providers)
    BY <1>3, <1>5, <1>9 DEF Chosen, Members
  <2> QED BY <1>5, <1>9, <2>1, <2>2, <2>3, WellFormedParts DEF Chosen
<1>11. /\ files' \in Copy /\ present' \subseteq File /\ files'.providers = d.providers
       /\ files'.global = files.global /\ files'.agents = files.agents
       /\ WellFormed(files') /\ (files'.providers = <<>> => files'.default = None)
       /\ \A g \in File \ present' : \A y \in FieldsOf[g] : files'[y] = Empty[y]
  BY <1>1, <1>5, <1>7, <1>10, FileNames, WritesFits
<1>12. ~missing[p] BY <1>1, <1>2, FileNames DEF ConfigurationTypes
<1>13. ConfigurationTypes'
  BY <1>1, <1>2, <1>6, <1>11, <1>12 DEF ConfigurationTypes, Migration
<1>14. MigrateInv' BY <1>1, <1>2, <1>6 DEF MigrateInv, MigratedOnce, Migration
<1>15. ASSUME ~together PROVE AloneFits(p)' /\ Refers(files', files'.providers, sessions')
  <2>1. AloneFits(p)' BY <1>3, <1>5, <1>6, <1>11, <1>12, <1>15 DEF AloneFits, Knows
  <2> QED BY <1>3, <1>6, <1>9, <1>11, <1>15, <2>1 DEF Refers, AgentAll, AgentIds
<1>16. Knows(p)' /\ copy'[p] = d BY <1>6 DEF Knows
<1> QED BY <1>2, <1>6, <1>10, <1>11, <1>13, <1>14, <1>15, <1>16, StepKeeps

\* AgentDelete, of whose agent no conversation is left.
LEMMA AgentDeleteKeeps ==
    ASSUME ConstantsFit, ConfigurationInv, NEW p \in Process, NEW a \in Agent, AgentDelete(p, a)
    PROVE  ConfigurationInv'
<1> DEFINE c == copy[p]
           d == Dismissed(copy[p], a)
<1>1. ConfigurationTypes /\ MigrateInv /\ FilesInv /\ AloneInv BY DEF ConfigurationInv
<1>2. pc[p] = "ready" /\ Working(p) BY DEF AgentDelete, At, Working
<1>3. /\ c \in Copy /\ NoneTwice(c.providers) /\ AgentsFit(c) /\ Chosen(c)
      /\ ~together => /\ Refers(files, files.providers, sessions)
                      /\ c.providers = files.providers
                      /\ AgentAll(c) = AgentAll(files)
  BY <1>2, WorkingKnows
<1>4. /\ d \in Copy /\ d.providers = c.providers /\ d.default = c.default
      /\ AgentsFit(d) /\ AgentAll(d) = {b \in AgentAll(c) : b.id # a}
  BY <1>3, DismissedFits
<1>5. /\ \A q \in Process :
            /\ pc'[q] = IF q = p THEN "saving" ELSE pc[q]
            /\ missing'[q] = missing[q] /\ applied'[q] = applied[q]
            /\ copy'[q] = IF q = p THEN d ELSE copy[q]
      /\ pc' \in [Process -> Place] /\ copy' \in [Process -> Copy]
      /\ UNCHANGED <<together, versions, schema, column, present, files, applied, missing>>
      /\ sessions' = sessions \ {a}
  BY <1>1, <1>4 DEF AgentDelete, Goto, ConfigurationTypes, Place, database
<1> HIDE DEF d
<1>6. WellFormed(d) /\ Chosen(d)
  BY <1>3, <1>4, WellFormedParts DEF Chosen
<1>7. /\ WellFormed(files) /\ (files.providers = <<>> => files.default = None)
      /\ \A g \in File \ present : \A y \in FieldsOf[g] : files[y] = Empty[y]
  BY <1>1 DEF FilesInv
<1>8. ~missing[p] BY <1>1, <1>2, FileNames DEF ConfigurationTypes
<1>9. ConfigurationTypes' BY <1>1, <1>2, <1>5, <1>8 DEF ConfigurationTypes, Migration
<1>10. MigrateInv' BY <1>1, <1>2, <1>5 DEF MigrateInv, MigratedOnce, Migration
<1>11. ASSUME ~together PROVE AloneFits(p)' /\ Refers(files', files'.providers, sessions')
  <2>1. Refers(d, files.providers, sessions') /\ Refers(files, files.providers, sessions')
    BY <1>3, <1>4, <1>5, <1>11 DEF Refers, AgentIds
  <2>2. Refers(copy[p], files.providers, sessions)' BY <1>5, <2>1 DEF Refers, AgentAll, AgentIds, Members
  <2> QED BY <1>3, <1>4, <1>5, <1>8, <1>11, <2>1, <2>2 DEF AloneFits, Knows
<1>12. Knows(p)' /\ copy'[p] = d BY <1>5 DEF Knows
<1> QED BY <1>2, <1>5, <1>6, <1>7, <1>9, <1>10, <1>11, <1>12, StepKeeps

\* A conversation is begun with an agent the process knows.
LEMMA ConverseKeeps ==
    ASSUME ConfigurationInv, NEW p \in Process, NEW a \in Agent, Converse(p, a)
    PROVE  ConfigurationInv'
<1>1. ConfigurationTypes /\ MigrateInv /\ FilesInv /\ AloneInv BY DEF ConfigurationInv
<1>2. pc[p] = "ready" /\ Working(p) BY DEF Converse, At, Working
<1>3. /\ UNCHANGED <<together, versions, schema, column, present, files, pc, applied, missing, copy>>
      /\ sessions' = sessions \cup {a} /\ a \in AgentIds(copy[p])
  BY DEF Converse, database
<1>4. ConfigurationTypes' BY <1>1, <1>3 DEF ConfigurationTypes, Migration
<1>5. MigrateInv' BY <1>1, <1>3 DEF MigrateInv, MigratedOnce, Migration
<1>6. /\ WellFormed(files) /\ (files.providers = <<>> => files.default = None)
      /\ \A g \in File \ present : \A y \in FieldsOf[g] : files[y] = Empty[y]
      /\ WellFormed(copy[p]) /\ IF Knows(p) THEN Chosen(copy[p]) ELSE copy[p] = Empty
  BY <1>1 DEF FilesInv
<1>7. Knows(p)' = Knows(p) BY <1>3 DEF Knows
<1>8. ASSUME ~together PROVE AloneFits(p)' /\ Refers(files', files'.providers, sessions')
  <2>1. AloneFits(p) BY <1>1, <1>8 DEF AloneInv
  <2>2. AgentAll(copy[p]) = AgentAll(files) /\ Refers(files, files.providers, sessions)
    BY <1>2, <1>8, WorkingKnows
  <2> QED BY <1>2, <1>3, <2>1, <2>2 DEF AloneFits, Knows, Refers, AgentIds
<1> QED BY <1>2, <1>3, <1>4, <1>5, <1>6, <1>7, <1>8, StepKeeps

\* Whatever a command does, the invariant holds after it.
LEMMA CommandKeeps ==
    ASSUME ConstantsFit, ConfigurationInv, NEW p \in Process, Command(p)
    PROVE  ConfigurationInv'
<1>1. CASE Working(p) /\ \E f \in File, c \in Copy : Result(f, c) /\ Ends(p, f, c)
  BY <1>1, EndsKeeps
<1>2. ASSUME NEW x \in Provider,
             ProviderAdd(p, x) \/ ProviderUpdate(p, x) \/ ProviderDefault(p, x) \/ ProviderDelete(p, x)
      PROVE  ConfigurationInv'
  BY <1>1, <1>2, ProviderCommands
<1>3. ASSUME NEW a \in Agent, NEW x \in Provider,
             AgentCreate(p, a, x) \/ AgentUpdate(p, a, x) \/ SetupAgent(p, a, x)
      PROVE  ConfigurationInv'
  BY <1>1, <1>3, AgentCommands
<1>4. ASSUME NEW a \in Agent, AgentDefault(p, a) PROVE ConfigurationInv'
  BY <1>1, <1>4, AgentCommands
<1>5. CASE AgentDeleteSaves(p) BY <1>1, <1>5, AgentCommands
<1>6. ASSUME NEW b \in Bot, BotCreate(p, b) \/ BotUpdate(p, b) \/ BotDelete(p, b)
      PROVE  ConfigurationInv'
  BY <1>1, <1>6, BotCommands
<1>7. ASSUME NEW x \in Provider, SetupProvider(p, x) PROVE ConfigurationInv'
  BY <1>7, SetupProviderKeeps
<1>8. ASSUME NEW a \in Agent, AgentDelete(p, a) PROVE ConfigurationInv'
  BY <1>8, AgentDeleteKeeps
<1>9. ASSUME NEW a \in Agent, Converse(p, a) PROVE ConfigurationInv'
  BY <1>9, ConverseKeeps
<1> QED BY <1>2, <1>3, <1>4, <1>5, <1>6, <1>7, <1>8, <1>9 DEF Command

-----------------------------------------------------------------------------
(* bootstrap *)

\* InitDatabase looks at the table of migrations.
LEMMA StartKeeps ==
    ASSUME ConfigurationInv, NEW p \in Process, Start(p) PROVE ConfigurationInv'
<1>1. ConfigurationTypes /\ MigrateInv /\ FilesInv /\ AloneInv BY DEF ConfigurationInv
<1>2. /\ \A q \in Process :
            /\ pc'[q] = IF q = p THEN "migrate" ELSE pc[q]
            /\ applied'[q] = IF q = p THEN versions ELSE applied[q]
      /\ pc' \in [Process -> Place] /\ applied' \in [Process -> SUBSET Migration]
      /\ pc[p] = "off" /\ (together \/ \A q \in Process : pc[q] = "off")
      /\ UNCHANGED <<together, versions, schema, column, present, files, sessions, missing, copy>>
  BY <1>1 DEF Start, At, Goto, ConfigurationTypes, Place, shared, database
<1>3. ConfigurationTypes'
  <2>1. ~missing[p] BY <1>1, <1>2, FileNames DEF ConfigurationTypes
  <2> QED BY <1>1, <1>2, <2>1 DEF ConfigurationTypes, Migration
<1>4. MigrateInv' BY <1>1, <1>2 DEF MigrateInv, MigratedOnce, Migration
<1>5. \A q \in Process : Knows(q)' = Knows(q) BY <1>2 DEF Knows
<1>6. FilesInv' BY <1>1, <1>2, <1>5 DEF FilesInv
<1>7. ASSUME ~together PROVE AloneInv'
  <2>1. Refers(files, files.providers, sessions) BY <1>1, <1>7 DEF AloneInv
  <2>2. \A q, r \in Process : q # r => pc'[q] = "off" \/ pc'[r] = "off" BY <1>2, <1>7
  <2>3. ASSUME NEW q \in Process PROVE AloneFits(q)'
    <3>1. AloneFits(q) BY <1>1, <1>7 DEF AloneInv
    <3>2. CASE q = p
      <4>1. ~missing[p] BY <1>1, <1>2, FileNames DEF ConfigurationTypes
      <4> QED BY <1>2, <3>2, <4>1 DEF AloneFits, Knows
    <3>3. CASE q # p
      <4>1. pc'[q] = "off" /\ ~missing[q] BY <1>1, <1>2, <1>7, <3>3, FileNames DEF ConfigurationTypes
      <4> QED BY <1>2, <4>1 DEF AloneFits, Knows
    <3> QED BY <3>2, <3>3
  <2> QED BY <1>2, <2>1, <2>2, <2>3 DEF AloneInv, Refers, AgentAll, AgentIds, Members
<1>8. together => AloneInv' BY <1>2 DEF AloneInv
<1> QED BY <1>3, <1>4, <1>6, <1>7, <1>8 DEF ConfigurationInv

\* A step on the database by a process that has read no file.
LEMMA DatabaseKeeps ==
    ASSUME ConfigurationInv, NEW p \in Process, pc[p] \in {"migrate", "column", "alter"},
           Goto(p, "column") \/ Goto(p, "alter") \/ Goto(p, "providers"),
           ConfigurationTypes', MigrateInv',
           UNCHANGED <<together, present, files, sessions, missing, copy>>
    PROVE  ConfigurationInv'
<1>1. ConfigurationTypes /\ FilesInv /\ AloneInv BY DEF ConfigurationInv
<1>2. /\ \A q \in Process \ {p} : pc'[q] = pc[q] /\ missing'[q] = missing[q] /\ copy'[q] = copy[q]
      /\ pc'[p] \in {"column", "alter", "providers"} /\ pc[p] # "off"
  BY <1>1 DEF Goto, ConfigurationTypes
<1>3. ~Knows(p) /\ ~Knows(p)' /\ ~missing[p] BY <1>1, <1>2, FileNames DEF Knows, ConfigurationTypes
<1>4. WellFormed(copy[p]) /\ copy[p] = Empty BY <1>1, <1>3 DEF FilesInv
<1>5. /\ WellFormed(files) /\ (files.providers = <<>> => files.default = None)
      /\ \A g \in File \ present : \A y \in FieldsOf[g] : files[y] = Empty[y]
  BY <1>1 DEF FilesInv
<1>6. ~together => AloneFits(p)' /\ Refers(files', files'.providers, sessions')
  BY <1>1, <1>2, <1>3 DEF AloneInv, AloneFits, Knows
<1> QED BY <1>2, <1>3, <1>4, <1>5, <1>6, StepKeeps

\* The transaction runs each migration that has not been run, or none.
LEMMA MigrateKeeps ==
    ASSUME ConfigurationInv, NEW p \in Process, Migrate(p) PROVE ConfigurationInv'
<1> DEFINE todo == Migration \ applied[p]
<1>1. ConfigurationTypes /\ MigrateInv BY DEF ConfigurationInv
<1>2. pc[p] = "migrate" BY DEF Migrate, At
<1>3. ASSUME todo \cap versions = {}, Run(todo), Goto(p, "column"),
             applied' = [applied EXCEPT ![p] = {}],
             UNCHANGED <<together, present, files, sessions, missing, copy>>
      PROVE  ConfigurationInv'
  <2>1. versions' = Migration
    BY <1>1, <1>3 DEF Run, MigrateInv, ConfigurationTypes
  <2>2. \A m \in Migration : schema'[m] = 1
    <3> SUFFICES ASSUME NEW m \in Migration PROVE schema'[m] = 1 OBVIOUS
    <3>1. schema[m] = IF m \in versions THEN 1 ELSE 0 BY <1>1 DEF MigrateInv, MigratedOnce
    <3>2. m \in versions <=> m \notin todo BY <1>1, <1>3 DEF MigrateInv
    <3>3. schema'[m] = schema[m] + (IF m \in todo THEN 1 ELSE 0) BY <1>3 DEF Run
    <3> QED BY <3>1, <3>2, <3>3
  <2>3. column' \in BOOLEAN /\ schema' \in [Migration -> Nat] /\ (column => column')
    BY <1>1, <1>3 DEF Run, ConfigurationTypes
  <2>4. /\ \A q \in Process : pc'[q] = IF q = p THEN "column" ELSE pc[q]
        /\ \A q \in Process : applied'[q] = IF q = p THEN {} ELSE applied[q]
        /\ pc' \in [Process -> Place] /\ applied' \in [Process -> SUBSET Migration]
    BY <1>1, <1>3 DEF Goto, ConfigurationTypes, Place
  <2>5. ~missing[p] BY <1>1, <1>2, FileNames DEF ConfigurationTypes
  <2>6. ConfigurationTypes' BY <1>1, <1>3, <2>1, <2>3, <2>4, <2>5 DEF ConfigurationTypes, Migration
  <2>7. MigrateInv' BY <1>1, <2>1, <2>2, <2>3, <2>4 DEF MigrateInv, MigratedOnce, Migration, ConfigurationTypes
  <2> QED BY <1>2, <1>3, <2>6, <2>7, DatabaseKeeps
<1>4. CASE Exit(p) /\ UNCHANGED <<together, database, present, files, sessions>>
  BY <1>2, <1>4, ExitKeeps DEF shared
<1> QED BY <1>3, <1>4 DEF Migrate

\* ensureTokenUsageCachedTokens goes on with the column it has found, or added.
LEMMA ColumnKeeps ==
    ASSUME ConfigurationInv, NEW p \in Process, LookForColumn(p) \/ AddColumn(p)
    PROVE  ConfigurationInv'
<1>1. ConfigurationTypes /\ MigrateInv BY DEF ConfigurationInv
<1>2. pc[p] \in {"column", "alter"} BY DEF LookForColumn, AddColumn, At
<1>3. ASSUME \/ Goto(p, "alter") /\ UNCHANGED column
             \/ Goto(p, "providers") /\ column',
             column' \in BOOLEAN, column => column',
             UNCHANGED <<together, versions, schema, present, files, sessions, applied, missing, copy>>
      PROVE  ConfigurationInv'
  <2>1. /\ \A q \in Process \ {p} : pc'[q] = pc[q]
        /\ pc'[p] = "alter" \/ (pc'[p] = "providers" /\ column')
        /\ pc' \in [Process -> Place]
    BY <1>1, <1>3, FileNames DEF Goto, ConfigurationTypes, Place
  <2>2. ~missing[p] BY <1>1, <1>2, FileNames DEF ConfigurationTypes
  <2>3. ConfigurationTypes' BY <1>1, <1>3, <2>1, <2>2 DEF ConfigurationTypes, Migration
  <2>4. MigrateInv' BY <1>1, <1>2, <1>3, <2>1 DEF MigrateInv, MigratedOnce, Migration, ConfigurationTypes
  <2> QED BY <1>2, <1>3, <2>3, <2>4, DatabaseKeeps
<1>4. CASE LookForColumn(p) BY <1>1, <1>3, <1>4 DEF LookForColumn, shared, database, ConfigurationTypes
<1>5. ASSUME AddColumn(p), Goto(p, "providers"), UNCHANGED <<applied, missing, copy>>
      PROVE  ConfigurationInv'
  BY <1>1, <1>3, <1>5 DEF AddColumn, ConfigurationTypes
<1>6. ASSUME AddColumn(p), column, Exit(p) PROVE ConfigurationInv'
  <2>1. UNCHANGED <<together, shared>> BY <1>1, <1>6 DEF AddColumn, shared, database, ConfigurationTypes
  <2> QED BY <1>2, <1>6, <2>1, ExitKeeps
<1> QED BY <1>4, <1>5, <1>6 DEF AddColumn

\* A process reads one of the files.
LEMMA LoadsKeeps ==
    ASSUME ConfigurationInv, NEW p \in Process, NEW f \in File, NEW loaded \in Copy,
           loaded.providers = files.providers, loaded.global = files.global,
           loaded.agents = files.agents, f = "providers" => Chosen(loaded),
           Loads(p, f, loaded)
    PROVE  ConfigurationInv'
<1> DEFINE c == copy[p]
           d == With(copy[p], f, loaded)
<1>1. ConfigurationTypes /\ MigrateInv /\ FilesInv /\ AloneInv BY DEF ConfigurationInv
<1>2. c \in Copy /\ files \in Copy /\ pc[p] = f /\ ~missing[p] /\ f # "off"
  BY <1>1, FileNames DEF ConfigurationTypes, Loads, At
<1>3. /\ d \in Copy
      /\ d.providers = (IF f = "providers" THEN files.providers ELSE c.providers)
      /\ d.default = (IF f = "providers" THEN loaded.default ELSE c.default)
      /\ d.global = (IF f = "agents" THEN files.global ELSE c.global)
      /\ d.agents = (IF f = "agents" THEN files.agents ELSE c.agents)
  <2>1. /\ d \in Copy
        /\ d.providers = (IF f = "providers" THEN loaded.providers ELSE c.providers)
        /\ d.default = (IF f = "providers" THEN loaded.default ELSE c.default)
        /\ d.global = (IF f = "agents" THEN loaded.global ELSE c.global)
        /\ d.agents = (IF f = "agents" THEN loaded.agents ELSE c.agents)
    <3>1. d = With(c, f, loaded) /\ c \in Copy BY <1>2
    <3> HIDE DEF c, d
    <3> QED BY <3>1, WithIsCopy
  <2> HIDE DEF d
  <2> QED BY <2>1
<1>4. NoMore[f] = (IF f = "providers" THEN "agents" ELSE IF f = "agents" THEN "bots" ELSE "ready")
  BY FileNames DEF NoMore
<1>5. /\ \A q \in Process :
            /\ pc'[q] = IF q = p THEN NoMore[f] ELSE pc[q]
            /\ copy'[q] = IF q = p THEN d ELSE copy[q]
      /\ pc' \in [Process -> Place] /\ copy' \in [Process -> Copy]
      /\ UNCHANGED <<together, versions, schema, column, present, files, sessions, applied, missing>>
  <2>1. NoMore[f] \in Place BY <1>4, FileNames DEF Place
  <2> QED BY <1>1, <1>3, <2>1 DEF Loads, Goto, ConfigurationTypes, shared, database
<1> HIDE DEF d
<1>6. ConfigurationTypes' BY <1>1, <1>2, <1>5 DEF ConfigurationTypes, Migration
<1>7. MigrateInv'
  <2>1. pc[p] \notin {"off", "migrate", "column", "alter"} BY <1>2, FileNames
  <2>2. versions = Migration /\ column BY <1>1, <2>1 DEF MigrateInv, MigratedOnce
  <2> QED BY <1>1, <1>5, <2>2 DEF MigrateInv, MigratedOnce, Migration
<1>8. /\ WellFormed(files) /\ (files.providers = <<>> => files.default = None) /\ WellFormed(c)
      /\ \A g \in File \ present : \A x \in FieldsOf[g] : files[x] = Empty[x]
      /\ IF Knows(p) THEN Chosen(c) ELSE c = Empty
  BY <1>1 DEF FilesInv
<1>9. WellFormed(d)
  <2>1. NoneTwice(files.providers) /\ AgentsFit(files) /\ NoneTwice(c.providers) /\ AgentsFit(c)
    BY <1>2, <1>8, WellFormedParts
  <2>2. NoneTwice(d.providers) BY <1>3, <2>1
  <2>3. AgentsFit(d) BY <1>3, <2>1 DEF AgentsFit
  <2> QED BY <1>3, <2>2, <2>3, WellFormedParts
<1>10. Chosen(d)
  <2>1. CASE f = "providers" BY <1>3, <2>1 DEF Chosen
  <2>2. CASE f # "providers"
    <3>1. Chosen(c) BY <1>2, <1>8, <2>2, FileNames DEF Knows
    <3> QED BY <1>3, <2>2, <3>1 DEF Chosen
  <2> QED BY <2>1, <2>2
<1>11. Knows(p)' /\ copy'[p] = d BY <1>4, <1>5 DEF Knows
<1>12. ASSUME ~together PROVE AloneFits(p)' /\ Refers(files', files'.providers, sessions')
  <2>1. AloneFits(p) /\ Refers(files, files.providers, sessions) BY <1>1, <1>12 DEF AloneInv
  <2>2. d.providers = files.providers BY <1>2, <1>3, <2>1, FileNames DEF AloneFits, Knows
  <2>3. CASE f = "providers"
    <3>1. c = Empty BY <1>2, <1>8, <2>3 DEF Knows
    <3>2. d.global = NoAgent /\ d.agents = <<>> BY <1>3, <2>3, <3>1 DEF Empty
    <3> QED BY <1>2, <1>4, <1>5, <2>1, <2>2, <2>3, <3>2 DEF AloneFits
  <2>4. CASE f # "providers"
    <3>1. d.global = files.global /\ d.agents = files.agents
      BY <1>2, <1>3, <2>1, <2>4, FileNames DEF AloneFits
    <3> QED BY <1>2, <1>4, <1>5, <2>1, <2>2, <2>4, <3>1 DEF AloneFits
  <2> QED BY <2>3, <2>4
<1> QED BY <1>2, <1>5, <1>6, <1>7, <1>8, <1>9, <1>10, <1>11, <1>12, StepKeeps

\* ProviderInit, AgentInit and BotInit read a file, or look for it in vain.
LEMMA InitsKeep ==
    ASSUME ConstantsFit, ConfigurationInv, NEW p \in Process,
           ProviderInit(p) \/ AgentInit(p) \/ BotInit(p)
    PROVE  ConfigurationInv'
<1>1. files \in Copy /\ (files.providers = <<>> => files.default = None)
  BY DEF ConfigurationInv, ConfigurationTypes, FilesInv
<1>2. ASSUME ProviderInit(p) PROVE ConfigurationInv'
  <2> DEFINE loaded == IF files.default \in Members(files.providers) \/ files.providers = <<>>
                       THEN files ELSE [files EXCEPT !.default = Head(files.providers)]
  <2>1. /\ loaded \in Copy /\ loaded.providers = files.providers
        /\ loaded.global = files.global /\ loaded.agents = files.agents /\ Chosen(loaded)
    <3>1. CASE files.default \in Members(files.providers) \/ files.providers = <<>>
      <4>1. files.default \in Members(files.providers) => files.providers # <<>> BY DEF Members
      <4> QED BY <1>1, <3>1, <4>1 DEF Chosen
    <3>2. CASE files.default \notin Members(files.providers) /\ files.providers # <<>>
      <4> DEFINE first == Head(files.providers)
      <4>1. files.providers \in Seq(Provider) BY <1>1 DEF Copy
      <4>2. Len(files.providers) \in Nat \ {0} /\ first = files.providers[1] /\ first \in Provider
        BY <3>2, <4>1
      <4>3. first \in Members(files.providers) BY <4>2 DEF Members
      <4> HIDE DEF first
      <4>4. loaded = [files EXCEPT !.default = first] BY <3>2 DEF first
      <4> HIDE DEF loaded
      <4>5. /\ loaded \in Copy /\ loaded.providers = files.providers /\ loaded.default = first
            /\ loaded.global = files.global /\ loaded.agents = files.agents
        BY <1>1, <4>2, <4>4 DEF Copy
      <4> QED BY <3>2, <4>3, <4>5 DEF Chosen, loaded
    <3> QED BY <3>1, <3>2
  <2>2. Loads(p, "providers", loaded) BY <1>2 DEF ProviderInit
  <2> HIDE DEF loaded
  <2> QED BY <2>1, <2>2, FileNames, LoadsKeeps
<1>3. CASE AgentInit(p) BY <1>1, <1>3, FileNames, LoadsKeeps DEF AgentInit
<1>4. CASE BotInit(p) BY <1>1, <1>4, FileNames, LoadsKeeps DEF BotInit
<1> QED BY <1>2, <1>3, <1>4

\* A file that is not there is found missing, and written empty.
LEMMA FindMissingKeeps ==
    ASSUME ConfigurationInv, NEW p \in Process, FindMissing(p) PROVE ConfigurationInv'
<1>1. ConfigurationTypes /\ MigrateInv /\ FilesInv /\ AloneInv BY DEF ConfigurationInv
<1>2. /\ pc[p] \in File \ present /\ pc[p] # "off"
      /\ \A q \in Process : missing'[q] = IF q = p THEN TRUE ELSE missing[q]
      /\ missing' \in [Process -> BOOLEAN]
      /\ UNCHANGED <<together, versions, schema, column, present, files, sessions, pc, applied, copy>>
  BY <1>1, FileNames DEF FindMissing, ConfigurationTypes, shared, database
<1>3. ConfigurationTypes' BY <1>1, <1>2 DEF ConfigurationTypes, Migration
<1>4. MigrateInv' BY <1>1, <1>2 DEF MigrateInv, MigratedOnce, Migration
<1>5. Knows(p)' = Knows(p) BY <1>2 DEF Knows
<1>6. /\ WellFormed(files) /\ (files.providers = <<>> => files.default = None)
      /\ \A g \in File \ present : \A y \in FieldsOf[g] : files[y] = Empty[y]
      /\ WellFormed(copy[p]) /\ IF Knows(p) THEN Chosen(copy[p]) ELSE copy[p] = Empty
  BY <1>1 DEF FilesInv
<1>7. ~together => AloneFits(p)' /\ Refers(files', files'.providers, sessions')
  BY <1>1, <1>2, <1>5, FileNames DEF AloneInv, AloneFits
<1> QED BY <1>2, <1>3, <1>4, <1>5, <1>6, <1>7, StepKeeps

\* A file that was not found is written empty, even if another process has written
\* it since.
LEMMA CreateEmptyKeeps ==
    ASSUME ConstantsFit, ConfigurationInv, NEW p \in Process, CreateEmpty(p) PROVE ConfigurationInv'
<1> DEFINE f == pc[p]
           c == copy[p]
<1>1. ConfigurationTypes /\ MigrateInv /\ FilesInv /\ AloneInv BY DEF ConfigurationInv
<1>2. f \in File /\ f # "off" /\ files \in Copy
  BY <1>1, FileNames DEF CreateEmpty, ConfigurationTypes
<1>3. NoMore[f] = (IF f = "providers" THEN "agents" ELSE IF f = "agents" THEN "bots" ELSE "ready")
  BY <1>2, FileNames DEF NoMore
<1>4. /\ \A q \in Process :
            /\ pc'[q] = IF q = p THEN NoMore[f] ELSE pc[q]
            /\ missing'[q] = IF q = p THEN FALSE ELSE missing[q]
      /\ pc' \in [Process -> Place] /\ missing' \in [Process -> BOOLEAN]
      /\ UNCHANGED <<together, versions, schema, column, sessions, applied, copy>>
  <2>1. NoMore[f] \in Place BY <1>2, <1>3, FileNames DEF Place
  <2> QED BY <1>1, <2>1 DEF CreateEmpty, Goto, ConfigurationTypes, database
<1>5. Writes(f, Empty) BY DEF CreateEmpty, Writes
<1>6. WellFormed(Empty) /\ Empty.default = None BY EmptyFits DEF Empty
<1>7. /\ files' \in Copy /\ present' \subseteq File
      /\ files'.providers = (IF f = "providers" THEN Empty.providers ELSE files.providers)
      /\ files'.global = (IF f = "agents" THEN Empty.global ELSE files.global)
      /\ files'.agents = (IF f = "agents" THEN Empty.agents ELSE files.agents)
      /\ WellFormed(files') /\ (files'.providers = <<>> => files'.default = None)
      /\ \A g \in File \ present' : \A x \in FieldsOf[g] : files'[x] = Empty[x]
  BY <1>1, <1>2, <1>5, <1>6, EmptyIsCopy, WritesFits
<1>8. ConfigurationTypes' BY <1>1, <1>2, <1>4, <1>7 DEF ConfigurationTypes, Migration
<1>9. MigrateInv'
  <2>1. f \notin {"off", "migrate", "column", "alter"} BY <1>2, FileNames
  <2>2. versions = Migration /\ column BY <1>1, <2>1 DEF MigrateInv, MigratedOnce
  <2> QED BY <1>1, <1>4, <2>2 DEF MigrateInv, MigratedOnce, Migration
<1>10. WellFormed(c) /\ IF Knows(p) THEN Chosen(c) ELSE c = Empty BY <1>1 DEF FilesInv
<1>11. Knows(p)' /\ Chosen(c)
  BY <1>2, <1>3, <1>4, <1>10, EmptyFits DEF Knows
<1>12. ASSUME ~together PROVE AloneFits(p)' /\ Refers(files', files'.providers, sessions')
  <2>1. AloneFits(p) /\ Refers(files, files.providers, sessions) BY <1>1, <1>12 DEF AloneInv
  <2>2. f \notin present BY <2>1 DEF AloneFits, CreateEmpty
  <2>3. \A x \in FieldsOf[f] : files[x] = Empty[x] BY <1>1, <1>2, <2>2 DEF FilesInv
  <2>4. /\ FieldsOf["providers"] = {"providers", "default"}
        /\ FieldsOf["agents"] = {"global", "agents"}
    BY DEF FieldsOf
  <2>5. /\ f = "providers" => files.providers = Empty.providers
        /\ f = "agents" => files.global = Empty.global /\ files.agents = Empty.agents
    BY <2>3, <2>4
  <2>6. /\ files'.providers = files.providers /\ files'.global = files.global
        /\ files'.agents = files.agents
    BY <1>7, <2>5
  <2>7. Refers(files', files'.providers, sessions')
    BY <1>4, <2>1, <2>6 DEF Refers, AgentIds, AgentAll
  <2>8. Empty.providers = <<>> /\ Empty.global = NoAgent /\ Empty.agents = <<>> BY DEF Empty
  <2>9. CASE f = "providers"
    <3>1. c = Empty BY <1>10, <2>9 DEF Knows
    <3>2. c.providers = files'.providers /\ c.global = NoAgent /\ c.agents = <<>>
      BY <1>7, <2>8, <2>9, <3>1
    <3> QED BY <1>3, <1>4, <2>7, <2>9, <3>2 DEF AloneFits
  <2>10. CASE f # "providers"
    <3>1. c.providers = files'.providers BY <1>2, <2>1, <2>6, <2>10, FileNames DEF AloneFits, Knows
    <3>2. c.global = files'.global /\ c.agents = files'.agents
      BY <1>2, <2>1, <2>5, <2>6, <2>8, <2>10, FileNames DEF AloneFits
    <3> QED BY <1>3, <1>4, <2>7, <2>10, <3>1, <3>2 DEF AloneFits
  <2> QED BY <2>9, <2>10
<1> QED BY <1>2, <1>4, <1>7, <1>8, <1>9, <1>10, <1>11, <1>12, StepKeeps

-----------------------------------------------------------------------------
(* The results *)

\* Every step keeps the invariant.
LEMMA ConfigurationKept ==
    ASSUME ConstantsFit, ConfigurationInv, [Next]_vars PROVE ConfigurationInv'
<1>1. ASSUME NEW p \in Process, Bootstrap(p) PROVE ConfigurationInv'
  BY <1>1, StartKeeps, MigrateKeeps, ColumnKeeps, InitsKeep, FindMissingKeeps, CreateEmptyKeeps
     DEF Bootstrap
<1>2. ASSUME NEW p \in Process, Command(p) PROVE ConfigurationInv' BY <1>2, CommandKeeps
<1>3. ASSUME NEW p \in Process, Dies(p) PROVE ConfigurationInv' BY <1>3, ExitKeeps DEF Dies, At
<1>4. CASE UNCHANGED vars
  <2>1. UNCHANGED <<together, versions, schema, column, present, files, sessions, pc, applied,
                    missing, copy>>
    BY <1>4 DEF vars, shared, database
  <2>2. (ConfigurationTypes /\ MigrateInv)' BY <2>1
          DEF ConfigurationInv, ConfigurationTypes, MigrateInv, MigratedOnce, Migration
  <2>3. FilesInv' BY <2>1 DEF ConfigurationInv, FilesInv, Knows
  <2>4. AloneInv' BY <2>1 DEF ConfigurationInv, AloneInv, AloneFits, Knows
  <2> QED BY <2>2, <2>3, <2>4 DEF ConfigurationInv
<1> QED BY <1>1, <1>2, <1>3, <1>4 DEF Next

\* The whole invariant: who has migrated what, what each file and each copy is like
\* at each place a process can be in, and, when commands do not overlap, what a copy
\* has to do with the files (util/database.go, core/provider.go, core/agent.go).
THEOREM ConfigurationHolds == ASSUME ConstantsFit PROVE Spec => []ConfigurationInv
<1>1. Init => ConfigurationInv BY ConfigurationStarts
<1>2. ConfigurationInv /\ [Next]_vars => ConfigurationInv' BY ConfigurationKept
<1> QED BY <1>1, <1>2, PTL DEF Spec

\* Each migration is run once, and who is past InitDatabase has all of them
\* (util/database.go).
THEOREM MigrationsRunOnce == ASSUME ConstantsFit PROVE Spec => []MigratedOnce
<1>1. ConfigurationInv => MigratedOnce BY DEF ConfigurationInv, MigrateInv
<1> QED BY <1>1, ConfigurationHolds, PTL

\* However commands overlap, no id is twice in a file or in a process, and there
\* is a global agent and a default provider when there is any (core/agent.go).
THEOREM FilesStayWellFormed == ASSUME ConstantsFit PROVE Spec => []FilesWellFormed
<1>1. ConfigurationInv => FilesWellFormed
  BY DEF ConfigurationInv, FilesInv, FilesWellFormed, Knows, Chosen
<1> QED BY <1>1, ConfigurationHolds, PTL

\* Commands that do not overlap leave no reference to what is gone, wherever
\* one of them is killed (ProviderDelete, AgentDelete).
THEOREM ReferencesStay == ASSUME ConstantsFit PROVE Spec => []ReferencesHold
<1>1. ConfigurationInv => ReferencesHold
  BY DEF ConfigurationInv, AloneInv, Refers, ReferencesHold
<1> QED BY <1>1, ConfigurationHolds, PTL

\* The database, the files and the copies of all processes stay of their types
\* (util/database.go, core/provider.go, core/agent.go, core/bot.go).
THEOREM ConfigurationTyped == ASSUME ConstantsFit PROVE Spec => []TypeOK
<1>1. ConfigurationInv => TypeOK
  BY DEF ConfigurationInv, ConfigurationTypes, TypeOK, Place
<1> QED BY <1>1, ConfigurationHolds, PTL

-----------------------------------------------------------------------------
(* The client's preferences *)

\* What a program knows: unless somebody has chosen a setting since the program
\* read the file, or has undone one before, its copy has what was last chosen, but
\* for what it has changed itself; and so has the default while there is no file.
CopyInv ==
    /\ \A p \in Program :
          /\ running[p] = "no" => older[p] = {}
          /\ running[p] = "yes" =>
                \A f \in P!Field \ (undone \cup older[p] \cup changed[p]) : mine[p][f] = wanted[f]
          /\ running[p] = "creating" =>
                \A f \in P!Field \ (undone \cup older[p]) : P!defaultClient[f] = wanted[f]
    /\ kept = P!Missing => \A f \in P!Field \ undone : P!defaultClient[f] = wanted[f]

PreferencesKept == P!PreferencesInv /\ CopyInv

\* Settings field by field.
LEMMA SettingsFields ==
    ASSUME NEW s
    PROVE  s \in P!Settings <=>
              /\ s = [f \in P!Field |-> s[f]]
              /\ s["level"] \in P!Level \cup {"bad"} /\ s["tools"] \in BOOLEAN
              /\ s["server"] \in {"none", "paired"}
BY DEF P!Settings, P!Field

\* What is made of two settings, field by field, is one.
Mixed(mix, s, t, fs) ==
    /\ mix = [f \in P!Field |-> mix[f]]
    /\ \A f \in P!Field : mix[f] = IF f \in fs THEN s[f] ELSE t[f]

\* Settings that take each field from one of two settings are settings.
LEMMA SettingsMixed ==
    ASSUME NEW s \in P!Settings, NEW t \in P!Settings, NEW fs, NEW mix, Mixed(mix, s, t, fs)
    PROVE  mix \in P!Settings
BY SettingsFields DEF P!Field, Mixed

\* The defaults are settings, and no file that is missing or garbled is taken
\* for any.
LEMMA DefaultPreferences ==
    /\ P!defaultClient \in P!Settings /\ P!defaultClient["level"] \in P!Level
    /\ P!Missing \notin P!Settings /\ P!Garbled \notin P!Settings /\ P!Missing # P!Garbled
    /\ \A l \in P!Level : [P!defaultClient EXCEPT !.level = l] \in P!Settings
    /\ \A b \in BOOLEAN : [P!defaultClient EXCEPT !.tools = b] \in P!Settings
BY DEF P!defaultClient, P!Settings, P!Level, P!Missing, P!Garbled

\* A program writes its copy, in which it has changed fs: what is not changed is as
\* it was last chosen, or counts as undone.
LEMMA PreferencesWritten ==
    ASSUME PreferencesKept, NEW p \in Program, running[p] # "no",
           NEW own \in P!Settings, own["level"] \in P!Level,
           NEW fs \in SUBSET P!Field, P!Written(p, own, fs),
           running[p] = "yes" =>
              changed[p] \subseteq fs /\ \A f \in P!Field \ fs : own[f] = mine[p][f],
           running[p] = "creating" =>
              \A f \in P!Field \ fs : own[f] = P!defaultClient[f],
           running' \in [Program -> {"no", "yes", "creating"}], running'[p] # "creating",
           mine' \in [Program -> P!Settings], changed' \in [Program -> SUBSET P!Field],
           running'[p] = "yes" => mine'[p] = own,
           \A q \in Program \ {p} :
              running'[q] = running[q] /\ mine'[q] = mine[q] /\ changed'[q] = changed[q]
    PROVE  PreferencesKept'
<1> USE DEF PreferencesKept, P!PreferencesInv, P!TypeOK
<1>1. /\ kept' = own /\ undone' = (undone \cup older[p]) \ fs
      /\ wanted' = [f \in P!Field |-> IF f \in fs THEN own[f] ELSE wanted[f]]
      /\ older' = [P!Unseen(fs) EXCEPT ![p] = {}]
  BY DEF P!Written
<1>2. /\ wanted' \in P!Settings
      /\ \A f \in P!Field : wanted'[f] = IF f \in fs THEN own[f] ELSE wanted[f]
  <2>1. Mixed(wanted', own, wanted, fs) BY <1>1 DEF Mixed
  <2>2. wanted' \in P!Settings BY <2>1, SettingsMixed
  <2> QED BY <2>1, <2>2 DEF Mixed
<1>3. /\ older' \in [Program -> SUBSET P!Field] /\ older'[p] = {}
      /\ \A q \in Program \ {p} :
            older'[q] = IF running[q] = "no" THEN {} ELSE older[q] \cup fs
  BY <1>1 DEF P!Unseen
<1>4. P!Accepted(own) = own BY DEF P!Accepted
<1>5. \A f \in P!Field \ undone' : own[f] = wanted'[f]
  <2> SUFFICES ASSUME NEW f \in P!Field \ undone', f \notin fs PROVE own[f] = wanted[f]
    BY <1>2
  <2>1. f \notin undone /\ f \notin older[p] BY <1>1
  <2>2. CASE running[p] = "yes" BY <2>1, <2>2 DEF CopyInv
  <2>3. CASE running[p] = "creating" BY <2>1, <2>3 DEF CopyInv
  <2> QED BY <2>2, <2>3
<1>6. P!TypeOK' BY <1>1, <1>2, <1>3
<1>7. P!SettingsKept'
  <2>1. \A f \in P!Field \ undone' : P!Accepted(kept')[f] = wanted'[f] BY <1>1, <1>4, <1>5
  <2>2. \A q \in Program : running'[q] = "yes" => mine'[q].level \in P!Level
    BY DEF P!SettingsKept
  <2> QED BY <2>1, <2>2 DEF P!SettingsKept, P!Accepted
<1>8. CopyInv'
  <2>1. kept' # P!Missing BY <1>1, DefaultPreferences
  <2>2. ASSUME NEW q \in Program
        PROVE  /\ running'[q] = "no" => older'[q] = {}
               /\ running'[q] = "yes" =>
                     \A f \in P!Field \ (undone' \cup older'[q] \cup changed'[q]) :
                        mine'[q][f] = wanted'[f]
               /\ running'[q] = "creating" =>
                     \A f \in P!Field \ (undone' \cup older'[q]) :
                        P!defaultClient[f] = wanted'[f]
    <3>1. CASE q = p BY <1>3, <1>5, <3>1
    <3>2. CASE q # p
      <4>1. older'[q] = IF running[q] = "no" THEN {} ELSE older[q] \cup fs BY <1>3, <3>2
      <4>2. running[q] # "no" => \A f \in P!Field \ (undone' \cup older'[q]) :
               f \notin undone /\ f \notin older[q] /\ wanted'[f] = wanted[f]
        BY <1>1, <1>2, <4>1
      <4> QED BY <3>2, <4>1, <4>2 DEF CopyInv
    <3> QED BY <3>1, <3>2
  <2> QED BY <2>1, <2>2 DEF CopyInv
<1> QED BY <1>6, <1>7, <1>8

\* A command is over once it has written.
LEMMA PreferencesCommand ==
    ASSUME PreferencesKept, NEW p \in Program, NEW new \in P!Settings,
           new["level"] \in P!Level, NEW fs \in SUBSET P!Field, P!Command(p, new, fs)
    PROVE  PreferencesKept'
<1> USE DEF PreferencesKept, P!PreferencesInv, P!TypeOK
<1> DEFINE own == P!Copy(p, new, fs)
<1>1. /\ running[p] = "yes" /\ changed[p] = {} /\ P!Written(p, own, fs)
      /\ running' = [running EXCEPT ![p] = "no"]
      /\ mine' = [mine EXCEPT ![p] = P!defaultClient]
      /\ changed' = [changed EXCEPT ![p] = {}]
  BY DEF P!Command, P!Leave
<1>2. own \in P!Settings /\ \A f \in P!Field : own[f] = IF f \in fs THEN new[f] ELSE mine[p][f]
  <2>1. Mixed(own, new, mine[p], fs) BY DEF P!Copy, Mixed
  <2> HIDE DEF own
  <2>2. own \in P!Settings BY <2>1, SettingsMixed
  <2> QED BY <2>1, <2>2 DEF Mixed
<1>3. own["level"] \in P!Level BY <1>1, <1>2 DEF P!SettingsKept, P!Field
<1> HIDE DEF own
<1> QED BY <1>1, <1>2, <1>3, DefaultPreferences, PreferencesWritten

\* The client's /thinking: the change is kept in the copy when it is not written.
LEMMA PreferencesThinking ==
    ASSUME PreferencesKept, NEW p \in Program, P!Thinking(p) PROVE PreferencesKept'
<1> USE DEF PreferencesKept, P!PreferencesInv, P!TypeOK
<1>1. PICK l \in P!Level :
         LET own == P!Copy(p, [P!defaultClient EXCEPT !.level = l], {"level"})
             fs == changed[p] \cup {"level"}
         IN  \/ P!Written(p, own, fs) /\ P!Stay(p, own, {})
             \/ P!NotWritten /\ P!Stay(p, own, fs)
  BY DEF P!Thinking
<1> DEFINE new == [P!defaultClient EXCEPT !.level = l]
           own == P!Copy(p, new, {"level"})
           fs == changed[p] \cup {"level"}
<1>2. new \in P!Settings /\ new["level"] = l BY DefaultPreferences DEF P!defaultClient
<1>3. running[p] = "yes" /\ fs \in SUBSET P!Field BY DEF P!Thinking, P!Field
<1>4. /\ own \in P!Settings /\ own["level"] = l
      /\ \A f \in P!Field \ {"level"} : own[f] = mine[p][f]
  <2>1. Mixed(own, new, mine[p], {"level"}) BY DEF P!Copy, Mixed
  <2> HIDE DEF own, new
  <2>2. own \in P!Settings BY <1>2, <2>1, SettingsMixed
  <2> QED BY <1>2, <2>1, <2>2 DEF P!Field, Mixed
<1>5. \/ P!Written(p, own, fs) /\ P!Stay(p, own, {})
      \/ P!NotWritten /\ P!Stay(p, own, fs)
  BY <1>1
<1> HIDE DEF new, own
<1>6. CASE P!Written(p, own, fs) /\ P!Stay(p, own, {})
  BY <1>3, <1>4, <1>6, PreferencesWritten DEF P!Stay
<1>7. CASE P!NotWritten /\ P!Stay(p, own, fs)
  <2>1. /\ UNCHANGED <<kept, older, wanted, undone>>
        /\ running' = [running EXCEPT ![p] = "yes"] /\ mine' = [mine EXCEPT ![p] = own]
        /\ changed' = [changed EXCEPT ![p] = fs]
    BY <1>7 DEF P!NotWritten, P!Stay
  <2>2. P!TypeOK' BY <1>3, <1>4, <2>1
  <2>3. P!SettingsKept' BY <1>4, <2>1 DEF P!SettingsKept, P!Accepted
  <2>4. CopyInv'
    <3>1. \A f \in P!Field \ (undone \cup older[p] \cup fs) : own[f] = wanted[f]
      BY <1>3, <1>4 DEF CopyInv
    <3> QED BY <1>3, <2>1, <3>1 DEF CopyInv
  <2> QED BY <2>2, <2>3, <2>4
<1> QED BY <1>5, <1>6, <1>7

\* Every step keeps it.
LEMMA PreferencesStep == ASSUME PreferencesKept, [P!Next]_(P!vars) PROVE PreferencesKept'
<1> USE DEF PreferencesKept, P!PreferencesInv
<1>1. ASSUME NEW p \in Program, P!Start(p) PROVE PreferencesKept'
  <2>1. /\ kept \in P!Settings /\ UNCHANGED <<kept, wanted, undone>>
        /\ running' = [running EXCEPT ![p] = "yes"]
        /\ mine' = [mine EXCEPT ![p] = P!Accepted(kept)]
        /\ changed' = [changed EXCEPT ![p] = {}] /\ older' = [older EXCEPT ![p] = {}]
    BY <1>1 DEF P!Start, P!Stay
  <2>2. P!Accepted(kept) \in P!Settings /\ P!Accepted(kept).level \in P!Level
    BY <2>1, DefaultPreferences DEF P!Accepted, P!Settings
  <2>3. P!TypeOK' BY <2>1, <2>2 DEF P!TypeOK
  <2>4. P!SettingsKept' BY <2>1, <2>2 DEF P!SettingsKept, P!Accepted, P!TypeOK
  <2>5. CopyInv' BY <2>1, DefaultPreferences DEF CopyInv, P!SettingsKept, P!TypeOK
  <2> QED BY <2>3, <2>4, <2>5
<1>2. ASSUME NEW p \in Program, P!StartFirst(p) PROVE PreferencesKept'
  <2>1. /\ kept = P!Missing /\ running[p] = "no" /\ running' = [running EXCEPT ![p] = "creating"]
        /\ UNCHANGED <<mine, changed, kept, older, wanted, undone>>
    BY <1>2 DEF P!StartFirst, P!NotWritten
  <2>2. P!TypeOK' BY <2>1 DEF P!TypeOK
  <2>3. P!SettingsKept' BY <2>1 DEF P!SettingsKept, P!Accepted, P!TypeOK
  <2>4. CopyInv' BY <2>1 DEF CopyInv, P!TypeOK
  <2> QED BY <2>2, <2>3, <2>4
<1>3. ASSUME NEW p \in Program, P!Create(p) PROVE PreferencesKept'
  <2>1. /\ running[p] = "creating" /\ P!Written(p, P!defaultClient, {})
        /\ running' = [running EXCEPT ![p] = "yes"]
        /\ mine' = [mine EXCEPT ![p] = P!defaultClient]
        /\ changed' = [changed EXCEPT ![p] = {}]
    BY <1>3 DEF P!Create, P!Stay
  <2> QED BY <2>1, DefaultPreferences, PreferencesWritten DEF P!TypeOK
<1>4. ASSUME NEW p \in Program, P!Thinking(p) PROVE PreferencesKept' BY <1>4, PreferencesThinking
<1>5. ASSUME NEW p \in Program, P!SetLevel(p) PROVE PreferencesKept'
  <2>1. PICK l \in P!Level : P!Command(p, [P!defaultClient EXCEPT !.level = l], {"level"})
    BY <1>5 DEF P!SetLevel
  <2> DEFINE new == [P!defaultClient EXCEPT !.level = l]
  <2>2. new \in P!Settings /\ new["level"] \in P!Level BY DefaultPreferences DEF P!defaultClient
  <2> HIDE DEF new
  <2> QED BY <2>1, <2>2, PreferencesCommand DEF new, P!Field
<1>6. ASSUME NEW p \in Program, P!Tools(p) PROVE PreferencesKept'
  <2>1. PICK on \in BOOLEAN : P!Command(p, [P!defaultClient EXCEPT !.tools = on], {"tools"})
    BY <1>6 DEF P!Tools
  <2> DEFINE new == [P!defaultClient EXCEPT !.tools = on]
  <2>2. new \in P!Settings /\ new["level"] \in P!Level
    BY DefaultPreferences DEF P!defaultClient
  <2> HIDE DEF new
  <2> QED BY <2>1, <2>2, PreferencesCommand DEF new, P!Field
<1>7. ASSUME NEW p \in Program, P!Pair(p) PROVE PreferencesKept'
  <2> DEFINE new == [P!defaultClient EXCEPT !.server = "paired"]
  <2>1. P!Command(p, new, {"server"}) BY <1>7 DEF P!Pair
  <2>2. new \in P!Settings /\ new["level"] \in P!Level
    BY DefaultPreferences DEF P!defaultClient, P!Settings, P!Level
  <2> HIDE DEF new
  <2> QED BY <2>1, <2>2, PreferencesCommand DEF P!Field
<1>8. ASSUME NEW p \in Program, P!Setup(p) PROVE PreferencesKept'
  <2>1. PICK l \in P!Level, on \in BOOLEAN :
           P!Command(p, [level |-> l, tools |-> on, server |-> "none"], P!Field)
    BY <1>8 DEF P!Setup
  <2> DEFINE new == [level |-> l, tools |-> on, server |-> "none"]
  <2>2. new \in P!Settings /\ new["level"] \in P!Level
    BY DefaultPreferences DEF P!defaultClient, P!Settings, P!Level
  <2> HIDE DEF new
  <2> QED BY <2>1, <2>2, PreferencesCommand DEF new, P!Field
<1>9. ASSUME NEW p \in Program, P!Quit(p) PROVE PreferencesKept'
  <2>1. /\ UNCHANGED <<kept, wanted, undone>> /\ running' = [running EXCEPT ![p] = "no"]
        /\ mine' = [mine EXCEPT ![p] = P!defaultClient]
        /\ changed' = [changed EXCEPT ![p] = {}] /\ older' = [older EXCEPT ![p] = {}]
    BY <1>9 DEF P!Quit, P!Leave
  <2>2. P!TypeOK' BY <2>1, DefaultPreferences DEF P!TypeOK
  <2>3. P!SettingsKept' BY <2>1 DEF P!SettingsKept, P!Accepted, P!TypeOK
  <2>4. CopyInv' BY <2>1 DEF CopyInv, P!TypeOK
  <2> QED BY <2>2, <2>3, <2>4
<1>10. CASE P!EditByHand
  <2>1. PICK s \in {[P!defaultClient EXCEPT !.level = "bad"],
                    [P!defaultClient EXCEPT !.server = "paired"], P!Missing, P!Garbled} :
           /\ kept' = s
           /\ wanted' = IF s \in P!Settings THEN P!Accepted(s) ELSE P!defaultClient
    BY <1>10 DEF P!EditByHand
  <2>2. /\ older' = P!Unseen(P!Field) /\ undone' = {} /\ UNCHANGED <<running, mine, changed>>
    BY <1>10 DEF P!EditByHand
  <2>3. s \in P!Settings \cup {P!Missing, P!Garbled} BY <2>1 DEF P!defaultClient, P!Settings, P!Level
  <2>4. wanted' \in P!Settings BY <2>1, DefaultPreferences DEF P!Accepted, P!Settings
  <2>5. \A p \in Program : older'[p] = IF running[p] = "no" THEN {} ELSE older[p] \cup P!Field
    BY <2>2 DEF P!Unseen
  <2>6. P!TypeOK'
    <3>1. older' \in [Program -> SUBSET P!Field] BY <2>2 DEF P!Unseen, P!TypeOK
    <3> QED BY <2>1, <2>2, <2>3, <2>4, <3>1 DEF P!TypeOK
  <2>7. P!SettingsKept' BY <2>1, <2>2 DEF P!SettingsKept, P!Accepted, P!TypeOK
  <2>8. CopyInv' BY <2>1, <2>2, <2>5, DefaultPreferences DEF CopyInv
  <2> QED BY <2>6, <2>7, <2>8
<1>11. CASE UNCHANGED P!vars
  BY <1>11 DEF P!vars, P!TypeOK, P!SettingsKept, P!Accepted, CopyInv
<1> QED
  BY <1>1, <1>2, <1>3, <1>4, <1>5, <1>6, <1>7, <1>8, <1>9, <1>10, <1>11 DEF P!Next

\* A setting somebody chose is the one the next program starts with, unless one that
\* had read the file before has written its older copy back, for any number of
\* programs (config/client.go).
THEOREM PreferencesStay == P!Spec => []P!PreferencesInv
<1>1. P!Init => PreferencesKept
  <2> SUFFICES ASSUME P!Init PROVE PreferencesKept OBVIOUS
  <2>1. P!TypeOK BY DefaultPreferences DEF P!Init, P!TypeOK
  <2>2. P!SettingsKept BY DefaultPreferences DEF P!Init, P!SettingsKept, P!Accepted
  <2>3. CopyInv BY DefaultPreferences DEF P!Init, CopyInv
  <2> QED BY <2>1, <2>2, <2>3 DEF PreferencesKept, P!PreferencesInv
<1>2. PreferencesKept /\ [P!Next]_(P!vars) => PreferencesKept' BY PreferencesStep
<1>3. PreferencesKept => P!PreferencesInv BY DEF PreferencesKept
<1> QED BY <1>1, <1>2, <1>3, PTL DEF P!Spec

-----------------------------------------------------------------------------
(* The results of a search *)

\* What is assumed of the constants of WebSearch: pages are of results, and a limit
\* is a number.  MCLocal states it as LocalAssumption.
PagesFit == Pages \subseteq Seq({"good", "bad"}) /\ Limits \subseteq Nat

AnyResult == {"good", "bad"}

\* The loop of Collected over the first i results.
Takes(page, limit, list, i) ==
    IF i = 0 THEN <<>>
    ELSE IF Len(list[i - 1]) >= limit \/ page[i] = "bad" THEN list[i - 1]
    ELSE Append(list[i - 1], page[i])

IsTakes(list, page, limit, n) == list = [i \in 0 .. n |-> Takes(page, limit, list, i)]

\* It is defined: a loop over one more begins as that did.
LEMMA TakesEnds ==
    ASSUME NEW page, NEW limit, NEW n \in Nat
    PROVE  \E list : IsTakes(list, page, limit, n)
<1> DEFINE Bad == {m \in Nat : ~\E r : IsTakes(r, page, limit, m)}
<1>1. SUFFICES ASSUME Bad # {} PROVE FALSE OBVIOUS
<1>2. PICK m \in Bad : \A k \in Bad : m <= k BY <1>1, LeastNumber
<1>3. CASE m = 0
  <2> DEFINE r == [j \in 0 .. 0 |-> <<>>]
  <2>1. IsTakes(r, page, limit, 0) BY DEF Takes, IsTakes
  <2> QED BY <1>2, <1>3, <2>1
<1>4. CASE m # 0
  <2>1. m - 1 \in Nat /\ m - 1 \notin Bad BY <1>2, <1>4
  <2>2. PICK r : IsTakes(r, page, limit, m - 1) BY <2>1
  <2> DEFINE q == [i \in 0 .. m |-> IF i = m THEN Takes(page, limit, r, m) ELSE r[i]]
  <2>3. \A i \in 0 .. m : Takes(page, limit, q, i) = Takes(page, limit, r, i)
    <3> SUFFICES ASSUME NEW i \in 0 .. m
                 PROVE  Takes(page, limit, q, i) = Takes(page, limit, r, i)
      OBVIOUS
    <3>1. i = 0 \/ (i - 1 \in 0 .. m /\ i - 1 # m) BY <1>2
    <3>2. i = 0 \/ q[i - 1] = r[i - 1] BY <3>1
    <3> QED BY <3>2 DEF Takes
  <2>4. \A i \in 0 .. m : q[i] = Takes(page, limit, r, i)
    <3> SUFFICES ASSUME NEW i \in 0 .. m, i # m PROVE r[i] = Takes(page, limit, r, i) OBVIOUS
    <3>1. i \in 0 .. m - 1 BY <1>2
    <3> QED BY <2>2, <3>1 DEF IsTakes
  <2>5. q = [i \in 0 .. m |-> Takes(page, limit, q, i)] BY <2>3, <2>4
  <2>6. IsTakes(q, page, limit, m) BY <2>5 DEF IsTakes
  <2> HIDE DEF q
  <2> QED BY <1>2, <2>6
<1> QED BY <1>3, <1>4

\* And so is what it comes to.
LEMMA CollectedIs ==
    ASSUME NEW page \in Seq(AnyResult), NEW limit
    PROVE  \E list : /\ IsTakes(list, page, limit, Len(page))
                     /\ W!Collected(page, limit) = list[Len(page)]
<1> DEFINE it == CHOOSE list : IsTakes(list, page, limit, Len(page))
<1>1. Len(page) \in Nat OBVIOUS
<1>2. \E list : IsTakes(list, page, limit, Len(page)) BY <1>1, TakesEnds
<1>3. IsTakes(it, page, limit, Len(page)) BY <1>2
<1>4. W!Collected(page, limit) = it[Len(page)] BY DEF W!Collected, Takes, IsTakes
<1> QED BY <1>3, <1>4

\* After i results the list has no more than that, nor than the limit, and while it
\* is below the limit it is what any greater limit would have come to.
LEMMA TakesFit ==
    ASSUME NEW page \in Seq(AnyResult), NEW limit \in Nat, NEW list,
           IsTakes(list, page, limit, Len(page))
    PROVE  \A i \in 0 .. Len(page) :
              list[i] \in Seq(AnyResult) /\ Len(list[i]) <= i /\ Len(list[i]) <= limit
<1> DEFINE Fit(i) == list[i] \in Seq(AnyResult) /\ Len(list[i]) <= i /\ Len(list[i]) <= limit
           Bad == {i \in 0 .. Len(page) : ~Fit(i)}
<1>1. SUFFICES ASSUME Bad # {} PROVE FALSE OBVIOUS
<1>2. Len(page) \in Nat /\ Bad \in SUBSET Nat OBVIOUS
<1>3. PICK m \in Bad : \A k \in Bad : m <= k BY <1>1, <1>2, LeastNumber
<1>4. m \in 0 .. Len(page) /\ ~Fit(m) OBVIOUS
<1>5. list[m] = Takes(page, limit, list, m) BY <1>4 DEF IsTakes
<1>6. SUFFICES Fit(m) BY <1>4
<1>7. CASE m = 0
  <2>1. list[m] = <<>> BY <1>5, <1>7 DEF Takes
  <2> QED BY <1>7, <2>1
<1>8. CASE m # 0
  <2>1. m - 1 \in 0 .. Len(page) /\ m - 1 \notin Bad BY <1>2, <1>3, <1>4, <1>8
  <2>2. Fit(m - 1) BY <2>1
  <2>3. page[m] \in AnyResult BY <1>2, <1>4, <1>8
  <2>4. CASE Len(list[m - 1]) >= limit \/ page[m] = "bad"
    <3>1. list[m] = list[m - 1] BY <1>5, <1>8, <2>4 DEF Takes
    <3>2. Len(list[m]) \in Nat /\ m \in Nat BY <1>2, <1>3, <2>2, <3>1
    <3> QED BY <2>2, <3>1, <3>2
  <2>5. CASE ~(Len(list[m - 1]) >= limit \/ page[m] = "bad")
    <3>1. list[m] = Append(list[m - 1], page[m]) BY <1>5, <1>8, <2>5 DEF Takes
    <3>2. Append(list[m - 1], page[m]) \in Seq(AnyResult)
          /\ Len(Append(list[m - 1], page[m])) = Len(list[m - 1]) + 1
      BY <2>2, <2>3
    <3>3. Len(list[m - 1]) \in Nat /\ Len(list[m - 1]) < limit /\ m \in Nat
      BY <1>2, <1>3, <2>2, <2>5
    <3>4. Len(list[m]) <= m /\ Len(list[m]) <= limit BY <2>2, <3>1, <3>2, <3>3
    <3> QED BY <3>1, <3>2, <3>4
  <2> QED BY <2>4, <2>5
<1> QED BY <1>7, <1>8

\* While it is below the limit, it is all that is good so far.
LEMMA TakesAll ==
    ASSUME NEW page \in Seq(AnyResult), NEW limit \in Nat,
           NEW list, IsTakes(list, page, limit, Len(page)),
           NEW all, IsTakes(all, page, Len(page), Len(page))
    PROVE  \A i \in 0 .. Len(page) : Len(list[i]) < limit => list[i] = all[i]
<1> DEFINE Same(i) == Len(list[i]) < limit => list[i] = all[i]
           Bad == {i \in 0 .. Len(page) : ~Same(i)}
<1>1. SUFFICES ASSUME Bad # {} PROVE FALSE OBVIOUS
<1>2. Len(page) \in Nat /\ Bad \in SUBSET Nat OBVIOUS
<1>3. PICK m \in Bad : \A k \in Bad : m <= k BY <1>1, <1>2, LeastNumber
<1>4. m \in 0 .. Len(page) /\ ~Same(m) OBVIOUS
<1>5. /\ list[m] = Takes(page, limit, list, m)
      /\ all[m] = Takes(page, Len(page), all, m)
  BY <1>4 DEF IsTakes
<1>6. SUFFICES Same(m) BY <1>4
<1>7. CASE m = 0
  <2>1. list[m] = <<>> /\ all[m] = <<>> BY <1>5, <1>7 DEF Takes
  <2> QED BY <2>1
<1>8. CASE m # 0
  <2>1. m - 1 \in 0 .. Len(page) /\ m - 1 \notin Bad BY <1>2, <1>3, <1>4, <1>8
  <2>2. Same(m - 1) BY <2>1
  <2>3. list[m - 1] \in Seq(AnyResult) BY <1>2, <2>1, TakesFit
  <2>4. all[m - 1] \in Seq(AnyResult) /\ Len(all[m - 1]) <= m - 1 BY <1>2, <2>1, TakesFit
  <2>5. Len(all[m - 1]) \in Nat /\ ~(Len(all[m - 1]) >= Len(page)) BY <1>2, <1>4, <2>4
  <2>6. all[m] = IF page[m] = "bad" THEN all[m - 1] ELSE Append(all[m - 1], page[m])
    BY <1>5, <1>8, <2>5 DEF Takes
  <2>7. CASE Len(list[m - 1]) >= limit
    <3>1. list[m] = list[m - 1] BY <1>5, <1>8, <2>7 DEF Takes
    <3>2. Len(list[m - 1]) \in Nat BY <2>3
    <3> QED BY <2>7, <3>1, <3>2
  <2>8. CASE ~(Len(list[m - 1]) >= limit)
    <3>1. Len(list[m - 1]) \in Nat BY <2>3
    <3>2. list[m - 1] = all[m - 1] BY <2>2, <2>8, <3>1
    <3>3. list[m] = IF page[m] = "bad" THEN list[m - 1] ELSE Append(list[m - 1], page[m])
      BY <1>5, <1>8, <2>8 DEF Takes
    <3> QED BY <2>6, <3>2, <3>3
  <2> QED BY <2>7, <2>8
<1> QED BY <1>7, <1>8

\* What a parser makes of a page.
LEMMA CollectedFits ==
    ASSUME NEW page \in Seq(AnyResult), NEW limit \in Nat
    PROVE  /\ W!Collected(page, limit) \in Seq(AnyResult)
           /\ Len(W!Collected(page, limit)) <= limit
           /\ Len(W!Collected(page, limit)) < limit => W!Collected(page, limit) = W!Good(page)
           /\ W!Good(page) \in Seq(AnyResult)
<1>1. Len(page) \in Nat /\ Len(page) \in 0 .. Len(page) OBVIOUS
<1>2. PICK list : /\ IsTakes(list, page, limit, Len(page))
                  /\ W!Collected(page, limit) = list[Len(page)]
  BY CollectedIs
<1>3. PICK all : /\ IsTakes(all, page, Len(page), Len(page))
                 /\ W!Collected(page, Len(page)) = all[Len(page)]
  BY CollectedIs
<1>4. list[Len(page)] \in Seq(AnyResult) /\ Len(list[Len(page)]) <= limit
  BY <1>1, <1>2, TakesFit
<1>5. all[Len(page)] \in Seq(AnyResult) BY <1>1, <1>3, TakesFit
<1>6. Len(list[Len(page)]) < limit => list[Len(page)] = all[Len(page)]
  BY <1>1, <1>2, <1>3, TakesAll
<1> QED BY <1>2, <1>3, <1>4, <1>5, <1>6 DEF W!Good

\* The first n of a list.
LEMMA FirstFits ==
    ASSUME NEW list \in Seq(AnyResult), NEW n \in Nat
    PROVE  /\ W!First(n, list) \in Seq(AnyResult) /\ Len(W!First(n, list)) <= n
           /\ Len(W!First(n, list)) < n => W!First(n, list) = list
           /\ Len(list) <= n => W!First(n, list) = list
<1>1. Len(list) \in Nat OBVIOUS
<1>2. CASE Len(list) < n
  <2>1. W!First(n, list) = SubSeq(list, 1, Len(list)) BY <1>2 DEF W!First
  <2>2. SubSeq(list, 1, Len(list)) = list OBVIOUS
  <2> QED BY <1>1, <1>2, <2>1, <2>2
<1>3. CASE ~(Len(list) < n)
  <2>1. W!First(n, list) = SubSeq(list, 1, n) BY <1>3 DEF W!First
  <2>2. SubSeq(list, 1, n) \in Seq(AnyResult) /\ Len(SubSeq(list, 1, n)) = n BY <1>1, <1>3
  <2>3. Len(list) <= n => SubSeq(list, 1, n) = list BY <1>1, <1>3
  <2> QED BY <1>1, <2>1, <2>2, <2>3
<1> QED BY <1>2, <1>3

\* What a search answers with: as many as were asked for, or all that are good.
LEMMA ResultsFit ==
    ASSUME NEW full \in Seq(AnyResult), NEW limit \in Nat, NEW provider,
           NEW page, page = W!Sent(provider, full, limit),
           NEW results, results = W!Results(provider, page, limit)
    PROVE  /\ Len(results) <= limit
           /\ Len(results) < limit => results = W!Good(page)
<1>1. page \in Seq(AnyResult) BY FirstFits DEF W!Sent
<1> DEFINE c == W!Collected(page, limit)
           g == W!Good(page)
<1>2. /\ c \in Seq(AnyResult) /\ Len(c) <= limit
      /\ Len(c) < limit => c = g
      /\ g \in Seq(AnyResult)
  BY <1>1, CollectedFits
<1>3. results = IF provider = "duckduckgo" THEN W!First(limit, c) ELSE W!First(limit, g)
  BY DEF W!Results
<1> HIDE DEF c, g
<1>4. /\ Len(W!First(limit, c)) <= limit
      /\ Len(W!First(limit, c)) < limit => W!First(limit, c) = g
  <2>1. /\ Len(W!First(limit, c)) <= limit
        /\ Len(W!First(limit, c)) < limit => W!First(limit, c) = c
    BY <1>2, FirstFits
  <2> QED BY <1>2, <2>1
<1>5. /\ Len(W!First(limit, g)) <= limit
      /\ Len(W!First(limit, g)) < limit => W!First(limit, g) = g
  BY <1>2, FirstFits
<1> QED BY <1>3, <1>4, <1>5 DEF g

-----------------------------------------------------------------------------
(* web.json and the daemon *)

\* What a load has read the file still offered when it read it, and nothing is
\* garbled until one reads it again.  What a search has copied is valid, since
\* what the daemon has is.
WebKept ==
    /\ W!WebInv
    /\ W!WebValidate(web)
    /\ W!Offers(file) \in offered
    /\ loading \in {"creating", "read"} => ~garbled
    /\ loading = "creating" => buffer = W!defaultWeb
    /\ loading = "read" => W!webAccept(buffer) \in offered
    /\ answer = [s \in Search |-> answer[s]]

\* The defaults of the web search are valid, accepting a configuration keeps it
\* one, and an unreadable file offers the defaults.
LEMMA WebDefaults ==
    /\ W!defaultWeb \in W!Config
    /\ W!WebValidate(W!defaultWeb)
    /\ W!Missing \notin W!Config /\ W!Garbled \notin W!Config
    /\ W!Missing # W!Garbled
    /\ \A c \in W!Config : W!webAccept(c) \in W!Config /\ W!WebValidate(W!webAccept(c))
    /\ \A c \in W!Config : W!Offers(c) = W!webAccept(c)
    /\ W!Offers(W!Missing) = W!defaultWeb /\ W!Offers(W!Garbled) = W!defaultWeb
<1> USE DEF W!Config, W!defaultWeb, W!Missing, W!Garbled, W!WebValidate, W!webAccept, W!Offers
<1>1. W!defaultWeb \in W!Config /\ W!WebValidate(W!defaultWeb) OBVIOUS
<1>2. /\ W!Missing.provider = "missing" /\ W!Garbled.provider = "garbled"
      /\ \A c \in W!Config : c.provider # "missing" /\ c.provider # "garbled"
  OBVIOUS
<1>3. W!Missing # W!Garbled /\ W!Missing \notin W!Config /\ W!Garbled \notin W!Config BY <1>2
<1>4. \A c \in W!Config : W!webAccept(c) \in W!Config /\ W!WebValidate(W!webAccept(c))
  BY <1>1
<1>5. \A c \in W!Config : W!Offers(c) = W!webAccept(c) BY <1>2
<1>6. W!Offers(W!Missing) = W!defaultWeb /\ W!Offers(W!Garbled) = W!defaultWeb OBVIOUS
<1> QED BY <1>1, <1>3, <1>4, <1>5, <1>6

\* At first nothing is being loaded and the file offers what the daemon has.
LEMMA WebBegins == W!Init => WebKept
<1> SUFFICES ASSUME W!Init PROVE WebKept OBVIOUS
<1> USE DEF W!Init
<1>1. W!TypeOK BY WebDefaults DEF W!TypeOK
<1>2. W!SearchesConfigured BY DEF W!SearchesConfigured
<1>3. W!ResultsFill BY DEF W!ResultsFill
<1>4. W!Offers(file) \in offered
  <2>1. W!webAccept(W!defaultWeb) = W!defaultWeb BY WebDefaults DEF W!webAccept
  <2> QED BY <2>1, WebDefaults
<1>5. answer = [s \in Search |-> answer[s]] OBVIOUS
<1> QED BY <1>1, <1>2, <1>3, <1>4, <1>5, WebDefaults DEF WebKept, W!WebInv

\* The file is written only with what is a configuration, or by hand.
LEMMA WebWritten ==
    ASSUME WebKept, NEW f \in W!Config \cup {W!Missing, W!Garbled}, W!Write(f)
    PROVE  /\ file' \in W!Config \cup {W!Missing, W!Garbled}
           /\ W!Offers(file)' \in offered' /\ offered \subseteq offered'
<1>1. file' = f /\ offered' = offered \cup {W!Offers(f)} BY DEF W!Write
<1>2. W!Offers(file)' = W!Offers(f) BY <1>1 DEF W!Offers, W!webAccept, W!WebValidate
<1> QED BY <1>1, <1>2

\* What is neither the daemon's nor a search's step leaves both as they are.
LEMMA WebOutside ==
    ASSUME WebKept,
           file' \in W!Config \cup {W!Missing, W!Garbled},
           editing' \in [WebCommand -> {"no", "creating", "editing"}],
           draft' \in [WebCommand -> W!Config],
           W!Offers(file)' \in offered', offered \subseteq offered',
           UNCHANGED <<W!daemonVars, W!searchVars>>
    PROVE  WebKept'
<1> USE DEF W!daemonVars, W!searchVars
<1>1. W!TypeOK' BY DEF WebKept, W!WebInv, W!TypeOK
<1>2. W!SearchesConfigured' BY DEF WebKept, W!WebInv, W!SearchesConfigured, W!WebValidate
<1>3. W!ResultsFill' BY DEF WebKept, W!WebInv, W!ResultsFill
<1>4. W!WebValidate(web)' BY DEF WebKept, W!WebValidate
<1>5. loading' = "read" => W!webAccept(buffer)' \in offered'
  BY DEF WebKept, W!webAccept, W!WebValidate
<1>6. W!Offers(file)' \in offered' OBVIOUS
<1>7. /\ loading' \in {"creating", "read"} => ~garbled'
      /\ loading' = "creating" => buffer' = W!defaultWeb
      /\ answer' = [s \in Search |-> answer'[s]]
  BY DEF WebKept
<1> QED BY <1>1, <1>2, <1>3, <1>4, <1>5, <1>6, <1>7 DEF WebKept, W!WebInv

\* A command that edits web.json leaves the file offering what is on record.
LEMMA WebCommands ==
    ASSUME WebKept, W!EditByHand \/ \E c \in WebCommand : W!Open(c) \/ W!Create(c) \/ W!Apply(c)
    PROVE  WebKept'
<1> USE DEF W!commandVars
<1>0. /\ file \in W!Config \cup {W!Missing, W!Garbled}
      /\ editing \in [WebCommand -> {"no", "creating", "editing"}]
      /\ draft \in [WebCommand -> W!Config]
      /\ W!Offers(file) \in offered
  BY DEF WebKept, W!WebInv, W!TypeOK
<1>1. CASE W!EditByHand
  <2>1. PICK f \in W!Config \cup {W!Missing, W!Garbled} : W!Write(f) BY <1>1 DEF W!EditByHand
  <2>2. UNCHANGED <<W!commandVars, W!daemonVars, W!searchVars>> BY <1>1 DEF W!EditByHand
  <2> QED BY <1>0, <2>1, <2>2, WebWritten, WebOutside
<1>2. ASSUME NEW c \in WebCommand, W!Open(c) PROVE WebKept'
  <2>1. UNCHANGED <<file, offered, W!daemonVars, W!searchVars>> BY <1>2 DEF W!Open
  <2>2. file # W!Missing => W!webAccept(file) \in W!Config
    <3>1. file # W!Garbled BY <1>2 DEF W!Open
    <3> QED BY <1>0, <3>1, WebDefaults
  <2>3. /\ editing' \in [WebCommand -> {"no", "creating", "editing"}]
        /\ draft' \in [WebCommand -> W!Config]
    BY <1>0, <1>2, <2>2 DEF W!Open
  <2>4. W!Offers(file)' \in offered' BY <1>0, <2>1 DEF W!Offers, W!webAccept, W!WebValidate
  <2> QED BY <1>0, <2>1, <2>3, <2>4, WebOutside
<1>3. ASSUME NEW c \in WebCommand, W!Create(c) PROVE WebKept'
  <2>1. W!Write(W!defaultWeb) /\ UNCHANGED <<W!daemonVars, W!searchVars>> BY <1>3 DEF W!Create
  <2>2. /\ editing' \in [WebCommand -> {"no", "creating", "editing"}]
        /\ draft' \in [WebCommand -> W!Config]
    BY <1>0, <1>3, WebDefaults DEF W!Create
  <2> QED BY <2>1, <2>2, WebDefaults, WebWritten, WebOutside
<1>4. ASSUME NEW c \in WebCommand, W!Apply(c) PROVE WebKept'
  <2>1. PICK new \in W!Config : IF W!WebValidate(new) THEN W!Write(new)
                               ELSE UNCHANGED <<file, webWrites, offered>>
    BY <1>4 DEF W!Apply
  <2>2. /\ editing' \in [WebCommand -> {"no", "creating", "editing"}]
        /\ draft' \in [WebCommand -> W!Config]
    BY <1>0, <1>4, WebDefaults DEF W!Apply
  <2>3. UNCHANGED <<W!daemonVars, W!searchVars>> BY <1>4 DEF W!Apply
  <2>4. CASE W!WebValidate(new)
    <3>1. W!Write(new) BY <2>1, <2>4
    <3> QED BY <2>2, <2>3, <3>1, WebWritten, WebOutside
  <2>5. CASE ~W!WebValidate(new)
    <3>1. UNCHANGED <<file, offered>> BY <2>1, <2>5
    <3>2. W!Offers(file)' \in offered' BY <1>0, <3>1 DEF W!Offers, W!webAccept, W!WebValidate
    <3> QED BY <1>0, <2>2, <2>3, <3>1, <3>2, WebOutside
  <2> QED BY <2>4, <2>5
<1> QED BY <1>1, <1>2, <1>3, <1>4

\* A load gives the daemon what the file offered, or the defaults it has just
\* written.
LEMMA WebLoads ==
    ASSUME WebKept, W!Reload \/ W!ReadFile \/ W!CreateFile \/ W!Loaded
    PROVE  WebKept'
<1> USE DEF W!commandVars, W!searchVars
<1>0. /\ W!TypeOK /\ W!WebValidate(web) /\ W!Offers(file) \in offered
      /\ W!SearchesConfigured /\ W!ResultsFill
      /\ loading \in {"creating", "read"} => ~garbled
      /\ loading = "creating" => buffer = W!defaultWeb
      /\ loading = "read" => W!webAccept(buffer) \in offered
      /\ answer = [s \in Search |-> answer[s]]
  BY DEF WebKept, W!WebInv
<1>1. UNCHANGED <<searching, config, answer, editing, draft>>
  BY DEF W!Reload, W!ReadFile, W!CreateFile, W!Loaded
<1>2. /\ W!ResultsFill' /\ answer' = [s \in Search |-> answer'[s]]
      /\ \A s \in Search : searching'[s] = "asking" => W!WebValidate(config'[s])
  BY <1>0, <1>1 DEF W!ResultsFill, W!SearchesConfigured
<1>3. CASE W!Reload
  <2> USE <1>3 DEF W!Reload
  <2>1. W!TypeOK' BY <1>0, <1>1, WebDefaults DEF W!TypeOK
  <2>2. W!SearchesConfigured' BY <1>2 DEF W!SearchesConfigured, W!WebValidate
  <2>3. W!WebValidate(web)' BY WebDefaults DEF W!WebValidate
  <2>4. W!Offers(file)' \in offered' BY DEF W!Offers, W!webAccept, W!WebValidate
  <2> QED BY <1>2, <2>1, <2>2, <2>3, <2>4 DEF WebKept, W!WebInv
<1>4. CASE W!ReadFile
  <2> USE <1>4 DEF W!ReadFile
  <2>1. W!TypeOK' BY <1>0, <1>1, WebDefaults DEF W!TypeOK
  <2>2. web' = W!defaultWeb /\ web' = web BY <1>0 DEF W!SearchesConfigured
  <2>3. loading' = "no" => garbled' OBVIOUS
  <2>4. W!SearchesConfigured' BY <1>2, <2>2, <2>3 DEF W!SearchesConfigured, W!WebValidate
  <2>5. W!WebValidate(web)' BY <1>0, <2>2 DEF W!WebValidate
  <2>6. W!Offers(file)' \in offered' BY <1>0 DEF W!Offers, W!webAccept, W!WebValidate
  <2>7. loading' = "read" => W!webAccept(buffer)' \in offered'
    <3>1. SUFFICES ASSUME loading' = "read" PROVE W!webAccept(buffer)' \in offered' OBVIOUS
    <3>2. file \in W!Config /\ buffer' = file /\ offered' = offered
      BY <1>0, <3>1 DEF W!TypeOK
    <3>3. W!webAccept(buffer)' = W!webAccept(file) BY <3>2 DEF W!webAccept, W!WebValidate
    <3> QED BY <1>0, <3>2, <3>3, WebDefaults
  <2>8. /\ loading' \in {"creating", "read"} => ~garbled'
        /\ loading' = "creating" => buffer' = W!defaultWeb
    BY <1>0, WebDefaults DEF W!TypeOK
  <2> QED BY <1>2, <2>1, <2>4, <2>5, <2>6, <2>7, <2>8 DEF WebKept, W!WebInv
<1>5. CASE W!CreateFile
  <2> USE <1>5 DEF W!CreateFile
  <2>1. W!Write(W!defaultWeb) OBVIOUS
  <2>2. /\ file' \in W!Config \cup {W!Missing, W!Garbled}
        /\ W!Offers(file)' \in offered' /\ offered \subseteq offered'
    BY <2>1, WebDefaults, WebWritten
  <2>3. W!TypeOK' BY <1>0, <1>1, <2>2 DEF W!TypeOK
  <2>4. W!SearchesConfigured' BY <1>0, <1>2 DEF W!SearchesConfigured, W!WebValidate
  <2>5. W!WebValidate(web)' BY <1>0 DEF W!WebValidate
  <2>6. W!webAccept(buffer)' \in offered'
    <3>1. buffer' = W!defaultWeb BY <1>0
    <3>2. file' = W!defaultWeb BY <2>1 DEF W!Write
    <3>3. W!webAccept(buffer)' = W!webAccept(W!defaultWeb)
      BY <3>1 DEF W!webAccept, W!WebValidate
    <3>4. W!Offers(file)' = W!Offers(W!defaultWeb)
      BY <3>2 DEF W!Offers, W!webAccept, W!WebValidate
    <3> QED BY <2>2, <3>3, <3>4, WebDefaults
  <2>7. loading' = "read" /\ ~garbled' BY <1>0
  <2> QED BY <1>2, <2>2, <2>3, <2>4, <2>5, <2>6, <2>7 DEF WebKept, W!WebInv
<1>6. CASE W!Loaded
  <2> USE <1>6 DEF W!Loaded
  <2>1. buffer \in W!Config /\ web' = W!webAccept(buffer) BY <1>0 DEF W!TypeOK
  <2>2. W!TypeOK' BY <1>0, <1>1, <2>1, WebDefaults DEF W!TypeOK
  <2>3. web' \in offered' BY <1>0
  <2>4. W!SearchesConfigured' BY <1>0, <1>2, <2>3 DEF W!SearchesConfigured, W!WebValidate
  <2>5. W!WebValidate(web') BY <2>1, WebDefaults
  <2>6. W!WebValidate(web)' BY <2>5 DEF W!WebValidate
  <2>7. W!Offers(file)' \in offered' BY <1>0 DEF W!Offers, W!webAccept, W!WebValidate
  <2> QED BY <1>2, <2>2, <2>4, <2>6, <2>7 DEF WebKept, W!WebInv
<1> QED BY <1>3, <1>4, <1>5, <1>6

\* A search copies what is valid and is answered within its limits.
LEMMA WebSearches ==
    ASSUME PagesFit, WebKept, NEW s \in Search, W!Ask(s) \/ W!Answer(s)
    PROVE  WebKept'
<1> USE DEF W!commandVars, W!daemonVars
<1>0. /\ W!TypeOK /\ W!WebValidate(web) /\ W!Offers(file) \in offered
      /\ W!SearchesConfigured /\ W!ResultsFill
      /\ loading \in {"creating", "read"} => ~garbled
      /\ loading = "creating" => buffer = W!defaultWeb
      /\ loading = "read" => W!webAccept(buffer) \in offered
      /\ answer = [t \in Search |-> answer[t]]
  BY DEF WebKept, W!WebInv
<1>1. UNCHANGED <<file, offered, editing, draft, up, loading, buffer, web, garbled>>
  BY DEF W!Ask, W!Answer
<1>2. /\ W!WebValidate(web)' /\ W!Offers(file)' \in offered'
      /\ loading' \in {"creating", "read"} => ~garbled'
      /\ loading' = "creating" => buffer' = W!defaultWeb
      /\ loading' = "read" => W!webAccept(buffer)' \in offered'
  BY <1>0, <1>1 DEF W!Offers, W!webAccept, W!WebValidate
<1>3. IF loading' # "no" \/ garbled' THEN web' = W!defaultWeb ELSE web' \in offered'
  BY <1>0, <1>1 DEF W!SearchesConfigured
<1>4. CASE W!Ask(s)
  <2> USE <1>4 DEF W!Ask
  <2>1. W!TypeOK' BY <1>0, <1>1 DEF W!TypeOK
  <2>2. \A t \in Search : searching'[t] = "asking" => W!WebValidate(config'[t])
    BY <1>0 DEF W!TypeOK, W!SearchesConfigured
  <2>3. W!SearchesConfigured' BY <1>3, <2>2 DEF W!SearchesConfigured
  <2>4. W!ResultsFill' BY <1>0 DEF W!TypeOK, W!ResultsFill
  <2> QED BY <1>0, <1>2, <2>1, <2>3, <2>4 DEF WebKept, W!WebInv
<1>5. CASE W!Answer(s)
  <2> USE <1>5 DEF W!Answer
  <2>1. W!TypeOK' BY <1>0, <1>1, WebDefaults DEF W!TypeOK
  <2>2. \A t \in Search : searching'[t] = "asking" => t # s /\ searching[t] = "asking"
    BY <1>0 DEF W!TypeOK
  <2>3. \A t \in Search : searching'[t] = "asking" => W!WebValidate(config'[t])
    BY <1>0, <2>2 DEF W!TypeOK, W!SearchesConfigured
  <2>4. W!SearchesConfigured' BY <1>3, <2>3 DEF W!SearchesConfigured
  <2>5. PICK full \in Pages, limit \in Limits :
          LET page == W!Sent(config[s].provider, full, limit)
              results == W!Results(config[s].provider, page, limit)
          IN  IF results = <<>>
              THEN searching' = [searching EXCEPT ![s] = "failed"] /\ UNCHANGED answer
              ELSE /\ searching' = [searching EXCEPT ![s] = "answered"]
                   /\ answer' = [answer EXCEPT ![s] =
                                    [page |-> page, limit |-> limit, results |-> results]]
    OBVIOUS
  <2> DEFINE page == W!Sent(config[s].provider, full, limit)
             results == W!Results(config[s].provider, page, limit)
             held == [page |-> page, limit |-> limit, results |-> results]
  <2>6. full \in Seq(AnyResult) /\ limit \in Nat BY DEF PagesFit, AnyResult
  <2>7. Len(results) <= limit /\ (Len(results) < limit => results = W!Good(page))
    BY <2>6, ResultsFit
  <2>8. held.page = page /\ held.limit = limit /\ held.results = results OBVIOUS
  <2>9. IF results = <<>>
        THEN searching' = [searching EXCEPT ![s] = "failed"] /\ UNCHANGED answer
        ELSE /\ searching' = [searching EXCEPT ![s] = "answered"]
             /\ answer' = [answer EXCEPT ![s] = held]
    BY <2>5
  <2> HIDE DEF page, results, held
  <2>10. CASE results = <<>>
    <3>1. answer' = answer /\ searching' = [searching EXCEPT ![s] = "failed"] BY <2>9, <2>10
    <3>2. W!ResultsFill' BY <1>0, <3>1 DEF W!TypeOK, W!ResultsFill
    <3> QED BY <1>0, <1>2, <2>1, <2>4, <3>1, <3>2 DEF WebKept, W!WebInv
  <2>11. CASE results # <<>>
    <3>1. /\ answer' = [answer EXCEPT ![s] = held]
          /\ searching' = [searching EXCEPT ![s] = "answered"]
      BY <2>9, <2>11
    <3>2. answer'[s] = held /\ \A t \in Search : t # s => answer'[t] = answer[t]
      BY <1>0, <3>1
    <3>3. /\ answer'[s].results # <<>> /\ Len(answer'[s].results) <= answer'[s].limit
          /\ Len(answer'[s].results) < answer'[s].limit
                => answer'[s].results = W!Good(answer'[s].page)
      BY <2>7, <2>8, <2>11, <3>2
    <3>4. \A t \in Search : t # s => searching'[t] = searching[t] BY <1>0, <3>1 DEF W!TypeOK
    <3>5. W!ResultsFill' BY <1>0, <3>2, <3>3, <3>4 DEF W!ResultsFill
    <3>6. answer' = [t \in Search |-> answer'[t]] BY <1>0, <3>1
    <3> QED BY <1>2, <2>1, <2>4, <3>5, <3>6 DEF WebKept, W!WebInv
  <2> QED BY <2>10, <2>11
<1> QED BY <1>4, <1>5

\* Every step keeps the daemon and its searches valid.
LEMMA WebStep == PagesFit /\ WebKept /\ [W!Next]_(W!vars) => WebKept'
<1> SUFFICES ASSUME PagesFit, WebKept, [W!Next]_(W!vars) PROVE WebKept' OBVIOUS
<1>1. CASE W!Next BY <1>1, WebCommands, WebLoads, WebSearches DEF W!Next
<1>2. CASE UNCHANGED W!vars
  <2>1. UNCHANGED <<file, offered, editing, draft, W!daemonVars, W!searchVars>>
    BY <1>2 DEF W!vars, W!daemonVars, W!searchVars
  <2>2. W!Offers(file)' \in offered'
    BY <2>1 DEF WebKept, W!Offers, W!webAccept, W!WebValidate
  <2> QED BY <2>1, <2>2, WebOutside DEF WebKept, W!WebInv, W!TypeOK
<1> QED BY <1>1, <1>2

(***************************************************************************)
(* For any number of commands that edit web.json while the daemon loads it *)
(* and calls search, a search asks with a configuration some provider can  *)
(* work with, the daemon has one the file offered since the load began,    *)
(* and an answer holds what was asked for, or all that is good of the page *)
(* (modules/webconf.go, modules/web.go).                                   *)
(***************************************************************************)
THEOREM SearchesStayConfigured ==
    ASSUME PagesFit PROVE W!Spec => []W!WebInv
<1>1. WebKept => W!WebInv BY DEF WebKept
<1>2. WebKept /\ [W!Next]_(W!vars) => WebKept' BY WebStep
<1> QED BY WebBegins, <1>1, <1>2, PTL DEF W!Spec

=============================================================================
