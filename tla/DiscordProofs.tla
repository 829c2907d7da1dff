---------------------------- MODULE DiscordProofs ----------------------------
(***************************************************************************)
(* Proofs about a Discord bot: the turns of its channels (DiscordTurns),   *)
(* the card it asks with (DiscordApproval), its users (DiscordUsers), and  *)
(* the three in one behaviour (MCDiscord).  They hold for any number of    *)
(* deliveries, channels, agents and commands, any size of the set of       *)
(* messages seen, any number of requests, presses, users and codes, and    *)
(* whoever owns a request.  They use no fairness.                          *)
(***************************************************************************)
EXTENDS MCDiscord, TLAPS

-----------------------------------------------------------------------------
(* The turns: types *)

Row == [agent : Agent, external : Channel \cup {None}]
Unqueued == {"new", "refused", "duplicate", "placing"}
Place == Unqueued \cup {"waiting", "closing", "forgetting", "gone"} \cup Running

\* As much of the types as the proofs need.
TurnTypes ==
    /\ pc \in [Delivery -> Place]
    /\ at \in [Delivery -> Channel \cup {None}]
    /\ turns \in [Channel -> Delivery \cup {None}]
    /\ previous \in [Delivery -> Delivery \cup {None}]
    /\ queued \in [Channel -> Seq(Delivery)]
    /\ closed \subseteq Delivery
    /\ stopped \in BOOLEAN
    /\ rows \in Seq(Row)
    /\ target \in [Delivery \cup Command -> Agent]
    /\ session \in [Delivery -> Nat]

-----------------------------------------------------------------------------
(* Operators *)

\* SessionAttach adds a row at the end for the channel, and lets the others go.
LEMMA AttachedRows ==
    ASSUME rows \in Seq(Row), NEW c \in Channel \cup {None}, NEW a \in Agent,
           SessionAttach(c, a)
    PROVE  /\ rows' \in Seq(Row)
           /\ Len(rows') = Len(rows) + 1
           /\ rows'[Len(rows) + 1].external = c
           /\ \A i \in 1 .. Len(rows) :
                 rows'[i].external = IF rows[i].external = c THEN None ELSE rows[i].external
<1> DEFINE let == [i \in DOMAIN rows |->
                     IF rows[i].external = c
                     THEN [rows[i] EXCEPT !.external = None] ELSE rows[i]]
           new == [agent |-> a, external |-> c]
<1>1. Len(rows) \in Nat /\ DOMAIN rows = 1 .. Len(rows) OBVIOUS
<1>2. \A i \in 1 .. Len(rows) : rows[i] \in Row BY <1>1
<1>3. \A i \in 1 .. Len(rows) :
         /\ let[i] \in Row
         /\ let[i].external = IF rows[i].external = c THEN None ELSE rows[i].external
  BY <1>1, <1>2 DEF Row
<1>4. let \in [1 .. Len(rows) -> Row] BY <1>1, <1>3
<1>5. let \in Seq(Row) /\ Len(let) = Len(rows) BY <1>1, <1>4
<1>6. new \in Row /\ new.external = c BY DEF Row
<1>7. rows' = Append(let, new) BY DEF SessionAttach
<1> HIDE DEF let, new
<1>8. /\ Append(let, new) \in Seq(Row) /\ Len(Append(let, new)) = Len(rows) + 1
      /\ Append(let, new)[Len(rows) + 1] = new
      /\ \A i \in 1 .. Len(rows) : Append(let, new)[i] = let[i]
  BY <1>1, <1>5, <1>6
<1> QED BY <1>3, <1>6, <1>7, <1>8

\* Every step keeps the types.
LEMMA TurnTypesStep == ASSUME TurnTypes, [Next]_vars PROVE TurnTypes'
<1> USE DEF TurnTypes, Place, Unqueued, Running, Goto
<1>1. CASE Stop BY <1>1 DEF Stop, gatewayVars, boundVars
<1>2. ASSUME NEW d \in Delivery, NEW m \in Message, Hear(d, m) PROVE TurnTypes'
  BY <1>2 DEF Hear, chainVars, boundVars
<1>3. ASSUME NEW d \in Delivery, NEW c \in Channel, QueueTurn(d, c) PROVE TurnTypes'
  <2>1. Append(queued[c], d) \in Seq(Delivery) OBVIOUS
  <2>2. queued' \in [Channel -> Seq(Delivery)] BY <1>3, <2>1 DEF QueueTurn
  <2> QED BY <1>3, <2>2 DEF QueueTurn, boundVars
<1>4. ASSUME NEW d \in Delivery, Start(d) \/ GiveUp(d) \/ Return(d) PROVE TurnTypes'
  BY <1>4 DEF Start, GiveUp, Return, chainVars, boundVars
<1>5. ASSUME NEW d \in Delivery, CloseCurrent(d) \/ Forget(d) PROVE TurnTypes'
  BY <1>5 DEF CloseCurrent, Forget, boundVars
<1>6. ASSUME NEW d \in Delivery, LookUp(d) PROVE TurnTypes'
  BY <1>6 DEF LookUp, chainVars, boundVars
<1>7. ASSUME NEW d \in Delivery, Bind(d) PROVE TurnTypes'
  <2>1. \A i \in Bound(at[d]) : i \in Nat BY DEF Bound
  <2>2. session' \in [Delivery -> Nat] BY <1>7, <2>1 DEF Bind
  <2> QED BY <1>7, <2>2 DEF Bind, chainVars
<1>8. ASSUME NEW d \in Delivery, Attach(d) PROVE TurnTypes'
  <2>1. SessionAttach(at[d], target[d]) BY <1>8 DEF Attach
  <2>2. at[d] \in Channel \cup {None} /\ target[d] \in Agent OBVIOUS
  <2>3. rows' \in Seq(Row) BY <2>1, <2>2, AttachedRows
  <2>4. Len(rows) + 1 \in Nat OBVIOUS
  <2> QED BY <1>8, <2>3, <2>4 DEF Attach, chainVars
<1>9. ASSUME NEW k \in Command, NEW c \in Channel, ResetLooksUp(k, c) PROVE TurnTypes'
  BY <1>9 DEF ResetLooksUp, chainVars, boundVars
<1>10. ASSUME NEW k \in Command, ResetAttaches(k) PROVE TurnTypes'
  <2>1. rows' \in Seq(Row) BY <1>10, AttachedRows DEF ResetAttaches
  <2> QED BY <1>10, <2>1 DEF ResetAttaches, chainVars
<1>11. ASSUME NEW k \in Command, NEW c \in Channel, NEW a \in Agent, SwitchAgent(k, c, a)
       PROVE  TurnTypes'
  <2>1. rows' \in Seq(Row) BY <1>11, AttachedRows DEF SwitchAgent
  <2> QED BY <1>11, <2>1 DEF SwitchAgent, chainVars
<1>12. CASE UNCHANGED vars BY <1>12 DEF vars, chainVars, boundVars
<1> QED
  BY <1>1, <1>2, <1>3, <1>4, <1>5, <1>6, <1>7, <1>8, <1>9, <1>10, <1>11, <1>12
  DEF Next, Step, Obey

\* Every reachable state has these types.
LEMMA TurnTypesHold == Spec => []TurnTypes
<1>1. Init => TurnTypes
  <2> SUFFICES ASSUME Init PROVE TurnTypes OBVIOUS
  <2>1. Configured \in Agent BY DiscordAssumption
  <2>2. rows \in Seq(Row) /\ \A c \in Channel : queued[c] \in Seq(Delivery)
    BY DEF Init
  <2>3. queued \in [Channel -> Seq(Delivery)] BY <2>2 DEF Init
  <2>4. pc \in [Delivery -> Place] BY DEF Init, Place, Unqueued
  <2>5. target \in [Delivery \cup Command -> Agent] BY <2>1 DEF Init
  <2> QED BY <2>2, <2>3, <2>4, <2>5 DEF Init, TurnTypes
<1>2. TurnTypes /\ [Next]_vars => TurnTypes' BY TurnTypesStep
<1> QED BY <1>1, <1>2, PTL DEF Spec

-----------------------------------------------------------------------------
(* The chain of a channel *)

\* The turns before the j-th of channel c have ended.
EarlierClosed(c, j) == \A i \in 1 .. Len(queued[c]) : i < j => queued[c][i] \in closed

\* A turn is in the chain of its own channel, once, and has ended when its
\* goroutine is past the close.
InChain ==
    /\ \A c \in Channel : \A i \in 1 .. Len(queued[c]) :
          at[queued[c][i]] = c /\ pc[queued[c][i]] \notin Unqueued
    /\ \A c \in Channel : \A i, j \in 1 .. Len(queued[c]) :
          queued[c][i] = queued[c][j] => i = j
    /\ \A d \in Delivery : d \in closed <=> pc[d] \in {"forgetting", "gone"}

\* As long as the bot lives, a turn waits for the one before it, or those
\* before it have ended; one that no longer waits has only ended ones before
\* it; and the map has the last of the chain, or the whole chain has ended.
Linked ==
    \A c \in Channel :
        /\ \A j \in 1 .. Len(queued[c]) :
              /\ previous[queued[c][j]] = None => EarlierClosed(c, j)
              /\ previous[queued[c][j]] # None =>
                    j > 1 /\ previous[queued[c][j]] = queued[c][j - 1]
              /\ pc[queued[c][j]] # "waiting" => EarlierClosed(c, j)
        /\ turns[c] = None => \A i \in 1 .. Len(queued[c]) : queued[c][i] \in closed
        /\ turns[c] # None => Len(queued[c]) > 0 /\ turns[c] = queued[c][Len(queued[c])]

\* Stopped or not, a turn that has begun has only ended ones before it: after
\* the stop no other begins.
Begun(d) == pc[d] \in Running \/ session[d] # 0

BegunInTurn ==
    \A c \in Channel : \A j \in 1 .. Len(queued[c]) : Begun(queued[c][j]) => EarlierClosed(c, j)

\* A turn has a conversation only when it has begun to answer.
NoSessionYet ==
    \A d \in Delivery :
        pc[d] \in Unqueued \cup {"waiting", "looking", "binding", "attaching"} => session[d] = 0

ChainInv == InChain /\ (~stopped => Linked) /\ BegunInTurn /\ NoSessionYet

\* What is in a chain is a delivery.
LEMMA QueuedTyped ==
    ASSUME TurnTypes, NEW c \in Channel
    PROVE  /\ Len(queued[c]) \in Nat
           /\ \A i \in 1 .. Len(queued[c]) : queued[c][i] \in Delivery
BY DEF TurnTypes

\* What none of the four steps below touches stays as it is.
LEMMA ChainElsewhere ==
    ASSUME TurnTypes, ChainInv, UNCHANGED <<at, turns, previous, queued, closed>>,
           stopped => stopped',
           \A d \in Delivery :
              /\ pc'[d] \in Unqueued <=> pc[d] \in Unqueued
              /\ pc'[d] \in {"forgetting", "gone"} <=> pc[d] \in {"forgetting", "gone"}
              /\ pc[d] = "waiting" => pc'[d] = "waiting" \/ stopped'
              /\ Begun(d)' => Begun(d)
              /\ pc'[d] \in Unqueued \cup {"waiting", "looking", "binding", "attaching"}
                    => session'[d] = 0
    PROVE  ChainInv'
<1>1. \A c \in Channel : \A j \in 1 .. Len(queued[c]) : EarlierClosed(c, j)' <=> EarlierClosed(c, j)
  BY DEF EarlierClosed
<1>2. InChain'
  <2>1. \A c \in Channel : \A i \in 1 .. Len(queued'[c]) :
           at'[queued'[c][i]] = c /\ pc'[queued'[c][i]] \notin Unqueued
    BY QueuedTyped DEF ChainInv, InChain
  <2> QED BY <2>1 DEF ChainInv, InChain
<1>3. ASSUME ~stopped' PROVE Linked'
  <2>1. Linked BY <1>3 DEF ChainInv
  <2>2. \A c \in Channel : \A j \in 1 .. Len(queued[c]) :
           pc'[queued[c][j]] # "waiting" => pc[queued[c][j]] # "waiting"
    BY <1>3, QueuedTyped
  <2> QED BY <1>1, <2>1, <2>2 DEF Linked
<1>4. BegunInTurn'
  <2>1. \A c \in Channel : \A j \in 1 .. Len(queued[c]) :
           Begun(queued[c][j])' => Begun(queued[c][j])
    BY QueuedTyped DEF Begun
  <2> QED BY <1>1, <2>1 DEF ChainInv, BegunInTurn, Begun
<1>5. NoSessionYet' BY DEF NoSessionYet
<1> QED BY <1>2, <1>3, <1>4, <1>5 DEF ChainInv

\* The turn joins the chain: it was in none before.
LEMMA ChainQueues ==
    ASSUME TurnTypes, ChainInv, NEW d \in Delivery, NEW c \in Channel, QueueTurn(d, c)
    PROVE  ChainInv'
<1> DEFINE n == Len(queued[c])
<1>1. /\ n \in Nat /\ queued[c] \in Seq(Delivery)
      /\ queued'[c] = Append(queued[c], d) /\ \A b \in Channel \ {c} : queued'[b] = queued[b]
      /\ turns'[c] = d /\ \A b \in Channel \ {c} : turns'[b] = turns[b]
      /\ previous'[d] = turns[c] /\ \A e \in Delivery \ {d} : previous'[e] = previous[e]
      /\ at'[d] = c /\ \A e \in Delivery \ {d} : at'[e] = at[e]
      /\ pc[d] = "placing" /\ pc'[d] = "waiting" /\ \A e \in Delivery \ {d} : pc'[e] = pc[e]
      /\ UNCHANGED <<closed, stopped, session>>
  BY DEF QueueTurn, TurnTypes, Goto, boundVars
<1>2. /\ Len(queued'[c]) = n + 1 /\ queued'[c][n + 1] = d
      /\ \A i \in 1 .. n : queued'[c][i] = queued[c][i]
      /\ \A i \in 1 .. n + 1 : i \in 1 .. n \/ i = n + 1
  BY <1>1
<1>3. \A b \in Channel : \A i \in 1 .. Len(queued[b]) : queued[b][i] \in Delivery \ {d}
  BY <1>1 DEF ChainInv, InChain, TurnTypes, Unqueued
<1>4. d \notin closed /\ session[d] = 0 BY <1>1 DEF ChainInv, InChain, NoSessionYet, Unqueued
<1> HIDE DEF n
<1>5. InChain'
  <2>1. \A b \in Channel : \A i \in 1 .. Len(queued'[b]) :
           at'[queued'[b][i]] = b /\ pc'[queued'[b][i]] \notin Unqueued
    <3> SUFFICES ASSUME NEW b \in Channel, NEW i \in 1 .. Len(queued'[b])
                 PROVE  at'[queued'[b][i]] = b /\ pc'[queued'[b][i]] \notin Unqueued
      OBVIOUS
    <3>1. CASE b # c BY <1>1, <1>3, <3>1 DEF ChainInv, InChain
    <3>2. CASE b = c /\ i \in 1 .. n BY <1>1, <1>2, <1>3, <3>2 DEF ChainInv, InChain, n
    <3>3. CASE b = c /\ i = n + 1 BY <1>1, <1>2, <3>3 DEF Unqueued
    <3> QED BY <1>2, <3>1, <3>2, <3>3
  <2>2. \A b \in Channel : \A i, j \in 1 .. Len(queued'[b]) :
           queued'[b][i] = queued'[b][j] => i = j
    <3> SUFFICES ASSUME NEW b \in Channel, NEW i \in 1 .. Len(queued'[b]),
                        NEW j \in 1 .. Len(queued'[b]), queued'[b][i] = queued'[b][j]
                 PROVE  i = j
      OBVIOUS
    <3>1. CASE b # c BY <1>1, <3>1 DEF ChainInv, InChain
    <3>2. CASE b = c BY <1>2, <1>3, <3>2 DEF ChainInv, InChain, n
    <3> QED BY <3>1, <3>2
  <2>3. \A e \in Delivery : e \in closed' <=> pc'[e] \in {"forgetting", "gone"}
    BY <1>1, <1>4 DEF ChainInv, InChain
  <2> QED BY <2>1, <2>2, <2>3 DEF InChain
<1>6. ASSUME NEW b \in Channel, NEW j \in 1 .. Len(queued[b]), EarlierClosed(b, j)
      PROVE  EarlierClosed(b, j)'
  <2>1. CASE b # c BY <1>1, <1>6, <2>1 DEF EarlierClosed
  <2>2. CASE b = c
    <3>1. \A i \in 1 .. n + 1 : i < j => i \in 1 .. n BY <1>1, <1>6, <2>2 DEF n
    <3> QED BY <1>1, <1>2, <1>6, <2>2, <3>1 DEF EarlierClosed, n
  <2> QED BY <2>1, <2>2
<1>7. ASSUME ~stopped' PROVE Linked'
  <2>1. Linked BY <1>1, <1>7 DEF ChainInv
  <2>2. ASSUME NEW b \in Channel, NEW j \in 1 .. Len(queued'[b])
        PROVE  /\ previous'[queued'[b][j]] = None => EarlierClosed(b, j)'
               /\ previous'[queued'[b][j]] # None =>
                     j > 1 /\ previous'[queued'[b][j]] = queued'[b][j - 1]
               /\ pc'[queued'[b][j]] # "waiting" => EarlierClosed(b, j)'
    <3>1. CASE b # c BY <1>1, <1>3, <1>6, <2>1, <3>1 DEF Linked
    <3>2. CASE b = c /\ j \in 1 .. n
      <4>1. queued'[b][j] = queued[b][j] /\ queued[b][j] \in Delivery \ {d}
        BY <1>2, <1>3, <3>2 DEF n
      <4>2. j > 1 => queued'[b][j - 1] = queued[b][j - 1] BY <1>1, <1>2, <3>2
      <4> QED BY <1>1, <1>6, <2>1, <3>2, <4>1, <4>2 DEF Linked, n
    <3>3. CASE b = c /\ j = n + 1
      <4>1. ASSUME turns[c] = None PROVE EarlierClosed(b, j)'
        <5>1. \A i \in 1 .. n : queued[c][i] \in closed BY <2>1, <4>1 DEF Linked, n
        <5>2. \A i \in 1 .. n + 1 : i < n + 1 => i \in 1 .. n BY <1>1
        <5>3. \A i \in 1 .. n + 1 : i < n + 1 => queued'[c][i] \in closed'
          BY <1>1, <1>2, <5>1, <5>2
        <5> QED BY <1>2, <3>3, <5>3 DEF EarlierClosed
      <4>2. turns[c] # None => n > 0 /\ turns[c] = queued[c][n] BY <2>1 DEF Linked, n
      <4>3. n > 0 => n + 1 > 1 /\ (n + 1) - 1 = n /\ n \in 1 .. n BY <1>1
      <4>4. queued'[b][j] = d /\ previous'[d] = turns[c] /\ pc'[d] = "waiting"
        BY <1>1, <1>2, <3>3
      <4>5. turns[c] # None => j > 1 /\ turns[c] = queued'[c][j - 1]
        BY <1>2, <3>3, <4>2, <4>3
      <4> QED BY <3>3, <4>1, <4>4, <4>5
    <3> QED BY <1>2, <3>1, <3>2, <3>3
  <2>3. ASSUME NEW b \in Channel
        PROVE  /\ turns'[b] = None => \A i \in 1 .. Len(queued'[b]) : queued'[b][i] \in closed'
               /\ turns'[b] # None =>
                     Len(queued'[b]) > 0 /\ turns'[b] = queued'[b][Len(queued'[b])]
    <3>1. CASE b # c BY <1>1, <2>1, <3>1 DEF Linked
    <3>2. CASE b = c BY <1>1, <1>2, <3>2, DiscordAssumption
    <3> QED BY <3>1, <3>2
  <2> QED BY <2>2, <2>3 DEF Linked
<1>8. BegunInTurn'
  <2> SUFFICES ASSUME NEW b \in Channel, NEW j \in 1 .. Len(queued'[b]),
                      pc'[queued'[b][j]] \in Running \/ session'[queued'[b][j]] # 0
               PROVE  EarlierClosed(b, j)'
    BY DEF BegunInTurn, Begun
  <2>1. CASE b # c \/ j \in 1 .. n
    <3>1. queued'[b][j] = queued[b][j] /\ j \in 1 .. Len(queued[b])
      BY <1>1, <1>2, <2>1 DEF n
    <3>2. queued[b][j] \in Delivery \ {d} BY <1>3, <3>1
    <3>3. Begun(queued[b][j]) BY <1>1, <3>1, <3>2 DEF Begun
    <3> QED BY <1>6, <3>1, <3>3 DEF ChainInv, BegunInTurn
  <2>2. CASE b = c /\ j = n + 1 BY <1>1, <1>2, <1>4, <2>2 DEF Begun, Running
  <2> QED BY <1>2, <2>1, <2>2
<1>9. NoSessionYet' BY <1>1, <1>4 DEF ChainInv, NoSessionYet
<1> QED BY <1>5, <1>7, <1>8, <1>9 DEF ChainInv

\* A turn that may start while the bot lives has only ended ones before it.
LEMMA ReadyIsNext ==
    ASSUME TurnTypes, ChainInv, ~stopped,
           NEW c \in Channel, NEW j \in 1 .. Len(queued[c]), Ready(queued[c][j])
    PROVE  EarlierClosed(c, j)
<1> DEFINE d == queued[c][j]
<1>1. Linked /\ d \in Delivery BY QueuedTyped DEF ChainInv
<1>2. CASE previous[d] = None BY <1>1, <1>2 DEF Linked
<1>3. CASE previous[d] # None
  <2>1. j > 1 /\ previous[d] = queued[c][j - 1] BY <1>1, <1>3 DEF Linked
  <2>2. Len(queued[c]) \in Nat BY DEF TurnTypes
  <2>3. j - 1 \in 1 .. Len(queued[c]) /\ \A i \in 1 .. Len(queued[c]) : i < j => i < j - 1 \/ i = j - 1
    BY <2>1, <2>2
  <2>4. queued[c][j - 1] \in closed BY <1>3, <2>1 DEF Ready
  <2>5. pc[queued[c][j - 1]] # "waiting"
    BY <2>3, <2>4 DEF ChainInv, InChain, TurnTypes
  <2>6. EarlierClosed(c, j - 1) BY <1>1, <2>3, <2>5 DEF Linked
  <2> QED BY <2>3, <2>4, <2>6 DEF EarlierClosed
<1> QED BY <1>2, <1>3

\* A turn starts while the bot lives: those before it have ended.
LEMMA ChainStarts ==
    ASSUME TurnTypes, ChainInv, NEW d \in Delivery, Start(d) PROVE ChainInv'
<1>1. /\ ~stopped /\ Ready(d) /\ pc[d] = "waiting" /\ pc'[d] = "looking"
      /\ \A e \in Delivery \ {d} : pc'[e] = pc[e]
      /\ UNCHANGED <<at, turns, previous, queued, closed, stopped, session>>
  BY DEF Start, TurnTypes, Goto, chainVars, boundVars
<1>2. Linked BY <1>1 DEF ChainInv
<1>3. ASSUME NEW c \in Channel, NEW j \in 1 .. Len(queued[c]), queued[c][j] = d
      PROVE  EarlierClosed(c, j)
  BY <1>1, <1>3, ReadyIsNext
<1>4. InChain'
  <2>1. \A e \in Delivery :
           /\ pc'[e] \in Unqueued <=> pc[e] \in Unqueued
           /\ pc'[e] \in {"forgetting", "gone"} <=> pc[e] \in {"forgetting", "gone"}
    BY <1>1 DEF Unqueued
  <2> QED BY <1>1, <2>1, QueuedTyped DEF ChainInv, InChain
<1>5. Linked'
  <2>1. \A c \in Channel : \A j \in 1 .. Len(queued[c]) :
           /\ EarlierClosed(c, j)' <=> EarlierClosed(c, j)
           /\ pc'[queued[c][j]] # "waiting" => pc[queued[c][j]] # "waiting" \/ queued[c][j] = d
    BY <1>1, QueuedTyped DEF EarlierClosed
  <2> QED BY <1>1, <1>2, <1>3, <2>1 DEF Linked
<1>6. BegunInTurn'
  <2>1. \A c \in Channel : \A j \in 1 .. Len(queued[c]) :
           /\ EarlierClosed(c, j)' <=> EarlierClosed(c, j)
           /\ Begun(queued[c][j])' => Begun(queued[c][j]) \/ queued[c][j] = d
    BY <1>1, QueuedTyped DEF EarlierClosed, Begun
  <2> QED BY <1>1, <1>3, <2>1 DEF ChainInv, BegunInTurn, Begun
<1>7. NoSessionYet' BY <1>1 DEF ChainInv, NoSessionYet
<1> QED BY <1>4, <1>5, <1>6, <1>7 DEF ChainInv

\* A turn closes its channel: while the bot lives, those before it have ended.
LEMMA ChainCloses ==
    ASSUME TurnTypes, ChainInv, NEW d \in Delivery, CloseCurrent(d) PROVE ChainInv'
<1>1. /\ pc[d] = "closing" /\ pc'[d] = "forgetting" /\ closed' = closed \cup {d}
      /\ \A e \in Delivery \ {d} : pc'[e] = pc[e]
      /\ UNCHANGED <<at, turns, previous, queued, stopped, session>>
  BY DEF CloseCurrent, TurnTypes, Goto, boundVars
<1>2. InChain'
  <2>1. \A e \in Delivery : pc'[e] \in Unqueued <=> pc[e] \in Unqueued
    BY <1>1 DEF Unqueued
  <2>2. \A e \in Delivery : e \in closed' <=> pc'[e] \in {"forgetting", "gone"}
    BY <1>1 DEF ChainInv, InChain
  <2> QED BY <1>1, <2>1, <2>2, QueuedTyped DEF ChainInv, InChain
<1>3. ~stopped' => Linked' BY <1>1 DEF ChainInv, Linked, EarlierClosed, TurnTypes
<1>4. BegunInTurn'
  BY <1>1 DEF ChainInv, BegunInTurn, Begun, EarlierClosed, TurnTypes, Running
<1>5. NoSessionYet' BY <1>1 DEF ChainInv, NoSessionYet, Unqueued
<1> QED BY <1>2, <1>3, <1>4, <1>5 DEF ChainInv

\* A turn leaves the map, as the last of its chain, and so of an ended one.
LEMMA ChainForgets ==
    ASSUME TurnTypes, ChainInv, NEW d \in Delivery, Forget(d) PROVE ChainInv'
<1>1. /\ pc[d] = "forgetting" /\ pc'[d] = "gone"
      /\ \A e \in Delivery \ {d} : pc'[e] = pc[e]
      /\ \A c \in Channel : turns'[c] = turns[c] \/ (turns[c] = d /\ turns'[c] = None)
      /\ UNCHANGED <<at, previous, queued, closed, stopped, session>>
  <2>1. pc[d] = "forgetting" /\ turns' = [turns EXCEPT ![at[d]] = IF @ = d THEN None ELSE @]
    BY DEF Forget
  <2>2. \A c \in Channel : turns'[c] = turns[c] \/ (turns[c] = d /\ turns'[c] = None)
    <3> SUFFICES ASSUME NEW c \in Channel
                 PROVE  turns'[c] = turns[c] \/ (turns[c] = d /\ turns'[c] = None)
      OBVIOUS
    <3>1. c \in DOMAIN turns BY DEF TurnTypes
    <3>2. turns'[c] = IF c = at[d] THEN IF turns[c] = d THEN None ELSE turns[c] ELSE turns[c]
      BY <2>1, <3>1
    <3> QED BY <3>2
  <2> QED BY <2>2 DEF Forget, TurnTypes, Goto, boundVars
<1>2. InChain' BY <1>1, QueuedTyped DEF ChainInv, InChain, Unqueued
<1>3. ASSUME ~stopped' PROVE Linked'
  <2>1. Linked /\ d \in closed BY <1>1, <1>3 DEF ChainInv, InChain
  <2>2. ASSUME NEW c \in Channel, turns[c] = d
        PROVE  \A i \in 1 .. Len(queued[c]) : queued[c][i] \in closed
    <3>1. Len(queued[c]) > 0 /\ d = queued[c][Len(queued[c])] /\ Len(queued[c]) \in Nat
      BY <2>1, <2>2, DiscordAssumption DEF Linked, TurnTypes
    <3>2. EarlierClosed(c, Len(queued[c])) BY <1>1, <2>1, <3>1 DEF Linked
    <3>3. \A i \in 1 .. Len(queued[c]) : i < Len(queued[c]) \/ i = Len(queued[c]) BY <3>1
    <3> QED BY <2>1, <3>1, <3>2, <3>3 DEF EarlierClosed
  <2> QED BY <1>1, <2>1, <2>2 DEF Linked, EarlierClosed, TurnTypes
<1>4. BegunInTurn'
  <2>1. \A c \in Channel : \A j \in 1 .. Len(queued[c]) :
           /\ EarlierClosed(c, j)' <=> EarlierClosed(c, j)
           /\ Begun(queued[c][j])' => Begun(queued[c][j])
    BY <1>1, QueuedTyped DEF EarlierClosed, Begun, Running
  <2> QED BY <1>1, <2>1 DEF ChainInv, BegunInTurn, Begun
<1>5. NoSessionYet' BY <1>1 DEF ChainInv, NoSessionYet, Unqueued
<1> QED BY <1>2, <1>3, <1>4, <1>5 DEF ChainInv

\* Every step keeps the chain.
LEMMA ChainStep == ASSUME TurnTypes, ChainInv, [Next]_vars PROVE ChainInv'
<1> USE DEF TurnTypes, ChainInv, NoSessionYet, Begun, Place, Unqueued, Running, Goto
<1>1. CASE Stop BY <1>1, ChainElsewhere DEF Stop, gatewayVars, boundVars
<1>2. ASSUME NEW d \in Delivery, NEW m \in Message, Hear(d, m) PROVE ChainInv'
  BY <1>2, ChainElsewhere DEF Hear, chainVars, boundVars
<1>3. ASSUME NEW d \in Delivery, NEW c \in Channel, QueueTurn(d, c) PROVE ChainInv'
  BY <1>3, ChainQueues
<1>4. ASSUME NEW d \in Delivery, Start(d) PROVE ChainInv' BY <1>4, ChainStarts
<1>5. ASSUME NEW d \in Delivery, GiveUp(d) PROVE ChainInv'
  BY <1>5, ChainElsewhere DEF GiveUp, chainVars, boundVars
<1>6. ASSUME NEW d \in Delivery, CloseCurrent(d) PROVE ChainInv' BY <1>6, ChainCloses
<1>7. ASSUME NEW d \in Delivery, Forget(d) PROVE ChainInv' BY <1>7, ChainForgets
<1>8. ASSUME NEW d \in Delivery, LookUp(d) PROVE ChainInv'
  BY <1>8, ChainElsewhere DEF LookUp, chainVars, boundVars
<1>9. ASSUME NEW d \in Delivery, Bind(d) PROVE ChainInv'
  BY <1>9, ChainElsewhere DEF Bind, chainVars
<1>10. ASSUME NEW d \in Delivery, Attach(d) PROVE ChainInv'
  BY <1>10, ChainElsewhere DEF Attach, chainVars
<1>11. ASSUME NEW d \in Delivery, Return(d) PROVE ChainInv'
  BY <1>11, ChainElsewhere DEF Return, chainVars, boundVars
<1>12. ASSUME NEW k \in Command, Obey(k) PROVE ChainInv'
  BY <1>12, ChainElsewhere
  DEF Obey, ResetLooksUp, ResetAttaches, SwitchAgent, chainVars, boundVars
<1>13. CASE UNCHANGED vars BY <1>13, ChainElsewhere DEF vars, chainVars, boundVars
<1> QED
  BY <1>1, <1>2, <1>3, <1>4, <1>5, <1>6, <1>7, <1>8, <1>9, <1>10, <1>11, <1>12, <1>13
  DEF Next, Step

\* Every reachable state has such chains.
LEMMA ChainHolds == Spec => []ChainInv
<1>1. Init => ChainInv
  BY DEF Init, ChainInv, InChain, Linked, BegunInTurn, NoSessionYet, Begun, Running, EarlierClosed
<1>2. TurnTypes /\ ChainInv /\ [Next]_vars => ChainInv' BY ChainStep
<1> QED BY <1>1, <1>2, TurnTypesHold, PTL DEF Spec

-----------------------------------------------------------------------------
(* The channel as a queue *)

\* A turn that was queued is in the chain of its channel.
PlacedInv ==
    \A d \in Delivery : pc[d] \notin Unqueued =>
        at[d] \in Channel /\ \E i \in 1 .. Len(queued[at[d]]) : queued[at[d]][i] = d

\* Every step keeps it there.
LEMMA PlacedStep == ASSUME TurnTypes, PlacedInv, [Next]_vars PROVE PlacedInv'
<1> USE DEF TurnTypes, PlacedInv, Place, Unqueued, Running, Goto
<1>1. ASSUME NEW d \in Delivery, NEW c \in Channel, QueueTurn(d, c) PROVE PlacedInv'
  <2>1. /\ queued[c] \in Seq(Delivery) /\ Len(queued[c]) \in Nat
        /\ queued'[c] = Append(queued[c], d) /\ \A b \in Channel \ {c} : queued'[b] = queued[b]
        /\ at'[d] = c /\ \A e \in Delivery \ {d} : at'[e] = at[e] /\ pc'[e] = pc[e]
    BY <1>1 DEF QueueTurn
  <2>2. /\ Len(queued'[c]) = Len(queued[c]) + 1 /\ queued'[c][Len(queued[c]) + 1] = d
        /\ \A i \in 1 .. Len(queued[c]) : queued'[c][i] = queued[c][i]
    BY <2>1
  <2>3. Len(queued[c]) + 1 \in 1 .. Len(queued'[c])
        /\ \A i \in 1 .. Len(queued[c]) : i \in 1 .. Len(queued'[c])
    BY <2>1, <2>2
  <2> SUFFICES ASSUME NEW e \in Delivery, pc'[e] \notin Unqueued
               PROVE  at'[e] \in Channel /\ \E i \in 1 .. Len(queued'[at'[e]]) : queued'[at'[e]][i] = e
    OBVIOUS
  <2>4. CASE e = d BY <2>1, <2>2, <2>3, <2>4
  <2>5. CASE e # d
    <3>1. at'[e] = at[e] /\ at[e] \in Channel BY <2>1, <2>5
    <3>2. PICK i \in 1 .. Len(queued[at[e]]) : queued[at[e]][i] = e BY <2>1, <2>5
    <3>3. CASE at[e] = c BY <2>2, <2>3, <3>1, <3>2, <3>3
    <3>4. CASE at[e] # c BY <2>1, <3>1, <3>2, <3>4
    <3> QED BY <3>3, <3>4
  <2> QED BY <2>4, <2>5
<1>2. CASE Stop BY <1>2 DEF Stop
<1>3. ASSUME NEW d \in Delivery, NEW m \in Message, Hear(d, m) PROVE PlacedInv'
  BY <1>3 DEF Hear, chainVars
<1>4. ASSUME NEW d \in Delivery,
             \/ Start(d) \/ GiveUp(d) \/ CloseCurrent(d) \/ Forget(d)
             \/ LookUp(d) \/ Bind(d) \/ Attach(d) \/ Return(d)
      PROVE  PlacedInv'
  BY <1>4 DEF Start, GiveUp, CloseCurrent, Forget, LookUp, Bind, Attach, Return, chainVars
<1>5. ASSUME NEW k \in Command, Obey(k) PROVE PlacedInv'
  BY <1>5 DEF Obey, ResetLooksUp, ResetAttaches, SwitchAgent, chainVars
<1>6. CASE UNCHANGED vars BY <1>6 DEF vars, chainVars
<1> QED BY <1>1, <1>2, <1>3, <1>4, <1>5, <1>6 DEF Next, Step

\* Every reachable state has it there.
LEMMA PlacedHolds == Spec => []PlacedInv
<1>1. Init => PlacedInv BY DEF Init, PlacedInv, Unqueued
<1>2. TurnTypes /\ PlacedInv /\ [Next]_vars => PlacedInv' BY PlacedStep
<1> QED BY <1>1, <1>2, TurnTypesHold, PTL DEF Spec

\* One turn of a channel runs at a time: one that has begun has only ended ones
\* before it, after the stop as well.
LEMMA OneAnswers ==
    ASSUME TurnTypes, ChainInv, PlacedInv, NEW c \in Channel,
           NEW d \in Answering(c), NEW e \in Answering(c)
    PROVE  d = e
<1>1. /\ d \in Delivery /\ at[d] = c /\ pc[d] \in Running
      /\ e \in Delivery /\ at[e] = c /\ pc[e] \in Running
  BY DEF Answering
<1>2. pc[d] \notin Unqueued /\ pc[e] \notin Unqueued /\ d \notin closed /\ e \notin closed
  BY <1>1 DEF Running, Unqueued, ChainInv, InChain
<1>3. PICK i \in 1 .. Len(queued[c]) : queued[c][i] = d BY <1>1, <1>2 DEF PlacedInv
<1>4. PICK j \in 1 .. Len(queued[c]) : queued[c][j] = e BY <1>1, <1>2 DEF PlacedInv
<1>5. EarlierClosed(c, i) /\ EarlierClosed(c, j)
  BY <1>1, <1>3, <1>4 DEF ChainInv, BegunInTurn, Begun
<1>6. Len(queued[c]) \in Nat BY DEF TurnTypes
<1>7. ~(i < j) /\ ~(j < i) BY <1>2, <1>3, <1>4, <1>5 DEF EarlierClosed
<1> QED BY <1>3, <1>4, <1>6, <1>7

\* What the queue sees of a channel, and of one that runs a turn.
Busy(c) == IF Answering(c) = {} THEN None ELSE Any(Answering(c))
Lines == [c \in Channel |-> InLine(c)]
AllBusy == [c \in Channel |-> Busy(c)]

\* A step that moves nobody into or out of a line, or to an answer or from it,
\* is none of the queue.
LEMMA QueueRests ==
    ASSUME UNCHANGED <<queued, stopped>>,
           \A c \in Channel : InLine(c)' = InLine(c) /\ Answering(c)' = Answering(c)
    PROVE  UNCHANGED Queue!vars
<1>1. \A c \in Channel : Busy(c)' = Busy(c) BY DEF Busy
<1>2. Lines' = Lines /\ AllBusy' = AllBusy BY <1>1 DEF Lines, AllBusy
<1> QED BY <1>2 DEF Queue!vars, Lines, AllBusy, Busy

\* A turn joins the line of its channel, in which it is not yet.
LEMMA QueueJoins ==
    ASSUME TurnTypes, ChainInv, NEW d \in Delivery, NEW c \in Channel, QueueTurn(d, c)
    PROVE  Queue!Join(d, c)
<1>1. /\ pc[d] = "placing" /\ pc'[d] = "waiting" /\ \A e \in Delivery \ {d} : pc'[e] = pc[e]
      /\ at'[d] = c /\ \A e \in Delivery \ {d} : at'[e] = at[e]
      /\ queued' = [queued EXCEPT ![c] = Append(@, d)] /\ stopped' = stopped
  BY DEF QueueTurn, TurnTypes, Goto
<1>2. \A i \in 1 .. Len(queued[c]) : queued[c][i] # d
  BY <1>1 DEF ChainInv, InChain, Unqueued
<1>3. \A b \in Channel : Answering(b)' = Answering(b) BY <1>1 DEF Answering, Running
<1>4. InLine(c)' = InLine(c) \cup {d} BY <1>1 DEF InLine
<1>5. \A b \in Channel \ {c} : InLine(b)' = InLine(b) BY <1>1 DEF InLine
<1>6. Lines' = [Lines EXCEPT ![c] = @ \cup {d}] BY <1>4, <1>5 DEF Lines
<1>7. AllBusy' = AllBusy
  <2>1. \A b \in Channel : Busy(b)' = Busy(b) BY <1>3 DEF Busy
  <2> QED BY <2>1 DEF AllBusy
<1> QED BY <1>1, <1>2, <1>6, <1>7 DEF Queue!Join, Lines, AllBusy, Busy

\* A turn starts: it is the first in line, and nobody answers.
LEMMA QueueBegins ==
    ASSUME TurnTypes, ChainInv, PlacedInv, NEW d \in Delivery, Start(d)
    PROVE  Queue!Begin(at[d])
<1> DEFINE c == at[d]
<1>1. /\ ~stopped /\ Ready(d) /\ pc[d] = "waiting" /\ pc'[d] = "looking"
      /\ \A e \in Delivery \ {d} : pc'[e] = pc[e]
      /\ UNCHANGED <<at, queued, stopped>>
  BY DEF Start, TurnTypes, Goto, chainVars
<1>2. c \in Channel /\ \E i \in 1 .. Len(queued[c]) : queued[c][i] = d
  BY <1>1 DEF PlacedInv, Unqueued
<1>3. PICK i \in 1 .. Len(queued[c]) : queued[c][i] = d BY <1>2
<1>4. EarlierClosed(c, i) BY <1>1, <1>2, <1>3, ReadyIsNext
<1>5. Linked /\ Len(queued[c]) \in Nat /\ d \notin closed
  BY <1>1, <1>2 DEF ChainInv, InChain, TurnTypes
<1>6. \A k \in 1 .. Len(queued[c]) : k > i => pc[queued[c][k]] = "waiting"
  BY <1>2, <1>3, <1>5 DEF Linked, EarlierClosed
<1>7. \A k \in 1 .. i - 1 : queued[c][k] \notin InLine(c)
  <2>1. \A k \in 1 .. i - 1 : k \in 1 .. Len(queued[c]) /\ k < i BY <1>3, <1>5
  <2> QED BY <1>2, <1>4, <2>1, QueuedTyped DEF EarlierClosed, InLine, ChainInv, InChain
<1>8. Answering(c) = {}
  <2> SUFFICES ASSUME NEW e \in Answering(c) PROVE FALSE OBVIOUS
  <2>1. e \in Delivery /\ at[e] = c /\ pc[e] \in Running BY DEF Answering
  <2>2. pc[e] \notin Unqueued /\ e \notin closed /\ pc[e] # "waiting"
    BY <2>1 DEF Running, Unqueued, ChainInv, InChain
  <2>3. PICK k \in 1 .. Len(queued[c]) : queued[c][k] = e BY <2>1, <2>2 DEF PlacedInv
  <2>4. ~(k < i) BY <1>4, <2>2, <2>3 DEF EarlierClosed
  <2>5. ~(k > i) BY <1>6, <2>2, <2>3
  <2>6. k # i BY <1>1, <1>3, <2>2, <2>3
  <2> QED BY <1>5, <2>4, <2>5, <2>6
<1>9. Answering(c)' = {d} /\ \A b \in Channel \ {c} : Answering(b)' = Answering(b)
  <2>1. Answering(c)' = Answering(c) \cup {d} BY <1>1 DEF Answering, Running
  <2>2. \A b \in Channel \ {c} : Answering(b)' = Answering(b) BY <1>1 DEF Answering
  <2> QED BY <1>8, <2>1, <2>2
<1>10. InLine(c)' = InLine(c) \ {d} /\ \A b \in Channel \ {c} : InLine(b)' = InLine(b)
  <2>1. InLine(c)' = InLine(c) \ {d} BY <1>1 DEF InLine
  <2>2. \A b \in Channel \ {c} : InLine(b)' = InLine(b) BY <1>1 DEF InLine
  <2> QED BY <2>1, <2>2
<1>11. d \in InLine(c) BY <1>1 DEF InLine
<1>12. Lines' = [Lines EXCEPT ![c] = @ \ {d}] BY <1>1, <1>10 DEF Lines
<1>13. AllBusy[c] = None /\ AllBusy' = [AllBusy EXCEPT ![c] = d]
  <2>1. Busy(c) = None BY <1>8 DEF Busy
  <2>2. Any({d}) = d BY DEF Any
  <2>3. Busy(c)' = d BY <1>9, <2>2 DEF Busy
  <2>4. \A b \in Channel \ {c} : Busy(b)' = Busy(b) BY <1>9 DEF Busy
  <2> QED BY <1>1, <1>2, <2>1, <2>3, <2>4 DEF AllBusy
<1>14. Lines[c] = InLine(c) BY <1>2 DEF Lines
<1> HIDE DEF c
<1> QED
  <2>1. \E k \in 1 .. Len(queued[c]) :
           /\ queued[c][k] \in Lines[c]
           /\ \A m \in 1 .. k - 1 : queued[c][m] \notin Lines[c]
           /\ AllBusy' = [AllBusy EXCEPT ![c] = queued[c][k]]
           /\ Lines' = [Lines EXCEPT ![c] = @ \ {queued[c][k]}]
    BY <1>3, <1>7, <1>11, <1>12, <1>13, <1>14
  <2>2. Queue!Begin(c) BY <1>1, <1>13, <2>1 DEF Queue!Begin, Lines, AllBusy, Busy
  <2> QED BY <2>2 DEF c

\* A turn returns: it is the one that answers.
LEMMA QueueEnds ==
    ASSUME TurnTypes, ChainInv, PlacedInv, NEW d \in Delivery, Return(d)
    PROVE  Queue!End(at[d])
<1> DEFINE c == at[d]
<1>1. /\ pc[d] \in Running /\ pc'[d] = "closing"
      /\ \A e \in Delivery \ {d} : pc'[e] = pc[e]
      /\ UNCHANGED <<at, queued, stopped>>
  BY DEF Return, TurnTypes, Goto, chainVars
<1>2. c \in Channel BY <1>1 DEF PlacedInv, Unqueued, Running
<1>3. Answering(c) = {d}
  <2>1. d \in Answering(c) BY <1>1 DEF Answering
  <2>2. \A e \in Answering(c) : e = d BY <1>2, <2>1, OneAnswers
  <2> QED BY <2>1, <2>2
<1>4. Answering(c)' = {} /\ \A b \in Channel \ {c} : Answering(b)' = Answering(b)
  <2>1. Answering(c)' = Answering(c) \ {d} BY <1>1 DEF Answering, Running
  <2>2. \A b \in Channel \ {c} : Answering(b)' = Answering(b) BY <1>1 DEF Answering
  <2> QED BY <1>3, <2>1, <2>2
<1>5. \A b \in Channel : InLine(b)' = InLine(b) BY <1>1 DEF InLine, Running
<1>6. Lines' = Lines BY <1>5 DEF Lines
<1>7. AllBusy[c] # None /\ AllBusy' = [AllBusy EXCEPT ![c] = None]
  <2>1. Any({d}) = d BY DEF Any
  <2>2. Busy(c) = d /\ d # None BY <1>3, <2>1, DiscordAssumption DEF Busy
  <2>3. Busy(c)' = None BY <1>4 DEF Busy
  <2>4. \A b \in Channel \ {c} : Busy(b)' = Busy(b) BY <1>4 DEF Busy
  <2> QED BY <1>1, <1>2, <2>2, <2>3, <2>4 DEF AllBusy
<1> HIDE DEF c
<1> QED
  <2>1. Queue!End(c) BY <1>1, <1>6, <1>7 DEF Queue!End, Lines, AllBusy, Busy
  <2> QED BY <2>1 DEF c

\* A turn that gives up leaves the line, after the stop only.
LEMMA QueueLeaves ==
    ASSUME TurnTypes, NEW d \in Delivery, GiveUp(d)
    PROVE  Queue!Leave(d, at[d])
<1> DEFINE c == at[d]
<1>1. /\ stopped /\ pc[d] = "waiting" /\ pc'[d] = "closing"
      /\ \A e \in Delivery \ {d} : pc'[e] = pc[e]
      /\ UNCHANGED <<at, queued, stopped>>
  BY DEF GiveUp, TurnTypes, Goto, chainVars
<1>2. \A b \in Channel : Answering(b)' = Answering(b) BY <1>1 DEF Answering, Running
<1>3. InLine(c)' = InLine(c) \ {d} /\ \A b \in Channel \ {c} : InLine(b)' = InLine(b)
  <2>1. InLine(c)' = InLine(c) \ {d} BY <1>1 DEF InLine
  <2>2. \A b \in Channel \ {c} : InLine(b)' = InLine(b) BY <1>1 DEF InLine
  <2> QED BY <2>1, <2>2
<1>4. Lines' = [Lines EXCEPT ![c] = @ \ {d}] BY <1>1, <1>3 DEF Lines
<1>5. AllBusy' = AllBusy
  <2>1. \A b \in Channel : Busy(b)' = Busy(b) BY <1>2 DEF Busy
  <2> QED BY <2>1 DEF AllBusy
<1> HIDE DEF c
<1> QED
  <2>1. Queue!Leave(d, c) BY <1>1, <1>4, <1>5 DEF Queue!Leave, Lines, AllBusy, Busy
  <2> QED BY <2>1 DEF c

\* The first state is one of the queue, and each step is one of it or none.
LEMMA QueueStarts == ASSUME Init PROVE Queue!Init
<1>1. \A c \in Channel : InLine(c) = {} /\ Answering(c) = {}
  BY DEF Init, InLine, Answering, Running
<1>2. \A c \in Channel : Busy(c) = None BY <1>1 DEF Busy
<1>3. Lines = [c \in Channel |-> {}] /\ AllBusy = [c \in Channel |-> None]
  BY <1>1, <1>2 DEF Lines, AllBusy
<1> QED BY <1>3 DEF Init, Queue!Init, Lines, AllBusy, Busy

\* Every step of the bot is one of the queue of its channel, or leaves the
\* queue alone.
LEMMA QueueStep ==
    ASSUME TurnTypes, ChainInv, PlacedInv, [Next]_vars PROVE [Queue!Next]_(Queue!vars)
<1> DEFINE Rests == \A c \in Channel : InLine(c)' = InLine(c) /\ Answering(c)' = Answering(c)
<1> DEFINE Good == [Queue!Next]_(Queue!vars)
<1>1. ASSUME NEW d \in Delivery, NEW c \in Channel, QueueTurn(d, c) PROVE Good
  BY <1>1, QueueJoins DEF Queue!Next
<1>2. ASSUME NEW d \in Delivery, Start(d) PROVE Good
  <2>1. at[d] \in Channel BY <1>2 DEF Start, PlacedInv, Unqueued
  <2> QED BY <1>2, <2>1, QueueBegins DEF Queue!Next
<1>3. ASSUME NEW d \in Delivery, Return(d) PROVE Good
  <2>1. at[d] \in Channel BY <1>3 DEF Return, PlacedInv, Unqueued, Running
  <2> QED BY <1>3, <2>1, QueueEnds DEF Queue!Next
<1>4. ASSUME NEW d \in Delivery, GiveUp(d) PROVE Good
  <2>1. at[d] \in Channel BY <1>4 DEF GiveUp, PlacedInv, Unqueued
  <2> QED BY <1>4, <2>1, QueueLeaves DEF Queue!Next
<1>5. CASE Stop
  <2>1. Rests BY <1>5 DEF Stop, InLine, Answering
  <2>2. Lines' = Lines /\ AllBusy' = AllBusy
    <3>1. \A c \in Channel : Busy(c)' = Busy(c) BY <2>1 DEF Busy
    <3> QED BY <2>1, <3>1 DEF Lines, AllBusy
  <2>3. Queue!ShutDown BY <1>5, <2>2 DEF Stop, Queue!ShutDown, Lines, AllBusy, Busy
  <2> QED BY <2>3 DEF Queue!Next
<1>6. ASSUME NEW d \in Delivery, CloseCurrent(d) \/ Forget(d) PROVE Good
  <2>1. UNCHANGED <<queued, stopped, at>> /\ Rests
    BY <1>6 DEF CloseCurrent, Forget, InLine, Answering, Running, Goto, TurnTypes
  <2> QED BY <2>1, QueueRests
<1>7. ASSUME NEW d \in Delivery, LookUp(d) \/ Bind(d) \/ Attach(d) PROVE Good
  <2>1. UNCHANGED <<queued, stopped, at>> /\ Rests
    BY <1>7 DEF LookUp, Bind, Attach, InLine, Answering, Running, Goto, TurnTypes, chainVars
  <2> QED BY <2>1, QueueRests
<1>8. ASSUME NEW d \in Delivery, NEW m \in Message, Hear(d, m) PROVE Good
  <2>1. UNCHANGED <<queued, stopped, at>> /\ Rests
    BY <1>8 DEF Hear, InLine, Answering, Running, Goto, TurnTypes, chainVars
  <2> QED BY <2>1, QueueRests
<1>9. ASSUME NEW k \in Command, Obey(k) PROVE Good
  <2>1. UNCHANGED <<queued, stopped, at, pc>>
    BY <1>9 DEF Obey, ResetLooksUp, ResetAttaches, SwitchAgent, chainVars
  <2>2. Rests BY <2>1 DEF InLine, Answering
  <2> QED BY <2>1, <2>2, QueueRests
<1>10. CASE UNCHANGED vars
  <2>1. UNCHANGED <<queued, stopped, at, pc>> BY <1>10 DEF vars, chainVars
  <2>2. Rests BY <2>1 DEF InLine, Answering
  <2> QED BY <2>1, <2>2, QueueRests
<1> QED
  BY <1>1, <1>2, <1>3, <1>4, <1>5, <1>6, <1>7, <1>8, <1>9, <1>10 DEF Next, Step

\* The turns of a channel are those of a queue, for any number of channels: one
\* at a time, in the order they were queued, and none begins after the bot
\* stopped (queueTurn).
THEOREM TurnsImplementQueue == Spec => ImplementsTurnQueue
<1>1. Init => Queue!Init BY QueueStarts
<1>2. TurnTypes /\ ChainInv /\ PlacedInv /\ [Next]_vars => [Queue!Next]_(Queue!vars)
  BY QueueStep
<1> QED
  BY <1>1, <1>2, TurnTypesHold, ChainHolds, PlacedHolds, PTL
  DEF Spec, ImplementsTurnQueue, Queue!Spec

-----------------------------------------------------------------------------
(* The map *)

\* An entry of the map is a turn of that channel that has yet to leave it.
MapInv ==
    \A c \in Channel : turns[c] # None =>
        at[turns[c]] = c /\ pc[turns[c]] \notin Unqueued \cup {"gone"}

\* Every step keeps the map.
LEMMA MapStep == ASSUME TurnTypes, MapInv, [Next]_vars PROVE MapInv'
<1> USE DEF TurnTypes, MapInv, Place, Unqueued, Running, Goto
<1>1. CASE Stop BY <1>1 DEF Stop, gatewayVars, boundVars
<1>2. ASSUME NEW d \in Delivery, NEW m \in Message, Hear(d, m) PROVE MapInv'
  BY <1>2 DEF Hear, chainVars, boundVars
<1>3. ASSUME NEW d \in Delivery, NEW c \in Channel, QueueTurn(d, c) PROVE MapInv'
  BY <1>3 DEF QueueTurn
<1>4. ASSUME NEW d \in Delivery,
             Start(d) \/ GiveUp(d) \/ CloseCurrent(d) \/ LookUp(d) \/ Bind(d) \/ Attach(d) \/ Return(d)
      PROVE  MapInv'
  BY <1>4 DEF Start, GiveUp, CloseCurrent, LookUp, Bind, Attach, Return, chainVars
<1>5. ASSUME NEW d \in Delivery, Forget(d) PROVE MapInv'
  <2> SUFFICES ASSUME NEW c \in Channel, turns'[c] # None
               PROVE  at'[turns'[c]] = c /\ pc'[turns'[c]] \notin Unqueued \cup {"gone"}
    OBVIOUS
  <2>1. turns'[c] = IF c = at[d] THEN IF turns[c] = d THEN None ELSE turns[c] ELSE turns[c]
    BY <1>5 DEF Forget
  <2>2. turns'[c] = turns[c] /\ turns[c] # d BY <2>1
  <2> QED BY <1>5, <2>2 DEF Forget
<1>6. ASSUME NEW k \in Command, Obey(k) PROVE MapInv'
  BY <1>6 DEF Obey, ResetLooksUp, ResetAttaches, SwitchAgent, chainVars
<1>7. CASE UNCHANGED vars BY <1>7 DEF vars, chainVars
<1> QED BY <1>1, <1>2, <1>3, <1>4, <1>5, <1>6, <1>7 DEF Next, Step

\* While the bot lives, a channel without an entry in the map is idle, and no
\* entry outlives its turn (queueTurn's deferred delete).
THEOREM EmptyIsIdle == Spec => []EmptyMeansIdle
<1>1. Init => MapInv BY DEF Init, MapInv
<1>2. TurnTypes /\ MapInv /\ [Next]_vars => MapInv' BY MapStep
<1>3. MapInv /\ ChainInv => EmptyMeansIdle
  BY DEF MapInv, ChainInv, Linked, EmptyMeansIdle
<1> QED BY <1>1, <1>2, <1>3, TurnTypesHold, ChainHolds, PTL DEF Spec

-----------------------------------------------------------------------------
(* The conversation of a channel *)

\* A channel is bound to one conversation at most (the unique index), and no
\* turn of it has a newer one.
BoundInv ==
    /\ \A d \in Delivery : session[d] <= Len(rows)
    /\ \A c \in Channel : \A r \in Bound(c) :
          /\ \A s \in Bound(c) : r = s
          /\ \A d \in Delivery : at[d] = c => session[d] <= r

\* Attaching binds the channel to the new row, and touches no other channel.
LEMMA AttachBinds ==
    ASSUME TurnTypes, NEW c \in Channel \cup {None}, NEW a \in Agent, SessionAttach(c, a)
    PROVE  \A b \in Channel : Bound(b)' = IF b = c THEN {Len(rows) + 1} ELSE Bound(b)
<1> SUFFICES ASSUME NEW b \in Channel
             PROVE  Bound(b)' = IF b = c THEN {Len(rows) + 1} ELSE Bound(b)
  OBVIOUS
<1>1. /\ rows \in Seq(Row) /\ rows' \in Seq(Row)
      /\ Len(rows') = Len(rows) + 1 /\ rows'[Len(rows) + 1].external = c
      /\ \A i \in 1 .. Len(rows) :
            rows'[i].external = IF rows[i].external = c THEN None ELSE rows[i].external
  BY AttachedRows DEF TurnTypes
<1>2. /\ Len(rows) \in Nat
      /\ DOMAIN rows = 1 .. Len(rows) /\ DOMAIN rows' = 1 .. Len(rows) + 1
  BY <1>1
<1>3. b # None BY DiscordAssumption
<1>4. \A i \in DOMAIN rows' : i \in 1 .. Len(rows) \/ i = Len(rows) + 1 BY <1>2
<1>5. Len(rows) + 1 \in DOMAIN rows' /\ \A i \in 1 .. Len(rows) : i \in DOMAIN rows'
  BY <1>2
<1>6. \A i \in DOMAIN rows' :
         rows'[i].external = b <=> IF b = c THEN i = Len(rows) + 1
                                   ELSE i \in 1 .. Len(rows) /\ rows[i].external = b
  <2> SUFFICES ASSUME NEW i \in DOMAIN rows'
               PROVE  rows'[i].external = b <=> IF b = c THEN i = Len(rows) + 1
                                                ELSE i \in 1 .. Len(rows) /\ rows[i].external = b
    OBVIOUS
  <2>1. CASE i \in 1 .. Len(rows)
    <3>1. i # Len(rows) + 1 BY <1>2, <2>1
    <3> QED BY <1>1, <1>3, <2>1, <3>1
  <2>2. CASE i = Len(rows) + 1
    <3>1. i \notin 1 .. Len(rows) BY <1>2, <2>2
    <3> QED BY <1>1, <2>2, <3>1
  <2> QED BY <1>4, <2>1, <2>2
<1> QED BY <1>2, <1>5, <1>6 DEF Bound

\* What is bound lies in the table.
LEMMA BoundTyped ==
    ASSUME TurnTypes, NEW c \in Channel
    PROVE  \A r \in Bound(c) : r \in Nat /\ r <= Len(rows)
BY DEF TurnTypes, Bound

\* Attaching keeps the invariant, whether a turn takes the row or a command.
LEMMA BoundAttaches ==
    ASSUME TurnTypes, BoundInv, NEW c \in Channel \cup {None}, NEW a \in Agent,
           SessionAttach(c, a), UNCHANGED at,
           \A d \in Delivery : \/ session'[d] = session[d]
                              \/ (at[d] = c /\ session'[d] = Len(rows) + 1)
    PROVE  BoundInv'
<1>1. Len(rows) \in Nat /\ Len(rows') = Len(rows) + 1 BY AttachedRows DEF TurnTypes
<1>2. \A d \in Delivery : session[d] \in Nat /\ session[d] <= Len(rows)
  BY DEF TurnTypes, BoundInv
<1>3. \A d \in Delivery : session'[d] <= Len(rows) + 1 BY <1>1, <1>2
<1>4. ASSUME NEW b \in Channel, NEW r \in Bound(b)'
      PROVE  /\ \A s \in Bound(b)' : r = s
             /\ \A d \in Delivery : at'[d] = b => session'[d] <= r
  <2>1. CASE b = c BY <1>3, <1>4, <2>1, AttachBinds
  <2>2. CASE b # c
    <3>1. Bound(b)' = Bound(b) BY <2>2, AttachBinds
    <3>2. \A d \in Delivery : at[d] = b => session'[d] = session[d] BY <2>2
    <3> QED BY <1>4, <3>1, <3>2 DEF BoundInv
  <2> QED BY <2>1, <2>2
<1> QED BY <1>1, <1>3, <1>4 DEF BoundInv

\* Every step keeps it.
LEMMA BoundStep == ASSUME TurnTypes, ChainInv, BoundInv, [Next]_vars PROVE BoundInv'
<1>1. ASSUME UNCHANGED <<at, rows, session>> PROVE BoundInv' BY <1>1 DEF BoundInv, Bound
<1>2. CASE Stop BY <1>1, <1>2 DEF Stop, boundVars
<1>3. ASSUME NEW d \in Delivery, NEW m \in Message, Hear(d, m) PROVE BoundInv'
  BY <1>1, <1>3 DEF Hear, chainVars, boundVars
<1>4. ASSUME NEW d \in Delivery, NEW c \in Channel, QueueTurn(d, c) PROVE BoundInv'
  <2>1. session[d] = 0 BY <1>4 DEF QueueTurn, ChainInv, NoSessionYet, Unqueued
  <2>2. \A b \in Channel : Bound(b)' = Bound(b) BY <1>4 DEF QueueTurn, boundVars, Bound
  <2>3. \A b \in Channel : \A r \in Bound(b) : 0 <= r BY BoundTyped
  <2>4. \A e \in Delivery : e # d => at'[e] = at[e] BY <1>4 DEF QueueTurn, TurnTypes
  <2> QED BY <1>4, <2>1, <2>2, <2>3, <2>4 DEF QueueTurn, boundVars, BoundInv
<1>5. ASSUME NEW d \in Delivery,
             Start(d) \/ GiveUp(d) \/ CloseCurrent(d) \/ Forget(d) \/ LookUp(d) \/ Return(d)
      PROVE  BoundInv'
  BY <1>1, <1>5
  DEF Start, GiveUp, CloseCurrent, Forget, LookUp, Return, chainVars, boundVars
<1>6. ASSUME NEW d \in Delivery, Bind(d) PROVE BoundInv'
  <2>1. CASE UNCHANGED session BY <1>1, <1>6, <2>1 DEF Bind, chainVars
  <2>2. ASSUME NEW i \in Bound(at[d]), session' = [session EXCEPT ![d] = i] PROVE BoundInv'
    <3>1. UNCHANGED <<at, rows>> BY <1>6 DEF Bind, chainVars
    <3>2. i \in Nat /\ i <= Len(rows) BY <2>2 DEF Bound, TurnTypes
    <3>3. \A e \in Delivery : session'[e] <= Len(rows) BY <2>2, <3>2 DEF BoundInv, TurnTypes
    <3>4. ASSUME NEW c \in Channel, NEW r \in Bound(c)
          PROVE  /\ \A s \in Bound(c) : r = s
                 /\ \A e \in Delivery : at[e] = c => session'[e] <= r
      <4>1. CASE at[d] = c
        <5>1. r = i BY <2>2, <3>4, <4>1 DEF BoundInv
        <5> QED BY <2>2, <3>2, <3>4, <5>1 DEF BoundInv, TurnTypes
      <4>2. CASE at[d] # c BY <2>2, <3>4, <4>2 DEF BoundInv, TurnTypes
      <4> QED BY <4>1, <4>2
    <3> QED BY <3>1, <3>3, <3>4 DEF BoundInv, Bound
  <2> QED BY <1>6, <2>1, <2>2 DEF Bind
<1>7. ASSUME NEW d \in Delivery, Attach(d) PROVE BoundInv'
  <2>1. PICK c \in Channel \cup {None} : c = at[d] BY DEF TurnTypes
  <2>2. PICK a \in Agent : a = target[d] BY DEF TurnTypes
  <2>3. SessionAttach(c, a) /\ UNCHANGED at BY <1>7, <2>1, <2>2 DEF Attach, chainVars
  <2>4. \A e \in Delivery : \/ session'[e] = session[e]
                           \/ (at[e] = c /\ session'[e] = Len(rows) + 1)
    BY <1>7, <2>1 DEF Attach, TurnTypes
  <2> QED BY <2>3, <2>4, BoundAttaches
<1>8. ASSUME NEW k \in Command, NEW c \in Channel, ResetLooksUp(k, c) PROVE BoundInv'
  BY <1>1, <1>8 DEF ResetLooksUp, chainVars, boundVars
<1>9. ASSUME NEW k \in Command, ResetAttaches(k) PROVE BoundInv'
  <2>1. PICK c \in Channel : c = command[k] BY <1>9 DEF ResetAttaches
  <2>2. PICK a \in Agent : a = target[k] BY DEF TurnTypes
  <2>3. SessionAttach(c, a) /\ UNCHANGED <<at, session>>
    BY <1>9, <2>1, <2>2 DEF ResetAttaches, chainVars
  <2> QED BY <2>3, BoundAttaches
<1>10. ASSUME NEW k \in Command, NEW c \in Channel, NEW a \in Agent, SwitchAgent(k, c, a)
       PROVE  BoundInv'
  <2>1. SessionAttach(c, a) /\ UNCHANGED <<at, session>> BY <1>10 DEF SwitchAgent, chainVars
  <2> QED BY <2>1, BoundAttaches
<1>11. CASE UNCHANGED vars BY <1>1, <1>11 DEF vars, chainVars, boundVars
<1> QED
  BY <1>2, <1>3, <1>4, <1>5, <1>6, <1>7, <1>8, <1>9, <1>10, <1>11 DEF Next, Step, Obey

\* Every reachable state has it.
LEMMA BoundHolds == Spec => []BoundInv
<1>1. Init => BoundInv BY DEF Init, BoundInv, Bound
<1>2. TurnTypes /\ ChainInv /\ BoundInv /\ [Next]_vars => BoundInv' BY BoundStep
<1> QED BY <1>1, <1>2, TurnTypesHold, ChainHolds, PTL DEF Spec

-----------------------------------------------------------------------------
(* Conversations advance *)

\* A running turn takes a conversation no older than those of its channel: the
\* turns queued behind it have none, as they have not begun.
LEMMA TakesSession ==
    ASSUME TurnTypes, ChainInv, ConversationsAdvance,
           NEW d \in Delivery, pc[d] \in Running, NEW s \in Nat,
           \A e \in Delivery : at[e] = at[d] => session[e] <= s,
           session' = [session EXCEPT ![d] = s], UNCHANGED queued
    PROVE  ConversationsAdvance'
<1> SUFFICES ASSUME NEW c \in Channel, NEW i \in 1 .. Len(queued[c]),
                    NEW j \in 1 .. Len(queued[c]), i < j, session'[queued[c][j]] # 0
             PROVE  session'[queued[c][i]] <= session'[queued[c][j]]
  BY DEF ConversationsAdvance
<1>1. queued[c][i] \in Delivery /\ queued[c][j] \in Delivery BY QueuedTyped
<1>2. \A e \in Delivery : session'[e] = IF e = d THEN s ELSE session[e] BY DEF TurnTypes
<1>3. queued[c][i] # queued[c][j] BY DEF ChainInv, InChain, TurnTypes
<1>4. CASE queued[c][j] = d
  <2>1. at[queued[c][i]] = c /\ at[queued[c][j]] = c BY DEF ChainInv, InChain
  <2> QED BY <1>1, <1>2, <1>3, <1>4, <2>1
<1>5. CASE queued[c][i] = d
  <2>1. session[queued[c][j]] # 0 BY <1>1, <1>2, <1>3, <1>5
  <2>2. EarlierClosed(c, j) BY <2>1 DEF ChainInv, BegunInTurn, Begun
  <2>3. d \in closed BY <1>5, <2>2 DEF EarlierClosed
  <2> QED BY <2>3 DEF ChainInv, InChain, Running
<1>6. CASE queued[c][i] # d /\ queued[c][j] # d
  BY <1>1, <1>2, <1>6 DEF ConversationsAdvance
<1> QED BY <1>4, <1>5, <1>6

\* Every step keeps the order.
LEMMA AdvanceStep ==
    ASSUME TurnTypes, ChainInv, BoundInv, ConversationsAdvance, [Next]_vars
    PROVE  ConversationsAdvance'
<1>1. ASSUME UNCHANGED <<queued, session>> PROVE ConversationsAdvance'
  BY <1>1 DEF ConversationsAdvance
<1>2. ASSUME NEW d \in Delivery, NEW c \in Channel, QueueTurn(d, c)
      PROVE  ConversationsAdvance'
  <2>1. /\ queued'[c] = Append(queued[c], d) /\ \A b \in Channel \ {c} : queued'[b] = queued[b]
        /\ queued[c] \in Seq(Delivery) /\ session' = session
    BY <1>2 DEF QueueTurn, TurnTypes, boundVars
  <2>2. session[d] = 0 BY <1>2 DEF QueueTurn, ChainInv, NoSessionYet, Unqueued
  <2> SUFFICES ASSUME NEW b \in Channel, NEW i \in 1 .. Len(queued'[b]),
                      NEW j \in 1 .. Len(queued'[b]), i < j, session'[queued'[b][j]] # 0
               PROVE  session'[queued'[b][i]] <= session'[queued'[b][j]]
    BY DEF ConversationsAdvance
  <2>3. CASE b # c BY <2>1, <2>3 DEF ConversationsAdvance
  <2>4. CASE b = c
    <3>1. j # Len(queued[c]) + 1 BY <2>1, <2>2, <2>4
    <3>2. /\ i \in 1 .. Len(queued[c]) /\ j \in 1 .. Len(queued[c])
          /\ queued'[b][i] = queued[c][i] /\ queued'[b][j] = queued[c][j]
      BY <2>1, <2>4, <3>1
    <3> QED BY <2>1, <2>4, <3>2 DEF ConversationsAdvance
  <2> QED BY <2>3, <2>4
<1>3. ASSUME NEW d \in Delivery, Bind(d) PROVE ConversationsAdvance'
  <2>1. CASE UNCHANGED session BY <1>1, <1>3, <2>1 DEF Bind, chainVars
  <2>2. ASSUME NEW s \in Bound(at[d]), session' = [session EXCEPT ![d] = s]
        PROVE  ConversationsAdvance'
    <3>1. s \in Nat BY DEF Bound, TurnTypes
    <3>2. pc[d] \in Running /\ UNCHANGED queued BY <1>3 DEF Bind, Running, chainVars
    <3>3. CASE at[d] \in Channel
      <4>1. \A e \in Delivery : at[e] = at[d] => session[e] <= s BY <3>3 DEF BoundInv
      <4> QED BY <2>2, <3>1, <3>2, <4>1, TakesSession
    <3>4. CASE at[d] \notin Channel
      <4>1. \A c \in Channel : \A i \in 1 .. Len(queued[c]) : queued[c][i] # d
        BY <3>4 DEF ChainInv, InChain
      <4>2. \A c \in Channel : \A i \in 1 .. Len(queued[c]) :
               session'[queued[c][i]] = session[queued[c][i]]
        BY <2>2, <4>1, QueuedTyped DEF TurnTypes
      <4> QED BY <3>2, <4>2 DEF ConversationsAdvance
    <3> QED BY <3>3, <3>4
  <2> QED BY <1>3, <2>1, <2>2 DEF Bind
<1>4. ASSUME NEW d \in Delivery, Attach(d) PROVE ConversationsAdvance'
  <2>1. pc[d] \in Running /\ UNCHANGED queued BY <1>4 DEF Attach, Running, chainVars
  <2>2. Len(rows) \in Nat BY DEF TurnTypes
  <2>3. \A e \in Delivery : session[e] <= Len(rows) + 1 BY <2>2 DEF BoundInv, TurnTypes
  <2>4. session' = [session EXCEPT ![d] = Len(rows) + 1] BY <1>4 DEF Attach
  <2>5. Len(rows) + 1 \in Nat BY <2>2
  <2> QED BY <2>1, <2>3, <2>4, <2>5, TakesSession
<1> QED
  BY <1>1, <1>2, <1>3, <1>4
  DEF Next, Step, Obey, Stop, Hear, Start, GiveUp, CloseCurrent, Forget, LookUp, Return,
      ResetLooksUp, ResetAttaches, SwitchAgent, vars, chainVars, boundVars

\* A turn queued behind another never answers in an older conversation than
\* it, whatever resets and switches came between (queueTurn around answerFor).
THEOREM ConversationsOnlyAdvance == Spec => []ConversationsAdvance
<1>1. Init => ConversationsAdvance BY DEF Init, ConversationsAdvance
<1>2. /\ TurnTypes /\ ChainInv /\ BoundInv /\ ConversationsAdvance
      /\ [Next]_vars
      => ConversationsAdvance'
  BY AdvanceStep
<1> QED BY <1>1, <1>2, TurnTypesHold, ChainHolds, BoundHolds, PTL DEF Spec

-----------------------------------------------------------------------------
(* Messages delivered again *)

\* seen holds the messages of the last deliveries taken, SeenLimit of them or
\* all there were, in the order in which they were taken.
SeenInv ==
    /\ of \in [Delivery -> Message \cup {None}]
    /\ accepted \in Seq(Delivery) /\ seen \in Seq(Message)
    /\ \A k \in 1 .. Len(accepted) : pc[accepted[k]] # "new"
    /\ Len(seen) <= SeenLimit /\ Len(seen) <= Len(accepted)
    /\ Len(seen) < SeenLimit => Len(seen) = Len(accepted)
    /\ \A i \in 1 .. Len(seen) : seen[i] = of[accepted[Len(accepted) - Len(seen) + i]]

\* A message taken is none of those seen, so an equal one lies SeenLimit back.
LEMMA SeenStep ==
    ASSUME TurnTypes, SeenInv, DuplicatesDropped, [Next]_vars
    PROVE  SeenInv' /\ DuplicatesDropped'
<1>1. ASSUME UNCHANGED gatewayVars, \A d \in Delivery : pc[d] # "new" => pc'[d] # "new"
      PROVE  SeenInv' /\ DuplicatesDropped'
  <2>1. \A k \in 1 .. Len(accepted) : accepted[k] \in Delivery BY DEF SeenInv
  <2> QED BY <1>1, <2>1 DEF SeenInv, DuplicatesDropped, gatewayVars
<1>2. ASSUME NEW d \in Delivery, NEW m \in Message, Hear(d, m)
      PROVE  SeenInv' /\ DuplicatesDropped'
  <2> DEFINE a == Len(accepted) w == Len(seen)
  <2>1. /\ a \in Nat /\ w \in Nat /\ w <= SeenLimit /\ w <= a /\ SeenLimit \in Nat \ {0}
        /\ w < SeenLimit => w = a
    BY DiscordAssumption DEF SeenInv
  <2>2. /\ of' \in [Delivery -> Message \cup {None}] /\ of'[d] = m
        /\ \A e \in Delivery \ {d} : of'[e] = of[e] /\ pc'[e] = pc[e]
        /\ pc[d] = "new" /\ pc'[d] # "new"
    BY <1>2 DEF Hear, SeenInv, TurnTypes, Goto
  <2>3. \A k \in 1 .. a : accepted[k] \in Delivery \ {d} BY <2>2 DEF SeenInv
  <2>4. \A k \in 1 .. a : of'[accepted[k]] = of[accepted[k]] /\ pc'[accepted[k]] # "new"
    BY <2>2, <2>3 DEF SeenInv
  <2>5. \A i \in 1 .. w : a - w + i \in 1 .. a BY <2>1
  <2>6. CASE UNCHANGED <<accepted, seen>>
    <3>1. SeenInv' BY <2>2, <2>4, <2>5, <2>6 DEF SeenInv
    <3>2. DuplicatesDropped' BY <2>4, <2>6 DEF DuplicatesDropped
    <3> QED BY <3>1, <3>2
  <2>7. CASE m \notin SeenIds /\ Remember(m) /\ accepted' = Append(accepted, d)
    <3>1. /\ accepted' \in Seq(Delivery) /\ Len(accepted') = a + 1 /\ accepted'[a + 1] = d
          /\ \A k \in 1 .. a : accepted'[k] = accepted[k]
      BY <2>7 DEF SeenInv
    <3>2. \A k \in 1 .. a + 1 : k \in 1 .. a \/ k = a + 1 BY <2>1
    <3>3. \A i \in 1 .. w : seen[i] # m BY <2>7 DEF SeenIds
    <3>4. DuplicatesDropped'
      <4> SUFFICES ASSUME NEW i \in 1 .. a + 1, NEW j \in 1 .. a + 1, i < j,
                          of'[accepted'[i]] = of'[accepted'[j]]
                   PROVE  j - i > SeenLimit
        BY <3>1 DEF DuplicatesDropped
      <4>1. i \in 1 .. a BY <2>1
      <4>2. CASE j \in 1 .. a BY <2>4, <3>1, <4>1, <4>2 DEF DuplicatesDropped
      <4>3. CASE j = a + 1
        <5>1. of[accepted[i]] = m BY <2>2, <2>4, <3>1, <4>1, <4>3
        <5>2. ASSUME i > a - w PROVE FALSE
          <6>1. i - (a - w) \in 1 .. w /\ a - w + (i - (a - w)) = i BY <2>1, <4>1, <5>2
          <6> QED BY <3>3, <5>1, <6>1 DEF SeenInv
        <5>3. i <= a - w BY <2>1, <4>1, <5>2
        <5> QED BY <2>1, <4>1, <4>3, <5>3
      <4> QED BY <3>2, <4>2, <4>3
    <3> DEFINE kept == IF w = SeenLimit THEN Tail(seen) ELSE seen
               o == IF w = SeenLimit THEN 1 ELSE 0
    <3>5. /\ kept \in Seq(Message) /\ Len(kept) = w - o /\ o \in 0 .. 1 /\ w - o \in Nat
          /\ \A i \in 1 .. w - o : kept[i] = seen[i + o]
      BY <2>1 DEF SeenInv
    <3>6. seen' = Append(kept, m) BY <2>7 DEF Remember
    <3> HIDE DEF kept, o
    <3>7. /\ seen' \in Seq(Message) /\ Len(seen') = w - o + 1 /\ seen'[w - o + 1] = m
          /\ \A i \in 1 .. w - o : seen'[i] = seen[i + o]
      BY <3>5, <3>6
    <3>8. /\ w - o + 1 <= SeenLimit /\ w - o + 1 <= a + 1
          /\ w - o + 1 < SeenLimit => w - o + 1 = a + 1
      BY <2>1, <3>5 DEF o
    <3>9. ASSUME NEW i \in 1 .. w - o + 1
          PROVE  seen'[i] = of'[accepted'[(a + 1) - (w - o + 1) + i]]
      <4>1. CASE i \in 1 .. w - o
        <5>1. i + o \in 1 .. w BY <2>1, <3>5, <4>1
        <5>2. a - w + (i + o) \in 1 .. a BY <2>5, <5>1
        <5>3. (a + 1) - (w - o + 1) + i = a - w + (i + o) BY <2>1, <3>5, <4>1
        <5>4. seen[i + o] = of[accepted[a - w + (i + o)]] BY <5>1 DEF SeenInv
        <5> QED BY <2>4, <3>1, <3>7, <4>1, <5>2, <5>3, <5>4
      <4>2. CASE i = w - o + 1
        <5>1. (a + 1) - (w - o + 1) + i = a + 1 BY <2>1, <3>5, <4>2
        <5> QED BY <2>2, <3>1, <3>7, <4>2, <5>1
      <4> QED BY <3>5, <4>1, <4>2
    <3>10. \A k \in 1 .. a + 1 : pc'[accepted'[k]] # "new" BY <2>2, <2>4, <3>1, <3>2
    <3>11. SeenInv' BY <2>2, <3>1, <3>7, <3>8, <3>9, <3>10 DEF SeenInv
    <3> QED BY <3>4, <3>11
  <2> QED BY <1>2, <2>6, <2>7 DEF Hear
<1>3. CASE Stop BY <1>1, <1>3 DEF Stop
<1>4. ASSUME NEW d \in Delivery, Step(d) PROVE SeenInv' /\ DuplicatesDropped'
  <2>1. UNCHANGED gatewayVars
    BY <1>4 DEF Step, QueueTurn, Start, GiveUp, CloseCurrent, Forget, LookUp, Bind, Attach, Return
  <2>2. pc[d] # "new" /\ \E to \in Place \ {"new"} : pc' = [pc EXCEPT ![d] = to]
    BY <1>4
    DEF Step, QueueTurn, Start, GiveUp, CloseCurrent, Forget, LookUp, Bind, Attach, Return,
        Goto, Place, Unqueued, Running
  <2>3. \A e \in Delivery : pc[e] # "new" => pc'[e] # "new" BY <2>2 DEF TurnTypes
  <2> QED BY <1>1, <2>1, <2>3
<1>5. ASSUME NEW k \in Command, Obey(k) PROVE SeenInv' /\ DuplicatesDropped'
  BY <1>1, <1>5 DEF Obey, ResetLooksUp, ResetAttaches, SwitchAgent
<1>6. CASE UNCHANGED vars BY <1>1, <1>6 DEF vars
<1> QED BY <1>2, <1>3, <1>4, <1>5, <1>6 DEF Next

\* Every reachable state remembers so, and no message is taken again too soon.
LEMMA SeenHolds == Spec => [](SeenInv /\ DuplicatesDropped)
<1>1. Init => SeenInv /\ DuplicatesDropped
  <2> SUFFICES ASSUME Init PROVE SeenInv /\ DuplicatesDropped OBVIOUS
  <2>1. Len(accepted) = 0 /\ Len(seen) = 0 /\ accepted \in Seq(Delivery) /\ seen \in Seq(Message)
    BY DEF Init
  <2> QED BY <2>1, DiscordAssumption DEF Init, SeenInv, DuplicatesDropped
<1>2. TurnTypes /\ SeenInv /\ DuplicatesDropped /\ [Next]_vars => SeenInv' /\ DuplicatesDropped'
  BY SeenStep
<1> QED BY <1>1, <1>2, TurnTypesHold, PTL DEF Spec

\* A message delivered again is answered once, unless SeenLimit others were
\* taken in between (rememberMessage's set and its order).
THEOREM DuplicatesAreDropped == Spec => []DuplicatesDropped
BY SeenHolds, PTL

-----------------------------------------------------------------------------
(* Types *)

CommandTypes == command \in [Command -> Channel \cup {"given", "done"}]

\* Every reachable state is well typed, the set of messages seen bounded and
\* every conversation a turn has in the table.
THEOREM DiscordTypes == Spec => []TypeOK
<1>1. Init => CommandTypes BY DEF Init, CommandTypes
<1>2. CommandTypes /\ [Next]_vars => CommandTypes'
  BY DEF CommandTypes, Next, Step, Obey, Stop, Hear, QueueTurn, Start, GiveUp, CloseCurrent,
         Forget, LookUp, Bind, Attach, Return, ResetLooksUp, ResetAttaches, SwitchAgent, vars
<1>3. TurnTypes /\ SeenInv /\ BoundInv /\ CommandTypes => TypeOK
  <2> SUFFICES ASSUME TurnTypes, SeenInv, BoundInv, CommandTypes PROVE TypeOK OBVIOUS
  <2>1. session \in [Delivery -> 0 .. Len(rows)] BY DEF TurnTypes, BoundInv
  <2>2. seen \in Seq(Message) /\ Len(seen) <= SeenLimit BY DEF SeenInv
  <2>3. of \in [Delivery -> Message \cup {None}] /\ accepted \in Seq(Delivery) BY DEF SeenInv
  <2> QED
    BY <2>1, <2>2, <2>3 DEF TurnTypes, CommandTypes, TypeOK, Place, Unqueued, Row
<1> QED BY <1>1, <1>2, <1>3, TurnTypesHold, SeenHolds, BoundHolds, PTL DEF Spec

-----------------------------------------------------------------------------
(* The approvals: types *)

\* As much of the types as the proofs need.
ApprovalTypes ==
    /\ asking \in [Request -> {"new", "sending", "waiting", "closing", "returning", "gone"}]
    /\ response \in [Request -> {{}, {"approved"}, {"denied"}}]
    /\ card \in [Request -> {"none", "buttons"} \cup A!Verdict]
    /\ verdict \in [Request -> {"none"} \cup A!Verdict]
    /\ press \in [Press -> {"none", "sent", "found", "shown", "done"}]
    /\ pressed \in [Press -> A!Button \cup {A!NoButton}]
    /\ \A p \in Press : press[p] # "none" => pressed[p] \in A!Button

\* Every step keeps them.
LEMMA ApprovalTypesStep == ASSUME ApprovalTypes, [A!Next]_(A!vars) PROVE ApprovalTypes'
<1> USE DEF ApprovalTypes, A!Answer, A!Closed, A!Verdict, A!Goto, A!Shows, A!Decide
<1>1. ASSUME NEW r \in Request, A!Register(r) \/ A!Return(r) \/ A!Cancel(r) PROVE ApprovalTypes'
  BY <1>1 DEF A!Register, A!Return, A!Cancel
<1>2. ASSUME NEW r \in Request, A!Post(r) PROVE ApprovalTypes' BY <1>2 DEF A!Post
<1>3. ASSUME NEW r \in Request, A!TakeAnswer(r) PROVE ApprovalTypes' BY <1>3 DEF A!TakeAnswer
<1>4. ASSUME NEW r \in Request, A!HearCancel(r) \/ A!Expire(r) PROVE ApprovalTypes'
  BY <1>4 DEF A!HearCancel, A!Expire
<1>5. ASSUME NEW r \in Request, A!Close(r) PROVE ApprovalTypes'
  <2>1. card' = card \/ A!Shows(r, verdict[r]) BY <1>5 DEF A!Close
  <2>2. verdict[r] \in {"none"} \cup A!Verdict OBVIOUS
  <2> QED BY <1>5, <2>1, <2>2 DEF A!Close
<1>6. ASSUME NEW p \in Press, NEW b \in A!Button, A!PressButton(p, b) PROVE ApprovalTypes'
  BY <1>6 DEF A!PressButton
<1>7. ASSUME NEW p \in Press, A!Find(p) PROVE ApprovalTypes' BY <1>7 DEF A!Find
<1>8. ASSUME NEW p \in Press, A!Show(p) PROVE ApprovalTypes'
  <2>1. pressed[p].answer \in A!Answer BY <1>8 DEF A!Show, A!Button
  <2> QED BY <1>8, <2>1 DEF A!Show
<1>9. ASSUME NEW p \in Press, A!GiveAnswer(p) PROVE ApprovalTypes'
  <2>1. pressed[p].answer \in A!Answer BY <1>9 DEF A!GiveAnswer, A!Button
  <2>2. {pressed[p].answer} \in {{}, {"approved"}, {"denied"}} BY <2>1
  <2>3. response' \in [Request -> {{}, {"approved"}, {"denied"}}] BY <1>9, <2>2 DEF A!GiveAnswer
  <2> QED BY <1>9, <2>3 DEF A!GiveAnswer
<1>10. CASE UNCHANGED A!vars BY <1>10 DEF A!vars
<1> QED
  BY <1>1, <1>2, <1>3, <1>4, <1>5, <1>6, <1>7, <1>8, <1>9, <1>10 DEF A!Next, A!Approve, A!Handle

\* Every reachable state has these types.
LEMMA ApprovalTypesHold == A!Spec => []ApprovalTypes
<1>1. A!Init => ApprovalTypes BY DEF A!Init, ApprovalTypes
<1>2. ApprovalTypes /\ [A!Next]_(A!vars) => ApprovalTypes' BY ApprovalTypesStep
<1> QED BY <1>1, <1>2, PTL DEF A!Spec

-----------------------------------------------------------------------------
(* Who decides *)

\* The owner of request r has pressed the button of that answer, and the
\* handler of the press has come to its end.
Given(r, answer) ==
    \E p \in Press :
        /\ press[p] = "done"
        /\ pressed[p] = [request |-> r, by |-> Owner[r], answer |-> answer]

\* What makes OwnerDecides inductive: an answer in a channel has been given too,
\* and a press that has got past the lookup is the owner's.
DecideInv ==
    /\ \A r \in Request : verdict[r] \in A!Answer => Given(r, verdict[r])
    /\ \A r \in Request : \A a \in response[r] : Given(r, a)
    /\ \A p \in Press :
          press[p] \in {"found", "shown"} => pressed[p].by = Owner[pressed[p].request]

\* Every step keeps it.
LEMMA DecideStep ==
    ASSUME ApprovalTypes, ApprovalTypes', DecideInv, [A!Next]_(A!vars) PROVE DecideInv'
<1>1. ASSUME NEW r, NEW a, Given(r, a) PROVE Given(r, a)'
  <2>1. PICK p \in Press : /\ press[p] = "done"
                           /\ pressed[p] = [request |-> r, by |-> Owner[r], answer |-> a]
    BY <1>1 DEF Given
  <2>2. press'[p] = "done" /\ pressed'[p] = pressed[p]
    BY <2>1
    DEF A!Next, A!Approve, A!Handle, A!vars, ApprovalTypes, A!Register, A!Post, A!TakeAnswer, A!HearCancel, A!Expire,
        A!Close, A!Return, A!Cancel, A!PressButton, A!Find, A!Show, A!GiveAnswer
  <2> QED BY <2>1, <2>2 DEF Given
<1> USE DEF ApprovalTypes, DecideInv, A!Goto, A!Decide
<1>2. ASSUME NEW r \in Request, A!Register(r) \/ A!Close(r) \/ A!Return(r) \/ A!Cancel(r)
      PROVE  DecideInv'
  BY <1>1, <1>2 DEF A!Register, A!Close, A!Return, A!Cancel
<1>3. ASSUME NEW r \in Request, A!Post(r) \/ A!HearCancel(r) \/ A!Expire(r) PROVE DecideInv'
  <2>1. \A s \in Request : verdict'[s] \in A!Answer => verdict'[s] = verdict[s]
    BY <1>3 DEF A!Post, A!HearCancel, A!Expire, A!Answer
  <2> QED BY <1>1, <1>3, <2>1 DEF A!Post, A!HearCancel, A!Expire
<1>4. ASSUME NEW r \in Request, A!TakeAnswer(r) PROVE DecideInv'
  <2>1. \A s \in Request : verdict'[s] = verdict[s] \/ (s = r /\ verdict'[s] \in response[s])
    BY <1>4 DEF A!TakeAnswer
  <2>2. \A s \in Request : response'[s] \subseteq response[s] BY <1>4 DEF A!TakeAnswer
  <2>3. UNCHANGED <<press, pressed>> BY <1>4 DEF A!TakeAnswer
  <2> QED BY <1>1, <2>1, <2>2, <2>3
<1>5. ASSUME NEW p \in Press, NEW b \in A!Button, A!PressButton(p, b) PROVE DecideInv'
  BY <1>1, <1>5 DEF A!PressButton
<1>6. ASSUME NEW p \in Press, A!Find(p) PROVE DecideInv' BY <1>1, <1>6 DEF A!Find
<1>7. ASSUME NEW p \in Press, A!Show(p) PROVE DecideInv' BY <1>1, <1>7 DEF A!Show
<1>8. ASSUME NEW p \in Press, A!GiveAnswer(p) PROVE DecideInv'
  <2> DEFINE r == pressed[p].request a == pressed[p].answer
  <2>1. pressed[p] \in A!Button /\ pressed[p].by = Owner[r] BY <1>8 DEF A!GiveAnswer
  <2>2. pressed[p] = [request |-> r, by |-> Owner[r], answer |-> a] BY <2>1 DEF A!Button
  <2>3. press'[p] = "done" /\ pressed' = pressed /\ verdict' = verdict BY <1>8 DEF A!GiveAnswer
  <2>4. Given(r, a)' BY <2>2, <2>3 DEF Given
  <2>5. \A s \in Request : \A x \in response'[s] : x \in response[s] \/ (s = r /\ x = a)
    BY <1>8 DEF A!GiveAnswer
  <2>6. \A s \in Request : \A x \in response'[s] : Given(s, x)' BY <1>1, <2>3, <2>4, <2>5
  <2> QED BY <1>1, <1>8, <2>3, <2>6 DEF A!GiveAnswer
<1>9. CASE UNCHANGED A!vars BY <1>1, <1>9 DEF A!vars
<1> QED BY <1>2, <1>3, <1>4, <1>5, <1>6, <1>7, <1>8, <1>9 DEF A!Next, A!Approve, A!Handle

\* A request is approved or denied only by a press of the user it is for, on
\* the button of that answer (approvalInteraction, approve's select).
THEOREM OnlyTheOwnerDecides == A!Spec => []A!OwnerDecides
<1>1. A!Init => DecideInv BY DEF A!Init, DecideInv, A!Answer
<1>2. ApprovalTypes /\ ApprovalTypes' /\ DecideInv /\ [A!Next]_(A!vars) => DecideInv' BY DecideStep
<1>3. DecideInv => A!OwnerDecides BY DEF DecideInv, A!OwnerDecides, Given
<1> QED BY <1>1, <1>2, <1>3, ApprovalTypesHold, PTL DEF A!Spec

-----------------------------------------------------------------------------
(* What the card says *)

\* What makes ClosedMeansNotRun inductive: a card is closed after the verdict,
\* which is then no answer and stays.
ClosedInv ==
    \A r \in Request :
        /\ asking[r] = "closing" => verdict[r] \in A!Closed
        /\ card[r] \in A!Closed => verdict[r] \in A!Closed /\ asking[r] \in {"closing", "returning", "gone"}

\* Every reachable state has it.
LEMMA ClosedHolds == A!Spec => []ClosedInv
<1>1. A!Init => ClosedInv BY DEF A!Init, ClosedInv, A!Closed
<1>2. ApprovalTypes /\ ClosedInv /\ [A!Next]_(A!vars) => ClosedInv'
  <2> SUFFICES ASSUME ApprovalTypes, ClosedInv, [A!Next]_(A!vars) PROVE ClosedInv' OBVIOUS
  <2> USE DEF ApprovalTypes, ClosedInv, A!Closed, A!Answer, A!Verdict, A!Goto, A!Shows, A!Decide
  <2>1. ASSUME NEW r \in Request, A!Register(r) \/ A!Return(r) \/ A!Cancel(r) PROVE ClosedInv'
    BY <2>1 DEF A!Register, A!Return, A!Cancel
  <2>2. ASSUME NEW r \in Request, A!Post(r) PROVE ClosedInv' BY <2>2 DEF A!Post
  <2>3. ASSUME NEW r \in Request, A!TakeAnswer(r) PROVE ClosedInv' BY <2>3 DEF A!TakeAnswer
  <2>4. ASSUME NEW r \in Request, A!HearCancel(r) \/ A!Expire(r) PROVE ClosedInv'
    BY <2>4 DEF A!HearCancel, A!Expire
  <2>5. ASSUME NEW r \in Request, A!Close(r) PROVE ClosedInv' BY <2>5 DEF A!Close
  <2>6. ASSUME NEW p \in Press, A!Show(p) PROVE ClosedInv'
    <3>1. pressed[p].answer \in A!Answer BY <2>6 DEF A!Show, A!Button
    <3>2. \A r \in Request : card'[r] = card[r] \/ card'[r] \notin A!Closed
      BY <2>6, <3>1 DEF A!Show
    <3> QED BY <2>6, <3>2 DEF A!Show
  <2>7. ASSUME NEW p \in Press, A!Find(p) \/ A!GiveAnswer(p) PROVE ClosedInv'
    BY <2>7 DEF A!Find, A!GiveAnswer
  <2>8. ASSUME NEW p \in Press, NEW b \in A!Button, A!PressButton(p, b) PROVE ClosedInv'
    BY <2>8 DEF A!PressButton
  <2>9. CASE UNCHANGED A!vars BY <2>9 DEF A!vars
  <2> QED BY <2>1, <2>2, <2>3, <2>4, <2>5, <2>6, <2>7, <2>8, <2>9 DEF A!Next, A!Approve, A!Handle
<1> QED BY <1>1, <1>2, ApprovalTypesHold, PTL DEF A!Spec

\* A card that says that no action was taken is right: the call it asked about
\* was not approved (closeApproval).
THEOREM ClosedCardsAreRight == A!Spec => []A!ClosedMeansNotRun
<1>1. ClosedInv => A!ClosedMeansNotRun BY DEF ClosedInv, A!ClosedMeansNotRun, A!Closed
<1> QED BY <1>1, ClosedHolds, PTL


-----------------------------------------------------------------------------
(* The approvals: all of the types *)

PressesTyped ==
    \A p \in Press :
        IF press[p] = "none" THEN pressed[p] = A!NoButton ELSE pressed[p] \in A!Button

CardTyped == card \in [Request -> {"none", "buttons"} \cup A!Answer \cup A!Closed]

\* A press is a button of some card, once it is made.
LEMMA PressesTypedStep ==
    ASSUME ApprovalTypes, PressesTyped, [A!Next]_(A!vars) PROVE PressesTyped'
<1> USE DEF ApprovalTypes, PressesTyped
<1>1. CASE UNCHANGED <<press, pressed>> BY <1>1
<1>2. ASSUME NEW p \in Press, A!Find(p) \/ A!Show(p) \/ A!GiveAnswer(p) PROVE PressesTyped'
  <2>1. pressed' = pressed /\ press[p] # "none"
    BY <1>2 DEF A!Find, A!Show, A!GiveAnswer
  <2>2. \A q \in Press : press'[q] = "none" <=> press[q] = "none"
    BY <1>2 DEF A!Find, A!Show, A!GiveAnswer
  <2> QED BY <2>1, <2>2
<1>3. ASSUME NEW p \in Press, NEW b \in A!Button, A!PressButton(p, b) PROVE PressesTyped'
  BY <1>3 DEF A!PressButton
<1> QED
  BY <1>1, <1>2, <1>3
  DEF A!Next, A!Approve, A!Handle, A!vars, A!Register, A!Post, A!TakeAnswer, A!HearCancel,
      A!Expire, A!Close, A!Return, A!Cancel

\* A card shows its buttons, an answer, or why there is none.
LEMMA CardTypedStep ==
    ASSUME ApprovalTypes, ClosedInv, CardTyped, [A!Next]_(A!vars) PROVE CardTyped'
<1> USE DEF ApprovalTypes, CardTyped, A!Shows
<1>1. CASE UNCHANGED card BY <1>1
<1>2. ASSUME NEW r \in Request, A!Close(r) PROVE CardTyped'
  <2>1. verdict[r] \in A!Closed BY <1>2 DEF A!Close, ClosedInv
  <2> QED BY <1>2, <2>1 DEF A!Close
<1>3. ASSUME NEW p \in Press, A!Show(p) PROVE CardTyped'
  <2>1. pressed[p].answer \in A!Answer BY <1>3 DEF A!Show, A!Button
  <2> QED BY <1>3, <2>1 DEF A!Show
<1>4. ASSUME NEW r \in Request, A!Post(r) PROVE CardTyped' BY <1>4 DEF A!Post
<1> QED
  BY <1>1, <1>2, <1>3, <1>4
  DEF A!Next, A!Approve, A!Handle, A!vars, A!Register, A!TakeAnswer, A!HearCancel,
      A!Expire, A!Return, A!Cancel, A!PressButton, A!Find, A!GiveAnswer

\* Who is cancelled, and what is in the map.
RestTyped == cancelled \in [Request -> BOOLEAN] /\ approvals \subseteq Request

\* Every step keeps the types of the approvals.
LEMMA RestTypedStep == ASSUME RestTyped, [A!Next]_(A!vars) PROVE RestTyped'
BY DEF RestTyped, A!Next, A!Approve, A!Handle, A!vars, A!Register, A!Post, A!TakeAnswer,
       A!HearCancel, A!Expire, A!Close, A!Return, A!Cancel, A!PressButton, A!Find, A!Show,
       A!GiveAnswer

\* Every reachable state of the approvals is well typed.
LEMMA ApprovalsWellTyped == A!Spec => []A!TypeOK
<1>1. A!Init => PressesTyped /\ CardTyped /\ RestTyped
  BY DEF A!Init, PressesTyped, CardTyped, RestTyped
<1>2. /\ ApprovalTypes /\ ClosedInv /\ PressesTyped /\ CardTyped /\ RestTyped
      /\ [A!Next]_(A!vars)
      => PressesTyped' /\ CardTyped' /\ RestTyped'
  BY PressesTypedStep, CardTypedStep, RestTypedStep
<1>3. ApprovalTypes /\ PressesTyped /\ CardTyped /\ RestTyped => A!TypeOK
  BY DEF ApprovalTypes, PressesTyped, CardTyped, RestTyped, A!TypeOK
<1> QED BY <1>1, <1>2, <1>3, ApprovalTypesHold, ClosedHolds, PTL DEF A!Spec

-----------------------------------------------------------------------------
(* The users *)

\* What makes UsersInv inductive: a code that is written down or was redeemed
\* has been minted, so that no later one is the same; and an owner lets
\* somebody in with a bot that has been paired with.
UsersKept ==
    /\ U!UsersInv
    /\ \A row \in codes : row.code \in minted
    /\ \A p \in paired : p.code \in minted
    /\ \A request \in adding : \E p \in paired : p.bot = request.bot

\* A step that takes no role, pings nobody new and redeems nothing.
LEMMA UsersElsewhere ==
    ASSUME UsersKept, UNCHANGED <<role, mention, paired>>, adding' \subseteq adding,
           codes' \subseteq U!Row, minted \subseteq minted', minted' \subseteq Code,
           \A row \in codes' :
              row.code \in minted' /\ \A p \in paired : p.code # row.code
    PROVE  UsersKept'
BY DEF UsersKept, U!UsersInv, U!TypeOK, U!RedeemedOnce, U!AdmittedByOwner, U!Admitted,
       U!PingsKnown, U!MentionUsers

\* Every step keeps it.
LEMMA UsersStep == ASSUME UsersKept, [U!Next]_(U!vars) PROVE UsersKept'
<1>1. ASSUME NEW bot \in Bot, NEW code \in Code, U!Mint(code, bot) PROVE UsersKept'
  <2> DEFINE new == [code |-> code, bot |-> bot, lapsed |-> FALSE]
  <2>1. new \in U!Row /\ new.code = code BY DEF U!Row
  <2>2. /\ \A row \in codes' : row \in codes \/ row = new
        /\ code \notin minted /\ minted' = minted \cup {code}
    BY <1>1 DEF U!Mint, U!Swept
  <2> HIDE DEF new
  <2>3. \A row \in codes' :
           /\ row \in U!Row /\ row.code \in minted'
           /\ \A p \in paired : p.code # row.code
    BY <2>1, <2>2 DEF UsersKept, U!UsersInv, U!TypeOK, U!RedeemedOnce
  <2> QED BY <1>1, <2>3, UsersElsewhere DEF U!Mint, UsersKept, U!UsersInv, U!TypeOK
<1>2. ASSUME NEW row \in codes, U!Lapse(row) PROVE UsersKept'
  <2>1. row \in U!Row BY DEF UsersKept, U!UsersInv, U!TypeOK
  <2>2. [row EXCEPT !.lapsed = TRUE] \in U!Row /\ [row EXCEPT !.lapsed = TRUE].code = row.code
    BY <2>1 DEF U!Row
  <2>3. \A other \in codes' :
           /\ other \in U!Row /\ other.code \in minted'
           /\ \A p \in paired : p.code # other.code
    BY <1>2, <2>2 DEF U!Lapse, UsersKept, U!UsersInv, U!TypeOK, U!RedeemedOnce
  <2> QED BY <1>2, <2>3, UsersElsewhere DEF U!Lapse, UsersKept, U!UsersInv, U!TypeOK
<1>3. ASSUME NEW bot \in Bot, NEW user \in User, NEW code \in Code, U!Claim(bot, user, code)
      PROVE  UsersKept'
  <2> DEFINE row == [code |-> code, bot |-> bot, lapsed |-> FALSE]
             claim == [code |-> code, bot |-> bot, user |-> user]
  <2>1. /\ row \in codes /\ row.code = code
        /\ codes' \subseteq codes /\ \A other \in codes' : other.code # code
        /\ role' = [role EXCEPT ![<<bot, user>>] = "admin"]
        /\ paired' = paired \cup {claim}
        /\ UNCHANGED <<mention, minted, adding>>
    BY <1>3 DEF U!Claim, U!Swept
  <2>2. /\ claim.code = code /\ claim.bot = bot /\ claim.user = user
        /\ claim \in [code : Code, bot : Bot, user : User]
    OBVIOUS
  <2> HIDE DEF row, claim
  <2>3. U!TypeOK' BY <2>1, <2>2 DEF UsersKept, U!UsersInv, U!TypeOK
  <2>4. U!RedeemedOnce'
    BY <2>1, <2>2 DEF UsersKept, U!UsersInv, U!RedeemedOnce
  <2>5. \A place \in Bot \X User :
           role'[place] = IF place = <<bot, user>> THEN "admin" ELSE role[place]
    BY <2>1 DEF UsersKept, U!UsersInv, U!TypeOK
  <2>6. \A b \in Bot, u \in User :
           role'[<<b, u>>] = IF b = bot /\ u = user THEN "admin" ELSE role[<<b, u>>]
    BY <2>5
  <2>7. U!AdmittedByOwner'
    <3> SUFFICES ASSUME NEW b \in Bot, NEW u \in User
                 PROVE  /\ role'[<<b, u>>] = "admin" =>
                              \E p \in paired' : p.bot = b /\ p.user = u
                        /\ role'[<<b, u>>] # "none" => \E p \in paired' : p.bot = b
      BY DEF U!AdmittedByOwner, U!Admitted
    <3>1. CASE b = bot /\ u = user BY <2>1, <2>2, <3>1
    <3>2. CASE ~(b = bot /\ u = user)
      <4>1. role'[<<b, u>>] = role[<<b, u>>] BY <2>6, <3>2
      <4>2. /\ role[<<b, u>>] = "admin" => \E p \in paired : p.bot = b /\ p.user = u
            /\ role[<<b, u>>] # "none" => \E p \in paired : p.bot = b
        BY DEF UsersKept, U!UsersInv, U!AdmittedByOwner, U!Admitted
      <4> QED BY <2>1, <4>1, <4>2
    <3> QED BY <3>1, <3>2
  <2>8. U!PingsKnown'
    <3>1. \A b \in Bot, u \in User : role[<<b, u>>] # "none" => role'[<<b, u>>] # "none"
      BY <2>6
    <3> QED BY <2>1, <3>1 DEF UsersKept, U!UsersInv, U!PingsKnown, U!MentionUsers, U!Admitted
  <2> QED BY <2>1, <2>2, <2>3, <2>4, <2>7, <2>8 DEF UsersKept, U!UsersInv
<1>4. ASSUME NEW bot \in Bot, NEW actor \in User, NEW user \in User, U!CheckAdd(bot, actor, user)
      PROVE  UsersKept'
  <2>1. \E p \in paired : p.bot = bot
    BY <1>4 DEF U!CheckAdd, UsersKept, U!UsersInv, U!AdmittedByOwner
  <2> QED
    BY <1>4, <2>1
    DEF U!CheckAdd, UsersKept, U!UsersInv, U!TypeOK, U!RedeemedOnce, U!AdmittedByOwner,
        U!Admitted, U!PingsKnown, U!MentionUsers
<1>5. ASSUME NEW request \in adding, U!Add(request) PROVE UsersKept'
  <2>1. request.bot \in Bot /\ request.user \in User
    BY DEF UsersKept, U!UsersInv, U!TypeOK
  <2>2. adding' \subseteq adding /\ UNCHANGED <<mention, codes, minted, paired>>
    BY <1>5 DEF U!Add
  <2>3. CASE UNCHANGED role BY <2>2, <2>3, UsersElsewhere DEF UsersKept, U!UsersInv, U!TypeOK, U!RedeemedOnce
  <2>4. CASE role' = [role EXCEPT ![<<request.bot, request.user>>] = "user"]
    <3>1. \A place \in Bot \X User :
             role'[place] = IF place = <<request.bot, request.user>> THEN "user" ELSE role[place]
      BY <2>4 DEF UsersKept, U!UsersInv, U!TypeOK
    <3>2. \A b \in Bot, u \in User :
             role'[<<b, u>>] =
                 IF b = request.bot /\ u = request.user THEN "user" ELSE role[<<b, u>>]
      BY <3>1
    <3>3. \E p \in paired : p.bot = request.bot BY DEF UsersKept
    <3>4. U!AdmittedByOwner'
      <4> SUFFICES ASSUME NEW b \in Bot, NEW u \in User
                   PROVE  /\ role'[<<b, u>>] = "admin" =>
                                \E p \in paired : p.bot = b /\ p.user = u
                          /\ role'[<<b, u>>] # "none" => \E p \in paired : p.bot = b
        BY <2>2 DEF U!AdmittedByOwner, U!Admitted
      <4>1. CASE b = request.bot /\ u = request.user BY <3>2, <3>3, <4>1
      <4>2. CASE ~(b = request.bot /\ u = request.user)
        BY <3>2, <4>2 DEF UsersKept, U!UsersInv, U!AdmittedByOwner, U!Admitted
      <4> QED BY <4>1, <4>2
    <3>5. U!PingsKnown'
      <4> SUFFICES ASSUME NEW b \in Bot, NEW u \in User, <<b, u>> \in mention
                   PROVE  role'[<<b, u>>] # "none"
        BY <2>2 DEF U!PingsKnown, U!MentionUsers, U!Admitted
      <4>1. role[<<b, u>>] # "none"
        BY DEF UsersKept, U!UsersInv, U!PingsKnown, U!MentionUsers, U!Admitted
      <4> QED BY <3>2, <4>1
    <3>6. U!TypeOK' /\ U!RedeemedOnce'
      BY <2>2, <2>4 DEF UsersKept, U!UsersInv, U!TypeOK, U!RedeemedOnce
    <3> QED BY <2>2, <3>4, <3>5, <3>6 DEF UsersKept, U!UsersInv
  <2> QED BY <1>5, <2>3, <2>4 DEF U!Add
<1>6. ASSUME NEW bot \in Bot, NEW user \in User, NEW enabled \in BOOLEAN,
             U!SetMention(bot, user, enabled)
      PROVE  UsersKept'
  <2>1. mention' \subseteq mention \cup {<<bot, user>>} BY <1>6 DEF U!SetMention
  <2> QED
    BY <1>6, <2>1
    DEF U!SetMention, UsersKept, U!UsersInv, U!TypeOK, U!RedeemedOnce, U!AdmittedByOwner,
        U!Admitted, U!PingsKnown, U!MentionUsers
<1>7. CASE UNCHANGED U!vars
  BY <1>7
  DEF U!vars, UsersKept, U!UsersInv, U!TypeOK, U!RedeemedOnce, U!AdmittedByOwner,
      U!Admitted, U!PingsKnown, U!MentionUsers
<1> QED BY <1>1, <1>2, <1>3, <1>4, <1>5, <1>6, <1>7 DEF U!Next

\* Whom a bot obeys was let in by an owner of it, who had a code of it that
\* nobody else has redeemed, and it pings nobody else (DiscordPairClaim,
\* userCommand, mentionCommand).
THEOREM UsersLetInByOwner == U!Spec => []U!UsersInv
<1>1. U!Init => UsersKept
  BY DEF U!Init, UsersKept, U!UsersInv, U!TypeOK, U!RedeemedOnce, U!AdmittedByOwner,
         U!Admitted, U!PingsKnown, U!MentionUsers
<1>2. UsersKept /\ [U!Next]_(U!vars) => UsersKept' BY UsersStep
<1>3. UsersKept => U!UsersInv BY DEF UsersKept
<1> QED BY <1>1, <1>2, <1>3, PTL DEF U!Spec

-----------------------------------------------------------------------------
(* The bot *)

\* A behaviour of the bot is one of each of its parts.
LEMMA PartsBehave == BotSpec => Spec /\ A!Spec /\ U!Spec
<1>1. BotInit => Init /\ A!Init /\ U!Init BY DEF BotInit
<1>2. [BotNext]_<<part, vars, approvalVars, userVars>>
         => [Next]_vars /\ [A!Next]_(A!vars) /\ [U!Next]_(U!vars)
  BY DEF BotNext, approvalVars, userVars, A!vars, U!vars
<1> QED BY <1>1, <1>2, PTL DEF BotSpec, Spec, A!Spec, U!Spec

\* The state of the bot is well formed: duplicates are dropped, an empty entry
\* of the map is an idle channel, and whom it obeys was let in by an owner
\* (rememberMessage, queueTurn, approve, DiscordPairClaim, userCommand).
THEOREM BotIsWellFormed == BotSpec => []BotInv
<1>1. TypeOK /\ DuplicatesDropped /\ EmptyMeansIdle /\ A!TypeOK /\ U!UsersInv => BotInv
  BY DEF BotInv
<1> QED
  BY <1>1, PartsBehave, DiscordTypes, DuplicatesAreDropped, EmptyIsIdle, ApprovalsWellTyped,
     UsersLetInByOwner, PTL

\* A request is approved or denied only by a press of the user it is for, on
\* the button of that answer (approvalInteraction, approve's select).
THEOREM BotObeysTheOwner == BotSpec => []OwnerDecides
<1>1. A!OwnerDecides => OwnerDecides BY DEF OwnerDecides
<1> QED BY <1>1, PartsBehave, OnlyTheOwnerDecides, PTL

\* A card that says that no action was taken is right: the call it asked about
\* was not approved (closeApproval).
THEOREM BotShowsTheTruth == BotSpec => []ClosedMeansNotRun
<1>1. A!ClosedMeansNotRun => ClosedMeansNotRun BY DEF ClosedMeansNotRun
<1> QED BY <1>1, PartsBehave, ClosedCardsAreRight, PTL

\* A turn queued behind another never answers in an older conversation than
\* it, whatever the rest of the bot does (queueTurn around answerFor).
THEOREM BotAdvances == BotSpec => []ConversationsAdvance
BY PartsBehave, ConversationsOnlyAdvance, PTL


=============================================================================
