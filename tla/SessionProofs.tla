--------------------------- MODULE SessionProofs ----------------------------
(***************************************************************************)
(* Proofs about sessions and turns, for any sets of sessions and turns and *)
(* any bounds.                                                             *)
(*                                                                         *)
(* The first half holds whoever takes the gate: the types, the gate, whole *)
(* exchanges and the calls of completed turns.  The second is what the     *)
(* gate is for: when every turn takes it, nothing comes between a question *)
(* and its answer, a summary stands for a beginning of the history, every  *)
(* answer is based on all exchanges before it, and requests to compact,    *)
(* which take no gate, still drop no message.                              *)
(***************************************************************************)
EXTENDS SessionCompaction, WellFoundedInduction, TLAPS

-----------------------------------------------------------------------------
(* Rows *)

(***************************************************************************)
(* A set of rows with rowids up to a bound has a newest row: what          *)
(* SummarySave takes the marker from is one of the rows folded in.         *)
(***************************************************************************)
LEMMA NewestRow ==
    ASSUME NEW rows, rows # {}, NEW bound \in Nat,
           \A m \in rows : m.row \in Nat /\ m.row <= bound
    PROVE  /\ Newest(rows) \in rows
           /\ \A n \in rows : n.row <= Newest(rows).row
<1> DEFINE gaps == {bound - m.row : m \in rows}
           less == {ss \in Nat \X Nat : ss[1] < ss[2]}
<1>1. gaps \subseteq Nat /\ gaps # {}
  OBVIOUS
<1>2. IsWellFoundedOn(less, Nat)
  BY NatLessThanWellFounded DEF OpToRel
<1>3. PICK least \in gaps : \A g \in gaps : ~(<<g, least>> \in less)
  <2> HIDE DEF gaps, less
  <2> QED BY <1>1, <1>2, WFMin
<1>4. ASSUME NEW g \in gaps
      PROVE  least <= g
  <2>1. g \in Nat /\ least \in Nat
    BY <1>1
  <2>2. ~(<<g, least>> \in less)
    BY <1>3
  <2>3. <<g, least>> \in Nat \X Nat
    BY <2>1
  <2>4. ~(g < least)
    <3> HIDE DEF gaps
    <3> QED BY <2>1, <2>2, <2>3
  <2> QED BY <2>1, <2>4
<1>5. PICK newest \in rows : least = bound - newest.row
  BY <1>3
<1>6. ASSUME NEW n \in rows
      PROVE  n.row <= newest.row
  <2>1. bound - n.row \in gaps
    OBVIOUS
  <2>2. bound - newest.row <= bound - n.row
    BY <1>4, <1>5, <2>1
  <2> QED BY <2>2
<1> QED BY <1>5, <1>6 DEF Newest
-----------------------------------------------------------------------------
(* Types *)

\* Every row a turn holds, and every row of the tables, has been numbered.
RowsBounded ==
    /\ \A m \in messages : m.row <= lastRow
    /\ \A t \in Turn : \A m \in history[t] \cup context[t].tail : m.row <= lastRow

\* A turn that summarizes has something to summarize, and one that runs a
\* call has that call to do.
WorkAtHand ==
    \A t \in Turn :
        /\ pc[t] = "summarizing" => context[t].tail # {}
        /\ pc[t] = "executing" => todo[t] > 0

TypeInv == TypeOK /\ RowsBounded /\ WorkAtHand

\* The initial states are well typed.
LEMMA InitTypes == Init => TypeInv
BY TurnsAssumption DEF Init, StoreInit, TurnInit, TypeInv, TypeOK, RowsBounded, WorkAtHand,
   StoreTypeOK, LockTable, RegistryLocks, PC, Context, NoContext

(***************************************************************************)
(* The steps of a turn that write to no table.                             *)
(***************************************************************************)
LEMMA LocalStepTypes ==
    ASSUME TypeInv, NEW t \in Turn,
           \/ Acquire(t) \/ GiveUp(t) \/ Release(t) \/ ReadHistory(t)
           \/ ReadFails(t) \/ LoadSummary(t) \/ SummarizeFails(t)
           \/ StartFails(t) \/ Answer(t) \/ AskTools(t) \/ RoundFails(t)
           \/ CallFails(t) \/ NextRound(t) \/ CompleteFails(t)
           \/ Resolve(t) \/ Cancel(t)
    PROVE  TypeInv'
<1> USE DEF TypeInv, TypeOK, StoreTypeOK, RowsBounded, WorkAtHand, At, Goto, storeVars,
            turnVars, gateVars, localVars, PC
<1>1. CASE Acquire(t)
  <2>1. gate' \in [LockTable -> [Session -> 0 .. 1]]
    <3>1. gate' = [gate EXCEPT ![lockTable[t]][target[t]] = 1]
      BY <1>1 DEF Acquire
    <3>2. gate \in [LockTable -> [Session -> 0 .. 1]] /\ 1 \in 0 .. 1
      OBVIOUS
    <3> HIDE DEF TypeInv, LockTable
    <3> QED BY <3>1, <3>2
  <2>2. pc' = [pc EXCEPT ![t] = "reading"]
    BY <1>1 DEF Acquire
  <2> QED BY <1>1, <2>1, <2>2 DEF Acquire
<1>2. CASE GiveUp(t)
  BY <1>2 DEF GiveUp
<1>3. CASE Release(t)
  <2>1. gate' \in [LockTable -> [Session -> 0 .. 1]]
    <3>1. CASE t \in Local
      BY <1>3, <3>1 DEF Release
    <3>2. CASE t \notin Local
      <4>1. gate' = [gate EXCEPT ![lockTable[t]][target[t]] = 0]
        BY <1>3, <3>2 DEF Release
      <4>2. gate \in [LockTable -> [Session -> 0 .. 1]] /\ 0 \in 0 .. 1
        OBVIOUS
      <4> HIDE DEF TypeInv, LockTable
      <4> QED BY <4>1, <4>2
    <3> QED BY <3>1, <3>2
  <2>2. pc' \in [Turn -> PC]
    BY <1>3 DEF Release
  <2> QED BY <1>3, <2>1, <2>2 DEF Release
<1>4. CASE ReadHistory(t)
  BY <1>4 DEF ReadHistory, History
<1>5. CASE ReadFails(t)
  BY <1>5 DEF ReadFails
<1>6. CASE LoadSummary(t)
  <2>1. PICK loaded \in {SummaryContext(target[t], history[t])} \cup
                         {c \in {WholeHistory(history[t])} : DBErrors} :
          context' = [context EXCEPT ![t] = loaded]
    BY <1>6 DEF LoadSummary
  <2>2. /\ summary[target[t]] \in SummaryRow \cup {NoSummary}
        /\ summary[target[t]].covers \in SUBSET MessageId
    BY DEF SummaryRow, NoSummary
  <2>3. SummaryTail(history[t], summary[target[t]].through) \subseteq history[t]
    BY DEF SummaryTail
  <2>4. loaded.covers \in SUBSET MessageId /\ loaded.tail \subseteq history[t]
    BY <2>2, <2>3 DEF SummaryContext, WholeHistory
  <2>5. loaded \in Context
    BY <2>2, <2>3 DEF SummaryContext, WholeHistory, Context
  <2>6. context' \in [Turn -> Context]
    BY <2>1, <2>5
  <2>7. pc' \in [Turn -> PC]
    BY <1>6 DEF LoadSummary
  <2>8. \A u \in Turn : \A m \in context'[u].tail : m.row <= lastRow
    BY <2>1, <2>4
  <2> QED BY <1>6, <2>6, <2>7, <2>8 DEF LoadSummary
<1>7. CASE SummarizeFails(t)
  BY <1>7 DEF SummarizeFails
<1>8. CASE StartFails(t)
  BY <1>8 DEF StartFails
<1>9. CASE Answer(t)
  BY <1>9, TurnsAssumption DEF Answer
<1>10. CASE AskTools(t)
  BY <1>10, TurnsAssumption DEF AskTools
<1>11. CASE RoundFails(t)
  BY <1>11 DEF RoundFails
<1>12. CASE CallFails(t)
  BY <1>12 DEF CallFails
<1>13. CASE NextRound(t)
  BY <1>13 DEF NextRound
<1>14. CASE CompleteFails(t)
  BY <1>14 DEF CompleteFails
<1>15. CASE Resolve(t)
  BY <1>15 DEF Resolve
<1>16. CASE Cancel(t)
  BY <1>16 DEF Cancel
<1> QED BY <1>1, <1>2, <1>3, <1>4, <1>5, <1>6, <1>7, <1>8, <1>9, <1>10, <1>11,
           <1>12, <1>13, <1>14, <1>15, <1>16

(***************************************************************************)
(* What a statement leaves the tables in: their types, with every message  *)
(* numbered, and no rowid taken back.                                      *)
(***************************************************************************)
StoreSane ==
    /\ StoreTypeOK
    /\ \A m \in messages : m.row <= lastRow

\* The user row a turn inserts leaves the tables well typed, and no row number
\* is taken back.
LEMMA InsertUserSane ==
    ASSUME StoreSane, NEW t \in Turn, NEW s \in Session, InsertUser(t, s)
    PROVE  StoreSane' /\ lastRow <= lastRow'
<1> DEFINE new == [turn |-> t, role |-> "user", session |-> s,
                   status |-> "pending", row |-> lastRow + 1]
<1>1. new \in MessageRow /\ new.row = lastRow + 1
  BY DEF MessageRow, Role, Status, StoreSane, StoreTypeOK
<1>2. messages' = messages \cup {new} /\ lastRow' = lastRow + 1
  BY DEF InsertUser
<1>3. \A m \in messages : m.row \in Nat
  BY DEF StoreSane, StoreTypeOK, MessageRow
<1> QED BY <1>1, <1>2, <1>3 DEF InsertUser, StoreSane, StoreTypeOK

\* Setting the status of a user row leaves the tables well typed.
LEMMA FailUserSane ==
    ASSUME StoreSane, NEW t \in Turn, NEW status \in Status, FailUser(t, status)
    PROVE  StoreSane' /\ lastRow <= lastRow'
<1>1. \A m \in messages : /\ [m EXCEPT !.status = status] \in MessageRow
                          /\ [m EXCEPT !.status = status].row = m.row
  BY DEF StoreSane, StoreTypeOK, MessageRow
<1>2. \A m \in messages' : m \in MessageRow /\ m.row <= lastRow
  BY <1>1 DEF FailUser, StoreSane, StoreTypeOK
<1>3. UNCHANGED <<sessions, calls, summary, usage, lastRow>>
  BY DEF FailUser
<1> QED BY <1>2, <1>3 DEF StoreSane, StoreTypeOK

\* The assistant row and the completed user row leave the tables well typed.
LEMMA CompleteTurnSane ==
    ASSUME StoreSane, NEW t \in Turn, NEW s \in Session, CompleteTurn(t, s)
    PROVE  StoreSane' /\ lastRow <= lastRow'
<1> DEFINE new == [turn |-> t, role |-> "assistant", session |-> s,
                   status |-> "completed", row |-> lastRow + 1]
           settled == {[m EXCEPT !.status = "completed"] : m \in messages}
<1>1. new \in MessageRow /\ new.row = lastRow + 1
  BY DEF MessageRow, Role, Status, StoreSane, StoreTypeOK
<1>2. \A m \in settled : m \in MessageRow /\ m.row <= lastRow
  BY DEF StoreSane, StoreTypeOK, MessageRow, Status
<1>3. messages' \subseteq messages \cup settled \cup {new} /\ lastRow' = lastRow + 1
  BY DEF CompleteTurn
<1>4. \A m \in messages \cup settled : m.row \in Nat
  BY <1>2 DEF StoreSane, StoreTypeOK, MessageRow
<1>5. \A m \in messages' : m \in MessageRow /\ m.row <= lastRow'
  <2> HIDE DEF new, settled
  <2> QED BY <1>1, <1>2, <1>3, <1>4 DEF StoreSane, StoreTypeOK
<1> QED BY <1>3, <1>5 DEF CompleteTurn, StoreSane, StoreTypeOK

\* A tool call stored or settled leaves the tables well typed.
LEMMA CallSane ==
    ASSUME StoreSane, NEW t \in Turn, NEW place \in Nat \X Nat,
           \/ \E id \in CallId : InsertCall(t, place, id)
           \/ \E status \in {"completed", "failed"} : UpdateCall(t, place, status)
    PROVE  StoreSane' /\ lastRow <= lastRow'
<1>1. calls' \subseteq CallRow
  <2>1. CASE \E id \in CallId : InsertCall(t, place, id)
    BY <2>1 DEF InsertCall, CallRow, StoreSane, StoreTypeOK
  <2>2. ASSUME NEW status \in {"completed", "failed"},
               UpdateCall(t, place, status)
        PROVE  calls' \subseteq CallRow
    <3>1. \A c \in calls : [c EXCEPT !.status = status] \in CallRow
      BY DEF CallRow, StoreSane, StoreTypeOK
    <3> QED BY <2>2, <3>1 DEF UpdateCall, StoreSane, StoreTypeOK
  <2> QED BY <2>1, <2>2
<1>2. UNCHANGED <<sessions, messages, summary, usage, lastRow>>
  BY DEF InsertCall, UpdateCall
<1> QED BY <1>1, <1>2 DEF StoreSane, StoreTypeOK

\* A usage row leaves the tables well typed.
LEMMA InsertUsageSane ==
    ASSUME StoreSane, NEW t \in Turn, NEW s \in Session, NEW level \in Level,
           InsertUsage(t, s, level)
    PROVE  StoreSane' /\ lastRow <= lastRow'
<1>1. \A m \in messages : m.row \in Nat
  BY DEF StoreSane, StoreTypeOK, MessageRow
<1> QED BY <1>1 DEF InsertUsage, UsageRow, StoreSane, StoreTypeOK

\* A saved summary is a row of its table, and its last row is one that exists.
LEMMA SaveSummarySane ==
    ASSUME StoreSane, NEW s \in Session, NEW ctx \in Context, ctx.tail # {},
           \A m \in ctx.tail : m.row <= lastRow,
           SaveSummary(s, ctx)
    PROVE  /\ StoreSane' /\ lastRow <= lastRow'
           /\ SummaryOf(ctx) \in SummaryRow
<1>1. \A m \in ctx.tail : m \in MessageRow /\ m.row \in Nat
  BY DEF Context, MessageRow
<1>2. Newest(ctx.tail) \in MessageRow
  BY <1>1, NewestRow DEF StoreSane, StoreTypeOK
<1>3. <<Newest(ctx.tail).turn, Newest(ctx.tail).role>> \in MessageId
  BY <1>2 DEF MessageRow, MessageId
<1>4. Ids(ctx.tail) \subseteq MessageId
  BY <1>1 DEF Ids, MessageRow, MessageId
<1>5. SummaryOf(ctx) \in SummaryRow
  BY <1>3, <1>4 DEF SummaryOf, SummaryRow, Context
<1> QED BY <1>5 DEF SaveSummary, StoreSane, StoreTypeOK

\* Deleting a session removes rows and adds none, so the tables stay well typed.
LEMMA DeleteSane ==
    ASSUME StoreSane, NEW s \in Session, DeleteSession(s)
    PROVE  StoreSane' /\ lastRow <= lastRow'
BY DEF DeleteSession, StoreSane, StoreTypeOK

-----------------------------------------------------------------------------
(* The steps of a turn that write a table *)

(***************************************************************************)
(* A statement that leaves the tables sane and moves only pc, todo and     *)
(* the context of one turn keeps the type invariant.                       *)
(***************************************************************************)
LEMMA StoreStepTypes ==
    ASSUME TypeInv, NEW t \in Turn,
           \/ StartMessage(t) \/ StartCall(t) \/ FinishCall(t) \/ Fail(t)
           \/ RecordUsage(t) \/ Complete(t) \/ Summarize(t)
    PROVE  TypeInv'
<1>1. StoreSane /\ target[t] \in Session
  BY DEF TypeInv, TypeOK, RowsBounded, StoreSane
<1>2. StoreSane' /\ lastRow <= lastRow'
  <2>1. CASE StartMessage(t)
    BY <1>1, <2>1, InsertUserSane DEF StartMessage
  <2>2. CASE StartCall(t)
    <3>1. PICK id \in CallIds : InsertCall(t, <<round[t], todo[t]>>, id)
      BY <2>2 DEF StartCall
    <3>2. <<round[t], todo[t]>> \in Nat \X Nat /\ id \in CallId
      BY <3>1, TurnsAssumption DEF TypeInv, TypeOK
    <3> QED BY <1>1, <3>1, <3>2, CallSane
  <2>3. CASE FinishCall(t)
    <3>1. <<round[t], todo[t]>> \in Nat \X Nat
      BY TurnsAssumption DEF TypeInv, TypeOK
    <3> QED BY <1>1, <2>3, <3>1, CallSane DEF FinishCall
  <2>4. CASE Fail(t)
    <3>1. CASE FailUser(t, IF cancelled[t] THEN "cancelled" ELSE "failed")
      <4>1. (IF cancelled[t] THEN "cancelled" ELSE "failed") \in Status
        BY DEF Status
      <4> QED BY <1>1, <3>1, <4>1, FailUserSane
    <3>2. CASE UNCHANGED storeVars
      BY <1>1, <3>2 DEF storeVars, StoreSane, StoreTypeOK
    <3> QED BY <2>4, <3>1, <3>2 DEF Fail
  <2>5. CASE RecordUsage(t)
    <3>1. CASE UNCHANGED storeVars
      BY <1>1, <3>1 DEF storeVars, StoreSane, StoreTypeOK
    <3>2. ASSUME NEW level \in Levels, InsertUsage(t, target[t], level)
          PROVE  StoreSane' /\ lastRow <= lastRow'
      <4>1. level \in Level
        BY <3>2, TurnsAssumption
      <4> QED BY <1>1, <3>2, <4>1, InsertUsageSane
    <3> QED BY <2>5, <3>1, <3>2 DEF RecordUsage
  <2>6. CASE Complete(t)
    BY <1>1, <2>6, CompleteTurnSane DEF Complete
  <2>7. CASE Summarize(t)
    <3>1. /\ context[t] \in Context /\ context[t].tail # {}
          /\ \A m \in context[t].tail : m.row <= lastRow
      BY <2>7 DEF Summarize, At, TypeInv, TypeOK, RowsBounded, WorkAtHand
    <3> QED BY <1>1, <2>7, <3>1, SaveSummarySane DEF Summarize
  <2> QED BY <2>1, <2>2, <2>3, <2>4, <2>5, <2>6, <2>7
<1>3. /\ context' \in [Turn -> Context]
      /\ \A u \in Turn : context'[u].tail \subseteq context[u].tail
      /\ \A u \in Turn : u # t => context'[u] = context[u]
  <2>1. CASE UNCHANGED context
    BY <2>1 DEF TypeInv, TypeOK
  <2>2. CASE Summarize(t)
    <3>1. SummaryOf(context[t]) \in SummaryRow
      <4>1. /\ context[t] \in Context /\ context[t].tail # {}
            /\ \A m \in context[t].tail : m.row <= lastRow
        BY <2>2 DEF Summarize, At, TypeInv, TypeOK, RowsBounded, WorkAtHand
      <4> QED BY <1>1, <2>2, <4>1, SaveSummarySane DEF Summarize
    <3> DEFINE new == [covers |-> SummaryOf(context[t]).covers, tail |-> {}]
    <3>2. new \in Context
      BY <3>1 DEF SummaryRow, Context
    <3>3. context' = [context EXCEPT ![t] = new]
      BY <2>2 DEF Summarize
    <3>4. context \in [Turn -> Context]
      BY DEF TypeInv, TypeOK
    <3>5. new.tail = {}
      OBVIOUS
    <3> HIDE DEF new
    <3> QED BY <3>2, <3>3, <3>4, <3>5
  <2> QED BY <2>1, <2>2 DEF StartMessage, StartCall, FinishCall, Fail,
             RecordUsage, Complete, localVars
<1>4. /\ UNCHANGED <<gateVars, crashes, target, lockTable, history, round,
                     cancelled>>
      /\ \E to \in PC \ {"summarizing"} :
            Goto(t, to) /\ (to = "executing" => StartCall(t))
  BY DEF StartMessage, StartCall, FinishCall, Fail, RecordUsage, Complete,
         Summarize, localVars, PC
<1>5. /\ todo' \in [Turn -> 0 .. MaxCalls]
      /\ \A u \in Turn : u # t => todo'[u] = todo[u]
      /\ StartCall(t) => todo'[t] > 0
  <2>1. CASE UNCHANGED todo
    BY <2>1 DEF StartCall, TypeInv, TypeOK
  <2>2. CASE FinishCall(t)
    <3>1. todo[t] \in 1 .. MaxCalls /\ ~StartCall(t)
      BY <2>2, TurnsAssumption DEF FinishCall, StartCall, At, TypeInv, TypeOK,
         WorkAtHand
    <3>2. todo' = [todo EXCEPT ![t] = @ - 1]
      BY <2>2 DEF FinishCall
    <3> QED BY <3>1, <3>2, TurnsAssumption DEF TypeInv, TypeOK
  <2> QED BY <2>1, <2>2 DEF StartMessage, StartCall, Fail, RecordUsage,
             Complete, Summarize, localVars
<1>6. TypeOK'
  BY <1>2, <1>3, <1>4, <1>5 DEF TypeInv, TypeOK, StoreSane, Goto, gateVars
<1>7. RowsBounded'
  <2>1. \A u \in Turn : \A m \in history[u] \cup context[u].tail :
           m.row \in Nat /\ m.row <= lastRow
    BY DEF TypeInv, TypeOK, RowsBounded, Context, MessageRow
  <2>2. lastRow \in Nat /\ lastRow' \in Nat
    BY <1>1, <1>2 DEF StoreSane, StoreTypeOK
  <2> QED BY <1>2, <1>3, <1>4, <2>1, <2>2 DEF RowsBounded, StoreSane
<1>8. WorkAtHand'
  BY <1>3, <1>4, <1>5 DEF TypeInv, TypeOK, WorkAtHand, Goto
<1> QED BY <1>6, <1>7, <1>8 DEF TypeInv

-----------------------------------------------------------------------------
(* The rest of the world, and the theorem *)

\* What is done to the daemon from outside (a delete, a reload, a crash) keeps
\* the types.
LEMMA EnvironmentTypes ==
    ASSUME TypeInv,
           \/ \E s \in Session : Delete(s)
           \/ Reload \/ CrashDaemon
           \/ \E t \in Turn : CrashLocal(t)
    PROVE  TypeInv'
<1>1. ASSUME NEW s \in Session, Delete(s)
      PROVE  TypeInv'
  <2>1. StoreSane' /\ lastRow' = lastRow /\ UNCHANGED turnVars
    BY <1>1, DeleteSane DEF Delete, DeleteSession, StoreSane, TypeInv, TypeOK,
       RowsBounded
  <2> QED BY <2>1 DEF TypeInv, TypeOK, RowsBounded, WorkAtHand, StoreSane,
             turnVars, gateVars, localVars
<1>2. CASE Reload
  <2>1. instanceLocks' \in LockTable /\ reloads' \in 0 .. MaxReloads
    BY <1>2, TurnsAssumption DEF Reload, TypeInv, TypeOK, LockTable,
       RegistryLocks
  <2>2. UNCHANGED <<storeVars, gate, crashes, pc, localVars, cancelled>>
    BY <1>2 DEF Reload
  <2> QED BY <2>1, <2>2 DEF TypeInv, TypeOK, RowsBounded, WorkAtHand,
             StoreTypeOK, storeVars, localVars
<1>3. CASE CrashDaemon
  <2>1. /\ pc' \in [Turn -> PC]
        /\ \A t \in Turn : pc'[t] # "dead" => pc'[t] = pc[t]
    BY <1>3 DEF CrashDaemon, TypeInv, TypeOK, PC
  <2>2. /\ crashes' \in 0 .. MaxCrashes /\ instanceLocks' \in LockTable
        /\ gate' \in [LockTable -> [Session -> 0 .. 1]]
    BY <1>3, TurnsAssumption DEF CrashDaemon, TypeInv, TypeOK, LockTable,
       RegistryLocks
  <2>3. UNCHANGED <<storeVars, reloads, localVars, cancelled>>
    BY <1>3 DEF CrashDaemon
  <2> QED BY <2>1, <2>2, <2>3 DEF TypeInv, TypeOK, RowsBounded, WorkAtHand,
             StoreTypeOK, storeVars, localVars
<1>4. ASSUME NEW t \in Turn, CrashLocal(t)
      PROVE  TypeInv'
  <2>1. /\ pc' \in [Turn -> PC]
        /\ \A u \in Turn : pc'[u] # "dead" => pc'[u] = pc[u]
    BY <1>4 DEF CrashLocal, Goto, TypeInv, TypeOK, PC
  <2>2. crashes' \in 0 .. MaxCrashes
    BY <1>4, TurnsAssumption DEF CrashLocal, TypeInv, TypeOK
  <2>3. UNCHANGED <<storeVars, gateVars, localVars, cancelled>>
    BY <1>4 DEF CrashLocal
  <2> QED BY <2>1, <2>2, <2>3 DEF TypeInv, TypeOK, RowsBounded, WorkAtHand,
             StoreTypeOK, storeVars, gateVars, localVars
<1> QED BY <1>1, <1>2, <1>3, <1>4

\* A step that changes nothing keeps the types.
LEMMA StutterTypes == TypeInv /\ UNCHANGED vars => TypeInv'
BY DEF TypeInv, TypeOK, RowsBounded, WorkAtHand, StoreTypeOK, vars, storeVars,
   turnVars, gateVars, localVars

\* The types hold in every reachable state.
LEMMA TypeInvariant == Spec => []TypeInv
<1>1. TypeInv /\ [Next]_vars => TypeInv'
  BY LocalStepTypes, StoreStepTypes, EnvironmentTypes, StutterTypes
     DEF Next, Step, Environment
<1> QED BY InitTypes, <1>1, PTL DEF Spec

(***************************************************************************)
(* Every reachable state is well typed: rows, marks and counters stay in   *)
(* their ranges, so no gate holds more than one token, no turn runs more   *)
(* than MaxRounds rounds, and a summary's marker is always a message id.   *)
(***************************************************************************)
THEOREM TypesHold == Spec => []TypeOK
<1>1. TypeInv => TypeOK
  BY DEF TypeInv
<1> QED BY TypeInvariant, <1>1, PTL

-----------------------------------------------------------------------------
(***************************************************************************)
(* The gate of a session excludes, for any sets of sessions and turns, any *)
(* number of reloads and kills, and with a second process that takes no    *)
(* gate beside the daemon.                                                 *)
(***************************************************************************)

\* There is one lock table: instances point to the registry's, reload or not,
\* and so does every turn that has resolved one.
OneLockTable ==
    /\ instanceLocks = RegistryLocks
    /\ \A t \in Turn : lockTable[t] = RegistryLocks

\* Whoever is inside holds the token of the session.
InsideHolds ==
    \A t \in Turn \ Local :
        pc[t] \in Inside => gate[RegistryLocks][target[t]] = 1

GateInv == TypeOK /\ OneLockTable /\ InsideHolds /\ OneTurnPerSession

\* At first the lock table is the registry's and no turn is inside.
LEMMA InitGate == Init => GateInv
BY InitTypes DEF Init, TurnInit, TypeInv, GateInv, OneLockTable, InsideHolds,
   OneTurnPerSession, Inside

(***************************************************************************)
(* A step that leaves the gate alone and lets nobody in keeps it.          *)
(***************************************************************************)
LEMMA NobodyEnters ==
    ASSUME GateInv, TypeOK', UNCHANGED <<gate, target, lockTable>>,
           instanceLocks' = RegistryLocks,
           \A t \in Turn \ Local : pc'[t] \in Inside => pc[t] \in Inside
    PROVE  GateInv'
BY DEF GateInv, OneLockTable, InsideHolds, OneTurnPerSession

\* A turn is let in only where the token is free, and takes it.
LEMMA AcquireGate ==
    ASSUME GateInv, TypeOK', NEW t \in Turn, Acquire(t)
    PROVE  GateInv'
<1>1. /\ gate[RegistryLocks][target[t]] = 0
      /\ gate' = [gate EXCEPT ![RegistryLocks][target[t]] = 1]
      /\ pc' = [pc EXCEPT ![t] = "reading"]
      /\ UNCHANGED <<target, lockTable, instanceLocks>>
  BY DEF Acquire, At, Goto, GateInv, OneLockTable, localVars
<1>2. gate \in [LockTable -> [Session -> 0 .. 1]] /\ RegistryLocks \in LockTable
  BY TurnsAssumption DEF GateInv, TypeOK, LockTable, RegistryLocks
<1>3. \A s \in Session :
         gate'[RegistryLocks][s] = IF s = target[t] THEN 1
                                   ELSE gate[RegistryLocks][s]
  <2> HIDE DEF LockTable
  <2> QED BY <1>1, <1>2
<1>4. pc \in [Turn -> PC] /\ target \in [Turn -> Session]
  BY DEF GateInv, TypeOK
<1>5. \A u \in Turn \ Local : target[u] = target[t] => ~(pc[u] \in Inside)
  BY <1>1 DEF GateInv, InsideHolds
<1>6. InsideHolds'
  BY <1>1, <1>3, <1>4 DEF GateInv, InsideHolds
<1>7. OneTurnPerSession'
  BY <1>1, <1>4, <1>5 DEF GateInv, OneTurnPerSession
<1>8. OneLockTable'
  BY <1>1 DEF GateInv, OneLockTable
<1> QED BY <1>6, <1>7, <1>8 DEF GateInv

\* A token is given back by the turn that is inside, and by no other.
LEMMA ReleaseGate ==
    ASSUME GateInv, TypeOK', NEW t \in Turn, Release(t)
    PROVE  GateInv'
<1>1. /\ pc[t] \in Inside
      /\ pc' = [pc EXCEPT ![t] = "done"]
      /\ UNCHANGED <<target, lockTable, instanceLocks>>
  BY DEF Release, At, Goto, localVars, Inside
<1>2. pc \in [Turn -> PC] /\ target \in [Turn -> Session] /\ "done" \notin Inside
  BY DEF GateInv, TypeOK, Inside
<1>3. \A u \in Turn \ Local : pc'[u] \in Inside => u # t /\ pc[u] \in Inside
  BY <1>1, <1>2
<1>4. CASE t \in Local
  <2>1. gate' = gate /\ instanceLocks' = RegistryLocks
    BY <1>1, <1>4 DEF Release, GateInv, OneLockTable
  <2> QED BY <1>1, <1>3, <2>1, NobodyEnters
<1>5. CASE t \notin Local
  <2>1. gate' = [gate EXCEPT ![RegistryLocks][target[t]] = 0]
    BY <1>5 DEF Release, GateInv, OneLockTable
  <2>2. /\ gate \in [LockTable -> [Session -> 0 .. 1]]
        /\ RegistryLocks \in LockTable
    BY TurnsAssumption DEF GateInv, TypeOK, LockTable, RegistryLocks
  <2>3. \A s \in Session :
           s # target[t] => gate'[RegistryLocks][s] = gate[RegistryLocks][s]
    <3> HIDE DEF LockTable
    <3> QED BY <2>1, <2>2
  <2>4. \A u \in Turn \ Local : pc'[u] \in Inside => target[u] # target[t]
    BY <1>1, <1>3, <1>5 DEF GateInv, OneTurnPerSession
  <2>5. InsideHolds'
    BY <1>1, <1>2, <1>3, <2>3, <2>4 DEF GateInv, InsideHolds
  <2>6. OneTurnPerSession' /\ OneLockTable'
    BY <1>1, <1>3 DEF GateInv, OneTurnPerSession, OneLockTable
  <2> QED BY <2>5, <2>6 DEF GateInv
<1> QED BY <1>4, <1>5

\* A crash of the daemon leaves none of its turns inside, and a lock table that
\* is free.
LEMMA CrashGate ==
    ASSUME GateInv, TypeOK', CrashDaemon
    PROVE  GateInv'
<1>1. \A t \in Turn \ Local : ~(pc'[t] \in Inside)
  BY DEF CrashDaemon, GateInv, TypeOK, Active, Inside
<1>2. OneLockTable'
  BY DEF CrashDaemon, GateInv, OneLockTable, localVars
<1> QED BY <1>1, <1>2 DEF GateInv, InsideHolds, OneTurnPerSession

\* Every step keeps the exclusion.
LEMMA StepGate ==
    ASSUME GateInv, TypeOK', [Next]_vars
    PROVE  GateInv'
<1>1. ASSUME NEW t \in Turn, Step(t) \/ Resolve(t) \/ Cancel(t) \/ CrashLocal(t)
      PROVE  GateInv'
  <2>1. CASE Acquire(t)
    BY <2>1, AcquireGate
  <2>2. CASE Release(t)
    BY <2>2, ReleaseGate
  <2>3. CASE Resolve(t)
    <3>1. /\ UNCHANGED <<gate, target, instanceLocks>>
          /\ pc' = [pc EXCEPT ![t] = IF t \in Local THEN "reading" ELSE "waiting"]
          /\ lockTable' = [lockTable EXCEPT ![t] = instanceLocks]
      BY <2>3 DEF Resolve, gateVars, Goto
    <3>2. UNCHANGED <<gate, target, lockTable>> /\ instanceLocks' = RegistryLocks
      BY <3>1 DEF GateInv, OneLockTable, TypeOK
    <3>3. \A u \in Turn \ Local : pc'[u] \in Inside => pc[u] \in Inside
      BY <3>1 DEF GateInv, TypeOK, Inside
    <3> QED BY <3>2, <3>3, NobodyEnters
  <2>4. CASE /\ ~Acquire(t) /\ ~Release(t) /\ ~Resolve(t)
    <3>1. UNCHANGED <<gate, target, lockTable, instanceLocks>>
      BY <1>1, <2>4 DEF Step, GiveUp, ReadHistory, ReadFails, LoadSummary,
         Summarize, SummarizeFails, StartMessage, StartFails, Answer, AskTools,
         RoundFails, StartCall, FinishCall, CallFails, NextRound, Fail,
         RecordUsage, Complete, CompleteFails, Cancel, CrashLocal, gateVars,
         localVars
    <3>2. \/ UNCHANGED pc
          \/ \E to \in PC : /\ pc' = [pc EXCEPT ![t] = to]
                            /\ to \in Inside => pc[t] \in Inside
      BY <1>1, <2>4 DEF Step, GiveUp, ReadHistory, ReadFails, LoadSummary,
         Summarize, SummarizeFails, StartMessage, StartFails, Answer, AskTools,
         RoundFails, StartCall, FinishCall, CallFails, NextRound, Fail,
         RecordUsage, Complete, CompleteFails, Cancel, CrashLocal, Goto, At,
         Inside, PC
    <3>3. \A u \in Turn \ Local : pc'[u] \in Inside => pc[u] \in Inside
      BY <3>2 DEF GateInv, TypeOK
    <3> QED BY <3>1, <3>3, NobodyEnters DEF GateInv, OneLockTable
  <2> QED BY <2>1, <2>2, <2>3, <2>4
<1>2. CASE \/ \E s \in Session : Delete(s)
           \/ Reload
           \/ UNCHANGED vars
  <2>1. UNCHANGED <<gate, target, lockTable, pc>> /\ instanceLocks' = RegistryLocks
    BY <1>2 DEF Delete, Reload, vars, turnVars, gateVars, localVars, GateInv,
       OneLockTable
  <2> QED BY <2>1, NobodyEnters
<1>3. CASE CrashDaemon
  BY <1>3, CrashGate
<1> QED BY <1>1, <1>2, <1>3 DEF Next, Environment

\* The gate excludes in every reachable state.
LEMMA GateInvariant == Spec => []GateInv
<1>1. GateInv /\ TypeOK' /\ [Next]_vars => GateInv'
  BY StepGate
<1> QED BY InitGate, TypesHold, <1>1, PTL DEF Spec

(***************************************************************************)
(* No two turns of the daemon are inside one session, whatever reloads     *)
(* and kills happen and whoever gives up waiting (sessionLocks, Reload).   *)
(***************************************************************************)
THEOREM TurnsExcludeEachOther == Spec => []OneTurnPerSession
<1>1. GateInv => OneTurnPerSession
  BY DEF GateInv
<1> QED BY GateInvariant, <1>1, PTL

-----------------------------------------------------------------------------
(* Whole exchanges *)

\* A turn before messageStart, and one whose user row is not settled yet.
Before == {"idle", "waiting", "reading", "loading", "summarizing", "starting"}
Running == {"running", "dispatching", "executing", "accounting", "completing",
            "failing"}

\* A row lies in its turn's session, and an answer was never anything but
\* completed.
RowsPlaced ==
    \A m \in messages :
        /\ m.session = target[m.turn]
        /\ m.session \in sessions
        /\ m.role = "assistant" => m.status = "completed"

\* Message ids are unique.
RowsUnique ==
    \A m, k \in messages : m.turn = k.turn /\ m.role = k.role => m = k

\* What a turn that still runs has in the table: nothing before messageStart,
\* then its pending user row, unless the session was deleted.
RowsOfRunning ==
    \A t \in Turn :
        /\ pc[t] \in Before => \A m \in messages : m.turn # t
        /\ pc[t] \in Running =>
              \A m \in messages :
                  m.turn = t => m.role = "user" /\ m.status = "pending"
        /\ pc[t] \in Running /\ target[t] \in sessions =>
              \E m \in messages : m.turn = t

WholeInv == RowsPlaced /\ RowsUnique /\ RowsOfRunning /\ ExchangesWhole

\* An empty transcript consists of whole turns.
LEMMA InitWhole == Init => WholeInv
BY DEF Init, StoreInit, TurnInit, WholeInv, RowsPlaced, RowsUnique,
   RowsOfRunning, ExchangesWhole, Running

(***************************************************************************)
(* A step that touches no message row and moves no turn past messageStart. *)
(***************************************************************************)
RowsKept ==
    /\ UNCHANGED <<sessions, messages, target>>
    /\ \A t \in Turn : /\ pc'[t] \in Before => pc[t] \in Before
                       /\ pc'[t] \in Running => pc[t] \in Running

\* A step that leaves the rows and the turns that own them alone keeps every
\* turn whole.
LEMMA KeptWhole ==
    ASSUME WholeInv, RowsKept
    PROVE  WholeInv'
<1>1. RowsPlaced' /\ RowsUnique'
  BY DEF WholeInv, RowsKept, RowsPlaced, RowsUnique
<1>2. RowsOfRunning'
  BY DEF WholeInv, RowsKept, RowsOfRunning
<1>3. ExchangesWhole'
  BY DEF WholeInv, RowsKept, ExchangesWhole, History
<1> QED BY <1>1, <1>2, <1>3 DEF WholeInv

\* The steps that do touch rows.
RowStep(t) ==
    \/ StartMessage(t)
    \/ Complete(t)
    \/ Fail(t) /\ ~UNCHANGED storeVars

\* Only the steps that store a row, and a delete, touch the rows.
LEMMA OtherSteps ==
    ASSUME TypeOK, [Next]_vars,
           ~ \E t \in Turn : RowStep(t),
           ~ \E s \in Session : Delete(s)
    PROVE  RowsKept
<1>1. ASSUME NEW t \in Turn, Step(t) \/ Resolve(t) \/ Cancel(t) \/ CrashLocal(t)
      PROVE  RowsKept
  <2>1. ~StartMessage(t) /\ ~Complete(t) /\ (Fail(t) => UNCHANGED storeVars)
    BY DEF RowStep
  <2>2. UNCHANGED <<sessions, messages, target>>
    <3>1. CASE Summarize(t) \/ StartCall(t) \/ FinishCall(t)
      BY <3>1 DEF Summarize, SaveSummary, StartCall, InsertCall, FinishCall,
         UpdateCall, localVars
    <3>2. CASE RecordUsage(t)
      BY <3>2 DEF RecordUsage, InsertUsage, localVars, storeVars
    <3>3. CASE Fail(t)
      BY <2>1, <3>3 DEF Fail, localVars, storeVars
    <3>4. CASE \/ Acquire(t) \/ GiveUp(t) \/ Release(t) \/ ReadHistory(t)
               \/ ReadFails(t) \/ LoadSummary(t) \/ SummarizeFails(t)
               \/ StartFails(t) \/ Answer(t) \/ AskTools(t) \/ RoundFails(t)
               \/ CallFails(t) \/ NextRound(t) \/ CompleteFails(t)
               \/ Resolve(t) \/ Cancel(t) \/ CrashLocal(t)
      BY <3>4 DEF Acquire, GiveUp, Release, ReadHistory, ReadFails,
         LoadSummary, SummarizeFails, StartFails, Answer, AskTools, RoundFails,
         CallFails, NextRound, CompleteFails, Resolve, Cancel, CrashLocal,
         localVars, storeVars
    <3> QED BY <1>1, <2>1, <3>1, <3>2, <3>3, <3>4 DEF Step
  <2>3. \/ UNCHANGED pc
        \/ \E to \in PC : /\ pc' = [pc EXCEPT ![t] = to]
                          /\ to \in Before => pc[t] \in Before
                          /\ to \in Running => pc[t] \in Running
    BY <1>1, <2>1 DEF Step, Acquire, GiveUp, Release, Resolve, ReadHistory,
       ReadFails, LoadSummary, Summarize, SummarizeFails, StartFails, Answer,
       AskTools, RoundFails, StartCall, FinishCall, CallFails, NextRound, Fail,
       RecordUsage, CompleteFails, Cancel, CrashLocal, Goto, At, Before,
       Running, PC
  <2> QED BY <2>2, <2>3 DEF RowsKept, TypeOK
<1>2. CASE Reload \/ UNCHANGED vars
  BY <1>2 DEF Reload, vars, storeVars, turnVars, localVars, RowsKept
<1>3. CASE CrashDaemon
  <2>1. \A t \in Turn : pc'[t] = pc[t] \/ pc'[t] = "dead"
    BY <1>3 DEF CrashDaemon, TypeOK
  <2> QED BY <1>3, <2>1 DEF CrashDaemon, storeVars, localVars, RowsKept,
             Before, Running
<1> QED BY <1>1, <1>2, <1>3 DEF Next, Environment

\* The user row of a new turn is pending, and it is the row of that turn alone.
LEMMA StartWhole ==
    ASSUME TypeOK, WholeInv, NEW t \in Turn, StartMessage(t)
    PROVE  WholeInv'
<1> DEFINE new == [turn |-> t, role |-> "user", session |-> target[t],
                   status |-> "pending", row |-> lastRow + 1]
<1>1. /\ messages' = messages \cup {new}
      /\ pc[t] = "starting" /\ pc' = [pc EXCEPT ![t] = "running"]
      /\ target[t] \in sessions
      /\ UNCHANGED <<sessions, target>>
  BY DEF StartMessage, InsertUser, At, Goto, Exists, localVars
<1>2. \A m \in messages : m.turn # t
  BY <1>1 DEF WholeInv, RowsOfRunning, Before
<1>3. /\ new.turn = t /\ new.role = "user" /\ new.session = target[t]
      /\ new.status = "pending"
  OBVIOUS
<1> HIDE DEF new
<1>4. RowsPlaced' /\ RowsUnique'
  BY <1>1, <1>2, <1>3 DEF WholeInv, RowsPlaced, RowsUnique
<1>5. RowsOfRunning'
  BY <1>1, <1>2, <1>3 DEF WholeInv, RowsOfRunning, TypeOK, Before, Running
<1>6. ExchangesWhole'
  BY <1>1, <1>3 DEF WholeInv, ExchangesWhole, History
<1> QED BY <1>4, <1>5, <1>6 DEF WholeInv

\* The answer is stored in one transaction with the completed user row.
LEMMA CompleteWhole ==
    ASSUME TypeOK, WholeInv, NEW t \in Turn, Complete(t)
    PROVE  WholeInv'
<1> DEFINE settled(m) == [m EXCEPT !.status = "completed"]
           new == [turn |-> t, role |-> "assistant", session |-> target[t],
                   status |-> "completed", row |-> lastRow + 1]
<1>1. /\ pc[t] = "completing" /\ pc' = [pc EXCEPT ![t] = "releasing"]
      /\ target[t] \in sessions
      /\ UNCHANGED <<sessions, target>>
  BY DEF Complete, CompleteTurn, At, Goto, Exists, localVars
<1>2. PICK user \in messages : /\ user.turn = t /\ user.role = "user"
                               /\ user.status = "pending"
                               /\ user.session = target[t]
  BY <1>1 DEF WholeInv, RowsOfRunning, RowsPlaced, Running
<1>3. \A m \in messages : m.turn = t => m = user
  BY <1>1, <1>2 DEF WholeInv, RowsOfRunning, RowsUnique, Running
<1>4. messages' = (messages \ {user}) \cup {settled(user), new}
  BY <1>2, <1>3 DEF Complete, CompleteTurn
<1>5. /\ settled(user).turn = t /\ settled(user).role = "user"
      /\ settled(user).session = target[t]
      /\ settled(user).status = "completed"
  <2>1. user \in MessageRow
    BY DEF TypeOK, StoreTypeOK
  <2> QED BY <1>2, <2>1 DEF MessageRow
<1>6. /\ new.turn = t /\ new.role = "assistant" /\ new.session = target[t]
      /\ new.status = "completed"
  OBVIOUS
<1> HIDE DEF settled, new
<1>7. RowsPlaced' /\ RowsUnique'
  BY <1>1, <1>3, <1>4, <1>5, <1>6 DEF WholeInv, RowsPlaced, RowsUnique
<1>8. RowsOfRunning'
  BY <1>1, <1>3, <1>4, <1>5, <1>6 DEF WholeInv, RowsOfRunning, TypeOK, Before,
     Running
<1>9. ExchangesWhole'
  <2>1. ASSUME NEW m \in messages', m.status = "completed", NEW role \in Role
        PROVE  \E k \in messages' : /\ k.session = m.session
                                    /\ k.status = "completed"
                                    /\ k.turn = m.turn /\ k.role = role
    <3>1. CASE m.turn = t
      BY <1>3, <1>4, <1>5, <1>6, <2>1, <3>1 DEF Role
    <3>2. CASE m.turn # t
      <4>1. m \in messages
        BY <1>4, <1>5, <1>6, <3>2
      <4>2. PICK k \in messages : /\ k.session = m.session
                                  /\ k.status = "completed"
                                  /\ k.turn = m.turn /\ k.role = role
        BY <2>1, <4>1 DEF WholeInv, ExchangesWhole, History
      <4> QED BY <1>2, <1>4, <3>2, <4>2
    <3> QED BY <3>1, <3>2
  <2> QED BY <2>1 DEF ExchangesWhole, History
<1> QED BY <1>7, <1>8, <1>9 DEF WholeInv

\* A failed or cancelled turn settles its own user row and stores no answer.
LEMMA FailWhole ==
    ASSUME TypeOK, WholeInv, NEW t \in Turn, Fail(t), ~UNCHANGED storeVars
    PROVE  WholeInv'
<1>1. PICK status \in {"cancelled", "failed"} : FailUser(t, status)
  BY DEF Fail
<1>2. /\ pc[t] = "failing" /\ pc' = [pc EXCEPT ![t] = "releasing"]
      /\ UNCHANGED <<sessions, target>>
  BY <1>1 DEF Fail, FailUser, At, Goto, localVars
<1> DEFINE failed(m) == [m EXCEPT !.status = status]
<1>3. \A m \in messages :
         /\ failed(m).turn = m.turn /\ failed(m).role = m.role
         /\ failed(m).session = m.session /\ failed(m).status = status
  BY DEF TypeOK, StoreTypeOK, MessageRow
<1>4. \A m \in messages : m.turn = t => m.role = "user" /\ m.status = "pending"
  BY <1>2 DEF WholeInv, RowsOfRunning, Running
<1>5. messages' = {IF m.turn = t THEN failed(m) ELSE m : m \in messages}
  BY <1>1, <1>4 DEF FailUser
<1> HIDE DEF failed
<1>6. RowsPlaced' /\ RowsUnique'
  BY <1>2, <1>3, <1>4, <1>5 DEF WholeInv, RowsPlaced, RowsUnique
<1>7. RowsOfRunning'
  <2>1. \A u \in Turn : u # t => pc'[u] = pc[u]
    BY <1>2 DEF TypeOK
  <2>2. pc'[t] = "releasing"
    BY <1>2 DEF TypeOK
  <2>3. \A m \in messages : m.turn # t => m \in messages'
    BY <1>5
  <2>4. \A m \in messages' : m.turn # t => m \in messages
    BY <1>3, <1>5
  <2> QED BY <1>2, <2>1, <2>2, <2>3, <2>4 DEF WholeInv, RowsOfRunning, Before,
             Running
<1>8. ExchangesWhole'
  <2>1. ASSUME NEW m \in messages', m.status = "completed", NEW role \in Role
        PROVE  \E k \in messages' : /\ k.session = m.session
                                    /\ k.status = "completed"
                                    /\ k.turn = m.turn /\ k.role = role
    <3>1. m \in messages /\ m.turn # t
      BY <1>3, <1>4, <1>5, <2>1
    <3>2. PICK k \in messages : /\ k.session = m.session
                                /\ k.status = "completed"
                                /\ k.turn = m.turn /\ k.role = role
      BY <2>1, <3>1 DEF WholeInv, ExchangesWhole, History
    <3>3. k \in messages'
      BY <1>5, <3>1, <3>2
    <3> QED BY <3>2, <3>3
  <2> QED BY <2>1 DEF ExchangesWhole, History
<1> QED BY <1>6, <1>7, <1>8 DEF WholeInv

\* A delete takes all rows of the session, so no turn is left in part.
LEMMA DeleteWhole ==
    ASSUME TypeOK, WholeInv, NEW s \in Session, Delete(s)
    PROVE  WholeInv'
<1>1. /\ messages' = {m \in messages : m.session # s}
      /\ sessions' = sessions \ {s}
      /\ UNCHANGED <<target, pc>>
  BY DEF Delete, DeleteSession, turnVars, localVars
<1>2. RowsPlaced' /\ RowsUnique'
  BY <1>1 DEF WholeInv, RowsPlaced, RowsUnique
<1>3. RowsOfRunning'
  BY <1>1 DEF WholeInv, RowsOfRunning, RowsPlaced
<1>4. ExchangesWhole'
  BY <1>1 DEF WholeInv, ExchangesWhole, History
<1> QED BY <1>2, <1>3, <1>4 DEF WholeInv

\* Turns are stored whole in every reachable state.
LEMMA WholeInvariant == Spec => []WholeInv
<1>1. WholeInv /\ TypeOK /\ [Next]_vars => WholeInv'
  BY OtherSteps, KeptWhole, StartWhole, CompleteWhole, FailWhole, DeleteWhole
     DEF RowStep
<1> QED BY InitWhole, TypesHold, <1>1, PTL DEF Spec

(***************************************************************************)
(* An answer is stored exactly when its question is completed, whatever    *)
(* fails, is killed or is deleted in between (messageCompleteTurn).        *)
(***************************************************************************)
THEOREM ExchangesStayWhole == Spec => []ExchangesWhole
<1>1. WholeInv => ExchangesWhole
  BY DEF WholeInv
<1> QED BY WholeInvariant, <1>1, PTL

-----------------------------------------------------------------------------
(* Tool calls *)

Settled(t) == \A c \in calls : c.turn = t => c.status # "pending"

\* A turn records no call before its row, is at one call at a time, and leaves
\* none pending behind unless it fails.
CallsInv ==
    \A t \in Turn :
        /\ pc[t] \in Before => \A c \in calls : c.turn # t
        /\ pc[t] \in {"running", "dispatching", "accounting", "completing"} => Settled(t)
        /\ pc[t] = "executing" =>
              \A c \in calls : c.turn = t /\ c.status = "pending" => c.place = <<round[t], todo[t]>>

\* A completed question has no call pending.
AnsweredSettled ==
    \A m \in messages : m.role = "user" /\ m.status = "completed" => Settled(m.turn)

\* No tool call is stored at first.
LEMMA InitCalls == Init => CallsInv /\ AnsweredSettled
BY DEF Init, StoreInit, TurnInit, CallsInv, AnsweredSettled, Settled

\* A step of t that leaves the calls alone.
LEMMA CallsKept ==
    ASSUME TypeOK, CallsInv, NEW t \in Turn, NEW to \in PC, pc' = [pc EXCEPT ![t] = to],
           UNCHANGED calls, to # "executing",
           to \in Before => pc[t] \in Before,
           to \in {"running", "dispatching", "accounting", "completing"}
              => pc[t] \in {"starting", "running", "dispatching", "accounting", "completing"},
           \A u \in Turn : u # t => round'[u] = round[u] /\ todo'[u] = todo[u]
    PROVE  CallsInv'
<1>1. \A u \in Turn : u # t => pc'[u] = pc[u] BY DEF TypeOK
<1>2. pc'[t] = to BY DEF TypeOK
<1>3. pc[t] = "starting" => Settled(t) BY DEF CallsInv, Settled, Before
<1>4. \A u \in Turn : Settled(u)' = Settled(u) BY DEF Settled
<1>5. to \in {"running", "dispatching", "accounting", "completing"} => Settled(t)
  BY <1>3 DEF CallsInv
<1> QED BY <1>1, <1>2, <1>4, <1>5 DEF CallsInv

\* A turn that may go on has settled every call before the one it executes.
LEMMA StepKeepsCalls ==
    ASSUME TypeOK, CallsInv, NEW t \in Turn, Step(t) \/ Resolve(t) \/ Cancel(t) \/ CrashLocal(t)
    PROVE  CallsInv'
<1>1. CASE StartCall(t)
  <2>1. /\ pc[t] = "dispatching" /\ pc' = [pc EXCEPT ![t] = "executing"]
        /\ UNCHANGED <<round, todo>>
    BY <1>1 DEF StartCall, At, Goto, localVars
  <2>2. PICK id \in CallIds : calls' = calls \cup {[turn |-> t, place |-> <<round[t], todo[t]>>,
                                                   id |-> id, status |-> "pending"]}
    BY <1>1 DEF StartCall, InsertCall
  <2> DEFINE new == [turn |-> t, place |-> <<round[t], todo[t]>>, id |-> id, status |-> "pending"]
  <2>3. new.turn = t /\ new.place = <<round[t], todo[t]>> OBVIOUS
  <2>4. calls' = calls \cup {new} BY <2>2
  <2> HIDE DEF new
  <2>5. \A u \in Turn : u # t => pc'[u] = pc[u] /\ \A c \in calls' : c.turn = u => c \in calls
    BY <2>1, <2>3, <2>4 DEF TypeOK
  <2>6. pc'[t] = "executing" BY <2>1 DEF TypeOK
  <2>7. \A c \in calls' : c.turn = t /\ c.status = "pending" => c.place = <<round[t], todo[t]>>
    BY <2>1, <2>3, <2>4 DEF CallsInv, Settled
  <2> QED BY <2>1, <2>5, <2>6, <2>7 DEF CallsInv, Settled, Before
<1>2. CASE FinishCall(t)
  <2>1. /\ pc[t] = "executing" /\ pc' = [pc EXCEPT ![t] = "dispatching"]
        /\ UNCHANGED round /\ \A u \in Turn : u # t => todo'[u] = todo[u]
    BY <1>2 DEF FinishCall, At, Goto, TypeOK
  <2>2. PICK status \in {"completed", "failed"} :
           calls' = {IF c.turn = t /\ c.place = <<round[t], todo[t]>>
                     THEN [c EXCEPT !.status = status] ELSE c : c \in calls}
    BY <1>2 DEF FinishCall, UpdateCall
  <2> DEFINE set(c) == [c EXCEPT !.status = status]
  <2>3. \A c \in calls : set(c).turn = c.turn /\ set(c).place = c.place /\ set(c).status = status
    BY DEF TypeOK, StoreTypeOK, CallRow
  <2>4. calls' = {IF c.turn = t /\ c.place = <<round[t], todo[t]>> THEN set(c) ELSE c : c \in calls}
    BY <2>2
  <2> HIDE DEF set
  <2>5. \A c \in calls' : c.turn # t => c \in calls BY <2>3, <2>4
  <2>6. \A c \in calls' : c.turn = t => c.status # "pending"
    BY <2>1, <2>3, <2>4 DEF CallsInv
  <2>7. \A u \in Turn : u # t => pc'[u] = pc[u] BY <2>1 DEF TypeOK
  <2>8. pc'[t] = "dispatching" BY <2>1 DEF TypeOK
  <2> QED BY <2>1, <2>5, <2>6, <2>7, <2>8 DEF CallsInv, Settled, Before
<1>3. CASE ~StartCall(t) /\ ~FinishCall(t) /\ UNCHANGED pc
  <2>1. UNCHANGED <<calls, round, todo>>
    BY <1>3 DEF Step, Acquire, GiveUp, Release, Resolve, ReadHistory,
       ReadFails, LoadSummary, Summarize, SaveSummary, SummarizeFails, StartMessage, InsertUser,
       StartFails, Answer, AskTools, RoundFails, CallFails, NextRound, Fail, FailUser,
       RecordUsage, InsertUsage, Complete, CompleteTurn, CompleteFails, Cancel, CrashLocal, Goto, At,
       localVars, storeVars, TypeOK
  <2> QED BY <1>3, <2>1 DEF CallsInv, Settled
<1>4. CASE ~StartCall(t) /\ ~FinishCall(t) /\ ~UNCHANGED pc
  <2>1. UNCHANGED calls
    BY <1>4 DEF Step, Acquire, GiveUp, Release, Resolve, ReadHistory,
       ReadFails, LoadSummary, Summarize, SaveSummary, SummarizeFails, StartMessage, InsertUser,
       StartFails, Answer, AskTools, RoundFails, CallFails, NextRound, Fail, FailUser,
       RecordUsage, InsertUsage, Complete, CompleteTurn, CompleteFails, Cancel, CrashLocal,
       localVars, storeVars
  <2>2. \A u \in Turn : u # t => round'[u] = round[u] /\ todo'[u] = todo[u]
    BY <1>4 DEF Step, Acquire, GiveUp, Release, Resolve, ReadHistory,
       ReadFails, LoadSummary, Summarize, SummarizeFails, StartMessage,
       StartFails, Answer, AskTools, RoundFails, CallFails, NextRound, Fail,
       RecordUsage, Complete, CompleteFails, Cancel, CrashLocal,
       localVars, TypeOK
  <2>3. PICK to \in PC : /\ pc' = [pc EXCEPT ![t] = to] /\ to # "executing"
                         /\ to \in Before => pc[t] \in Before
                         /\ to \in {"running", "dispatching", "accounting", "completing"}
                              => pc[t] \in {"starting", "running", "dispatching", "accounting",
                                            "completing"}
    BY <1>4 DEF Step, Acquire, GiveUp, Release, Resolve, ReadHistory,
       ReadFails, LoadSummary, Summarize, SummarizeFails, StartMessage, StartFails, Answer,
       AskTools, RoundFails, CallFails, NextRound, Fail,
       RecordUsage, Complete, CompleteFails, Cancel, CrashLocal, Goto, At, Before, PC
  <2> QED BY <2>1, <2>2, <2>3, CallsKept
<1> QED BY <1>1, <1>2, <1>3, <1>4

\* Every step keeps the pending calls to the one that is executed.
LEMMA NextKeepsCalls == TypeOK /\ CallsInv /\ [Next]_vars => CallsInv'
<1> SUFFICES ASSUME TypeOK, CallsInv, [Next]_vars PROVE CallsInv' OBVIOUS
<1>1. CASE Reload \/ UNCHANGED vars
  BY <1>1 DEF Reload, vars, storeVars, turnVars, localVars, CallsInv, Settled
<1>2. CASE CrashDaemon
  <2>1. \A t \in Turn : pc'[t] = pc[t] \/ pc'[t] = "dead" BY <1>2 DEF CrashDaemon, TypeOK
  <2>2. UNCHANGED <<calls, round, todo>> BY <1>2 DEF CrashDaemon, storeVars, localVars
  <2> QED BY <2>1, <2>2 DEF CallsInv, Settled, Before
<1>3. ASSUME NEW s \in Session, Delete(s) PROVE CallsInv'
  <2>1. calls' \subseteq calls /\ UNCHANGED <<pc, round, todo>>
    BY <1>3 DEF Delete, DeleteSession, turnVars, localVars
  <2> QED BY <2>1 DEF CallsInv, Settled
<1> QED BY <1>1, <1>2, <1>3, StepKeepsCalls DEF Next, Environment

\* A call becomes pending only under a question that is, and a question is
\* completed only by the turn it belongs to.
LEMMA AnsweredStep ==
    ASSUME TypeOK, WholeInv, CallsInv, AnsweredSettled, [Next]_vars
    PROVE  AnsweredSettled'
<1>1. ASSUME NEW t \in Turn, StartCall(t) PROVE AnsweredSettled'
  <2>1. pc[t] = "dispatching" /\ UNCHANGED messages
    BY <1>1 DEF StartCall, InsertCall, At
  <2>2. \A m \in messages : m.status = "completed" => m.turn # t
    BY <2>1 DEF WholeInv, RowsOfRunning, Running
  <2>3. \A c \in calls' : c.turn # t => c \in calls BY <1>1 DEF StartCall, InsertCall
  <2> QED BY <2>1, <2>2, <2>3 DEF AnsweredSettled, Settled
<1>2. ASSUME NEW t \in Turn, Complete(t) PROVE AnsweredSettled'
  <2>1. UNCHANGED calls /\ Settled(t) BY <1>2 DEF Complete, CompleteTurn, CallsInv, At
  <2> DEFINE settled(m) == [m EXCEPT !.status = "completed"]
             new == [turn |-> t, role |-> "assistant", session |-> target[t],
                     status |-> "completed", row |-> lastRow + 1]
  <2>2. \A m \in messages : settled(m).turn = m.turn
    BY DEF TypeOK, StoreTypeOK, MessageRow
  <2>3. messages' = {IF m.turn = t /\ m.role = "user" /\ m.status = "pending"
                     THEN settled(m) ELSE m : m \in messages} \cup {new}
    BY <1>2 DEF Complete, CompleteTurn
  <2>4. new.turn = t OBVIOUS
  <2> HIDE DEF settled, new
  <2>5. \A m \in messages' : m.turn = t \/ m \in messages BY <2>2, <2>3, <2>4
  <2> QED BY <2>1, <2>5 DEF AnsweredSettled, Settled
<1>3. CASE ~(\E t \in Turn : StartCall(t) \/ Complete(t))
  <2>1. \A c \in calls' : c.status = "pending" => c \in calls
    <3>1. ASSUME NEW t \in Turn, FinishCall(t) PROVE \A c \in calls' : c.status = "pending" => c \in calls
      <4>1. PICK status \in {"completed", "failed"} : UpdateCall(t, <<round[t], todo[t]>>, status)
        BY <3>1 DEF FinishCall
      <4> DEFINE set(c) == [c EXCEPT !.status = status]
      <4>2. \A c \in calls : set(c).status = status BY DEF TypeOK, StoreTypeOK, CallRow
      <4>3. calls' = {IF c.turn = t /\ c.place = <<round[t], todo[t]>> THEN set(c) ELSE c : c \in calls}
        BY <4>1 DEF UpdateCall
      <4> HIDE DEF set
      <4> QED BY <4>2, <4>3
    <3>2. ASSUME NEW s \in Session, Delete(s) PROVE calls' \subseteq calls
      BY <3>2 DEF Delete, DeleteSession
    <3>3. CASE /\ ~ \E t \in Turn : FinishCall(t)
               /\ ~ \E s \in Session : Delete(s)
      <4>1. UNCHANGED calls
        BY <1>3, <3>3 DEF Next, Environment, Step, Acquire, GiveUp, Release, Resolve, ReadHistory,
           ReadFails, LoadSummary, Summarize, SaveSummary, SummarizeFails, StartMessage, InsertUser,
           StartFails, Answer, AskTools, RoundFails, CallFails, NextRound, Fail, FailUser,
           RecordUsage, InsertUsage, CompleteFails, Cancel, CrashLocal, Reload, CrashDaemon,
           vars, storeVars
      <4> QED BY <4>1
    <3> QED BY <3>1, <3>2, <3>3
  <2>2. \A m \in messages' : m.status = "completed" => m \in messages
    <3>1. ASSUME NEW t \in Turn, StartMessage(t)
          PROVE  \A m \in messages' : m.status = "completed" => m \in messages
      BY <3>1 DEF StartMessage, InsertUser
    <3>2. ASSUME NEW t \in Turn, Fail(t)
          PROVE  \A m \in messages' : m.status = "completed" => m \in messages
      <4>1. CASE UNCHANGED storeVars BY <4>1 DEF storeVars
      <4>2. ASSUME NEW status \in {"cancelled", "failed"}, FailUser(t, status)
            PROVE  \A m \in messages' : m.status = "completed" => m \in messages
        <5> DEFINE failed(m) == [m EXCEPT !.status = status]
        <5>1. \A m \in messages : failed(m).status = status BY DEF TypeOK, StoreTypeOK, MessageRow
        <5>2. messages' = {IF m.turn = t /\ m.role = "user" THEN failed(m) ELSE m : m \in messages}
          BY <4>2 DEF FailUser
        <5> HIDE DEF failed
        <5> QED BY <5>1, <5>2
      <4> QED BY <3>2, <4>1, <4>2 DEF Fail
    <3>3. ASSUME NEW s \in Session, Delete(s) PROVE messages' \subseteq messages
      BY <3>3 DEF Delete, DeleteSession
    <3>4. CASE /\ ~ \E t \in Turn : StartMessage(t) \/ Fail(t)
               /\ ~ \E s \in Session : Delete(s)
      <4>1. UNCHANGED messages
        BY <1>3, <3>4, OtherSteps DEF RowStep, RowsKept
      <4> QED BY <4>1
    <3> QED BY <3>1, <3>2, <3>3, <3>4
  <2> QED BY <2>1, <2>2 DEF AnsweredSettled, Settled
<1> QED BY <1>1, <1>2, <1>3

(***************************************************************************)
(* A turn that completed is replayed with its calls, if the provider gave  *)
(* each an id: none is pending behind an answer, whatever statement failed *)
(* or was killed (dispatch, executeTool).  It needs no gate.               *)
(***************************************************************************)
THEOREM CompletedAreReplayed == Spec => []CompletedCallsSettled
<1>1. AnsweredSettled => CompletedCallsSettled
  <2> SUFFICES ASSUME AnsweredSettled, NEW s \in Session, NEW m \in History(s), m.role = "user",
                      CallsOf(m.turn) # {}, \A c \in CallsOf(m.turn) : c.id = "named"
               PROVE  m.turn \in ReplayedTurns(History(s))
    BY DEF CompletedCallsSettled
  <2>1. ReplayableCalls(m.turn)
    BY DEF ReplayableCalls, AnsweredSettled, Settled, History, CallsOf
  <2> QED BY <2>1 DEF ReplayedTurns
<1> QED BY InitCalls, NextKeepsCalls, AnsweredStep, TypesHold, WholeInvariant, <1>1, PTL DEF Spec

-----------------------------------------------------------------------------
(* Contiguity *)

\* While a turn runs, nothing completes behind its question.
QuietBehind ==
    \A t \in Turn : pc[t] \in Running =>
        \A u, m \in messages :
            /\ u.turn = t
            /\ m.session = target[t] /\ m.status = "completed"
            => m.row < u.row

ContiguousInv == QuietBehind /\ ExchangesContiguous

\* What the steps below assume of the state they start in.
Known == TypeInv /\ GateInv /\ WholeInv /\ ContiguousInv

\* An empty transcript has no gap.
LEMMA InitContiguous == Init => ContiguousInv
BY DEF Init, StoreInit, ContiguousInv, QuietBehind, ExchangesContiguous

\* A step that leaves the rows alone opens no gap.
LEMMA KeptContiguous ==
    ASSUME Known, RowsKept
    PROVE  ContiguousInv'
BY DEF Known, RowsKept, ContiguousInv, QuietBehind, ExchangesContiguous

\* Row numbers are natural numbers, and none is above the last one given.
LEMMA RowNumbers ==
    ASSUME TypeInv
    PROVE  /\ lastRow \in Nat
           /\ \A m \in messages : m.row \in Nat /\ m.row <= lastRow
BY DEF TypeInv, TypeOK, RowsBounded, StoreTypeOK, MessageRow

\* A user row is put behind every other row of its session.
LEMMA StartContiguous ==
    ASSUME Known, NEW t \in Turn, StartMessage(t)
    PROVE  ContiguousInv'
<1> DEFINE new == [turn |-> t, role |-> "user", session |-> target[t],
                   status |-> "pending", row |-> lastRow + 1]
<1>1. /\ messages' = messages \cup {new}
      /\ pc[t] = "starting" /\ pc' = [pc EXCEPT ![t] = "running"]
      /\ UNCHANGED target
  BY DEF StartMessage, InsertUser, At, Goto, localVars
<1>2. \A m \in messages : m.turn # t
  BY <1>1 DEF Known, WholeInv, RowsOfRunning, Before
<1>3. /\ new.turn = t /\ new.role = "user" /\ new.status = "pending"
      /\ new.row = lastRow + 1
  OBVIOUS
<1>4. \A m \in messages : m.row < lastRow + 1
  BY RowNumbers DEF Known
<1> HIDE DEF new
<1>5. \A u \in Turn : u # t => pc'[u] = pc[u]
  BY <1>1 DEF Known, TypeInv, TypeOK
<1>6. QuietBehind'
  BY <1>1, <1>2, <1>3, <1>4, <1>5 DEF Known, ContiguousInv, QuietBehind
<1>7. ExchangesContiguous'
  BY <1>1, <1>2, <1>3 DEF Known, ContiguousInv, ExchangesContiguous
<1> QED BY <1>6, <1>7 DEF ContiguousInv

\* The answer is put directly behind its question when no turn runs outside the
\* daemon.
LEMMA CompleteContiguous ==
    ASSUME Local = {}, Known, NEW t \in Turn, Complete(t)
    PROVE  ContiguousInv'
<1> DEFINE settled(m) == [m EXCEPT !.status = "completed"]
           new == [turn |-> t, role |-> "assistant", session |-> target[t],
                   status |-> "completed", row |-> lastRow + 1]
<1>1. /\ pc[t] = "completing" /\ pc' = [pc EXCEPT ![t] = "releasing"]
      /\ target[t] \in sessions
      /\ UNCHANGED target
  BY DEF Complete, CompleteTurn, At, Goto, Exists, localVars
<1>2. PICK user \in messages : /\ user.turn = t /\ user.role = "user"
                               /\ user.status = "pending"
                               /\ user.session = target[t]
  BY <1>1 DEF Known, WholeInv, RowsOfRunning, RowsPlaced, Running
<1>3. \A m \in messages : m.turn = t => m = user
  BY <1>1, <1>2 DEF Known, WholeInv, RowsOfRunning, RowsUnique, Running
<1>4. messages' = (messages \ {user}) \cup {settled(user), new}
  BY <1>2, <1>3 DEF Complete, CompleteTurn
<1>5. /\ settled(user).turn = t /\ settled(user).role = "user"
      /\ settled(user).session = target[t]
      /\ settled(user).row = user.row
  <2>1. user \in MessageRow
    BY DEF Known, TypeInv, TypeOK, StoreTypeOK
  <2> QED BY <1>2, <2>1 DEF MessageRow
<1>6. /\ new.turn = t /\ new.role = "assistant" /\ new.session = target[t]
      /\ new.row = lastRow + 1
  OBVIOUS
<1> HIDE DEF settled, new
<1>7. \A u \in Turn : u # t => pc'[u] = pc[u]
  BY <1>1 DEF Known, TypeInv, TypeOK
<1>8. pc'[t] = "releasing"
  BY <1>1 DEF Known, TypeInv, TypeOK
<1>9. \A u \in Turn : pc'[u] \in Running =>
         u # t /\ pc[u] \in Running /\ target[u] # target[t]
  BY <1>1, <1>7, <1>8 DEF Known, GateInv, OneTurnPerSession, Running, Inside
<1>10. QuietBehind'
  BY <1>1, <1>3, <1>4, <1>5, <1>6, <1>9 DEF Known, ContiguousInv, QuietBehind
<1>11. \A m \in messages :
          m.session = target[t] /\ m.status = "completed" => m.row < user.row
  BY <1>1, <1>2 DEF Known, ContiguousInv, QuietBehind, Running
<1>12. ExchangesContiguous'
  <2>1. SUFFICES ASSUME NEW u \in messages', NEW a \in messages',
                        NEW m \in messages',
                        u.turn = a.turn, u.role = "user",
                        a.role = "assistant", m.session = u.session,
                        m.status = "completed"
                 PROVE  ~(u.row < m.row /\ m.row < a.row)
    BY DEF ExchangesContiguous
  <2>2. /\ lastRow \in Nat
        /\ \A k \in messages : k.row \in Nat /\ k.row <= lastRow
    BY RowNumbers DEF Known
  <2>3. CASE u.turn = t
    <3>1. u = settled(user) /\ a = new
      BY <1>3, <1>4, <1>5, <1>6, <2>1, <2>3
    <3>2. CASE m \in {settled(user), new}
      BY <1>5, <1>6, <2>2, <3>1, <3>2
    <3>3. CASE m \in messages
      <4>1. m.row < user.row
        BY <1>5, <1>11, <2>1, <3>1, <3>3
      <4> QED BY <1>5, <2>2, <3>1, <3>3, <4>1
    <3> QED BY <1>4, <3>2, <3>3
  <2>4. CASE u.turn # t
    <3>1. u \in messages /\ a \in messages
      BY <1>4, <1>5, <1>6, <2>1, <2>4
    <3>2. a.status = "completed" /\ a.session = u.session
      BY <2>1, <3>1 DEF Known, WholeInv, RowsPlaced
    <3>3. CASE m = new
      BY <1>6, <2>2, <3>1, <3>3
    <3>4. CASE m = settled(user)
      <4>1. a.row < user.row
        BY <1>5, <1>11, <2>1, <3>1, <3>2, <3>4
      <4> QED BY <1>5, <2>2, <3>1, <3>4, <4>1
    <3>5. CASE m \in messages
      BY <2>1, <3>1, <3>5 DEF Known, ContiguousInv, ExchangesContiguous
    <3> QED BY <1>4, <3>3, <3>4, <3>5
  <2> QED BY <2>3, <2>4
<1> QED BY <1>10, <1>12 DEF ContiguousInv

\* Settling a user row moves no row.
LEMMA FailContiguous ==
    ASSUME Known, NEW t \in Turn, Fail(t), ~UNCHANGED storeVars
    PROVE  ContiguousInv'
<1>1. PICK status \in {"cancelled", "failed"} : FailUser(t, status)
  BY DEF Fail
<1>2. /\ pc' = [pc EXCEPT ![t] = "releasing"]
      /\ UNCHANGED target
  BY DEF Fail, Goto, localVars
<1> DEFINE failed(m) == [m EXCEPT !.status = status]
<1>3. \A m \in messages :
         /\ failed(m).turn = m.turn /\ failed(m).role = m.role
         /\ failed(m).session = m.session /\ failed(m).row = m.row
         /\ failed(m).status # "completed"
  BY DEF Known, TypeInv, TypeOK, StoreTypeOK, MessageRow
<1>4. messages' = {IF m.turn = t /\ m.role = "user" THEN failed(m) ELSE m :
                     m \in messages}
  BY <1>1 DEF FailUser
<1> HIDE DEF failed
<1>5. \A m \in messages' : \E k \in messages :
         /\ m.turn = k.turn /\ m.role = k.role /\ m.session = k.session
         /\ m.row = k.row
         /\ m.status = "completed" => k.status = "completed"
  BY <1>3, <1>4
<1>6. \A u \in Turn : pc'[u] \in Running => pc[u] \in Running
  BY <1>2 DEF Known, TypeInv, TypeOK, Running
<1>7. QuietBehind'
  BY <1>2, <1>5, <1>6 DEF Known, ContiguousInv, QuietBehind
<1>8. ExchangesContiguous'
  BY <1>5 DEF Known, ContiguousInv, ExchangesContiguous
<1> QED BY <1>7, <1>8 DEF ContiguousInv

\* A delete empties one session and leaves the others as they are.
LEMMA DeleteContiguous ==
    ASSUME Known, NEW s \in Session, Delete(s)
    PROVE  ContiguousInv'
<1>1. messages' \subseteq messages /\ UNCHANGED <<pc, target>>
  BY DEF Delete, DeleteSession, turnVars, localVars
<1> QED BY <1>1 DEF Known, ContiguousInv, QuietBehind, ExchangesContiguous

\* Every step keeps all of it; SessionCompaction takes the same steps.
LEMMA KnownStep ==
    ASSUME Local = {}, Known, [Next]_vars
    PROVE  Known'
<1>1. TypeInv' BY LocalStepTypes, StoreStepTypes, EnvironmentTypes, StutterTypes
                  DEF Next, Step, Environment, Known
<1>2. GateInv' BY <1>1, StepGate DEF Known, TypeInv
<1>3. WholeInv'
  BY OtherSteps, KeptWhole, StartWhole, CompleteWhole, FailWhole, DeleteWhole
     DEF RowStep, Known, TypeInv
<1>4. ContiguousInv'
  <2>2. CASE \E t \in Turn : RowStep(t)
    BY <2>2, StartContiguous, CompleteContiguous, FailContiguous
       DEF RowStep
  <2>3. CASE \E s \in Session : Delete(s)
    BY <2>3, DeleteContiguous
  <2>4. CASE /\ ~ \E t \in Turn : RowStep(t)
             /\ ~ \E s \in Session : Delete(s)
    BY <2>4, OtherSteps, KeptContiguous DEF Known, TypeInv
  <2> QED BY <2>2, <2>3, <2>4
<1> QED BY <1>1, <1>2, <1>3, <1>4 DEF Known

\* With every turn in the daemon, the facts used below hold in every reachable
\* state.
LEMMA KnownInvariant == ASSUME Local = {} PROVE Spec => []Known
<1>1. Init => Known BY InitTypes, InitGate, InitWhole, InitContiguous DEF Known
<1> QED BY <1>1, KnownStep, PTL DEF Spec

(***************************************************************************)
(* When every turn takes the gate, no completed message of another turn    *)
(* comes between a question and its answer in the order the history is     *)
(* replayed in: what the session locks are for.                            *)
(***************************************************************************)
THEOREM ExchangesStayContiguous ==
    ASSUME Local = {}
    PROVE  Spec => []ExchangesContiguous
<1>1. Known => ExchangesContiguous
  BY DEF Known, ContiguousInv
<1> QED BY KnownInvariant, <1>1, PTL

-----------------------------------------------------------------------------
(* Summaries and what the model is shown *)

\* From compactHistory on, a turn holds what its model is shown.
Shown == {"summarizing", "starting"} \cup Running

\* What a turn has read of its session is all there is, since nothing
\* completes there while it is inside.
HistoryFresh ==
    \A t \in Turn, s \in sessions :
        target[t] = s /\ pc[t] = "loading" => history[t] = History(s)

\* Summary and tail are the whole history: nothing falls between them.
ShownAll ==
    \A t \in Turn, s \in sessions :
        target[t] = s /\ pc[t] \in Shown
            => context[t].covers \cup Ids(context[t].tail) = Ids(History(s))

\* What is summarized is the end of the history.
TailLast ==
    \A t \in Turn, s \in sessions :
        target[t] = s /\ pc[t] = "summarizing"
            => /\ context[t].tail \subseteq History(s)
               /\ \A m \in History(s) \ context[t].tail, k \in context[t].tail : m.row < k.row

SummaryInv == HistoryFresh /\ ShownAll /\ TailLast /\ SummaryIsPrefix

\* At first there is no summary and no turn holds a context.
LEMMA InitSummary == Init => SummaryInv
BY DEF Init, StoreInit, TurnInit, SummaryInv, HistoryFresh, ShownAll, TailLast, SummaryIsPrefix,
   Shown, Running

\* A step that completes nothing, saves no summary and changes nothing that a
\* turn holds.
ContextKept ==
    /\ \A s \in Session : History(s)' = History(s)
    /\ UNCHANGED <<sessions, target, summary, history, context>>
    /\ \A t \in Turn :
          /\ pc'[t] = "loading" => pc[t] = "loading"
          /\ pc'[t] \in Shown => pc[t] \in Shown
          /\ pc'[t] = "summarizing" => pc[t] = "summarizing"

\* A step that changes no row, summary or loaded context keeps the summary true.
LEMMA KeptSummary ==
    ASSUME TypeOK, SummaryInv, ContextKept
    PROVE  SummaryInv'
<1>1. sessions \subseteq Session /\ sessions' = sessions /\ target' = target /\ summary' = summary
  BY DEF TypeOK, StoreTypeOK, ContextKept
<1>2. HistoryFresh'
  BY <1>1 DEF SummaryInv, HistoryFresh, ContextKept
<1>3. ShownAll'
  BY <1>1 DEF SummaryInv, ShownAll, ContextKept
<1>4. TailLast'
  BY <1>1 DEF SummaryInv, TailLast, ContextKept, Shown
<1>5. SummaryIsPrefix'
  BY <1>1 DEF SummaryInv, SummaryIsPrefix, ContextKept
<1> QED BY <1>2, <1>3, <1>4, <1>5 DEF SummaryInv

\* The steps that change what a turn holds, what is completed or a summary.
ContextStep(t) == ReadHistory(t) \/ LoadSummary(t) \/ Summarize(t) \/ Complete(t)

\* Of a turn's steps only the listed ones touch a summary or a context.
LEMMA StepKeepsContext ==
    ASSUME TypeOK, WholeInv, NEW t \in Turn, Step(t) \/ Resolve(t) \/ Cancel(t) \/ CrashLocal(t),
           ~ContextStep(t)
    PROVE  ContextKept
<1>1. /\ UNCHANGED <<sessions, target, summary, history, context>>
      /\ UNCHANGED messages \/ StartMessage(t) \/ Fail(t)
  <2>1. CASE StartMessage(t) BY <2>1 DEF StartMessage, InsertUser, localVars
  <2>2. CASE StartCall(t) \/ FinishCall(t)
    BY <2>2 DEF StartCall, InsertCall, FinishCall, UpdateCall, localVars
  <2>3. CASE RecordUsage(t) BY <2>3 DEF RecordUsage, InsertUsage, localVars, storeVars
  <2>4. CASE Fail(t) BY <2>4 DEF Fail, FailUser, localVars, storeVars
  <2>5. CASE \/ Acquire(t) \/ GiveUp(t) \/ Release(t)
             \/ ReadFails(t) \/ SummarizeFails(t)
             \/ StartFails(t) \/ Answer(t) \/ AskTools(t) \/ RoundFails(t)
             \/ CallFails(t) \/ NextRound(t) \/ CompleteFails(t)
             \/ Resolve(t) \/ Cancel(t) \/ CrashLocal(t)
    BY <2>5 DEF Acquire, GiveUp, Release, ReadFails, SummarizeFails,
       StartFails, Answer, AskTools, RoundFails,
       CallFails, NextRound, CompleteFails, Resolve, Cancel, CrashLocal,
       localVars, storeVars
  <2> QED BY <2>1, <2>2, <2>3, <2>4, <2>5 DEF Step, ContextStep
<1>2. \/ UNCHANGED pc
      \/ \E to \in PC : /\ pc' = [pc EXCEPT ![t] = to]
                        /\ to \notin {"loading", "summarizing"}
                        /\ to \in Shown => pc[t] \in Shown
  BY DEF Step, ContextStep, Acquire, GiveUp, Release, Resolve,
     ReadFails, SummarizeFails, StartMessage, StartFails, Answer,
     AskTools, RoundFails, StartCall, FinishCall, CallFails, NextRound, Fail,
     RecordUsage, CompleteFails, Cancel, CrashLocal, Goto, At, Shown, Running, PC
<1>3. \A u \in Turn :
         /\ pc'[u] = "loading" => pc[u] = "loading"
         /\ pc'[u] \in Shown => pc[u] \in Shown
         /\ pc'[u] = "summarizing" => pc[u] = "summarizing"
  BY <1>2 DEF TypeOK
<1>4. \A s \in Session : History(s)' = History(s)
  <2>1. CASE UNCHANGED messages BY <2>1 DEF History
  <2>2. CASE StartMessage(t)
    <3> DEFINE new == [turn |-> t, role |-> "user", session |-> target[t],
                       status |-> "pending", row |-> lastRow + 1]
    <3>1. messages' = messages \cup {new} BY <2>2 DEF StartMessage, InsertUser
    <3>2. new.status = "pending" OBVIOUS
    <3> HIDE DEF new
    <3> QED BY <3>1, <3>2 DEF History
  <2>3. CASE Fail(t) /\ ~UNCHANGED messages
    <3>1. PICK status \in {"cancelled", "failed"} : FailUser(t, status)
      BY <2>3 DEF Fail, storeVars
    <3> DEFINE failed(m) == [m EXCEPT !.status = status]
    <3>2. \A m \in messages : failed(m).status = status
      BY DEF TypeOK, StoreTypeOK, MessageRow
    <3>3. \A m \in messages : m.turn = t => m.role = "user" /\ m.status = "pending"
      BY <2>3 DEF WholeInv, RowsOfRunning, Running, Fail, At
    <3>4. messages' = {IF m.turn = t THEN failed(m) ELSE m : m \in messages}
      BY <3>1, <3>3 DEF FailUser
    <3> HIDE DEF failed
    <3>5. \A m : m \in messages' /\ m.status = "completed" <=> m \in messages /\ m.status = "completed"
      BY <3>2, <3>3, <3>4
    <3> QED BY <3>5 DEF History
  <2> QED BY <1>1, <2>1, <2>2, <2>3
<1> QED BY <1>1, <1>3, <1>4 DEF ContextKept

\* Nor does any other step, but for a delete.
LEMMA OtherStepsKeepContext ==
    ASSUME TypeOK, WholeInv, [Next]_vars,
           ~ \E t \in Turn : ContextStep(t),
           ~ \E s \in Session : Delete(s)
    PROVE  ContextKept
<1>1. CASE Reload \/ UNCHANGED vars
  BY <1>1 DEF Reload, vars, storeVars, turnVars, localVars, ContextKept, History
<1>2. CASE CrashDaemon
  <2>1. \A t \in Turn : pc'[t] = pc[t] \/ pc'[t] = "dead"
    BY <1>2 DEF CrashDaemon, TypeOK
  <2>2. UNCHANGED <<storeVars, localVars>> BY <1>2 DEF CrashDaemon
  <2> QED BY <2>1, <2>2 DEF storeVars, localVars, ContextKept, History, Shown, Running
<1> QED BY <1>1, <1>2, StepKeepsContext DEF Next, Environment

\* MessageList reads all there is.
LEMMA ReadSummary ==
    ASSUME TypeOK, SummaryInv, NEW t \in Turn, ReadHistory(t)
    PROVE  SummaryInv'
<1>1. /\ history' = [history EXCEPT ![t] = History(target[t])]
      /\ pc' = [pc EXCEPT ![t] = "loading"]
      /\ UNCHANGED <<sessions, messages, summary, target, context>>
  BY DEF ReadHistory, Goto, storeVars
<1>2. \A s \in Session : History(s)' = History(s) BY <1>1 DEF History
<1>3. sessions \subseteq Session BY DEF TypeOK, StoreTypeOK
<1>4. \A u \in Turn : u # t => pc'[u] = pc[u] /\ history'[u] = history[u]
  BY <1>1 DEF TypeOK
<1>5. pc'[t] = "loading" /\ history'[t] = History(target[t]) BY <1>1 DEF TypeOK
<1>6. HistoryFresh' BY <1>1, <1>2, <1>3, <1>4, <1>5 DEF SummaryInv, HistoryFresh
<1>7. \A u \in Turn : pc'[u] \in Shown => pc[u] \in Shown /\ pc'[u] = pc[u]
  BY <1>4, <1>5 DEF Shown, Running
<1>8. ShownAll' BY <1>1, <1>2, <1>3, <1>7 DEF SummaryInv, ShownAll
<1>9. TailLast' BY <1>1, <1>2, <1>3, <1>7 DEF SummaryInv, TailLast, Shown
<1>10. SummaryIsPrefix' BY <1>1, <1>2 DEF SummaryInv, SummaryIsPrefix
<1> QED BY <1>6, <1>8, <1>9, <1>10 DEF SummaryInv

\* A part of a history with nothing behind it, and what is needed of the rest.
Covering(c, s) ==
    /\ c.covers \cup Ids(c.tail) = Ids(History(s))
    /\ c.tail \subseteq History(s)
    /\ \A m \in History(s) \ c.tail, k \in c.tail : m.row < k.row

\* Ids of a union.
LEMMA IdsUnion == ASSUME NEW A, NEW B PROVE Ids(A \cup B) = Ids(A) \cup Ids(B)
BY DEF Ids

\* What SummaryLoad gives, or the whole history, covers the history.
LEMMA LoadCovers ==
    ASSUME TypeInv, WholeInv, SummaryIsPrefix, NEW s \in Session,
           NEW loaded \in {SummaryContext(s, History(s)), WholeHistory(History(s))}
    PROVE  Covering(loaded, s)
<1> DEFINE h == History(s)
<1>1. CASE loaded = WholeHistory(h)
  <2>1. loaded.covers = {} /\ loaded.tail = h BY <1>1 DEF WholeHistory
  <2> QED BY <2>1 DEF Covering
<1>2. CASE loaded = SummaryContext(s, h) /\ summary[s] # NoSummary
  <2>1. PICK k \in h : /\ summary[s].through = <<k.turn, k.role>>
                       /\ summary[s].covers = Ids({m \in h : m.row <= k.row})
    BY <1>2 DEF SummaryIsPrefix
  <2>2. \A m \in h : m.row \in Nat BY RowNumbers DEF History
  <2>3. {m \in h : <<m.turn, m.role>> = summary[s].through} = {k}
    <3>1. \A m \in h : <<m.turn, m.role>> = <<k.turn, k.role>> => m = k
      BY DEF History, WholeInv, RowsUnique
    <3> HIDE DEF h
    <3> QED BY <2>1, <3>1
  <2>4. loaded.covers = summary[s].covers /\ loaded.tail = SummaryTail(h, summary[s].through)
    BY <1>2 DEF SummaryContext
  <2>5. loaded.tail = {m \in h : m.row > k.row}
    <3> HIDE DEF h
    <3> QED BY <2>3, <2>4 DEF SummaryTail
  <2>6. h = {m \in h : m.row <= k.row} \cup loaded.tail
    <3> HIDE DEF h
    <3> QED BY <2>1, <2>2, <2>5
  <2>7. Ids(h) = loaded.covers \cup Ids(loaded.tail)
    BY <2>1, <2>4, <2>6, IdsUnion
  <2>8. /\ loaded.tail \subseteq h
        /\ \A m \in h \ loaded.tail, n \in loaded.tail : m.row < n.row
    <3> HIDE DEF h
    <3> QED BY <2>1, <2>2, <2>5
  <2> QED BY <2>7, <2>8 DEF Covering
<1>3. CASE loaded = SummaryContext(s, h) /\ summary[s] = NoSummary
  BY <1>1, <1>3 DEF SummaryContext
<1> QED BY <1>1, <1>2, <1>3

\* Summary and tail that a turn loads are the whole history it has read.
LEMMA LoadKeeps ==
    ASSUME TypeInv, WholeInv, SummaryInv, NEW t \in Turn, LoadSummary(t)
    PROVE  SummaryInv'
<1>1. PICK loaded \in {SummaryContext(target[t], history[t]), WholeHistory(history[t])} :
         context' = [context EXCEPT ![t] = loaded]
  BY DEF LoadSummary
<1>2. /\ UNCHANGED <<sessions, messages, summary, target, history>>
      /\ pc[t] = "loading" /\ \E to \in {"summarizing", "starting"} : pc' = [pc EXCEPT ![t] = to]
  BY DEF LoadSummary, At, Goto, storeVars
<1>3. \A s \in Session : History(s)' = History(s) BY <1>2 DEF History
<1>4. sessions \subseteq Session /\ sessions' = sessions BY <1>2 DEF TypeInv, TypeOK, StoreTypeOK
<1>5. \A u \in Turn : u # t => pc'[u] = pc[u] /\ context'[u] = context[u]
  BY <1>1, <1>2 DEF TypeInv, TypeOK
<1>6. pc'[t] \in {"summarizing", "starting"} /\ context'[t] = loaded
  BY <1>1, <1>2 DEF TypeInv, TypeOK
<1>7. \A s \in sessions : target[t] = s => Covering(loaded, s)
  <2> SUFFICES ASSUME NEW s \in sessions, target[t] = s PROVE Covering(loaded, s) OBVIOUS
  <2>1. history[t] = History(s) BY <1>2 DEF SummaryInv, HistoryFresh
  <2> QED BY <1>1, <1>4, <2>1, LoadCovers DEF SummaryInv
<1>8. HistoryFresh' BY <1>2, <1>3, <1>4, <1>5, <1>6 DEF SummaryInv, HistoryFresh
<1>9. ShownAll'
  <2> SUFFICES ASSUME NEW u \in Turn, NEW s \in sessions, target[u] = s, pc'[u] \in Shown
               PROVE  context'[u].covers \cup Ids(context'[u].tail) = Ids(History(s))
    BY <1>2, <1>3, <1>4 DEF ShownAll
  <2>1. CASE u = t BY <1>6, <1>7, <2>1 DEF Covering
  <2>2. CASE u # t BY <1>5, <2>2 DEF SummaryInv, ShownAll
  <2> QED BY <2>1, <2>2
<1>10. TailLast'
  <2> SUFFICES ASSUME NEW u \in Turn, NEW s \in sessions, target[u] = s, pc'[u] = "summarizing"
               PROVE  /\ context'[u].tail \subseteq History(s)
                      /\ \A m \in History(s) \ context'[u].tail, k \in context'[u].tail :
                            m.row < k.row
    BY <1>2, <1>3, <1>4 DEF TailLast
  <2>1. CASE u = t BY <1>6, <1>7, <2>1 DEF Covering
  <2>2. CASE u # t BY <1>5, <2>2 DEF SummaryInv, TailLast
  <2> QED BY <2>1, <2>2
<1>11. SummaryIsPrefix' BY <1>2, <1>3 DEF SummaryInv, SummaryIsPrefix
<1> QED BY <1>8, <1>9, <1>10, <1>11 DEF SummaryInv

\* The summary that is saved covers the history up to its newest message.
LEMMA SummarizeKeeps ==
    ASSUME TypeInv, WholeInv, SummaryInv, NEW t \in Turn, Summarize(t)
    PROVE  SummaryInv'
<1> DEFINE s == target[t]
           c == context[t]
           last == Newest(c.tail)
<1>1. /\ pc[t] = "summarizing" /\ pc' = [pc EXCEPT ![t] = "starting"]
      /\ s \in sessions
      /\ summary' = [summary EXCEPT ![s] = SummaryOf(c)]
      /\ context' = [context EXCEPT ![t] = [covers |-> SummaryOf(@).covers, tail |-> {}]]
      /\ UNCHANGED <<sessions, messages, target, history>>
  BY DEF Summarize, SaveSummary, At, Goto, Exists
<1>2. \A r \in Session : History(r)' = History(r) BY <1>1 DEF History
<1>3. sessions \subseteq Session /\ sessions' = sessions
  BY <1>1 DEF TypeInv, TypeOK, StoreTypeOK
<1>4. SummaryOf(c).covers = c.covers \cup Ids(c.tail)
      /\ SummaryOf(c).through = <<last.turn, last.role>>
  BY DEF SummaryOf
<1>5. SummaryOf(c).covers = Ids(History(s))
  BY <1>1, <1>4 DEF SummaryInv, ShownAll, Shown
<1>6. last \in c.tail /\ \A n \in c.tail : n.row <= last.row
  <2>1. c.tail # {} BY <1>1 DEF TypeInv, WorkAtHand
  <2>2. c.tail \subseteq MessageRow
    <3>1. c \in Context BY DEF TypeInv, TypeOK
    <3> HIDE DEF c
    <3> QED BY <3>1 DEF Context
  <2>3. \A m \in c.tail : m.row \in Nat /\ m.row <= lastRow
    BY <2>2 DEF TypeInv, RowsBounded, MessageRow
  <2>4. lastRow \in Nat BY DEF TypeInv, TypeOK, StoreTypeOK
  <2> HIDE DEF c
  <2> QED BY <2>1, <2>3, <2>4, NewestRow
<1>7. last \in History(s) /\ {m \in History(s) : m.row <= last.row} = History(s)
  <2>1. /\ c.tail \subseteq History(s)
        /\ \A m \in History(s) \ c.tail, k \in c.tail : m.row < k.row
    BY <1>1 DEF SummaryInv, TailLast
  <2>2. \A m \in History(s) : m.row \in Nat BY RowNumbers DEF History
  <2> HIDE DEF c, last, s
  <2>3. \A m \in History(s) : m.row <= last.row BY <1>6, <2>1, <2>2
  <2> QED BY <1>6, <2>1, <2>3
<1>8. \A u \in Turn : u # t => pc'[u] = pc[u] /\ context'[u] = context[u]
  BY <1>1 DEF TypeInv, TypeOK
<1>9. /\ pc'[t] = "starting"
      /\ context'[t].covers = SummaryOf(c).covers /\ context'[t].tail = {}
  BY <1>1 DEF TypeInv, TypeOK
<1>10. /\ summary'[s] = SummaryOf(c)
       /\ \A r \in Session : r # s => summary'[r] = summary[r]
  BY <1>1, <1>3 DEF TypeInv, TypeOK, StoreTypeOK
<1> HIDE DEF c, last
<1>11. HistoryFresh' BY <1>1, <1>2, <1>3, <1>8, <1>9 DEF SummaryInv, HistoryFresh
<1>12. ShownAll'
  <2> SUFFICES ASSUME NEW u \in Turn, NEW r \in sessions, target[u] = r, pc'[u] \in Shown
               PROVE  context'[u].covers \cup Ids(context'[u].tail) = Ids(History(r))
    BY <1>1, <1>2, <1>3 DEF ShownAll
  <2>1. CASE u = t BY <1>5, <1>9, <2>1 DEF Ids
  <2>2. CASE u # t BY <1>8, <2>2 DEF SummaryInv, ShownAll
  <2> QED BY <2>1, <2>2
<1>13. TailLast' BY <1>1, <1>2, <1>3, <1>8, <1>9 DEF SummaryInv, TailLast
<1>14. SummaryIsPrefix'
  <2> SUFFICES ASSUME NEW r \in Session, summary'[r] # NoSummary
               PROVE  \E k \in History(r) :
                         /\ summary'[r].through = <<k.turn, k.role>>
                         /\ summary'[r].covers = Ids({m \in History(r) : m.row <= k.row})
    BY <1>2 DEF SummaryIsPrefix
  <2>1. CASE r = s BY <1>4, <1>5, <1>7, <1>10, <2>1
  <2>2. CASE r # s BY <1>10, <2>2 DEF SummaryInv, SummaryIsPrefix
  <2> QED BY <2>1, <2>2
<1> QED BY <1>11, <1>12, <1>13, <1>14 DEF SummaryInv

\* What messageCompleteTurn adds to a history lies behind all of it.
LEMMA CompletedHistory ==
    ASSUME Known, NEW t \in Turn, NEW s \in sessions, target[t] = s, Complete(t)
    PROVE  /\ \E question, answer :
                 /\ question.turn = t /\ question.role = "user"
                 /\ answer.turn = t /\ answer.role = "assistant"
                 /\ History(s)' = History(s) \cup {question, answer}
                 /\ \A m \in History(s) : /\ ~(question.row <= m.row)
                                          /\ ~(answer.row <= m.row)
                                          /\ m.turn # t
           /\ \A r \in Session : r # s => History(r)' = History(r)
<1> DEFINE settled(m) == [m EXCEPT !.status = "completed"]
           new == [turn |-> t, role |-> "assistant", session |-> target[t],
                   status |-> "completed", row |-> lastRow + 1]
<1>1. pc[t] = "completing" BY DEF Complete, At
<1>2. PICK user \in messages : /\ user.turn = t /\ user.role = "user"
                               /\ user.status = "pending"
                               /\ user.session = target[t]
  BY <1>1 DEF Known, WholeInv, RowsOfRunning, RowsPlaced, Running
<1>3. \A m \in messages : m.turn = t => m = user
  BY <1>1, <1>2 DEF Known, WholeInv, RowsOfRunning, RowsUnique, Running
<1>4. messages' = (messages \ {user}) \cup {settled(user), new}
  BY <1>2, <1>3 DEF Complete, CompleteTurn
<1>5. /\ settled(user).turn = t /\ settled(user).role = "user"
      /\ settled(user).session = s /\ settled(user).status = "completed"
      /\ settled(user).row = user.row
  <2>1. user \in MessageRow
    BY DEF Known, TypeInv, TypeOK, StoreTypeOK
  <2> QED BY <1>2, <2>1 DEF MessageRow
<1>6. /\ new.turn = t /\ new.role = "assistant" /\ new.session = s
      /\ new.status = "completed" /\ new.row = lastRow + 1
  OBVIOUS
<1> HIDE DEF settled, new
<1>7. \A m \in History(s) : m.row < user.row /\ m.turn # t
  BY <1>1, <1>2, <1>3 DEF Known, ContiguousInv, QuietBehind, Running, History
<1>8. /\ lastRow \in Nat
      /\ \A m \in messages : m.row \in Nat /\ m.row <= lastRow
  BY RowNumbers DEF Known
<1>9. \A m \in History(s) : ~(user.row <= m.row) /\ ~(lastRow + 1 <= m.row)
  BY <1>7, <1>8 DEF History
<1>10. History(s)' = History(s) \cup {settled(user), new}
  BY <1>2, <1>4, <1>5, <1>6 DEF History
<1>11. \A r \in Session : r # s => History(r)' = History(r)
  BY <1>2, <1>4, <1>5, <1>6 DEF History
<1> QED BY <1>5, <1>6, <1>7, <1>9, <1>10, <1>11

\* An answer is shown to its own turn alone, and lies behind what any summary
\* covers.
LEMMA CompleteKeeps ==
    ASSUME Local = {}, Known, SummaryInv, NEW t \in Turn, Complete(t)
    PROVE  SummaryInv'
<1>1. /\ pc[t] = "completing" /\ pc' = [pc EXCEPT ![t] = "releasing"]
      /\ target[t] \in sessions
      /\ UNCHANGED <<sessions, target, summary, history, context>>
  BY DEF Complete, CompleteTurn, At, Goto, Exists, localVars
<1>2. PICK s \in sessions : target[t] = s BY <1>1
<1>3. PICK question, answer :
         /\ question.turn = t /\ question.role = "user"
         /\ answer.turn = t /\ answer.role = "assistant"
         /\ History(s)' = History(s) \cup {question, answer}
         /\ \A m \in History(s) : /\ ~(question.row <= m.row)
                                  /\ ~(answer.row <= m.row)
                                  /\ m.turn # t
  BY <1>2, CompletedHistory
<1>4. \A r \in Session : r # s => History(r)' = History(r)
  BY <1>2, CompletedHistory
<1>5. sessions \subseteq Session /\ sessions' = sessions
  BY <1>1 DEF Known, TypeInv, TypeOK, StoreTypeOK
<1>6. \A u \in Turn : pc'[u] \in Shown \cup {"loading"} => pc'[u] = pc[u] /\ target[u] # s
  <2>1. \A u \in Turn : u # t => pc'[u] = pc[u] BY <1>1 DEF Known, TypeInv, TypeOK
  <2>2. pc'[t] = "releasing" BY <1>1 DEF Known, TypeInv, TypeOK
  <2>3. \A u \in Turn : u # t /\ pc[u] \in Inside => target[u] # s
    BY <1>1, <1>2 DEF Known, GateInv, OneTurnPerSession, Inside
  <2> QED BY <2>1, <2>2, <2>3 DEF Shown, Running, Inside
<1>7. \A u \in Turn : pc'[u] \in Shown \cup {"loading"} =>
         \A r \in sessions : target[u] = r => History(r)' = History(r)
  BY <1>4, <1>5, <1>6
<1>8. HistoryFresh' BY <1>1, <1>5, <1>6, <1>7 DEF SummaryInv, HistoryFresh
<1>9. ShownAll' BY <1>1, <1>5, <1>6, <1>7 DEF SummaryInv, ShownAll
<1>10. TailLast' BY <1>1, <1>5, <1>6, <1>7 DEF SummaryInv, TailLast, Shown
<1>11. SummaryIsPrefix'
  <2> SUFFICES ASSUME NEW r \in Session, summary[r] # NoSummary
               PROVE  \E k \in History(r)' :
                         /\ summary[r].through = <<k.turn, k.role>>
                         /\ summary[r].covers = Ids({m \in History(r)' : m.row <= k.row})
    BY <1>1 DEF SummaryIsPrefix
  <2>1. PICK k \in History(r) : /\ summary[r].through = <<k.turn, k.role>>
                                /\ summary[r].covers = Ids({m \in History(r) : m.row <= k.row})
    BY DEF SummaryInv, SummaryIsPrefix
  <2>2. CASE r = s
    <3>1. {m \in History(r)' : m.row <= k.row} = {m \in History(r) : m.row <= k.row}
      BY <1>3, <2>2
    <3> QED BY <1>3, <2>1, <2>2, <3>1
  <2>3. CASE r # s BY <1>4, <2>1, <2>3
  <2> QED BY <2>2, <2>3
<1> QED BY <1>8, <1>9, <1>10, <1>11 DEF SummaryInv

\* The histories change by answers and deletions only.
LEMMA HistoriesStay ==
    ASSUME TypeOK, WholeInv, [Next]_vars,
           ~ \E t \in Turn : Complete(t), ~ \E s \in Session : Delete(s)
    PROVE  sessions' = sessions /\ \A s \in Session : History(s)' = History(s)
<1>1. CASE \E t \in Turn : ContextStep(t)
  <2>1. PICK t \in Turn : ReadHistory(t) \/ LoadSummary(t) \/ Summarize(t)
    BY <1>1 DEF ContextStep
  <2>2. UNCHANGED <<sessions, messages>>
    BY <2>1 DEF ReadHistory, LoadSummary, Summarize, SaveSummary, storeVars
  <2> QED BY <2>2 DEF History
<1>2. CASE ~ \E t \in Turn : ContextStep(t)
  BY <1>2, OtherStepsKeepContext DEF ContextKept
<1> QED BY <1>1, <1>2

\* What a deletion leaves of the histories.
LEMMA DeletedHistory ==
    ASSUME NEW s \in Session, Delete(s)
    PROVE  /\ History(s)' = {}
           /\ \A r \in Session : r # s => History(r)' = History(r)
           /\ sessions' = sessions \ {s}
           /\ UNCHANGED <<pc, target, history, context>>
<1>1. messages' = {m \in messages : m.session # s} BY DEF Delete, DeleteSession
<1> QED BY <1>1 DEF Delete, DeleteSession, History, turnVars, localVars

\* A delete takes the summary of the session with its rows.
LEMMA DeleteKeeps ==
    ASSUME TypeOK, SummaryInv, NEW s \in Session, Delete(s)
    PROVE  SummaryInv'
<1>1. summary' = [summary EXCEPT ![s] = NoSummary] BY DEF Delete, DeleteSession
<1>2. \A r \in Session : r # s => summary'[r] = summary[r]
  BY <1>1 DEF TypeOK, StoreTypeOK
<1>3. summary'[s] = NoSummary BY <1>1 DEF TypeOK, StoreTypeOK
<1>4. sessions \subseteq Session BY DEF TypeOK, StoreTypeOK
<1>5. \A r \in sessions' : r \in sessions /\ History(r)' = History(r)
  BY <1>4, DeletedHistory
<1>6. HistoryFresh' BY <1>5, DeletedHistory DEF SummaryInv, HistoryFresh
<1>7. ShownAll' BY <1>5, DeletedHistory DEF SummaryInv, ShownAll
<1>8. TailLast' BY <1>5, DeletedHistory DEF SummaryInv, TailLast
<1>9. SummaryIsPrefix'
  BY <1>2, <1>3, DeletedHistory DEF SummaryInv, SummaryIsPrefix
<1> QED BY <1>6, <1>7, <1>8, <1>9 DEF SummaryInv

\* Every step keeps the summaries true.
LEMMA SummaryStep ==
    ASSUME Local = {}, Known, SummaryInv, [Next]_vars
    PROVE  SummaryInv'
<1>1. TypeInv /\ TypeOK /\ WholeInv BY DEF Known, TypeInv
<1>2. CASE \E t \in Turn : ContextStep(t)
  BY <1>1, <1>2, ReadSummary, LoadKeeps, SummarizeKeeps, CompleteKeeps DEF ContextStep
<1>3. CASE \E s \in Session : Delete(s) BY <1>1, <1>3, DeleteKeeps
<1>4. CASE ~(\E t \in Turn : ContextStep(t)) /\ ~(\E s \in Session : Delete(s))
  BY <1>1, <1>4, OtherStepsKeepContext, KeptSummary
<1> QED BY <1>2, <1>3, <1>4

\* With every turn in the daemon, summaries are true in every reachable state.
LEMMA SummaryInvariant == ASSUME Local = {} PROVE Spec => [](Known /\ SummaryInv)
BY InitSummary, SummaryStep, KnownInvariant, PTL DEF Spec

(***************************************************************************)
(* When every turn takes the gate, a summary stands for exactly the        *)
(* messages up to its marker, through failed reads, kills, deletions and   *)
(* turns cancelled anywhere (compactHistory, SummarySave).                 *)
(***************************************************************************)
THEOREM SummariesArePrefixes ==
    ASSUME Local = {}
    PROVE  Spec => []SummaryIsPrefix
<1>1. SummaryInv => SummaryIsPrefix BY DEF SummaryInv
<1> QED BY SummaryInvariant, <1>1, PTL

-----------------------------------------------------------------------------
(* Refinement *)

\* The log of every session, as Conversation has it.
Logs == [s \in Session |-> LogOf(s)]

\* A log is read from the history and what the turns in it were shown.
LEMMA LogKept ==
    ASSUME NEW s \in Session, History(s)' = History(s),
           \A m \in History(s) : context'[m.turn] = context[m.turn]
    PROVE  LogOf(s)' = LogOf(s)
<1>1. \A m \in History(s) : SeenBy(m.turn)' = SeenBy(m.turn) BY DEF SeenBy
<1> QED BY <1>1 DEF LogOf

\* The exchanges of a log are the turns with a question in the history.
LEMMA LogTurns ==
    ASSUME NEW s \in Session
    PROVE  Promise!Turns(s) = {m.turn : m \in {k \in History(s) : k.role = "user"}}
<1>1. Promise!Turns(s) = {e.turn : e \in LogOf(s)} BY DEF Promise!Turns
<1> DEFINE users == {k \in History(s) : k.role = "user"}
           entry(m) == [turn |-> m.turn, seen |-> SeenBy(m.turn)]
<1>2. LogOf(s) = {entry(m) : m \in users} BY DEF LogOf
<1>3. \A m : entry(m).turn = m.turn OBVIOUS
<1> HIDE DEF users, entry
<1>4. {e.turn : e \in LogOf(s)} = {m.turn : m \in users} BY <1>2, <1>3
<1> QED BY <1>1, <1>4 DEF users

\* A turn that is shown the whole history has seen every exchange in it.
LEMMA SeesAll ==
    ASSUME WholeInv, NEW s \in Session, NEW t \in Turn, messages \subseteq MessageRow,
           context[t].covers \cup Ids(context[t].tail) = Ids(History(s))
    PROVE  SeenBy(t) = Promise!Turns(s)
<1>1. SeenBy(t) = {u \in Turn : \A role \in Role : <<u, role>> \in Ids(History(s))}
  BY DEF SeenBy
<1>2. ASSUME NEW u \in Turn, \A role \in Role : <<u, role>> \in Ids(History(s))
      PROVE  u \in Promise!Turns(s)
  <2>1. <<u, "user">> \in Ids(History(s)) BY <1>2 DEF Role
  <2>2. PICK m \in History(s) : <<m.turn, m.role>> = <<u, "user">> BY <2>1 DEF Ids
  <2> QED BY <2>2, LogTurns
<1>3. ASSUME NEW m \in History(s), m.role = "user", NEW role \in Role
      PROVE  <<m.turn, role>> \in Ids(History(s)) /\ m.turn \in Turn
  <2>1. m \in messages /\ m.session = s /\ m.status = "completed" BY DEF History
  <2>2. PICK k \in History(s) : k.turn = m.turn /\ k.role = role
    BY <2>1 DEF WholeInv, ExchangesWhole
  <2> QED BY <2>1, <2>2 DEF Ids, MessageRow
<1>4. "user" \in Role BY DEF Role
<1> QED BY <1>1, <1>2, <1>3, <1>4, LogTurns

\* What a turn with messages was shown does not change any more.
LEMMA ContextSettled ==
    ASSUME TypeOK, WholeInv, [Next]_vars, NEW m \in messages
    PROVE  context'[m.turn] = context[m.turn]
<1>1. m.turn \in Turn BY DEF TypeOK, StoreTypeOK, MessageRow
<1>2. pc[m.turn] \notin Before BY <1>1 DEF WholeInv, RowsOfRunning
<1>3. CASE \E t \in Turn : ContextStep(t)
  <2>1. PICK t \in Turn : ContextStep(t) BY <1>3
  <2>2. CASE ReadHistory(t) \/ Complete(t)
    BY <2>2 DEF ReadHistory, Complete, localVars
  <2>3. CASE LoadSummary(t) \/ Summarize(t)
    <3>1. pc[t] \in Before BY <2>3 DEF LoadSummary, Summarize, At, Before
    <3>2. \E c : context' = [context EXCEPT ![t] = c] BY <2>3 DEF LoadSummary, Summarize
    <3> QED BY <1>1, <1>2, <3>1, <3>2 DEF TypeOK
  <2> QED BY <2>1, <2>2, <2>3 DEF ContextStep
<1>4. CASE \E s \in Session : Delete(s) BY <1>4, DeletedHistory
<1>5. CASE ~(\E t \in Turn : ContextStep(t)) /\ ~(\E s \in Session : Delete(s))
  BY <1>5, OtherStepsKeepContext DEF ContextKept
<1> QED BY <1>3, <1>4, <1>5

\* The empty store is the empty set of logs.
LEMMA InitRefines == Init => Promise!Init
<1> SUFFICES ASSUME Init PROVE Promise!Init OBVIOUS
<1>1. messages = {} /\ sessions = Session BY DEF Init, StoreInit
<1>2. \A s \in Session : LogOf(s) = {} BY <1>1 DEF LogOf, History
<1> QED BY <1>1, <1>2 DEF Promise!Init

\* messageCompleteTurn adds the exchange to the log, whose answer was based on
\* all there is in it.
LEMMA CompleteRefines ==
    ASSUME Local = {}, Known, SummaryInv, NEW t \in Turn, Complete(t)
    PROVE  \E s \in Session : Promise!Answer(s, t)
<1>1. /\ pc[t] = "completing" /\ target[t] \in sessions
      /\ UNCHANGED <<sessions, context>>
  BY DEF Complete, CompleteTurn, At, Exists, localVars
<1>2. /\ sessions \subseteq Session /\ messages \subseteq MessageRow
      /\ TypeOK /\ WholeInv
  BY DEF Known, TypeInv, TypeOK, StoreTypeOK
<1>3. PICK s \in sessions : target[t] = s BY <1>1
<1>4. PICK question, answer :
         /\ question.turn = t /\ question.role = "user"
         /\ answer.turn = t /\ answer.role = "assistant"
         /\ History(s)' = History(s) \cup {question, answer}
  BY <1>3, CompletedHistory
<1>5. SeenBy(t) = Promise!Turns(s)
  <2>1. context[t].covers \cup Ids(context[t].tail) = Ids(History(s))
    BY <1>1, <1>3 DEF SummaryInv, ShownAll, Shown, Running
  <2> QED BY <1>2, <2>1, SeesAll
<1>6. \A r \in Session : t \notin Promise!Turns(r)
  <2>1. \A r \in Session : \A m \in History(r) : m.turn # t
    BY <1>1, <1>2 DEF WholeInv, RowsOfRunning, Running, History
  <2> QED BY <2>1, LogTurns
<1>7. LogOf(s)' = LogOf(s) \cup {[turn |-> t, seen |-> SeenBy(t)]}
  <2>1. \A u : SeenBy(u)' = SeenBy(u) BY <1>1 DEF SeenBy
  <2>2. {k \in History(s)' : k.role = "user"} = {k \in History(s) : k.role = "user"} \cup {question}
    BY <1>4
  <2> QED BY <1>4, <2>1, <2>2 DEF LogOf
<1>8. \A r \in Session : r # s => LogOf(r)' = LogOf(r)
  <2>1. \A r \in Session : r # s => History(r)' = History(r) BY <1>3, CompletedHistory
  <2> QED BY <1>1, <2>1, LogKept
<1>9. Logs' = [Logs EXCEPT ![s] = @ \cup {[turn |-> t, seen |-> Promise!Turns(s)]}]
  BY <1>2, <1>5, <1>7, <1>8 DEF Logs
<1> QED BY <1>1, <1>2, <1>6, <1>9 DEF Promise!Answer, Logs

\* Deleting a session deletes its log.
LEMMA DeleteRefines ==
    ASSUME TypeOK, WholeInv, [Next]_vars, NEW s \in Session, Delete(s)
    PROVE  Promise!Delete(s)
<1>1. \A r \in Session : r # s => LogOf(r)' = LogOf(r)
  <2>1. \A r \in Session : \A m \in History(r) : context'[m.turn] = context[m.turn]
    BY ContextSettled DEF History
  <2> QED BY <2>1, LogKept, DeletedHistory
<1>2. LogOf(s)' = {} BY DeletedHistory DEF LogOf
<1>3. Logs' = [Logs EXCEPT ![s] = {}] BY <1>1, <1>2 DEF Logs
<1>4. s \in sessions /\ sessions' = sessions \ {s} BY DeletedHistory DEF Delete
<1> QED BY <1>3, <1>4 DEF Promise!Delete, Logs

\* Every step of the store is one of the logs, or leaves them alone.
LEMMA StepRefines ==
    ASSUME Local = {}, Known, SummaryInv, [Next]_vars
    PROVE  Promise!Next \/ UNCHANGED <<sessions, Logs>>
<1>1. TypeOK /\ WholeInv BY DEF Known, TypeInv
<1>2. CASE \E t \in Turn : Complete(t) BY <1>2, CompleteRefines DEF Promise!Next
<1>3. CASE \E s \in Session : Delete(s) BY <1>1, <1>3, DeleteRefines DEF Promise!Next
<1>4. CASE ~(\E t \in Turn : Complete(t)) /\ ~(\E s \in Session : Delete(s))
  <2>1. sessions' = sessions /\ \A s \in Session : History(s)' = History(s)
    BY <1>1, <1>4, HistoriesStay
  <2>2. \A s \in Session : \A m \in History(s) : context'[m.turn] = context[m.turn]
    BY <1>1, ContextSettled DEF History
  <2>3. \A s \in Session : LogOf(s)' = LogOf(s) BY <2>1, <2>2, LogKept
  <2> QED BY <2>1, <2>3 DEF Logs
<1> QED BY <1>2, <1>3, <1>4

(***************************************************************************)
(* When every turn takes the gate, the turns of a session implement        *)
(* Conversation: one at a time, each answer based on every exchange before *)
(* it, and nothing of a turn that fails or dies (Instance.Chat).           *)
(***************************************************************************)
THEOREM TurnsImplementConversation ==
    ASSUME Local = {}
    PROVE  Spec => ImplementsConversation
<1>1. Known /\ SummaryInv /\ [Next]_vars => [Promise!Next]_<<sessions, Logs>>
  BY StepRefines
<1> QED BY InitRefines, SummaryInvariant, <1>1, PTL
     DEF Spec, ImplementsConversation, Promise!Spec, Logs

-----------------------------------------------------------------------------
(* Compaction beside turns *)

RequestTypes ==
    /\ rpc \in [Request -> {"idle", "listed", "asking", "done"}]
    /\ rtarget \in [Request -> Session]
    /\ rhistory \in [Request -> SUBSET MessageRow]
    /\ rcontext \in [Request -> Context]
    /\ \A r \in Request : rpc[r] = "asking" => rcontext[r].tail # {}

\* A history that was read stays a beginning of what there is.
Prefix(h, s) ==
    /\ h \subseteq History(s)
    /\ \A m \in History(s), k \in h : m.row <= k.row => m \in h

\* A summary of c that is saved now covers all up to its marker.
Foldable(c, s) ==
    /\ c.tail \subseteq History(s)
    /\ \A k \in c.tail : Ids({m \in History(s) : m.row <= k.row}) \subseteq c.covers \cup Ids(c.tail)

\* A summary covers at least what lies before its marker.
MarkerInv ==
    \A s \in Session : summary[s] # NoSummary =>
        \E k \in History(s) :
            /\ summary[s].through = <<k.turn, k.role>>
            /\ Ids({m \in History(s) : m.row <= k.row}) \subseteq summary[s].covers

\* Whoever is about to save a summary, turn or request, holds one that may be
\* saved, however old it is by now.
FoldInv ==
    /\ \A t \in Turn, s \in sessions : target[t] = s =>
          /\ pc[t] = "loading" => Prefix(history[t], s)
          /\ pc[t] = "summarizing" => Foldable(context[t], s)
    /\ \A r \in Request, s \in sessions : rtarget[r] = s =>
          /\ rpc[r] = "listed" => Prefix(rhistory[r], s)
          /\ rpc[r] = "asking" => Foldable(rcontext[r], s)
    /\ MarkerInv

\* At first no request for a compaction is under way.
LEMMA InitFold == RequestInit => RequestTypes /\ FoldInv
BY DEF RequestInit, Init, StoreInit, TurnInit, RequestTypes, FoldInv, MarkerInv, Context, NoContext

\* New messages lie behind all that were there.
Grows(s) ==
    /\ History(s) \subseteq History(s)'
    /\ \A m \in History(s)' \ History(s), k \in History(s) : ~(m.row <= k.row)

\* A session that only grows keeps its beginnings, and what may be folded stays
\* so.
LEMMA GrowthKeeps ==
    ASSUME NEW s \in Session, Grows(s)
    PROVE  /\ \A h : Prefix(h, s) => Prefix(h, s)'
           /\ \A c : Foldable(c, s) => Foldable(c, s)'
           /\ \A k \in History(s) :
                {m \in History(s)' : m.row <= k.row} = {m \in History(s) : m.row <= k.row}
<1>1. \A k \in History(s) :
         {m \in History(s)' : m.row <= k.row} = {m \in History(s) : m.row <= k.row}
  BY DEF Grows
<1>2. ASSUME NEW h, Prefix(h, s) PROVE Prefix(h, s)'
  <2>1. h \subseteq History(s)' BY <1>2 DEF Prefix, Grows
  <2>2. \A m \in History(s)', k \in h : m.row <= k.row => m \in h
    BY <1>2 DEF Prefix, Grows
  <2> QED BY <2>1, <2>2 DEF Prefix
<1>3. ASSUME NEW c, Foldable(c, s) PROVE Foldable(c, s)'
  <2>1. c.tail \subseteq History(s)' BY <1>3 DEF Foldable, Grows
  <2>2. ASSUME NEW k \in c.tail
        PROVE  Ids({m \in History(s)' : m.row <= k.row}) \subseteq c.covers \cup Ids(c.tail)
    <3>1. k \in History(s) BY <1>3 DEF Foldable
    <3> QED BY <1>1, <1>3, <3>1 DEF Foldable
  <2> QED BY <2>1, <2>2 DEF Foldable
<1> QED BY <1>1, <1>2, <1>3

\* In every step the history of a session grows, if at all, or it is deleted.
LEMMA NextGrows ==
    ASSUME Known, [Next]_vars, NEW s \in Session, ~Delete(s)
    PROVE  Grows(s)
<1>1. TypeOK /\ WholeInv BY DEF Known, TypeInv
<1>2. CASE History(s)' = History(s) BY <1>2 DEF Grows
<1>3. ASSUME NEW t \in Turn, Complete(t) PROVE Grows(s)
  <2>1. target[t] \in sessions BY <1>3 DEF Complete, Exists
  <2>2. PICK r \in sessions : target[t] = r BY <2>1
  <2>3. CASE r = s
    <3>1. PICK question, answer :
             /\ question.turn = t /\ question.role = "user"
             /\ answer.turn = t /\ answer.role = "assistant"
             /\ History(r)' = History(r) \cup {question, answer}
             /\ \A m \in History(r) : /\ ~(question.row <= m.row)
                                      /\ ~(answer.row <= m.row)
                                      /\ m.turn # t
      BY <1>3, <2>2, CompletedHistory
    <3> QED BY <2>3, <3>1 DEF Grows
  <2>4. CASE r # s
    <3>1. History(s)' = History(s) BY <1>3, <2>2, <2>4, CompletedHistory
    <3> QED BY <1>2, <3>1
  <2> QED BY <2>3, <2>4
<1>4. ASSUME NEW r \in Session, Delete(r) PROVE Grows(s)
  BY <1>2, <1>4, DeletedHistory
<1>5. CASE ~(\E t \in Turn : Complete(t)) /\ ~(\E r \in Session : Delete(r))
  BY <1>1, <1>2, <1>5, HistoriesStay
<1> QED BY <1>3, <1>4, <1>5

\* A step that reads no history, loads and saves no summary leaves what turns
\* hold, and the summaries but for those of a deleted session.
LEMMA OtherStepsHold ==
    ASSUME Known, [Next]_vars,
           ~ \E t \in Turn : ReadHistory(t) \/ LoadSummary(t) \/ Summarize(t)
    PROVE  /\ sessions' \subseteq sessions /\ target' = target
           /\ \A s \in Session : (summary'[s] = summary[s] /\ ~Delete(s)) \/ summary'[s] = NoSummary
           /\ \A s \in sessions' : ~Delete(s)
           /\ \A t \in Turn :
                /\ pc'[t] = "loading" => pc[t] = "loading" /\ history'[t] = history[t]
                /\ pc'[t] = "summarizing" => pc[t] = "summarizing" /\ context'[t] = context[t]
<1>1. TypeOK /\ WholeInv /\ sessions \subseteq Session BY DEF Known, TypeInv, TypeOK, StoreTypeOK
<1>2. CASE \E t \in Turn : Complete(t)
  <2>1. PICK t \in Turn : Complete(t) BY <1>2
  <2>2. /\ UNCHANGED <<sessions, target, summary, history, context>>
        /\ pc' = [pc EXCEPT ![t] = "releasing"]
    BY <2>1 DEF Complete, CompleteTurn, Goto, localVars
  <2>3. \A s \in Session : ~Delete(s) BY <2>2 DEF Delete, DeleteSession
  <2>4. \A u \in Turn : pc'[u] = pc[u] \/ pc'[u] = "releasing" BY <1>1, <2>2 DEF TypeOK
  <2> QED BY <1>1, <2>2, <2>3, <2>4
<1>3. CASE \E s \in Session : Delete(s)
  <2>1. PICK s \in Session : Delete(s) BY <1>3
  <2>2. /\ sessions' = sessions \ {s} /\ UNCHANGED <<pc, target, history, context>>
    BY <2>1, DeletedHistory
  <2>3. summary' = [summary EXCEPT ![s] = NoSummary] BY <2>1 DEF Delete, DeleteSession
  <2>4. \A r \in Session : r # s => ~Delete(r)
    BY <2>1 DEF Delete, DeleteSession
  <2> QED BY <1>1, <2>2, <2>3, <2>4 DEF TypeOK, StoreTypeOK
<1>4. CASE ~(\E t \in Turn : Complete(t)) /\ ~(\E s \in Session : Delete(s))
  BY <1>1, <1>4, OtherStepsKeepContext DEF ContextStep, ContextKept
<1> QED BY <1>2, <1>3, <1>4

\* What is kept by a step that reads no history, loads and saves no summary.
LEMMA FoldKept ==
    ASSUME Known, FoldInv, [Next]_vars, UNCHANGED requestVars,
           ~ \E t \in Turn : ReadHistory(t) \/ LoadSummary(t) \/ Summarize(t)
    PROVE  FoldInv'
<1>1. TypeOK /\ WholeInv /\ sessions \subseteq Session BY DEF Known, TypeInv, TypeOK, StoreTypeOK
<1>2. /\ sessions' \subseteq sessions /\ target' = target
      /\ \A s \in Session : (summary'[s] = summary[s] /\ ~Delete(s)) \/ summary'[s] = NoSummary
      /\ \A s \in sessions' : ~Delete(s)
      /\ \A t \in Turn : /\ pc'[t] = "loading" => pc[t] = "loading" /\ history'[t] = history[t]
                         /\ pc'[t] = "summarizing" => pc[t] = "summarizing" /\ context'[t] = context[t]
  BY OtherStepsHold
<1>3. \A s \in Session : ~Delete(s) =>
         /\ \A h : Prefix(h, s) => Prefix(h, s)'
         /\ \A c : Foldable(c, s) => Foldable(c, s)'
         /\ Grows(s)
         /\ \A k \in History(s) :
              {m \in History(s)' : m.row <= k.row} = {m \in History(s) : m.row <= k.row}
  BY NextGrows, GrowthKeeps
<1>4. ASSUME NEW s \in Session, summary'[s] # NoSummary
      PROVE  \E k \in History(s)' :
                /\ summary'[s].through = <<k.turn, k.role>>
                /\ Ids({m \in History(s)' : m.row <= k.row}) \subseteq summary'[s].covers
  <2>1. summary'[s] = summary[s] /\ ~Delete(s) BY <1>2, <1>4
  <2>2. PICK k \in History(s) :
           /\ summary[s].through = <<k.turn, k.role>>
           /\ Ids({m \in History(s) : m.row <= k.row}) \subseteq summary[s].covers
    BY <1>4, <2>1 DEF FoldInv, MarkerInv
  <2> QED BY <1>3, <2>1, <2>2 DEF Grows
<1>5. MarkerInv' BY <1>4 DEF MarkerInv
<1>6. ASSUME NEW t \in Turn, NEW s \in sessions', target'[t] = s
      PROVE  /\ (pc[t] = "loading" => Prefix(history[t], s))'
             /\ (pc[t] = "summarizing" => Foldable(context[t], s))'
  <2>1. s \in sessions /\ s \in Session /\ ~Delete(s) /\ target[t] = s BY <1>1, <1>2, <1>6
  <2>2. pc'[t] = "loading" => Prefix(history[t], s)'
    <3> SUFFICES ASSUME pc'[t] = "loading" PROVE Prefix(history[t], s)' OBVIOUS
    <3>1. pc[t] = "loading" /\ history'[t] = history[t] BY <1>2
    <3>2. Prefix(history[t], s) BY <2>1, <3>1 DEF FoldInv
    <3>3. PICK h : h = history[t] OBVIOUS
    <3>4. Prefix(h, s)' BY <1>3, <2>1, <3>2, <3>3
    <3> QED BY <3>1, <3>3, <3>4 DEF Prefix
  <2>3. pc'[t] = "summarizing" => Foldable(context[t], s)'
    <3> SUFFICES ASSUME pc'[t] = "summarizing" PROVE Foldable(context[t], s)' OBVIOUS
    <3>1. pc[t] = "summarizing" /\ context'[t] = context[t] BY <1>2
    <3>2. Foldable(context[t], s) BY <2>1, <3>1 DEF FoldInv
    <3>3. PICK c : c = context[t] OBVIOUS
    <3>4. Foldable(c, s)' BY <1>3, <2>1, <3>2, <3>3
    <3> QED BY <3>1, <3>3, <3>4 DEF Foldable
  <2> QED BY <2>2, <2>3
<1>7. ASSUME NEW r \in Request, NEW s \in sessions', rtarget'[r] = s
      PROVE  /\ (rpc[r] = "listed" => Prefix(rhistory[r], s))'
             /\ (rpc[r] = "asking" => Foldable(rcontext[r], s))'
  <2>1. /\ s \in sessions /\ s \in Session /\ ~Delete(s) /\ rtarget[r] = s
        /\ UNCHANGED <<rpc, rhistory, rcontext>>
    BY <1>1, <1>2, <1>7 DEF requestVars
  <2>2. PICK h, c : h = rhistory[r] /\ c = rcontext[r] OBVIOUS
  <2>3. rpc[r] = "listed" => Prefix(h, s)' BY <1>3, <2>1, <2>2 DEF FoldInv
  <2>4. rpc[r] = "asking" => Foldable(c, s)' BY <1>3, <2>1, <2>2 DEF FoldInv
  <2>5. rhistory'[r] = h /\ rcontext'[r] = c BY <2>1, <2>2
  <2> QED BY <2>1, <2>3, <2>4, <2>5 DEF Prefix, Foldable
<1> QED BY <1>5, <1>6, <1>7 DEF FoldInv

\* What SummaryLoad gives for a beginning of the history may be folded.
LEMMA LoadFolds ==
    ASSUME TypeInv, WholeInv, MarkerInv, NEW s \in Session, NEW h, Prefix(h, s),
           NEW loaded \in {SummaryContext(s, h), WholeHistory(h)}
    PROVE  Foldable(loaded, s)
<1>1. \A m \in History(s) : m.row \in Nat BY RowNumbers DEF History
<1>2. \A A, B : A \subseteq B => Ids(A) \subseteq Ids(B) BY DEF Ids
<1>3. CASE loaded = WholeHistory(h) \/ (loaded = SummaryContext(s, h) /\ loaded.tail = h)
  <2>1. loaded.tail = h BY <1>3 DEF WholeHistory
  <2>2. \A k \in h : {m \in History(s) : m.row <= k.row} \subseteq h BY DEF Prefix
  <2> QED BY <1>2, <2>1, <2>2 DEF Foldable, Prefix
<1>4. CASE loaded = SummaryContext(s, h) /\ summary[s] = NoSummary
  BY <1>3, <1>4 DEF SummaryContext
<1>5. CASE loaded = SummaryContext(s, h) /\ summary[s] # NoSummary
  <2>1. PICK k \in History(s) :
           /\ summary[s].through = <<k.turn, k.role>>
           /\ Ids({m \in History(s) : m.row <= k.row}) \subseteq summary[s].covers
    BY <1>5 DEF MarkerInv
  <2>2. loaded.covers = summary[s].covers /\ loaded.tail = SummaryTail(h, summary[s].through)
    BY <1>5 DEF SummaryContext
  <2>3. \A m \in h : <<m.turn, m.role>> = summary[s].through => m = k
    <3>1. \A m \in h : <<m.turn, m.role>> = <<k.turn, k.role>> => m = k
      BY DEF History, WholeInv, RowsUnique, Prefix
    <3> QED BY <2>1, <3>1
  <2>4. CASE k \in h
    <3>1. {m \in h : <<m.turn, m.role>> = summary[s].through} = {k} BY <2>1, <2>3, <2>4
    <3>2. loaded.tail = {m \in h : m.row > k.row} BY <2>2, <3>1 DEF SummaryTail
    <3>3. ASSUME NEW n \in loaded.tail
          PROVE  {m \in History(s) : m.row <= n.row} \subseteq {m \in History(s) : m.row <= k.row} \cup loaded.tail
      BY <1>1, <3>2, <3>3 DEF Prefix
    <3>4. ASSUME NEW n \in loaded.tail
          PROVE  Ids({m \in History(s) : m.row <= n.row}) \subseteq loaded.covers \cup Ids(loaded.tail)
      <4>1. Ids({m \in History(s) : m.row <= n.row})
              \subseteq Ids({m \in History(s) : m.row <= k.row} \cup loaded.tail)
        BY <1>2, <3>3
      <4>2. Ids({m \in History(s) : m.row <= k.row} \cup loaded.tail)
              = Ids({m \in History(s) : m.row <= k.row}) \cup Ids(loaded.tail)
        BY IdsUnion
      <4> HIDE DEF Ids
      <4> QED BY <2>1, <2>2, <4>1, <4>2
    <3> QED BY <3>2, <3>4 DEF Foldable, Prefix
  <2>5. CASE k \notin h
    <3>1. {m \in h : <<m.turn, m.role>> = summary[s].through} = {} BY <2>3, <2>5
    <3>2. loaded.tail = h BY <2>2, <3>1 DEF SummaryTail
    <3> QED BY <1>3, <1>5, <3>2
  <2> QED BY <2>4, <2>5
<1> QED BY <1>3, <1>4, <1>5

\* A summary that is saved leaves nothing out before its marker.
LEMMA SaveMarks ==
    ASSUME TypeInv, MarkerInv, NEW s \in Session, NEW c, c.tail # {}, Foldable(c, s),
           SaveSummary(s, c)
    PROVE  MarkerInv'
<1> DEFINE last == Newest(c.tail)
<1>1. /\ summary' = [summary EXCEPT ![s] = SummaryOf(c)]
      /\ \A r \in Session : History(r)' = History(r)
  BY DEF SaveSummary, History
<1>2. /\ SummaryOf(c).covers = c.covers \cup Ids(c.tail)
      /\ SummaryOf(c).through = <<last.turn, last.role>>
  BY DEF SummaryOf
<1>3. last \in c.tail
  <2>1. lastRow \in Nat /\ \A m \in c.tail : m.row \in Nat /\ m.row <= lastRow
    BY RowNumbers DEF Foldable, History
  <2> QED BY <2>1, NewestRow
<1> HIDE DEF last
<1>4. /\ last \in History(s)
      /\ Ids({m \in History(s) : m.row <= last.row}) \subseteq SummaryOf(c).covers
  BY <1>2, <1>3 DEF Foldable
<1>5. /\ summary'[s] = SummaryOf(c)
      /\ \A r \in Session : r # s => summary'[r] = summary[r]
  BY <1>1 DEF TypeInv, TypeOK, StoreTypeOK
<1> SUFFICES ASSUME NEW r \in Session, summary'[r] # NoSummary
             PROVE  \E k \in History(r) :
                       /\ summary'[r].through = <<k.turn, k.role>>
                       /\ Ids({m \in History(r) : m.row <= k.row}) \subseteq summary'[r].covers
  BY <1>1 DEF MarkerInv
<1>6. CASE r = s BY <1>2, <1>4, <1>5, <1>6
<1>7. CASE r # s BY <1>5, <1>7 DEF MarkerInv
<1> QED BY <1>6, <1>7

\* The parts of the invariant that are about turns, and about requests.
TurnsFold ==
    \A t \in Turn, s \in sessions : target[t] = s =>
        /\ pc[t] = "loading" => Prefix(history[t], s)
        /\ pc[t] = "summarizing" => Foldable(context[t], s)

RequestsFold ==
    \A r \in Request, s \in sessions : rtarget[r] = s =>
        /\ rpc[r] = "listed" => Prefix(rhistory[r], s)
        /\ rpc[r] = "asking" => Foldable(rcontext[r], s)

\* What a turn reads is a beginning of its session, and what it sums up may be
\* folded.
LEMMA TurnFolds ==
    ASSUME Known, FoldInv, NEW t \in Turn, ReadHistory(t) \/ LoadSummary(t) \/ Summarize(t),
           UNCHANGED requestVars
    PROVE  FoldInv'
<1>1. TypeInv /\ TypeOK /\ WholeInv /\ MarkerInv /\ TurnsFold /\ RequestsFold
  BY DEF Known, FoldInv, TypeInv, TurnsFold, RequestsFold
<1>2. sessions \subseteq Session BY <1>1 DEF TypeOK, StoreTypeOK
<1>3. UNCHANGED <<sessions, messages, target>>
  BY DEF ReadHistory, LoadSummary, Summarize, SaveSummary, storeVars
<1>4. RequestsFold'
  BY <1>1, <1>3 DEF RequestsFold, requestVars, Prefix, Foldable, History
<1>5. \A u \in Turn : u # t => pc'[u] = pc[u] /\ history'[u] = history[u] /\ context'[u] = context[u]
  BY <1>1 DEF ReadHistory, LoadSummary, Summarize, Goto, TypeOK
<1>6. ASSUME NEW s \in sessions, target[t] = s
      PROVE  /\ (pc[t] = "loading" => Prefix(history[t], s))'
             /\ (pc[t] = "summarizing" => Foldable(context[t], s))'
  <2>1. CASE ReadHistory(t)
    <3>1. pc'[t] = "loading" /\ history'[t] = History(s)
      BY <1>1, <1>6, <2>1 DEF ReadHistory, Goto, TypeOK
    <3> QED BY <1>3, <3>1 DEF Prefix, History
  <2>2. CASE LoadSummary(t)
    <3>1. PICK loaded \in {SummaryContext(s, history[t]), WholeHistory(history[t])} :
             context' = [context EXCEPT ![t] = loaded]
      BY <1>6, <2>2 DEF LoadSummary
    <3>2. pc[t] = "loading" /\ pc'[t] # "loading" /\ context'[t] = loaded
      BY <1>1, <2>2, <3>1 DEF LoadSummary, At, Goto, TypeOK
    <3>3. Prefix(history[t], s) BY <1>1, <1>6, <3>2 DEF TurnsFold
    <3>4. Foldable(loaded, s) BY <1>1, <1>2, <3>1, <3>3, LoadFolds
    <3>5. Foldable(loaded, s)' BY <1>3, <3>4 DEF Foldable, History
    <3> QED BY <3>2, <3>5 DEF Foldable
  <2>3. CASE Summarize(t) BY <1>1, <2>3 DEF Summarize, Goto, TypeOK
  <2> QED BY <2>1, <2>2, <2>3
<1>7. TurnsFold'
  <2> SUFFICES ASSUME NEW u \in Turn, NEW s \in sessions, target[u] = s
               PROVE  /\ (pc[u] = "loading" => Prefix(history[u], s))'
                      /\ (pc[u] = "summarizing" => Foldable(context[u], s))'
    BY <1>3 DEF TurnsFold
  <2>1. CASE u # t
    BY <1>1, <1>3, <1>5, <2>1 DEF TurnsFold, Prefix, Foldable, History
  <2> QED BY <1>6, <2>1
<1>8. MarkerInv'
  <2>1. CASE ReadHistory(t) \/ LoadSummary(t)
    BY <1>1, <2>1 DEF ReadHistory, LoadSummary, storeVars, MarkerInv, History
  <2>2. CASE Summarize(t)
    <3>1. PICK s \in sessions : target[t] = s BY <2>2 DEF Summarize, Exists
    <3>2. pc[t] = "summarizing" /\ SaveSummary(s, context[t])
      BY <2>2, <3>1 DEF Summarize, At
    <3>3. context[t].tail # {} /\ Foldable(context[t], s)
      BY <1>1, <3>1, <3>2 DEF TurnsFold, TypeInv, WorkAtHand
    <3> QED BY <1>1, <1>2, <3>2, <3>3, SaveMarks
  <2> QED BY <2>1, <2>2
<1> QED BY <1>4, <1>7, <1>8 DEF FoldInv, TurnsFold, RequestsFold

\* A step that leaves the requests alone keeps their types.
LEMMA NextRequestTypes ==
    ASSUME RequestTypes, UNCHANGED requestVars
    PROVE  RequestTypes'
BY DEF RequestTypes, requestVars

\* So it is with a request to compact.
LEMMA RequestReads ==
    ASSUME Known, RequestTypes, FoldInv, NEW r \in Request,
           RequestList(r) \/ RequestLoad(r) \/ RequestFails(r)
    PROVE  Known' /\ RequestTypes' /\ FoldInv'
<1>1. TypeInv /\ TypeOK /\ WholeInv /\ MarkerInv /\ TurnsFold /\ RequestsFold
  BY DEF Known, FoldInv, TypeInv, TurnsFold, RequestsFold
<1>2. UNCHANGED <<vars, rtarget>>
  BY DEF RequestList, RequestLoad, RequestFails
<1>3. \A s \in Session : History(s)' = History(s) BY <1>2 DEF History, vars, storeVars
<1>4. sessions \subseteq Session BY <1>1 DEF TypeOK, StoreTypeOK
<1>5. Known'
  <2> QED
    BY <1>2 DEF Known, TypeInv, TypeOK, StoreTypeOK, RowsBounded, WorkAtHand, GateInv,
       OneLockTable, InsideHolds, OneTurnPerSession, WholeInv, RowsPlaced, RowsUnique,
       RowsOfRunning, ExchangesWhole, ContiguousInv, QuietBehind, ExchangesContiguous, History,
       vars, storeVars, turnVars, gateVars, localVars
<1>6. TurnsFold' /\ MarkerInv'
  BY <1>1, <1>2, <1>3, <1>4
     DEF TurnsFold, MarkerInv, Prefix, Foldable, vars, storeVars, turnVars, localVars
<1>7. \A q \in Request : q # r =>
         rpc'[q] = rpc[q] /\ rhistory'[q] = rhistory[q] /\ rcontext'[q] = rcontext[q]
  BY DEF RequestList, RequestLoad, RequestFails, Return, RequestTypes
<1>8. rtarget[r] \in Session BY DEF RequestTypes
<1>9. CASE RequestList(r)
  <2>1. /\ rpc' = [rpc EXCEPT ![r] = "listed"]
        /\ rhistory' = [rhistory EXCEPT ![r] = History(rtarget[r])]
        /\ rcontext' = rcontext
    BY <1>9 DEF RequestList
  <2>2. RequestTypes'
    <3>1. History(rtarget[r]) \subseteq MessageRow BY <1>1 DEF TypeOK, StoreTypeOK, History
    <3> QED BY <1>2, <2>1, <3>1 DEF RequestTypes
  <2>3. Prefix(History(rtarget[r]), rtarget[r]) BY DEF Prefix
  <2>4. rpc'[r] = "listed" /\ rhistory'[r] = History(rtarget[r]) BY <2>1 DEF RequestTypes
  <2>5. RequestsFold'
    BY <1>1, <1>2, <1>3, <1>4, <1>7, <2>3, <2>4
       DEF RequestsFold, Prefix, Foldable, vars, storeVars
  <2> QED BY <1>5, <1>6, <2>2, <2>5 DEF FoldInv, TurnsFold, RequestsFold
<1>10. CASE RequestLoad(r)
  <2> DEFINE loaded == SummaryContext(rtarget[r], rhistory[r])
  <2>1. rpc[r] = "listed" BY <1>10 DEF RequestLoad
  <2>2. loaded \in Context
    <3>1. rhistory[r] \subseteq MessageRow BY DEF RequestTypes
    <3>2. summary[rtarget[r]] \in SummaryRow \cup {NoSummary}
      BY <1>1, <1>8 DEF TypeOK, StoreTypeOK
    <3>3. SummaryTail(rhistory[r], summary[rtarget[r]].through) \subseteq rhistory[r]
      BY DEF SummaryTail
    <3> QED BY <3>1, <3>2, <3>3 DEF SummaryContext, WholeHistory, Context, SummaryRow
  <2>3. /\ rhistory' = [rhistory EXCEPT ![r] = {}]
        /\ \/ /\ rpc' = [rpc EXCEPT ![r] = "done"]
              /\ rcontext' = [rcontext EXCEPT ![r] = NoContext]
           \/ /\ rpc' = [rpc EXCEPT ![r] = "asking"]
              /\ rcontext' = [rcontext EXCEPT ![r] = loaded]
              /\ loaded.tail # {}
    BY <1>10 DEF RequestLoad, Return
  <2> HIDE DEF loaded
  <2>4. rpc'[r] = "done" \/ (rpc'[r] = "asking" /\ rcontext'[r] = loaded)
    BY <2>3 DEF RequestTypes
  <2>5. RequestTypes'
    <3>1. NoContext \in Context BY DEF NoContext, Context
    <3> QED BY <1>2, <2>2, <2>3, <3>1 DEF RequestTypes
  <2>6. ASSUME rtarget[r] \in sessions PROVE Foldable(loaded, rtarget[r])
    <3>1. Prefix(rhistory[r], rtarget[r]) BY <1>1, <2>1, <2>6 DEF RequestsFold
    <3> QED BY <1>1, <1>8, <3>1, LoadFolds DEF loaded
  <2>7. RequestsFold'
    <3> SUFFICES ASSUME NEW q \in Request, NEW s \in sessions, rtarget[q] = s
                 PROVE  /\ (rpc[q] = "listed" => Prefix(rhistory[q], s))'
                        /\ (rpc[q] = "asking" => Foldable(rcontext[q], s))'
      BY <1>2 DEF RequestsFold, vars, storeVars
    <3>1. CASE q = r
      <4>1. Foldable(loaded, s) BY <2>6, <3>1
      <4> QED BY <1>3, <1>4, <2>4, <3>1, <4>1 DEF Foldable
    <3>2. CASE q # r
      BY <1>1, <1>3, <1>4, <1>7, <3>2 DEF RequestsFold, Prefix, Foldable
    <3> QED BY <3>1, <3>2
  <2> QED BY <1>5, <1>6, <2>5, <2>7 DEF FoldInv, TurnsFold, RequestsFold
<1>11. CASE RequestFails(r)
  <2>1. Return(r) BY <1>11 DEF RequestFails
  <2>2. RequestTypes' BY <1>2, <2>1 DEF RequestTypes, Return, NoContext, Context
  <2>3. rpc'[r] = "done" BY <2>1 DEF RequestTypes, Return
  <2>4. RequestsFold'
    BY <1>1, <1>2, <1>3, <1>4, <1>7, <2>3 DEF RequestsFold, Prefix, Foldable, vars, storeVars
  <2> QED BY <1>5, <1>6, <2>2, <2>4 DEF FoldInv, TurnsFold, RequestsFold
<1> QED BY <1>9, <1>10, <1>11

\* A request saves whatever has happened since it asked for its summary.
LEMMA RequestSaves ==
    ASSUME Known, RequestTypes, FoldInv, NEW r \in Request, RequestSave(r)
    PROVE  Known' /\ RequestTypes' /\ FoldInv'
<1>1. TypeInv /\ TypeOK /\ WholeInv /\ MarkerInv /\ TurnsFold /\ RequestsFold
  BY DEF Known, FoldInv, TypeInv, TurnsFold, RequestsFold
<1>2. /\ rpc[r] = "asking" /\ Return(r)
      /\ rtarget[r] \in sessions
      /\ SaveSummary(rtarget[r], rcontext[r])
      /\ UNCHANGED <<sessions, messages, lastRow, turnVars, rtarget>>
  BY DEF RequestSave, SaveSummary
<1>3. PICK s \in sessions : rtarget[r] = s BY <1>2
<1>4. sessions \subseteq Session BY <1>1 DEF TypeOK, StoreTypeOK
<1>5. rcontext[r] \in Context /\ rcontext[r].tail # {} BY <1>2 DEF RequestTypes
<1>6. Foldable(rcontext[r], s) BY <1>1, <1>2, <1>3 DEF RequestsFold
<1>7. MarkerInv' BY <1>1, <1>2, <1>3, <1>4, <1>5, <1>6, SaveMarks
<1>8. StoreTypeOK'
  <2>1. \A m \in rcontext[r].tail : m.row <= lastRow
    BY <1>1, <1>6, RowNumbers DEF Foldable, History
  <2> QED BY <1>1, <1>2, <1>3, <1>4, <1>5, <2>1, SaveSummarySane
       DEF StoreSane, TypeInv, TypeOK, RowsBounded
<1>9. Known'
  <2>1. TypeInv'
    BY <1>1, <1>2, <1>8
       DEF TypeInv, TypeOK, RowsBounded, WorkAtHand, turnVars, gateVars, localVars
  <2>2. GateInv'
    BY <1>2, <2>1
       DEF Known, TypeInv, GateInv, OneLockTable, InsideHolds, OneTurnPerSession, turnVars,
           gateVars, localVars
  <2>3. RowsKept BY <1>2 DEF RowsKept, turnVars, localVars
  <2> QED BY <1>1, <2>1, <2>2, <2>3, KeptWhole, KeptContiguous DEF Known
<1>10. RequestTypes' BY <1>2 DEF RequestTypes, Return, NoContext, Context
<1>11. \A q \in Session : History(q)' = History(q) BY <1>2 DEF History
<1>12. TurnsFold'
  BY <1>1, <1>2, <1>4, <1>11 DEF TurnsFold, Prefix, Foldable, turnVars, localVars
<1>13. RequestsFold'
  <2>1. \A q \in Request : \/ rpc'[q] = "done"
                           \/ UNCHANGED <<rpc[q], rhistory[q], rcontext[q]>>
    BY <1>2 DEF RequestTypes, Return
  <2> QED BY <1>1, <1>2, <1>4, <1>11, <2>1 DEF RequestsFold, Prefix, Foldable
<1> QED BY <1>7, <1>9, <1>10, <1>12, <1>13 DEF FoldInv, TurnsFold, RequestsFold

\* Every step, of a turn or of a request, keeps what may be saved true.
LEMMA CompactionStep ==
    ASSUME Local = {}, Known, RequestTypes, FoldInv, [CompactionNext]_allVars
    PROVE  Known' /\ RequestTypes' /\ FoldInv'
<1>1. CASE [Next]_vars /\ UNCHANGED requestVars
  <2>1. Known' /\ RequestTypes' BY <1>1, KnownStep, NextRequestTypes
  <2>2. CASE \E t \in Turn : ReadHistory(t) \/ LoadSummary(t) \/ Summarize(t)
    BY <1>1, <2>1, <2>2, TurnFolds
  <2>3. CASE ~ \E t \in Turn : ReadHistory(t) \/ LoadSummary(t) \/ Summarize(t)
    BY <1>1, <2>1, <2>3, FoldKept
  <2> QED BY <2>1, <2>2, <2>3
<1>2. CASE \E r \in Request : CompactNow(r)
  BY <1>2, RequestReads, RequestSaves DEF CompactNow
<1> QED BY <1>1, <1>2 DEF CompactionNext, allVars

\* The marker is found, and what does not lie behind it is in the summary.
LEMMA MarkersDropNothing ==
    ASSUME TypeInv, WholeInv, MarkerInv, NEW s \in Session
    PROVE  NothingDropped(s)
<1> USE DEF NothingDropped
<1>1. PICK h, now : h = History(s) /\ now = SummaryContext(s, h) OBVIOUS
<1>2. CASE summary[s] = NoSummary
  BY <1>1, <1>2 DEF SummaryContext, WholeHistory
<1>3. CASE summary[s] # NoSummary
  <2>1. PICK k \in h :
           /\ summary[s].through = <<k.turn, k.role>>
           /\ Ids({m \in h : m.row <= k.row}) \subseteq summary[s].covers
    BY <1>1, <1>3 DEF MarkerInv
  <2>2. \A m \in h : m.row \in Nat BY <1>1, RowNumbers DEF History
  <2>3. \A m \in h : <<m.turn, m.role>> = <<k.turn, k.role>> => m = k
    BY <1>1 DEF History, WholeInv, RowsUnique
  <2>4. {m \in h : <<m.turn, m.role>> = summary[s].through} = {k} BY <2>1, <2>3
  <2>5. now.tail = {m \in h : m.row > k.row} /\ now.covers = summary[s].covers
    BY <1>1, <1>3, <2>4 DEF SummaryContext, SummaryTail
  <2>6. h = {m \in h : m.row <= k.row} \cup now.tail BY <2>1, <2>2, <2>5
  <2>7. Ids(h) = Ids({m \in h : m.row <= k.row}) \cup Ids(now.tail) BY <2>6, IdsUnion
  <2>8. Ids(h) \subseteq now.covers \cup Ids(now.tail) BY <2>1, <2>5, <2>7
  <2>9. summary[s].through \in Ids(h) BY <2>1 DEF Ids
  <2> QED BY <1>1, <2>8, <2>9
<1> QED BY <1>2, <1>3

-----------------------------------------------------------------------------
(* Each message once *)

\* Nothing of the summary in c lies in its tail or behind it.
Ahead(c, s) ==
    \A k \in c.tail : c.covers \subseteq Ids({m \in History(s) : m.row < k.row})

\* A summary covers at most what lies before its marker.
MarkedEnd(s) ==
    summary[s] # NoSummary =>
        \E k \in History(s) :
            /\ summary[s].through = <<k.turn, k.role>>
            /\ summary[s].covers \subseteq Ids({m \in History(s) : m.row <= k.row})

\* In a session of which no request has overtaken its own history, whoever is
\* about to save a summary folds in only what its old summary does not cover.
OnceInv ==
    /\ HistoryFresh
    /\ \A t \in Turn, s \in sessions \ overtaken :
          target[t] = s /\ pc[t] = "summarizing" => Ahead(context[t], s)
    /\ \A r \in Request, s \in sessions \ overtaken :
          rtarget[r] = s /\ rpc[r] = "asking" => Ahead(rcontext[r], s)
    /\ \A s \in sessions \ overtaken : MarkedEnd(s)

\* At first there is no summary and nobody holds one.
LEMMA InitOnce == RequestInit => OnceInv
BY DEF RequestInit, Init, StoreInit, TurnInit, OnceInv, HistoryFresh, MarkedEnd

\* A history that has been read stays fresh while its turn is inside.
LEMMA FreshStep ==
    ASSUME Local = {}, Known, HistoryFresh, [Next]_vars
    PROVE  HistoryFresh'
<1>1. TypeOK /\ WholeInv /\ sessions \subseteq Session BY DEF Known, TypeInv, TypeOK, StoreTypeOK
<1>2. CASE \E t \in Turn : ReadHistory(t) \/ LoadSummary(t) \/ Summarize(t)
  <2>1. PICK t \in Turn : ReadHistory(t) \/ LoadSummary(t) \/ Summarize(t) BY <1>2
  <2>2. UNCHANGED <<sessions, messages, target>>
    BY <2>1 DEF ReadHistory, LoadSummary, Summarize, SaveSummary, storeVars
  <2>3. \A u \in Turn : u # t => pc'[u] = pc[u] /\ history'[u] = history[u]
    BY <1>1, <2>1 DEF ReadHistory, LoadSummary, Summarize, Goto, TypeOK
  <2>4. pc'[t] = "loading" => history'[t] = History(target[t])
    BY <1>1, <2>1 DEF ReadHistory, LoadSummary, Summarize, Goto, TypeOK
  <2> QED BY <2>2, <2>3, <2>4 DEF HistoryFresh, History
<1>3. CASE \E t \in Turn : Complete(t)
  <2>1. PICK t \in Turn : Complete(t) BY <1>3
  <2>2. /\ pc[t] = "completing" /\ pc' = [pc EXCEPT ![t] = "releasing"]
        /\ target[t] \in sessions
        /\ UNCHANGED <<sessions, target, history>>
    BY <2>1 DEF Complete, CompleteTurn, At, Goto, Exists, localVars
  <2>3. PICK s \in sessions : target[t] = s BY <2>2
  <2>4. \A r \in Session : r # s => History(r)' = History(r)
    BY <2>1, <2>3, CompletedHistory
  <2>5. \A u \in Turn : pc'[u] = "loading" => pc[u] = "loading" /\ target[u] # s
    <3>1. \A u \in Turn : u # t => pc'[u] = pc[u] BY <1>1, <2>2 DEF TypeOK
    <3>2. pc'[t] = "releasing" BY <1>1, <2>2 DEF TypeOK
    <3>3. \A u \in Turn : u # t /\ pc[u] \in Inside => target[u] # s
      BY <2>2, <2>3 DEF Known, GateInv, OneTurnPerSession, Inside
    <3> QED BY <3>1, <3>2, <3>3 DEF Inside
  <2> QED BY <1>1, <2>2, <2>4, <2>5 DEF HistoryFresh
<1>4. CASE \E s \in Session : Delete(s)
  <2>1. PICK s \in Session : Delete(s) BY <1>4
  <2>2. \A r \in sessions' : r \in sessions /\ History(r)' = History(r)
    BY <1>1, <2>1, DeletedHistory
  <2> QED BY <2>1, <2>2, DeletedHistory DEF HistoryFresh
<1>5. CASE ~(\E t \in Turn : ContextStep(t)) /\ ~(\E s \in Session : Delete(s))
  <2>1. ContextKept BY <1>1, <1>5, OtherStepsKeepContext
  <2> QED BY <1>1, <2>1 DEF ContextKept, HistoryFresh
<1> QED BY <1>2, <1>3, <1>4, <1>5 DEF ContextStep

\* More messages put nothing behind what a summary covers.
LEMMA GrowthKeepsOnce ==
    ASSUME NEW s \in Session, History(s) \subseteq History(s)'
    PROVE  /\ \A c : Ahead(c, s) => Ahead(c, s)'
           /\ MarkedEnd(s) /\ summary'[s] = summary[s] => MarkedEnd(s)'
<1>1. \A n : /\ Ids({m \in History(s) : m.row < n}) \subseteq Ids({m \in History(s)' : m.row < n})
             /\ Ids({m \in History(s) : m.row <= n}) \subseteq Ids({m \in History(s)' : m.row <= n})
  BY DEF Ids
<1>2. ASSUME NEW c, Ahead(c, s) PROVE Ahead(c, s)'
  <2> HIDE DEF Ids, History
  <2> QED BY <1>1, <1>2 DEF Ahead
<1>3. ASSUME MarkedEnd(s), summary'[s] = summary[s] PROVE MarkedEnd(s)'
  <2> HIDE DEF Ids, History
  <2> QED BY <1>1, <1>3 DEF MarkedEnd
<1> QED BY <1>2, <1>3

\* What SummaryLoad gives to one whose history has the marker.
LEMMA LoadAhead ==
    ASSUME TypeInv, WholeInv, NEW s \in Session, MarkedEnd(s), NEW h, h \subseteq History(s),
           summary[s] # NoSummary => summary[s].through \in Ids(h),
           NEW loaded \in {SummaryContext(s, h), WholeHistory(h)}
    PROVE  Ahead(loaded, s)
<1>1. CASE loaded.covers = {} BY <1>1 DEF Ahead
<1>2. CASE loaded = SummaryContext(s, h) /\ summary[s] # NoSummary
  <2>1. PICK k \in History(s) :
           /\ summary[s].through = <<k.turn, k.role>>
           /\ summary[s].covers \subseteq Ids({m \in History(s) : m.row <= k.row})
    BY <1>2 DEF MarkedEnd
  <2>2. \A m \in h : <<m.turn, m.role>> = <<k.turn, k.role>> => m = k
    BY DEF History, WholeInv, RowsUnique
  <2>3. PICK m \in h : <<m.turn, m.role>> = summary[s].through BY <1>2 DEF Ids
  <2>4. {n \in h : <<n.turn, n.role>> = summary[s].through} = {k} BY <2>1, <2>2, <2>3
  <2>5. loaded.tail = {n \in h : n.row > k.row} /\ loaded.covers = summary[s].covers
    BY <1>2, <2>4 DEF SummaryContext, SummaryTail
  <2>6. \A n \in History(s) : n.row \in Nat BY RowNumbers DEF History
  <2>7. ASSUME NEW n \in loaded.tail
        PROVE  loaded.covers \subseteq Ids({i \in History(s) : i.row < n.row})
    <3>1. {i \in History(s) : i.row <= k.row} \subseteq {i \in History(s) : i.row < n.row}
      BY <2>5, <2>6, <2>7
    <3>2. Ids({i \in History(s) : i.row <= k.row}) \subseteq Ids({i \in History(s) : i.row < n.row})
      BY <3>1 DEF Ids
    <3> HIDE DEF Ids
    <3> QED BY <2>1, <2>5, <3>2
  <2> QED BY <2>7 DEF Ahead
<1> QED BY <1>1, <1>2 DEF SummaryContext, WholeHistory

\* A summary that is saved covers nothing behind its marker.
LEMMA SaveEnds ==
    ASSUME TypeInv, NEW s \in Session, NEW c, c.tail # {}, c.tail \subseteq History(s),
           Ahead(c, s), SaveSummary(s, c)
    PROVE  MarkedEnd(s)'
<1> DEFINE last == Newest(c.tail)
<1>1. summary'[s] = SummaryOf(c) /\ History(s)' = History(s)
  BY DEF SaveSummary, History, TypeInv, TypeOK, StoreTypeOK
<1>2. /\ SummaryOf(c).covers = c.covers \cup Ids(c.tail)
      /\ SummaryOf(c).through = <<last.turn, last.role>>
  BY DEF SummaryOf
<1>3. lastRow \in Nat /\ \A m \in History(s) : m.row \in Nat /\ m.row <= lastRow
  BY RowNumbers DEF History
<1>4. last \in c.tail /\ \A m \in c.tail : m.row <= last.row
  BY <1>3, NewestRow
<1> HIDE DEF last
<1>5. {m \in History(s) : m.row < last.row} \cup c.tail \subseteq {m \in History(s) : m.row <= last.row}
  BY <1>3, <1>4
<1>6. /\ Ids({m \in History(s) : m.row < last.row}) \subseteq Ids({m \in History(s) : m.row <= last.row})
      /\ Ids(c.tail) \subseteq Ids({m \in History(s) : m.row <= last.row})
  BY <1>5 DEF Ids
<1>7. SummaryOf(c).covers \subseteq Ids({m \in History(s) : m.row <= last.row})
  <2>1. c.covers \subseteq Ids({m \in History(s) : m.row < last.row}) BY <1>4 DEF Ahead
  <2> HIDE DEF Ids
  <2> QED BY <1>2, <1>6, <2>1
<1> QED BY <1>1, <1>2, <1>4, <1>7 DEF MarkedEnd

\* The parts of the invariant that are about turns, requests and summaries.
TurnsAhead ==
    \A t \in Turn, s \in sessions \ overtaken :
        target[t] = s /\ pc[t] = "summarizing" => Ahead(context[t], s)

RequestsAhead ==
    \A r \in Request, s \in sessions \ overtaken :
        rtarget[r] = s /\ rpc[r] = "asking" => Ahead(rcontext[r], s)

MarkedEnds == \A s \in sessions \ overtaken : MarkedEnd(s)

\* The steps of turns that touch no summary keep it so.
LEMMA OnceKept ==
    ASSUME Local = {}, Known, OnceInv, [Next]_vars, UNCHANGED requestVars,
           ~ \E t \in Turn : ReadHistory(t) \/ LoadSummary(t) \/ Summarize(t)
    PROVE  OnceInv'
<1>1. TypeOK /\ sessions \subseteq Session BY DEF Known, TypeInv, TypeOK, StoreTypeOK
<1>2. TurnsAhead /\ RequestsAhead /\ MarkedEnds
  BY DEF OnceInv, TurnsAhead, RequestsAhead, MarkedEnds
<1>3. HistoryFresh' BY FreshStep DEF OnceInv
<1>4. /\ sessions' \subseteq sessions /\ target' = target
      /\ \A s \in Session : (summary'[s] = summary[s] /\ ~Delete(s)) \/ summary'[s] = NoSummary
      /\ \A s \in sessions' : ~Delete(s)
      /\ \A t \in Turn : pc'[t] = "summarizing" => pc[t] = "summarizing" /\ context'[t] = context[t]
  BY OtherStepsHold
<1>5. UNCHANGED <<rpc, rtarget, rcontext, overtaken>> BY DEF requestVars
<1>6. \A s \in sessions' :
         /\ s \in sessions
         /\ \A c : Ahead(c, s) => Ahead(c, s)'
         /\ MarkedEnd(s) => MarkedEnd(s)'
  <2> TAKE s \in sessions'
  <2>1. s \in Session /\ ~Delete(s) BY <1>1, <1>4
  <2>2. History(s) \subseteq History(s)' BY <2>1, NextGrows DEF Grows
  <2>3. summary'[s] = summary[s] \/ summary'[s] = NoSummary BY <1>4, <2>1
  <2>4. summary'[s] = NoSummary => MarkedEnd(s)' BY DEF MarkedEnd
  <2>5. /\ \A c : Ahead(c, s) => Ahead(c, s)'
        /\ MarkedEnd(s) /\ summary'[s] = summary[s] => MarkedEnd(s)'
    BY <2>1, <2>2, GrowthKeepsOnce
  <2> QED BY <1>4, <2>3, <2>4, <2>5
<1>7. TurnsAhead'
  <2> SUFFICES ASSUME NEW t \in Turn, NEW s \in sessions' \ overtaken',
                      target'[t] = s, pc'[t] = "summarizing"
               PROVE  Ahead(context[t], s)'
    BY DEF TurnsAhead
  <2>1. PICK c : c = context[t] /\ c = context'[t] BY <1>4
  <2>2. Ahead(c, s) BY <1>2, <1>4, <1>5, <1>6, <2>1 DEF TurnsAhead
  <2>3. Ahead(c, s)' BY <1>6, <2>2
  <2> QED BY <2>1, <2>3 DEF Ahead
<1>8. RequestsAhead'
  <2> SUFFICES ASSUME NEW r \in Request, NEW s \in sessions' \ overtaken',
                      rtarget'[r] = s, rpc'[r] = "asking"
               PROVE  Ahead(rcontext[r], s)'
    BY DEF RequestsAhead
  <2>1. PICK c : c = rcontext[r] /\ c = rcontext'[r] BY <1>5
  <2>2. Ahead(c, s) BY <1>2, <1>5, <1>6, <2>1 DEF RequestsAhead
  <2>3. Ahead(c, s)' BY <1>6, <2>2
  <2> QED BY <2>1, <2>3 DEF Ahead
<1>9. MarkedEnds' BY <1>2, <1>5, <1>6 DEF MarkedEnds
<1> QED BY <1>3, <1>7, <1>8, <1>9 DEF OnceInv, TurnsAhead, RequestsAhead, MarkedEnds

\* A turn finds the marker in its fresh history, and folds in what lies behind.
LEMMA TurnFoldsOnce ==
    ASSUME Local = {}, Known, FoldInv, OnceInv, UNCHANGED requestVars, [Next]_vars,
           NEW t \in Turn, ReadHistory(t) \/ LoadSummary(t) \/ Summarize(t)
    PROVE  OnceInv'
<1>1. /\ TypeInv /\ TypeOK /\ WholeInv /\ MarkerInv /\ TurnsFold /\ sessions \subseteq Session
      /\ HistoryFresh /\ TurnsAhead /\ RequestsAhead /\ MarkedEnds
  BY DEF Known, FoldInv, TypeInv, TypeOK, StoreTypeOK, TurnsFold, OnceInv, TurnsAhead,
     RequestsAhead, MarkedEnds
<1>2. HistoryFresh' BY FreshStep DEF OnceInv
<1>3. UNCHANGED <<sessions, messages, target, rpc, rtarget, rcontext, overtaken>>
  BY DEF ReadHistory, LoadSummary, Summarize, SaveSummary, storeVars, requestVars
<1>4. \A s \in Session : History(s)' = History(s) BY <1>3 DEF History
<1>5. RequestsAhead' BY <1>1, <1>3, <1>4 DEF RequestsAhead, Ahead
<1>6. \A u \in Turn : u # t => pc'[u] = pc[u] /\ context'[u] = context[u]
  BY <1>1 DEF ReadHistory, LoadSummary, Summarize, Goto, TypeOK
<1>7. ASSUME NEW s \in sessions \ overtaken, target[t] = s, pc'[t] = "summarizing"
      PROVE  Ahead(context[t], s)'
  <2>1. CASE LoadSummary(t)
    <3>1. pc[t] = "loading" BY <2>1 DEF LoadSummary, At
    <3>2. history[t] = History(s) BY <1>1, <1>7, <3>1 DEF HistoryFresh
    <3>3. PICK loaded \in {SummaryContext(s, history[t]), WholeHistory(history[t])} :
             context' = [context EXCEPT ![t] = loaded]
      BY <1>7, <2>1 DEF LoadSummary
    <3>4. summary[s] # NoSummary => summary[s].through \in Ids(history[t])
      BY <1>1, <1>7, <3>2 DEF MarkerInv, Ids
    <3>5. MarkedEnd(s) BY <1>1, <1>7 DEF MarkedEnds
    <3>6. Ahead(loaded, s) BY <1>1, <1>7, <3>2, <3>3, <3>4, <3>5, LoadAhead
    <3>7. context'[t] = loaded BY <1>1, <3>3 DEF TypeOK
    <3> QED BY <1>1, <1>4, <1>7, <3>6, <3>7 DEF Ahead
  <2>2. CASE ReadHistory(t) \/ Summarize(t)
    <3>1. pc'[t] # "summarizing" BY <1>1, <2>2 DEF ReadHistory, Summarize, Goto, TypeOK
    <3> QED BY <1>7, <3>1
  <2> QED BY <2>1, <2>2
<1>8. TurnsAhead'
  <2> SUFFICES ASSUME NEW u \in Turn, NEW s \in sessions \ overtaken,
                      target[u] = s, pc'[u] = "summarizing"
               PROVE  Ahead(context[u], s)'
    BY <1>3 DEF TurnsAhead
  <2>1. CASE u = t BY <1>7, <2>1
  <2>2. CASE u # t BY <1>1, <1>4, <1>6, <2>2 DEF TurnsAhead, Ahead
  <2> QED BY <2>1, <2>2
<1>9. MarkedEnds'
  <2>1. CASE ReadHistory(t) \/ LoadSummary(t)
    BY <1>1, <1>3, <1>4, <2>1 DEF ReadHistory, LoadSummary, storeVars, MarkedEnds, MarkedEnd
  <2>2. CASE Summarize(t)
    <3>1. PICK s \in sessions : target[t] = s BY <2>2 DEF Summarize, Exists
    <3>2. pc[t] = "summarizing" /\ SaveSummary(s, context[t])
      BY <2>2, <3>1 DEF Summarize, At
    <3>3. context[t].tail # {} /\ context[t].tail \subseteq History(s)
      BY <1>1, <3>1, <3>2 DEF TurnsFold, Foldable, TypeInv, WorkAtHand
    <3>4. s \notin overtaken => MarkedEnd(s)'
      <4> SUFFICES ASSUME s \notin overtaken PROVE MarkedEnd(s)' OBVIOUS
      <4>1. Ahead(context[t], s) BY <1>1, <3>1, <3>2 DEF TurnsAhead
      <4> QED BY <1>1, <3>2, <3>3, <4>1, SaveEnds
    <3>5. \A q \in Session : q # s => summary'[q] = summary[q]
      BY <1>1, <3>2 DEF SaveSummary, TypeOK, StoreTypeOK
    <3> QED BY <1>1, <1>3, <1>4, <3>4, <3>5 DEF MarkedEnds, MarkedEnd
  <2> QED BY <2>1, <2>2
<1> QED BY <1>2, <1>5, <1>8, <1>9 DEF OnceInv, TurnsAhead, RequestsAhead, MarkedEnds

\* So does a request, or its session counts as overtaken from then on.
LEMMA RequestOnce ==
    ASSUME Known, RequestTypes, FoldInv, OnceInv, NEW r \in Request, CompactNow(r)
    PROVE  OnceInv'
<1>1. /\ TypeInv /\ TypeOK /\ WholeInv /\ MarkerInv /\ RequestsFold /\ sessions \subseteq Session
      /\ HistoryFresh /\ TurnsAhead /\ RequestsAhead /\ MarkedEnds
  BY DEF Known, FoldInv, TypeInv, TypeOK, StoreTypeOK, RequestsFold, OnceInv, TurnsAhead,
     RequestsAhead, MarkedEnds
<1>2. UNCHANGED <<sessions, messages, turnVars, rtarget>>
  BY DEF CompactNow, RequestList, RequestLoad, RequestSave, RequestFails, SaveSummary, vars, storeVars
<1>3. overtaken \subseteq overtaken'
  BY DEF CompactNow, RequestList, RequestLoad, RequestSave, RequestFails
<1>4. \A s \in Session : History(s)' = History(s) BY <1>2 DEF History
<1>5. HistoryFresh' BY <1>1, <1>2, <1>4 DEF HistoryFresh, turnVars, localVars
<1>6. TurnsAhead' BY <1>1, <1>2, <1>3, <1>4 DEF TurnsAhead, Ahead, turnVars, localVars
<1>7. rtarget[r] \in Session BY DEF RequestTypes
<1>8. ASSUME NEW s \in sessions \ overtaken', rtarget[r] = s, rpc'[r] = "asking"
      PROVE  Ahead(rcontext'[r], s)
  <2>1. RequestLoad(r)
    BY <1>8 DEF CompactNow, RequestList, RequestLoad, RequestSave, RequestFails, Return, RequestTypes
  <2> DEFINE loaded == SummaryContext(s, rhistory[r])
  <2>2. /\ rpc[r] = "listed"
        /\ rcontext' = [rcontext EXCEPT ![r] = loaded]
        /\ overtaken' = IF Overtakes(s, rhistory[r]) THEN overtaken \cup {s} ELSE overtaken
    BY <1>8, <2>1 DEF RequestLoad, Return, RequestTypes
  <2>3. s \notin overtaken /\ ~Overtakes(s, rhistory[r]) BY <1>8, <2>2
  <2>4. rhistory[r] \subseteq History(s) BY <1>1, <1>8, <2>2 DEF RequestsFold, Prefix
  <2>5. MarkedEnd(s) BY <1>1, <1>8, <2>3 DEF MarkedEnds
  <2>6. Ahead(loaded, s) BY <1>1, <1>8, <2>3, <2>4, <2>5, LoadAhead DEF Overtakes
  <2> HIDE DEF loaded
  <2>7. rcontext'[r] = loaded BY <2>2 DEF RequestTypes
  <2> QED BY <2>6, <2>7
<1>9. RequestsAhead'
  <2> SUFFICES ASSUME NEW q \in Request, NEW s \in sessions \ overtaken',
                      rtarget[q] = s, rpc'[q] = "asking"
               PROVE  Ahead(rcontext[q], s)'
    BY <1>2 DEF RequestsAhead
  <2>1. Ahead(rcontext'[q], s)
    <3>1. CASE q = r BY <1>8, <3>1
    <3>2. CASE q # r
      <4>1. rpc'[q] = rpc[q] /\ rcontext'[q] = rcontext[q]
        BY <3>2 DEF CompactNow, RequestList, RequestLoad, RequestSave, RequestFails, Return,
           RequestTypes
      <4> QED BY <1>1, <1>3, <4>1 DEF RequestsAhead
    <3> QED BY <3>1, <3>2
  <2> QED BY <1>1, <1>4, <2>1 DEF Ahead
<1>10. MarkedEnds'
  <2>1. CASE RequestSave(r)
    <3>1. PICK s \in sessions : rtarget[r] = s BY <2>1 DEF RequestSave
    <3>2. rpc[r] = "asking" /\ SaveSummary(s, rcontext[r]) /\ overtaken' = overtaken
      BY <2>1, <3>1 DEF RequestSave
    <3>3. rcontext[r].tail # {} /\ rcontext[r].tail \subseteq History(s)
      BY <1>1, <3>1, <3>2 DEF RequestTypes, RequestsFold, Foldable
    <3>4. s \notin overtaken => MarkedEnd(s)'
      <4> SUFFICES ASSUME s \notin overtaken PROVE MarkedEnd(s)' OBVIOUS
      <4>1. Ahead(rcontext[r], s) BY <1>1, <3>1, <3>2 DEF RequestsAhead
      <4> QED BY <1>1, <3>2, <3>3, <4>1, SaveEnds
    <3>5. \A q \in Session : q # s => summary'[q] = summary[q]
      BY <1>1, <3>2 DEF SaveSummary, TypeOK, StoreTypeOK
    <3> QED BY <1>1, <1>2, <1>4, <3>2, <3>4, <3>5 DEF MarkedEnds, MarkedEnd
  <2>2. CASE ~RequestSave(r)
    <3>1. summary' = summary
      BY <2>2 DEF CompactNow, RequestList, RequestLoad, RequestFails, vars, storeVars
    <3> QED BY <1>1, <1>2, <1>3, <1>4, <3>1 DEF MarkedEnds, MarkedEnd
  <2> QED BY <2>1, <2>2
<1> QED BY <1>5, <1>6, <1>9, <1>10 DEF OnceInv, TurnsAhead, RequestsAhead, MarkedEnds

\* Every step, of a turn or of a request, keeps it so.
LEMMA OnceStep ==
    ASSUME Local = {}, Known, RequestTypes, FoldInv, OnceInv, [CompactionNext]_allVars
    PROVE  OnceInv'
<1>1. CASE [Next]_vars /\ UNCHANGED requestVars
  <2>1. CASE \E t \in Turn : ReadHistory(t) \/ LoadSummary(t) \/ Summarize(t)
    BY <1>1, <2>1, TurnFoldsOnce
  <2>2. CASE ~ \E t \in Turn : ReadHistory(t) \/ LoadSummary(t) \/ Summarize(t)
    BY <1>1, <2>2, OnceKept
  <2> QED BY <2>1, <2>2
<1>2. CASE \E r \in Request : CompactNow(r) BY <1>2, RequestOnce
<1> QED BY <1>1, <1>2 DEF CompactionNext, allVars

\* A summary that covers nothing behind its marker has nothing of the tail.
LEMMA NothingTwiceThen ==
    ASSUME TypeInv, WholeInv, NEW s \in Session, MarkedEnd(s)
    PROVE  NothingTwice(s)
<1>1. PICK h, now : h = History(s) /\ now = SummaryContext(s, h) OBVIOUS
<1>2. CASE summary[s] = NoSummary
  BY <1>1, <1>2 DEF NothingTwice, SummaryContext, WholeHistory
<1>3. CASE summary[s] # NoSummary
  <2>1. PICK k \in h :
           /\ summary[s].through = <<k.turn, k.role>>
           /\ summary[s].covers \subseteq Ids({m \in h : m.row <= k.row})
    BY <1>1, <1>3 DEF MarkedEnd
  <2>2. \A m, n \in h : m.turn = n.turn /\ m.role = n.role => m = n
    BY <1>1 DEF History, WholeInv, RowsUnique
  <2>3. \A m \in h : <<m.turn, m.role>> = <<k.turn, k.role>> => m = k BY <2>2
  <2>4. {m \in h : <<m.turn, m.role>> = summary[s].through} = {k} BY <2>1, <2>3
  <2>5. now.tail = {m \in h : m.row > k.row} /\ now.covers = summary[s].covers
    BY <1>1, <1>3, <2>4 DEF SummaryContext, SummaryTail
  <2>6. \A m \in h : m.row \in Nat BY <1>1, RowNumbers DEF History
  <2>7. Ids({m \in h : m.row <= k.row}) \cap Ids(now.tail) = {}
    <3>1. ASSUME NEW m \in h, m.row <= k.row, NEW n \in h, n.row > k.row
          PROVE  <<m.turn, m.role>> # <<n.turn, n.role>>
      BY <2>1, <2>2, <2>6, <3>1
    <3> QED BY <2>5, <3>1 DEF Ids
  <2>8. now.covers \cap Ids(now.tail) = {}
    <3> HIDE DEF Ids
    <3> QED BY <2>1, <2>5, <2>7
  <2> QED BY <1>1, <2>8 DEF NothingTwice
<1> QED BY <1>2, <1>3

(***************************************************************************)
(* With any number of requests to compact beside the turns of the daemon,  *)
(* each working with a history and a summary that may both be old by the   *)
(* time it saves, no message falls between the summary and the tail, and   *)
(* none is in both, unless a request read its history before the summary   *)
(* it folds into was saved (CompactNow, compactHistory, SummarySave).      *)
(***************************************************************************)
THEOREM MessagesReachOnce ==
    ASSUME Local = {}
    PROVE  CompactionSpec => []EachMessageOnce
<1>1. RequestInit => Known /\ RequestTypes /\ FoldInv /\ OnceInv
  BY InitTypes, InitGate, InitWhole, InitContiguous, InitFold, InitOnce DEF RequestInit, Known
<1>2. Known /\ RequestTypes /\ FoldInv /\ OnceInv /\ [CompactionNext]_allVars
         => Known' /\ RequestTypes' /\ FoldInv' /\ OnceInv'
  BY CompactionStep, OnceStep
<1>3. Known /\ FoldInv /\ OnceInv => EachMessageOnce
  <2> SUFFICES ASSUME Known, FoldInv, OnceInv, NEW s \in Session
               PROVE  NothingDropped(s) /\ (s \notin overtaken => NothingTwice(s))
    BY DEF EachMessageOnce
  <2>1. TypeInv /\ WholeInv /\ MarkerInv BY DEF Known, FoldInv
  <2>2. CASE s \in sessions
    BY <2>1, <2>2, MarkersDropNothing, NothingTwiceThen DEF OnceInv
  <2>3. CASE s \notin sessions
    <3>1. History(s) = {} BY <2>1, <2>3 DEF WholeInv, RowsPlaced, History
    <3>2. MarkedEnd(s) BY <2>1, <3>1 DEF MarkerInv, MarkedEnd
    <3> QED BY <2>1, <3>2, MarkersDropNothing, NothingTwiceThen
  <2> QED BY <2>2, <2>3
<1> QED BY <1>1, <1>2, <1>3, PTL DEF CompactionSpec

=============================================================================
