----------------------------- MODULE RemoteTurn -----------------------------
(***************************************************************************)
(* What a server that runs turns for its clients promises them, who run    *)
(* the tools.  The turns of a session run one at a time, and only so many  *)
(* calls are open.  What the model asks for is run by the client at most   *)
(* once, in the order it was asked for, and the model goes on with the     *)
(* result of that very run, unless the turn was cancelled.  The client is  *)
(* told of the end when nothing of the turn is left.                       *)
(***************************************************************************)
EXTENDS Naturals, FiniteSets

CONSTANTS Chat, Slots

VARIABLES
    slots,      \* the calls that are open
    turn,       \* of each call: "none", "waiting", "running", "completed" or "failed"
    asked,      \* how often its model has asked for a tool
    given,      \* the request whose result the model was given last, or 0
    over,       \* nobody waits for the turn any more
    client,     \* "new", "refused", "attached", "told" or "gone"
    task,       \* the request the client took last, or 0
    busy,       \* its tool runs
    outspoken   \* the client has said something besides its results

vars == <<slots, turn, asked, given, over, client, task, busy, outspoken>>

Init ==
    /\ slots = {}
    /\ turn = [c \in Chat |-> "none"]
    /\ asked = [c \in Chat |-> 0]
    /\ given = [c \in Chat |-> 0]
    /\ over = [c \in Chat |-> FALSE]
    /\ client = [c \in Chat |-> "new"]
    /\ task = [c \in Chat |-> 0]
    /\ busy = [c \in Chat |-> FALSE]
    /\ outspoken = [c \in Chat |-> FALSE]

Admit(c) ==
    /\ client[c] = "new" /\ Cardinality(slots) < Slots
    /\ slots' = slots \cup {c}
    /\ turn' = [turn EXCEPT ![c] = "waiting"]
    /\ client' = [client EXCEPT ![c] = "attached"]
    /\ UNCHANGED <<asked, given, over, task, busy, outspoken>>

Refuse(c) ==
    /\ client[c] = "new" /\ Cardinality(slots) >= Slots
    /\ client' = [client EXCEPT ![c] = "refused"]
    /\ UNCHANGED <<slots, turn, asked, given, over, task, busy, outspoken>>

Begin(c) ==
    /\ turn[c] = "waiting" /\ \A d \in Chat : turn[d] # "running"
    /\ turn' = [turn EXCEPT ![c] = "running"]
    /\ UNCHANGED <<slots, asked, given, over, client, task, busy, outspoken>>

\* The model has had the result of all it has asked for so far.
Settled(c) == given[c] = asked[c] \/ over[c]

Ask(c) ==
    /\ turn[c] = "running" /\ Settled(c)
    /\ asked' = [asked EXCEPT ![c] = @ + 1]
    /\ UNCHANGED <<slots, turn, given, over, client, task, busy, outspoken>>

\* The client takes the next request, which nothing takes back.
Run(c) ==
    /\ client[c] = "attached" /\ ~busy[c] /\ task[c] < asked[c]
    /\ task' = [task EXCEPT ![c] = @ + 1]
    /\ busy' = [busy EXCEPT ![c] = TRUE]
    /\ UNCHANGED <<slots, turn, asked, given, over, client, outspoken>>

Return(c) ==
    /\ busy[c]
    /\ busy' = [busy EXCEPT ![c] = FALSE]
    /\ UNCHANGED <<slots, turn, asked, given, over, client, task, outspoken>>

\* A client that makes up results is believed, but once for a request, and only
\* while that is the one that is open.
Give(c) ==
    /\ turn[c] = "running" /\ given[c] < asked[c]
    /\ outspoken[c] \/ (task[c] = asked[c] /\ ~busy[c])
    /\ given' = [given EXCEPT ![c] = asked[c]]
    /\ UNCHANGED <<slots, turn, asked, over, client, task, busy, outspoken>>

Complete(c) ==
    /\ turn[c] = "running" /\ Settled(c)
    /\ turn' = [turn EXCEPT ![c] = "completed"]
    /\ UNCHANGED <<slots, asked, given, over, client, task, busy, outspoken>>

Fail(c) ==
    /\ \/ turn[c] = "waiting" /\ over[c]
       \/ turn[c] = "running" /\ Settled(c)
    /\ turn' = [turn EXCEPT ![c] = "failed"]
    /\ UNCHANGED <<slots, asked, given, over, client, task, busy, outspoken>>

\* The call is closed; a turn that has not begun never does.
Close(c) ==
    /\ c \in slots /\ turn[c] # "running"
    /\ slots' = slots \ {c}
    /\ turn' = [turn EXCEPT ![c] = IF @ = "waiting" THEN "failed" ELSE @]
    /\ over' = [over EXCEPT ![c] = TRUE]
    /\ UNCHANGED <<asked, given, client, task, busy, outspoken>>

Tell(c) ==
    /\ client[c] = "attached" /\ ~busy[c]
    /\ c \notin slots
    /\ client' = [client EXCEPT ![c] = "told"]
    /\ UNCHANGED <<slots, turn, asked, given, over, task, busy, outspoken>>

SpeakUp(c) ==
    /\ client[c] = "attached"
    /\ outspoken' = [outspoken EXCEPT ![c] = TRUE]
    /\ UNCHANGED <<slots, turn, asked, given, over, client, task, busy>>

Cancel(c) ==
    /\ outspoken[c]
    /\ over' = [over EXCEPT ![c] = TRUE]
    /\ UNCHANGED <<slots, turn, asked, given, client, task, busy, outspoken>>

\* The client is gone, and with it whoever waited for its tool.
Leave(c) ==
    /\ client[c] = "attached"
    /\ client' = [client EXCEPT ![c] = "gone"]
    /\ busy' = [busy EXCEPT ![c] = FALSE]
    /\ over' = [over EXCEPT ![c] = TRUE]
    /\ UNCHANGED <<slots, turn, asked, given, task, outspoken>>

Next ==
    \E c \in Chat :
        \/ Admit(c) \/ Refuse(c) \/ Begin(c) \/ Ask(c) \/ Run(c) \/ Return(c) \/ Give(c)
        \/ Complete(c) \/ Fail(c) \/ Close(c) \/ Tell(c)
        \/ SpeakUp(c) \/ Cancel(c) \/ Leave(c)

Spec == Init /\ [][Next]_vars
=============================================================================
