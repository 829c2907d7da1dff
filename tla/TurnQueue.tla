------------------------------ MODULE TurnQueue ------------------------------
(***************************************************************************)
(* What a chat front end promises about the turns of a channel: they run   *)
(* one at a time and in the order they joined the line, and once the front *)
(* end shuts down no other turn begins; those still in line leave it, in   *)
(* any order, without having run.                                          *)
(***************************************************************************)
EXTENDS Naturals, Sequences

CONSTANTS
    Job,
    Channel,
    None        \* no job

VARIABLES
    joined,     \* jobs that ever joined the line of each channel, in that order
    line,       \* those of them that wait
    busy,       \* the job each channel runs
    down        \* the front end has shut down

vars == <<joined, line, busy, down>>

Init ==
    /\ joined = [c \in Channel |-> <<>>]
    /\ line = [c \in Channel |-> {}]
    /\ busy = [c \in Channel |-> None]
    /\ down = FALSE

Join(j, c) ==
    /\ \A i \in 1 .. Len(joined[c]) : joined[c][i] # j
    /\ joined' = [joined EXCEPT ![c] = Append(@, j)]
    /\ line' = [line EXCEPT ![c] = @ \cup {j}]
    /\ UNCHANGED <<busy, down>>

\* The i-th to join is the first of those in line.
Begin(c) ==
    /\ ~down
    /\ busy[c] = None
    /\ \E i \in 1 .. Len(joined[c]) :
          /\ joined[c][i] \in line[c]
          /\ \A k \in 1 .. i - 1 : joined[c][k] \notin line[c]
          /\ busy' = [busy EXCEPT ![c] = joined[c][i]]
          /\ line' = [line EXCEPT ![c] = @ \ {joined[c][i]}]
    /\ UNCHANGED <<joined, down>>

End(c) ==
    /\ busy[c] # None
    /\ busy' = [busy EXCEPT ![c] = None]
    /\ UNCHANGED <<joined, line, down>>

ShutDown ==
    /\ down' = TRUE
    /\ UNCHANGED <<joined, line, busy>>

Leave(j, c) ==
    /\ down
    /\ line' = [line EXCEPT ![c] = @ \ {j}]
    /\ UNCHANGED <<joined, busy, down>>

Next ==
    \/ ShutDown
    \/ \E c \in Channel :
          \/ Begin(c) \/ End(c)
          \/ \E j \in Job : Join(j, c) \/ Leave(j, c)

Spec == Init /\ [][Next]_vars
=============================================================================
