----------------------------- MODULE MCDiscord ------------------------------
(***************************************************************************)
(* A Discord bot's channels, its approvals and its users in one run.  A    *)
(* role is looked up when a message arrives (Hear), no more; a turn that   *)
(* waits for an approval is a turn that answers, and its end by a timeout  *)
(* is one that Return makes anyway, so the two share no state: a behaviour *)
(* of the bot is one of each interleaved, and what is true of either is    *)
(* found by letting one of them move at a time: `part` says which.         *)
(***************************************************************************)
EXTENDS DiscordTurns

CONSTANTS admin, Request, User, Owner, Press, Bot, Code, MaxAdding

VARIABLES
    part,
    asking, cancelled, approvals, response, card, verdict, press, pressed,
    role, mention, codes, minted, adding, paired

approvalVars == <<asking, cancelled, approvals, response, card, verdict, press, pressed>>
userVars == <<role, mention, codes, minted, adding, paired>>

A == INSTANCE DiscordApproval WITH pc <- asking

U == INSTANCE DiscordUsers

\* Every request is for the same admin.
SameOwner == [r \in Request |-> admin]

BotInit ==
    /\ part \in {"turns", "approvals", "users"}
    /\ Init
    /\ A!Init
    /\ U!Init

BotNext ==
    \/ part = "turns" /\ Next /\ UNCHANGED <<part, approvalVars, userVars>>
    \/ part = "approvals" /\ A!Next /\ UNCHANGED <<part, vars, userVars>>
    \/ part = "users" /\ U!Next /\ UNCHANGED <<part, vars, approvalVars>>

\* The fairness of each, for the part that moves; the users have none.
BotSpec ==
    /\ BotInit
    /\ [][BotNext]_<<part, vars, approvalVars, userVars>>
    /\ \A d \in Delivery : WF_vars(part = "turns" /\ Step(d))
    /\ \A r \in Request : WF_approvalVars(part = "approvals" /\ A!Approve(r))
    /\ \A p \in Press : WF_approvalVars(part = "approvals" /\ A!Handle(p))

\* The state of the bot is well formed: the dedupe set drops what it should
\* and keeps its bound, as does the channel of an approval, and the map of
\* turns is right about which channels are idle (rememberMessage, approve,
\* queueTurn); and whom it obeys was let in by an owner, who had a code (see
\* UsersInv).
BotInv == TypeOK /\ DuplicatesDropped /\ EmptyMeansIdle /\ A!TypeOK /\ U!UsersInv

\* The properties of DiscordApproval (see there).
OwnerDecides == A!OwnerDecides
ClosedMeansNotRun == A!ClosedMeansNotRun

\* Whoever waits is released: turns in the queue of their channel, and the turn
\* that asked and was cancelled (see TurnsEnd and CancelEndsWait).
WaitsEnd == TurnsEnd /\ A!CancelEndsWait

=============================================================================
