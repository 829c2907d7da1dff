-------------------------- MODULE DiscordApproval --------------------------
(***************************************************************************)
(* The question a Discord bot asks before a dangerous tool runs:           *)
(* Discord.approve, closeApproval and approvalInteraction                  *)
(* (bot/discord/handlers/approval.go).                                     *)
(*                                                                         *)
(* The turn's goroutine registers a request, posts a card with two         *)
(* buttons and waits for an answer, the end of its context or five         *)
(* minutes.  Each press of a button is handled in a goroutine of its own,  *)
(* which finds the request, rewrites the card, and only then offers its    *)
(* answer to the turn.  A press is on its way while other presses and the  *)
(* timer act, so it may arrive at a card that has lost its buttons.        *)
(***************************************************************************)
EXTENDS Naturals

CONSTANTS
    Request,
    User,
    Owner,      \* the user each request is for
    Press       \* presses of a button, numbered as they are made

VARIABLES
    pc,         \* where approve() is
    cancelled,  \* its context has ended
    approvals,  \* the requests found in the map of that name
    response,   \* the channel of capacity one: a set of at most one answer
    card,       \* what the posted message shows
    verdict,    \* what approve() returns
    press,      \* where the handler of a press is
    pressed     \* which button was pressed, and by whom

vars == <<pc, cancelled, approvals, response, card, verdict, press, pressed>>

Answer == {"approved", "denied"}
Closed == {"canceled", "expired"}
Verdict == Answer \cup Closed \cup {"unsent"}
Button == [request : Request, by : User, answer : Answer]
NoButton == [request |-> "none", by |-> "none", answer |-> "none"]

TypeOK ==
    /\ pc \in [Request -> {"new", "sending", "waiting", "closing", "returning", "gone"}]
    /\ cancelled \in [Request -> BOOLEAN]
    /\ approvals \subseteq Request
    /\ response \in [Request -> {{}, {"approved"}, {"denied"}}]
    /\ card \in [Request -> {"none", "buttons"} \cup Answer \cup Closed]
    /\ verdict \in [Request -> {"none"} \cup Verdict]
    /\ press \in [Press -> {"none", "sent", "found", "shown", "done"}]
    /\ \A p \in Press :
          IF press[p] = "none" THEN pressed[p] = NoButton ELSE pressed[p] \in Button

Init ==
    /\ pc = [r \in Request |-> "new"]
    /\ cancelled = [r \in Request |-> FALSE]
    /\ approvals = {}
    /\ response = [r \in Request |-> {}]
    /\ card = [r \in Request |-> "none"]
    /\ verdict = [r \in Request |-> "none"]
    /\ press = [p \in Press |-> "none"]
    /\ pressed = [p \in Press |-> NoButton]

Goto(r, to) == pc' = [pc EXCEPT ![r] = to]
Shows(r, what) == card' = [card EXCEPT ![r] = what]
Decide(r, what) == verdict' = [verdict EXCEPT ![r] = what]

-----------------------------------------------------------------------------
(* approve *)

Register(r) ==
    /\ pc[r] = "new"
    /\ approvals' = approvals \cup {r}
    /\ Goto(r, "sending")
    /\ UNCHANGED <<cancelled, response, card, verdict, press, pressed>>

\* The card is posted, or cannot be.
Post(r) ==
    /\ pc[r] = "sending"
    /\ \/ Goto(r, "waiting") /\ UNCHANGED verdict
          /\ Shows(r, "buttons")
       \/ Goto(r, "returning") /\ Decide(r, "unsent")
          /\ UNCHANGED card
    /\ UNCHANGED <<cancelled, approvals, response, press, pressed>>

TakeAnswer(r) ==
    /\ pc[r] = "waiting"
    /\ \E a \in response[r] : Decide(r, a)
    /\ response' = [response EXCEPT ![r] = {}]
    /\ Goto(r, "returning")
    /\ UNCHANGED <<cancelled, approvals, card, press, pressed>>

HearCancel(r) ==
    /\ pc[r] = "waiting" /\ cancelled[r]
    /\ Decide(r, "canceled")
    /\ Goto(r, "closing")
    /\ UNCHANGED <<cancelled, approvals, response, card, press, pressed>>

Expire(r) ==
    /\ pc[r] = "waiting"
    /\ Decide(r, "expired")
    /\ Goto(r, "closing")
    /\ UNCHANGED <<cancelled, approvals, response, card, press, pressed>>

\* Broken: an answer that came after all is taken while the card is closed.
CloseLate(r) ==
    /\ pc[r] = "closing"
    /\ Shows(r, verdict[r])
    /\ IF response[r] = {} THEN UNCHANGED verdict
       ELSE \E a \in response[r] : Decide(r, a)
    /\ Goto(r, "returning")
    /\ UNCHANGED <<cancelled, approvals, response, press, pressed>>

\* closeApproval: an edit of the card whose failure nobody looks at.
Close(r) ==
    /\ pc[r] = "closing"
    /\ Shows(r, verdict[r]) \/ UNCHANGED card
    /\ Goto(r, "returning")
    /\ UNCHANGED <<cancelled, approvals, response, verdict, press, pressed>>

\* The deferred delete.
Return(r) ==
    /\ pc[r] = "returning"
    /\ approvals' = approvals \ {r}
    /\ Goto(r, "gone")
    /\ UNCHANGED <<cancelled, response, card, verdict, press, pressed>>

\* The turn's context ends: its timeout, or the shutdown of the bot.
Cancel(r) ==
    /\ ~cancelled[r]
    /\ cancelled' = [cancelled EXCEPT ![r] = TRUE]
    /\ UNCHANGED <<pc, approvals, response, card, verdict, press, pressed>>

-----------------------------------------------------------------------------
(* approvalInteraction *)

\* Anyone who sees the card can press while it shows buttons.
PressButton(p, b) ==
    /\ press[p] = "none" /\ \A q \in Press : q < p => press[q] # "none"
    /\ card[b.request] = "buttons"
    /\ press' = [press EXCEPT ![p] = "sent"]
    /\ pressed' = [pressed EXCEPT ![p] = b]
    /\ UNCHANGED <<pc, cancelled, approvals, response, card, verdict>>

\* Broken: whoever presses is taken for the owner.
FindByAnyone(p) ==
    /\ press[p] = "sent"
    /\ press' = [press EXCEPT ![p] =
                   IF pressed[p].request \in approvals THEN "found" ELSE "done"]
    /\ UNCHANGED <<pc, cancelled, approvals, response, card, verdict, pressed>>

\* The request is looked up under the mutex; a press that finds none, or that
\* is not the owner's, gets a private reply and ends.
Find(p) ==
    /\ press[p] = "sent"
    /\ press' = [press EXCEPT ![p] =
                   IF /\ pressed[p].request \in approvals
                      /\ pressed[p].by = Owner[pressed[p].request]
                   THEN "found" ELSE "done"]
    /\ UNCHANGED <<pc, cancelled, approvals, response, card, verdict, pressed>>

\* The card is rewritten first; a failure of that is not looked at either.
Show(p) ==
    /\ press[p] = "found"
    /\ Shows(pressed[p].request, pressed[p].answer) \/ UNCHANGED card
    /\ press' = [press EXCEPT ![p] = "shown"]
    /\ UNCHANGED <<pc, cancelled, approvals, response, verdict, pressed>>

\* The answer is offered without blocking: a channel that holds one keeps it.
GiveAnswer(p) ==
    /\ press[p] = "shown"
    /\ response' = [response EXCEPT ![pressed[p].request] =
                      IF @ = {} THEN {pressed[p].answer} ELSE @]
    /\ press' = [press EXCEPT ![p] = "done"]
    /\ UNCHANGED <<pc, cancelled, approvals, card, verdict, pressed>>

-----------------------------------------------------------------------------

Approve(r) ==
    \/ Register(r) \/ Post(r) \/ TakeAnswer(r) \/ HearCancel(r)
    \/ Close(r) \/ Return(r)

Handle(p) == Find(p) \/ Show(p) \/ GiveAnswer(p)

Next ==
    \/ \E r \in Request : Approve(r) \/ Expire(r) \/ Cancel(r)
    \/ \E p \in Press : Handle(p) \/ \E b \in Button : PressButton(p, b)

Spec == Init /\ [][Next]_vars

\* Goroutines that can run do.  Nobody has to press, and the five minutes are
\* left out, so that what ends by fairness ends well before them.
FairSpec ==
    /\ Spec
    /\ \A r \in Request : WF_vars(Approve(r))
    /\ \A p \in Press : WF_vars(Handle(p))

-----------------------------------------------------------------------------
(* Properties *)

\* A request is approved or denied only by a press of the user it is for, on
\* the button of that answer, whichever requests and presses overlap
\* (approvalInteraction, approve's select).
OwnerDecides ==
    \A r \in Request : verdict[r] \in Answer =>
        \E p \in Press :
            /\ press[p] = "done"
            /\ pressed[p] = [request |-> r, by |-> Owner[r], answer |-> verdict[r]]

\* A card that says "No tool action was taken." is right: the call it asked
\* about was not approved (closeApproval).
ClosedMeansNotRun ==
    \A r \in Request : card[r] \in Closed => verdict[r] # "approved"

\* A turn whose context ends while it waits for a press gets on, without the
\* five minutes (approve's select).
CancelEndsWait ==
    \A r \in Request :
        (pc[r] = "waiting" /\ cancelled[r]) ~> pc[r] = "gone"
=============================================================================
