---------------------------- MODULE Conversation ----------------------------
(***************************************************************************)
(* What a session promises to the people talking in it: turns take effect  *)
(* one at a time.  A turn that succeeds adds one exchange, question and    *)
(* answer together, and the model that gave the answer had been shown      *)
(* every exchange before it: verbatim or in the summary.  A turn that      *)
(* fails, is cancelled or dies adds nothing.                               *)
(*                                                                         *)
(* An exchange carries the set of exchanges its answer was based on, so    *)
(* the order of the log is the order of inclusion of these sets.           *)
(***************************************************************************)
CONSTANTS Session, Turn

VARIABLES
    open,   \* sessions that exist
    log     \* log[s]: the exchanges of s

Exchange == [turn : Turn, seen : SUBSET Turn]

Turns(s) == {e.turn : e \in log[s]}

ConversationTypeOK ==
    /\ open \subseteq Session
    /\ log \in [Session -> SUBSET Exchange]

Init ==
    /\ open = Session
    /\ log = [s \in Session |-> {}]

Answer(s, t) ==
    /\ s \in open
    /\ \A r \in Session : t \notin Turns(r)
    /\ log' = [log EXCEPT ![s] = @ \cup {[turn |-> t, seen |-> Turns(s)]}]
    /\ UNCHANGED open

Delete(s) ==
    /\ s \in open
    /\ open' = open \ {s}
    /\ log' = [log EXCEPT ![s] = {}]

Next == \E s \in Session : Delete(s) \/ \E t \in Turn : Answer(s, t)

Spec == Init /\ [][Next]_<<open, log>>

(***************************************************************************)
(* The log of a session is a chain: of two exchanges one was based on the  *)
(* other.                                                                  *)
(***************************************************************************)
Chain ==
    \A s \in Session : \A e, f \in log[s] :
        e = f \/ e.turn \in f.seen \/ f.turn \in e.seen
=============================================================================
