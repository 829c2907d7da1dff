---------------------------- MODULE DiscordUsers ----------------------------
(***************************************************************************)
(* Who may talk to which Discord bot (core/discord_user.go) and the        *)
(* commands that change it (bot/discord/handlers/interaction.go).          *)
(*                                                                         *)
(* `mininaru bot pair`, a process of its own, writes a code; whoever shows *)
(* the code to the bot with /pair becomes its admin; an admin lets others  *)
(* in with /user add, whose handler reads the role of the actor and writes *)
(* in another statement.  Nobody is ever removed.                          *)
(***************************************************************************)
EXTENDS Naturals, FiniteSets

CONSTANTS
    Bot, User, Code,
    MaxAdding       \* bound: handlers of /user add at the same time

VARIABLES
    role,           \* discord_users: the role of each user with each bot
    mention,        \* mention_enabled, the same
    codes,          \* discord_pairings: each code and whether it has lapsed
    minted,         \* codes given out so far
    adding,         \* /user add that has found its actor an admin
    paired          \* history: every /pair that was answered "You are the admin now."

vars == <<role, mention, codes, minted, adding, paired>>

Row == [code : Code, bot : Bot, lapsed : BOOLEAN]

TypeOK ==
    /\ role \in [Bot \X User -> {"none", "user", "admin"}]
    /\ mention \subseteq Bot \X User
    /\ codes \subseteq Row
    /\ minted \subseteq Code
    /\ adding \subseteq [bot : Bot, actor : User, user : User]
    /\ paired \subseteq [code : Code, bot : Bot, user : User]

Init ==
    /\ role = [place \in Bot \X User |-> "none"]
    /\ mention = {}
    /\ codes = {} /\ minted = {}
    /\ adding = {}
    /\ paired = {}

\* discordPairSweep.
Swept == {row \in codes : ~row.lapsed}

\* What onInteraction and onMessage ask first.
Admitted(bot, user) == role[<<bot, user>>] # "none"

\* Whom the replies of a bot may ping: allowedMentions asks no more.
MentionUsers(bot) == {user \in User : <<bot, user>> \in mention}

-----------------------------------------------------------------------------

\* DiscordPairCreate, which may be killed after it has swept.
Mint(code, bot) ==
    /\ code \notin minted
    /\ minted' = minted \cup {code}
    /\ \/ codes' = Swept \cup {[code |-> code, bot |-> bot, lapsed |-> FALSE]}
       \/ codes' = Swept
    /\ UNCHANGED <<role, mention, adding, paired>>

\* Ten minutes have passed.
Lapse(row) ==
    /\ row \in codes /\ ~row.lapsed
    /\ codes' = (codes \ {row}) \cup {[row EXCEPT !.lapsed = TRUE]}
    /\ UNCHANGED <<role, mention, minted, adding, paired>>

\* DiscordPairClaim: one transaction, which holds the write lock from its
\* sweep on, and which is rolled back when the code is not one of this bot.
Claim(bot, user, code) ==
    /\ [code |-> code, bot |-> bot, lapsed |-> FALSE] \in codes
    /\ codes' = {row \in Swept : row.code # code}
    /\ role' = [role EXCEPT ![<<bot, user>>] = "admin"]
    /\ paired' = paired \cup {[code |-> code, bot |-> bot, user |-> user]}
    /\ UNCHANGED <<mention, minted, adding>>

\* userCommand up to what it writes.
CheckAdd(bot, actor, user) ==
    /\ role[<<bot, actor>>] = "admin"
    /\ Cardinality(adding) < MaxAdding
    /\ adding' = adding \cup {[bot |-> bot, actor |-> actor, user |-> user]}
    /\ UNCHANGED <<role, mention, codes, minted, paired>>

\* DiscordUserAdd: what the user was before does not count, admins included.
\* The statement may fail, or the bot be stopped before it.
Add(request) ==
    /\ request \in adding
    /\ adding' = adding \ {request}
    /\ \/ role' = [role EXCEPT ![<<request.bot, request.user>>] = "user"]
       \/ UNCHANGED role
    /\ UNCHANGED <<mention, codes, minted, paired>>

\* mentionCommand, by whoever onInteraction has found in the table.
SetMention(bot, user, enabled) ==
    /\ Admitted(bot, user)
    /\ mention' = IF enabled THEN mention \cup {<<bot, user>>} ELSE mention \ {<<bot, user>>}
    /\ UNCHANGED <<role, codes, minted, adding, paired>>

Next ==
    \/ \E bot \in Bot, user \in User :
          \/ \E code \in Code : Claim(bot, user, code)
          \/ \E actor \in User : CheckAdd(bot, actor, user)
          \/ \E enabled \in BOOLEAN : SetMention(bot, user, enabled)
    \/ \E bot \in Bot, code \in Code : Mint(code, bot)
    \/ \E row \in codes : Lapse(row)
    \/ \E request \in adding : Add(request)

Spec == Init /\ [][Next]_vars

-----------------------------------------------------------------------------
(* Properties *)

\* A code makes one admin, of the bot it was made for, and is gone with that
\* (cli/bot.go:90: "can be redeemed once").
RedeemedOnce ==
    /\ \A p, q \in paired : p.code = q.code => p = q
    /\ \A p \in paired, row \in codes : p.code # row.code

\* Admins have paired with this very bot, and whom a bot listens to was let in
\* by somebody who had: no way of overlapping commands makes an admin, or lets
\* anybody talk to a bot that nobody has paired with.
AdmittedByOwner ==
    \A bot \in Bot, user \in User :
        /\ role[<<bot, user>>] = "admin" => \E p \in paired : p.bot = bot /\ p.user = user
        /\ Admitted(bot, user) => \E p \in paired : p.bot = bot

\* Nobody is pinged by a bot who is not in its table (DiscordMentionUsers).
PingsKnown == \A bot \in Bot : \A user \in MentionUsers(bot) : Admitted(bot, user)

\* All of them: what holds in every state.
UsersInv == TypeOK /\ RedeemedOnce /\ AdmittedByOwner /\ PingsKnown

=============================================================================
