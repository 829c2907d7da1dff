------------------------------ MODULE Pairing -------------------------------
(***************************************************************************)
(* Pairing a device and admitting its calls: rpc/pairing.go,               *)
(* rpc/pairing_service.go and the interceptors of rpc/auth.go, over the    *)
(* tables rpc_pairings and rpc_clients.                                    *)
(*                                                                         *)
(* A device begins a request with its public key and watches it (Pair in   *)
(* rpc/client.go).  Operators approve, deny and revoke with the command    *)
(* line, in processes of their own, so that each SQL statement and each    *)
(* transaction is a step and anything may come between two of them.        *)
(*                                                                         *)
(* A request stands for its id and its code; codes are unique in the table *)
(* and nobody guesses them here.  Certificates are their serials, numbered *)
(* in the order they are signed.                                           *)
(***************************************************************************)
EXTENDS Naturals, FiniteSets

CONSTANTS
    Request,        \* pairing requests
    Key,            \* public keys, known by their fingerprints
    Operator,       \* processes running mininaru client approve
    MaxPending,     \* maxPendingPairings
    MaxSerial       \* bound: certificates signed

VARIABLES
    place,          \* where the Begin handler of a request is
    key,            \* the key a request was made with
    status,         \* rpc_pairings.status; "none" before, "purged" after
    certificate,    \* rpc_pairings.certificate_pem
    clock,          \* how the time stands to expires_at
    clients,        \* rpc_clients, by fingerprint
    serials,        \* certificates signed
    job,            \* what an approving operator has read and signed
    watch,          \* where the Watch stream of a request is
    held            \* the certificate the device has collected

rowVars == <<status, certificate>>
vars == <<place, key, rowVars, clock, clients, serials, job, watch, held>>

Serial == 1 .. MaxSerial
None == 0
NoClient == [serial |-> None, revoked |-> FALSE]
Idle == [request |-> None, serial |-> None]

Status == {"none", "waiting", "approved", "denied", "expired", "purged"}

TypeOK ==
    /\ place \in [Request -> {"new", "swept", "purged", "counted", "begun", "refused"}]
    /\ key \in [Request -> Key]
    /\ status \in [Request -> Status]
    /\ certificate \in [Request -> Serial \cup {None}]
    /\ clock \in [Request -> {"fresh", "due", "old"}]
    /\ clients \in [Key -> {NoClient} \cup [serial : Serial, revoked : BOOLEAN]]
    /\ serials \in 0 .. MaxSerial
    /\ job \in [Operator -> {Idle} \cup [request : Request, serial : Serial]]
    /\ watch \in [Request -> {"off", "polling", "marking", "ended"}]
    /\ held \in [Request -> Serial \cup {None}]

Init ==
    /\ place = [r \in Request |-> "new"]
    /\ key \in [Request -> Key]
    /\ status = [r \in Request |-> "none"]
    /\ certificate = [r \in Request |-> None]
    /\ clock = [r \in Request |-> "fresh"]
    /\ clients = [k \in Key |-> NoClient]
    /\ serials = 0
    /\ job = [o \in Operator |-> Idle]
    /\ watch = [r \in Request |-> "off"]
    /\ held = [r \in Request |-> None]

Waiting == {r \in Request : status[r] = "waiting"}
Due(r) == clock[r] # "fresh"

\* Whether ClientAuthenticate lets a call with this certificate pass.
Admits(k, serial) ==
    /\ clients[k].serial = serial
    /\ ~clients[k].revoked

-----------------------------------------------------------------------------
(* Statements *)

\* UPDATE ... SET status = expired WHERE status = waiting AND expires_at <= now
ExpireDue ==
    status' = [r \in Request |->
                 IF r \in Waiting /\ Due(r) THEN "expired" ELSE status[r]]

\* The second half of pairingScan; no row matches when it was settled since.
ExpireOne(r) ==
    status' = [status EXCEPT ![r] = IF @ = "waiting" THEN "expired" ELSE @]

-----------------------------------------------------------------------------
(* PairingBegin *)

BeginSweep(r) ==
    /\ place[r] = "new"
    /\ ExpireDue
    /\ place' = [place EXCEPT ![r] = "swept"]
    /\ UNCHANGED <<key, certificate, clock, clients, serials, job, watch, held>>

\* Settled rows are kept for pairingRetention.
BeginPurge(r) ==
    LET gone == {q \in Request \ Waiting : status[q] # "none" /\ clock[q] = "old"}
    IN  /\ place[r] = "swept"
        /\ status' = [q \in Request |-> IF q \in gone THEN "purged" ELSE status[q]]
        /\ certificate' =
              [q \in Request |-> IF q \in gone THEN None ELSE certificate[q]]
        /\ place' = [place EXCEPT ![r] = "purged"]
        /\ UNCHANGED <<key, clock, clients, serials, job, watch, held>>

BeginCount(r) ==
    /\ place[r] = "purged"
    /\ place' = [place EXCEPT ![r] =
                   IF Cardinality(Waiting) < MaxPending THEN "counted" ELSE "refused"]
    /\ UNCHANGED <<key, rowVars, clock, clients, serials, job, watch, held>>

\* pairingInsert; the device then opens its Watch.
BeginInsert(r) ==
    /\ place[r] = "counted"
    /\ place' = [place EXCEPT ![r] = "begun"]
    /\ status' = [status EXCEPT ![r] = "waiting"]
    /\ watch' = [watch EXCEPT ![r] = "polling"]
    /\ UNCHANGED <<key, certificate, clock, clients, serials, job, held>>

-----------------------------------------------------------------------------
(* Operators *)

\* PairingPending
List ==
    /\ Waiting # {}
    /\ ExpireDue
    /\ UNCHANGED <<place, key, certificate, clock, clients, serials, job, watch, held>>

\* PairingApprove up to IssueClientCertificate: the row waits and is not due.
ApproveRead(o, r) ==
    /\ job[o] = Idle
    /\ r \in Waiting
    /\ ~Due(r)
    /\ serials < MaxSerial
    /\ serials' = serials + 1
    /\ job' = [job EXCEPT ![o] = [request |-> r, serial |-> serials + 1]]
    /\ UNCHANGED <<place, key, rowVars, clock, clients, watch, held>>

\* Broken: the conflict clause forgets the serial.
ApproveCommitKeepsSerial(o) ==
    LET r == job[o].request
        k == key[r]
    IN  /\ job[o] # Idle
        /\ clients' = [clients EXCEPT ![k] =
              [serial |-> IF @ = NoClient THEN job[o].serial ELSE @.serial,
               revoked |-> FALSE]]
        /\ IF r \in Waiting
           THEN /\ status' = [status EXCEPT ![r] = "approved"]
                /\ certificate' = [certificate EXCEPT ![r] = job[o].serial]
           ELSE UNCHANGED rowVars
        /\ job' = [job EXCEPT ![o] = Idle]
        /\ UNCHANGED <<place, key, clock, serials, watch, held>>

\* Broken: the row is updated whatever its status has become.
ApproveCommitAnyStatus(o) ==
    LET r == job[o].request
    IN  /\ job[o] # Idle
        /\ clients' = [clients EXCEPT ![key[r]] =
                         [serial |-> job[o].serial, revoked |-> FALSE]]
        /\ IF status[r] = "purged"
           THEN UNCHANGED rowVars
           ELSE /\ status' = [status EXCEPT ![r] = "approved"]
                /\ certificate' = [certificate EXCEPT ![r] = job[o].serial]
        /\ job' = [job EXCEPT ![o] = Idle]
        /\ UNCHANGED <<place, key, clock, serials, watch, held>>

\* The transaction of PairingApprove.  The client is registered whether or not
\* the second statement finds the row still waiting.
ApproveCommit(o) ==
    LET r == job[o].request
    IN  /\ job[o] # Idle
        /\ clients' = [clients EXCEPT ![key[r]] =
                         [serial |-> job[o].serial, revoked |-> FALSE]]
        /\ IF r \in Waiting
           THEN /\ status' = [status EXCEPT ![r] = "approved"]
                /\ certificate' = [certificate EXCEPT ![r] = job[o].serial]
           ELSE UNCHANGED rowVars
        /\ job' = [job EXCEPT ![o] = Idle]
        /\ UNCHANGED <<place, key, clock, serials, watch, held>>

\* The transaction failed or the process was killed: the certificate is lost.
ApproveFails(o) ==
    /\ job[o] # Idle
    /\ job' = [job EXCEPT ![o] = Idle]
    /\ UNCHANGED <<place, key, rowVars, clock, clients, serials, watch, held>>

\* The scan of PairingApprove that finds the row due.
ApproveLate(o, r) ==
    /\ job[o] = Idle
    /\ r \in Waiting
    /\ Due(r)
    /\ ExpireOne(r)
    /\ UNCHANGED <<place, key, certificate, clock, clients, serials, job, watch, held>>

\* PairingDeny looks at the status only, and in one statement.
Deny(r) ==
    /\ r \in Waiting
    /\ status' = [status EXCEPT ![r] = "denied"]
    /\ UNCHANGED <<place, key, certificate, clock, clients, serials, job, watch, held>>

\* ClientRevoke
Revoke(k) ==
    /\ clients[k] # NoClient
    /\ ~clients[k].revoked
    /\ clients' = [clients EXCEPT ![k].revoked = TRUE]
    /\ UNCHANGED <<place, key, rowVars, clock, serials, job, watch, held>>

-----------------------------------------------------------------------------
(* Watch *)

\* Broken: the poll reads the row without the expiry of pairingScan.
WatchPollNoExpiry(r) ==
    /\ watch[r] = "polling"
    /\ status[r] # "waiting"
    /\ watch' = [watch EXCEPT ![r] = "ended"]
    /\ held' = [held EXCEPT ![r] =
                  IF status[r] = "approved" THEN certificate[r] ELSE @]
    /\ UNCHANGED <<place, key, rowVars, clock, clients, serials, job>>

\* PairingGet: a settled row ends the stream with its state, and a purged one
\* with an error; a waiting one that is due is about to be marked.
WatchPoll(r) ==
    /\ watch[r] = "polling"
    /\ r \in Waiting => Due(r)
    /\ watch' = [watch EXCEPT ![r] = IF r \in Waiting THEN "marking" ELSE "ended"]
    /\ held' = [held EXCEPT ![r] =
                  IF status[r] = "approved" THEN certificate[r] ELSE @]
    /\ UNCHANGED <<place, key, rowVars, clock, clients, serials, job>>

\* The device is told that its request expired.
WatchMark(r) ==
    /\ watch[r] = "marking"
    /\ ExpireOne(r)
    /\ watch' = [watch EXCEPT ![r] = "ended"]
    /\ UNCHANGED <<place, key, certificate, clock, clients, serials, job, held>>

\* The stream is lost; Pair gives up, and the key with it.
WatchLost(r) ==
    /\ watch[r] \in {"polling", "marking"}
    /\ watch' = [watch EXCEPT ![r] = "ended"]
    /\ UNCHANGED <<place, key, rowVars, clock, clients, serials, job, held>>

-----------------------------------------------------------------------------

\* expires_at passes, and then the retention.
Tick(r) ==
    /\ status[r] # "none"
    /\ clock[r] # "old"
    /\ clock' = [clock EXCEPT ![r] = IF @ = "fresh" THEN "due" ELSE "old"]
    /\ UNCHANGED <<place, key, rowVars, clients, serials, job, watch, held>>

Begin(r) == BeginSweep(r) \/ BeginPurge(r) \/ BeginCount(r) \/ BeginInsert(r)

Watch(r) == WatchPoll(r) \/ WatchMark(r)

Next ==
    \/ \E r \in Request : \/ Begin(r) \/ Deny(r) \/ Watch(r) \/ WatchLost(r)
                          \/ Tick(r)
    \/ \E o \in Operator : \/ ApproveCommit(o) \/ ApproveFails(o)
                           \/ \E r \in Request : ApproveRead(o, r) \/ ApproveLate(o, r)
    \/ \E k \in Key : Revoke(k)
    \/ List

Spec == Init /\ [][Next]_vars

\* Time passes and the ticker of a Watch ticks; operators owe nothing.
FairSpec == Spec /\ \A r \in Request : WF_vars(Watch(r)) /\ WF_vars(Tick(r))

-----------------------------------------------------------------------------
(* Properties *)

(***************************************************************************)
(* A settled request stays settled: approvals, denials and sweeps that     *)
(* read it while it was waiting do not turn one outcome into another.      *)
(***************************************************************************)
SettledForGood ==
    [][\A r \in Request :
         status[r] \in {"approved", "denied", "expired"} =>
            status'[r] \in {status[r], "purged"}]_vars

(***************************************************************************)
(* A certificate that stopped being admitted, revoked or replaced, is      *)
(* never admitted again, although approving a new request for the same key *)
(* clears revoked_at.                                                      *)
(***************************************************************************)
NoReturn ==
    [][\A r \in Request :
         held[r] # None /\ ~Admits(key[r], held[r]) =>
            ~Admits(key[r], held[r])']_vars

(***************************************************************************)
(* A device that waits is told in the end: the stream does not outlive the *)
(* five minutes of the request.                                            *)
(***************************************************************************)
WatchEnds == \A r \in Request : watch[r] # "off" ~> watch[r] = "ended"

(***************************************************************************)
(* The two tables agree: an approved request is registered with the very   *)
(* certificate its device collects, as docs/ARCHITECTURE.md says, unless   *)
(* another request was made with the same key.  It takes one operator: two *)
(* that approve the same code at the same time each sign a certificate,    *)
(* and the device gets the first while the second is registered.           *)
(***************************************************************************)
ApprovedIsRegistered ==
    \A r \in Request :
        /\ status[r] = "approved"
        /\ \A q \in Request \ {r} : key[q] # key[r]
        => clients[key[r]].serial = certificate[r]

=============================================================================
