------------------------------ MODULE Identity ------------------------------
(***************************************************************************)
(* The keys and certificates of both ends, in files (rpc/pki.go, the       *)
(* client side of rpc/client.go, cli/pair.go).                             *)
(*                                                                         *)
(* A server that starts makes a CA and a certificate of its own when it    *)
(* finds none, one file after the other.  A device that pairs writes its   *)
(* certificate, its key and the server's CA, one file after the other, and *)
(* then the record of the server, into a list it has read before.  Every   *)
(* process may be killed between two files, and two may run at once.       *)
(*                                                                         *)
(* A key is a number and stands for its fingerprint; a certificate is the  *)
(* key it is for and the key that signed it.  Pairing has what the         *)
(* operators and rpc_pairings do; here a request is approved or not.       *)
(***************************************************************************)
EXTENDS Naturals, FiniteSets

CONSTANTS
    Starter,        \* processes running mininaru serve
    Device,         \* processes running mininaru pair on one machine
    Address,        \* addresses of the one server
    MaxBusy,        \* bound: processes of either kind at once
    MaxServerKeys,  \* bound: keys made by starters
    MaxClientKeys   \* bound: keys made by devices

VARIABLES
    pki,            \* the files of the server
    serverKeys,     \* keys made by starters so far
    start,          \* where each starter is, and the key it made
    running,        \* the identity of the server that listens
    disk,           \* the files of the device, by address; servers.json
    clientKeys,     \* keys made by devices so far
    pair,           \* where each pairing is
    paired,         \* the server each address was last paired with
    raced,          \* two starters found the same file missing
    collided        \* two pairings saved at the same time

serverVars == <<pki, serverKeys, start, running, raced>>
deviceVars == <<disk, clientKeys, pair, paired, collided>>
vars == <<serverVars, deviceVars>>

NoKey == 0
ServerKey == 1 .. MaxServerKeys
ClientKey == 1 .. MaxClientKeys
NoCert == [key |-> NoKey, signer |-> NoKey]
ServerCert == [key : ServerKey, signer : ServerKey]
ClientCert == [key : ClientKey, signer : ServerKey]
NotRunning == [cert |-> NoCert, ca |-> NoKey]
Stopped == [pc |-> "stopped", key |-> NoKey]
NotPairing == [pc |-> "idle"]

NoPKI == [caCrt |-> NoKey, caKey |-> NoKey, crt |-> NoCert, key |-> NoKey]

TypeOK ==
    /\ pki \in [caCrt : ServerKey \cup {NoKey}, caKey : ServerKey \cup {NoKey},
                crt : ServerCert \cup {NoCert}, key : ServerKey \cup {NoKey}]
    /\ serverKeys \in 0 .. MaxServerKeys
    /\ start \in [Starter ->
          [pc : {"stopped", "begun", "caKey", "ensured", "key", "loading"},
           key : ServerKey \cup {NoKey}]]
    /\ running \in {NotRunning} \cup [cert : ServerCert, ca : ServerKey]
    /\ disk \in [crt : [Address -> ClientCert \cup {NoCert}],
                 key : [Address -> ClientKey \cup {NoKey}],
                 ca : [Address -> ServerKey \cup {NoKey}],
                 servers : [Address -> ServerKey \cup {NoKey}]]
    /\ clientKeys \in 0 .. MaxClientKeys
    /\ paired \in [Address -> ServerKey \cup {NoKey}]

Init ==
    /\ pki = NoPKI
    /\ serverKeys = 0
    /\ start = [p \in Starter |-> Stopped]
    /\ running = NotRunning
    /\ disk = [crt |-> [a \in Address |-> NoCert], key |-> [a \in Address |-> NoKey],
               ca |-> [a \in Address |-> NoKey], servers |-> [a \in Address |-> NoKey]]
    /\ clientKeys = 0
    /\ pair = [d \in Device |-> NotPairing]
    /\ paired = [a \in Address |-> NoKey]
    /\ raced = FALSE
    /\ collided = FALSE

-----------------------------------------------------------------------------
(* LoadServerIdentity *)

At(p, pc) == start' = [start EXCEPT ![p] = [pc |-> pc, key |-> NoKey]]

Creating(p) == start[p].pc # "stopped"

Room ==
    Cardinality({p \in Starter : Creating(p)}) +
    Cardinality({d \in Device : pair[d] # NotPairing}) < MaxBusy

\* A key is made for a file found missing; so may another starter have found.
MakeKey(p, pc) ==
    /\ serverKeys < MaxServerKeys
    /\ serverKeys' = serverKeys + 1
    /\ start' = [start EXCEPT ![p] = [pc |-> pc, key |-> serverKeys + 1]]
    /\ raced' = (raced \/ \E q \in Starter \ {p} : Creating(q))

\* loadCA finds both files of the CA.
CALoads == NoKey \notin {pki.caCrt, pki.caKey}

\* ensurePKIFiles looks for the certificate of the CA only; createCA.
StatCA(p) ==
    /\ start[p].pc = "stopped" /\ Room
    /\ IF pki.caCrt = NoKey
       THEN MakeKey(p, "begun")
       ELSE At(p, "ensured") /\ UNCHANGED <<serverKeys, raced>>
    /\ UNCHANGED <<pki, running, deviceVars>>

WriteCACert(p) ==
    /\ start[p].pc = "begun"
    /\ pki' = [pki EXCEPT !.caCrt = start[p].key]
    /\ start' = [start EXCEPT ![p].pc = "caKey"]
    /\ UNCHANGED <<serverKeys, running, raced, deviceVars>>

WriteCAKey(p) ==
    /\ start[p].pc = "caKey"
    /\ pki' = [pki EXCEPT !.caKey = start[p].key]
    /\ At(p, "ensured")
    /\ UNCHANGED <<serverKeys, running, raced, deviceVars>>

\* createServerCertificate loads the CA, signs and writes the certificate
\* first; without the key of the CA the start fails.
StatServer(p) ==
    /\ start[p].pc = "ensured"
    /\ IF pki.crt # NoCert
       THEN At(p, "loading") /\ UNCHANGED <<pki, serverKeys, raced>>
       ELSE IF ~CALoads
       THEN At(p, "stopped") /\ UNCHANGED <<pki, serverKeys, raced>>
       ELSE /\ MakeKey(p, "key")
            /\ pki' = [pki EXCEPT !.crt = [key |-> serverKeys + 1, signer |-> pki.caKey]]
    /\ UNCHANGED <<running, deviceVars>>

WriteServerKey(p) ==
    /\ start[p].pc = "key"
    /\ pki' = [pki EXCEPT !.key = start[p].key]
    /\ At(p, "loading")
    /\ UNCHANGED <<serverKeys, running, raced, deviceVars>>

\* LoadX509KeyPair wants the key of the certificate, loadCA both files; the
\* port admits one server.
Serve(p) ==
    /\ start[p].pc = "loading"
    /\ At(p, "stopped")
    /\ IF /\ pki.crt # NoCert /\ pki.crt.key = pki.key
          /\ CALoads
          /\ running = NotRunning
       THEN running' = [cert |-> pki.crt, ca |-> pki.caCrt]
       ELSE UNCHANGED running
    /\ UNCHANGED <<pki, serverKeys, raced, deviceVars>>

\* Killed between two files.
KillStarter(p) ==
    /\ Creating(p)
    /\ At(p, "stopped")
    /\ UNCHANGED <<pki, serverKeys, running, raced, deviceVars>>

Connected == {"connected", "issued"}

\* The server ends; the pairings under way lose their streams.
Stop ==
    /\ running # NotRunning
    /\ running' = NotRunning
    /\ pair' = [d \in Device |-> IF pair[d].pc \in Connected THEN NotPairing ELSE pair[d]]
    /\ UNCHANGED <<pki, serverKeys, start, raced, disk, clientKeys, paired, collided>>

\* Somebody removes the directory of a server that does not run, which is what
\* it takes to start again after a kill between a certificate and its key.
RemovePKI ==
    /\ running = NotRunning
    /\ \A p \in Starter : ~Creating(p)
    /\ pki # NoPKI
    /\ pki' = NoPKI
    /\ UNCHANGED <<serverKeys, start, running, raced, deviceVars>>

-----------------------------------------------------------------------------
(* pairWithServer and Pair *)

\* ServerFingerprint: the person trusts what the server shows.
Trust(d, a) ==
    /\ pair[d] = NotPairing /\ Room
    /\ running # NotRunning
    /\ pair' = [pair EXCEPT ![d] = [pc |-> "trusted", address |-> a, trusted |-> running.cert.key]]
    /\ UNCHANGED <<serverVars, disk, clientKeys, paired, collided>>

\* fingerprintTLS: the server that answers is the one that was trusted.
Pinned(d) == running.cert.key = pair[d].trusted

\* Begin, over a connection pinned to the fingerprint.
Connect(d) ==
    /\ pair[d].pc = "trusted"
    /\ clientKeys < MaxClientKeys
    /\ IF Pinned(d)
       THEN /\ clientKeys' = clientKeys + 1
            /\ pair' = [pair EXCEPT ![d] = [pc |-> "connected", address |-> @.address,
                                            trusted |-> @.trusted, key |-> clientKeys + 1]]
       ELSE pair' = [pair EXCEPT ![d] = NotPairing] /\ UNCHANGED clientKeys
    /\ UNCHANGED <<serverVars, disk, paired, collided>>

\* IssueClientCertificate, in the process of the operator, from the files.
Issue(d) ==
    /\ pair[d].pc = "connected"
    /\ CALoads
    /\ pair' = [pair EXCEPT ![d] = [pc |-> "issued", address |-> @.address,
                  trusted |-> @.trusted, cert |-> [key |-> @.key, signer |-> pki.caKey]]]
    /\ UNCHANGED <<serverVars, disk, clientKeys, paired, collided>>

Saving == {"crt", "key", "ca", "read", "record"}

\* Watch: the certificate, and the CA the server has in memory.
Collect(d) ==
    /\ pair[d].pc = "issued"
    /\ pair' = [pair EXCEPT ![d] = [pc |-> "crt", address |-> @.address,
                  trusted |-> @.trusted, cert |-> @.cert, ca |-> running.ca]]
    /\ collided' = (collided \/ \E e \in Device \ {d} : pair[e].pc \in Saving)
    /\ UNCHANGED <<serverVars, disk, clientKeys, paired>>

\* saveClientIdentity, file by file.  What the address was paired with before
\* is gone from the first of them.
WriteCert(d) ==
    LET a == pair[d].address
    IN  /\ pair[d].pc = "crt"
        /\ disk' = [disk EXCEPT !.crt[a] = pair[d].cert]
        /\ paired' = [paired EXCEPT ![a] = NoKey]
        /\ pair' = [pair EXCEPT ![d].pc = "key"]
        /\ UNCHANGED <<serverVars, clientKeys, collided>>

WriteKey(d) ==
    /\ pair[d].pc = "key"
    /\ disk' = [disk EXCEPT !.key[pair[d].address] = pair[d].cert.key]
    /\ pair' = [pair EXCEPT ![d].pc = "ca"]
    /\ UNCHANGED <<serverVars, clientKeys, paired, collided>>

WriteCA(d) ==
    /\ pair[d].pc = "ca"
    /\ disk' = [disk EXCEPT !.ca[pair[d].address] = pair[d].ca]
    /\ pair' = [pair EXCEPT ![d].pc = "read"]
    /\ UNCHANGED <<serverVars, clientKeys, paired, collided>>

\* saveKnownServer reads the list ...
ReadServers(d) ==
    /\ pair[d].pc = "read"
    /\ pair' = [pair EXCEPT ![d] = [pc |-> "record", address |-> @.address,
                                    trusted |-> @.trusted, servers |-> disk.servers]]
    /\ UNCHANGED <<serverVars, disk, clientKeys, paired, collided>>

\* Broken: a server that is known already is not written again.
WithKnown(servers, a, fingerprint) ==
    IF servers[a] # NoKey THEN servers ELSE [servers EXCEPT ![a] = fingerprint]

WithServer(servers, a, fingerprint) == [servers EXCEPT ![a] = fingerprint]

\* ... and writes all of it; the person is told that the device is paired.
WriteServers(d) ==
    LET a == pair[d].address
    IN  /\ pair[d].pc = "record"
        /\ disk' = [disk EXCEPT !.servers = WithServer(pair[d].servers, a, pair[d].trusted)]
        /\ paired' = [paired EXCEPT ![a] = pair[d].trusted]
        /\ pair' = [pair EXCEPT ![d] = NotPairing]
        /\ UNCHANGED <<serverVars, clientKeys, collided>>

\* Killed, refused or given up.
EndPairing(d) ==
    /\ pair[d] # NotPairing
    /\ pair' = [pair EXCEPT ![d] = NotPairing]
    /\ UNCHANGED <<serverVars, disk, clientKeys, paired, collided>>

Start(p) ==
    \/ StatCA(p) \/ WriteCACert(p) \/ WriteCAKey(p)
    \/ StatServer(p) \/ WriteServerKey(p) \/ Serve(p)

Save(d) == WriteCert(d) \/ WriteKey(d) \/ WriteCA(d) \/ ReadServers(d) \/ WriteServers(d)

Next ==
    \/ \E p \in Starter : Start(p) \/ KillStarter(p)
    \/ Stop \/ RemovePKI
    \/ \E d \in Device : \/ \E a \in Address : Trust(d, a)
                         \/ Connect(d) \/ Issue(d) \/ Collect(d) \/ Save(d) \/ EndPairing(d)

Spec == Init /\ [][Next]_vars

-----------------------------------------------------------------------------
(* Properties *)

\* verifyKnownServer: the server has the fingerprint on record, and its
\* certificate is from the CA on disk.
Verified(a) ==
    /\ disk.servers[a] = running.cert.key
    /\ running.cert.signer = disk.ca[a]

\* Dial from these files to the server that runs: the key is the one of the
\* certificate, the server is verified, and its pool accepts the client's.
Connects(a) ==
    /\ disk.crt[a] # NoCert /\ disk.crt[a].key = disk.key[a]
    /\ Verified(a)
    /\ disk.crt[a].signer = running.ca

(***************************************************************************)
(* A device that was told it is paired can connect, to the server it was   *)
(* paired with and for as long as that has its key: through starts of      *)
(* either side that were killed between any two files, a directory removed *)
(* and made again, and pairings of other addresses or with another         *)
(* identity before.  Two first starts of a server at once, or two pairings *)
(* saved at once, can break it: neither side locks its files.              *)
(***************************************************************************)
PairedConnects ==
    \A a \in Address :
        /\ paired[a] # NoKey /\ paired[a] = running.cert.key
        /\ ~raced /\ ~collided
        => Connects(a)

(***************************************************************************)
(* The server never listens with a certificate its own CA did not sign,    *)
(* unless two raced to make them.                                          *)
(***************************************************************************)
IdentityChains == running # NotRunning /\ ~raced => running.cert.signer = running.ca

IdentityInv == TypeOK /\ IdentityChains

=============================================================================
