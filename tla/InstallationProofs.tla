------------------------- MODULE InstallationProofs -------------------------
(***************************************************************************)
(* Proofs about what an installation keeps on its machine: the keys and    *)
(* certificates of both ends of a pairing (Identity), the executable and   *)
(* the unit of the service (SelfUpdate), and the requests to pair that the *)
(* server takes in (PairingIntake); the state of the last two is declared  *)
(* here.  They hold for any number of processes, devices and requests,     *)
(* with kills at any step, and use no fairness.                            *)
(***************************************************************************)
EXTENDS Identity, Integers, FiniteSetTheorems, TLAPS

CONSTANTS Updater, Checker, MaxRelease, MaxInstalls

VARIABLES newest, target, staged, pc, own, found, check, cache, unit, installs

U == INSTANCE SelfUpdate

-----------------------------------------------------------------------------
(* The keys and certificates *)

\* What is assumed of the constants: MCLocal, which gives them their values,
\* states it as LocalAssumption.
KeysFit == MaxServerKeys \in Nat /\ MaxClientKeys \in Nat

\* What a pairing has at each step.
Idle == {NotPairing}
Trusted == [pc : {"trusted"}, address : Address, trusted : ServerKey]
Asking == [pc : {"connected"}, address : Address, trusted : ServerKey, key : ClientKey]
Issued == [pc : {"issued"}, address : Address, trusted : ServerKey, cert : ClientCert]
Holding == [pc : {"crt", "key", "ca", "read"}, address : Address, trusted : ServerKey,
            cert : ClientCert, ca : ServerKey]
Recording == [pc : {"record"}, address : Address, trusted : ServerKey,
              servers : [Address -> ServerKey \cup {NoKey}]]
Pairing == Idle \cup Trusted \cup Asking \cup Issued \cup Holding \cup Recording

IdentityTypes ==
    /\ TypeOK
    /\ pair \in [Device -> Pairing]
    /\ raced \in BOOLEAN /\ collided \in BOOLEAN
    /\ \A p \in Starter : start[p].pc \in {"begun", "caKey"} => start[p].key # NoKey

\* Keys that are used have been made; a pairing under way is with the server
\* that runs.
UsedInv ==
    /\ pki.crt.key <= serverKeys /\ running.cert.key <= serverKeys
    /\ \A a \in Address : paired[a] <= serverKeys
    /\ \A d \in Device :
          /\ pair[d] # NotPairing => pair[d].trusted <= serverKeys
          /\ pair[d].pc \in Connected => running.cert.key = pair[d].trusted

\* Unless two starters raced: the files of the server fit together, and those
\* that it runs with are still there.
ServerInv ==
    ~raced =>
        /\ pki.caKey \in {NoKey, pki.caCrt}
        /\ pki.crt # NoCert => CALoads /\ pki.crt.signer = pki.caCrt
        /\ \A p \in Starter :
              /\ start[p].pc = "begun" =>
                    pki.caCrt = NoKey /\ \A q \in Starter : Creating(q) => q = p
              /\ start[p].pc = "caKey" =>
                    /\ pki.caCrt = start[p].key /\ pki.caKey = NoKey
                    /\ \A q \in Starter : start[q].pc = "caKey" => q = p
        /\ running # NotRunning => running.cert = pki.crt /\ running.ca = pki.caCrt

\* What is on disk of an address fits together, and with the certificate of the
\* server if that is the one it was made for.
Agrees(key, ca) == pki.crt.key = key => pki.crt.signer = ca
OnDisk(a, key) ==
    /\ disk.crt[a] # NoCert /\ disk.crt[a].key = disk.key[a]
    /\ disk.crt[a].signer = disk.ca[a] /\ Agrees(key, disk.ca[a])

\* What a device is saving, and what an address is paired with.
Fits(d) ==
    /\ pair[d].pc = "issued" => pair[d].cert.signer = running.ca
    /\ pair[d].pc \in {"crt", "key", "ca"} =>
          pair[d].cert.signer = pair[d].ca /\ Agrees(pair[d].trusted, pair[d].ca)
    /\ pair[d].pc \in {"key", "ca"} => disk.crt[pair[d].address] = pair[d].cert
    /\ pair[d].pc = "ca" => disk.key[pair[d].address] = pair[d].cert.key
    /\ pair[d].pc \in {"read", "record"} => OnDisk(pair[d].address, pair[d].trusted)
    /\ pair[d].pc = "record" => pair[d].servers = disk.servers
    /\ pair[d].pc \in {"key", "ca", "read", "record"} => paired[pair[d].address] = NoKey

Paired(a) == paired[a] # NoKey => disk.servers[a] = paired[a] /\ OnDisk(a, paired[a])

\* Unless pairings were saved at once, one is being saved.
SavedInv ==
    ~raced /\ ~collided =>
        /\ \A d, e \in Device : pair[d].pc \in Saving /\ pair[e].pc \in Saving => d = e
        /\ \A d \in Device : Fits(d)
        /\ \A a \in Address : Paired(a)

IdentityIInv == IdentityTypes /\ UsedInv /\ ServerInv /\ SavedInv

\* The marks for "none" are no keys and no certificates.
LEMMA KeyFacts ==
    ASSUME KeysFit
    PROVE  /\ NoKey \notin ServerKey /\ NoKey \notin ClientKey
           /\ ServerKey \subseteq Nat \ {0} /\ ClientKey \subseteq Nat
           /\ NoCert \notin ServerCert /\ NoCert \notin ClientCert
           /\ NoCert.key = NoKey /\ NoCert.signer = NoKey
           /\ NotRunning.cert = NoCert /\ NotRunning.ca = NoKey
           /\ NoPKI.caCrt = NoKey /\ NoPKI.caKey = NoKey /\ NoPKI.crt = NoCert /\ NoPKI.key = NoKey
BY DEF KeysFit, NoKey, ServerKey, ClientKey, NoCert, ServerCert, ClientCert, NotRunning, NoPKI

\* The pairing of a device, by where it is.
LEMMA PairFacts ==
    ASSUME NEW x \in Pairing
    PROVE  /\ x.pc \in {"idle", "trusted", "connected", "issued", "crt", "key", "ca", "read", "record"}
           /\ x.pc = "idle" <=> x = NotPairing
           /\ x.pc = "trusted" => x \in Trusted
           /\ x.pc = "connected" => x \in Asking
           /\ x.pc = "issued" => x \in Issued
           /\ x.pc \in {"crt", "key", "ca", "read"} => x \in Holding
           /\ x.pc = "record" => x \in Recording
           /\ x # NotPairing => x.address \in Address /\ x.trusted \in ServerKey
BY DEF Pairing, Idle, NotPairing, Trusted, Asking, Issued, Holding, Recording

\* Nothing is there at first.
LEMMA IdentityStarts == ASSUME KeysFit, Init PROVE IdentityIInv
<1>1. TypeOK
  <2>1. pki \in [caCrt : ServerKey \cup {NoKey}, caKey : ServerKey \cup {NoKey},
                 crt : ServerCert \cup {NoCert}, key : ServerKey \cup {NoKey}]
    BY DEF Init, NoPKI
  <2>2. start \in [Starter -> [pc : {"stopped", "begun", "caKey", "ensured", "key", "loading"},
                               key : ServerKey \cup {NoKey}]]
    BY DEF Init, Stopped
  <2>3. disk \in [crt : [Address -> ClientCert \cup {NoCert}], key : [Address -> ClientKey \cup {NoKey}],
                  ca : [Address -> ServerKey \cup {NoKey}], servers : [Address -> ServerKey \cup {NoKey}]]
    BY DEF Init
  <2>4. paired \in [Address -> ServerKey \cup {NoKey}] BY DEF Init
  <2>5. serverKeys \in 0 .. MaxServerKeys /\ clientKeys \in 0 .. MaxClientKeys BY DEF Init, KeysFit
  <2>6. running = NotRunning BY DEF Init
  <2> QED BY <2>1, <2>2, <2>3, <2>4, <2>5, <2>6 DEF TypeOK
<1>2. \A d \in Device : pair[d] = NotPairing /\ pair[d].pc = "idle" BY DEF Init, NotPairing
<1>3. \A p \in Starter : start[p].pc = "stopped" BY DEF Init, Stopped
<1>4. pair \in [Device -> Pairing] BY DEF Init, Pairing, Idle
<1>5. raced \in BOOLEAN /\ collided \in BOOLEAN BY Zenon DEF Init
<1>6. IdentityTypes BY <1>1, <1>3, <1>4, <1>5 DEF IdentityTypes
<1>7. UsedInv BY <1>2, KeyFacts DEF Init, UsedInv, Connected, NoKey
<1>8. ServerInv BY <1>3, KeyFacts DEF Init, ServerInv
<1>9. SavedInv BY <1>2 DEF Init, SavedInv, Saving, Fits, Paired
<1> QED BY <1>6, <1>7, <1>8, <1>9 DEF IdentityIInv

-----------------------------------------------------------------------------
(* The server *)

\* A step of the server leaves what the devices have alone: a certificate that
\* is replaced is for a key nobody knows yet.
LEMMA ServerStepKeeps ==
    ASSUME KeysFit, IdentityIInv, TypeOK', ServerInv', raced' \in BOOLEAN, raced => raced',
           \A p \in Starter : start'[p].pc \in {"begun", "caKey"} => start'[p].key # NoKey,
           serverKeys <= serverKeys',
           \/ pki'.crt \in {pki.crt, NoCert}
           \/ pki'.crt.key = serverKeys + 1 /\ serverKeys' = serverKeys + 1,
           \/ running' = running
           \/ running = NotRunning /\ running'.cert = pki.crt,
           UNCHANGED deviceVars
    PROVE  IdentityIInv'
<1>1. TypeOK /\ UsedInv /\ SavedInv /\ IdentityTypes BY DEF IdentityIInv, IdentityTypes
<1>2. UNCHANGED <<disk, clientKeys, pair, paired, collided>> BY DEF deviceVars
<1>3. IdentityTypes' BY <1>1, <1>2 DEF IdentityTypes
<1>4. /\ serverKeys \in Nat /\ serverKeys' \in Nat
      /\ pki.crt.key \in Nat /\ pki'.crt.key \in Nat /\ running.cert.key \in Nat
      /\ \A a \in Address : paired[a] \in Nat
      /\ \A d \in Device : pair[d] # NotPairing => pair[d].trusted \in Nat \ {0}
  <2>1. pki.crt \in ServerCert \cup {NoCert} /\ pki'.crt \in ServerCert \cup {NoCert}
    BY <1>1 DEF TypeOK
  <2>2. pki.crt.key \in ServerKey \cup {NoKey} /\ pki'.crt.key \in ServerKey \cup {NoKey}
    BY <2>1, KeyFacts DEF ServerCert
  <2>3. running.cert \in ServerCert \cup {NoCert} BY <1>1, KeyFacts DEF TypeOK
  <2>4. running.cert.key \in ServerKey \cup {NoKey} BY <2>3, KeyFacts DEF ServerCert
  <2>5. \A d \in Device : pair[d] # NotPairing => pair[d].trusted \in ServerKey
    BY <1>1, PairFacts DEF IdentityTypes
  <2> QED BY <1>1, <2>2, <2>4, <2>5, KeyFacts DEF TypeOK, KeysFit, NoKey
<1>5. \A d \in Device : pair[d].pc \in Connected => running # NotRunning /\ running' = running
  <2> SUFFICES ASSUME NEW d \in Device, pair[d].pc \in Connected PROVE running # NotRunning
    OBVIOUS
  <2>1. pair[d] # NotPairing BY DEF NotPairing, Connected
  <2>2. running.cert.key = pair[d].trusted BY <1>1 DEF UsedInv
  <2> QED BY <1>4, <2>1, <2>2, KeyFacts DEF NoKey
<1>6. UsedInv'
  <2>1. pki'.crt.key <= serverKeys' BY <1>1, <1>4, KeyFacts DEF UsedInv, NoKey
  <2>2. running'.cert.key <= serverKeys' BY <1>1, <1>4 DEF UsedInv
  <2>3. \A d \in Device : pair[d].pc \in Connected => running'.cert.key = pair[d].trusted
    BY <1>1, <1>5 DEF UsedInv
  <2> QED BY <1>1, <1>2, <1>4, <2>1, <2>2, <2>3 DEF UsedInv, Connected, NotPairing
<1>7. ASSUME NEW k \in Nat \ {0}, k <= serverKeys, NEW c, Agrees(k, c)
      PROVE  pki'.crt.key = k => pki'.crt.signer = c
  BY <1>4, <1>7, KeyFacts DEF Agrees, NoKey
<1>8. SavedInv'
  <2> SUFFICES ASSUME ~raced, ~collided PROVE SavedInv' BY <1>2 DEF SavedInv
  <2>1. ASSUME NEW a \in Address, NEW k \in Nat \ {0}, k <= serverKeys, OnDisk(a, k)
        PROVE  /\ disk'.crt[a] # NoCert /\ disk'.crt[a].key = disk'.key[a]
               /\ disk'.crt[a].signer = disk'.ca[a]
               /\ pki'.crt.key = k => pki'.crt.signer = disk'.ca[a]
    BY <1>2, <1>7, <2>1 DEF OnDisk
  <2>2. ASSUME NEW d \in Device PROVE Fits(d)'
    <3>1. Fits(d) BY <1>1 DEF SavedInv
    <3>2. pair[d].pc = "issued" => running' = running BY <1>5 DEF Connected
    <3>3. ASSUME pair[d].pc \in {"crt", "key", "ca", "read", "record"}
          PROVE  /\ pair[d].trusted \in Nat \ {0} /\ pair[d].trusted <= serverKeys
                 /\ pair[d].address \in Address
      BY <1>1, <1>4, <3>3, PairFacts DEF UsedInv, NotPairing, IdentityTypes
    <3>4. pair[d].pc \in {"crt", "key", "ca"} =>
             (pki'.crt.key = pair[d].trusted => pki'.crt.signer = pair[d].ca)
      BY <1>7, <3>1, <3>3 DEF Fits
    <3>5. pair[d].pc \in {"read", "record"} => OnDisk(pair[d].address, pair[d].trusted)'
      <4> SUFFICES ASSUME pair[d].pc \in {"read", "record"}
                   PROVE  OnDisk(pair[d].address, pair[d].trusted)'
        OBVIOUS
      <4>1. OnDisk(pair[d].address, pair[d].trusted) BY <3>1 DEF Fits
      <4> QED BY <1>2, <2>1, <3>3, <4>1 DEF OnDisk, Agrees
    <3> QED BY <1>2, <3>1, <3>2, <3>4, <3>5 DEF Fits, Agrees
  <2>3. ASSUME NEW a \in Address PROVE Paired(a)'
    <3> SUFFICES ASSUME paired[a] # NoKey PROVE Paired(a)' BY <1>2 DEF Paired
    <3>1. paired[a] \in Nat \ {0} /\ paired[a] <= serverKeys BY <1>1, <1>4 DEF UsedInv, NoKey
    <3>2. disk.servers[a] = paired[a] /\ OnDisk(a, paired[a]) BY <1>1 DEF SavedInv, Paired
    <3> QED BY <1>2, <2>1, <3>1, <3>2 DEF OnDisk, Agrees, Paired
  <2>4. \A d, e \in Device : pair'[d].pc \in Saving /\ pair'[e].pc \in Saving => d = e
    BY <1>1, <1>2 DEF SavedInv
  <2> QED BY <2>2, <2>3, <2>4 DEF SavedInv
<1> QED BY <1>3, <1>6, <1>8 DEF IdentityIInv

StartPlace == {"stopped", "begun", "caKey", "ensured", "key", "loading"}
StartRecord == [pc : StartPlace, key : ServerKey \cup {NoKey}]
PkiRecord == [caCrt : ServerKey \cup {NoKey}, caKey : ServerKey \cup {NoKey},
              crt : ServerCert \cup {NoCert}, key : ServerKey \cup {NoKey}]

\* What is the case of a starter before one of its steps.
LEMMA StarterKnows ==
    ASSUME KeysFit, IdentityIInv, NEW p \in Starter
    PROVE  /\ start \in [Starter -> StartRecord] /\ pki \in PkiRecord
           /\ serverKeys \in 0 .. MaxServerKeys /\ raced \in BOOLEAN
           /\ start[p].pc \in {"begun", "caKey"} => start[p].key \in ServerKey
           /\ CALoads <=> pki.caCrt \in ServerKey /\ pki.caKey \in ServerKey
           /\ pki.crt # NoCert => pki.crt \in ServerCert
           /\ running # NotRunning => running.cert \in ServerCert
BY KeyFacts DEF IdentityIInv, IdentityTypes, TypeOK, StartRecord, StartPlace, PkiRecord, CALoads

\* Where a starter goes to; another that is creating files at the same time as
\* a key is made has raced with it.
LEMMA AtFacts ==
    ASSUME KeysFit, IdentityIInv, NEW p \in Starter, NEW to \in StartPlace,
           to \notin {"begun", "caKey"}, At(p, to)
    PROVE  /\ start' \in [Starter -> StartRecord]
           /\ \A q \in Starter : start'[q] = IF q = p THEN [pc |-> to, key |-> NoKey] ELSE start[q]
           /\ \A q \in Starter : start'[q].pc \in {"begun", "caKey"} =>
                 q # p /\ start'[q] = start[q] /\ start'[q].key # NoKey
<1>1. start \in [Starter -> StartRecord] BY StarterKnows
<1>2. \A q \in Starter : start[q].pc \in {"begun", "caKey"} => start[q].key # NoKey
  BY DEF IdentityIInv, IdentityTypes
<1>3. [pc |-> to, key |-> NoKey] \in StartRecord BY DEF StartRecord
<1>4. start' \in [Starter -> StartRecord]
      /\ \A q \in Starter : start'[q] = IF q = p THEN [pc |-> to, key |-> NoKey] ELSE start[q]
  BY <1>1, <1>3 DEF At
<1> QED BY <1>2, <1>4

\* What a starter that makes a key does to the rest.
LEMMA MakeKeyFacts ==
    ASSUME KeysFit, IdentityIInv, NEW p \in Starter, NEW to \in StartPlace, MakeKey(p, to)
    PROVE  /\ serverKeys' \in 0 .. MaxServerKeys /\ serverKeys' = serverKeys + 1
           /\ serverKeys + 1 \in ServerKey /\ serverKeys <= serverKeys'
           /\ start' \in [Starter -> StartRecord]
           /\ \A q \in Starter : start'[q] = IF q = p THEN [pc |-> to, key |-> serverKeys + 1] ELSE start[q]
           /\ \A q \in Starter : start'[q].pc \in {"begun", "caKey"} => start'[q].key # NoKey
           /\ raced' \in BOOLEAN /\ (raced => raced')
           /\ ~raced' => \A q \in Starter : Creating(q) => q = p
<1>1. start \in [Starter -> StartRecord] /\ serverKeys \in 0 .. MaxServerKeys BY StarterKnows
<1>2. \A q \in Starter : start[q].pc \in {"begun", "caKey"} => start[q].key # NoKey
  BY DEF IdentityIInv, IdentityTypes
<1>3. /\ serverKeys' \in 0 .. MaxServerKeys /\ serverKeys' = serverKeys + 1
      /\ serverKeys + 1 \in ServerKey /\ serverKeys <= serverKeys'
  BY <1>1 DEF MakeKey, KeysFit, ServerKey
<1>4. [pc |-> to, key |-> serverKeys + 1] \in StartRecord BY <1>3 DEF StartRecord
<1>5. start' \in [Starter -> StartRecord]
      /\ \A q \in Starter : start'[q] = IF q = p THEN [pc |-> to, key |-> serverKeys + 1] ELSE start[q]
  BY <1>1, <1>4 DEF MakeKey
<1>6. raced' = (raced \/ \E q \in Starter \ {p} : Creating(q)) BY DEF MakeKey
<1>7. raced \in BOOLEAN BY StarterKnows
<1>8. raced' \in BOOLEAN BY <1>6, <1>7, Zenon
<1>9. (raced => raced') /\ (~raced' => \A q \in Starter : Creating(q) => q = p) BY <1>6, Zenon
<1> QED BY <1>2, <1>3, <1>5, <1>8, <1>9, KeyFacts

\* createCA, step by step: a key for a CA that was not found,
LEMMA StatCAKeeps ==
    ASSUME KeysFit, IdentityIInv, NEW p \in Starter, StatCA(p) PROVE IdentityIInv'
<1>1. TypeOK /\ ServerInv /\ start[p].pc = "stopped" /\ UNCHANGED <<pki, running, deviceVars>>
  BY DEF IdentityIInv, IdentityTypes, StatCA
<1>2. CASE pki.caCrt = NoKey
  <2>1. MakeKey(p, "begun") BY <1>2 DEF StatCA
  <2>2. "begun" \in StartPlace BY DEF StartPlace
  <2>3. TypeOK' BY <1>1, <2>1, <2>2, MakeKeyFacts DEF TypeOK, StartRecord, StartPlace, deviceVars
  <2>4. ServerInv'
    <3> SUFFICES ASSUME ~raced' PROVE ServerInv' BY DEF ServerInv
    <3>1. ~raced BY <2>1, <2>2, MakeKeyFacts
    <3>2. \A q \in Starter : q # p => start'[q] = start[q] /\ start[q].pc = "stopped"
      BY <2>1, <2>2, MakeKeyFacts DEF Creating
    <3>3. start'[p].pc = "begun"
      <4>1. start'[p] = [pc |-> "begun", key |-> serverKeys + 1] BY <2>1, <2>2, MakeKeyFacts
      <4> QED BY <4>1
    <3>4. \A q \in Starter : Creating(q)' => q = p BY <3>2 DEF Creating
    <3> QED BY <1>1, <1>2, <3>1, <3>2, <3>3, <3>4 DEF ServerInv, CALoads
  <2> QED BY <1>1, <2>1, <2>2, <2>3, <2>4, MakeKeyFacts, ServerStepKeeps
<1>3. CASE pki.caCrt # NoKey
  <2>1. At(p, "ensured") /\ UNCHANGED <<serverKeys, raced>> BY <1>3 DEF StatCA
  <2>2. "ensured" \in StartPlace BY DEF StartPlace
  <2>3. TypeOK' BY <1>1, <2>1, <2>2, AtFacts DEF TypeOK, StartRecord, StartPlace, deviceVars
  <2>4. ServerInv'
    <3>1. \A q \in Starter : start'[q].pc \in {"begun", "caKey"} => start'[q] = start[q]
      BY <2>1, <2>2, AtFacts
    <3>2. ~raced => \A q \in Starter : start'[q].pc # "begun" BY <1>1, <1>3, <3>1 DEF ServerInv
    <3> QED BY <1>1, <2>1, <3>1, <3>2 DEF ServerInv, CALoads
  <2>5. raced \in BOOLEAN /\ serverKeys <= serverKeys BY StarterKnows
  <2> QED BY <1>1, <2>1, <2>2, <2>3, <2>4, <2>5, AtFacts, ServerStepKeeps
<1> QED BY <1>2, <1>3

\* its certificate,
LEMMA WriteCACertKeeps ==
    ASSUME KeysFit, IdentityIInv, NEW p \in Starter, WriteCACert(p) PROVE IdentityIInv'
<1>1. TypeOK /\ ServerInv /\ start[p].pc = "begun"
      /\ UNCHANGED <<serverKeys, running, raced, deviceVars>>
  BY DEF IdentityIInv, IdentityTypes, WriteCACert
<1>2. start \in [Starter -> StartRecord] /\ pki \in PkiRecord /\ start[p].key \in ServerKey
      /\ raced \in BOOLEAN /\ serverKeys \in 0 .. MaxServerKeys
  BY <1>1, StarterKnows
<1>3. pki' \in PkiRecord /\ pki'.caCrt = start[p].key /\ pki'.caKey = pki.caKey /\ pki'.crt = pki.crt
  BY <1>2 DEF WriteCACert, PkiRecord
<1>4. start' \in [Starter -> StartRecord]
      /\ \A q \in Starter : IF q = p THEN start'[q].pc = "caKey" /\ start'[q].key = start[p].key
                                     ELSE start'[q] = start[q]
  BY <1>2 DEF WriteCACert, StartRecord, StartPlace
<1>5. TypeOK' BY <1>1, <1>3, <1>4 DEF TypeOK, StartRecord, StartPlace, PkiRecord, deviceVars
<1>6. ServerInv'
  <2> SUFFICES ASSUME ~raced PROVE ServerInv' BY <1>1 DEF ServerInv
  <2>1. /\ pki.caCrt = NoKey /\ pki.caKey = NoKey /\ pki.crt = NoCert /\ running = NotRunning
        /\ \A q \in Starter : Creating(q) => q = p
    <3>1. pki.caCrt = NoKey /\ \A q \in Starter : Creating(q) => q = p BY <1>1 DEF ServerInv
    <3>2. ~CALoads BY <3>1 DEF CALoads
    <3> QED BY <1>1, <3>1, <3>2, KeyFacts, StarterKnows DEF ServerInv
  <2>2. \A q \in Starter : q # p => start'[q].pc = "stopped" BY <1>4, <2>1 DEF Creating
  <2> QED BY <1>1, <1>2, <1>3, <1>4, <2>1, <2>2 DEF ServerInv
<1>7. \A q \in Starter : start'[q].pc \in {"begun", "caKey"} => start'[q].key # NoKey
  BY <1>2, <1>4, KeyFacts DEF IdentityIInv, IdentityTypes
<1>8. serverKeys <= serverKeys BY <1>2
<1> QED BY <1>1, <1>2, <1>3, <1>5, <1>6, <1>7, <1>8, ServerStepKeeps

\* and its file.
LEMMA WriteCAKeyKeeps ==
    ASSUME KeysFit, IdentityIInv, NEW p \in Starter, WriteCAKey(p) PROVE IdentityIInv'
<1>1. TypeOK /\ ServerInv /\ start[p].pc = "caKey" /\ At(p, "ensured")
      /\ UNCHANGED <<serverKeys, running, raced, deviceVars>>
  BY DEF IdentityIInv, IdentityTypes, WriteCAKey
<1>2. start \in [Starter -> StartRecord] /\ pki \in PkiRecord /\ start[p].key \in ServerKey
      /\ raced \in BOOLEAN /\ serverKeys \in 0 .. MaxServerKeys
  BY <1>1, StarterKnows
<1>3. pki' \in PkiRecord /\ pki'.caKey = start[p].key /\ pki'.caCrt = pki.caCrt /\ pki'.crt = pki.crt
  BY <1>2 DEF WriteCAKey, PkiRecord
<1>4. /\ start' \in [Starter -> StartRecord]
      /\ \A q \in Starter : start'[q].pc \in {"begun", "caKey"} =>
            q # p /\ start'[q] = start[q] /\ start'[q].key # NoKey
  BY <1>1, AtFacts DEF StartPlace
<1>5. TypeOK' BY <1>1, <1>3, <1>4 DEF TypeOK, StartRecord, StartPlace, PkiRecord, deviceVars
<1>6. ServerInv'
  <2> SUFFICES ASSUME ~raced PROVE ServerInv' BY <1>1 DEF ServerInv
  <2>1. /\ pki.caCrt = start[p].key /\ pki.caKey = NoKey /\ pki.crt = NoCert /\ running = NotRunning
        /\ \A q \in Starter : start[q].pc = "caKey" => q = p
    <3>1. /\ pki.caCrt = start[p].key /\ pki.caKey = NoKey
          /\ \A q \in Starter : start[q].pc = "caKey" => q = p
      BY <1>1 DEF ServerInv
    <3>2. ~CALoads BY <3>1 DEF CALoads
    <3> QED BY <1>1, <3>1, <3>2, KeyFacts, StarterKnows DEF ServerInv
  <2>2. \A q \in Starter : start'[q].pc \notin {"begun", "caKey"}
    BY <1>1, <1>2, <1>4, <2>1, KeyFacts DEF ServerInv
  <2> QED BY <1>1, <1>3, <2>1, <2>2 DEF ServerInv
<1>7. serverKeys <= serverKeys BY <1>2
<1> QED BY <1>1, <1>2, <1>3, <1>4, <1>5, <1>6, <1>7, ServerStepKeeps

\* createServerCertificate: signed by the CA that is there.
LEMMA StatServerKeeps ==
    ASSUME KeysFit, IdentityIInv, NEW p \in Starter, StatServer(p) PROVE IdentityIInv'
<1>1. TypeOK /\ ServerInv /\ start[p].pc = "ensured" /\ UNCHANGED <<running, deviceVars>>
  BY DEF IdentityIInv, IdentityTypes, StatServer
<1>2. pki \in PkiRecord /\ raced \in BOOLEAN /\ serverKeys \in 0 .. MaxServerKeys
      /\ serverKeys <= serverKeys
  BY StarterKnows
<1>3. ASSUME NEW to \in {"loading", "stopped"}, At(p, to), UNCHANGED <<pki, serverKeys, raced>>
      PROVE  IdentityIInv'
  <2>1. /\ start' \in [Starter -> StartRecord]
        /\ \A q \in Starter : start'[q].pc \in {"begun", "caKey"} =>
              q # p /\ start'[q] = start[q] /\ start'[q].key # NoKey
        /\ \A q \in Starter : start'[q] = IF q = p THEN [pc |-> to, key |-> NoKey] ELSE start[q]
    BY <1>3, AtFacts DEF StartPlace
  <2>2. TypeOK' BY <1>1, <1>3, <2>1 DEF TypeOK, StartRecord, StartPlace, deviceVars
  <2>3. \A q \in Starter : Creating(q)' => Creating(q) BY <1>1, <2>1 DEF Creating
  <2>4. ServerInv' BY <1>1, <1>3, <2>1, <2>3 DEF ServerInv, CALoads
  <2> QED BY <1>1, <1>2, <1>3, <2>1, <2>2, <2>4, ServerStepKeeps
<1>4. CASE pki.crt # NoCert \/ ~CALoads BY <1>3, <1>4 DEF StatServer
<1>5. CASE pki.crt = NoCert /\ CALoads
  <2>1. MakeKey(p, "key") /\ "key" \in StartPlace
        /\ pki' = [pki EXCEPT !.crt = [key |-> serverKeys + 1, signer |-> pki.caKey]]
    BY <1>5 DEF StatServer, StartPlace
  <2>2. pki.caCrt \in ServerKey /\ pki.caKey \in ServerKey BY <1>5, StarterKnows
  <2>3. [key |-> serverKeys + 1, signer |-> pki.caKey] \in ServerCert
    BY <2>1, <2>2, MakeKeyFacts DEF ServerCert
  <2>4. /\ pki' \in PkiRecord /\ pki'.caKey = pki.caKey /\ pki'.caCrt = pki.caCrt
        /\ pki'.crt.key = serverKeys + 1 /\ pki'.crt.signer = pki.caKey
    BY <1>2, <2>1, <2>3 DEF PkiRecord
  <2>5. TypeOK'
    BY <1>1, <2>1, <2>4, MakeKeyFacts DEF TypeOK, StartRecord, StartPlace, PkiRecord, deviceVars
  <2>6. ServerInv'
    <3> SUFFICES ASSUME ~raced' PROVE ServerInv' BY DEF ServerInv
    <3>1. ~raced /\ \A q \in Starter : Creating(q) => q = p BY <2>1, MakeKeyFacts
    <3>2. pki.caKey = pki.caCrt /\ running = NotRunning
      BY <1>1, <1>5, <2>2, <3>1, KeyFacts, StarterKnows DEF ServerInv
    <3>3. \A q \in Starter : start'[q].pc \notin {"begun", "caKey"}
      <4>1. start'[p] = [pc |-> "key", key |-> serverKeys + 1] BY <2>1, MakeKeyFacts
      <4>2. \A q \in Starter : q # p => start'[q] = start[q] BY <2>1, MakeKeyFacts
      <4>3. \A q \in Starter : q # p => start[q].pc = "stopped" BY <3>1 DEF Creating
      <4> QED BY <4>1, <4>2, <4>3
    <3>4. CALoads' BY <2>2, <2>4, KeyFacts DEF CALoads
    <3> QED BY <1>1, <2>4, <3>2, <3>3, <3>4 DEF ServerInv
  <2> QED BY <1>1, <2>1, <2>4, <2>5, <2>6, MakeKeyFacts, ServerStepKeeps
<1> QED BY <1>4, <1>5

\* The other steps of a starter write no certificate.
LEMMA OtherStartsKeep ==
    ASSUME KeysFit, IdentityIInv, NEW p \in Starter,
           WriteServerKey(p) \/ Serve(p) \/ KillStarter(p)
    PROVE  IdentityIInv'
<1>1. TypeOK /\ ServerInv /\ UNCHANGED <<serverKeys, raced, deviceVars>> /\ Creating(p)
  BY DEF IdentityIInv, IdentityTypes, WriteServerKey, Serve, KillStarter, Creating
<1>2. pki \in PkiRecord /\ raced \in BOOLEAN /\ serverKeys \in 0 .. MaxServerKeys
      /\ serverKeys <= serverKeys /\ start \in [Starter -> StartRecord]
  BY StarterKnows
<1>3. PICK to \in {"loading", "stopped"} : At(p, to) BY DEF WriteServerKey, Serve, KillStarter
<1>4. /\ start' \in [Starter -> StartRecord]
      /\ \A q \in Starter : start'[q].pc \in {"begun", "caKey"} =>
            q # p /\ start'[q] = start[q] /\ start'[q].key # NoKey
      /\ \A q \in Starter : start'[q] = IF q = p THEN [pc |-> to, key |-> NoKey] ELSE start[q]
  BY <1>3, AtFacts DEF StartPlace
<1>5. \A q \in Starter : Creating(q)' => Creating(q) BY <1>1, <1>4 DEF Creating
<1>6. /\ pki' \in PkiRecord /\ pki'.crt = pki.crt /\ pki'.caCrt = pki.caCrt /\ pki'.caKey = pki.caKey
  <2>1. CASE WriteServerKey(p) BY <1>2, <2>1 DEF WriteServerKey, PkiRecord, StartRecord
  <2>2. CASE ~WriteServerKey(p) BY <1>2, <2>2 DEF Serve, KillStarter
  <2> QED BY <2>1, <2>2
<1>7. \/ running' = running
      \/ /\ running = NotRunning /\ pki.crt # NoCert /\ CALoads
         /\ running' = [cert |-> pki.crt, ca |-> pki.caCrt]
  BY DEF WriteServerKey, Serve, KillStarter
<1>8. running' \in {NotRunning} \cup [cert : ServerCert, ca : ServerKey]
  <2>1. pki.crt # NoCert /\ CALoads => pki.crt \in ServerCert /\ pki.caCrt \in ServerKey
    BY StarterKnows
  <2> QED BY <1>1, <1>7, <2>1 DEF TypeOK
<1>9. TypeOK' BY <1>1, <1>4, <1>6, <1>8 DEF TypeOK, StartRecord, StartPlace, PkiRecord, deviceVars
<1>10. ServerInv'
  <2> SUFFICES ASSUME ~raced PROVE ServerInv' BY <1>1 DEF ServerInv
  <2>1. CALoads' = CALoads BY <1>6 DEF CALoads
  <2>2. running' # NotRunning => running'.cert = pki.crt /\ running'.ca = pki.caCrt
    BY <1>1, <1>7 DEF ServerInv
  <2> QED BY <1>1, <1>4, <1>5, <1>6, <2>1, <2>2 DEF ServerInv
<1>11. \/ running' = running
       \/ running = NotRunning /\ running'.cert = pki.crt
  BY <1>7
<1> QED BY <1>1, <1>2, <1>4, <1>6, <1>9, <1>10, <1>11, ServerStepKeeps

\* A directory that is removed is nobody's.
LEMMA RemoveKeeps == ASSUME KeysFit, IdentityIInv, RemovePKI PROVE IdentityIInv'
<1>1. TypeOK /\ ServerInv /\ UNCHANGED <<serverKeys, start, running, raced, deviceVars>>
      /\ pki' = NoPKI /\ running = NotRunning /\ \A p \in Starter : ~Creating(p)
  BY DEF IdentityIInv, IdentityTypes, RemovePKI
<1>2. raced \in BOOLEAN /\ serverKeys \in Nat /\ serverKeys <= serverKeys
      /\ \A p \in Starter : start[p].pc \in {"begun", "caKey"} => start[p].key # NoKey
  BY <1>1 DEF IdentityIInv, IdentityTypes, TypeOK, KeysFit
<1>3. pki' \in PkiRecord BY <1>1 DEF NoPKI, PkiRecord
<1>4. TypeOK' BY <1>1, <1>3 DEF TypeOK, PkiRecord, deviceVars
<1>5. ServerInv' BY <1>1, KeyFacts DEF ServerInv, Creating
<1>6. pki'.crt = NoCert BY <1>1, KeyFacts
<1> QED BY <1>1, <1>2, <1>4, <1>5, <1>6, ServerStepKeeps

-----------------------------------------------------------------------------
(* The devices *)

\* A step of a pairing on its way to the certificate.
LEMMA AskingKeeps ==
    ASSUME KeysFit, IdentityIInv, NEW d \in Device, NEW new \in Pairing,
           pair' = [pair EXCEPT ![d] = new], clientKeys' \in 0 .. MaxClientKeys,
           UNCHANGED <<serverVars, disk, paired, collided>>,
           new.pc \notin Saving,
           new # NotPairing => new.trusted <= serverKeys,
           new.pc \in Connected => running.cert.key = new.trusted,
           new.pc = "issued" /\ ~raced => new.cert.signer = running.ca
    PROVE  IdentityIInv'
<1>1. IdentityTypes /\ TypeOK /\ UsedInv /\ ServerInv /\ SavedInv BY DEF IdentityIInv, IdentityTypes
<1>2. UNCHANGED <<pki, serverKeys, start, running, raced, disk, paired, collided>> BY DEF serverVars
<1>3. pair' \in [Device -> Pairing] /\ \A e \in Device : pair'[e] = IF e = d THEN new ELSE pair[e]
  BY <1>1 DEF IdentityTypes
<1>4. IdentityTypes' BY <1>1, <1>2, <1>3 DEF IdentityTypes, TypeOK
<1>5. UsedInv' BY <1>1, <1>2, <1>3 DEF UsedInv
<1>6. ServerInv' BY <1>1, <1>2 DEF ServerInv, CALoads, Creating
<1>7. SavedInv'
  <2> SUFFICES ASSUME ~raced, ~collided PROVE SavedInv' BY <1>2 DEF SavedInv
  <2>1. ASSUME NEW e \in Device, e # d PROVE Fits(e)'
    <3>1. Fits(e) BY <1>1 DEF SavedInv
    <3> QED BY <1>2, <1>3, <2>1, <3>1 DEF Fits, OnDisk, Agrees
  <2>2. Fits(d)' BY <1>2, <1>3 DEF Fits, Saving
  <2>3. \A a \in Address : Paired(a)' BY <1>1, <1>2 DEF SavedInv, Paired, OnDisk, Agrees
  <2>4. \A e, f \in Device : pair'[e].pc \in Saving /\ pair'[f].pc \in Saving => e = f
    BY <1>1, <1>3 DEF SavedInv
  <2>5. \A e \in Device : Fits(e)' BY <2>1, <2>2
  <2> QED BY <2>3, <2>4, <2>5 DEF SavedInv
<1> QED BY <1>4, <1>5, <1>6, <1>7 DEF IdentityIInv

\* A pairing is asked for, signed, or given up.
LEMMA RequestsKeep ==
    ASSUME KeysFit, IdentityIInv, NEW d \in Device, NEW a \in Address,
           Trust(d, a) \/ Connect(d) \/ Issue(d) \/ EndPairing(d)
    PROVE  IdentityIInv'
<1>1. IdentityTypes /\ TypeOK /\ UsedInv /\ ServerInv BY DEF IdentityIInv, IdentityTypes
<1>2. pair[d] \in Pairing /\ clientKeys \in 0 .. MaxClientKeys BY <1>1 DEF IdentityTypes, TypeOK
<1>3. NotPairing \in Pairing /\ NotPairing.pc \notin Saving \cup Connected \cup {"issued"}
  BY DEF Pairing, Idle, NotPairing, Saving, Connected
<1>4. running # NotRunning => running.cert \in ServerCert /\ running.cert.key \in ServerKey
  BY <1>1 DEF TypeOK, ServerCert
<1>5. ASSUME Trust(d, a) PROVE IdentityIInv'
  <2> DEFINE new == [pc |-> "trusted", address |-> a, trusted |-> running.cert.key]
  <2>1. running.cert.key \in ServerKey /\ running.cert.key <= serverKeys
    BY <1>1, <1>4, <1>5 DEF Trust, UsedInv
  <2>2. new \in Trusted BY <2>1 DEF Trusted
  <2>3. new \in Pairing /\ new.pc = "trusted" /\ new.trusted <= serverKeys BY <2>1, <2>2 DEF Pairing
  <2>4. pair' = [pair EXCEPT ![d] = new] /\ UNCHANGED <<serverVars, disk, clientKeys, paired, collided>>
    BY <1>5 DEF Trust
  <2> HIDE DEF new
  <2> QED BY <1>2, <2>3, <2>4, AskingKeeps DEF Saving, Connected
<1>6. ASSUME pair[d] # NotPairing PROVE pair[d].trusted <= serverKeys BY <1>1, <1>6 DEF UsedInv
<1>7. CASE (Connect(d) /\ ~Pinned(d)) \/ EndPairing(d)
  <2>1. /\ pair' = [pair EXCEPT ![d] = NotPairing]
        /\ UNCHANGED <<serverVars, disk, clientKeys, paired, collided>>
    BY <1>7 DEF Connect, EndPairing
  <2> QED BY <1>2, <1>3, <2>1, AskingKeeps
<1>8. ASSUME Connect(d), Pinned(d) PROVE IdentityIInv'
  <2> DEFINE new == [pc |-> "connected", address |-> pair[d].address,
                     trusted |-> pair[d].trusted, key |-> clientKeys + 1]
  <2>1. pair[d] \in Trusted /\ pair[d] # NotPairing
    BY <1>2, <1>8, PairFacts DEF Connect, NotPairing
  <2>2. clientKeys + 1 \in ClientKey /\ clientKeys' = clientKeys + 1 /\ clientKeys' \in 0 .. MaxClientKeys
    BY <1>2, <1>8 DEF Connect, ClientKey, KeysFit
  <2>3. new \in Asking BY <2>1, <2>2 DEF Trusted, Asking
  <2>4. /\ new \in Pairing /\ new.pc = "connected" /\ new.trusted <= serverKeys
        /\ running.cert.key = new.trusted
    BY <1>6, <1>8, <2>1, <2>3 DEF Pairing, Pinned
  <2>5. pair' = [pair EXCEPT ![d] = new] /\ UNCHANGED <<serverVars, disk, paired, collided>>
    BY <1>8 DEF Connect
  <2> HIDE DEF new
  <2> QED BY <2>2, <2>4, <2>5, AskingKeeps DEF Saving
<1>9. ASSUME Issue(d) PROVE IdentityIInv'
  <2> DEFINE signed == [key |-> pair[d].key, signer |-> pki.caKey]
             new == [pc |-> "issued", address |-> pair[d].address,
                     trusted |-> pair[d].trusted, cert |-> signed]
  <2>1. pair[d] \in Asking /\ pair[d] # NotPairing /\ pair[d].pc \in Connected
    BY <1>2, <1>9, PairFacts DEF Issue, NotPairing, Connected
  <2>2. pki.caKey \in ServerKey /\ pki.caKey # NoKey
    BY <1>1, <1>9, KeyFacts DEF Issue, CALoads, TypeOK
  <2>3. signed \in ClientCert BY <2>1, <2>2 DEF Asking, ClientCert
  <2>4. new \in Issued BY <2>1, <2>3 DEF Asking, Issued
  <2>5. running.cert.key = pair[d].trusted /\ pair[d].trusted \in ServerKey
    BY <1>1, <2>1 DEF UsedInv, Asking
  <2>6. running # NotRunning BY <2>5, KeyFacts
  <2>7. ~raced => running.ca = pki.caKey BY <1>1, <2>2, <2>6 DEF ServerInv
  <2>8. /\ new \in Pairing /\ new.pc = "issued" /\ new.trusted <= serverKeys
        /\ running.cert.key = new.trusted /\ (~raced => new.cert.signer = running.ca)
    BY <1>6, <2>1, <2>4, <2>5, <2>7 DEF Pairing
  <2>9. pair' = [pair EXCEPT ![d] = new] /\ UNCHANGED <<serverVars, disk, clientKeys, paired, collided>>
    BY <1>9 DEF Issue
  <2> HIDE DEF new
  <2> QED BY <1>2, <2>8, <2>9, AskingKeeps DEF Saving
<1> QED BY <1>5, <1>7, <1>8, <1>9

\* The server ends, and with it the pairings that are connected.
LEMMA StopKeeps == ASSUME KeysFit, IdentityIInv, Stop PROVE IdentityIInv'
<1>1. IdentityTypes /\ TypeOK /\ UsedInv /\ ServerInv /\ SavedInv BY DEF IdentityIInv, IdentityTypes
<1>2. UNCHANGED <<pki, serverKeys, start, raced, disk, clientKeys, paired, collided>>
      /\ running' = NotRunning
  BY DEF Stop
<1>3. NotPairing \in Pairing /\ NotPairing.pc \notin Saving \cup Connected
  BY DEF Pairing, Idle, NotPairing, Saving, Connected
<1>4. /\ pair' \in [Device -> Pairing]
      /\ \A d \in Device : \/ pair'[d] = NotPairing
                           \/ pair'[d] = pair[d] /\ pair[d].pc \notin Connected
  BY <1>1, <1>3 DEF Stop, IdentityTypes
<1>5. IdentityTypes' BY <1>1, <1>2, <1>4 DEF IdentityTypes, TypeOK
<1>6. UsedInv'
  <2>1. running'.cert.key <= serverKeys BY <1>1, <1>2, KeyFacts DEF TypeOK, NoKey, KeysFit
  <2> QED BY <1>1, <1>2, <1>3, <1>4, <2>1 DEF UsedInv
<1>7. ServerInv' BY <1>1, <1>2 DEF ServerInv, CALoads, Creating
<1>8. SavedInv'
  <2> SUFFICES ASSUME ~raced, ~collided PROVE SavedInv' BY <1>2 DEF SavedInv
  <2>1. ASSUME NEW d \in Device PROVE Fits(d)'
    <3>1. CASE pair'[d] = NotPairing BY <3>1 DEF Fits, NotPairing
    <3>2. CASE pair'[d] = pair[d] /\ pair[d].pc \notin Connected
      <4>1. Fits(d) BY <1>1 DEF SavedInv
      <4> QED BY <1>2, <3>2, <4>1 DEF Fits, OnDisk, Agrees, Connected
    <3> QED BY <1>4, <3>1, <3>2
  <2>2. \A a \in Address : Paired(a)' BY <1>1, <1>2 DEF SavedInv, Paired, OnDisk, Agrees
  <2>3. \A d, e \in Device : pair'[d].pc \in Saving /\ pair'[e].pc \in Saving => d = e
    BY <1>1, <1>3, <1>4 DEF SavedInv
  <2> QED BY <2>1, <2>2, <2>3 DEF SavedInv
<1> QED BY <1>5, <1>6, <1>7, <1>8 DEF IdentityIInv

\* A step of a pairing that is saved, which nobody disturbs.
LEMMA SavingKeeps ==
    ASSUME KeysFit, IdentityIInv, NEW d \in Device, NEW new \in Pairing,
           pair' = [pair EXCEPT ![d] = new], UNCHANGED <<serverVars, clientKeys>>, TypeOK',
           new.pc \in Saving \cup {"idle"},
           new # NotPairing => new.trusted <= serverKeys,
           \A a \in Address : paired'[a] <= serverKeys,
           collided' \in BOOLEAN, collided => collided',
           ~raced /\ ~collided' => \A e \in Device \ {d} : pair[e].pc \notin Saving,
           ~raced /\ ~collided' => Fits(d)' /\ \A a \in Address : Paired(a)'
    PROVE  IdentityIInv'
<1>1. IdentityTypes /\ TypeOK /\ UsedInv /\ ServerInv /\ SavedInv BY DEF IdentityIInv, IdentityTypes
<1>2. UNCHANGED <<pki, serverKeys, start, running, raced, clientKeys>> BY DEF serverVars
<1>3. pair' \in [Device -> Pairing] /\ \A e \in Device : pair'[e] = IF e = d THEN new ELSE pair[e]
  BY <1>1 DEF IdentityTypes
<1>4. IdentityTypes' BY <1>1, <1>2, <1>3 DEF IdentityTypes
<1>5. UsedInv' BY <1>1, <1>2, <1>3 DEF UsedInv, Saving, Connected
<1>6. ServerInv' BY <1>1, <1>2 DEF ServerInv, CALoads, Creating
<1>7. SavedInv'
  <2> SUFFICES ASSUME ~raced, ~collided' PROVE SavedInv' BY <1>2 DEF SavedInv
  <2>1. ASSUME NEW e \in Device, e # d PROVE Fits(e)' /\ pair'[e].pc \notin Saving
    <3>1. Fits(e) BY <1>1 DEF SavedInv
    <3>2. pair'[e] = pair[e] /\ pair[e].pc \notin Saving BY <1>3, <2>1
    <3>3. pair'[e].pc = "issued" => pair'[e].cert.signer = running'.ca BY <1>2, <3>1, <3>2 DEF Fits
    <3> QED BY <3>2, <3>3 DEF Fits, Saving
  <2>2. \A e \in Device : Fits(e)' BY <2>1
  <2>3. \A e, f \in Device : pair'[e].pc \in Saving /\ pair'[f].pc \in Saving => e = f BY <2>1
  <2> QED BY <2>2, <2>3 DEF SavedInv
<1> QED BY <1>4, <1>5, <1>6, <1>7 DEF IdentityIInv

\* What a device is handed fits the server that handed it.
LEMMA CollectKeeps ==
    ASSUME KeysFit, IdentityIInv, NEW d \in Device, Collect(d) PROVE IdentityIInv'
<1> DEFINE new == [pc |-> "crt", address |-> pair[d].address, trusted |-> pair[d].trusted,
                   cert |-> pair[d].cert, ca |-> running.ca]
<1>1. IdentityTypes /\ TypeOK /\ UsedInv /\ ServerInv /\ SavedInv BY DEF IdentityIInv, IdentityTypes
<1>2. pair[d].pc = "issued" /\ UNCHANGED <<serverVars, disk, clientKeys, paired>>
      /\ pair' = [pair EXCEPT ![d] = new]
  BY DEF Collect
<1>3. pair[d] \in Issued /\ pair[d] # NotPairing /\ pair[d] \in Pairing
  BY <1>1, <1>2, PairFacts DEF IdentityTypes, NotPairing
<1>4. /\ pair[d].address \in Address /\ pair[d].trusted \in ServerKey
      /\ pair[d].cert \in ClientCert /\ pair[d].trusted <= serverKeys
      /\ running.cert.key = pair[d].trusted
  BY <1>1, <1>2, <1>3 DEF Issued, UsedInv, Connected
<1>5. running # NotRunning BY <1>4, KeyFacts
<1>6. running.ca \in ServerKey BY <1>1, <1>5 DEF TypeOK
<1>7. new \in Holding BY <1>4, <1>6 DEF Holding
<1>8. /\ new \in Pairing /\ new.pc = "crt" /\ new.trusted = pair[d].trusted
      /\ new.cert = pair[d].cert /\ new.ca = running.ca
  BY <1>7 DEF Pairing
<1> HIDE DEF new
<1>9. TypeOK' BY <1>1, <1>2 DEF TypeOK, serverVars
<1>10. collided' = (collided \/ \E e \in Device \ {d} : pair[e].pc \in Saving) BY DEF Collect
<1>11. collided \in BOOLEAN BY <1>1 DEF IdentityTypes
<1>12. collided' \in BOOLEAN BY <1>10, <1>11, Zenon
<1>13. /\ collided => collided'
       /\ ~collided' => \A e \in Device \ {d} : pair[e].pc \notin Saving
  BY <1>10, Zenon
<1>14. pair'[d] = new BY <1>1, <1>2 DEF IdentityTypes
<1>15. ASSUME ~raced, ~collided PROVE Fits(d)' /\ \A a \in Address : Paired(a)'
  <2>1. Fits(d) /\ \A a \in Address : Paired(a) BY <1>1, <1>15 DEF SavedInv
  <2>2. /\ running.cert = pki.crt /\ running.ca = pki.caCrt
        /\ pki.crt.key # NoKey => pki.crt.signer = pki.caCrt
    BY <1>1, <1>5, <1>15, KeyFacts DEF ServerInv
  <2>3. pki'.crt.signer = new.ca BY <1>2, <1>4, <1>8, <2>2, KeyFacts DEF serverVars
  <2>4. new.cert.signer = new.ca BY <1>2, <1>8, <2>1 DEF Fits
  <2>5. Fits(d)' BY <1>8, <1>14, <2>3, <2>4 DEF Fits, Agrees
  <2>6. \A a \in Address : Paired(a)' BY <1>2, <2>1 DEF Paired, OnDisk, Agrees, serverVars
  <2> QED BY <2>5, <2>6
<1>16. \A a \in Address : paired'[a] <= serverKeys BY <1>1, <1>2 DEF UsedInv
<1>17. ~raced /\ ~collided' => Fits(d)' /\ \A a \in Address : Paired(a)' BY <1>13, <1>15
<1>18. new.trusted <= serverKeys BY <1>4, <1>8
<1>19. new.pc \in Saving BY <1>8 DEF Saving
<1> QED BY <1>2, <1>8, <1>9, <1>12, <1>13, <1>16, <1>17, <1>18, <1>19, SavingKeeps

\* What a pairing that is saved is about, and that no other is being saved.
LEMMA SaverKnows ==
    ASSUME KeysFit, IdentityIInv, NEW d \in Device, pair[d].pc \in Saving
    PROVE  /\ pair[d].address \in Address /\ pair[d].trusted \in ServerKey
           /\ pair[d].trusted <= serverKeys
           /\ pair[d].pc \in {"crt", "key", "ca", "read"} => pair[d] \in Holding
           /\ pair[d].pc = "record" => pair[d] \in Recording
           /\ collided \in BOOLEAN
           /\ \A a \in Address : paired[a] <= serverKeys
           /\ ~raced /\ ~collided =>
                 /\ \A e \in Device \ {d} : pair[e].pc \notin Saving
                 /\ Fits(d) /\ \A a \in Address : Paired(a)
           /\ /\ disk.crt \in [Address -> ClientCert \cup {NoCert}]
              /\ disk.key \in [Address -> ClientKey \cup {NoKey}]
              /\ disk.ca \in [Address -> ServerKey \cup {NoKey}]
              /\ disk.servers \in [Address -> ServerKey \cup {NoKey}]
              /\ disk = [crt |-> disk.crt, key |-> disk.key, ca |-> disk.ca, servers |-> disk.servers]
           /\ paired \in [Address -> ServerKey \cup {NoKey}]
<1>1. IdentityTypes /\ TypeOK /\ UsedInv /\ SavedInv BY DEF IdentityIInv, IdentityTypes
<1>2. pair[d] # NotPairing /\ pair[d] \in Pairing BY <1>1 DEF IdentityTypes, NotPairing, Saving
<1>3. pair[d].address \in Address /\ pair[d].trusted \in ServerKey
      /\ (pair[d].pc \in {"crt", "key", "ca", "read"} => pair[d] \in Holding)
      /\ (pair[d].pc = "record" => pair[d] \in Recording)
  BY <1>2, PairFacts
<1>4. pair[d].trusted <= serverKeys /\ \A a \in Address : paired[a] <= serverKeys
  BY <1>1, <1>2 DEF UsedInv
<1>5. ~raced /\ ~collided =>
         /\ \A e \in Device \ {d} : pair[e].pc \notin Saving
         /\ Fits(d) /\ \A a \in Address : Paired(a)
  BY <1>1 DEF SavedInv
<1>6. /\ disk.crt \in [Address -> ClientCert \cup {NoCert}]
      /\ disk.key \in [Address -> ClientKey \cup {NoKey}]
      /\ disk.ca \in [Address -> ServerKey \cup {NoKey}]
      /\ disk.servers \in [Address -> ServerKey \cup {NoKey}]
      /\ disk = [crt |-> disk.crt, key |-> disk.key, ca |-> disk.ca, servers |-> disk.servers]
      /\ paired \in [Address -> ServerKey \cup {NoKey}]
  BY <1>1 DEF TypeOK
<1> QED BY <1>1, <1>3, <1>4, <1>5, <1>6 DEF IdentityTypes

\* saveClientIdentity, file by file: the certificate, from which on the address is
\* paired with nothing,
LEMMA WriteCertKeeps ==
    ASSUME KeysFit, IdentityIInv, NEW d \in Device, WriteCert(d) PROVE IdentityIInv'
<1> DEFINE new == [pair[d] EXCEPT !.pc = "key"]
           a == pair[d].address
<1>1. IdentityTypes /\ TypeOK BY DEF IdentityIInv, IdentityTypes
<1>2. /\ pair[d].pc = "crt" /\ UNCHANGED <<serverVars, clientKeys, collided>>
      /\ pair' = [pair EXCEPT ![d] = new] /\ disk' = [disk EXCEPT !.crt[a] = pair[d].cert]
      /\ paired' = [paired EXCEPT ![a] = NoKey]
  BY DEF WriteCert
<1>3. pair[d].pc \in Saving /\ pair[d].pc \in {"crt", "key", "ca", "read"} BY <1>2 DEF Saving
<1>4. pair[d] \in Holding /\ a \in Address BY <1>3, SaverKnows
<1>5. pair[d].cert \in ClientCert BY <1>4 DEF Holding
<1>6. new \in Holding /\ new.pc = "key" /\ new.trusted = pair[d].trusted
      /\ new.cert = pair[d].cert /\ new.ca = pair[d].ca /\ new.address = a
  BY <1>4 DEF Holding
<1>7. new \in Pairing BY <1>6 DEF Pairing
<1> HIDE DEF new
<1>8. /\ disk'.crt \in [Address -> ClientCert \cup {NoCert}]
      /\ disk' = [crt |-> disk'.crt, key |-> disk.key, ca |-> disk.ca, servers |-> disk.servers]
      /\ \A b \in Address : disk'.crt[b] = IF b = a THEN pair[d].cert ELSE disk.crt[b]
  BY <1>2, <1>3, <1>4, <1>5, SaverKnows
<1>9. paired' \in [Address -> ServerKey \cup {NoKey}]
      /\ \A b \in Address : paired'[b] = IF b = a THEN NoKey ELSE paired[b]
  BY <1>2, <1>3, SaverKnows
<1>10. disk'.key = disk.key /\ disk'.ca = disk.ca /\ disk'.servers = disk.servers BY <1>8
<1>11. disk' \in [crt : [Address -> ClientCert \cup {NoCert}], key : [Address -> ClientKey \cup {NoKey}],
                  ca : [Address -> ServerKey \cup {NoKey}], servers : [Address -> ServerKey \cup {NoKey}]]
  BY <1>3, <1>8, SaverKnows
<1>12. TypeOK' BY <1>1, <1>2, <1>9, <1>11 DEF TypeOK, serverVars
<1>13. pair'[d] = new BY <1>1, <1>2 DEF IdentityTypes
<1>14. ASSUME ~raced, ~collided PROVE Fits(d)' /\ \A b \in Address : Paired(b)'
  <2>1. Fits(d) /\ \A b \in Address : Paired(b) BY <1>3, <1>14, SaverKnows
  <2>2. Fits(d)' BY <1>2, <1>4, <1>6, <1>8, <1>9, <1>13, <2>1 DEF Fits, Agrees, serverVars
  <2>3. \A b \in Address : Paired(b)'
    BY <1>2, <1>8, <1>9, <1>10, <2>1 DEF Paired, OnDisk, Agrees, serverVars
  <2> QED BY <2>2, <2>3
<1>15. \A b \in Address : paired'[b] <= serverKeys
  BY <1>1, <1>3, <1>9, SaverKnows DEF TypeOK, NoKey, KeysFit
<1>16. new.trusted <= serverKeys /\ new.pc \in Saving BY <1>3, <1>6, SaverKnows DEF Saving
<1> QED BY <1>2, <1>3, <1>7, <1>12, <1>14, <1>15, <1>16, SavingKeeps, SaverKnows

\* its key,
LEMMA WriteKeyKeeps ==
    ASSUME KeysFit, IdentityIInv, NEW d \in Device, WriteKey(d) PROVE IdentityIInv'
<1> DEFINE new == [pair[d] EXCEPT !.pc = "ca"]
           a == pair[d].address
<1>1. IdentityTypes /\ TypeOK BY DEF IdentityIInv, IdentityTypes
<1>2. /\ pair[d].pc = "key" /\ UNCHANGED <<serverVars, clientKeys, paired, collided>>
      /\ pair' = [pair EXCEPT ![d] = new] /\ disk' = [disk EXCEPT !.key[a] = pair[d].cert.key]
  BY DEF WriteKey
<1>3. pair[d].pc \in Saving /\ pair[d].pc \in {"crt", "key", "ca", "read"} BY <1>2 DEF Saving
<1>4. pair[d] \in Holding /\ a \in Address BY <1>3, SaverKnows
<1>5. pair[d].cert.key \in ClientKey BY <1>4 DEF Holding, ClientCert
<1>6. new \in Holding /\ new.pc = "ca" /\ new.trusted = pair[d].trusted
      /\ new.cert = pair[d].cert /\ new.ca = pair[d].ca /\ new.address = a
  BY <1>4 DEF Holding
<1>7. new \in Pairing BY <1>6 DEF Pairing
<1> HIDE DEF new
<1>8. /\ disk'.key \in [Address -> ClientKey \cup {NoKey}]
      /\ disk' = [crt |-> disk.crt, key |-> disk'.key, ca |-> disk.ca, servers |-> disk.servers]
      /\ \A b \in Address : disk'.key[b] = IF b = a THEN pair[d].cert.key ELSE disk.key[b]
  BY <1>2, <1>3, <1>4, <1>5, SaverKnows
<1>9. disk'.crt = disk.crt /\ disk'.ca = disk.ca /\ disk'.servers = disk.servers BY <1>8
<1>10. disk' \in [crt : [Address -> ClientCert \cup {NoCert}], key : [Address -> ClientKey \cup {NoKey}],
                  ca : [Address -> ServerKey \cup {NoKey}], servers : [Address -> ServerKey \cup {NoKey}]]
  BY <1>3, <1>8, SaverKnows
<1>11. TypeOK' BY <1>1, <1>2, <1>10 DEF TypeOK, serverVars
<1>12. pair'[d] = new BY <1>1, <1>2 DEF IdentityTypes
<1>13. ASSUME ~raced, ~collided PROVE Fits(d)' /\ \A b \in Address : Paired(b)'
  <2>1. Fits(d) /\ \A b \in Address : Paired(b) BY <1>3, <1>13, SaverKnows
  <2>2. Fits(d)' BY <1>2, <1>4, <1>6, <1>8, <1>9, <1>12, <2>1 DEF Fits, Agrees, serverVars
  <2>3. paired[a] = NoKey BY <1>2, <2>1 DEF Fits
  <2>4. \A b \in Address : Paired(b)'
    BY <1>2, <1>8, <1>9, <2>1, <2>3 DEF Paired, OnDisk, Agrees, serverVars
  <2> QED BY <2>2, <2>4
<1>14. new.trusted <= serverKeys /\ new.pc \in Saving BY <1>3, <1>6, SaverKnows DEF Saving
<1> QED BY <1>2, <1>3, <1>7, <1>11, <1>13, <1>14, SavingKeeps, SaverKnows

\* and the CA.
LEMMA WriteCAKeeps ==
    ASSUME KeysFit, IdentityIInv, NEW d \in Device, WriteCA(d) PROVE IdentityIInv'
<1> DEFINE new == [pair[d] EXCEPT !.pc = "read"]
           a == pair[d].address
<1>1. IdentityTypes /\ TypeOK BY DEF IdentityIInv, IdentityTypes
<1>2. /\ pair[d].pc = "ca" /\ UNCHANGED <<serverVars, clientKeys, paired, collided>>
      /\ pair' = [pair EXCEPT ![d] = new] /\ disk' = [disk EXCEPT !.ca[a] = pair[d].ca]
  BY DEF WriteCA
<1>3. pair[d].pc \in Saving /\ pair[d].pc \in {"crt", "key", "ca", "read"} BY <1>2 DEF Saving
<1>4. pair[d] \in Holding /\ a \in Address BY <1>3, SaverKnows
<1>5. pair[d].ca \in ServerKey /\ pair[d].cert \in ClientCert BY <1>4 DEF Holding
<1>6. new \in Holding /\ new.pc = "read" /\ new.trusted = pair[d].trusted /\ new.address = a
  BY <1>4 DEF Holding
<1>7. new \in Pairing BY <1>6 DEF Pairing
<1> HIDE DEF new
<1>8. /\ disk'.ca \in [Address -> ServerKey \cup {NoKey}]
      /\ disk' = [crt |-> disk.crt, key |-> disk.key, ca |-> disk'.ca, servers |-> disk.servers]
      /\ \A b \in Address : disk'.ca[b] = IF b = a THEN pair[d].ca ELSE disk.ca[b]
  BY <1>2, <1>3, <1>4, <1>5, SaverKnows
<1>9. disk'.crt = disk.crt /\ disk'.key = disk.key /\ disk'.servers = disk.servers BY <1>8
<1>10. disk' \in [crt : [Address -> ClientCert \cup {NoCert}], key : [Address -> ClientKey \cup {NoKey}],
                  ca : [Address -> ServerKey \cup {NoKey}], servers : [Address -> ServerKey \cup {NoKey}]]
  BY <1>3, <1>8, SaverKnows
<1>11. TypeOK' BY <1>1, <1>2, <1>10 DEF TypeOK, serverVars
<1>12. pair'[d] = new BY <1>1, <1>2 DEF IdentityTypes
<1>13. ASSUME ~raced, ~collided PROVE Fits(d)' /\ \A b \in Address : Paired(b)'
  <2>1. Fits(d) /\ \A b \in Address : Paired(b) BY <1>3, <1>13, SaverKnows
  <2>2. /\ disk.crt[a] = pair[d].cert /\ disk.key[a] = pair[d].cert.key /\ paired[a] = NoKey
        /\ pair[d].cert.signer = pair[d].ca /\ Agrees(pair[d].trusted, pair[d].ca)
    BY <1>2, <2>1 DEF Fits
  <2>3. /\ disk'.crt[a] # NoCert /\ disk'.crt[a].key = disk'.key[a]
        /\ disk'.crt[a].signer = disk'.ca[a]
        /\ pki'.crt.key = pair[d].trusted => pki'.crt.signer = disk'.ca[a]
    BY <1>2, <1>4, <1>5, <1>8, <1>9, <2>2, KeyFacts DEF Agrees, serverVars
  <2>4. Fits(d)' BY <1>2, <1>6, <1>12, <2>2, <2>3 DEF Fits, OnDisk, Agrees
  <2>5. \A b \in Address : Paired(b)'
    BY <1>2, <1>8, <1>9, <2>1, <2>2 DEF Paired, OnDisk, Agrees, serverVars
  <2> QED BY <2>4, <2>5
<1>14. new.trusted <= serverKeys /\ new.pc \in Saving BY <1>3, <1>6, SaverKnows DEF Saving
<1> QED BY <1>2, <1>3, <1>7, <1>11, <1>13, <1>14, SavingKeeps, SaverKnows

\* The list that was read is the one on disk: nobody else has written it since.
LEMMA ReadServersKeeps ==
    ASSUME KeysFit, IdentityIInv, NEW d \in Device, ReadServers(d) PROVE IdentityIInv'
<1> DEFINE new == [pc |-> "record", address |-> pair[d].address,
                   trusted |-> pair[d].trusted, servers |-> disk.servers]
<1>1. IdentityTypes /\ TypeOK BY DEF IdentityIInv, IdentityTypes
<1>2. /\ pair[d].pc = "read" /\ UNCHANGED <<serverVars, disk, clientKeys, paired, collided>>
      /\ pair' = [pair EXCEPT ![d] = new]
  BY DEF ReadServers
<1>3. pair[d].pc \in Saving BY <1>2 DEF Saving
<1>4. new \in Recording /\ new.pc = "record" /\ new.trusted = pair[d].trusted
      /\ new.address = pair[d].address /\ new.servers = disk.servers
  BY <1>3, SaverKnows DEF Recording
<1>5. new \in Pairing BY <1>4 DEF Pairing
<1> HIDE DEF new
<1>6. TypeOK' BY <1>1, <1>2 DEF TypeOK, serverVars
<1>7. pair'[d] = new BY <1>1, <1>2 DEF IdentityTypes
<1>8. ASSUME ~raced, ~collided PROVE Fits(d)' /\ \A b \in Address : Paired(b)'
  <2>1. Fits(d) /\ \A b \in Address : Paired(b) BY <1>3, <1>8, SaverKnows
  <2>2. OnDisk(pair[d].address, pair[d].trusted) /\ paired[pair[d].address] = NoKey
    BY <1>2, <2>1 DEF Fits
  <2>3. Fits(d)' BY <1>2, <1>4, <1>7, <2>2 DEF Fits, OnDisk, Agrees, serverVars
  <2>4. \A b \in Address : Paired(b)' BY <1>2, <2>1 DEF Paired, OnDisk, Agrees, serverVars
  <2> QED BY <2>3, <2>4
<1>9. new.trusted <= serverKeys /\ new.pc \in Saving BY <1>3, <1>4, SaverKnows DEF Saving
<1> QED BY <1>2, <1>3, <1>5, <1>6, <1>8, <1>9, SavingKeeps, SaverKnows

\* The record of the server is the last file, and the other records stay.
LEMMA WriteServersKeeps ==
    ASSUME KeysFit, IdentityIInv, NEW d \in Device, WriteServers(d) PROVE IdentityIInv'
<1> DEFINE a == pair[d].address
           known == [pair[d].servers EXCEPT ![a] = pair[d].trusted]
<1>1. IdentityTypes /\ TypeOK BY DEF IdentityIInv, IdentityTypes
<1>2. /\ pair[d].pc = "record" /\ UNCHANGED <<serverVars, clientKeys, collided>>
      /\ pair' = [pair EXCEPT ![d] = NotPairing] /\ disk' = [disk EXCEPT !.servers = known]
      /\ paired' = [paired EXCEPT ![a] = pair[d].trusted]
  BY DEF WriteServers, WithServer
<1>3. pair[d].pc \in Saving BY <1>2 DEF Saving
<1>4. pair[d] \in Recording /\ a \in Address /\ pair[d].trusted \in ServerKey
  BY <1>2, <1>3, SaverKnows
<1>5. known \in [Address -> ServerKey \cup {NoKey}]
      /\ \A b \in Address : known[b] = IF b = a THEN pair[d].trusted ELSE pair[d].servers[b]
  BY <1>4 DEF Recording
<1> HIDE DEF known
<1>6. disk' = [crt |-> disk.crt, key |-> disk.key, ca |-> disk.ca, servers |-> known]
  BY <1>2, <1>3, SaverKnows
<1>7. disk'.crt = disk.crt /\ disk'.key = disk.key /\ disk'.ca = disk.ca /\ disk'.servers = known
  BY <1>6
<1>8. disk' \in [crt : [Address -> ClientCert \cup {NoCert}], key : [Address -> ClientKey \cup {NoKey}],
                 ca : [Address -> ServerKey \cup {NoKey}], servers : [Address -> ServerKey \cup {NoKey}]]
  BY <1>3, <1>5, <1>6, SaverKnows
<1>9. paired' \in [Address -> ServerKey \cup {NoKey}]
      /\ \A b \in Address : paired'[b] = IF b = a THEN pair[d].trusted ELSE paired[b]
  BY <1>2, <1>3, <1>4, SaverKnows
<1>10. TypeOK' BY <1>1, <1>2, <1>8, <1>9 DEF TypeOK, serverVars
<1>11. pair'[d] = NotPairing BY <1>1, <1>2 DEF IdentityTypes
<1>12. ASSUME ~raced, ~collided PROVE Fits(d)' /\ \A b \in Address : Paired(b)'
  <2>1. Fits(d) /\ \A b \in Address : Paired(b) BY <1>3, <1>12, SaverKnows
  <2>2. OnDisk(a, pair[d].trusted) /\ pair[d].servers = disk.servers BY <1>2, <2>1 DEF Fits
  <2>3. Fits(d)' BY <1>11 DEF Fits, NotPairing
  <2>4. ASSUME NEW b \in Address, b = a PROVE Paired(b)'
    BY <1>2, <1>4, <1>5, <1>7, <1>9, <2>2, <2>4 DEF Paired, OnDisk, Agrees, serverVars
  <2>5. \A b \in Address \ {a} : Paired(b)'
    BY <1>2, <1>5, <1>7, <1>9, <2>1, <2>2 DEF Paired, OnDisk, Agrees, serverVars
  <2> QED BY <2>3, <2>4, <2>5
<1>13. \A b \in Address : paired'[b] <= serverKeys BY <1>3, <1>9, SaverKnows
<1>14. NotPairing \in Pairing /\ NotPairing.pc \in Saving \cup {"idle"}
  BY DEF Pairing, Idle, NotPairing
<1> QED BY <1>2, <1>3, <1>10, <1>12, <1>13, <1>14, SavingKeeps, SaverKnows

-----------------------------------------------------------------------------
(* Spec *)

\* Every step keeps the invariant.
LEMMA IdentityKept == ASSUME KeysFit, IdentityIInv, [Next]_vars PROVE IdentityIInv'
<1>1. CASE \E p \in Starter : Start(p) \/ KillStarter(p)
  BY <1>1, StatCAKeeps, WriteCACertKeeps, WriteCAKeyKeeps, StatServerKeeps, OtherStartsKeep DEF Start
<1>2. CASE Stop \/ RemovePKI BY <1>2, StopKeeps, RemoveKeeps
<1>3. CASE \E d \in Device : (\E a \in Address : Trust(d, a)) BY <1>3, RequestsKeep
<1>4. CASE \E d \in Device : Connect(d) \/ Issue(d) \/ EndPairing(d)
  <2>1. PICK d \in Device : Connect(d) \/ Issue(d) \/ EndPairing(d) BY <1>4
  <2>2. pair[d] # NotPairing BY <2>1 DEF Connect, Issue, EndPairing, NotPairing
  <2>3. pair[d] \in Pairing BY DEF IdentityIInv, IdentityTypes
  <2>4. pair[d].address \in Address BY <2>2, <2>3, PairFacts
  <2> QED BY <2>1, <2>4, RequestsKeep
<1>5. CASE \E d \in Device : Collect(d) \/ Save(d)
  BY <1>5, CollectKeeps, WriteCertKeeps, WriteKeyKeeps, WriteCAKeeps, ReadServersKeeps,
     WriteServersKeeps DEF Save
<1>6. CASE UNCHANGED vars
  <2>1. IdentityTypes' BY <1>6 DEF IdentityIInv, IdentityTypes, TypeOK, vars, serverVars, deviceVars
  <2>2. UsedInv' BY <1>6 DEF IdentityIInv, UsedInv, vars, serverVars, deviceVars
  <2>3. ServerInv' BY <1>6 DEF IdentityIInv, ServerInv, CALoads, Creating, vars, serverVars, deviceVars
  <2>4. SavedInv'
    BY <1>6 DEF IdentityIInv, SavedInv, Fits, Paired, OnDisk, Agrees, vars, serverVars, deviceVars
  <2> QED BY <2>1, <2>2, <2>3, <2>4 DEF IdentityIInv
<1> QED BY <1>1, <1>2, <1>3, <1>4, <1>5, <1>6 DEF Next

\* rpc/pki.go, rpc/client.go, cli/pair.go.  The keys and certificates of both
\* ends stay of their types, and unless two starters raced the server never
\* listens with a certificate its own CA did not sign.
THEOREM IdentityHolds == ASSUME KeysFit PROVE Spec => []IdentityInv
<1>1. Init => IdentityIInv BY IdentityStarts
<1>2. IdentityIInv /\ [Next]_vars => IdentityIInv' BY IdentityKept
<1>3. IdentityIInv => IdentityInv
  <2> SUFFICES ASSUME IdentityIInv PROVE IdentityInv OBVIOUS
  <2>1. TypeOK /\ ServerInv BY DEF IdentityIInv, IdentityTypes
  <2>2. ASSUME running # NotRunning, ~raced PROVE running.cert.signer = running.ca
    <3>1. running.cert = pki.crt /\ running.ca = pki.caCrt BY <2>1, <2>2 DEF ServerInv
    <3>2. running.cert \in ServerCert BY <2>1, <2>2 DEF TypeOK
    <3>3. pki.crt # NoCert BY <3>1, <3>2, KeyFacts
    <3> QED BY <2>1, <2>2, <3>1, <3>3 DEF ServerInv
  <2> QED BY <2>1, <2>2 DEF IdentityInv, IdentityChains
<1> QED BY <1>1, <1>2, <1>3, PTL DEF Spec

\* A device that was told it is paired can connect to the server it was paired
\* with, for as long as that has its key, through starts of either side that
\* were killed between any two files, unless two first starts or two pairings
\* ran at once.
THEOREM PairedDevicesConnect == ASSUME KeysFit PROVE Spec => []PairedConnects
<1>1. Init => IdentityIInv BY IdentityStarts
<1>2. IdentityIInv /\ [Next]_vars => IdentityIInv' BY IdentityKept
<1>3. IdentityIInv => PairedConnects
  <2> SUFFICES ASSUME IdentityIInv, NEW a \in Address, paired[a] # NoKey,
                      paired[a] = running.cert.key, ~raced, ~collided
               PROVE  Connects(a)
    BY DEF PairedConnects
  <2>1. TypeOK /\ ServerInv /\ SavedInv BY DEF IdentityIInv, IdentityTypes
  <2>2. disk.servers[a] = paired[a] /\ OnDisk(a, paired[a]) BY <2>1 DEF SavedInv, Paired
  <2>3. running # NotRunning BY KeyFacts
  <2>4. running.cert = pki.crt /\ running.ca = pki.caCrt BY <2>1, <2>3 DEF ServerInv
  <2>5. pki.crt # NoCert BY <2>4, KeyFacts
  <2>6. pki.crt.signer = pki.caCrt BY <2>1, <2>5 DEF ServerInv
  <2> QED BY <2>2, <2>4, <2>6 DEF Connects, Verified, OnDisk, Agrees
<1> QED BY <1>1, <1>2, <1>3, PTL DEF Spec

-----------------------------------------------------------------------------
(* The executable and the unit of the service *)

Unit == [installed : BOOLEAN, runs : Nat, by : {"nobody", "install", "uninstall"},
         orphan : BOOLEAN]

\* As much of the types as the proofs need.
UpdateTypes ==
    /\ target \in [tag : Nat, content : U!Content]
    /\ staged \in [Updater -> [tag : Nat, content : U!Content]]
    /\ pc \in [Updater -> U!Active \cup U!Ended]
    /\ newest \in Nat
    /\ found \in [Updater \cup Checker -> Nat]
    /\ unit \in Unit

\* Every step keeps them.
LEMMA UpdateTypesStep == ASSUME UpdateTypes, [U!Next]_(U!vars) PROVE UpdateTypes'
<1> USE DEF UpdateTypes, U!Content, U!Active, U!Ended, U!NoFile, U!Goto, U!updating
<1>1. CASE U!Publish BY <1>1 DEF U!Publish
<1>2. CASE U!Expire BY <1>2 DEF U!Expire
<1>3. CASE U!Respawn
  <2>1. target.tag \in Nat OBVIOUS
  <2>2. unit' \in Unit BY <1>3, <2>1, Zenon DEF U!Respawn, Unit
  <2> QED BY <1>3, <2>2 DEF U!Respawn
<1>4. CASE U!Daemon
  <2>1. UNCHANGED <<newest, target, staged, pc, found>> BY <1>4 DEF U!Daemon
  <2>2. CASE U!Install
    <3>1. (IF unit.runs = 0 THEN target.tag ELSE unit.runs) \in Nat BY DEF Unit
    <3>2. unit' \in Unit BY <2>2, <3>1 DEF U!Install, Unit
    <3> QED BY <2>1, <3>2
  <2>3. CASE U!Uninstall
    <3>1. ASSUME NEW left \in BOOLEAN
          PROVE  [unit EXCEPT !.installed = FALSE, !.by = "nobody", !.orphan = left] \in Unit
      BY Zenon DEF Unit
    <3>2. [unit EXCEPT !.runs = 0, !.by = "uninstall", !.orphan = FALSE] \in Unit BY DEF Unit
    <3>3. (unit.runs # 0) \in BOOLEAN OBVIOUS
    <3>4. unit' \in Unit BY <2>3, <3>1, <3>2, <3>3, Zenon DEF U!Uninstall
    <3> QED BY <2>1, <3>4
  <2> QED BY <1>4, <2>2, <2>3 DEF U!Daemon
<1>5. ASSUME NEW u \in Updater, U!Fetch(u) PROVE UpdateTypes' BY <1>5 DEF U!Fetch
<1>6. ASSUME NEW u \in Updater, U!CacheWrite(u) \/ U!Decline(u) \/ U!Look(u) \/ U!Kill(u)
      PROVE  UpdateTypes'
  BY <1>6 DEF U!CacheWrite, U!Decline, U!Look, U!Kill
<1>7. ASSUME NEW u \in Updater, U!Stage(u) PROVE UpdateTypes' BY <1>7 DEF U!Stage
<1>8. ASSUME NEW u \in Updater, U!Extract(u) PROVE UpdateTypes' BY <1>8 DEF U!Extract
<1>9. ASSUME NEW u \in Updater, U!Compare(u) PROVE UpdateTypes' BY <1>9 DEF U!Compare
<1>10. ASSUME NEW u \in Updater, U!Replace(u) PROVE UpdateTypes' BY <1>10 DEF U!Replace
<1>11. ASSUME NEW u \in Updater, U!RestartDaemon(u) PROVE UpdateTypes'
  <2>1. ASSUME NEW tag \in Nat, U!Starts(tag) PROVE unit' \in Unit BY <2>1 DEF U!Starts, Unit
  <2>2. target.tag \in Nat OBVIOUS
  <2>3. unit' \in Unit BY <1>11, <2>1, <2>2 DEF U!RestartDaemon
  <2> QED BY <1>11, <2>3 DEF U!RestartDaemon
<1>12. ASSUME NEW c \in Checker, U!CheckStart(c) \/ U!CheckAsk(c) \/ U!CheckWrite(c)
       PROVE  UpdateTypes'
  BY <1>12 DEF U!CheckStart, U!CheckAsk, U!CheckWrite
<1>13. CASE UNCHANGED U!vars BY <1>13 DEF U!vars
<1> QED
  BY <1>1, <1>2, <1>3, <1>4, <1>5, <1>6, <1>7, <1>8, <1>9, <1>10, <1>11, <1>12, <1>13
  DEF U!Next, U!Update

\* Every reachable state has these types.
LEMMA UpdateTypesHold == U!Spec => []UpdateTypes
<1>1. U!Init => UpdateTypes
  <2> SUFFICES ASSUME U!Init PROVE UpdateTypes OBVIOUS
  <2>1. {TRUE} \subseteq BOOLEAN /\ {FALSE} \subseteq BOOLEAN /\ {0, 1} \subseteq Nat
        /\ {"nobody"} \subseteq {"nobody", "install", "uninstall"}
    OBVIOUS
  <2>2. unit \in Unit BY <2>1, Zenon DEF U!Init, Unit
  <2> QED BY <2>2 DEF U!Init, UpdateTypes, U!Content, U!NoFile, U!Active, U!Ended
<1>2. UpdateTypes /\ [U!Next]_(U!vars) => UpdateTypes' BY UpdateTypesStep
<1> QED BY <1>1, <1>2, PTL DEF U!Spec

\* What is assumed of the constants here (MCLocal: LocalAssumption).
UpdatesFit == MaxRelease \in Nat \ {0} /\ MaxInstalls \in Nat /\ Updater \cap Checker = {}

\* What makes the types inductive: nothing is staged before a release was found,
\* and what is being staged is that release.
Released(u) ==
    /\ pc[u] \in {"idle", "fetched"} => staged[u] = U!NoFile
    /\ pc[u] = "staging" /\ staged[u] # U!NoFile => staged[u].tag = found[u]
    /\ pc[u] \in {"staged", "verified"} => staged[u].tag = found[u]

ReleaseInv == U!TypeOK /\ \A u \in Updater : Released(u)

\* Whoever is in the middle of an update, the files hold releases that were
\* published and the unit runs one of them or nothing; a staged file is of the
\* release its updater found (updateStage).
THEOREM ReleasesHold == ASSUME UpdatesFit PROVE U!Spec => []U!TypeOK
<1> USE DEF U!Tag, U!Content, U!Active, U!Ended, U!NoFile
<1>1. U!Init => ReleaseInv
  <2> SUFFICES ASSUME U!Init PROVE ReleaseInv OBVIOUS
  <2>1. 0 \in U!Tag /\ 1 \in U!Tag BY DEF UpdatesFit
  <2>2. unit \in [installed : BOOLEAN, runs : U!Tag, by : {"nobody", "install", "uninstall"},
                  orphan : BOOLEAN]
    BY <2>1 DEF U!Init
  <2>3. installs \in 0 .. MaxInstalls /\ newest \in 1 .. MaxRelease
    BY DEF U!Init, UpdatesFit
  <2> QED BY <2>1, <2>2, <2>3 DEF U!Init, ReleaseInv, Released, U!TypeOK
<1>2. ASSUME ReleaseInv, [U!Next]_(U!vars) PROVE ReleaseInv'
  <2> USE <1>2 DEF ReleaseInv, Released, U!TypeOK
  <2>0. 1 .. newest \subseteq U!Tag /\ newest \in U!Tag /\ 0 \in U!Tag BY DEF UpdatesFit
  <2>1. CASE U!Publish BY <2>1 DEF U!Publish, U!updating, UpdatesFit
  <2>2. CASE U!Expire BY <2>2 DEF U!Expire, U!updating
  <2>3. CASE U!Respawn BY <2>3 DEF U!Respawn, U!updating
  <2>4. CASE U!Daemon
    <3>1. installs' \in 0 .. MaxInstalls BY <2>4 DEF U!Daemon, U!Install, U!Uninstall, UpdatesFit
    <3>2. CASE U!Install BY <2>4, <3>1, <3>2, <2>0 DEF U!Daemon, U!Install, U!updating
    <3>3. CASE U!Uninstall BY <2>4, <3>1, <3>3, <2>0 DEF U!Daemon, U!Uninstall, U!updating
    <3> QED BY <2>4, <3>2, <3>3 DEF U!Daemon
  <2>5. ASSUME NEW u \in Updater, U!Fetch(u) PROVE ReleaseInv'
    <3>1. found' \in [Updater \cup Checker -> U!Tag] /\ own' \in [Updater -> U!Tag]
      BY <2>0, <2>5 DEF U!Fetch
    <3>2. \A v \in Updater \ {u} : found'[v] = found[v] /\ pc'[v] = pc[v]
      BY <2>5 DEF U!Fetch, U!Goto
    <3>3. pc'[u] \in {"fetched", "staging", "failed"} /\ staged'[u] = U!NoFile
      BY <2>5 DEF U!Fetch, U!Goto
    <3>4. pc' \in [Updater -> U!Active \cup U!Ended] BY <2>5 DEF U!Fetch, U!Goto
    <3> QED BY <2>5, <3>1, <3>2, <3>3, <3>4 DEF U!Fetch
  <2>6. ASSUME NEW u \in Updater, U!CacheWrite(u) PROVE ReleaseInv'
    BY <2>6 DEF U!CacheWrite, U!Goto
  <2>7. ASSUME NEW u \in Updater, U!Decline(u) \/ U!Look(u) \/ U!Kill(u) PROVE ReleaseInv'
    <3>1. CASE U!Decline(u) BY <3>1 DEF U!Decline, U!Goto
    <3>2. CASE U!Look(u) BY <3>2 DEF U!Look, U!Goto
    <3>3. CASE U!Kill(u) BY <3>3 DEF U!Kill, U!Goto
    <3> QED BY <2>7, <3>1, <3>2, <3>3
  <2>8. ASSUME NEW u \in Updater, U!Stage(u) PROVE ReleaseInv'
    BY <2>8 DEF U!Stage
  <2>9. ASSUME NEW u \in Updater, U!Extract(u) PROVE ReleaseInv'
    <3>1. \A content \in U!Content :
             [staged[u] EXCEPT !.content = content] \in [tag : U!Tag, content : U!Content]
      OBVIOUS
    <3>2. U!NoFile \in [tag : U!Tag, content : U!Content] BY <2>0
    <3>3. /\ staged' \in [Updater -> [tag : U!Tag, content : U!Content]]
          /\ pc' \in [Updater -> U!Active \cup U!Ended]
      <4>1. {"bad", "short", "whole"} \subseteq U!Content OBVIOUS
      <4>2. PICK file \in [tag : U!Tag, content : U!Content], to \in {"staged", "failed"} :
               staged' = [staged EXCEPT ![u] = file] /\ pc' = [pc EXCEPT ![u] = to]
        BY <2>9, <3>1, <3>2, <4>1 DEF U!Extract, U!Goto
      <4> QED BY <4>2
    <3>4. \A v \in Updater \ {u} : staged'[v] = staged[v] /\ pc'[v] = pc[v]
      BY <2>9 DEF U!Extract, U!Goto
    <3>5. staged[u] # U!NoFile /\ pc[u] = "staging" BY <2>9 DEF U!Extract
    <3>6. pc'[u] \in {"staged", "failed"} /\ (pc'[u] = "staged" => staged'[u].tag = staged[u].tag)
      BY <2>9 DEF U!Extract, U!Goto
    <3>7. UNCHANGED <<newest, target, own, found, check, cache, unit, installs>>
      BY <2>9 DEF U!Extract
    <3>8. \A v \in Updater : Released(v)' BY <3>4, <3>5, <3>6, <3>7
    <3> QED BY <3>3, <3>7, <3>8
  <2>10. ASSUME NEW u \in Updater, U!Compare(u) PROVE ReleaseInv'
    <3>1. U!NoFile \in [tag : U!Tag, content : U!Content] BY <2>0
    <3>2. /\ staged' \in [Updater -> [tag : U!Tag, content : U!Content]]
          /\ pc' \in [Updater -> U!Active \cup U!Ended]
      BY <2>10, <3>1 DEF U!Compare, U!Goto
    <3>3. \A v \in Updater \ {u} : staged'[v] = staged[v] /\ pc'[v] = pc[v]
      BY <2>10 DEF U!Compare, U!Goto
    <3>4. /\ pc[u] = "staged" /\ pc'[u] \in {"verified", "failed"}
          /\ pc'[u] = "verified" => staged'[u] = staged[u]
      BY <2>10 DEF U!Compare, U!Goto
    <3>5. UNCHANGED <<newest, target, own, found, check, cache, unit, installs>>
      BY <2>10 DEF U!Compare
    <3>6. \A v \in Updater : Released(v)' BY <3>3, <3>4, <3>5
    <3> QED BY <3>2, <3>5, <3>6
  <2>11. ASSUME NEW u \in Updater, U!Replace(u) PROVE ReleaseInv'
    <3>1. U!NoFile \in [tag : U!Tag, content : U!Content] BY <2>0
    <3>2. /\ staged' \in [Updater -> [tag : U!Tag, content : U!Content]]
          /\ pc' \in [Updater -> U!Active \cup U!Ended]
      BY <2>11, <3>1 DEF U!Replace, U!Goto
    <3>3. \A v \in Updater \ {u} : staged'[v] = staged[v] /\ pc'[v] = pc[v]
      BY <2>11 DEF U!Replace, U!Goto
    <3>4. pc'[u] \in {"replaced", "failed", "unmoved"}
      BY <2>11 DEF U!Replace, U!Goto
    <3>5. target' \in [tag : U!Tag, content : U!Content] BY <2>11 DEF U!Replace
    <3> QED BY <2>11, <3>2, <3>3, <3>4, <3>5 DEF U!Replace
  <2>12. ASSUME NEW u \in Updater, U!RestartDaemon(u) PROVE ReleaseInv'
    <3>1. ASSUME NEW tag \in U!Tag, U!Starts(tag)
          PROVE  unit' \in [installed : BOOLEAN, runs : U!Tag,
                            by : {"nobody", "install", "uninstall"}, orphan : BOOLEAN]
      BY <3>1 DEF U!Starts
    <3>2. unit' \in [installed : BOOLEAN, runs : U!Tag,
                     by : {"nobody", "install", "uninstall"}, orphan : BOOLEAN]
      BY <2>0, <2>12, <3>1 DEF U!RestartDaemon
    <3> QED BY <2>12, <3>2 DEF U!RestartDaemon, U!Goto
  <2>13. ASSUME NEW c \in Checker, U!CheckStart(c) \/ U!CheckWrite(c) PROVE ReleaseInv'
    <3>1. [tag |-> found[c], fresh |-> TRUE] \in [tag : U!Tag, fresh : BOOLEAN] OBVIOUS
    <3>2. cache' \in [tag : U!Tag, fresh : BOOLEAN]
      BY <2>13, <3>1, Zenon DEF U!CheckStart, U!CheckWrite
    <3>3. check' \in [Checker -> {"idle", "asking", "fetched", "done"}]
      BY <2>13 DEF U!CheckStart, U!CheckWrite
    <3>4. UNCHANGED <<newest, target, staged, pc, own, found, unit, installs>>
      BY <2>13 DEF U!CheckStart, U!CheckWrite, U!updating
    <3> QED BY <3>2, <3>3, <3>4
  <2>14. ASSUME NEW c \in Checker, U!CheckAsk(c) PROVE ReleaseInv'
    <3>1. \A u \in Updater : found'[u] = found[u] BY <2>14 DEF U!CheckAsk, UpdatesFit
    <3>2. found' \in [Updater \cup Checker -> U!Tag] BY <2>0, <2>14 DEF U!CheckAsk
    <3> QED BY <2>14, <3>1, <3>2 DEF U!CheckAsk, U!updating
  <2>15. CASE UNCHANGED U!vars BY <2>15 DEF U!vars, U!updating
  <2> QED
    BY <2>1, <2>2, <2>3, <2>4, <2>5, <2>6, <2>7, <2>8, <2>9, <2>10, <2>11, <2>12, <2>13,
       <2>14, <2>15
    DEF U!Next, U!Update
<1>3. ReleaseInv => U!TypeOK BY DEF ReleaseInv
<1> QED BY <1>1, <1>2, <1>3, PTL DEF U!Spec

-----------------------------------------------------------------------------
(* The executable *)

Intact == {"short", "whole"}

\* What makes ExecutableIsVerified inductive: a file past its comparison is what
\* the checksum said, and one before it has been read to its end.
StagedInv ==
    /\ U!ExecutableIsVerified
    /\ \A u \in Updater :
          /\ pc[u] = "staged" => staged[u].content \in Intact \cup {"bad"}
          /\ pc[u] = "verified" => staged[u].content \in Intact

\* Every step keeps it.
LEMMA StagedStep == ASSUME UpdateTypes, StagedInv, [U!Next]_(U!vars) PROVE StagedInv'
<1> USE DEF UpdateTypes, StagedInv, U!ExecutableIsVerified, Intact, U!Goto, U!updating
<1>1. CASE U!Publish \/ U!Expire \/ U!Respawn \/ U!Daemon
  BY <1>1 DEF U!Publish, U!Expire, U!Respawn, U!Daemon
<1>2. ASSUME NEW u \in Updater,
             U!Fetch(u) \/ U!CacheWrite(u) \/ U!Decline(u) \/ U!Look(u) \/ U!RestartDaemon(u) \/ U!Kill(u)
      PROVE  StagedInv'
  BY <1>2 DEF U!Fetch, U!CacheWrite, U!Decline, U!Look, U!RestartDaemon, U!Kill
<1>3. ASSUME NEW u \in Updater, U!Stage(u) PROVE StagedInv' BY <1>3 DEF U!Stage
<1>4. ASSUME NEW u \in Updater, U!Extract(u) PROVE StagedInv' BY <1>4 DEF U!Extract
<1>5. ASSUME NEW u \in Updater, U!Compare(u) PROVE StagedInv' BY <1>5 DEF U!Compare
<1>6. ASSUME NEW u \in Updater, U!Replace(u) PROVE StagedInv' BY <1>6 DEF U!Replace
<1>7. ASSUME NEW c \in Checker, U!CheckStart(c) \/ U!CheckAsk(c) \/ U!CheckWrite(c)
      PROVE  StagedInv'
  BY <1>7 DEF U!CheckStart, U!CheckAsk, U!CheckWrite
<1>8. CASE UNCHANGED U!vars BY <1>8 DEF U!vars
<1> QED BY <1>1, <1>2, <1>3, <1>4, <1>5, <1>6, <1>7, <1>8 DEF U!Next, U!Update

\* Whatever fails, whoever is killed and however many update at once, the
\* executable is one whole download whose checksum matched (updateReplace
\* behind updateStage's comparison).
THEOREM ExecutableStaysVerified == U!Spec => []U!ExecutableIsVerified
<1>1. U!Init => StagedInv BY DEF U!Init, StagedInv, U!ExecutableIsVerified
<1>2. UpdateTypes /\ StagedInv /\ [U!Next]_(U!vars) => StagedInv' BY StagedStep
<1>3. StagedInv => U!ExecutableIsVerified BY DEF StagedInv
<1> QED BY <1>1, <1>2, <1>3, UpdateTypesHold, PTL DEF U!Spec

-----------------------------------------------------------------------------
(* The staged file *)

\* What makes FailureLeavesNothing inductive: an update has a staged file only
\* between its creation and the rename, or where it says so.
LeavesInv ==
    \A u \in Updater :
        pc[u] \in {"idle", "fetched", "replaced", "restarting", "done", "failed", "unrestarted"}
            => staged[u] = U!NoFile

\* An update that fails, or ends, leaves no staged file behind, unless it was
\* killed or its chmod failed (updateStage, updateReplace).
THEOREM FailuresLeaveNothing == U!Spec => []U!FailureLeavesNothing
<1>1. U!Init => LeavesInv BY DEF U!Init, LeavesInv
<1>2. UpdateTypes /\ LeavesInv /\ [U!Next]_(U!vars) => LeavesInv'
  <2> SUFFICES ASSUME UpdateTypes, LeavesInv, [U!Next]_(U!vars) PROVE LeavesInv' OBVIOUS
  <2> USE DEF UpdateTypes, LeavesInv, U!Goto, U!updating
  <2>1. CASE U!Publish \/ U!Expire \/ U!Respawn \/ U!Daemon
    BY <2>1 DEF U!Publish, U!Expire, U!Respawn, U!Daemon
  <2>2. ASSUME NEW u \in Updater,
               U!Fetch(u) \/ U!CacheWrite(u) \/ U!Decline(u) \/ U!Look(u) \/ U!RestartDaemon(u) \/ U!Kill(u)
        PROVE  LeavesInv'
    BY <2>2 DEF U!Fetch, U!CacheWrite, U!Decline, U!Look, U!RestartDaemon, U!Kill
  <2>3. ASSUME NEW u \in Updater, U!Stage(u) \/ U!Extract(u) \/ U!Compare(u) \/ U!Replace(u)
        PROVE  LeavesInv'
    BY <2>3 DEF U!Stage, U!Extract, U!Compare, U!Replace
  <2>4. ASSUME NEW c \in Checker, U!CheckStart(c) \/ U!CheckAsk(c) \/ U!CheckWrite(c)
        PROVE  LeavesInv'
    BY <2>4 DEF U!CheckStart, U!CheckAsk, U!CheckWrite
  <2>5. CASE UNCHANGED U!vars BY <2>5 DEF U!vars
  <2> QED BY <2>1, <2>2, <2>3, <2>4, <2>5 DEF U!Next, U!Update
<1>3. LeavesInv => U!FailureLeavesNothing BY DEF LeavesInv, U!FailureLeavesNothing
<1> QED BY <1>1, <1>2, <1>3, UpdateTypesHold, PTL DEF U!Spec

-----------------------------------------------------------------------------
(* The daemon *)

\* An update that has replaced the executable and has yet to restart the
\* daemon, or that will not.
Owes(u) == pc[u] \in {"replaced", "restarting", "unrestarted", "killed"}

\* What makes DaemonRunsTarget inductive: a daemon that does not run the
\* executable has an update that owes it a restart, or has no unit; and one
\* without a unit outlived it.
UnitInv ==
    /\ unit.runs # 0 /\ ~unit.orphan =>
          unit.runs = target.tag \/ \E u \in Updater : Owes(u)
    /\ unit.runs # 0 /\ ~unit.installed => unit.orphan
    /\ unit.by = "install" => unit.installed

\* Every step keeps it.
LEMMA UnitStep == ASSUME UpdateTypes, UnitInv, [U!Next]_(U!vars) PROVE UnitInv'
<1> USE DEF UpdateTypes, UnitInv, Owes, U!Goto, U!updating
<1>1. CASE U!Publish BY <1>1 DEF U!Publish
<1>2. CASE U!Expire BY <1>2 DEF U!Expire
<1>3. CASE U!Respawn BY <1>3 DEF U!Respawn
<1>4. CASE U!Daemon
  <2>1. UNCHANGED <<target, pc>> BY <1>4 DEF U!Daemon
  <2>2. CASE U!Install BY <2>1, <2>2 DEF U!Install, Unit
  <2>3. CASE U!Uninstall BY <2>1, <2>3 DEF U!Uninstall, Unit
  <2> QED BY <1>4, <2>2, <2>3 DEF U!Daemon
<1>5. ASSUME NEW u \in Updater,
             U!Fetch(u) \/ U!CacheWrite(u) \/ U!Decline(u) \/ U!Stage(u) \/ U!Extract(u) \/ U!Compare(u)
      PROVE  UnitInv'
  <2>1. UNCHANGED <<target, unit>> /\ \A v \in Updater : Owes(v) => Owes(v)'
    BY <1>5 DEF U!Fetch, U!CacheWrite, U!Decline, U!Stage, U!Extract, U!Compare
  <2> QED BY <2>1
<1>6. ASSUME NEW u \in Updater, U!Replace(u) PROVE UnitInv'
  <2>1. UNCHANGED unit /\ \A v \in Updater : Owes(v) => Owes(v)' BY <1>6 DEF U!Replace
  <2>2. UNCHANGED target \/ Owes(u)' BY <1>6 DEF U!Replace
  <2> QED BY <2>1, <2>2
<1>7. ASSUME NEW u \in Updater, U!Look(u) PROVE UnitInv'
  <2>1. UNCHANGED <<target, unit>> /\ \A v \in Updater \ {u} : Owes(v) => Owes(v)'
    BY <1>7 DEF U!Look
  <2>2. Owes(u)' \/ ~unit.installed BY <1>7 DEF U!Look
  <2> QED BY <2>1, <2>2
<1>8. ASSUME NEW u \in Updater, U!RestartDaemon(u) PROVE UnitInv'
  <2>1. UNCHANGED target /\ \A v \in Updater \ {u} : Owes(v) => Owes(v)'
    BY <1>8 DEF U!RestartDaemon
  <2>2. CASE unit.installed /\ U!Starts(target.tag)
    <3>1. unit'.runs = target.tag /\ unit'.installed BY <2>2 DEF U!Starts
    <3> QED BY <2>1, <3>1
  <2>3. CASE Owes(u)' /\ UNCHANGED unit BY <2>1, <2>3
  <2>4. CASE Owes(u)' /\ unit.installed /\ \E tag \in {0, target.tag} : U!Starts(tag)
    <3>1. unit'.installed BY <2>4 DEF U!Starts
    <3> QED BY <2>4, <3>1
  <2> QED BY <1>8, <2>2, <2>3, <2>4 DEF U!RestartDaemon
<1>9. ASSUME NEW u \in Updater, U!Kill(u) PROVE UnitInv'
  <2>1. UNCHANGED <<target, unit>> /\ \A v \in Updater : Owes(v) => Owes(v)'
    BY <1>9 DEF U!Kill
  <2> QED BY <2>1
<1>10. ASSUME NEW c \in Checker, U!CheckStart(c) \/ U!CheckAsk(c) \/ U!CheckWrite(c)
       PROVE  UnitInv'
  BY <1>10 DEF U!CheckStart, U!CheckAsk, U!CheckWrite
<1>11. CASE UNCHANGED U!vars BY <1>11 DEF U!vars
<1> QED
  BY <1>1, <1>2, <1>3, <1>4, <1>5, <1>6, <1>7, <1>8, <1>9, <1>10, <1>11 DEF U!Next, U!Update

\* Once every update has ended, and restarted the daemon when it had to, an
\* installed daemon that runs, and was not started before its unit was removed,
\* runs the executable on the disk (daemonInstalled, daemonRestart).
THEOREM DaemonEndsOnTarget == U!Spec => []U!DaemonRunsTarget
<1>1. U!Init => UnitInv
  <2> SUFFICES ASSUME U!Init PROVE UnitInv OBVIOUS
  <2>1. unit.installed = TRUE /\ unit.runs \in {0, 1} BY Zenon DEF U!Init
  <2>2. target.tag = 1 BY DEF U!Init
  <2> QED BY <2>1, <2>2 DEF UnitInv
<1>2. UpdateTypes /\ UnitInv /\ [U!Next]_(U!vars) => UnitInv' BY UnitStep
<1>3. UnitInv => U!DaemonRunsTarget BY DEF UnitInv, U!DaemonRunsTarget, Owes
<1> QED BY <1>1, <1>2, <1>3, UpdateTypesHold, PTL DEF U!Spec

-----------------------------------------------------------------------------
(* The requests to pair that the server takes in *)

CONSTANTS Peer, MaxAttempts, MaxPending, RateLimit, RateWindow, Lifetime, MaxTime

VARIABLES now, rates, peer, at, allowedAt, expiresAt, peak

Q == INSTANCE PairingIntake

\* What is assumed of the constants (MCLocal: LocalAssumption).
LimitsFit ==
    /\ MaxAttempts \in Nat /\ MaxPending \in Nat /\ Lifetime \in Nat /\ MaxTime \in Nat
    /\ RateLimit \in Nat \ {0} /\ RateWindow \in Nat \ {0}

\* The instance has its own letter for the size of a set.
LEMMA CountsAsWell == ASSUME NEW S PROVE Q!Cardinality(S) = Cardinality(S)
BY Zenon DEF Q!Cardinality, Cardinality

\* Sets of calls are finite and no larger than those they lie in.
LEMMA CallsAreCounted ==
    ASSUME LimitsFit
    PROVE  /\ \A S \in SUBSET Q!Attempt : IsFiniteSet(S) /\ Cardinality(S) \in 0 .. MaxAttempts
           /\ \A S, T \in SUBSET Q!Attempt : S \subseteq T => Cardinality(S) <= Cardinality(T)
           /\ \A S, T \in SUBSET Q!Attempt :
                 Cardinality(S \cup T) <= Cardinality(S) + Cardinality(T)
           /\ \A S, T \in SUBSET Q!Attempt, r \in Q!Attempt :
                 T \subseteq S \cup {r} => Cardinality(T) <= Cardinality(S) + 1
           /\ \A S, T \in SUBSET Q!Attempt : \A r \in S :
                 T \subseteq S \ {r} => Cardinality(T) <= Cardinality(S) - 1
<1>1. IsFiniteSet(Q!Attempt) /\ Cardinality(Q!Attempt) = MaxAttempts
  <2>1. 1 \in Int /\ MaxAttempts \in Int BY DEF LimitsFit
  <2>2. IsFiniteSet(1 .. MaxAttempts)
        /\ Cardinality(1 .. MaxAttempts) = IF 1 > MaxAttempts THEN 0 ELSE MaxAttempts - 1 + 1
    BY <2>1, FS_Interval, Zenon
  <2> QED BY <2>2 DEF Q!Attempt, LimitsFit
<1>2. \A S \in SUBSET Q!Attempt : IsFiniteSet(S) BY <1>1, FS_Subset, Zenon
<1>3. \A S \in SUBSET Q!Attempt : Cardinality(S) \in Nat BY <1>2, FS_CardinalityType, Zenon
<1>4. \A S, T \in SUBSET Q!Attempt : S \subseteq T => Cardinality(S) <= Cardinality(T)
  BY <1>2, FS_Subset, Zenon
<1>5. \A S \in SUBSET Q!Attempt : Cardinality(S) \in 0 .. MaxAttempts
  BY <1>1, <1>3, <1>4 DEF LimitsFit
<1>6. ASSUME NEW S \in SUBSET Q!Attempt, NEW T \in SUBSET Q!Attempt
      PROVE  Cardinality(S \cup T) <= Cardinality(S) + Cardinality(T)
  <2>1. Cardinality(S \cup T) = Cardinality(S) + Cardinality(T) - Cardinality(S \cap T)
    BY <1>2, FS_Union, Zenon
  <2>2. S \cap T \in SUBSET Q!Attempt OBVIOUS
  <2>3. Cardinality(S) \in Nat /\ Cardinality(T) \in Nat /\ Cardinality(S \cap T) \in Nat
    BY <1>3, <2>2
  <2> QED BY <2>1, <2>3
<1>7. ASSUME NEW S \in SUBSET Q!Attempt, NEW T \in SUBSET Q!Attempt, NEW r \in Q!Attempt,
             T \subseteq S \cup {r}
      PROVE  Cardinality(T) <= Cardinality(S) + 1
  <2>1. S \cup {r} \in SUBSET Q!Attempt OBVIOUS
  <2>2. Cardinality(T) <= Cardinality(S \cup {r}) BY <1>4, <1>7, <2>1
  <2>3. Cardinality(S \cup {r}) = IF r \in S THEN Cardinality(S) ELSE Cardinality(S) + 1
    BY <1>2, FS_AddElement, Zenon
  <2>4. Cardinality(S) \in Nat /\ Cardinality(T) \in Nat BY <1>3
  <2> QED BY <2>2, <2>3, <2>4
<1>8. ASSUME NEW S \in SUBSET Q!Attempt, NEW T \in SUBSET Q!Attempt, NEW r \in S,
             T \subseteq S \ {r}
      PROVE  Cardinality(T) <= Cardinality(S) - 1
  <2>1. S \ {r} \in SUBSET Q!Attempt OBVIOUS
  <2>2. Cardinality(T) <= Cardinality(S \ {r}) BY <1>4, <1>8, <2>1
  <2>3. Cardinality(S \ {r}) = IF r \in S THEN Cardinality(S) - 1 ELSE Cardinality(S)
    BY <1>2, FS_RemoveElement, Zenon
  <2> QED BY <2>2, <2>3
<1> QED BY <1>2, <1>4, <1>5, <1>6, <1>7, <1>8

\* The calls of p that passed the limit in a time.
Passed(f, p, times) == {r \in Q!Attempt : peer[r] = p /\ f[r] \in times}

\* What a window tells of the calls of its host: it began with one of them, none
\* is behind its end, it has counted those since, and those of a window's length
\* before it were not all of one.
WindowFits(rate, p, f) ==
    /\ rate.started = Q!Never => Passed(f, p, Nat) = {}
    /\ rate.started # Q!Never =>
          /\ Passed(f, p, {rate.started}) # {}
          /\ \A r \in Passed(f, p, Nat) : f[r] < rate.started + RateWindow
          /\ Cardinality(Passed(f, p, {i \in Nat : i >= rate.started})) <= rate.count
          /\ Cardinality(Passed(f, p, {i \in Nat :
                i < rate.started /\ i > rate.started - RateWindow})) <= RateLimit - 1

\* Each host has its window, and no call passed later than now.
RatesKept ==
    /\ \A p \in Peer : rates[p].started <= now /\ WindowFits(rates[p], p, allowedAt)
    /\ \A r \in Q!Attempt : allowedAt[r] <= now /\ (at[r] = "new" => allowedAt[r] = Q!Never)

\* Who counted has been counted in the most there were.
PendingKept == Cardinality(Q!In("counted")) <= peak

\* What makes the limits inductive.
IntakeKept == Q!IntakeInv /\ RatesKept /\ PendingKept

Rate == [started : {Q!Never} \cup 0 .. MaxTime, count : 0 .. RateLimit]

PassedNow(f, r) == [f EXCEPT ![r] = now]
OneMore(rate) == [rate EXCEPT !.count = @ + 1]

\* A call that passes the limit is counted in the window that is open, or
\* begins one.
LEMMA WindowCounts ==
    ASSUME LimitsFit, NEW p \in Peer, NEW r \in Q!Attempt, peer[r] = p,
           NEW f \in [Q!Attempt -> {Q!Never} \cup 0 .. MaxTime],
           NEW g, g = PassedNow(f, r),
           now \in 0 .. MaxTime, f[r] = Q!Never, \A q \in Q!Attempt : f[q] <= now,
           NEW rate \in Rate, rate.started <= now, WindowFits(rate, p, f),
           NEW open, open = Q!Current(rate), open.count < RateLimit,
           NEW next, next = OneMore(open),
           \A t \in 0 .. MaxTime :
              Cardinality(Passed(f, p, t .. t + RateWindow - 1)) < 2 * RateLimit
    PROVE  /\ next \in Rate /\ next.started <= now
           /\ WindowFits(next, p, g)
           /\ \A t \in 0 .. MaxTime :
                 Cardinality(Passed(g, p, t .. t + RateWindow - 1)) < 2 * RateLimit
<1>1. /\ RateLimit \in Nat /\ RateLimit > 0 /\ RateWindow \in Nat /\ RateWindow > 0
      /\ MaxTime \in Nat /\ now \in Nat /\ Q!Never = -1
  BY DEF LimitsFit, Q!Never
<1>2. /\ rate.started \in {-1} \cup 0 .. MaxTime /\ rate.count \in 0 .. RateLimit
      /\ open \in Rate
      /\ rate.started = -1 \/ now - rate.started >= RateWindow =>
            open.started = now /\ open.count = 0
      /\ ~(rate.started = -1 \/ now - rate.started >= RateWindow) => open = rate
  BY <1>1 DEF Rate, Q!Current
<1>3. next \in Rate /\ next.started = open.started /\ next.count = open.count + 1
  <2>1. open.count \in 0 .. RateLimit /\ open.started \in {Q!Never} \cup 0 .. MaxTime
    BY <1>2 DEF Rate
  <2>2. open.count + 1 \in 0 .. RateLimit BY <1>1, <2>1
  <2>3. next = [started |-> open.started, count |-> open.count + 1] BY <1>2 DEF Rate, OneMore
  <2> QED BY <2>1, <2>2, <2>3 DEF Rate
<1>4. /\ g[r] = now /\ \A q \in Q!Attempt \ {r} : g[q] = f[q]
      /\ \A q \in Q!Attempt : f[q] \in {-1} \cup 0 .. MaxTime /\ g[q] \in {-1} \cup 0 .. MaxTime
  BY <1>1 DEF PassedNow
<1>5. /\ \A T : Passed(f, p, T) \in SUBSET Q!Attempt /\ Passed(g, p, T) \in SUBSET Q!Attempt
      /\ \A T : Passed(g, p, T) \subseteq Passed(f, p, T) \cup {r}
      /\ \A T : now \notin T => Passed(g, p, T) \subseteq Passed(f, p, T)
      /\ \A T : now \in T => r \in Passed(g, p, T)
  BY <1>4 DEF Passed
<1>6. \A T : Cardinality(Passed(f, p, T)) \in Nat /\ Cardinality(Passed(g, p, T)) \in Nat
  <2>1. \A S \in SUBSET Q!Attempt : Cardinality(S) \in 0 .. MaxAttempts BY CallsAreCounted
  <2>2. \A S \in SUBSET Q!Attempt : Cardinality(S) \in Nat BY <2>1 DEF LimitsFit
  <2> QED BY <1>5, <2>2, Zenon
<1>7. \A T : /\ Cardinality(Passed(g, p, T)) <= Cardinality(Passed(f, p, T)) + 1
             /\ now \notin T => Cardinality(Passed(g, p, T)) <= Cardinality(Passed(f, p, T))
  BY <1>5, CallsAreCounted
<1> DEFINE since == {i \in Nat : i >= next.started}
           just == {i \in Nat : i < next.started /\ i > next.started - RateWindow}
<1>8. next.started <= now /\ next.started \in Nat BY <1>1, <1>2, <1>3
<1>9. now - next.started < RateWindow BY <1>1, <1>2, <1>3
<1>10. /\ Passed(g, p, {next.started}) # {}
       /\ \A q \in Passed(g, p, Nat) : g[q] < next.started + RateWindow
       /\ Cardinality(Passed(g, p, since)) <= next.count
       /\ Cardinality(Passed(g, p, just)) <= RateLimit - 1
  <2>1. CASE open = rate /\ rate.started # -1
    <3>1. next.started = rate.started BY <1>3, <2>1
    <3>2. \E q \in Passed(f, p, {rate.started}) : q # r
      <4>1. PICK q \in Passed(f, p, {rate.started}) : TRUE BY <1>1, <2>1 DEF WindowFits
      <4> QED BY <1>1, <2>1, <4>1 DEF Passed
    <3>3. Passed(g, p, {next.started}) # {} BY <1>4, <3>1, <3>2 DEF Passed
    <3>4. ASSUME NEW q \in Passed(g, p, Nat) PROVE g[q] < next.started + RateWindow
      <4>1. CASE q = r BY <1>1, <1>4, <1>8, <1>9, <4>1
      <4>2. CASE q # r
        <5>1. q \in Passed(f, p, Nat) /\ g[q] = f[q] BY <1>4, <4>2 DEF Passed
        <5> QED BY <1>1, <2>1, <3>1, <5>1 DEF WindowFits
      <4> QED BY <4>1, <4>2
    <3>5. Cardinality(Passed(f, p, since)) <= rate.count BY <1>1, <2>1, <3>1 DEF WindowFits
    <3>6. Cardinality(Passed(f, p, just)) <= RateLimit - 1 BY <1>1, <2>1, <3>1 DEF WindowFits
    <3>7. now \notin just BY <1>1, <1>8
    <3> HIDE DEF since, just
    <3>8. Cardinality(Passed(g, p, since)) <= next.count
      <4>1. Cardinality(Passed(g, p, since)) <= Cardinality(Passed(f, p, since)) + 1
        BY <1>7, Zenon
      <4>2. Cardinality(Passed(g, p, since)) \in Nat /\ Cardinality(Passed(f, p, since)) \in Nat
        BY <1>6, Zenon
      <4> QED BY <1>1, <1>2, <1>3, <2>1, <3>5, <4>1, <4>2
    <3>9. Cardinality(Passed(g, p, just)) <= RateLimit - 1
      <4>1. Cardinality(Passed(g, p, just)) <= Cardinality(Passed(f, p, just))
        BY <1>7, <3>7, Zenon
      <4>2. Cardinality(Passed(g, p, just)) \in Nat /\ Cardinality(Passed(f, p, just)) \in Nat
        BY <1>6, Zenon
      <4> QED BY <1>1, <3>6, <4>1, <4>2
    <3> QED BY <3>3, <3>4, <3>8, <3>9
  <2>2. CASE rate.started = -1 \/ now - rate.started >= RateWindow
    <3>1. open.started = now /\ open.count = 0 BY <1>2, <2>2
    <3>2. next.started = now /\ next.count = 1 BY <1>3, <3>1
    <3>3. Passed(g, p, {next.started}) # {} BY <1>5, <3>2
    <3>4. \A q \in Passed(g, p, Nat) : g[q] < next.started + RateWindow
      BY <1>1, <1>4, <3>2 DEF Passed
    <3>5. Passed(f, p, since) = {}
      <4>1. CASE rate.started = -1
        <5>1. Passed(f, p, Nat) = {} BY <1>1, <4>1 DEF WindowFits
        <5> QED BY <5>1 DEF Passed
      <4>2. CASE rate.started # -1
        <5>1. \A q \in Passed(f, p, Nat) : f[q] < rate.started + RateWindow
          BY <1>1, <4>2 DEF WindowFits
        <5>2. ASSUME NEW q \in Passed(f, p, since) PROVE FALSE
          <6>1. q \in Passed(f, p, Nat) /\ f[q] >= now /\ f[q] \in Nat BY <3>2 DEF Passed
          <6>2. f[q] < rate.started + RateWindow BY <5>1, <6>1
          <6> QED BY <1>1, <1>2, <2>2, <4>2, <6>1, <6>2
        <5> QED BY <5>2
      <4> QED BY <4>1, <4>2
    <3>6. Passed(g, p, since) \subseteq {} \cup {r} BY <1>5, <3>5
    <3>7. Cardinality(Passed(g, p, since)) <= 1
      <4>1. Cardinality(Passed(g, p, since)) <= Cardinality({}) + 1
        BY <1>5, <3>6, CallsAreCounted
      <4>2. Cardinality({}) = 0 BY FS_EmptySet
      <4> QED BY <4>1, <4>2
    <3>8. now \notin just BY <1>1, <3>2
    <3>9. Cardinality(Passed(f, p, just)) <= RateLimit - 1
      <4>1. CASE rate.started = -1
        <5>1. Passed(f, p, Nat) = {} BY <1>1, <4>1 DEF WindowFits
        <5>2. Passed(f, p, just) = {} BY <5>1 DEF Passed
        <5>3. Cardinality({}) = 0 BY FS_EmptySet
        <5> HIDE DEF just
        <5>4. Cardinality(Passed(f, p, just)) = 0 BY <5>2, <5>3
        <5> QED BY <1>1, <5>4
      <4>2. CASE rate.started # -1
        <5> DEFINE whole == Passed(f, p, {i \in Nat : i >= rate.started})
        <5>1. PICK q \in Passed(f, p, {rate.started}) : TRUE BY <1>1, <4>2 DEF WindowFits
        <5>2. q \in whole BY <1>1, <1>2, <4>2, <5>1 DEF Passed
        <5>3. Passed(f, p, just) \subseteq whole \ {q}
          BY <1>1, <1>2, <2>2, <3>2, <4>2, <5>1 DEF Passed
        <5>4. Cardinality(whole) <= rate.count BY <1>1, <4>2 DEF WindowFits
        <5>5. whole \in SUBSET Q!Attempt /\ Cardinality(whole) \in Nat BY <1>5, <1>6
        <5> HIDE DEF whole, just
        <5>6. Cardinality(Passed(f, p, just)) <= Cardinality(whole) - 1
          BY <1>5, <5>2, <5>3, <5>5, CallsAreCounted
        <5> QED BY <1>1, <1>2, <1>6, <5>4, <5>5, <5>6
      <4> QED BY <4>1, <4>2
    <3> HIDE DEF since, just
    <3>10. Cardinality(Passed(g, p, just)) <= RateLimit - 1
      <4>1. Cardinality(Passed(g, p, just)) <= Cardinality(Passed(f, p, just))
        BY <1>7, <3>8, Zenon
      <4>2. Cardinality(Passed(g, p, just)) \in Nat /\ Cardinality(Passed(f, p, just)) \in Nat
        BY <1>6, Zenon
      <4> QED BY <1>1, <3>9, <4>1, <4>2
    <3> QED BY <3>2, <3>3, <3>4, <3>7, <3>10
  <2> QED BY <1>2, <2>1, <2>2
<1>11. WindowFits(next, p, g)
  <2>1. next.started # Q!Never BY <1>1, <1>8
  <2> QED BY <1>10, <2>1, Zenon DEF WindowFits
<1>12. ASSUME NEW t \in 0 .. MaxTime
       PROVE  Cardinality(Passed(g, p, t .. t + RateWindow - 1)) < 2 * RateLimit
  <2> DEFINE all == t .. t + RateWindow - 1
  <2>1. CASE now \notin all
    <3>1. Cardinality(Passed(f, p, all)) < 2 * RateLimit OBVIOUS
    <3> HIDE DEF all
    <3>2. Cardinality(Passed(g, p, all)) <= Cardinality(Passed(f, p, all))
      BY <1>7, <2>1, Zenon
    <3>3. Cardinality(Passed(g, p, all)) \in Nat /\ Cardinality(Passed(f, p, all)) \in Nat
      BY <1>6, Zenon
    <3>4. Cardinality(Passed(g, p, all)) < 2 * RateLimit BY <1>1, <3>1, <3>2, <3>3
    <3> QED BY <3>4 DEF all
  <2>2. CASE now \in all
    <3>1. t \in Nat /\ t > now - RateWindow BY <1>1, <2>2
    <3>2. Passed(g, p, all) \subseteq Passed(g, p, just) \cup Passed(g, p, since)
      BY <1>1, <1>8, <3>1 DEF Passed
    <3>3. next.count <= RateLimit /\ next.count \in Nat BY <1>1, <1>3 DEF Rate
    <3> HIDE DEF all, since, just
    <3>4. Passed(g, p, just) \cup Passed(g, p, since) \in SUBSET Q!Attempt BY <1>5
    <3>5. /\ Cardinality(Passed(g, p, all))
               <= Cardinality(Passed(g, p, just) \cup Passed(g, p, since))
          /\ Cardinality(Passed(g, p, just) \cup Passed(g, p, since))
               <= Cardinality(Passed(g, p, just)) + Cardinality(Passed(g, p, since))
      BY <1>5, <3>2, <3>4, CallsAreCounted
    <3>6. Cardinality(Passed(g, p, just) \cup Passed(g, p, since)) \in Nat
      <4>1. \A S \in SUBSET Q!Attempt : Cardinality(S) \in 0 .. MaxAttempts BY CallsAreCounted
      <4>2. \A S \in SUBSET Q!Attempt : Cardinality(S) \in Nat BY <4>1 DEF LimitsFit
      <4> QED BY <3>4, <4>2, Zenon
    <3>7. /\ Cardinality(Passed(g, p, just)) <= RateLimit - 1
          /\ Cardinality(Passed(g, p, since)) <= next.count
      BY <1>10, Zenon DEF since, just
    <3>8. /\ Cardinality(Passed(g, p, all)) \in Nat /\ Cardinality(Passed(g, p, just)) \in Nat
          /\ Cardinality(Passed(g, p, since)) \in Nat
      BY <1>6, Zenon
    <3>9. Cardinality(Passed(g, p, all)) < 2 * RateLimit
      BY <1>1, <3>3, <3>5, <3>6, <3>7, <3>8
    <3> QED BY <3>9 DEF all
  <2> QED BY <2>1, <2>2
<1> QED BY <1>3, <1>8, <1>11, <1>12

Places == {"new", "allowed", "swept", "counted", "waiting", "over", "refused"}

\* A step that lets no call past the limit.
LEMMA RatesElsewhere ==
    ASSUME IntakeKept, UNCHANGED <<rates, peer, allowedAt>>, now <= now', now' \in Int,
           \A r \in Q!Attempt : at'[r] = "new" => at[r] = "new"
    PROVE  RatesKept' /\ Q!RateLimited'
<1>1. now \in Int /\ Q!RateLimited BY DEF IntakeKept, Q!IntakeInv, Q!TypeOK
<1>2. Q!RateLimited' BY <1>1 DEF Q!RateLimited
<1>3. /\ \A p \in Peer : rates[p].started \in Int
      /\ \A r \in Q!Attempt : allowedAt[r] \in Int
  BY DEF IntakeKept, Q!IntakeInv, Q!TypeOK, Q!Never
<1>4. \A p : WindowFits(rates[p], p, allowedAt)' <=> WindowFits(rates[p], p, allowedAt)
  BY DEF WindowFits, Passed
<1>5. \A p \in Peer : rates[p].started <= now /\ WindowFits(rates[p], p, allowedAt)
  BY DEF IntakeKept, RatesKept
<1>6. \A r \in Q!Attempt : allowedAt[r] <= now /\ (at[r] = "new" => allowedAt[r] = Q!Never)
  BY DEF IntakeKept, RatesKept
<1>7. \A p \in Peer : rates'[p].started <= now' BY <1>1, <1>3, <1>5
<1>8. \A r \in Q!Attempt : allowedAt'[r] <= now' /\ (at'[r] = "new" => allowedAt'[r] = Q!Never)
  BY <1>1, <1>3, <1>6
<1>9. RatesKept' BY <1>4, <1>5, <1>7, <1>8 DEF RatesKept
<1> QED BY <1>2, <1>9

\* A step after which no more wait or are counted.
LEMMA PendingElsewhere ==
    ASSUME LimitsFit, IntakeKept, UNCHANGED peak,
           Q!In("counted")' \subseteq Q!In("counted"),
           Q!In("waiting")' \subseteq Q!In("waiting") \cup Q!In("counted")
    PROVE  PendingKept' /\ Q!PendingLimited'
<1>1. /\ Q!In("counted") \in SUBSET Q!Attempt /\ Q!In("waiting") \in SUBSET Q!Attempt
      /\ Q!In("counted")' \in SUBSET Q!Attempt /\ Q!In("waiting")' \in SUBSET Q!Attempt
  BY DEF Q!In
<1> DEFINE both == Q!In("waiting") \cup Q!In("counted")
<1>2. Cardinality(Q!In("counted")') <= Cardinality(Q!In("counted")) BY <1>1, CallsAreCounted
<1>3. both' \subseteq both /\ both' \in SUBSET Q!Attempt /\ both \in SUBSET Q!Attempt BY <1>1
<1> HIDE DEF both
<1>4. Cardinality(both') <= Cardinality(both) BY <1>3, CallsAreCounted
<1>5. /\ Cardinality(Q!In("counted")) \in Nat /\ Cardinality(Q!In("counted")') \in Nat
      /\ Cardinality(both) \in Nat /\ Cardinality(both') \in Nat
  <2>1. \A S \in SUBSET Q!Attempt : Cardinality(S) \in 0 .. MaxAttempts BY CallsAreCounted
  <2>2. \A S \in SUBSET Q!Attempt : Cardinality(S) \in Nat BY <2>1 DEF LimitsFit
  <2> QED BY <1>1, <1>3, <2>2
<1>6. peak \in Nat /\ MaxPending \in Nat
  BY DEF LimitsFit, IntakeKept, Q!IntakeInv, Q!TypeOK
<1>7. PendingKept' BY <1>2, <1>5, <1>6 DEF PendingKept, IntakeKept
<1>8. peak > 0 => Cardinality(both) <= MaxPending - 1 + peak
  BY CountsAsWell DEF both, IntakeKept, Q!IntakeInv, Q!PendingLimited
<1>9. peak' > 0 => Cardinality(both') <= MaxPending - 1 + peak' BY <1>4, <1>5, <1>6, <1>8
<1>10. Q!PendingLimited' BY <1>9, CountsAsWell DEF both, Q!PendingLimited
<1> QED BY <1>7, <1>10

\* allowPairing lets a call past the limit of its host, or not.
LEMMA AllowKeeps ==
    ASSUME LimitsFit, IntakeKept, NEW r \in Q!Attempt, Q!Allow(r) PROVE IntakeKept'
<1> DEFINE p == peer[r]
<1>0. PICK open : open = Q!Current(rates[p]) OBVIOUS
<1>1. /\ at[r] = "new"
      /\ IF open.count >= RateLimit
         THEN /\ rates' = [rates EXCEPT ![p] = open]
              /\ at' = [at EXCEPT ![r] = "refused"]
              /\ UNCHANGED allowedAt
         ELSE /\ rates' = [rates EXCEPT ![p] = [open EXCEPT !.count = @ + 1]]
              /\ at' = [at EXCEPT ![r] = "allowed"]
              /\ allowedAt' = [allowedAt EXCEPT ![r] = now]
      /\ UNCHANGED <<now, peer, expiresAt, peak>>
  BY <1>0 DEF Q!Allow
<1>2. /\ now \in 0 .. MaxTime /\ rates \in [Peer -> Rate] /\ peer \in [Q!Attempt -> Peer]
      /\ at \in [Q!Attempt -> Places]
      /\ allowedAt \in [Q!Attempt -> {Q!Never} \cup 0 .. MaxTime]
      /\ p \in Peer /\ rates[p] \in Rate
  BY DEF IntakeKept, Q!IntakeInv, Q!TypeOK, Rate, Places
<1>3. /\ \A q \in Peer : rates[q].started <= now /\ WindowFits(rates[q], q, allowedAt)
      /\ \A q \in Q!Attempt : allowedAt[q] <= now
      /\ allowedAt[r] = Q!Never
  BY <1>1 DEF IntakeKept, RatesKept
<1>4. Q!In("counted")' = Q!In("counted") /\ Q!In("waiting")' = Q!In("waiting")
  BY <1>1, <1>2 DEF Q!In
<1>5. PendingKept' /\ Q!PendingLimited' BY <1>1, <1>4, PendingElsewhere
<1>6. at' \in [Q!Attempt -> Places] BY <1>1, <1>2 DEF Places
<1>7. CASE open.count >= RateLimit
  <2>1. open = rates[p]
    <3>1. 0 < RateLimit /\ RateLimit \in Nat BY DEF LimitsFit
    <3>2. ~(rates[p].started = Q!Never \/ now - rates[p].started >= RateWindow)
      BY <1>0, <1>7, <3>1 DEF Q!Current
    <3> QED BY <1>0, <3>2 DEF Q!Current
  <2>2. rates' = rates BY <1>1, <1>2, <1>7, <2>1
  <2>3. \A q \in Q!Attempt : at'[q] = "new" => at[q] = "new" BY <1>1, <1>2, <1>7
  <2>4. now <= now' /\ now' \in Int BY <1>1, <1>2
  <2>5. RatesKept' /\ Q!RateLimited' BY <1>1, <1>7, <2>2, <2>3, <2>4, RatesElsewhere
  <2>6. Q!TypeOK' BY <1>1, <1>6, <1>7, <2>2 DEF IntakeKept, Q!IntakeInv, Q!TypeOK, Places
  <2> QED BY <1>5, <2>5, <2>6 DEF IntakeKept, Q!IntakeInv
<1>8. CASE ~(open.count >= RateLimit)
  <2>1. PICK next : next = OneMore(open) OBVIOUS
  <2>2. PICK g : g = PassedNow(allowedAt, r) OBVIOUS
  <2>3. rates' = [rates EXCEPT ![p] = next] /\ allowedAt' = g
    BY <1>1, <1>8, <2>1, <2>2 DEF PassedNow, OneMore
  <2>4. open.count < RateLimit
    <3>1. open.count \in Int /\ RateLimit \in Int BY <1>0, <1>2 DEF Q!Current, Rate, LimitsFit
    <3> QED BY <1>8, <3>1
  <2>5. \A q \in Peer, t \in 0 .. MaxTime :
           Cardinality(Passed(allowedAt, q, t .. t + RateWindow - 1)) < 2 * RateLimit
    BY CountsAsWell DEF IntakeKept, Q!IntakeInv, Q!RateLimited, Passed
  <2>6. /\ next \in Rate /\ next.started <= now /\ WindowFits(next, p, g)
        /\ \A t \in 0 .. MaxTime :
              Cardinality(Passed(g, p, t .. t + RateWindow - 1)) < 2 * RateLimit
    <3> HIDE DEF p
    <3> QED BY <1>0, <1>2, <1>3, <2>1, <2>2, <2>4, <2>5, WindowCounts DEF p
  <2>7. g \in [Q!Attempt -> {Q!Never} \cup 0 .. MaxTime] BY <1>2, <2>2 DEF PassedNow
  <2>8. \A q \in Peer : q # p => \A times : Passed(g, q, times) = Passed(allowedAt, q, times)
    BY <1>2, <2>2 DEF Passed, PassedNow
  <2>9. rates' \in [Peer -> Rate] /\ \A q \in Peer : rates'[q] = IF q = p THEN next ELSE rates[q]
    BY <1>2, <2>3, <2>6
  <2>10. ASSUME NEW q \in Peer
         PROVE  /\ rates'[q].started <= now /\ WindowFits(rates'[q], q, g)
                /\ \A t \in 0 .. MaxTime :
                      Cardinality(Passed(g, q, t .. t + RateWindow - 1)) < 2 * RateLimit
    <3>1. CASE q = p BY <2>6, <2>9, <3>1
    <3>2. CASE q # p
      <4>1. rates'[q] = rates[q] BY <2>9, <3>2
      <4>2. WindowFits(rates[q], q, g)
        <5>1. \A times : Passed(g, q, times) = Passed(allowedAt, q, times) BY <2>8, <3>2
        <5>2. WindowFits(rates[q], q, allowedAt) BY <1>3
        <5>3. \A s \in Passed(g, q, Nat) : g[s] = allowedAt[s] BY <1>2, <2>2, <3>2 DEF Passed, PassedNow
        <5> QED BY <5>1, <5>2, <5>3 DEF WindowFits
      <4> QED BY <1>3, <2>5, <2>8, <3>2, <4>1, <4>2
    <3> QED BY <3>1, <3>2
  <2>11. Q!RateLimited'
    <3>1. \A q \in Peer : \A times :
             Passed(g, q, times) = {s \in Q!Attempt : peer'[s] = q /\ allowedAt'[s] \in times}
      BY <1>1, <2>3 DEF Passed
    <3> QED BY <2>10, <3>1, CountsAsWell DEF Q!RateLimited
  <2>12. RatesKept'
    <3>1. \A q \in Peer : WindowFits(rates[q], q, allowedAt)'
      BY <1>1, <2>3, <2>10 DEF WindowFits, Passed
    <3>2. \A q \in Q!Attempt : g[q] <= now /\ (at'[q] = "new" => g[q] = Q!Never)
      BY <1>1, <1>2, <1>3, <1>8, <2>2 DEF IntakeKept, RatesKept, PassedNow
    <3> QED BY <1>1, <2>3, <2>10, <3>1, <3>2 DEF RatesKept
  <2>13. Q!TypeOK'
    BY <1>1, <1>2, <1>6, <2>3, <2>7, <2>9 DEF IntakeKept, Q!IntakeInv, Q!TypeOK, Rate, Places
  <2> QED BY <1>5, <2>11, <2>12, <2>13 DEF IntakeKept, Q!IntakeInv
<1> QED BY <1>7, <1>8

\* The place of one call changes, or those of requests that have expired.
LEMMA MoveKeeps ==
    ASSUME LimitsFit, IntakeKept, UNCHANGED <<now, rates, peer, allowedAt>>,
           at' \in [Q!Attempt -> Places],
           \A q \in Q!Attempt : at'[q] = "new" => at[q] = "new",
           expiresAt' \in [Q!Attempt -> {Q!Never} \cup 0 .. MaxTime + Lifetime],
           peak' \in 0 .. MaxAttempts, PendingKept', Q!PendingLimited'
    PROVE  IntakeKept'
<1>1. now <= now' /\ now' \in Int BY DEF IntakeKept, Q!IntakeInv, Q!TypeOK
<1>2. RatesKept' /\ Q!RateLimited' BY <1>1, RatesElsewhere
<1>3. Q!TypeOK' BY DEF IntakeKept, Q!IntakeInv, Q!TypeOK, Places
<1> QED BY <1>2, <1>3 DEF IntakeKept, Q!IntakeInv

\* Where Move sends one call.
MovesTo(r, place) == Q!Move([at EXCEPT ![r] = place])

\* One call goes to another place of those after the limit.
LEMMA OneMoves ==
    ASSUME LimitsFit, IntakeKept, NEW r \in Q!Attempt, NEW place \in Places,
           at[r] # "new", place # "new", MovesTo(r, place)
    PROVE  /\ at' \in [Q!Attempt -> Places]
           /\ \A q \in Q!Attempt : at'[q] = IF q = r THEN place ELSE at[q]
           /\ \A q \in Q!Attempt : at'[q] = "new" => at[q] = "new"
           /\ expiresAt' \in [Q!Attempt -> {Q!Never} \cup 0 .. MaxTime + Lifetime]
<1>1. /\ at \in [Q!Attempt -> Places]
      /\ expiresAt \in [Q!Attempt -> {Q!Never} \cup 0 .. MaxTime + Lifetime]
  BY DEF IntakeKept, Q!IntakeInv, Q!TypeOK, Places
<1> QED BY <1>1 DEF Q!Move, MovesTo

\* The requests that have expired make way.
LEMMA SweepKeeps ==
    ASSUME LimitsFit, IntakeKept, NEW r \in Q!Attempt, Q!Sweep(r) PROVE IntakeKept'
<1> DEFINE due == {q \in Q!Attempt : at[q] = "waiting" /\ expiresAt[q] <= now}
<1>1. /\ at[r] = "allowed"
      /\ at' = [q \in Q!Attempt |-> CASE q = r -> "swept" [] q \in due -> "over" [] OTHER -> at[q]]
      /\ expiresAt' = [q \in Q!Attempt |->
            CASE q = r -> now + Lifetime [] q \in due -> Q!Never [] OTHER -> expiresAt[q]]
      /\ UNCHANGED <<now, rates, peer, allowedAt, peak>>
  BY DEF Q!Sweep
<1>2. /\ at \in [Q!Attempt -> Places] /\ now \in 0 .. MaxTime /\ peak \in 0 .. MaxAttempts
      /\ expiresAt \in [Q!Attempt -> {Q!Never} \cup 0 .. MaxTime + Lifetime]
      /\ Lifetime \in Nat /\ MaxTime \in Nat
  BY DEF IntakeKept, Q!IntakeInv, Q!TypeOK, Places, LimitsFit
<1>3. \A q \in Q!Attempt :
         at'[q] = IF q = r THEN "swept" ELSE IF q \in due THEN "over" ELSE at[q]
  BY <1>1
<1>4. r \notin due BY <1>1
<1>5. at' \in [Q!Attempt -> Places] /\ \A q \in Q!Attempt : at'[q] = "new" => at[q] = "new"
  BY <1>1, <1>2 DEF Places
<1>6. expiresAt' \in [Q!Attempt -> {Q!Never} \cup 0 .. MaxTime + Lifetime]
  <2>1. now + Lifetime \in 0 .. MaxTime + Lifetime BY <1>2
  <2>2. \A q \in Q!Attempt : expiresAt'[q] \in {Q!Never} \cup 0 .. MaxTime + Lifetime
    BY <1>1, <1>2, <2>1
  <2> QED BY <1>1, <2>2
<1>7. Q!In("counted")' \subseteq Q!In("counted") /\ Q!In("waiting")' \subseteq Q!In("waiting")
  BY <1>3 DEF Q!In
<1>8. PendingKept' /\ Q!PendingLimited' BY <1>1, <1>7, PendingElsewhere
<1> QED BY <1>1, <1>2, <1>5, <1>6, <1>8, MoveKeeps

\* Who finds room is one of those between the count and the insert.
LEMMA CountKeeps ==
    ASSUME LimitsFit, IntakeKept, NEW r \in Q!Attempt, Q!Count(r) PROVE IntakeKept'
<1> DEFINE n == Cardinality(Q!In("counted")')
<1>0. PICK place : place = IF Q!Room THEN "counted" ELSE "refused" OBVIOUS
<1>1. /\ at[r] = "swept" /\ MovesTo(r, place)
      /\ peak' = IF n > peak THEN n ELSE peak
      /\ UNCHANGED <<now, rates, peer, allowedAt>>
  BY <1>0, CountsAsWell DEF Q!Count, Q!In, MovesTo
<1>2. place \in {"counted", "refused"} BY <1>0
<1>3. /\ at' \in [Q!Attempt -> Places]
      /\ \A q \in Q!Attempt : at'[q] = IF q = r THEN place ELSE at[q]
      /\ \A q \in Q!Attempt : at'[q] = "new" => at[q] = "new"
      /\ expiresAt' \in [Q!Attempt -> {Q!Never} \cup 0 .. MaxTime + Lifetime]
  BY <1>1, <1>2, OneMoves DEF Places
<1>4. Q!In("waiting")' = Q!In("waiting") BY <1>1, <1>2, <1>3 DEF Q!In
<1>5. /\ \A p : Q!In(p) \in SUBSET Q!Attempt
      /\ Q!In("counted")' \in SUBSET Q!Attempt
  BY DEF Q!In
<1>6. /\ peak \in 0 .. MaxAttempts /\ n \in 0 .. MaxAttempts /\ MaxAttempts \in Nat
      /\ MaxPending \in Nat
  BY <1>5, CallsAreCounted DEF LimitsFit, IntakeKept, Q!IntakeInv, Q!TypeOK
<1> HIDE DEF n
<1>7. peak' \in 0 .. MaxAttempts /\ n <= peak' /\ peak <= peak' BY <1>1, <1>6
<1>8. PendingKept' BY <1>7 DEF PendingKept, n
<1>9. Q!PendingLimited'
  <2>1. CASE Q!Room
    <3> DEFINE waiting == Q!In("waiting")
    <3>1. Cardinality(waiting) < MaxPending BY <2>1, CountsAsWell DEF Q!Room
    <3>2. /\ waiting \in SUBSET Q!Attempt /\ Cardinality(waiting) \in 0 .. MaxAttempts
          /\ waiting \cup Q!In("counted")' \in SUBSET Q!Attempt
      BY <1>5, CallsAreCounted
    <3>3. Cardinality(waiting \cup Q!In("counted")') <= Cardinality(waiting) + n
      BY <1>5, <3>2, CallsAreCounted DEF n
    <3>4. Cardinality(waiting \cup Q!In("counted")') \in 0 .. MaxAttempts
      BY <3>2, CallsAreCounted
    <3>5. Cardinality(waiting \cup Q!In("counted")') <= MaxPending - 1 + peak'
      BY <1>6, <1>7, <3>1, <3>2, <3>3, <3>4
    <3> QED BY <1>4, <3>5, CountsAsWell DEF Q!PendingLimited
  <2>2. CASE ~Q!Room
    <3>1. place = "refused" BY <1>0, <2>2
    <3>2. Q!In("counted")' = Q!In("counted") BY <1>1, <1>3, <3>1 DEF Q!In
    <3>3. n <= peak BY <3>2 DEF n, IntakeKept, PendingKept
    <3>4. peak' = peak BY <1>1, <1>6, <3>3
    <3> QED BY <1>4, <3>2, <3>4 DEF IntakeKept, Q!IntakeInv, Q!PendingLimited
  <2> QED BY <2>1, <2>2
<1> QED BY <1>1, <1>3, <1>7, <1>8, <1>9, MoveKeeps

\* Who was counted waits or is refused, and who waits is settled.
LEMMA InsertKeeps ==
    ASSUME LimitsFit, IntakeKept, NEW r \in Q!Attempt, Q!Insert(r) \/ Q!Settle(r)
    PROVE  IntakeKept'
<1>1. PICK place \in {"waiting", "refused", "over"} :
         /\ MovesTo(r, place)
         /\ at[r] = "counted" \/ (at[r] = "waiting" /\ place = "over")
  <2>1. CASE Q!Insert(r)
    <3>1. at[r] = "counted" BY <2>1 DEF Q!Insert
    <3>2. MovesTo(r, "waiting") \/ MovesTo(r, "refused") BY <2>1, Zenon DEF Q!Insert, MovesTo
    <3> QED BY <3>1, <3>2, Zenon
  <2>2. CASE Q!Settle(r) BY <2>2, Zenon DEF Q!Settle, MovesTo
  <2> QED BY <2>1, <2>2
<1>2. UNCHANGED <<now, rates, peer, allowedAt, peak>> BY DEF Q!Insert, Q!Settle
<1>3. /\ at' \in [Q!Attempt -> Places]
      /\ \A q \in Q!Attempt : at'[q] = IF q = r THEN place ELSE at[q]
      /\ \A q \in Q!Attempt : at'[q] = "new" => at[q] = "new"
      /\ expiresAt' \in [Q!Attempt -> {Q!Never} \cup 0 .. MaxTime + Lifetime]
  BY <1>1, OneMoves DEF Places
<1>4. /\ Q!In("counted")' \subseteq Q!In("counted")
      /\ Q!In("waiting")' \subseteq Q!In("waiting") \cup Q!In("counted")
  BY <1>1, <1>3 DEF Q!In
<1>5. PendingKept' /\ Q!PendingLimited' BY <1>2, <1>4, PendingElsewhere
<1>6. peak' \in 0 .. MaxAttempts BY <1>2 DEF IntakeKept, Q!IntakeInv, Q!TypeOK
<1> QED BY <1>2, <1>3, <1>5, <1>6, MoveKeeps

\* Time passes.
LEMMA TickKeeps == ASSUME LimitsFit, IntakeKept, Q!Tick PROVE IntakeKept'
<1>1. /\ now < MaxTime /\ now' = now + 1
      /\ UNCHANGED <<rates, peer, at, allowedAt, expiresAt, peak>>
  BY DEF Q!Tick
<1>2. now <= now' /\ now' \in 0 .. MaxTime /\ now' \in Int
  BY <1>1 DEF IntakeKept, Q!IntakeInv, Q!TypeOK, LimitsFit
<1>3. RatesKept' /\ Q!RateLimited' BY <1>1, <1>2, RatesElsewhere
<1>4. Q!In("counted")' = Q!In("counted") /\ Q!In("waiting")' = Q!In("waiting")
  BY <1>1 DEF Q!In
<1>5. PendingKept' /\ Q!PendingLimited' BY <1>1, <1>4, PendingElsewhere
<1>6. Q!TypeOK' BY <1>1, <1>2 DEF IntakeKept, Q!IntakeInv, Q!TypeOK
<1> QED BY <1>3, <1>5, <1>6 DEF IntakeKept, Q!IntakeInv

\* At first nobody has called.
LEMMA IntakeStarts == ASSUME LimitsFit, Q!Init PROVE IntakeKept
<1>1. /\ now = 0 /\ rates = [p \in Peer |-> [started |-> Q!Never, count |-> 0]]
      /\ peer \in [Q!Attempt -> Peer] /\ at = [r \in Q!Attempt |-> "new"]
      /\ allowedAt = [r \in Q!Attempt |-> Q!Never]
      /\ expiresAt = [r \in Q!Attempt |-> Q!Never] /\ peak = 0
  BY DEF Q!Init
<1>2. Q!TypeOK
  <2>1. [started |-> Q!Never, count |-> 0]
           \in [started : {Q!Never} \cup 0 .. MaxTime, count : 0 .. RateLimit]
    BY DEF LimitsFit
  <2>2. 0 \in 0 .. MaxTime /\ 0 \in 0 .. MaxAttempts BY DEF LimitsFit
  <2> QED BY <1>1, <2>1, <2>2 DEF Q!TypeOK
<1>3. Cardinality({}) = 0 BY FS_EmptySet
<1>4. \A p, times : times \subseteq Nat => Passed(allowedAt, p, times) = {}
  BY <1>1 DEF Passed, Q!Never
<1>5. Q!In("counted") = {} BY <1>1 DEF Q!In
<1>6. PendingKept BY <1>1, <1>3, <1>5 DEF PendingKept
<1>7. Q!PendingLimited BY <1>1 DEF Q!PendingLimited
<1>8. RatesKept BY <1>1, <1>4 DEF RatesKept, WindowFits, Q!Never
<1>9. ASSUME NEW p \in Peer, NEW t \in 0 .. MaxTime
      PROVE  Cardinality(Passed(allowedAt, p, t .. t + RateWindow - 1)) < 2 * RateLimit
  <2>1. t .. t + RateWindow - 1 \subseteq Nat BY DEF LimitsFit
  <2>2. Passed(allowedAt, p, t .. t + RateWindow - 1) = {} BY <1>4, <2>1
  <2>3. 0 < 2 * RateLimit BY DEF LimitsFit
  <2> QED BY <1>3, <2>2, <2>3
<1>10. Q!RateLimited BY <1>9, CountsAsWell DEF Q!RateLimited, Passed
<1> QED BY <1>2, <1>6, <1>7, <1>8, <1>10 DEF IntakeKept, Q!IntakeInv

\* However the calls of Begin overlap, no more requests wait than the limit and
\* those between count and insert, and no host gets twice its limit through in the
\* length of a window (PairingBegin, allowPairing).
THEOREM IntakeIsLimited == ASSUME LimitsFit PROVE Q!Spec => []Q!IntakeInv
<1>1. Q!Init => IntakeKept BY IntakeStarts
<1>2. ASSUME IntakeKept, [Q!Next]_(Q!vars) PROVE IntakeKept'
  <2>1. CASE UNCHANGED Q!vars
    <3>1. Q!TypeOK' BY <1>2, <2>1 DEF Q!vars, IntakeKept, Q!IntakeInv, Q!TypeOK
    <3>2. now <= now' /\ now' \in Int
      BY <1>2, <2>1 DEF Q!vars, IntakeKept, Q!IntakeInv, Q!TypeOK
    <3>3. RatesKept' /\ Q!RateLimited' BY <1>2, <2>1, <3>2, RatesElsewhere DEF Q!vars
    <3>4. Q!In("counted")' = Q!In("counted") /\ Q!In("waiting")' = Q!In("waiting")
      BY <2>1 DEF Q!vars, Q!In
    <3>5. PendingKept' /\ Q!PendingLimited' BY <1>2, <2>1, <3>4, PendingElsewhere DEF Q!vars
    <3> QED BY <3>1, <3>3, <3>5 DEF IntakeKept, Q!IntakeInv
  <2>2. CASE Q!Tick BY <1>2, <2>2, TickKeeps
  <2>3. ASSUME NEW r \in Q!Attempt, Q!Begin(r) \/ Q!Settle(r) PROVE IntakeKept'
    BY <1>2, <2>3, AllowKeeps, SweepKeeps, CountKeeps, InsertKeeps DEF Q!Begin
  <2> QED BY <1>2, <2>1, <2>2, <2>3 DEF Q!Next
<1>3. IntakeKept => Q!IntakeInv BY DEF IntakeKept
<1> QED BY <1>1, <1>2, <1>3, PTL DEF Q!Spec

=============================================================================
