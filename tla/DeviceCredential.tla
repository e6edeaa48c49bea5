-------------------------- MODULE DeviceCredential --------------------------
(***************************************************************************)
(* The credential of an activated Local Bridge device: proof of possession *)
(* and issuance on the server (internal/oauth/local_bridge_credential.go), *)
(* the activate command and the daemon that share one record on disk       *)
(* (cmd/local), and the owner's revocation (internal/db).                  *)
(*                                                                         *)
(* A keypair and the registration key made with it are one number, key;    *)
(* device ids and nonces are numbers in the order they were made, and a    *)
(* jti is the nonce of the request it was made for.  A token is known by   *)
(* its expiry, which no later token undercuts.  Signatures are what they   *)
(* prove: a request carries the key that signed it.                        *)
(***************************************************************************)
EXTENDS Integers, FiniteSets

CONSTANTS
    Activates,              \* activate commands that may run at once
    Slots,                  \* bound: requests the server works on at once
    MaxDevices, MaxKeys,    \* bounds
    MaxRuns,                \* bound: activate commands
    MaxPosts,               \* bound: proofs posted
    MaxPendingDeviceNonces,
    Budgets                 \* bound: pairs <<revocations, damaged records and expiries; faults>>

VARIABLES
    nd, device,             \* local_bridge_devices
    denylist,               \* worker_token_revocations, by jti
    nonces,                 \* deviceNonces: [device -> 0 or the nonce]
    stale,                  \* nonces past DeviceNonceTTL
    posts,                  \* proofs posted: also numbers nonces
    slot,                   \* requests past their nonce
    rec,                    \* device_key.json
    proc,                   \* the activate commands and the daemon
    runs,
    minted, clock,          \* tokens ever signed, and the latest expiry
    keys,                   \* keypairs made
    revoking,               \* revoke_local_bridge_device between its read and its transaction
    ops, faults

server == <<nd, device, denylist, nonces, stale, posts, slot, minted, clock, revoking>>
client == <<rec, keys, proc, runs>>
vars == <<server, client, ops, faults>>

Unset == 0
DeviceIds == 1..MaxDevices
NoRevoke == [dev |-> Unset, jti |-> Unset]
Procs == Activates \cup {"daemon"}

\* key 0 is a record without a keypair; usable is whether its halves match.
deviceRecord == [key : 0..MaxKeys, usable : BOOLEAN, dev : 0..MaxDevices, tok : 0..MaxPosts]

Free == [pc |-> "free", by |-> "", dev |-> Unset, nonce |-> Unset, jti |-> Unset]

Proc(pc) == [pc |-> pc, key |-> Unset, dev |-> Unset, path |-> "", nonce |-> Unset, tok |-> Unset, status |-> 0, first |-> FALSE]

TypeOK ==
    /\ nd \in 0..MaxDevices
    /\ device \in [DeviceIds -> [key : 0..MaxKeys, revoked : BOOLEAN, jti : 0..MaxPosts]]
    /\ denylist \subseteq 1..MaxPosts /\ nonces \in [DeviceIds -> 0..MaxPosts] /\ stale \subseteq DeviceIds
    /\ posts \in 0..MaxPosts /\ rec \in deviceRecord /\ runs \in 0..MaxRuns
    /\ minted \subseteq [dev : DeviceIds, jti : 1..MaxPosts, tok : 1..MaxPosts] /\ clock \in 0..MaxPosts
    /\ revoking \in [dev : 0..MaxDevices, jti : 0..MaxPosts]

Init ==
    /\ nd = 0 /\ device = [d \in DeviceIds |-> [key |-> Unset, revoked |-> FALSE, jti |-> Unset]]
    /\ denylist = {} /\ nonces = [d \in DeviceIds |-> Unset] /\ stale = {} /\ posts = 0
    /\ slot = [s \in Slots |-> Free]
    /\ rec = [key |-> Unset, usable |-> FALSE, dev |-> Unset, tok |-> Unset]
    /\ proc = [p \in Procs |-> Proc(IF p = "daemon" THEN "start" ELSE "idle")]
    /\ keys = 0 /\ runs = 0 /\ minted = {} /\ clock = 0 /\ revoking = NoRevoke
    /\ \E b \in Budgets : ops = b[1] /\ faults = b[2]

Fault == faults > 0 /\ faults' = faults - 1
Op == ops > 0 /\ ops' = ops - 1
Put(p, r) == proc' = [proc EXCEPT ![p] = r]

-----------------------------------------------------------------------------
(* The record on disk, under the device lock. *)

deviceCredentialUsable == rec.dev # Unset /\ rec.tok # Unset

\* A usable keypair is kept; one that replaces another drops what was issued to
\* it, the first one does not.
loadOrCreateDeviceIdentity ==
    IF rec.usable THEN rec
    ELSE IF rec.key = Unset THEN [rec EXCEPT !.key = keys + 1, !.usable = TRUE]
    ELSE [key |-> keys + 1, usable |-> TRUE, dev |-> Unset, tok |-> Unset]

Kept(p) == rec.dev = proc[p].dev /\ deviceCredentialUsable /\ rec.tok > proc[p].tok

Merged(p) == [rec EXCEPT !.dev = proc[p].dev, !.tok = proc[p].tok]

\* Abandoned when the key that signed is no longer the record's, or when the
\* record has a later credential of the same device.
mergeDeviceCredential(p) ==
    IF ~rec.usable \/ rec.key # proc[p].key \/ Kept(p) THEN rec ELSE Merged(p)

\* The file is damaged: its key material no longer matches, or nothing of it
\* can be parsed and it reads as empty.
readDeviceRecord ==
    /\ rec.usable /\ keys < MaxKeys /\ Op
    /\ rec' \in {[rec EXCEPT !.usable = FALSE], [key |-> Unset, usable |-> FALSE, dev |-> Unset, tok |-> Unset]}
    /\ UNCHANGED <<server, keys, proc, runs, faults>>

-----------------------------------------------------------------------------
(* The activate command and the daemon. *)

ActiveRows(k) == {d \in 1..nd : device[d].key = k /\ ~device[d].revoked}

\* The command loads its identity, and its activation is approved: the active
\* row of its registration key, or a new one.
runActivate(a) ==
    LET r == loadOrCreateDeviceIdentity
        d == IF ActiveRows(r.key) = {} THEN nd + 1 ELSE CHOOSE x \in ActiveRows(r.key) : TRUE
    IN  /\ proc[a].pc = "idle" /\ runs < MaxRuns /\ d \in DeviceIds
        /\ rec' = r /\ runs' = runs + 1
        /\ keys' = IF r.key > keys THEN r.key ELSE keys
        /\ nd' = IF d > nd THEN d ELSE nd
        /\ device' = [device EXCEPT ![d].key = r.key]
        /\ Put(a, [Proc("nonce") EXCEPT !.key = r.key, !.dev = d, !.path = "credential"])
        /\ UNCHANGED <<denylist, nonces, stale, posts, slot, minted, clock, revoking, ops, faults>>

\* selectDeviceCredentialSource: what the daemon starts from.
Refresh(first) == [Proc("nonce") EXCEPT !.key = rec.key, !.dev = rec.dev, !.path = "refresh", !.first = first]

\* Before the passphrase prompt the daemon refreshes once; a bearer token may be
\* missing or refused, which ends it.
serveDaemon ==
    /\ proc["daemon"].pc = "start"
    /\ \/ deviceCredentialUsable /\ rec.usable /\ Put("daemon", Refresh(TRUE))
       \/ deviceCredentialUsable /\ ~rec.usable /\ Put("daemon", Proc("stopped"))
       \/ ~deviceCredentialUsable /\ \E pc \in {"loop", "primed", "stopped"} : Put("daemon", Proc(pc))
    /\ UNCHANGED <<server, rec, keys, runs, ops, faults>>

\* One round of the loop: a refreshed credential of serveDaemon is used at once;
\* a device credential is refreshed each time; on the bearer path an expired
\* token waits and a refused one ends the daemon.
runDaemon ==
    LET pc == proc["daemon"].pc
    IN  /\ pc \in {"loop", "primed"}
        /\ \/ deviceCredentialUsable /\ ~rec.usable /\ Put("daemon", Proc("stopped"))
           \/ ~(deviceCredentialUsable /\ ~rec.usable) /\ pc = "primed" /\ Put("daemon", Proc("session"))
           \/ pc = "loop" /\ deviceCredentialUsable /\ rec.usable /\ Put("daemon", Refresh(FALSE))
           \/ /\ pc = "loop" /\ ~deviceCredentialUsable
              /\ \E next \in {"session", "stopped"} : Put("daemon", Proc(next))
        /\ UNCHANGED <<server, rec, keys, runs, ops, faults>>

\* daemonSession returns with an error; the service manager starts a daemon that
\* ended.
SessionEnds ==
    /\ posts < MaxPosts
    /\ \/ proc["daemon"].pc = "session" /\ Put("daemon", Proc("loop")) /\ UNCHANGED faults
       \/ proc["daemon"].pc = "stopped" /\ Fault /\ Put("daemon", Proc("start"))
    /\ UNCHANGED <<server, rec, keys, runs, ops>>

Failed(p) == Proc(IF p = "daemon" THEN "loop" ELSE "idle")

\* A request or its answer is lost; the server may be working on it.
postDevicePoP(p) ==
    /\ proc[p].pc \in {"nonce", "post", "wait"}
    /\ Fault
    /\ Put(p, Failed(p))
    /\ UNCHANGED <<server, rec, keys, runs, ops>>

\* The first issuance: a conflict looks at the record and then refreshes.
bootstrapDeviceCredential(a) ==
    LET c == proc[a]
        alreadyGood == rec.dev = c.dev /\ deviceCredentialUsable
    IN  /\ c.pc = "answered"
        /\ \/ c.status = 200 /\ Put(a, [c EXCEPT !.pc = "merge"])
           \/ /\ c.status = 409 /\ c.path = "credential"
              /\ Put(a, IF alreadyGood THEN Proc("idle")
                                 ELSE [Proc("nonce") EXCEPT !.key = c.key, !.dev = c.dev, !.path = "refresh"])
           \/ /\ c.status # 200 /\ ~(c.status = 409 /\ c.path = "credential")
              /\ Put(a, Proc("idle"))
        /\ UNCHANGED <<server, rec, keys, runs, ops, faults>>

\* Its answer is merged, or the record could not be written.
BootstrapMerge(a) ==
    /\ proc[a].pc = "merge"
    /\ \/ rec' = mergeDeviceCredential(a) /\ UNCHANGED faults
       \/ Fault /\ UNCHANGED rec
    /\ Put(a, Proc("idle"))
    /\ UNCHANGED <<server, keys, runs, ops>>

\* Any refusal is retried; a new token is merged, if the lock comes free, and
\* exchanged for a bridge token.
refreshDeviceCredential ==
    LET c == proc["daemon"]
    IN  /\ c.pc = "answered"
        /\ \/ c.status # 200 /\ Put("daemon", Failed("daemon")) /\ UNCHANGED <<rec, faults>>
           \/ /\ c.status = 200
              /\ \/ rec' = mergeDeviceCredential("daemon") /\ UNCHANGED faults
                 \/ Fault /\ UNCHANGED rec
              /\ \E ok \in BOOLEAN :
                   Put("daemon", Proc(IF ~ok THEN "loop" ELSE IF c.first THEN "primed" ELSE "session"))
        /\ UNCHANGED <<server, keys, runs, ops>>

-----------------------------------------------------------------------------
(* The server. *)

\* One nonce per device.  An unknown or revoked device gets one that is not
\* stored; a full map gives up a nonce that has expired, or refuses.
handleDeviceNonce(p) ==
    LET d == proc[p].dev
        taken == {x \in DeviceIds : nonces[x] # Unset}
        known == ~device[d].revoked
        full == Cardinality(taken) >= MaxPendingDeviceNonces /\ d \notin taken
    IN  /\ proc[p].pc = "nonce" /\ posts < MaxPosts
        /\ posts' = posts + 1
        /\ \/ /\ ~known
              /\ UNCHANGED <<nonces, stale>>
              /\ Put(p, [proc[p] EXCEPT !.pc = "post", !.nonce = posts + 1])
           \/ /\ known /\ ~full
              /\ nonces' = [nonces EXCEPT ![d] = posts + 1] /\ stale' = stale \ {d}
              /\ Put(p, [proc[p] EXCEPT !.pc = "post", !.nonce = posts + 1])
           \/ /\ known /\ full
              /\ \E x \in taken \cap stale :
                   /\ nonces' = [nonces EXCEPT ![x] = Unset, ![d] = posts + 1]
                   /\ stale' = stale \ {x, d}
              /\ Put(p, [proc[p] EXCEPT !.pc = "post", !.nonce = posts + 1])
           \/ /\ known /\ full /\ taken \cap stale = {}
              /\ UNCHANGED <<nonces, stale>>
              /\ Put(p, Failed(p))
        /\ UNCHANGED <<nd, device, denylist, slot, minted, clock, revoking, rec, keys, runs, ops, faults>>

NonceExpires(d) ==
    /\ nonces[d] # Unset /\ d \notin stale /\ Op
    /\ stale' = stale \cup {d}
    /\ UNCHANGED <<nd, device, denylist, nonces, posts, slot, minted, clock, revoking, client, faults>>

\* The nonce is used up whatever the rest of the proof is worth; the row is read
\* once, and what it says is used until the answer.
verifyDevicePoP(p, s) ==
    LET d == proc[p].dev
        ok == /\ nonces[d] = proc[p].nonce /\ d \notin stale
              /\ ~device[d].revoked /\ device[d].key = proc[p].key
    IN  /\ proc[p].pc = "post" /\ slot[s].pc = "free"
        /\ nonces' = [nonces EXCEPT ![d] = Unset] /\ stale' = stale \ {d}
        /\ IF ok
           THEN /\ slot' = [slot EXCEPT ![s] = [pc |-> proc[p].path, by |-> p, dev |-> d,
                                                nonce |-> proc[p].nonce, jti |-> device[d].jti]]
                /\ Put(p, [proc[p] EXCEPT !.pc = "wait"])
           ELSE /\ Put(p, [proc[p] EXCEPT !.pc = "answered", !.status = 403]) /\ UNCHANGED slot
        /\ UNCHANGED <<nd, device, denylist, posts, minted, clock, revoking, rec, keys, runs, ops, faults>>

Waits(s) == proc[slot[s].by].pc = "wait" /\ proc[slot[s].by].nonce = slot[s].nonce

\* The request ends; the answer reaches the process that still waits for it.
Answer(s, status, tok) ==
    /\ proc' = IF Waits(s)
               THEN [proc EXCEPT ![slot[s].by].pc = "answered", ![slot[s].by].status = status, ![slot[s].by].tok = tok]
               ELSE proc
    /\ slot' = [slot EXCEPT ![s] = Free]

\* A statement fails, or the client left and its context is cancelled.
InternalError(s) ==
    /\ slot[s].pc # "free"
    /\ IF Waits(s) THEN Fault ELSE UNCHANGED faults
    /\ Answer(s, 500, Unset)
    /\ UNCHANGED <<nd, device, denylist, nonces, stale, posts, minted, clock, revoking, rec, keys, runs, ops>>

FaultyClaim(s) == ~device[slot[s].dev].revoked

\* The update sets current_jti where it is still NULL and the row active.
ClaimDeviceCredentialLineage(s) ==
    device[slot[s].dev].jti = Unset /\ ~device[slot[s].dev].revoked

handleDeviceCredential(s) ==
    /\ slot[s].pc = "credential"
    /\ IF ClaimDeviceCredentialLineage(s)
       THEN /\ device' = [device EXCEPT ![slot[s].dev].jti = slot[s].nonce]
            /\ slot' = [slot EXCEPT ![s].pc = "sign", ![s].jti = slot[s].nonce]
            /\ UNCHANGED proc
       ELSE Answer(s, 409, Unset) /\ UNCHANGED device
    /\ UNCHANGED <<nd, denylist, nonces, stale, posts, minted, clock, revoking, rec, keys, runs, ops, faults>>

\* The lineage the row had when it was read is signed again.
handleDeviceRefresh(s) ==
    /\ slot[s].pc = "refresh"
    /\ IF slot[s].jti = Unset
       THEN Answer(s, 409, Unset)
       ELSE slot' = [slot EXCEPT ![s].pc = "sign"] /\ UNCHANGED proc
    /\ UNCHANGED <<nd, device, denylist, nonces, stale, posts, minted, clock, revoking, rec, keys, runs, ops, faults>>

\* Two tokens signed within a second expire together.
MintForDevice(s) ==
    /\ slot[s].pc = "sign"
    /\ \E e \in {clock, clock + 1} \ {0} :
         /\ clock' = e
         /\ minted' = minted \cup {[dev |-> slot[s].dev, jti |-> slot[s].jti, tok |-> e]}
         /\ Answer(s, 200, e)
    /\ UNCHANGED <<nd, device, denylist, nonces, stale, posts, revoking, rec, keys, runs, ops, faults>>

-----------------------------------------------------------------------------
(* The owner's revocation. *)

\* The ownership check reads the row first.
toolRevokeLocalBridgeDevice(d) ==
    /\ revoking = NoRevoke /\ d \in 1..nd /\ Op
    /\ revoking' = [dev |-> d, jti |-> device[d].jti]
    /\ UNCHANGED <<nd, device, denylist, nonces, stale, posts, slot, minted, clock, client, faults>>

\* One transaction; the jti is read from the row it locks.
RevokeDeviceAndDenylist ==
    /\ revoking # NoRevoke
    /\ device' = [device EXCEPT ![revoking.dev].revoked = TRUE]
    /\ denylist' = denylist \cup ({device[revoking.dev].jti} \ {Unset})
    /\ revoking' = NoRevoke
    /\ UNCHANGED <<nd, nonces, stale, posts, slot, minted, clock, client, ops, faults>>

Next ==
    \/ \E a \in Activates : runActivate(a) \/ bootstrapDeviceCredential(a) \/ BootstrapMerge(a)
    \/ readDeviceRecord
    \/ serveDaemon \/ runDaemon \/ refreshDeviceCredential \/ SessionEnds
    \/ \E p \in Procs :
         \/ postDevicePoP(p) \/ handleDeviceNonce(p)
         \/ \E s \in Slots : verifyDevicePoP(p, s)
    \/ \E s \in Slots :
         \/ handleDeviceCredential(s) \/ handleDeviceRefresh(s)
         \/ MintForDevice(s) \/ InternalError(s)
    \/ \E d \in DeviceIds : NonceExpires(d) \/ toolRevokeLocalBridgeDevice(d)
    \/ RevokeDeviceAndDenylist

Spec == Init /\ [][Next]_vars

-----------------------------------------------------------------------------
(* Properties. *)

\* Once a device is revoked every token ever signed for it is on the denylist,
\* also one signed by a request that had read the row before the revocation.
RevokedLineageDenied ==
    \A m \in minted : device[m.dev].revoked => m.jti \in denylist

\* A device has one credential lineage, however many first issuances race.
OneLineage ==
    \A m, o \in minted : m.dev = o.dev => m.jti = o.jti

\* A usable record never pairs its keypair with a credential issued to another,
\* although the daemon and the command write it side by side.
RecordMatchesKey ==
    rec.usable /\ deviceCredentialUsable =>
      /\ device[rec.dev].key = rec.key
      /\ \E m \in minted : m.dev = rec.dev /\ m.tok = rec.tok

\* A write of the record never puts an older credential of a device over a
\* newer one of the same device.
NewerCredentialKept == rec'.dev = rec.dev => rec'.tok >= rec.tok
=============================================================================
