----------------------------- MODULE Assistants -----------------------------
(***************************************************************************)
(* Assistant installs (internal/assistantinstall, internal/db/assistant_*, *)
(* internal/assistantregistry): what an account runs, its private forks,   *)
(* the runtime it consented to, the stored definitions and their           *)
(* lifecycle, and the claim that renders from them.                        *)
(*                                                                         *)
(* A catalog name@version is one value of Bases.  An install document is   *)
(* the set of settings patched into it.  A fork document is its text and   *)
(* its tools; a fork row is its own digest, because the digest is the hash *)
(* of a document that names version and base.  The registry is configured, *)
(* as deployed; with the catalog embedded in the binary instead, every     *)
(* lifecycle is published and nothing is stored.                           *)
(***************************************************************************)
EXTENDS Integers, FiniteSets, TLC

CONSTANTS
    Accounts, Bases,
    Hidden,        \* the bases that are draft or not public
    Settings,      \* what a patch may set in the install document
    Texts,         \* the instructions a fork may be given
    Reqs,          \* requests being served at once, over all surfaces
    Refreshers,    \* replicas that run the lifecycle refresh
    None,          \* no value
    MaxVersions,   \* MaxVersionsPerFork
    MaxAccounts,   \* MANAGED_RUNTIME_MAX_ACCOUNTS
    MaxClock,      \* bound on the clock, whose unit is StaleAfter
    Scenarios      \* <<what happens, accounts, requests, faults>> at the start

VARIABLES
    profile,       \* agent_profiles, the columns an install writes
    forks,         \* assistant_forks of an account
    defs,          \* assistant_definitions, by digest
    registry,      \* external: what mctl-api holds of a base
    clock,
    req,           \* requests in progress
    pass,          \* refresh passes in progress
    claim,         \* the rendered, still polling claim of an account
    ran,           \* the last job an account's worker was handed
    alerts,        \* registry alerts queued, and whether one was repeated
    scen, ops, faults

vars == <<profile, forks, defs, registry, clock, req, pass, claim, ran,
          alerts, scen, ops, faults>>
db == <<profile, forks, defs>>

Fork == "fork"
Digest(b) == [of |-> b, content |-> registry[b].content]
BaseDigests == [of : Bases, content : {0, 1}]
FirstForkVersion == <<1, 0>>
StaleAfter == 1
Happens(what) == what \in scen.what

(***************************************************************************)
(* Fork versions.                                                          *)
(***************************************************************************)
semverLess(a, b) == a[1] < b[1] \/ (a[1] = b[1] /\ a[2] < b[2])

latestForkVersion(rows) ==
    IF rows = {} THEN None
    ELSE CHOOSE v \in {r.ver : r \in rows} :
            \A r \in rows : ~ semverLess(v, r.ver)

BuildFork(base, doc, ver, ov) ==
    [ver |-> ver, base |-> base, doc |-> [doc EXCEPT ![ov[1]] = ov[2]]]

ForkBump(prev, next) ==
    IF prev.doc = next.doc THEN ""
    ELSE IF prev.doc.tools = next.doc.tools THEN "patch" ELSE "minor"

NextForkVersion(v, bump) ==
    IF bump = "patch" THEN <<v[1], v[2] + 1>> ELSE <<v[1] + 1, 0>>

Overrides == ({"text"} \X Texts) \cup ({"tools"} \X {0, 1})
BaseDoc == [text |-> 0, tools |-> 0]

(***************************************************************************)
(* Requests.                                                               *)
(***************************************************************************)
Idle == [pc |-> "idle"]

IsRunning(q) == req[q].pc # "idle"

Done(q) == req' = [req EXCEPT ![q] = Idle]

Ask(q, kind) ==
    /\ Happens(kind)
    /\ ops > 0
    /\ ~ IsRunning(q)
    /\ \A p \in Reqs : ~ IsRunning(p) => q = CHOOSE i \in Reqs : ~ IsRunning(i)
    /\ ops' = ops - 1
    /\ UNCHANGED <<profile, forks, defs, registry, clock, pass, claim, ran,
                   alerts, scen, faults>>

\* What Apply and Patch carry from the request to the write.
Install(a, name, ver, mode, doc, expected, self, runtime, consent, patch) ==
    [pc |-> "prepare", acct |-> a, name |-> name, ver |-> ver, mode |-> mode,
     doc |-> doc, expected |-> expected, self |-> self, runtime |-> runtime,
     consent |-> consent, patch |-> patch]

Runtimes == IF Happens("runtime") THEN {"", "own", "managed"} ELSE {""}
Modes == IF Happens("guarded") THEN {"observe", "guarded"} ELSE {"observe"}

\* install_assistant: any base or own fork version, expected_revision optional.
McpInstall(q, a) ==
    /\ Ask(q, "install")
    /\ \E name \in Bases \cup {Fork}, m \in Modes, rt \in Runtimes,
          c \in BOOLEAN, expected \in {None, profile[a].rev} :
         /\ c => rt = "managed"
         /\ \E v \in IF name = Fork THEN {r.ver : r \in forks[a]} ELSE {None} :
              req' = [req EXCEPT ![q] = Install(a, name, v, m, {}, expected,
                                                TRUE, rt, c, None)]

\* ListCatalog: what the registry or the embedded catalog offers anybody.
ListCatalog == {b \in Bases \ Hidden : registry[b].life = "published"}

\* The install form of the manage page: the revision the page showed, a
\* catalog entry it listed, and the account's runtime as it is.
WebInstall(q, a) ==
    /\ Ask(q, "web")
    /\ \E b \in ListCatalog :
         req' = [req EXCEPT ![q] = Install(a, b, None, "observe", {},
                                           profile[a].rev, TRUE, "", FALSE, None)]

\* PUT /api/admin/agent/install: another account's install.  It resolves no
\* fork, has no self-service limit and expects no revision.
AdminInstall(q, a) ==
    /\ Ask(q, "admin")
    /\ \E b \in Bases, rt \in Runtimes, c \in BOOLEAN :
         /\ c => rt = "managed"
         /\ req' = [req EXCEPT ![q] = Install(a, b, None, "observe", {}, None,
                                              FALSE, rt, c, None)]

\* mergePatch and PatchWithConsent: the stored document with the patch
\* applied.  A patch that names no runtime keeps the account's.
Patched(a, setting, m, rt, c) ==
    LET p == profile[a] IN
    Install(a, p.name, p.ver, IF m = "" THEN p.mode ELSE m,
            IF setting = None THEN p.doc ELSE p.doc \cup {setting},
            p.rev, TRUE, IF rt = "" THEN p.runtime ELSE rt, c, setting)

\* update_install: a patch against the revision the caller names.  A patch
\* of another revision is refused before anything happens.
UpdateInstall(q, a) ==
    /\ Ask(q, "patch")
    /\ profile[a].name # None
    /\ \E s \in Settings, rt \in Runtimes, c \in BOOLEAN :
         /\ c => rt = "managed"
         /\ req' = [req EXCEPT ![q] = Patched(a, s, "", rt, c)]

\* The update form changes one of the settings it offers; the consent box
\* belongs to the runtime form.
WebUpdate(q, a) ==
    /\ Ask(q, "web")
    /\ profile[a].name # None
    /\ \/ \E s \in Settings :
            req' = [req EXCEPT ![q] = Patched(a, s, "", "", FALSE)]
       \/ \E m \in Modes :
            req' = [req EXCEPT ![q] = Patched(a, None, m, "", FALSE)]
       \/ \E rt \in Runtimes \ {""}, c \in BOOLEAN :
            req' = [req EXCEPT ![q] = Patched(a, None, "", rt, c)]

(***************************************************************************)
(* Prepare: resolve the definition and its lifecycle.                      *)
(***************************************************************************)
Row(a, v) == CHOOSE r \in forks[a] : r.ver = v

\* The base of a stored fork: the registry's while it still has that digest,
\* else the snapshot an earlier install stored.
forkBaseForInstall(r) ==
    LET b == r.base.of IN
    CASE registry[b].life = "gone" -> "refused"
      [] Digest(b) = r.base \/ r.base \in DOMAIN defs -> registry[b].life
      [] OTHER -> "refused"

\* An edit asks the stored lifecycle; only a base never installed here is
\* looked up, and then whatever its lifecycle.
forkBaseForUpdate(r) ==
    IF r.base \in DOMAIN defs THEN defs[r.base].life # "disabled"
    ELSE forkBaseForInstall(r) # "refused"

Prepared(q, pin, base, life) ==
    req' = [req EXCEPT ![q] = [pc |-> "commit", pin |-> pin, base |-> base,
                               life |-> life] @@ @]

\* service.go prepare.  A registry that cannot be read is a fault.
Prepare(q) ==
    /\ req[q].pc = "prepare"
    /\ LET r == req[q] IN
       \/ /\ r.name = Fork
          /\ IF \E f \in forks[r.acct] : f.ver = r.ver
             THEN LET f == Row(r.acct, r.ver)
                      life == forkBaseForInstall(f) IN
                  IF life \in {"refused", "disabled"} THEN Done(q)
                  ELSE Prepared(q, f, f.base, life)
             ELSE Done(q)
          /\ UNCHANGED faults
       \/ /\ r.name # Fork
          /\ IF registry[r.name].life \in {"gone", "disabled"} THEN Done(q)
             ELSE Prepared(q, Digest(r.name), Digest(r.name), registry[r.name].life)
          /\ UNCHANGED faults
       \/ /\ faults > 0
          /\ faults' = faults - 1
          /\ Done(q)
    /\ UNCHANGED <<db, registry, clock, pass, claim, ran, alerts, scen, ops>>

(***************************************************************************)
(* Commit: decide on the profile as read, then write if it is still that.  *)
(***************************************************************************)
KeepRuntime == [runtime |-> "", consent |-> "keep", quota |-> FALSE]

\* DecideRuntime.  The answer "refused" is managed_consent_required.
DecideRuntime(current, requested, consent) ==
    CASE requested = "" -> KeepRuntime
      [] requested = "managed" /\ current = "own" ->
            IF consent
            THEN [runtime |-> "managed", consent |-> "set", quota |-> TRUE]
            ELSE [KeepRuntime EXCEPT !.runtime = "refused"]
      [] requested = "managed" /\ current = "managed" ->
            IF consent THEN [KeepRuntime EXCEPT !.consent = "set"] ELSE KeepRuntime
      [] requested = "own" /\ current = "managed" ->
            [runtime |-> "own", consent |-> "clear", quota |-> FALSE]
      [] OTHER -> KeepRuntime

\* Self-service installs what the catalog offers anybody, or what already
\* runs; deprecated stays with the accounts that run it; a fork runs in
\* observe mode.
Refused(r, p) ==
    LET keeps == p.name = r.name IN
    \/ r.name = Fork /\ r.mode = "guarded"
    \/ r.name # Fork /\ r.self /\ ~ keeps /\ r.name \in Hidden
    \/ r.life = "deprecated" /\ ~ keeps

CommitRead(q) ==
    /\ req[q].pc = "commit"
    /\ LET r == req[q]
           p == profile[r.acct]
           change == DecideRuntime(p.runtime, r.runtime, r.consent) IN
       IF \/ r.expected \notin {None, p.rev}
          \/ Refused(r, p)
          \/ change.runtime = "refused"
       THEN Done(q)
       ELSE req' = [req EXCEPT ![q] =
                       [pc |-> "write", change |-> change,
                        cas |-> IF r.expected = None THEN p.rev ELSE r.expected] @@ @]
    /\ UNCHANGED <<db, registry, clock, pass, claim, ran, alerts, scen, ops, faults>>

WithinQuota(a, change) ==
    change.quota =>
        Cardinality({o \in Accounts \ {a} : profile[o].runtime = "managed"}) < MaxAccounts

\* RuntimeChange.Apply: a switch moves the install revision as well.
Switched(p, change) ==
    [p EXCEPT !.runtime = IF change.runtime = "" THEN @ ELSE change.runtime,
              !.consent = CASE change.consent = "set" -> TRUE
                            [] change.consent = "clear" -> FALSE
                            [] OTHER -> @,
              !.rev = IF change.runtime = "" THEN @ ELSE @ + 1]

\* storeAssistantDefinition.
storeAssistantDefinition(d, life) ==
    defs' = (d :> [life |-> life, checked |-> clock]) @@ defs

FaultyForkStillThere(r) == TRUE

\* The row InstallAgentFork demands under the account's lock.
ForkStillThere(r) == r.name = Fork => r.pin \in forks[r.acct]

\* updateAgentProfileFields guarded by the revision Commit read.
RevisionHolds(r) == profile[r.acct].rev = r.cas

Installed(p, r) ==
    [Switched(p, r.change) EXCEPT !.name = r.name, !.ver = r.ver, !.pin = r.pin,
                                  !.mode = r.mode, !.doc = r.doc, !.rev = p.rev + 1]

\* One transaction stores the definition and moves the profile; what an
\* earlier install left proposed is denied afterwards (module ActionSend).
CommitWrite(q) ==
    /\ req[q].pc = "write"
    /\ LET r == req[q] IN
       IF ForkStillThere(r) /\ RevisionHolds(r) /\ WithinQuota(r.acct, r.change)
       THEN /\ profile' = [profile EXCEPT ![r.acct] = Installed(@, r)]
            /\ storeAssistantDefinition(r.base, r.life)
       ELSE UNCHANGED <<profile, defs>>
    /\ Done(q)
    /\ UNCHANGED <<forks, registry, clock, pass, claim, ran, alerts, scen, ops, faults>>

(***************************************************************************)
(* PUT /api/admin/agent/profile: no revision is expected.  A switch to     *)
(* managed needs the consent that is stored.                               *)
(***************************************************************************)
AdminProfile(q, a) ==
    /\ Ask(q, "profile")
    /\ \E rt \in Runtimes, m \in {""} \cup Modes :
         LET p == profile[a]
             c == DecideRuntime(p.runtime, rt, p.consent) IN
         IF c.runtime = "refused" THEN UNCHANGED req
         ELSE req' = [req EXCEPT ![q] =
                        [pc |-> "put", acct |-> a, mode |-> m,
                         change |-> [c EXCEPT !.consent = IF @ = "set" THEN "keep" ELSE @]]]

AdminPut(q) ==
    /\ req[q].pc = "put"
    /\ LET r == req[q] IN
       IF WithinQuota(r.acct, r.change)
       THEN profile' = [profile EXCEPT ![r.acct] =
                           [Switched(@, r.change) EXCEPT !.mode = IF r.mode = "" THEN @ ELSE r.mode]]
       ELSE UNCHANGED profile
    /\ Done(q)
    /\ UNCHANGED <<forks, defs, registry, clock, pass, claim, ran, alerts, scen, ops, faults>>

(***************************************************************************)
(* Forks.                                                                  *)
(***************************************************************************)
\* fork_assistant: a base the registry serves; a deprecated one only if it
\* already runs.
CreateFork(q, a) ==
    /\ Ask(q, "fork")
    /\ \E b \in Bases, ov \in Overrides :
         /\ \/ registry[b].life = "published"
            \/ registry[b].life = "deprecated" /\ profile[a].name = b
         /\ req' = [req EXCEPT ![q] =
                      [pc |-> "insert", acct |-> a, after |-> None,
                       row |-> BuildFork(Digest(b), BaseDoc, FirstForkVersion, ov)]]

\* update_fork: the latest version with the change, numbered by what it moves.
UpdateFork(q, a) ==
    /\ Ask(q, "fork")
    /\ forks[a] # {}
    /\ \E ov \in Overrides :
         LET last == Row(a, latestForkVersion(forks[a]))
             draft == BuildFork(last.base, last.doc, last.ver, ov)
             bump == ForkBump(last, draft) IN
         /\ forkBaseForUpdate(last)
         /\ bump # ""
         /\ req' = [req EXCEPT ![q] =
                      [pc |-> "insert", acct |-> a, after |-> last.ver,
                       row |-> [draft EXCEPT !.ver = NextForkVersion(last.ver, bump)]]]

\* InsertAssistantFork, under the account's lock.
InsertAssistantFork(q) ==
    /\ req[q].pc = "insert"
    /\ LET r == req[q] IN
       IF /\ latestForkVersion(forks[r.acct]) = r.after
          /\ Cardinality(forks[r.acct]) < MaxVersions
       THEN forks' = [forks EXCEPT ![r.acct] = @ \cup {r.row}]
       ELSE UNCHANGED forks
    /\ Done(q)
    /\ UNCHANGED <<profile, defs, registry, clock, pass, claim, ran, alerts, scen, ops, faults>>

\* delete_fork: one version, or all of them; never the pinned one.
DeleteAssistantFork(a) ==
    /\ Happens("fork")
    /\ ops > 0
    /\ \E rows \in {forks[a]} \cup {{r} : r \in forks[a]} :
         /\ rows # {}
         /\ profile[a].pin \notin rows
         /\ forks' = [forks EXCEPT ![a] = @ \ rows]
    /\ ops' = ops - 1
    /\ UNCHANGED <<profile, defs, registry, clock, req, pass, claim, ran, alerts, scen, faults>>

(***************************************************************************)
(* The refresher.                                                          *)
(***************************************************************************)
\* The definition an account runs on: its pin, or the base of its fork.
RunsOn(a) ==
    IF profile[a].name = Fork THEN profile[a].pin.base ELSE profile[a].pin

ListPinned == {d \in DOMAIN defs : \E a \in Accounts : RunsOn(a) = d}

RefreshOnce(r) ==
    /\ Happens("refresh")
    /\ pass[r].left = {} /\ pass[r].of = None
    /\ ListPinned # {}
    /\ ops > 0
    /\ ops' = ops - 1
    /\ pass' = [pass EXCEPT ![r].left = {<<d, defs[d].checked>> : d \in ListPinned}]
    /\ UNCHANGED <<db, registry, clock, req, claim, ran, alerts, scen, faults>>

\* Client.Fetch of one listed version: a lifecycle, 404 assistant_not_found
\* recorded as disabled, or a failed read.
RefreshFetch(r) ==
    /\ pass[r].of = None
    /\ \E e \in pass[r].left :
         LET life == registry[e[1].of].life
             answer == IF life = "gone" THEN "disabled" ELSE life IN
         \/ /\ pass' = [pass EXCEPT ![r] = [left |-> @.left \ {e}, of |-> e, life |-> answer]]
            /\ UNCHANGED faults
         \/ /\ faults > 0
            /\ faults' = faults - 1
            /\ pass' = [pass EXCEPT ![r] = [left |-> @.left \ {e}, of |-> e, life |-> None]]
    /\ UNCHANGED <<db, registry, clock, req, claim, ran, alerts, scen, ops>>

Listening(d) == {a \in Accounts : RunsOn(a) = d}

\* NotifyAssistantRegistryUnreachable: once per account and outage.
ToNotify(key) == {a \in Listening(key[1]) : profile[a].notice # key}

\* SetAssistantDefinitionLifecycle, or for a failed read of a lifecycle that
\* aged past StaleAfter the alert to every account on it.
RefreshStore(r) ==
    /\ pass[r].of # None
    /\ LET e == pass[r].of IN
       IF pass[r].life # None
       THEN /\ defs' = [defs EXCEPT ![e[1]] = [life |-> pass[r].life, checked |-> clock]]
            /\ UNCHANGED <<profile, alerts>>
       ELSE /\ IF clock - e[2] > StaleAfter
               THEN /\ profile' = [a \in Accounts |->
                         IF a \in ToNotify(e) THEN [profile[a] EXCEPT !.notice = e]
                         ELSE profile[a]]
                    /\ alerts' = [sent |-> alerts.sent \cup (ToNotify(e) \X {e}),
                                  repeated |-> alerts.repeated \/
                                     (ToNotify(e) \X {e}) \cap alerts.sent # {}]
               ELSE UNCHANGED <<profile, alerts>>
            /\ UNCHANGED defs
    /\ pass' = [pass EXCEPT ![r].of = None, ![r].life = None]
    /\ UNCHANGED <<forks, registry, clock, req, claim, ran, scen, ops, faults>>

(***************************************************************************)
(* The claim.                                                              *)
(***************************************************************************)
LifecycleGate(d) ==
    /\ clock - defs[d].checked <= StaleAfter
    /\ defs[d].life \in {"published", "deprecated"}

\* accountInstructions, rendered before the long poll starts.
ClaimRender(a) ==
    /\ Happens("claim")
    /\ claim[a] = None
    /\ ops > 0
    /\ profile[a].name # None
    /\ profile[a].name = Fork => profile[a].mode # "guarded"
    /\ RunsOn(a) \in DOMAIN defs
    /\ LifecycleGate(RunsOn(a))
    /\ claim' = [claim EXCEPT ![a] = profile[a].pin]
    /\ ops' = ops - 1
    /\ UNCHANGED <<db, registry, clock, req, pass, ran, alerts, scen, faults>>

\* Queue.Claim, of an account on its own runtime, stamps the job with the
\* revision current at the claim.
ClaimJob(a) ==
    /\ claim[a] # None
    /\ profile[a].runtime = "own"
    /\ ran' = [ran EXCEPT ![a] = [pin |-> claim[a], rev |-> profile[a].rev]]
    /\ claim' = [claim EXCEPT ![a] = None]
    /\ UNCHANGED <<db, registry, clock, req, pass, alerts, scen, ops, faults>>

\* The poll's deadline, or the worker gone.
ClaimEnds(a) ==
    /\ claim[a] # None
    /\ claim' = [claim EXCEPT ![a] = None]
    /\ UNCHANGED <<db, registry, clock, req, pass, ran, alerts, scen, ops, faults>>

(***************************************************************************)
(* The registry and the clock.                                             *)
(***************************************************************************)
\* external: an administrator moves a version's lifecycle, or a draft's content.
RegistryMove(b) ==
    /\ Happens("move")
    /\ faults > 0
    /\ faults' = faults - 1
    /\ \/ /\ registry[b].life = "published"
          /\ registry' = [registry EXCEPT ![b].life = "deprecated"]
       \/ /\ registry[b].life \in {"published", "deprecated"}
          /\ \E to \in {"disabled", "gone"} :
               registry' = [registry EXCEPT ![b].life = to]
       \/ /\ b \in Hidden
          /\ registry[b].content = 0
          /\ registry' = [registry EXCEPT ![b].content = 1]
    /\ UNCHANGED <<db, clock, req, pass, claim, ran, alerts, scen, ops>>

\* A refresh pass and a request end long before the clock's unit has passed.
Tick ==
    /\ Happens("refresh")
    /\ clock < MaxClock
    /\ \A q \in Reqs : ~ IsRunning(q)
    /\ \A r \in Refreshers : pass[r].left = {} /\ pass[r].of = None
    /\ \A a \in Accounts : claim[a] = None
    /\ clock' = clock + 1
    /\ UNCHANGED <<db, registry, req, pass, claim, ran, alerts, scen, ops, faults>>

(***************************************************************************)
(* The specification.                                                      *)
(***************************************************************************)
\* EnsureAgentProfile: the row an account starts with.
EnsureAgentProfile ==
    [name |-> None, ver |-> None, pin |-> None, rev |-> 1, mode |-> "observe",
     doc |-> {}, runtime |-> "own", consent |-> FALSE, notice |-> None]

Init ==
    /\ profile = [a \in Accounts |-> EnsureAgentProfile]
    /\ forks = [a \in Accounts |-> {}]
    /\ defs = [d \in {} |-> None]
    /\ registry = [b \in Bases |-> [life |-> "published", content |-> 0]]
    /\ clock = 0
    /\ req = [q \in Reqs |-> Idle]
    /\ pass = [r \in Refreshers |-> [left |-> {}, of |-> None, life |-> None]]
    /\ claim = [a \in Accounts |-> None]
    /\ ran = [a \in Accounts |-> None]
    /\ alerts = [sent |-> {}, repeated |-> FALSE]
    /\ \E s \in Scenarios : scen = [what |-> s[1], who |-> s[2]] /\ ops = s[3] /\ faults = s[4]

Next ==
    \/ \E q \in Reqs, a \in scen.who :
         \/ McpInstall(q, a) \/ WebInstall(q, a) \/ AdminInstall(q, a)
         \/ UpdateInstall(q, a) \/ WebUpdate(q, a) \/ AdminProfile(q, a)
         \/ CreateFork(q, a) \/ UpdateFork(q, a)
    \/ \E q \in Reqs :
         \/ Prepare(q) \/ CommitRead(q) \/ CommitWrite(q)
         \/ AdminPut(q) \/ InsertAssistantFork(q)
    \/ \E a \in scen.who :
         DeleteAssistantFork(a) \/ ClaimRender(a) \/ ClaimJob(a) \/ ClaimEnds(a)
    \/ \E r \in Refreshers : RefreshOnce(r) \/ RefreshFetch(r) \/ RefreshStore(r)
    \/ \E b \in Bases : RegistryMove(b)
    \/ Tick

Spec == Init /\ [][Next]_vars

(***************************************************************************)
(* Properties.                                                             *)
(***************************************************************************)
TypeOK ==
    /\ \A a \in Accounts :
         /\ profile[a].runtime \in {"own", "managed"}
         /\ profile[a].consent \in BOOLEAN
         /\ profile[a].doc \subseteq Settings
    /\ DOMAIN defs \subseteq BaseDigests

\* An account that pins a fork still has that fork's row, with exactly the
\* digest it pinned, and the stored definition of the fork's base, whatever
\* deletes, edits and installs of it overlap: a claim never finds the pin
\* pointing at nothing.
PinnedForkStored ==
    \A a \in Accounts :
        profile[a].name = Fork =>
            /\ profile[a].pin \in forks[a]
            /\ profile[a].pin.base \in DOMAIN defs

\* A managed account is one whose owner consented, an account on its own
\* runtime keeps no consent that a later switch could use, and no more
\* accounts are managed than the quota: also when an administrator's write,
\* which expects no revision, overlaps the owner's install.
ConsentFollowsRuntime ==
    /\ \A a \in Accounts : profile[a].consent <=> profile[a].runtime = "managed"
    /\ Cardinality({a \in Accounts : profile[a].runtime = "managed"}) <= MaxAccounts

\* A patch never undoes what it did not see: the document it writes holds
\* every setting of the document it replaces.
PatchesBuildOnStored ==
    [][\A a \in Accounts, q \in Reqs :
          (/\ req[q].pc = "write" /\ req[q].acct = a /\ req[q].patch # None
           /\ profile'[a] # profile[a] /\ req'[q] # req[q])
          => profile[a].doc \subseteq profile'[a].doc]_vars

\* An outage of the registry is told to the owner once, however many refresh
\* passes of however many replicas find the lifecycle stale.
OneAlertPerOutage == ~ alerts.repeated
=============================================================================
