-------------------------- MODULE DeviceActivation --------------------------
(***************************************************************************)
(* Self-service activation of a Local Bridge device                        *)
(* (internal/oauth/local_bridge_activate.go, cmd/local/activate.go).       *)
(*                                                                         *)
(* The activate command asks for an activation, prints its user code and   *)
(* polls.  Somebody enters the code in a browser, signs in with Telegram   *)
(* and approves; the server then registers the device.  Requests of any    *)
(* browser run side by side, and each holds the activation record it found *)
(* while it talks to Telegram or to the database.                          *)
(*                                                                         *)
(* A client is one installation: its registration key, its public key and  *)
(* its address.  Codes, states and tokens are random, so activations and   *)
(* sign-in states are numbered and a consent token is the number of times  *)
(* one was made.  createdAt orders activations as their numbers do.        *)
(***************************************************************************)
EXTENDS Integers, Sequences, FiniteSets

CONSTANTS
    Clients, Browsers, Requests, Accounts,
    Claims,                 \* [Clients -> Accounts]: the id each client activates for
    MaxActs,                \* bound: activations ever started
    MaxStates,              \* bound: sign-in states ever minted
    MaxTokens,              \* bound: consent tokens of one activation
    MaxDevices,             \* bound: device rows
    MaxActivationsPerIP, MaxPendingActivations,
    ActivationFailBudget, MaxActivationFailKeys,
    Budgets                 \* bound: pairs <<account operations and expiries, faults>>

VARIABLES
    n, act,                 \* localBridgeActivation records ever made
    live,                   \* activations, by device code
    byCode,                 \* activationsByUserCode
    states, byState,        \* sign-in states minted, and activationsByState
    expired,                \* activations older than ActivationTTL
    fails,                  \* activationFails: the count of each address with a window
    browser,                \* cookies and the consent pages it shows
    req,                    \* requests between two locks
    client,                 \* activate commands
    mode,                   \* the account's active row: "none", "local" or "hosted"
    devices,                \* local_bridge_devices, in order of insertion
    signedIn,               \* history: <<browser, activation, account>> of a verified sign-in
    ops, faults

vars == <<n, act, live, byCode, states, byState, expired, fails, browser, req, client, mode,
          devices, signedIn, ops, faults>>

None == 0
ActIds == 1..MaxActs

localBridgeActivation ==
    [by : Clients \cup {None}, st : {"none", "pending", "awaiting_consent", "resolving", "denied", "done"},
     reason : {"", "sign-in", "mismatch", "browser", "declined", "hosted"},
     state : 0..MaxStates, token : 0..MaxTokens, binding : BOOLEAN,
     result : 0..MaxDevices]

NoAct == [by |-> None, st |-> "none", reason |-> "", state |-> 0, token |-> 0, binding |-> FALSE, result |-> 0]

Idle == [pc |-> "idle", b |-> None, a |-> None]

TypeOK ==
    /\ n \in 0..MaxActs /\ act \in [ActIds -> localBridgeActivation]
    /\ live \subseteq ActIds /\ byCode \subseteq live /\ expired \subseteq ActIds
    /\ states \in 0..MaxStates /\ byState \subseteq 1..states
    /\ fails \in [Browsers -> -1..ActivationFailBudget]
    /\ \A b \in Browsers :
         /\ browser[b].state \in 0..MaxStates /\ browser[b].consent \in 0..MaxActs
         /\ browser[b].pages \subseteq ActIds \X (0..MaxTokens)
    /\ req \in [Requests -> [pc : {"idle", "exchange", "resolve", "register", "readBack", "finish"},
                             b : Browsers \cup {None}, a : 0..MaxActs]]
    /\ client \in [Clients -> [pc : {"idle", "polling", "done", "denied", "expired"}, a : 0..MaxActs,
                               device : 0..MaxDevices]]
    /\ mode \in [Accounts -> {"none", "local", "hosted"}]
    /\ devices \in Seq([user : Accounts, key : Clients, a : ActIds, via : Browsers, revoked : BOOLEAN])

Init ==
    /\ n = 0 /\ act = [a \in ActIds |-> NoAct] /\ live = {} /\ byCode = {}
    /\ states = 0 /\ byState = {} /\ expired = {}
    /\ fails = [b \in Browsers |-> -1]
    /\ browser = [b \in Browsers |-> [state |-> 0, consent |-> None, pages |-> {}]]
    /\ req = [r \in Requests |-> Idle]
    /\ client = [c \in Clients |-> [pc |-> "idle", a |-> None, device |-> None]]
    /\ mode = [u \in Accounts |-> "none"] /\ devices = << >> /\ signedIn = {}
    /\ \E b \in Budgets : ops = b[1] /\ faults = b[2]

Fault == faults > 0 /\ faults' = faults - 1
Op == ops > 0 /\ ops' = ops - 1

-----------------------------------------------------------------------------
(* The indexes. *)

\* byCode and byState without a; idx is byState as the handler left it.
unindexActivation(a, idx) ==
    /\ byCode' = byCode \ {a}
    /\ byState' = idx \ {act[a].state}

Deny(a, why, idx) ==
    /\ act' = [act EXCEPT ![a].st = "denied", ![a].reason = why, ![a].token = 0]
    /\ unindexActivation(a, idx)

\* Refused unless the activation is still in state from.
denyActivationFrom(a, from, why, idx) ==
    IF act[a].st # from THEN byState' = idx /\ UNCHANGED <<act, byCode>>
    ELSE Deny(a, why, idx)

denyActivation(a, why, idx) == denyActivationFrom(a, "pending", why, idx)

activationsForIP(c) == {a \in live : act[a].by = c}

Oldest(as) == CHOOSE a \in as : \A b \in as : a <= b

-----------------------------------------------------------------------------
(* Failed submissions of an address: -1 stands for no window. *)

activationFailBudgetSpent(b) == fails[b] >= ActivationFailBudget

\* A new window takes the place of another address's when the map is full.
recordActivationFailure(b) ==
    IF fails[b] >= 0
    THEN fails' = [fails EXCEPT ![b] = IF @ < ActivationFailBudget THEN @ + 1 ELSE @]
    ELSE LET windows == {o \in Browsers : fails[o] >= 0}
         IN  IF Cardinality(windows) < MaxActivationFailKeys
             THEN fails' = [fails EXCEPT ![b] = 1]
             ELSE \E o \in windows : fails' = [fails EXCEPT ![o] = -1, ![b] = 1]

FailWindowEnds(b) ==
    /\ fails[b] >= 0
    /\ fails' = [fails EXCEPT ![b] = -1]
    /\ UNCHANGED <<n, act, live, byCode, states, byState, expired, browser, req, client, mode,
                   devices, signedIn, ops, faults>>

-----------------------------------------------------------------------------
(* The activate command. *)

Starts(c, dropped) ==
    /\ n' = n + 1
    /\ act' = [act EXCEPT ![n + 1] = [NoAct EXCEPT !.by = c, !.st = "pending"]]
    /\ live' = (live \ dropped) \cup {n + 1}
    /\ byCode' = (byCode \ dropped) \cup {n + 1}
    /\ byState' = byState \ {act[a].state : a \in dropped}
    /\ client' = [client EXCEPT ![c] = [pc |-> "polling", a |-> n + 1, device |-> None]]

\* An address at its own cap, or one that meets a full map, recycles its own
\* oldest activation; one that has none is refused.
Admit(c) ==
    LET own == activationsForIP(c)
    IN  IF Cardinality(own) >= MaxActivationsPerIP /\ own # {} THEN Starts(c, {Oldest(own)})
        ELSE IF Cardinality(live) < MaxPendingActivations THEN Starts(c, {})
        ELSE own # {} /\ Starts(c, {Oldest(own)})

\* The command is run, or run again; an earlier run has ended or was stopped.
handleActivateStart(c) ==
    /\ n < MaxActs
    /\ Admit(c)
    /\ UNCHANGED <<states, expired, fails, browser, req, mode, devices, signedIn, ops, faults>>

handleActivatePoll(a) ==
    IF a \notin live \ expired THEN "expired"
    ELSE IF act[a].st \in {"denied", "done"} THEN act[a].st ELSE "pending"

\* A poll whose answer is lost, or says pending, is made again.
runActivateFlow(c) ==
    LET a == client[c].a answer == handleActivatePoll(a)
    IN  /\ client[c].pc = "polling" /\ answer # "pending"
        /\ client' = [client EXCEPT ![c].pc = answer,
                                    ![c].device = IF answer = "done" THEN act[a].result ELSE None]
        /\ UNCHANGED <<n, act, live, byCode, states, byState, expired, fails, browser, req, mode,
                       devices, signedIn, ops, faults>>

\* ActivationTTL passes, and later the sweeper drops the record.
Expire(a) ==
    /\ a \in live \ expired /\ Op
    /\ expired' = expired \cup {a}
    /\ UNCHANGED <<n, act, live, byCode, states, byState, fails, browser, req, client, mode,
                   devices, signedIn, faults>>

sweepOnce ==
    /\ live \cap expired # {}
    /\ live' = live \ expired /\ byCode' = byCode \ expired
    /\ byState' = byState \ {act[a].state : a \in live \cap expired}
    /\ UNCHANGED <<n, act, states, expired, fails, browser, req, client, mode, devices, signedIn,
                   ops, faults>>

-----------------------------------------------------------------------------
(* The browser. *)

FaultyCookieMatches(b, a) == act[a].binding

\* The consent cookie names the sign-in that this activation awaits consent from.
consentCookieMatches(b, a) == act[a].binding /\ browser[b].consent = a

\* A consent page with a fresh token.
ShowConsent(b, a) ==
    /\ act[a].token + ops + faults < MaxTokens
    /\ browser' = [browser EXCEPT ![b].pages = @ \cup {<<a, act[a].token + 1>>}]

Rejected(b) ==
    /\ recordActivationFailure(b)
    /\ UNCHANGED <<act, states, byState, browser>>

\* A code is entered: an unknown or used one counts against the address.
handleActivateVerify(b, a) ==
    /\ a \in 1..n /\ ~activationFailBudgetSpent(b)
    /\ \/ /\ \/ a \notin byCode \ expired
             \/ act[a].st \notin {"pending", "awaiting_consent"}
             \/ act[a].st = "awaiting_consent" /\ ~consentCookieMatches(b, a)
          /\ Rejected(b)
       \/ /\ a \in byCode \ expired /\ act[a].st = "awaiting_consent" /\ consentCookieMatches(b, a)
          /\ ShowConsent(b, a)
          /\ act' = [act EXCEPT ![a].token = @ + 1]
          /\ UNCHANGED <<states, byState, fails>>
       \/ /\ a \in byCode \ expired /\ act[a].st = "pending" /\ states < MaxStates
          /\ states' = states + 1
          /\ act' = [act EXCEPT ![a].state = states + 1]
          /\ byState' = (byState \ {act[a].state}) \cup {states + 1}
          /\ browser' = [browser EXCEPT ![b].state = states + 1]
          /\ UNCHANGED fails
    /\ UNCHANGED <<n, live, byCode, expired, req, client, mode, devices, signedIn, ops, faults>>

\* Telegram sends some browser back with a state, which is used up; a browser
\* without the state's cookie ends the activation.
handleTelegramCallback(r, b, s) ==
    /\ req[r].pc = "idle" /\ s \in byState
    /\ LET a == CHOOSE x \in ActIds : act[x].state = s
       IN  IF browser[b].state = s
           THEN /\ req' = [req EXCEPT ![r] = [pc |-> "exchange", b |-> b, a |-> a]]
                /\ byState' = byState \ {s}
                /\ UNCHANGED <<act, byCode>>
           ELSE denyActivation(a, "browser", byState \ {s}) /\ UNCHANGED req
    /\ browser' = [browser EXCEPT ![b].state = 0]
    /\ UNCHANGED <<n, live, states, expired, fails, client, mode, devices, signedIn, ops, faults>>

\* The exchange names account u, or none: only the account the client claimed
\* moves the activation on, and only while it is pending.
finishActivation(r, u) ==
    LET a == req[r].a b == req[r].b
    IN  /\ req[r].pc = "exchange"
        /\ \/ /\ u # Claims[act[a].by]
              /\ denyActivation(a, IF u = None THEN "sign-in" ELSE "mismatch", byState)
              /\ UNCHANGED <<browser, signedIn>>
           \/ /\ u = Claims[act[a].by] /\ act[a].st = "pending"
              /\ act' = [act EXCEPT ![a].st = "awaiting_consent", ![a].token = 1, ![a].binding = TRUE]
              /\ browser' = [browser EXCEPT ![b].consent = a, ![b].pages = @ \cup {<<a, 1>>}]
              /\ signedIn' = signedIn \cup {<<b, a, u>>}
              /\ UNCHANGED <<byCode, byState>>
           \/ /\ u = Claims[act[a].by] /\ act[a].st # "pending"
              /\ UNCHANGED <<act, byCode, byState, browser, signedIn>>
        /\ req' = [req EXCEPT ![r] = Idle]
        /\ UNCHANGED <<n, live, states, expired, fails, client, mode, devices, ops, faults>>

\* Approve or decline is pressed on one of the pages the browser shows.
handleActivateConsent(r, b, page, approve) ==
    LET a == page[1]
        ok == /\ a \in byCode \ expired /\ act[a].st = "awaiting_consent"
              /\ act[a].token = page[2] /\ consentCookieMatches(b, a)
    IN  /\ req[r].pc = "idle" /\ page \in browser[b].pages /\ ~activationFailBudgetSpent(b)
        /\ \/ /\ ~ok
              /\ recordActivationFailure(b)
              /\ browser' = [browser EXCEPT ![b].pages = @ \ {page}]
              /\ UNCHANGED <<act, byCode, byState, req>>
           \/ /\ ok /\ ~approve
              /\ act' = [act EXCEPT ![a].st = "denied", ![a].reason = "declined", ![a].token = 0,
                                    ![a].binding = FALSE]
              /\ unindexActivation(a, byState)
              /\ browser' = [browser EXCEPT ![b].consent = None, ![b].pages = @ \ {page}]
              /\ UNCHANGED <<fails, req>>
           \/ /\ ok /\ approve
              /\ act' = [act EXCEPT ![a].st = "resolving"]
              /\ req' = [req EXCEPT ![r] = [pc |-> "resolve", b |-> b, a |-> a]]
              /\ browser' = [browser EXCEPT ![b].pages = @ \ {page}]
              /\ UNCHANGED <<byCode, byState, fails>>
        /\ UNCHANGED <<n, live, states, expired, client, mode, devices, signedIn, ops, faults>>

-----------------------------------------------------------------------------
(* approveActivation: the account, the device, and the result. *)

Goes(r, pc) == req' = [req EXCEPT ![r].pc = pc]

\* A failed store call offers the consent page again.
retryActivationAfterStoreFailure(r) ==
    LET a == req[r].a b == req[r].b
    IN  /\ act' = [act EXCEPT ![a].st = "awaiting_consent", ![a].token = @ + 1]
        /\ browser' = [browser EXCEPT ![b].pages = @ \cup {<<a, act[a].token + 1>>}]
        /\ req' = [req EXCEPT ![r] = Idle]
        /\ UNCHANGED <<byCode, byState, devices, mode>>

\* The user row, then the account row: an active one must be local.
ResolveAccount(r) ==
    LET a == req[r].a u == Claims[act[a].by]
    IN  /\ req[r].pc = "resolve"
        /\ \/ Fault /\ retryActivationAfterStoreFailure(r)
           \/ /\ mode[u] = "hosted"
              /\ denyActivationFrom(a, "resolving", "hosted", byState)
              /\ req' = [req EXCEPT ![r] = Idle]
              /\ UNCHANGED <<browser, mode, devices, faults>>
           \/ /\ mode[u] # "hosted"
              /\ mode' = [mode EXCEPT ![u] = "local"]
              /\ Goes(r, "register")
              /\ UNCHANGED <<act, byCode, byState, browser, devices, faults>>
        /\ UNCHANGED <<n, live, states, expired, fails, client, signedIn, ops>>

ActiveRows(u, c) == {d \in 1..Len(devices) : devices[d].user = u /\ devices[d].key = c /\ ~devices[d].revoked}

\* The insert is ignored when an active row of the user has the registration key.
RegisterDevice(r) ==
    LET a == req[r].a c == act[a].by u == Claims[c]
    IN  /\ req[r].pc = "register"
        /\ \/ /\ Fault /\ retryActivationAfterStoreFailure(r)
           \/ /\ IF ActiveRows(u, c) # {} THEN UNCHANGED devices
                 ELSE /\ Len(devices) < MaxDevices
                      /\ devices' = Append(devices, [user |-> u, key |-> c, a |-> a, via |-> req[r].b,
                                                     revoked |-> FALSE])
              /\ Goes(r, "readBack")
              /\ UNCHANGED <<act, byCode, byState, browser, mode, faults>>
        /\ UNCHANGED <<n, live, states, expired, fails, client, signedIn, ops>>

\* The row that owns the key is read back and its id is the result; it may have
\* been revoked since.
ReadBack(r) ==
    LET a == req[r].a c == act[a].by rows == ActiveRows(Claims[c], c)
    IN  /\ req[r].pc = "readBack"
        /\ \/ /\ (rows = {} /\ UNCHANGED faults) \/ Fault
              /\ retryActivationAfterStoreFailure(r)
           \/ /\ rows # {}
              /\ act' = [act EXCEPT ![a].result = CHOOSE d \in rows : TRUE]
              /\ Goes(r, "finish")
              /\ UNCHANGED <<byCode, byState, browser, mode, devices, faults>>
        /\ UNCHANGED <<n, live, states, expired, fails, client, signedIn, ops>>

approveActivation(r) ==
    LET a == req[r].a b == req[r].b
    IN  /\ req[r].pc = "finish"
        /\ act' = [act EXCEPT ![a].st = "done", ![a].binding = FALSE]
        /\ unindexActivation(a, byState)
        /\ browser' = [browser EXCEPT ![b].consent = None]
        /\ req' = [req EXCEPT ![r] = Idle]
        /\ UNCHANGED <<n, live, states, expired, fails, client, mode, devices, signedIn, ops, faults>>

-----------------------------------------------------------------------------
(* What else happens to the account. *)

RevokeDeviceAndDenylist(d) ==
    /\ Op /\ ~devices[d].revoked
    /\ devices' = [devices EXCEPT ![d].revoked = TRUE]
    /\ UNCHANGED <<n, act, live, byCode, states, byState, expired, fails, browser, req, client, mode,
                   signedIn, faults>>

\* A hosted sign-in of an account that has no active row.
SaveSession(u) ==
    /\ Op /\ mode[u] = "none"
    /\ mode' = [mode EXCEPT ![u] = "hosted"]
    /\ UNCHANGED <<n, act, live, byCode, states, byState, expired, fails, browser, req, client,
                   devices, signedIn, faults>>

Next ==
    \/ \E c \in Clients : handleActivateStart(c) \/ runActivateFlow(c)
    \/ \E b \in Browsers : FailWindowEnds(b) \/ \E a \in ActIds : handleActivateVerify(b, a)
    \/ \E a \in ActIds : Expire(a)
    \/ sweepOnce
    \/ \E r \in Requests :
         \/ \E b \in Browsers, s \in 1..MaxStates : handleTelegramCallback(r, b, s)
         \/ \E u \in Accounts \cup {None} : finishActivation(r, u)
         \/ \E b \in Browsers : \E page \in browser[b].pages, approve \in BOOLEAN :
              handleActivateConsent(r, b, page, approve)
         \/ ResolveAccount(r) \/ RegisterDevice(r) \/ ReadBack(r) \/ approveActivation(r)
    \/ \E d \in 1..Len(devices) : RevokeDeviceAndDenylist(d)
    \/ \E u \in Accounts : SaveSession(u)

Spec == Init /\ [][Next]_vars

-----------------------------------------------------------------------------
(* Properties. *)

\* Every device row belongs to the account its client claimed, and the browser
\* whose approval registered it had itself signed in to that account for that
\* activation, whatever other browsers did with the code meanwhile.
ApprovedByOwner ==
    \A d \in 1..Len(devices) :
      /\ devices[d].user = Claims[devices[d].key]
      /\ <<devices[d].via, devices[d].a, devices[d].user>> \in signedIn

\* A sign-in that ends badly in one browser never takes the activation from
\* another that has signed in: past pending, only the consenting browser's
\* decline or a hosted account ends it in denied, and an end is final.
LateSignInHarmless ==
    \A a \in ActIds :
        /\ act[a].st \in {"denied", "done"} => act'[a].st = act[a].st
        /\ act[a].st \in {"awaiting_consent", "resolving"} /\ act'[a].st = "denied"
             => act'[a].reason \in {"declined", "hosted"}

\* Starting an activation takes away an activation of the same address only, so
\* nobody's sign-in is cut short by another address filling the map.
OwnSlotsOnly ==
    \A c \in Clients : client'[c] # client[c] /\ client'[c].pc = "polling"
        => \A a \in live \ live' : act[a].by = c

\* A done activation names a device row of its own client, and no client is
\* ever left with two active rows.
OneDevicePerClient ==
    /\ \A a \in ActIds : act[a].st = "done" => devices[act[a].result].key = act[a].by
    /\ \A c \in Clients : Cardinality(ActiveRows(Claims[c], c)) <= 1
=============================================================================
