------------------------------- MODULE SignIn -------------------------------
(***************************************************************************)
(* Connecting a Telegram account in the browser: the pages of one user's   *)
(* enable_access sessions (tabs), the login goroutine each one starts, the *)
(* MTProto login it runs, and the session row the login ends in.           *)
(*                                                                         *)
(* Every login makes its own auth key.  Once Telegram has authorized it,   *)
(* somebody holds a working session of the account: the login must store   *)
(* it, or log it out.  Flow i's key is called i.  A row is an active row   *)
(* of telegram_accounts: stored is the key of the hosted one, local says   *)
(* whether there is a Local Bridge one.                                    *)
(***************************************************************************)
EXTENDS Integers, FiniteSets

CONSTANTS
    Tabs,                   \* enable_access sessions of the user
    Methods,                \* "code" and "qr"
    MaxFlows,               \* bound: logins started
    Budgets,                \* bound: account operations and faults, as pairs <<ops, faults>>
    LoginCodeAttempts,
    LoginPasswordAttempts

VARIABLES
    tab,                    \* enables: step, flow, and what its handler waits for
    n,                      \* logins started so far
    fl,                     \* loginFlow and its goroutine
    latest,                 \* loginFlows[uid]
    mutex,                  \* uidLoginMutex: the flow that holds it
    local, stored,          \* the user's active rows
    provisioning,           \* ProvisionLocalAccount between its check and its commit
    auth,                   \* Telegram: what each key may do
    logOuts,                \* keys whose background log-out has not run
    lost,                   \* keys whose log-out failed, or was never asked for
    dropped,                \* keys whose row a save refused for a deletion took away
    saved,                  \* flows whose session was stored
    ops,                    \* revocations, deletions and provisionings still allowed
    faults                  \* failed database calls and log-outs still allowed

None == 0
FlowIds == 1..MaxFlows
rows == <<local, stored, provisioning, ops>>
keys == <<auth, logOuts, lost, dropped>>
vars == <<tab, n, fl, latest, mutex, rows, keys, saved, faults>>

Errors == {"", "cancelled", "conflict", "deleted", "mode_check", "mismatch", "failed"}

enableSession ==
    [st : {"none", "open", "gone"}, step : {"phone", "code", "password", "qr", "done"},
     flow : 0..MaxFlows, req : {"none", "start", "code", "password"}, deletedSince : BOOLEAN]

loginFlow ==
    [pc : {"none", "queued", "connect", "needCode", "signIn", "needPw", "checkPw", "qr", "scanned",
           "authed", "held", "save", "logOut", "unlock", "done"},
     method : Methods \cup {""}, by : Tabs \cup {None}, tries : 0..LoginCodeAttempts + LoginPasswordAttempts,
     restarted : BOOLEAN, submitted : BOOLEAN, cancelled : BOOLEAN,
     err : Errors, codeAsked : BOOLEAN, pwAsked : BOOLEAN]

NoFlow ==
    [pc |-> "none", method |-> "", by |-> None, tries |-> 0, restarted |-> FALSE, submitted |-> FALSE,
     cancelled |-> FALSE, err |-> "", codeAsked |-> FALSE, pwAsked |-> FALSE]

TypeOK ==
    /\ tab \in [Tabs -> enableSession] /\ n \in 0..MaxFlows /\ fl \in [FlowIds -> loginFlow]
    /\ latest \in 0..MaxFlows /\ mutex \in 0..MaxFlows
    /\ local \in BOOLEAN /\ stored \in 0..MaxFlows /\ provisioning \in BOOLEAN
    /\ auth \in [FlowIds -> {"none", "live", "ended"}]
    /\ logOuts \subseteq FlowIds /\ lost \subseteq FlowIds /\ dropped \subseteq FlowIds
    /\ saved \subseteq FlowIds
    /\ ops \in Nat /\ faults \in Nat

Init ==
    /\ tab = [e \in Tabs |-> [st |-> "none", step |-> "phone", flow |-> None, req |-> "none",
                              deletedSince |-> FALSE]]
    /\ n = 0 /\ fl = [i \in FlowIds |-> NoFlow] /\ latest = None /\ mutex = None
    /\ local = FALSE /\ stored = None /\ provisioning = FALSE
    /\ auth = [i \in FlowIds |-> "none"] /\ logOuts = {} /\ lost = {} /\ dropped = {} /\ saved = {}
    /\ \E b \in Budgets : ops = b[1] /\ faults = b[2]

Fault == faults > 0 /\ faults' = faults - 1
Op == ops > 0 /\ ops' = ops - 1

-----------------------------------------------------------------------------
(* The account's rows. *)

\* What a finished log-out of the keys leaves: Telegram ended them, or the call
\* failed and they stay.
LogOut(ks) ==
    \/ /\ auth' = [k \in FlowIds |-> IF k \in ks /\ auth[k] = "live" THEN "ended" ELSE auth[k]]
       /\ UNCHANGED <<lost, faults>>
    \/ /\ \E k \in ks : auth[k] = "live"
       /\ Fault /\ lost' = lost \cup {k \in ks : auth[k] = "live"}
       /\ UNCHANGED auth

activeSessionBlobs == {stored} \ {None}

SessionEndedLogOut(k) ==
    /\ k \in logOuts
    /\ logOuts' = logOuts \ {k}
    /\ LogOut({k})
    /\ UNCHANGED <<tab, n, fl, latest, mutex, rows, dropped, saved>>

RevokeActiveSession ==
    /\ Op
    /\ local \/ stored # None
    /\ logOuts' = logOuts \cup activeSessionBlobs
    /\ local' = FALSE /\ stored' = None
    /\ UNCHANGED <<tab, n, fl, latest, mutex, provisioning, auth, lost, dropped, saved, faults>>

\* The pages opened before the deletion remember when their sign-in began.
HardDeleteAccount ==
    /\ Op
    /\ \E e \in Tabs : tab[e].st = "open" /\ ~tab[e].deletedSince
    /\ tab' = [e \in Tabs |-> [tab[e] EXCEPT !.deletedSince = @ \/ tab[e].st = "open"]]
    /\ logOuts' = logOuts \cup activeSessionBlobs
    /\ local' = FALSE /\ stored' = None
    /\ UNCHANGED <<n, fl, latest, mutex, provisioning, auth, lost, dropped, saved, faults>>

\* The check and the insert are one statement, whose snapshot may be older than
\* a sign-in that commits meanwhile.
ProvisionLocalAccount ==
    /\ IF provisioning THEN local' = TRUE /\ UNCHANGED ops
       ELSE ~local /\ stored = None /\ Op /\ UNCHANGED local
    /\ provisioning' = ~provisioning
    /\ UNCHANGED <<tab, n, fl, latest, mutex, stored, keys, saved, faults>>

-----------------------------------------------------------------------------
(* The login goroutine. *)

Flow(i, r) == fl' = [fl EXCEPT ![i] = r]

\* The run is over: an authorization that may exist is logged out first.
Ends(i, err) ==
    [fl[i] EXCEPT !.pc = IF fl[i].submitted THEN "logOut" ELSE "unlock", !.err = err]

\* CompareAndDelete, Unlock and close(done).
Unlock(i) ==
    /\ fl[i].pc = "unlock"
    /\ mutex' = None
    /\ latest' = IF latest = i THEN None ELSE latest
    /\ Flow(i, [NoFlow EXCEPT !.pc = "done", !.method = fl[i].method, !.by = fl[i].by, !.err = fl[i].err])
    /\ UNCHANGED <<tab, n, rows, keys, saved, faults>>

\* The flow's context ends at CodeTTL.
Deadline(i) ==
    /\ fl[i].pc \notin {"none", "done"} /\ ~fl[i].cancelled
    /\ Flow(i, [fl[i] EXCEPT !.cancelled = TRUE])
    /\ UNCHANGED <<tab, n, latest, mutex, rows, keys, saved, faults>>

Lock(i) ==
    /\ fl[i].pc = "queued" /\ mutex = None
    /\ mutex' = i
    /\ \/ fl[i].cancelled /\ Flow(i, Ends(i, "cancelled")) /\ UNCHANGED faults
       \/ ~fl[i].cancelled /\ Fault /\ Flow(i, Ends(i, "mode_check"))
       \/ /\ ~fl[i].cancelled /\ UNCHANGED faults
          /\ Flow(i, IF local THEN Ends(i, "conflict") ELSE [fl[i] EXCEPT !.pc = "connect"])
    /\ UNCHANGED <<tab, n, latest, rows, keys, saved>>

AskCode(i, tries) == [fl[i] EXCEPT !.pc = "needCode", !.codeAsked = TRUE, !.tries = tries]

AskPassword(i, tries) == [fl[i] EXCEPT !.pc = "needPw", !.pwAsked = TRUE, !.tries = tries]

\* AUTH_RESTART is answered once, by asking for a code again.
Restarted(i) ==
    /\ fl[i].method = "code" /\ ~fl[i].restarted
    /\ Flow(i, [fl[i] EXCEPT !.pc = "connect", !.restarted = TRUE, !.tries = 0])

Quiet == UNCHANGED <<tab, n, latest, mutex, rows, logOuts, lost, dropped, saved, faults>>

\* auth.sendCode, or the first QR code.
Connect(i) ==
    /\ fl[i].pc = "connect"
    /\ \/ Flow(i, Ends(i, "failed"))
       \/ Restarted(i)
       \/ /\ ~fl[i].cancelled
          /\ Flow(i, IF fl[i].method = "qr" THEN [fl[i] EXCEPT !.pc = "qr"] ELSE AskCode(i, 1))
    /\ UNCHANGED auth /\ Quiet

\* A flow that waits for the user gives up when its context ends.
WaitEnds(i) ==
    /\ fl[i].pc \in {"needCode", "needPw", "qr"} /\ fl[i].cancelled
    /\ Flow(i, Ends(i, "cancelled"))
    /\ UNCHANGED auth /\ Quiet

\* The QR wait runs out, or the phone accepts the code.
QRWait(i) ==
    /\ fl[i].pc = "qr"
    /\ \/ Flow(i, Ends(i, "failed"))
       \/ Flow(i, [fl[i] EXCEPT !.pc = "scanned", !.submitted = TRUE])
    /\ UNCHANGED auth /\ Quiet

Authorized(i) == auth' = [auth EXCEPT ![i] = "live"]

\* The answer to a code, a password or an accepted QR code.  It may be lost
\* although Telegram authorized the key.
Answer(i) ==
    /\ fl[i].pc \in {"signIn", "checkPw", "scanned"}
    /\ \/ Authorized(i) /\ Flow(i, [fl[i] EXCEPT !.pc = "authed"])
       \/ Authorized(i) /\ Flow(i, Ends(i, "failed"))
       \/ /\ UNCHANGED auth
          /\ \/ Flow(i, Ends(i, "failed"))
             \/ fl[i].pc # "scanned" /\ Restarted(i)
             \/ fl[i].pc # "checkPw" /\ Flow(i, AskPassword(i, 1))
             \/ /\ fl[i].pc = "signIn" /\ fl[i].tries < LoginCodeAttempts
                /\ Flow(i, AskCode(i, fl[i].tries + 1))
             \/ /\ fl[i].pc = "checkPw" /\ fl[i].tries < LoginPasswordAttempts
                /\ Flow(i, AskPassword(i, fl[i].tries + 1))
    /\ Quiet

\* Whose account was it?  Another one is logged out on the spot and its bytes
\* dropped; the right one is handed over.
settleLogin(i) ==
    /\ fl[i].pc = "authed"
    /\ \/ Flow(i, Ends(i, "failed")) /\ UNCHANGED <<auth, lost, faults>>
       \/ Flow(i, [fl[i] EXCEPT !.pc = "unlock", !.err = "mismatch"]) /\ LogOut({i})
       \/ Flow(i, [fl[i] EXCEPT !.pc = "held"]) /\ UNCHANGED <<auth, lost, faults>>
    /\ UNCHANGED <<tab, n, latest, mutex, rows, logOuts, dropped, saved>>

Held(i) ==
    /\ fl[i].pc = "held"
    /\ Flow(i, IF fl[i].cancelled THEN Ends(i, "cancelled")
               ELSE [fl[i] EXCEPT !.pc = "save"])
    /\ UNCHANGED auth /\ Quiet

Stores(i) ==
    /\ fl[i].pc = "save"
    /\ stored' = i /\ saved' = saved \cup {i}
    /\ Flow(i, [fl[i] EXCEPT !.pc = "unlock"])
    /\ logOuts' = logOuts \cup activeSessionBlobs
    /\ UNCHANGED <<tab, n, latest, mutex, provisioning, ops, auth, lost, dropped, faults>>

\* The transaction that supersedes the old row, and SetSendEnabled after it, whose
\* failure is reported while the session stays.  A commit whose answer is lost
\* has happened, and nobody is told of the sessions it superseded.
saveSession(i) ==
    /\ fl[i].pc = "save"
    /\ \/ /\ tab[fl[i].by].deletedSince
          /\ Flow(i, Ends(i, "deleted"))
          /\ dropped' = dropped \cup activeSessionBlobs /\ stored' = None
          /\ UNCHANGED <<logOuts, lost, saved, faults>>
       \/ /\ ~tab[fl[i].by].deletedSince /\ local
          /\ Flow(i, Ends(i, "conflict")) /\ UNCHANGED <<stored, logOuts, lost, dropped, saved, faults>>
       \/ Fault /\ Flow(i, Ends(i, "failed")) /\ UNCHANGED <<stored, logOuts, lost, dropped, saved>>
       \/ /\ ~tab[fl[i].by].deletedSince /\ ~local
          /\ stored' = i /\ saved' = saved \cup {i} /\ UNCHANGED dropped
          /\ \/ /\ \E err \in {"", "failed"} : Flow(i, [fl[i] EXCEPT !.pc = "unlock", !.err = err])
                /\ logOuts' = logOuts \cup activeSessionBlobs /\ UNCHANGED <<lost, faults>>
             \/ /\ Fault /\ Flow(i, Ends(i, "failed"))
                /\ lost' = lost \cup activeSessionBlobs /\ UNCHANGED logOuts
    /\ UNCHANGED <<tab, n, latest, mutex, local, provisioning, ops, auth>>

\* The log-out of a login that failed, or whose session was not stored.
logOutUnusedSession(i) ==
    /\ fl[i].pc = "logOut"
    /\ Flow(i, [fl[i] EXCEPT !.pc = "unlock"])
    /\ LogOut({i})
    /\ UNCHANGED <<tab, n, latest, mutex, rows, logOuts, dropped, saved>>

-----------------------------------------------------------------------------
(* The pages.  A handler holds the tab's lock; while it waits for the flow, *)
(* every other request of the tab is told to come back.                     *)

Free(e) == tab[e].st = "open" /\ tab[e].req = "none"
FlowOf(e) == fl[tab[e].flow]
Page(e, r) == tab' = [tab EXCEPT ![e] = r]
Elsewhere == UNCHANGED <<n, latest, mutex, rows, keys, saved, faults>>

\* The callback of the sign-in opens the page.
OpenEnable(e) ==
    /\ tab[e].st = "none"
    /\ Page(e, [tab[e] EXCEPT !.st = "open"])
    /\ UNCHANGED fl /\ Elsewhere

Superseded(j) == IF fl[j].pc = "done" THEN fl[j] ELSE [fl[j] EXCEPT !.cancelled = TRUE]

Cancel(js) == fl' = [j \in FlowIds |-> IF j \in js THEN Superseded(j) ELSE fl[j]]

Abandoned(e) == [tab[e] EXCEPT !.step = "phone", !.flow = None, !.req = "none"]

abandonFlow(e) == Page(e, Abandoned(e)) /\ Cancel({tab[e].flow})

\* Also handleEnablePermissions: the page is back at the phone step, and a flow
\* it had keeps running.
renderEnablePhoneStep(e) == Page(e, [tab[e] EXCEPT !.step = "phone", !.req = "none"])

finishEnable(e) ==
    Page(e, [tab[e] EXCEPT !.st = "gone", !.step = "done", !.flow = None, !.req = "none"])

\* Another tab's flow is left alone.
FaultyStartLoginFlow(e, method, step, req) ==
    /\ n < MaxFlows
    /\ n' = n + 1 /\ latest' = n + 1
    /\ fl' = [j \in FlowIds |->
                IF j = n + 1 THEN [NoFlow EXCEPT !.pc = "queued", !.method = method, !.by = e]
                ELSE IF j = tab[e].flow THEN Superseded(j) ELSE fl[j]]
    /\ Page(e, [tab[e] EXCEPT !.step = step, !.flow = n + 1, !.req = req])

\* A new flow takes the user's entry; the one it finds there, and the tab's own,
\* are cancelled.
startLoginFlow(e, method, step, req) ==
    /\ n < MaxFlows
    /\ n' = n + 1 /\ latest' = n + 1
    /\ fl' = [j \in FlowIds |->
                IF j = n + 1 THEN [NoFlow EXCEPT !.pc = "queued", !.method = method, !.by = e]
                ELSE IF j \in {latest, tab[e].flow} THEN Superseded(j) ELSE fl[j]]
    /\ Page(e, [tab[e] EXCEPT !.step = step, !.flow = n + 1, !.req = req])

\* The local-mode check in front of every new flow.
StartOrRefuse(e, method, step, req) ==
    \/ /\ local /\ abandonFlow(e) /\ UNCHANGED <<n, latest, faults>>
    \/ /\ Fault /\ abandonFlow(e) /\ UNCHANGED <<n, latest>>
    \/ /\ ~local /\ startLoginFlow(e, method, step, req) /\ UNCHANGED faults

handleEnableStart(e) ==
    /\ Free(e) /\ ~(tab[e].step = "code" /\ tab[e].flow # None)
    /\ "code" \in Methods
    /\ StartOrRefuse(e, "code", "code", "start")
    /\ UNCHANGED <<mutex, rows, keys, saved>>

\* An invalid phone number, the permissions page, or going back.
BackToPhone(e) ==
    /\ Free(e) /\ tab[e].step \in {"code", "password", "qr"}
    /\ ~(tab[e].step = "code" /\ tab[e].flow # None)
    /\ renderEnablePhoneStep(e)
    /\ UNCHANGED fl /\ Elsewhere

handleEnableQRStart(e) ==
    /\ Free(e) /\ tab[e].step \in {"phone", "code"}
    /\ "qr" \in Methods
    /\ StartOrRefuse(e, "qr", "qr", "none")
    /\ UNCHANGED <<mutex, rows, keys, saved>>

\* The rendezvous on codeCh, a flow that is over, or one that does not listen.
handleEnableCode(e) ==
    /\ Free(e) /\ tab[e].step = "code" /\ tab[e].flow # None
    /\ \/ /\ FlowOf(e).pc = "needCode"
          /\ Flow(tab[e].flow, [FlowOf(e) EXCEPT !.pc = "signIn", !.submitted = TRUE])
          /\ Page(e, [tab[e] EXCEPT !.req = "code"])
       \/ FlowOf(e).pc = "done" /\ Page(e, [tab[e] EXCEPT !.req = "code"]) /\ UNCHANGED fl
       \/ FlowOf(e).pc \notin {"needCode", "done"} /\ renderEnablePhoneStep(e) /\ UNCHANGED fl
    /\ Elsewhere

handleEnablePassword(e) ==
    /\ Free(e) /\ tab[e].step = "password" /\ tab[e].flow # None
    /\ \/ /\ FlowOf(e).pc = "needPw"
          /\ Flow(tab[e].flow, [FlowOf(e) EXCEPT !.pc = "checkPw"])
          /\ Page(e, [tab[e] EXCEPT !.req = "password"])
       \/ FlowOf(e).pc = "done" /\ Page(e, [tab[e] EXCEPT !.req = "password"]) /\ UNCHANGED fl
       \/ FlowOf(e).pc \notin {"needPw", "done"} /\ renderEnablePhoneStep(e) /\ UNCHANGED fl
    /\ Elsewhere

\* The waiting handler takes the flow's question off its channel.
Asked(e) ==
    /\ tab[e].st = "open" /\ tab[e].req # "none"
    /\ \/ /\ FlowOf(e).codeAsked
          /\ Flow(tab[e].flow, [FlowOf(e) EXCEPT !.codeAsked = FALSE])
          /\ Page(e, [tab[e] EXCEPT !.step = "code", !.req = "none"])
       \/ /\ tab[e].req # "start" /\ FlowOf(e).pwAsked
          /\ Flow(tab[e].flow, [FlowOf(e) EXCEPT !.pwAsked = FALSE])
          /\ Page(e, [tab[e] EXCEPT !.step = "password", !.req = "none"])
    /\ Elsewhere

\* The flow is over: the handler that waits for it, or the QR page, sees how.
FlowDone(e) ==
    /\ tab[e].st = "open" /\ tab[e].flow # None /\ FlowOf(e).pc = "done"
    /\ tab[e].req # "none" \/ tab[e].step = "qr"
    /\ CASE FlowOf(e).err = "" -> finishEnable(e) /\ UNCHANGED fl
         [] FlowOf(e).err \in {"conflict", "deleted", "mode_check"} \/ FlowOf(e).method = "qr" -> abandonFlow(e)
         [] OTHER -> renderEnablePhoneStep(e) /\ UNCHANGED fl
    /\ Elsewhere

\* The handler stops waiting.  Only the phone step gives its flow up.
HandlerTimeout(e) ==
    /\ tab[e].st = "open" /\ tab[e].req # "none"
    /\ IF tab[e].req = "start" THEN abandonFlow(e) ELSE renderEnablePhoneStep(e) /\ UNCHANGED fl
    /\ Elsewhere

\* The QR page polls; a scanned code may still need the password.
handleEnableQRStatus(e) ==
    /\ Free(e) /\ tab[e].step = "qr" /\ tab[e].flow # None
    /\ FlowOf(e).pc # "done" /\ FlowOf(e).pwAsked
    /\ Flow(tab[e].flow, [FlowOf(e) EXCEPT !.pwAsked = FALSE])
    /\ Page(e, [tab[e] EXCEPT !.step = "password"])
    /\ Elsewhere

handleEnableQRCancel(e) ==
    /\ Free(e) /\ tab[e].step = "qr"
    /\ abandonFlow(e)
    /\ Elsewhere

\* The sweep drops a page past CodeTTL, unless a handler holds its lock.
cancelEnableFlow(e) ==
    /\ Free(e)
    /\ Page(e, [tab[e] EXCEPT !.st = "gone", !.flow = None])
    /\ Cancel({tab[e].flow})
    /\ Elsewhere

-----------------------------------------------------------------------------
FlowStep(i) ==
    \/ Lock(i) \/ Connect(i) \/ WaitEnds(i) \/ QRWait(i) \/ Answer(i) \/ settleLogin(i)
    \/ Held(i) \/ saveSession(i) \/ logOutUnusedSession(i) \/ Unlock(i)

PageStep(e) ==
    \/ OpenEnable(e) \/ handleEnableStart(e) \/ BackToPhone(e) \/ handleEnableQRStart(e)
    \/ handleEnableCode(e) \/ handleEnablePassword(e) \/ Asked(e) \/ FlowDone(e) \/ HandlerTimeout(e)
    \/ handleEnableQRStatus(e) \/ handleEnableQRCancel(e) \/ cancelEnableFlow(e)

Next ==
    \/ \E i \in FlowIds : FlowStep(i) \/ Deadline(i) \/ SessionEndedLogOut(i)
    \/ \E e \in Tabs : PageStep(e)
    \/ RevokeActiveSession \/ HardDeleteAccount \/ ProvisionLocalAccount

Spec == Init /\ [][Next]_vars

-----------------------------------------------------------------------------
(* Properties. *)

\* A key Telegram authorized belongs to a login still under way, is the stored
\* session, waits for its background log-out, or had that log-out fail: no login
\* path (wrong account, lost answer, cancelled, refused by the save) walks away
\* from a working session of the user.  Not so for a row a refused save drops.
NoStrayAuthorization ==
    \A i \in FlowIds : auth[i] = "live" =>
        \/ fl[i].pc \notin {"unlock", "done"}
        \/ i \in {stored} \cup logOuts \cup lost \cup dropped

\* The stored session is never replaced by one of a login started earlier: a
\* slow or queued flow cannot overwrite what the user's newer sign-in saved.
NewerSignInWins == \A i \in FlowIds : stored' = i /\ stored # i => \A j \in saved : j < i

\* A sign-in ends a Local Bridge account neither by its save nor by its failure.
LocalAccountKept == local /\ ~local' => UNCHANGED fl

\* A page that reports success has a flow that stored its session, and that
\* sign-in did not begin before a deletion of the account.
DoneMeansSaved ==
    \A e \in Tabs : tab[e].step # "done" /\ tab'[e].step = "done" => tab[e].flow \in saved

\* A session stored now was not obtained by a sign-in that began before the
\* account's last deletion.
DeletedStaysDeleted == stored # None => ~tab[fl[stored].by].deletedSince
=============================================================================
