------------------------------ MODULE ToolCalls ------------------------------
(***************************************************************************)
(* The MCP tool calls of internal/mcp.  A handler is written as the         *)
(* sequence of the steps it takes, in the handler's order: the scope check, *)
(* the arguments, the write gate, the limiter, the confirmation, the        *)
(* account's mode, the borrowed Telegram session, the audit record.  The    *)
(* actions below are the steps: each one is a helper every handler calls    *)
(* (evaluateWriteGate, DecidePeer, Claim, borrowWithRetry, bridgeCall...),  *)
(* taken by one call while the other calls, the owner and the clock move.   *)
(* A handler ends by answering; the recorder around it (record.go) then     *)
(* writes the audit rows.                                                   *)
(*                                                                          *)
(* One chat peer is modelled: limiter buckets are per (identity, peer), and *)
(* whether the peer is on the demo reviewer's list is part of the scenario. *)
(***************************************************************************)
EXTENDS Integers, Sequences, FiniteSets, TLC

CONSTANTS
  Slots,        \* concurrent requests
  Who,          \* identities that call
  Identity,     \* [Who -> [scopes, reviewer, profile, canary]]
  Target,       \* the account an admin tool names
  Confs,        \* confirmation ids
  None,
  SendCap,      \* audit.PeerSendCap
  CleanupCap,   \* audit.PeerCleanupCap
  MediaSlots,   \* capacity of the media gate
  MaxFloodWaitRetries,
  ForwardSize   \* messages in one forward_messages

VARIABLES
  scen,    \* the scenario: what is called, by whom, how often, with which faults
  call,    \* the request in each slot
  confs,   \* ConfirmStore and ReplyStore
  refs,    \* MediaStore: confirmation ids with a live download reference
  acct,    \* the current telegram_accounts row of each identity
  hold,    \* RateLimiter.writeHolds
  bucket,  \* RateLimiter.buckets: tokens left for sends and for cleanup
  gate,    \* media downloads holding a slot of the media gate
  uses,    \* how often a confirmation's action has gone out to Telegram
  credit   \* sends each identity may still make: the cap, less sends, plus refills

vars == <<scen, call, confs, refs, acct, hold, bucket, gate, uses, credit>>

-----------------------------------------------------------------------------
(* Steps a handler is made of. *)

Scope(s) == [op |-> "scope", scopes |-> s]
Args(told) == [op |-> "args", told |-> told]
Check(told) == [op |-> "check", told |-> told]
Reviewer == [op |-> "reviewer"]
Canary(when) == [op |-> "canary", when |-> when]
Consume(told) == [op |-> "consume", told |-> told]
Peek == [op |-> "peek"]
ConsumeReply == [op |-> "reply"]
Claim == [op |-> "claim"]
Issue(act) == [op |-> "issue", act |-> act]
Gate(told) == [op |-> "gate", told |-> told]
Budget(kind, told) == [op |-> "limit", kind |-> kind, told |-> told]
Hold == [op |-> "hold"]
Mode(local) == [op |-> "mode", local |-> local]
Borrow(effect, staged) == [op |-> "borrow", effect |-> effect, staged |-> staged]
Slot(optional) == [op |-> "slot", optional |-> optional]
Inline == [op |-> "inline"]
MediaRef == [op |-> "ref"]
Download == [op |-> "download"]
Store(effect, staged) == [op |-> "store", effect |-> effect, staged |-> staged]
Audit == [op |-> "audit"]
Answer == [op |-> "answer"]

Sending == "telegram:messages:send"
Reading == "telegram:messages:read"
Pinning == "telegram:messages:pin"
Listing == "telegram:dialogs:read"
Managing == "account:manage"
Admin == "admin:users"
LookupAdmin == "admin:users:read"
Broadcasting == "admin:broadcast"

-----------------------------------------------------------------------------
(* The handlers. *)

toolListDialogs ==
  <<Scope({Listing}), Args("silent"), Mode("bridge"), Borrow("read", "both"), Answer>>

toolListFolders ==
  <<Scope({Listing}), Mode("bridge"), Borrow("read", "both"), Answer>>

toolListTopics ==
  <<Scope({Reading}), Args("silent"), Mode("bridge"), Borrow("read", "both"), Answer>>

\* With fetch_media the downloads run inside a media-gate slot, after the read.
toolGetUnreadMessages ==
  <<Scope({Reading}), Mode("bridge-unless-alt"), Borrow("read", "error"), Slot(TRUE),
    Inline, Audit, Answer>>

toolGetMessages ==
  <<Scope({Reading}), Args("silent"), Mode("bridge-unless-alt"), Borrow("read", "error"),
    Slot(TRUE), Inline, Audit, Answer>>

toolSearchMessages ==
  <<Scope({Reading}), Args("silent"), Mode("refuse"), Args("silent"),
    Borrow("read", "both"), Answer>>

\* The confirmation is spent before the gate is read, so a call the gate
\* turns into a draft has used it up.
toolSendMessage ==
  <<Args("silent"), Consume("audited"), Gate("draft"), Budget("send", "draft"),
    Mode("bridge"), Borrow("write", "both"), Answer>>

toolPrepareSendMessage ==
  <<Scope({Sending}), Args("silent"), Issue("send"), Audit, Answer>>

toolPreparePinMessage ==
  <<Scope({Pinning}), Args("silent"), Budget("cleanup-if-alt", "audited"), Issue("pin"),
    Audit, Answer>>

\* No limiter of its own: the token was taken when the pin was prepared.
toolPinMessage ==
  <<Scope({Pinning}), Args("silent"), Gate("audited"), Hold, Consume("silent"),
    Mode("bridge"), Borrow("write", "both"), Answer>>

toolEditMessage ==
  <<Args("silent"), Gate("silent"), Budget("send", "audited"), Mode("refuse"),
    Borrow("write", "both"), Answer>>

toolDeleteMessages ==
  <<Args("silent"), Gate("silent"), Budget("cleanup", "audited"), Mode("refuse"),
    Borrow("write", "both"), Answer>>

toolForwardMessages ==
  <<Args("silent"), Gate("silent"), Budget("forward", "audited"), Mode("refuse"),
    Borrow("write", "both"), Answer>>

toolSetReaction ==
  <<Args("silent"), Gate("silent"), Budget("cleanup-if-alt", "audited"), Mode("refuse"),
    Borrow("write", "both"), Answer>>

toolPrepareGetMedia ==
  <<Scope({Reading}), Args("silent"), Mode("bridge"), Borrow("read", "both"),
    Issue("media"), Answer>>

toolGetMedia ==
  <<Scope({Reading}), Args("silent"), Mode("bridge"), Claim, MediaRef, Slot(FALSE),
    Download, Answer>>

\* The second check is resolveSendMediaBytes, and file_path on a hosted account.
toolSendMedia ==
  <<Scope({Sending}), Args("silent"), Gate("draft"), Budget("send", "draft"),
    Mode("bridge"), Check("audited"), Borrow("write", "both"), Answer>>

toolDraftReply ==
  <<Scope({Sending}), Args("silent"), Mode("refuse"), Borrow("read", "error"),
    Issue("reply"), Audit, Answer>>

\* Peek leaves the draft in place, so a gate or limiter refusal does not burn
\* it; the draft is taken only right before the send.
toolSendReply ==
  <<Args("silent"), Mode("refuse"), Peek, Gate("audited"), Budget("send", "audited"),
    ConsumeReply, Borrow("write", "both"), Answer>>

toolDisconnectAccount ==
  <<Scope({Managing}), Reviewer, Canary("self"), Store("revoke", "both"), Answer>>

\* EvictDeletedAccount follows the audit and cannot fail the call.
toolDeleteAccount ==
  <<Scope({Managing}), Reviewer, Canary("self"), Store("delete", "both"), Answer>>

toolGetMySendStatus == <<Check("silent"), Answer>>
toolGetMyIdentity == <<Check("silent"), Answer>>
toolGetMyAuditLog == <<Args("silent"), Check("silent"), Answer>>

toolListIdentities ==
  <<Scope({Admin, LookupAdmin}), Store("read", "both"), Answer>>

toolGetAcquisitionReport ==
  <<Scope({Admin, LookupAdmin}), Store("read", "both"), Answer>>

toolSetAccess ==
  <<Scope({Admin}), Args("silent"), Canary("alt"), Store("tier", "both"), Answer>>

toolSetAccountSend ==
  <<Scope({Admin}), Args("silent"), Check("audited"), Store("consent", "both"), Answer>>

toolSetSendConsent == <<Scope({Managing}), Store("own-consent", "both"), Answer>>

toolRevokeLocalBridgeDevice ==
  <<Scope({Managing}), Args("silent"), Check("audited"), Store("device", "error"),
    Audit, Answer>>

toolGetMyNotificationPreferences == <<Scope({Managing}), Store("read", "both"), Answer>>

\* The stored change is recorded before it is read back, and the read can fail.
toolSetMyNotificationPreferences ==
  <<Scope({Managing}), Args("silent"), Store("prefs", "both"), Check("silent"), Answer>>

toolSetAccountMode ==
  <<Scope({Admin}), Args("audited"), Check("audited"), Store("mode", "both"), Answer>>

toolProvisionLocalAccount ==
  <<Scope({Admin}), Args("audited"), Check("audited"), Store("provision", "both"), Answer>>

toolGetUserAuditLog ==
  <<Scope({Admin, LookupAdmin}), Args("silent"), Check("audited"), Store("read", "both"),
    Answer>>

toolRevokeSession ==
  <<Scope({Admin}), Args("silent"), Canary("target"), Check("audited"),
    Store("admin-revoke", "both"), Answer>>

\* The denylist refresh and the hub eviction sit between the write and its audit.
toolRevokeWorkerToken ==
  <<Scope({Admin}), Args("silent"), Store("tokens", "error"), Audit, Answer>>

toolMintWorkerToken ==
  <<Scope({Admin}), Check("audited"), Args("audited"), Store("mint", "both"), Answer>>

toolListBroadcasts ==
  <<Scope({Broadcasting}), Check("audited"), Args("audited"), Store("read", "both"), Answer>>

toolGetBroadcast ==
  <<Scope({Broadcasting}), Check("audited"), Store("read", "both"), Answer>>

toolCancelBroadcast ==
  <<Scope({Broadcasting}), Check("audited"), Store("cancel", "both"), Answer>>

toolListAssistants == <<Check("audited"), Store("read", "both"), Answer>>

toolForkAssistant ==
  <<Scope({Managing}), Check("audited"), Args("silent"), Store("fork", "both"), Answer>>

toolUpdateFork ==
  <<Scope({Managing}), Check("audited"), Args("silent"), Store("fork", "both"), Answer>>

toolDeleteFork ==
  <<Scope({Managing}), Check("audited"), Args("silent"), Store("fork", "both"), Answer>>

\* The registered tools (newMCPServer).  The assistant install tools and
\* prepare_broadcast are the subject of Assistants and Broadcasts.
Tools ==
  "list_dialogs" :> toolListDialogs @@ "list_folders" :> toolListFolders @@
  "list_topics" :> toolListTopics @@ "get_unread_messages" :> toolGetUnreadMessages @@
  "get_messages" :> toolGetMessages @@ "search_messages" :> toolSearchMessages @@
  "send_message" :> toolSendMessage @@ "prepare_send_message" :> toolPrepareSendMessage @@
  "prepare_pin_message" :> toolPreparePinMessage @@ "pin_message" :> toolPinMessage @@
  "edit_message" :> toolEditMessage @@ "delete_messages" :> toolDeleteMessages @@
  "forward_messages" :> toolForwardMessages @@ "set_reaction" :> toolSetReaction @@
  "prepare_get_media" :> toolPrepareGetMedia @@ "get_media" :> toolGetMedia @@
  "send_media" :> toolSendMedia @@ "draft_reply" :> toolDraftReply @@
  "send_reply" :> toolSendReply @@
  "disconnect_telegram_account" :> toolDisconnectAccount @@
  "delete_telegram_account" :> toolDeleteAccount @@
  "get_my_send_status" :> toolGetMySendStatus @@ "get_my_identity" :> toolGetMyIdentity @@
  "get_my_audit_log" :> toolGetMyAuditLog @@
  "list_telegram_identities" :> toolListIdentities @@
  "get_acquisition_report" :> toolGetAcquisitionReport @@
  "set_telegram_access" :> toolSetAccess @@ "set_account_send" :> toolSetAccountSend @@
  "set_send_consent" :> toolSetSendConsent @@
  "revoke_local_bridge_device" :> toolRevokeLocalBridgeDevice @@
  "get_my_notification_preferences" :> toolGetMyNotificationPreferences @@
  "set_my_notification_preferences" :> toolSetMyNotificationPreferences @@
  "set_account_mode" :> toolSetAccountMode @@
  "provision_local_account" :> toolProvisionLocalAccount @@
  "get_user_audit_log" :> toolGetUserAuditLog @@
  "revoke_telegram_session" :> toolRevokeSession @@
  "revoke_worker_token" :> toolRevokeWorkerToken @@
  "mint_worker_token" :> toolMintWorkerToken @@
  "list_broadcasts" :> toolListBroadcasts @@ "get_broadcast" :> toolGetBroadcast @@
  "cancel_broadcast" :> toolCancelBroadcast @@ "list_assistants" :> toolListAssistants @@
  "fork_assistant" :> toolForkAssistant @@ "update_fork" :> toolUpdateFork @@
  "delete_fork" :> toolDeleteFork

\* Tools whose optional flag changes what the handler does: fetch_media,
\* unpin, an empty emoji, enabled, mode "local", tier "none".
Flagged == {"get_unread_messages", "get_messages", "prepare_pin_message", "pin_message",
            "set_reaction", "set_account_send", "set_send_consent", "set_account_mode",
            "set_telegram_access"}

\* Tools that take a confirmation id.
Confirmed == {"send_message", "pin_message", "get_media", "send_reply"}

\* toolScopes[name]: what tools/list and tools/call offer an identity.
toolScopes(t) ==
  LET first == Tools[t][1]
  IN  IF t \in {"send_message", "edit_message", "delete_messages", "forward_messages",
                "set_reaction", "send_reply"}
        THEN {Sending}
        ELSE IF first.op = "scope" THEN first.scopes ELSE {}

scopeAllows(w, t) == toolScopes(t) = {} \/ toolScopes(t) \cap Identity[w].scopes # {}

\* A profile names the tools it offers; without one everything but the
\* profile-only tools is offered.
profileAllows(w, t) ==
  IF Identity[w].profile = {} THEN t \notin {"draft_reply", "send_reply"}
  ELSE t \in Identity[w].profile

\* reviewerWriteRules: the tools the demo reviewer may reach at all.
reviewerWriteRules ==
  {"list_dialogs", "list_folders", "list_topics", "get_unread_messages", "get_messages",
   "search_messages", "prepare_get_media", "get_media", "get_my_identity",
   "get_my_audit_log", "get_my_send_status", "get_my_notification_preferences",
   "list_assistants", "draft_reply", "send_message", "send_reply", "prepare_send_message",
   "set_send_consent", "set_my_notification_preferences", "disconnect_telegram_account",
   "delete_telegram_account"}

reviewerWriteGuard(w, t) == Identity[w].reviewer /\ t \notin reviewerWriteRules

\* checkProfileArgs: a profile also limits the arguments its tools may be given.
profileArgGuard(w, fits) == Identity[w].profile # {} /\ ~fits

\* reviewerGateFor: only these two tools can be cleared, and only for a listed peer.
reviewerGateFor(t) == t \in {"send_message", "send_reply"} /\ scen.listed

-----------------------------------------------------------------------------
(* Calls. *)

Idle == [st |-> "idle", tool |-> "", who |-> None, alt |-> FALSE, pay |-> 1, conf |-> None,
         at |-> 0, staged |-> <<>>, out |-> "", rows |-> <<>>, claim |-> FALSE, tries |-> 0,
         spent |-> None, wrote |-> FALSE, held |-> FALSE, off |-> FALSE]

NoConf == [st |-> "unused", who |-> None, act |-> "", alt |-> FALSE, pay |-> 1, exp |-> FALSE]

\* actionableAccount: the current row, unless it is revoked and not a local one.
Actionable(a) == a.st = "active" \/ (a.st = "revoked" /\ a.mode = "local")

\* IsSendEnabled.
SendEnabled(a) == Actionable(a) /\ a.consent

\* S: what may be called, as records [tools, who, calls, faults, listed, mode,
\* consent, hold].
Init(S) ==
  /\ scen \in S
  /\ call = [c \in Slots |-> Idle]
  /\ confs = [k \in Confs |-> NoConf]
  /\ refs = {}
  /\ acct = [w \in Who |-> [st |-> "active", mode |-> scen.mode, blob |-> scen.mode = "hosted",
                            consent |-> scen.consent]]
  /\ hold = [w \in Who |-> scen.hold]
  /\ bucket = [w \in Who |-> [send |-> SendCap, cleanup |-> CleanupCap]]
  /\ gate = {}
  /\ uses = [k \in Confs |-> 0]
  /\ credit = [w \in Who |-> SendCap]

Fault == scen.faults > 0 /\ scen' = [scen EXCEPT !.faults = @ - 1]
NoFault == UNCHANGED scen

Here(c) == Tools[call[c].tool][call[c].at]
On(c, op) == call[c].st = "run" /\ Here(c).op = op

Advance(c) == call' = [call EXCEPT ![c].at = @ + 1]

Staging(c, more) ==
  call' = [call EXCEPT ![c].at = @ + 1, ![c].staged = @ \o more]

\* The handler returns.  get_media's deferred calls drop the confirmation and
\* its reference while it still holds the claim, and free the media slot.
Finish(c, out, more) ==
  /\ call' = [call EXCEPT ![c] = [@ EXCEPT !.st = "answered", !.out = out,
                                          !.staged = @ \o more, !.claim = FALSE]]
  /\ gate' = gate \ {c}
  /\ confs' = IF call[c].claim /\ confs[call[c].conf].st # "unused"
                 THEN [confs EXCEPT ![call[c].conf].st = "gone"] ELSE confs
  /\ refs' = IF call[c].claim THEN refs \ {call[c].conf} ELSE refs

Row(told) == IF told = "silent" THEN <<>> ELSE <<"error">>

Refuse(c, told) == Finish(c, "error", Row(told))

Others == <<acct, hold, bucket, uses, credit>>

\* The arguments a tool tells apart: its flag, what was confirmed, and with which id.
Alts(t) == IF t \in Flagged THEN BOOLEAN ELSE {FALSE}
Pays(t) == IF t \in Confirmed THEN {1, 2} ELSE {1}
Ids(t) == IF t \notin Confirmed THEN {None}
          ELSE IF t = "send_message" THEN Confs \cup {None} ELSE Confs

\* A request arrives.  One the tool filter hides is answered by the JSON-RPC
\* hook, which writes the row itself; the profile and reviewer guards answer
\* inside the recorder and stage nothing.
Call(c) ==
  /\ call[c].st = "idle" /\ scen.calls > 0
  /\ scen' = [scen EXCEPT !.calls = @ - 1]
  /\ \E t \in scen.tools, w \in scen.who, fits \in BOOLEAN : \E alt \in Alts(t), pay \in Pays(t), k \in Ids(t) :
       LET base == [Idle EXCEPT !.tool = t, !.who = w, !.alt = alt, !.pay = pay, !.conf = k,
                                !.held = hold[w], !.off = ~SendEnabled(acct[w])]
       IN  call' = [call EXCEPT ![c] =
             IF ~(scopeAllows(w, t) /\ profileAllows(w, t))
               THEN [base EXCEPT !.st = "done", !.out = "error", !.rows = <<"error">>]
             ELSE IF profileArgGuard(w, fits) \/ reviewerWriteGuard(w, t)
               THEN [base EXCEPT !.st = "answered", !.out = "error"]
             ELSE [base EXCEPT !.st = "run", !.at = 1]]
  /\ UNCHANGED <<confs, refs, gate, Others>>

\* requireScope, requireAnyScope.
StepScope(c) ==
  /\ On(c, "scope")
  /\ IF Here(c).scopes \cap Identity[call[c].who].scopes # {}
       THEN Advance(c) /\ UNCHANGED <<confs, refs, gate>>
       ELSE Refuse(c, "silent")
  /\ NoFault /\ UNCHANGED Others

\* Arguments, lookups and service calls that either succeed or end the call
\* with an error, recorded or not as the handler does.
StepCheck(c) ==
  /\ On(c, "args") \/ On(c, "check")
  /\ \/ Advance(c) /\ UNCHANGED <<confs, refs, gate>>
     \/ Refuse(c, Here(c).told)
  /\ NoFault /\ UNCHANGED Others

\* The demo reviewer's own disconnect and delete (isDemoReviewer).
StepReviewer(c) ==
  /\ On(c, "reviewer")
  /\ IF Identity[call[c].who].reviewer THEN Refuse(c, "audited")
     ELSE Advance(c) /\ UNCHANGED <<confs, refs, gate>>
  /\ NoFault /\ UNCHANGED Others

\* canaryGate: the monitoring account needs confirm_canary.
StepCanary(c) ==
  /\ On(c, "canary")
  /\ LET w == IF Here(c).when = "self" THEN call[c].who ELSE Target
         asked == Here(c).when # "alt" \/ call[c].alt
     IN  \/ Advance(c) /\ UNCHANGED <<confs, refs, gate>>
         \/ asked /\ Identity[w].canary /\ Refuse(c, "audited")
  /\ NoFault /\ UNCHANGED Others

\* Hash*Payload covers the action's arguments.
Matches(c, k, act) ==
  /\ confs[k].act = act /\ confs[k].pay = call[c].pay /\ confs[k].alt = call[c].alt

\* The payload the tool hashes: HashSendPayload, HashPinPayload.
Acts(c) == CASE call[c].tool = "send_message" -> "send"
             [] call[c].tool = "pin_message" -> "pin"
             [] OTHER -> "media"

InStore(k) == confs[k].st \in {"live", "flight"} /\ confs[k].act # "reply"

\* ConfirmStore.Consume: whatever it finds is deleted before it is checked.
StepConsume(c) ==
  /\ On(c, "consume")
  /\ LET k == call[c].conf
         good == /\ InStore(k) /\ ~confs[k].exp
                 /\ confs[k].who = call[c].who /\ Matches(c, k, Acts(c))
     IN  IF k = None THEN Advance(c) /\ UNCHANGED confs
         ELSE /\ confs' = IF InStore(k) THEN [confs EXCEPT ![k].st = "gone"] ELSE confs
              /\ call' = [call EXCEPT ![c] =
                   IF good THEN [@ EXCEPT !.at = @ + 1, !.spent = k]
                   ELSE [@ EXCEPT !.st = "answered", !.out = "error",
                                  !.staged = Row(Here(c).told)]]
  /\ NoFault /\ UNCHANGED <<refs, gate, Others>>

\* ReplyStore.Peek and Consume: bound to the identity and its profile; an
\* expired draft is dropped, a mismatch leaves it.
Drafted(c) ==
  LET k == call[c].conf
  IN  /\ confs[k].st = "live" /\ confs[k].act = "reply" /\ ~confs[k].exp
      /\ confs[k].who = call[c].who

StepPeek(c) ==
  /\ On(c, "peek")
  /\ IF Drafted(c) THEN Advance(c) /\ UNCHANGED <<confs, refs, gate>> ELSE Refuse(c, "audited")
  /\ NoFault /\ UNCHANGED Others

StepReply(c) ==
  /\ On(c, "reply")
  /\ IF Drafted(c)
       THEN /\ call' = [call EXCEPT ![c].at = @ + 1, ![c].spent = call[c].conf]
            /\ confs' = [confs EXCEPT ![call[c].conf].st = "gone"]
            /\ UNCHANGED <<refs, gate>>
       ELSE Refuse(c, "audited")
  /\ NoFault /\ UNCHANGED Others

\* ConfirmStore.Claim marks the entry in flight.
Claimed(k) == [confs EXCEPT ![k].st = "flight"]

\* ConfirmStore.Claim as get_media calls it.  A claim that fails on anything
\* but a running download also drops the download reference.
StepClaim(c) ==
  /\ On(c, "claim")
  /\ LET k == call[c].conf
         mine == confs[k].who = call[c].who /\ Matches(c, k, "media")
     IN  \/ /\ InStore(k) /\ confs[k].st = "live" /\ ~confs[k].exp /\ mine
            /\ confs' = Claimed(k)
            /\ call' = [call EXCEPT ![c].at = @ + 1, ![c].claim = TRUE]
            /\ UNCHANGED <<refs, gate>>
         \/ InStore(k) /\ confs[k].st = "flight" /\ Refuse(c, "audited")
         \/ /\ ~InStore(k) \/ (confs[k].st = "live" /\ (confs[k].exp \/ ~mine))
            /\ call' = [call EXCEPT ![c] = [@ EXCEPT !.st = "answered", !.out = "error",
                                                    !.staged = <<"error">>]]
            /\ confs' = IF InStore(k) THEN [confs EXCEPT ![k].st = "gone"] ELSE confs
            /\ refs' = refs \ {k}
            /\ UNCHANGED gate
  /\ NoFault /\ UNCHANGED Others

\* MediaStore.Get, and the size the reference declares.
StepRef(c) ==
  /\ On(c, "ref")
  /\ \/ call[c].conf \in refs /\ Advance(c) /\ UNCHANGED <<confs, refs, gate>>
     \/ Refuse(c, "audited")
  /\ NoFault /\ UNCHANGED Others

\* ConfirmStore.Issue, ReplyStore.Issue, MediaStore.Set.
StepIssue(c) ==
  /\ On(c, "issue")
  /\ \E k \in Confs :
       /\ confs[k].st = "unused"
       /\ confs' = [confs EXCEPT ![k] = [st |-> "live", who |-> call[c].who,
                                         act |-> Here(c).act, alt |-> call[c].alt,
                                         pay |-> call[c].pay, exp |-> FALSE]]
       /\ refs' = IF Here(c).act = "media" THEN refs \cup {k} ELSE refs
  /\ Advance(c)
  /\ NoFault /\ UNCHANGED <<gate, Others>>

\* The handler goes straight to its answer: a dry-run draft.
Draft(c) ==
  /\ call' = [call EXCEPT ![c].at = Len(Tools[call[c].tool]), ![c].staged = <<"ok">>]
  /\ UNCHANGED <<confs, refs, gate>>

Blocked(c, told) == IF told = "draft" THEN Draft(c) ELSE Refuse(c, told)

\* evaluateWriteGate: a flag that cannot be read counts as off.
evaluateWriteGate(w, readable) == readable /\ SendEnabled(acct[w])

\* The write gate every write handler asks: the reviewer's peers, then the
\* account's send_enabled.
StepGate(c) ==
  /\ On(c, "gate")
  /\ LET w == call[c].who
         uncleared == Identity[w].reviewer /\ ~reviewerGateFor(call[c].tool)
     IN  \/ /\ uncleared
            /\ Refuse(c, IF Here(c).told = "draft" THEN "audited" ELSE Here(c).told)
            /\ NoFault
         \/ /\ ~uncleared
            /\ \E readable \in BOOLEAN :
                 /\ IF readable THEN NoFault ELSE Fault
                 /\ IF evaluateWriteGate(w, readable)
                      THEN Advance(c) /\ UNCHANGED <<confs, refs, gate>>
                      ELSE Blocked(c, Here(c).told)
  /\ UNCHANGED Others

\* Deleting, unpinning and taking a reaction back have a budget of their own
\* and stay possible while writes are held.
Cleanup(c) ==
  \/ call[c].tool = "delete_messages"
  \/ call[c].tool \in {"prepare_pin_message", "pin_message", "set_reaction"} /\ call[c].alt

Cost(c) == IF call[c].tool = "forward_messages" THEN ForwardSize ELSE 1

\* DecidePeer on the identity's bucket for the peer.
DecidePeer(c, kind) ==
  IF kind = "send" THEN Cost(c) =< SendCap /\ bucket[call[c].who].send >= Cost(c)
  ELSE CleanupCap >= 1 /\ bucket[call[c].who].cleanup >= 1

\* evaluateDirectSendLimiterN, evaluateCleanupLimiter.
StepLimit(c) ==
  /\ On(c, "limit")
  /\ LET w == call[c].who
         kind == IF Cleanup(c) THEN "cleanup" ELSE "send"
         paid == IF kind = "send" THEN Cost(c) ELSE 1
     IN  IF (kind = "send" => ~hold[w]) /\ DecidePeer(c, kind)
           THEN /\ bucket' = [bucket EXCEPT ![w][kind] = @ - paid]
                /\ Advance(c) /\ UNCHANGED <<confs, refs, gate>>
           ELSE Blocked(c, Here(c).told) /\ UNCHANGED bucket
  /\ NoFault /\ UNCHANGED <<acct, hold, uses, credit>>

\* pin_message asks for the hold itself: its token was taken at prepare.
StepHold(c) ==
  /\ On(c, "hold")
  /\ IF ~Cleanup(c) /\ hold[call[c].who] THEN Refuse(c, "audited")
     ELSE Advance(c) /\ UNCHANGED <<confs, refs, gate>>
  /\ NoFault /\ UNCHANGED Others

Writes(t) == \E i \in DOMAIN Tools[t] :
               Tools[t][i].op = "borrow" /\ Tools[t][i].effect = "write"

\* A write has reached Telegram.
Sent(c) ==
  LET k == call[c].spent
  IN  /\ uses' = IF k # None THEN [uses EXCEPT ![k] = @ + 1] ELSE uses
      /\ credit' = IF Cleanup(c) THEN credit ELSE [credit EXCEPT ![call[c].who] = @ - Cost(c)]

\* bridgeCall: the daemon executes the call and answers, refuses it, or its
\* answer is lost (a timeout, a dropped connection).
BridgeCall(c) ==
  \E done \in BOOLEAN, out \in {"ok", "error"} :
    /\ IF out = "ok" THEN done /\ NoFault ELSE Fault
    /\ IF done /\ Writes(call[c].tool) THEN Sent(c) ELSE UNCHANGED <<uses, credit>>
    /\ call' = [call EXCEPT ![c] = [@ EXCEPT !.st = "answered", !.out = out,
                                            !.staged = @ \o <<out>>,
                                            !.wrote = @ \/ (done /\ Writes(call[c].tool))]]
    /\ UNCHANGED <<confs, refs, gate>>

\* GetAccountMode and what the handler does for a local account.  A mode that
\* cannot be read is taken for hosted.
StepMode(c) ==
  /\ On(c, "mode")
  /\ LET a == acct[call[c].who]
         local == a.st # "none" /\ a.mode = "local"
         bridged == Here(c).local = "bridge" \/ (Here(c).local = "bridge-unless-alt" /\ ~call[c].alt)
     IN  \/ /\ local => Fault
            /\ ~local => NoFault
            /\ Advance(c) /\ UNCHANGED <<confs, refs, gate, uses, credit>>
         \/ /\ local /\ bridged
            /\ BridgeCall(c)
         \/ /\ local /\ ~bridged
            /\ Refuse(c, IF Here(c).local = "refuse" THEN "silent" ELSE "audited")
            /\ NoFault /\ UNCHANGED <<uses, credit>>
  /\ UNCHANGED <<acct, hold, bucket>>

FaultyRetryPolicy(e) == e \in {"flood_wait", "lost"}

\* retryPolicy: only FLOOD_WAIT, which Telegram answers instead of acting.
retryPolicy(e) == e = "flood_wait"

\* borrowWithRetry, with what Telegram did: acted and answered, refused,
\* asked to wait, flagged the account (the pool then holds its writes), or
\* acted while the answer was lost.
StepBorrow(c) ==
  /\ On(c, "borrow")
  /\ LET w == call[c].who
         write == Here(c).effect = "write"
         session == acct[w].st = "active" /\ acct[w].blob
         wrote == [call EXCEPT ![c].wrote = @ \/ write]
     IN  \/ /\ session /\ NoFault
            /\ IF write THEN Sent(c) ELSE UNCHANGED <<uses, credit>>
            /\ call' = [wrote EXCEPT ![c].at = @ + 1,
                          ![c].staged = IF Here(c).staged = "both" THEN @ \o <<"ok">> ELSE @]
            /\ UNCHANGED <<confs, refs, gate, hold>>
         \/ /\ ~session /\ NoFault
            /\ Refuse(c, "audited") /\ UNCHANGED <<uses, credit, hold>>
         \/ /\ session /\ Fault
            /\ \E e \in {"refused", "flood_wait", "peer_flood"} \cup (IF write THEN {"lost"} ELSE {}) :
                 /\ IF e = "lost" THEN Sent(c) ELSE UNCHANGED <<uses, credit>>
                 /\ hold' = IF e = "peer_flood" THEN [hold EXCEPT ![w] = TRUE] ELSE hold
                 /\ LET after == IF e = "lost" THEN wrote ELSE call
                    IN  IF retryPolicy(e) /\ call[c].tries < MaxFloodWaitRetries
                          THEN call' = [after EXCEPT ![c].tries = @ + 1]
                          ELSE call' = [after EXCEPT ![c].st = "answered", ![c].out = "error",
                                                     ![c].staged = @ \o <<"error">>]
            /\ UNCHANGED <<confs, refs, gate>>
  /\ UNCHANGED <<acct, bucket>>

\* Unclaim, and the handler's answer: the confirmation stays usable.
GiveBack(c) ==
  LET k == call[c].conf
  IN  /\ confs' = IF call[c].claim /\ confs[k].st = "flight"
                    THEN [confs EXCEPT ![k].st = "live"] ELSE confs
      /\ call' = [call EXCEPT ![c] = [@ EXCEPT !.st = "answered", !.out = "error",
                                              !.staged = @ \o <<"error">>, !.claim = FALSE]]
      /\ gate' = gate \ {c}
      /\ UNCHANGED refs

\* mediaGate.acquire: a slot, or a refusal when none is freed in time or the
\* client goes away.
StepSlot(c) ==
  /\ On(c, "slot")
  /\ LET free == Cardinality(gate) < MediaSlots
     IN  \/ /\ Here(c).optional /\ ~call[c].alt
            /\ Advance(c) /\ UNCHANGED <<confs, refs, gate>> /\ NoFault
         \/ /\ ~(Here(c).optional /\ ~call[c].alt) /\ free
            /\ gate' = gate \cup {c}
            /\ Advance(c) /\ UNCHANGED <<confs, refs>> /\ NoFault
         \/ /\ ~(Here(c).optional /\ ~call[c].alt)
            /\ IF free THEN Fault ELSE NoFault
            /\ GiveBack(c)
  /\ UNCHANGED Others

\* get_media's download.  One cut short by its deadline or its client gives the
\* confirmation back; any other failure ends it.
StepDownload(c) ==
  /\ On(c, "download")
  /\ LET w == call[c].who
         session == acct[w].st = "active" /\ acct[w].blob
     IN  \/ /\ session /\ NoFault
            /\ uses' = [uses EXCEPT ![call[c].conf] = @ + 1]
            /\ Staging(c, <<"ok">>) /\ UNCHANGED <<confs, refs, gate, hold>>
         \/ ~session /\ Refuse(c, "audited") /\ NoFault /\ UNCHANGED <<uses, hold>>
         \/ session /\ Fault /\ GiveBack(c) /\ UNCHANGED <<uses, hold>>
         \/ /\ session /\ Fault
            /\ \E e \in {"refused", "flood_wait", "peer_flood"} :
                 /\ hold' = IF e = "peer_flood" THEN [hold EXCEPT ![w] = TRUE] ELSE hold
                 /\ IF retryPolicy(e) /\ call[c].tries < MaxFloodWaitRetries
                      THEN call' = [call EXCEPT ![c].tries = @ + 1] /\ UNCHANGED <<confs, refs, gate>>
                      ELSE Refuse(c, "audited")
            /\ UNCHANGED uses
  /\ UNCHANGED <<acct, bucket, credit>>

\* The account row after a handler's store call.
Stored(c) ==
  LET effect == Here(c).effect
      w == IF effect \in {"revoke", "delete", "own-consent"} THEN call[c].who ELSE Target
      row == acct[w]
  IN  CASE effect \in {"consent", "own-consent"} -> [acct EXCEPT ![w].consent = call[c].alt]
        [] effect = "mode" -> [acct EXCEPT ![w].mode = IF call[c].alt THEN "local" ELSE "hosted"]
        [] effect \in {"revoke", "admin-revoke"} /\ row.st = "active" ->
             [acct EXCEPT ![w] = [@ EXCEPT !.st = "revoked", !.blob = FALSE]]
        [] effect = "delete" -> [acct EXCEPT ![w] = [st |-> "none", mode |-> "hosted",
                                                    blob |-> FALSE, consent |-> FALSE]]
        [] effect = "provision" -> [acct EXCEPT ![w] = [st |-> "active", mode |-> "local",
                                                       blob |-> FALSE, consent |-> FALSE]]
        [] OTHER -> acct

\* SetSendEnabled and SetAccountMode touch an actionable row only;
\* ProvisionLocalAccount none that is active.
Storable(c) ==
  LET effect == Here(c).effect
      w == IF effect = "own-consent" THEN call[c].who ELSE Target
  IN  /\ effect \in {"consent", "own-consent", "mode"} => Actionable(acct[w])
      /\ effect = "provision" => acct[w].st # "active"

\* A store call and its record.  A call in progress that began with sends off
\* is no longer one once they are on.
StepStore(c) ==
  /\ On(c, "store")
  /\ \/ /\ Storable(c) /\ NoFault
        /\ acct' = Stored(c)
        /\ call' = [x \in Slots |->
             LET r == IF x = c THEN [call[c] EXCEPT !.at = @ + 1,
                          !.staged = IF Here(c).staged = "both" THEN @ \o <<"ok">> ELSE @]
                      ELSE call[x]
             IN  IF r.st = "idle" THEN r
                 ELSE [r EXCEPT !.off = @ /\ ~SendEnabled(Stored(c)[r.who])]]
        /\ UNCHANGED <<confs, refs, gate>>
     \/ /\ IF Storable(c) THEN Fault ELSE NoFault
        /\ Refuse(c, "audited") /\ UNCHANGED acct
  /\ UNCHANGED <<hold, bucket, uses, credit>>

\* fetchMediaInline fills what it can and never fails the call; an audit alone.
StepRecord(c) ==
  /\ On(c, "inline") \/ On(c, "audit")
  /\ Staging(c, IF Here(c).op = "audit" THEN <<"ok">> ELSE <<>>)
  /\ NoFault /\ UNCHANGED <<confs, refs, gate, Others>>

\* jsonResult, which can fail to encode.
StepAnswer(c) ==
  /\ On(c, "answer")
  /\ \/ Finish(c, "ok", <<>>) /\ NoFault
     \/ Finish(c, "error", <<>>) /\ Fault
  /\ UNCHANGED Others

\* A handler panics; the recorder turns it into an error answer.
Panic(c) ==
  /\ call[c].st = "run" /\ Fault
  /\ Finish(c, "error", <<>>)
  /\ UNCHANGED Others

auditExemptOnSuccess == {"get_my_audit_log", "get_my_identity", "get_my_send_status"}

\* flushRecordedCall: the rows a call leaves.
Recorded(c) ==
  LET r == call[c]
  IN  IF r.staged # <<>>
        THEN IF r.out = "error" /\ r.staged[Len(r.staged)] # "error"
               THEN Append(r.staged, "error") ELSE r.staged
        ELSE IF r.out = "ok" /\ r.tool \in auditExemptOnSuccess THEN <<>> ELSE <<r.out>>

Flush(c) ==
  /\ call[c].st = "answered"
  /\ call' = [call EXCEPT ![c] = [@ EXCEPT !.st = "done", !.rows = Recorded(c)]]
  /\ NoFault /\ UNCHANGED <<confs, refs, gate, Others>>

Return(c) ==
  /\ call[c].st = "done"
  /\ call' = [call EXCEPT ![c] = Idle]
  /\ NoFault /\ UNCHANGED <<confs, refs, gate, Others>>

-----------------------------------------------------------------------------
(* The clock. *)

HoldEnds(w) ==
  /\ hold[w]
  /\ hold' = [hold EXCEPT ![w] = FALSE]
  /\ call' = [c \in Slots |-> IF call[c].who = w THEN [call[c] EXCEPT !.held = FALSE] ELSE call[c]]
  /\ UNCHANGED <<scen, confs, refs, acct, bucket, gate, uses, credit>>

\* refill: one more token, up to the bucket's maximum.
Refill(w) ==
  /\ bucket[w].send < SendCap
  /\ bucket' = [bucket EXCEPT ![w].send = @ + 1]
  /\ credit' = [credit EXCEPT ![w] = @ + 1]
  /\ UNCHANGED <<scen, call, confs, refs, acct, hold, gate, uses>>

Expire(k) ==
  /\ confs[k].st \in {"live", "flight"} /\ ~confs[k].exp
  /\ confs' = [confs EXCEPT ![k].exp = TRUE]
  /\ UNCHANGED <<scen, call, refs, acct, hold, bucket, gate, uses, credit>>

RefExpires(k) ==
  /\ k \in refs /\ confs[k].exp
  /\ refs' = refs \ {k}
  /\ UNCHANGED <<scen, call, confs, acct, hold, bucket, gate, uses, credit>>

Step(c) ==
  \/ StepScope(c) \/ StepCheck(c) \/ StepReviewer(c) \/ StepCanary(c)
  \/ StepConsume(c) \/ StepPeek(c) \/ StepReply(c) \/ StepClaim(c) \/ StepRef(c)
  \/ StepIssue(c) \/ StepGate(c) \/ StepLimit(c) \/ StepHold(c) \/ StepMode(c)
  \/ StepBorrow(c) \/ StepSlot(c) \/ StepDownload(c) \/ StepStore(c) \/ StepRecord(c)
  \/ StepAnswer(c) \/ Flush(c) \/ Return(c)

Next ==
  \/ \E c \in Slots : Call(c) \/ Step(c) \/ Panic(c)
  \/ \E w \in Who : HoldEnds(w) \/ Refill(w)
  \/ \E k \in Confs : Expire(k) \/ RefExpires(k)

Spec(S) == Init(S) /\ [][Next]_vars

-----------------------------------------------------------------------------
(* Properties. *)

\* Every finished call leaves a row that tells how it ended, whichever helper
\* failed after a row had been staged (flushRecordedCall, jsonrpcHooks); only
\* three read-only tools may leave none, and only when they succeed.
AnswersAreLogged ==
  \A c \in Slots : call[c].st = "done" =>
    LET r == call[c]
    IN  IF r.rows = <<>> THEN r.out = "ok" /\ r.tool \in auditExemptOnSuccess
        ELSE r.rows[Len(r.rows)] = r.out

\* A confirmation reaches Telegram at most once: no retry, no second caller and
\* no download taken up again repeats what the user confirmed (Consume, Claim,
\* borrowWithRetry).
ConfirmationsSpentOnce == \A k \in Confs : uses[k] =< 1

\* An account whose writes were already held when a call began sends nothing
\* through it unless the hold ends, on the hosted session or the bridge
\* (WriteHold); only deletions, unpins and removed reactions go through.
PausedAccountIsQuiet ==
  \A c \in Slots : call[c].wrote /\ call[c].held => Cleanup(c)

\* A call that began with sends off, and during which they were never turned
\* on, changes nothing in Telegram, also when the flag cannot be read
\* (evaluateWriteGate).
ConsentIsHeard == \A c \in Slots : call[c].wrote => ~call[c].off

\* Every send was paid for: what reached the peer never exceeds the bucket's
\* capacity and its refills, with pins prepared in one call and made in
\* another, retries, and messages forwarded in bulk (DecidePeer).
BudgetCoversSends == \A w \in Who : credit[w] >= 0
=============================================================================
