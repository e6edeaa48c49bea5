---------------------------- MODULE WorkerTokens ----------------------------
(***************************************************************************)
(* Worker tokens: minting and renewal (internal/workertoken), the bridge   *)
(* and pool credentials checked like them (internal/bridge/tokenhandler.go *)
(* and internal/auth/localjwt), the revocation list (internal/db) and the  *)
(* cache of it that every request of a server process is judged by.        *)
(*                                                                         *)
(* Time is counted in ticks, two to the second: a token's claims hold      *)
(* whole seconds, a revocation and an expiry are exact.  The fields line   *)
(* and born of a token are not in it: the jti its chain started with, and  *)
(* when.                                                                   *)
(***************************************************************************)
EXTENDS Integers, FiniteSets

CONSTANTS
    Accounts,               \* Telegram ids: positive numbers
    Slots,                  \* bound: requests handled at once
    MaxJtis, MaxTokens,     \* bounds
    StartTime, MaxTime,     \* bounds
    MaxRevokes,             \* bound
    Budgets,                \* bound: pairs <<reads of the list, failed ones>>
    Hours,                  \* ttl_hours a request may ask for
    DefaultTTL, MaxTTL,     \* defaultWorkerTokenTTL, maxWorkerTokenTTL
    maxRenewalChain,
    CacheTTL,
    StartRows               \* tokens from before jtis and origins were signed

VARIABLES
    now,
    tokens,                 \* every token signed
    lines,                  \* jtis made
    revoked,                \* worker_token_revocations
    inactive,               \* synthetic devices whose row is revoked, by jti
    cache,                  \* RevocationCache
    reads, maxReads,        \* read starts so far: readStartedAt; and their bound
    slot,
    told,                   \* revocations whose tool call refreshed the cache
    faults

vars == <<now, tokens, lines, revoked, inactive, cache, reads, maxReads, slot, told, faults>>

None == 0
Whole(t) == t - (t % 2)

\* A row names a jti or, blanket, an account and the time.
Row(jti, acct, at) == [jti |-> jti, acct |-> acct, at |-> at]

Claims(kind, acct, jti, orig, iat, exp, line, born) ==
    [kind |-> kind, acct |-> acct, jti |-> jti, orig |-> orig, iat |-> iat, exp |-> exp, line |-> line, born |-> born]

NoToken == Claims("none", None, None, None, 0, 0, None, 0)
Free == [pc |-> "free", op |-> "", tok |-> NoToken, row |-> Row(None, None, 0), start |-> 0, seen |-> {}, cold |-> FALSE]

TypeOK ==
    /\ now \in StartTime..MaxTime /\ lines \in 0..MaxJtis /\ reads \in 0..maxReads /\ faults \in Nat
    /\ inactive \subseteq 1..MaxJtis /\ told \subseteq revoked
    /\ cache.rows \subseteq revoked /\ cache.start \in 0..reads /\ cache.at \in 0..now /\ cache.populated \in BOOLEAN
    /\ \A t \in tokens : t.born <= now /\ t.iat <= now /\ t.jti \in 0..lines

Init ==
    /\ now = StartTime
    /\ tokens = StartRows /\ lines = 0
    /\ revoked = {} /\ inactive = {} /\ told = {}
    /\ cache = [populated |-> FALSE, rows |-> {}, start |-> 0, at |-> 0]
    /\ reads = 0
    /\ \E b \in Budgets : maxReads = b[1] /\ faults = b[2]
    /\ slot = [s \in Slots |-> Free]

\* A token that has expired is forgotten.
Tick ==
    /\ now < MaxTime
    /\ now' = now + 1
    /\ tokens' = {t \in tokens : t.exp > now + 1}
    /\ UNCHANGED <<lines, revoked, inactive, cache, reads, maxReads, slot, told, faults>>

-----------------------------------------------------------------------------
(* Minting. *)

clampTTL(hours) == IF hours <= 0 THEN DefaultTTL ELSE IF hours > MaxTTL THEN MaxTTL ELSE hours

\* The admin endpoint and the admin tool; kind "pool" is a pool's token, which
\* belongs to no account and does not go through this window.
Mint(acct, hours) ==
    /\ lines < MaxJtis /\ Cardinality(tokens) < MaxTokens
    /\ lines' = lines + 1
    /\ tokens' = tokens \cup {Claims(IF acct = None THEN "pool" ELSE "worker", acct, lines + 1, Whole(now),
                                     Whole(now), now + clampTTL(hours), lines + 1, now)}
    /\ UNCHANGED <<now, revoked, inactive, cache, reads, maxReads, slot, told, faults>>

originAnchor(t) == IF t.orig > 0 THEN t.orig ELSE t.iat

-----------------------------------------------------------------------------
(* The revocation cache. *)

Stale == ~cache.populated \/ now - cache.at >= CacheTTL

\* refresh notes the time its read starts before it reads.
StartRead(s, r) ==
    /\ reads < maxReads
    /\ reads' = reads + 1
    /\ slot' = [slot EXCEPT ![s] = [r EXCEPT !.pc = "list", !.start = reads + 1, !.cold = ~cache.populated]]

ListWorkerTokenRevocations(s) ==
    /\ slot[s].pc = "list"
    /\ slot' = [slot EXCEPT ![s].pc = "install", ![s].seen = revoked]
    /\ UNCHANGED <<now, tokens, lines, revoked, inactive, cache, reads, maxReads, told, faults>>

\* A failed read is forgiven once the cache has been filled.
ListFails(s) ==
    /\ slot[s].pc = "list" /\ faults > 0
    /\ faults' = faults - 1
    /\ slot' = [slot EXCEPT ![s] = IF @.cold \/ @.op = "revoke" THEN Free ELSE [@ EXCEPT !.pc = "check"]]
    /\ UNCHANGED <<now, tokens, lines, revoked, inactive, cache, reads, maxReads, told>>

FaultyNewerInstalled(s) == FALSE

NewerInstalled(s) == cache.populated /\ cache.start > slot[s].start

\* A snapshot whose read started earlier than the installed one's is dropped.
refresh(s) ==
    /\ slot[s].pc = "install"
    /\ cache' = IF NewerInstalled(s) THEN cache
                ELSE [populated |-> TRUE, rows |-> slot[s].seen, start |-> slot[s].start, at |-> now]
    /\ IF slot[s].op = "revoke"
       THEN told' = told \cup {slot[s].row} /\ slot' = [slot EXCEPT ![s] = Free]
       ELSE slot' = [slot EXCEPT ![s].pc = "check", ![s].seen = {}] /\ UNCHANGED told
    /\ UNCHANGED <<now, tokens, lines, revoked, inactive, reads, maxReads, faults>>

\* By jti, or by a blanket row of the account that is not before the origin.
check(t) ==
    \E r \in cache.rows :
      IF r.jti # None THEN r.jti = t.jti ELSE r.acct = t.acct /\ originAnchor(t) <= r.at

-----------------------------------------------------------------------------
(* Requests. *)

needsRevocationCheck(t) == t.jti # None \/ t.kind \in {"worker", "bridge", "pool"}

Uses(t) == IF t.kind = "worker" THEN {"use", "renew", "bridge"} ELSE {"use"}

\* The request is refused, or goes on to its handler; a plain use ends here.
Judged(r) ==
    IF ~cache.populated \/ check(r.tok) \/ r.op = "use" THEN Free ELSE [r EXCEPT !.pc = "admitted"]

\* Provider.Authenticate and PoolProvider.Authenticate: the signature and the
\* expiry, then the list.
Authenticate(s, t, op) ==
    LET r == [Free EXCEPT !.pc = "check", !.op = op, !.tok = IF op = "use" THEN NoToken ELSE t]
    IN  /\ slot[s].pc = "free"
        /\ now < t.exp
        /\ IF needsRevocationCheck(t) /\ Stale THEN StartRead(s, r)
           ELSE slot' = [slot EXCEPT ![s] = Judged(r)] /\ UNCHANGED reads
        /\ UNCHANGED <<now, tokens, lines, revoked, inactive, cache, maxReads, told, faults>>

\* The list is consulted after the read, whatever came of it.
IsRevoked(s) ==
    /\ slot[s].pc = "check"
    /\ slot' = [slot EXCEPT ![s] = Judged(@)]
    /\ UNCHANGED <<now, tokens, lines, revoked, inactive, cache, reads, maxReads, told, faults>>

\* The origin travels with every renewal.
RenewedOrigin(t) == originAnchor(t)

RenewedTTL(t, hours) ==
    LET left == originAnchor(t) + maxRenewalChain - now
    IN  IF clampTTL(hours) > left THEN left ELSE clampTTL(hours)

RenewedJti(t) == IF t.jti # None THEN t.jti ELSE lines + 1

\* The token is verified again; one without a jti gets one; a chain that is over
\* is refused.
NewRenewHandler(s, hours) ==
    LET t == slot[s].tok
        jti == RenewedJti(t)
    IN  /\ slot[s].pc = "admitted" /\ slot[s].op = "renew"
        /\ slot' = [slot EXCEPT ![s] = Free]
        /\ IF now < t.exp /\ now < originAnchor(t) + maxRenewalChain
           THEN /\ jti <= MaxJtis /\ Cardinality(tokens) < MaxTokens
                /\ lines' = IF jti > lines THEN jti ELSE lines
                /\ tokens' = tokens \cup {Claims("worker", t.acct, jti, RenewedOrigin(t), Whole(now),
                                                 now + RenewedTTL(t, hours),
                                                 IF t.line # None THEN t.line ELSE jti, t.born)}
           ELSE UNCHANGED <<lines, tokens>>
        /\ UNCHANGED <<now, revoked, inactive, cache, reads, maxReads, told, faults>>

\* The synthetic device of a jti is active until its row is revoked.
EnsureLegacyBridgeDevice(t) == t.jti \notin inactive

BridgeTTL == 2

\* A bridge token carries its parent's jti and origin.
newBridgeTokenHandler(s) ==
    LET t == slot[s].tok
    IN  /\ slot[s].pc = "admitted" /\ slot[s].op = "bridge"
        /\ Cardinality(tokens) < MaxTokens
        /\ slot' = [slot EXCEPT ![s] = Free]
        /\ tokens' = IF t.jti # None /\ EnsureLegacyBridgeDevice(t)
                     THEN tokens \cup {Claims("bridge", t.acct, t.jti, t.orig, Whole(now), now + BridgeTTL, t.line, t.born)}
                     ELSE tokens
        /\ UNCHANGED <<now, lines, revoked, inactive, cache, reads, maxReads, told, faults>>

-----------------------------------------------------------------------------
(* Revocation. *)

\* The row is committed, then the cache is refreshed.
Revoke(s, row) ==
    /\ slot[s].pc = "free" /\ Cardinality(revoked) < MaxRevokes
    /\ revoked' = revoked \cup {row}
    /\ StartRead(s, [Free EXCEPT !.op = "revoke", !.row = row])
    /\ UNCHANGED <<now, tokens, lines, inactive, cache, maxReads, told, faults>>

RevokeWorkerToken(s, jti) == jti \in 1..lines /\ Revoke(s, Row(jti, None, 0))

RevokeWorkerTokensForTelegramID(s, acct) == Revoke(s, Row(None, acct, now))

\* revoke_local_bridge_device on a synthetic device: it has no current_jti, so
\* nothing is listed.
RevokeLegacyDevice(jti) ==
    /\ jti \in 1..lines /\ jti \notin inactive
    /\ \E t \in tokens : t.kind = "bridge" /\ t.jti = jti
    /\ inactive' = inactive \cup {jti}
    /\ UNCHANGED <<now, tokens, lines, revoked, cache, reads, maxReads, slot, told, faults>>

Next ==
    \/ Tick
    \/ \E acct \in Accounts \cup {None}, hours \in Hours : Mint(acct, hours)
    \/ \E s \in Slots :
         \/ \E t \in tokens : \E op \in Uses(t) : Authenticate(s, t, op)
         \/ ListWorkerTokenRevocations(s) \/ ListFails(s) \/ refresh(s) \/ IsRevoked(s)
         \/ newBridgeTokenHandler(s)
         \/ \E hours \in Hours : NewRenewHandler(s, hours)
         \/ \E jti \in 1..MaxJtis : RevokeWorkerToken(s, jti)
         \/ \E acct \in Accounts : RevokeWorkerTokensForTelegramID(s, acct)
    \/ \E jti \in 1..MaxJtis : RevokeLegacyDevice(jti)

Spec == Init /\ [][Next]_vars

-----------------------------------------------------------------------------
(* Properties. *)

\* Once a revocation by jti has been answered as refreshed, every token of that
\* lineage is refused by the process for good, its renewals and bridge tokens
\* too, whatever reads of the list were under way.
RevokedLineageStaysOut ==
    \A r \in told, t \in tokens :
      r.jti # None /\ t.line = r.jti => cache.populated /\ check(t)

\* Once a blanket revocation has been answered as refreshed, every token of that
\* account whose chain began before it is refused, renewed since or not.
BlanketCoversChain ==
    \A r \in told, t \in tokens :
      r.jti = None /\ t.acct = r.acct /\ t.born <= r.at => cache.populated /\ check(t)

\* No renewal outlives the window its chain was given when it was minted.
ChainEnds ==
    \A t \in tokens : t.kind = "worker" /\ t \notin StartRows =>
      t.exp <= t.born + maxRenewalChain

\* Once the synthetic device of a credential is revoked the credential gets no
\* further bridge token.
RevokedDeviceGetsNone ==
    \A t \in tokens' \ tokens : t.kind = "bridge" => t.jti \notin inactive
=============================================================================
