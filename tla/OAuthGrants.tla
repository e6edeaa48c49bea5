------------------------------ MODULE OAuthGrants ------------------------------
(***************************************************************************)
(* The grants of one Telegram user at the OAuth server: a sign-in goes     *)
(* from /oauth/authorize over the Telegram callback (and the enable-access *)
(* wizard, when the account has no usable session) to an authorization     *)
(* code, the code to a family of refresh tokens, and every refresh rotates *)
(* the family's live token.  Against this run replay and retry of tokens,  *)
(* reuse detection, explicit and owner revocation, deletion of the         *)
(* account, sweeps and a restart.                                          *)
(*                                                                         *)
(* The successor of a token is derived from the token, so a token has at   *)
(* most one child and a retry inside the grace window finds it again.      *)
(* Redirects, PKCE, client authentication and signing of access tokens are *)
(* one choice, Accepted: a request that fails them changes nothing further.*)
(*                                                                         *)
(* Two dialects.  SQLite has one connection, so a transaction              *)
(* excludes every other statement.  On Postgres (READ COMMITTED) a         *)
(* rotation stays invisible until it commits, and an UPDATE that meets its *)
(* locked row waits and then re-checks the rows it had already seen.       *)
(*                                                                         *)
(* An operator named Faulty... is a plausible bug in the definition that   *)
(* follows it; no specification uses it.                                   *)
(***************************************************************************)
EXTENDS Integers, Sequences, FiniteSets

CONSTANTS
    Clients,      \* OAuth clients, all registered
    Flows,        \* sign-ins, one per /oauth/authorize
    Requests,     \* requests at the token and revoke endpoints
    ConnectClientID,  \* the site's own client, whose codes carry no refresh token
    Roles,        \* standings the user may have: "admin", "lookup", "listed", "plain"
    Requested,    \* scope parameters a client may ask for
    Deployments,  \* pairs of dialect ("postgres", "sqlite") and where pending
                  \* sign-ins and codes live ("db", "memory")
    AutoApprove,  \* AutoApproveClients
    CodeTTL, RefreshTokenTTL, rotationGraceWindow,
    MaxPendingAuth, MaxAuthCodes, MaxPendingEnable,
    MaxClock,     \* bound on the clock
    MaxTokens     \* bound on refresh-token rows

NoClient == "no client"
Never == -1
None == 0

VARIABLES
    clock,
    role, dialect, store,   \* how the user stands and the server is set up
    tier,        \* users.access_tier: "unset", "client", "none"
    deletedAt,   \* users.account_deleted_at, or Never
    flow,        \* sign-ins: pending row, callback, wizard, code
    tok,         \* rows of oauth_refresh_tokens in order of insertion
    req,         \* what each token or revoke request holds and where it stands
    held         \* the token the client of each family keeps; None before, and
                 \* once its tokens leaked or it presented one too late

fixed == <<role, dialect, store>>
grants == <<tok, req, held>>
vars == <<clock, fixed, tier, deletedAt, flow, grants>>

Negotiable == {"telegram", "account"}
Scopes == Negotiable \cup {"admin", "lookup"}
Families == Flows

\* oauth_pending_auth, the callback in progress, the wizard, oauth_auth_codes.
FlowRow == [st : {"new", "pending", "callback", "enable", "saved", "minting", "code", "redeeming", "gone"},
            client : Clients \cup {NoClient}, scope : SUBSET Scopes,
            started : 0..MaxClock, at : 0..MaxClock]

RefreshToken == [family : Families, client : Clients, parent : 0..MaxTokens, scope : SUBSET Scopes,
                 expiresAt : Nat, revokedAt : 0..MaxClock,
                 revoked : {"", "rotated", "reuse_detected", "explicit_revoke",
                            "owner_revoke", "account_deleted", "swept"}]

Idle == [pc |-> "idle", tok |-> None, client |-> NoClient, at |-> 0, scope |-> {}, reason |-> "", snap |-> {}]

\* Sign-ins, token rows and what the clients keep are well formed.
TypeOK ==
    /\ clock \in 0..MaxClock /\ <<dialect, store>> \in Deployments /\ role \in Roles
    /\ tier \in {"unset", "client", "none"}
    /\ deletedAt \in {Never} \cup 0..MaxClock
    /\ flow \in [Flows -> FlowRow]
    /\ \A t \in DOMAIN tok : t <= MaxTokens /\ tok[t] \in RefreshToken /\ tok[t].parent < t
    /\ held \in [Families -> 0..Len(tok)]

Init ==
    /\ clock = 0 /\ role \in Roles
    /\ \E d \in Deployments : dialect = d[1] /\ store = d[2]
    /\ tier = "unset" /\ deletedAt = Never
    /\ flow = [f \in Flows |-> [st |-> "new", client |-> NoClient, scope |-> {}, started |-> 0, at |-> 0]]
    /\ tok = <<>>
    /\ req = [r \in Requests |-> Idle]
    /\ held = [f \in Families |-> None]

Tick ==
    /\ clock < MaxClock
    /\ clock' = clock + 1
    /\ UNCHANGED <<fixed, tier, deletedAt, flow, grants>>

-----------------------------------------------------------------------------
(* Who the user is, and what that entitles a grant to.                     *)

isClientTier(t) == t = "client" \/ (t = "unset" /\ (AutoApprove \/ role = "listed"))

ResolveScopes ==
    CASE role = "admin" -> Negotiable \cup {"admin"}
      [] role = "lookup" -> {"lookup"}
      [] OTHER -> IF isClientTier(tier) THEN Negotiable ELSE {}

narrowGrant(entitled, requested) ==
    IF requested = {} THEN entitled ELSE (entitled \ Negotiable) \cup (entitled \cap requested)

accountDeletedSince(at) == deletedAt # Never /\ deletedAt >= at

-----------------------------------------------------------------------------
(* Sign-in: /oauth/authorize, the Telegram callback, the wizard, the code. *)

\* What is left of a sign-in that is over: when it began, for its family.
Over(f) == [st |-> "gone", client |-> NoClient, scope |-> {}, started |-> flow[f].started, at |-> 0]

At(st) == {f \in Flows : flow[f].st = st}
Expired(f) == clock - flow[f].at > CodeTTL

\* The sign-ins a new row displaces: one oldest of a full table.  Rows past
\* their time are not counted in the database and are in memory.
Displaced(st, max) ==
    LET rows == {f \in At(st) : store = "db" /\ st # "enable" => ~Expired(f)}
    IN  IF Cardinality(rows) < max THEN {{}}
        ELSE {{f} : f \in {g \in rows : \A h \in rows : flow[g].at <= flow[h].at}}

MovedTo(f, st, out) == [g \in Flows |-> IF g = f THEN [flow[f] EXCEPT !.st = st, !.at = clock]
                                        ELSE IF g \in out THEN Over(g)
                                        ELSE flow[g]]

\* A request that fails validation stores nothing.
handleAuthorize(f, c, scope) ==
    /\ flow[f].st = "new"
    /\ \E out \in Displaced("pending", MaxPendingAuth) :
          flow' = [MovedTo(f, "pending", out) EXCEPT ![f].client = c, ![f].scope = scope, ![f].started = clock]
    /\ UNCHANGED <<clock, fixed, tier, deletedAt, grants>>

\* DELETE ... RETURNING: an expired row is deleted as well.
ConsumeOAuthPending(f) == IF Expired(f) THEN Over(f) ELSE [flow[f] EXCEPT !.st = "callback"]

\* The state is consumed before anything else is looked at.
ConsumePending(f) ==
    /\ flow[f].st = "pending"
    /\ flow' = [flow EXCEPT ![f] = ConsumeOAuthPending(f)]
    /\ UNCHANGED <<clock, fixed, tier, deletedAt, grants>>

\* One transaction: the account was not deleted since the sign-in began.
InsertOAuthCode(f) ==
    IF accountDeletedSince(flow[f].started)
    THEN flow' = [flow EXCEPT ![f] = Over(f)]
    ELSE \E out \in Displaced("code", MaxAuthCodes) : flow' = MovedTo(f, "code", out)

\* In memory the check comes first and the insert follows.
mintAuthCode(f) ==
    IF store = "db" THEN InsertOAuthCode(f)
    ELSE flow' = [flow EXCEPT ![f] = IF accountDeletedSince(flow[f].started) THEN Over(f)
                                     ELSE [@ EXCEPT !.st = "minting", !.at = clock]]

\* codes[code] keeps the time read before the check.
InsertCodeInMemory(f) ==
    /\ flow[f].st = "minting"
    /\ \E out \in Displaced("code", MaxAuthCodes) :
          flow' = [MovedTo(f, "code", out) EXCEPT ![f].at = flow[f].at]
    /\ UNCHANGED <<clock, fixed, tier, deletedAt, grants>>

CallbackFails(f) ==
    /\ flow[f].st = "callback"
    /\ flow' = [flow EXCEPT ![f] = Over(f)]
    /\ UNCHANGED <<clock, fixed, tier, deletedAt, grants>>

\* CheckSessionValid is a choice here (module SignIn has the sessions).  Without
\* a valid session an admin or a client goes through the wizard, and
\* everyone else gets a code that carries no Telegram scopes.
handleTelegramCallback(f) ==
    /\ flow[f].st = "callback"
    /\ tier' = IF AutoApprove /\ role # "lookup" /\ tier = "unset" THEN "client" ELSE tier
    /\ \E valid \in BOOLEAN :
       IF valid \/ role = "lookup" \/ (role # "admin" /\ ~isClientTier(tier'))
       THEN mintAuthCode(f)
       ELSE \E out \in Displaced("enable", MaxPendingEnable) : flow' = MovedTo(f, "enable", out)
    /\ UNCHANGED <<clock, fixed, deletedAt, grants>>

\* The wizard's login flow saves the session (module SignIn has its steps).
SaveSessionForSignIn(f) ==
    /\ flow[f].st = "enable"
    /\ ~Expired(f)
    /\ IF accountDeletedSince(flow[f].started)
       THEN flow' = [flow EXCEPT ![f] = Over(f)]
       ELSE flow' = [flow EXCEPT ![f].st = "saved"]
    /\ UNCHANGED <<clock, fixed, tier, deletedAt, grants>>

finishEnable(f) ==
    /\ flow[f].st = "saved"
    /\ tier' = IF AutoApprove /\ role \notin {"admin", "lookup"} /\ tier = "unset" THEN "client" ELSE tier
    /\ mintAuthCode(f)
    /\ UNCHANGED <<clock, fixed, deletedAt, grants>>

\* The database gives out no code past its time; in memory the handler checks.
ConsumeOAuthCode(f) == flow[f].st = "code" /\ (store = "db" => ~Expired(f))

\* The site's own client takes an access token and nothing that lasts.
ExchangeConnect(f) ==
    /\ ConsumeOAuthCode(f) /\ flow[f].client = ConnectClientID
    /\ flow' = [flow EXCEPT ![f] = Over(f)]
    /\ UNCHANGED <<clock, fixed, tier, deletedAt, grants>>

\* A code is spent by the first request that names it, whatever comes next.
handleTokenAuthCode(f) ==
    /\ ConsumeOAuthCode(f) /\ flow[f].client # ConnectClientID
    /\ \E accepted \in BOOLEAN :
          flow' = [flow EXCEPT ![f] = IF accepted /\ ~Expired(f) THEN [@ EXCEPT !.st = "redeeming"] ELSE Over(f)]
    /\ UNCHANGED <<clock, fixed, tier, deletedAt, grants>>

DeleteExpiredOAuthRows == {f \in At("pending") \cup At("code") : Expired(f)}

sweep ==
    LET old == DeleteExpiredOAuthRows \cup {f \in At("enable") : Expired(f)}
    IN  /\ old # {}
        /\ flow' = [f \in Flows |-> IF f \in old THEN Over(f) ELSE flow[f]]
        /\ UNCHANGED <<clock, fixed, tier, deletedAt, grants>>

-----------------------------------------------------------------------------
(* Refresh tokens.                                                         *)

Live(t) == tok[t].revoked = ""
Rows(f) == {t \in DOMAIN tok : tok[t].family = f /\ tok[t].revoked # "swept"}
LiveRows(f) == {t \in Rows(f) : Live(t)}

\* Rows a rotation has updated and not yet committed; it also holds the users
\* row in share mode.
RowLocked(t) == \E r \in Requests : req[r].pc = "rotating" /\ req[r].tok = t
UserLocked == \E r \in Requests : req[r].pc = "rotating"

RevokedAs(ts, reason) ==
    [t \in DOMAIN tok |-> IF t \in ts THEN [tok[t] EXCEPT !.revoked = reason, !.revokedAt = 0] ELSE tok[t]]

saveRefreshToken(f) ==
    Append(tok, [family |-> f, client |-> flow[f].client, parent |-> None,
                 scope |-> narrowGrant(ResolveScopes, flow[f].scope),
                 expiresAt |-> clock + RefreshTokenTTL, revoked |-> "", revokedAt |-> 0])

\* The first row of a new family, unless the account was deleted at or after the
\* code was issued.
SaveRefreshTokenForGrant(f) ==
    IF accountDeletedSince(flow[f].at) THEN UNCHANGED <<tok, held>>
    ELSE /\ Len(tok) < MaxTokens
         /\ tok' = saveRefreshToken(f)
         /\ held' = [held EXCEPT ![f] = Len(tok) + 1]

issueRefreshToken(f) ==
    /\ flow[f].st = "redeeming"
    /\ flow' = [flow EXCEPT ![f] = Over(f)]
    /\ SaveRefreshTokenForGrant(f)
    /\ UNCHANGED <<clock, fixed, tier, deletedAt, req>>

boundRefreshGrant(original) == ResolveScopes \cap original

FamilyEverHeldScope(f) == \E t \in Rows(f) : tok[t].scope # {}

refreshGrantStillValid(bounded, f) == bounded # {} \/ (~FamilyEverHeldScope(f) /\ tier # "none")

\* A client keeps a token it is handed in answer to the token it still holds;
\* the answer may be lost.
Answered(f, old, new) ==
    \/ UNCHANGED held
    \/ held[f] = old /\ held' = [held EXCEPT ![f] = new]

LookupRefreshToken(t) == tok[t].revoked # "swept"

LookupRefreshTokenByHashPair(t, c) ==
    {s \in Rows(tok[t].family) : Live(s) /\ tok[s].parent = t /\ tok[s].client = c}

Late(t) == clock - tok[t].revokedAt >= rotationGraceWindow

\* A rotated token presented again inside the window is answered with the
\* successor it already has, or turned down; only outside it is it reuse.
attemptGraceRecovery(r, t, c) ==
    IF tok[t].revoked # "rotated" \/ Late(t)
    THEN /\ req' = [req EXCEPT ![r] = [Idle EXCEPT !.pc = "revoking", !.tok = t, !.reason = "reuse_detected"]]
         /\ held' = IF tok[t].revoked = "rotated" THEN [held EXCEPT ![tok[t].family] = None] ELSE held
    ELSE /\ req' = [req EXCEPT ![r] = Idle]
         /\ \/ UNCHANGED held
            \/ \E s \in LookupRefreshTokenByHashPair(t, c) :
                  /\ clock <= tok[s].expiresAt
                  /\ refreshGrantStillValid(boundRefreshGrant(tok[s].scope), tok[s].family)
                  /\ Answered(tok[s].family, t, s)

\* Up to the decision to rotate; a request turned down here changes nothing.
handleTokenRefresh(r, t, c) ==
    LET row == tok[t]
        bounded == boundRefreshGrant(row.scope)
    IN  /\ req[r].pc = "idle" /\ c # ConnectClientID /\ LookupRefreshToken(t)
        /\ held[row.family] \in {t, None}
        /\ \/ row.revoked # "" /\ attemptGraceRecovery(r, t, c)
           \/ /\ row.revoked = "" /\ clock <= row.expiresAt /\ row.client = c
              /\ refreshGrantStillValid(bounded, row.family)
              /\ req' = [req EXCEPT ![r] = [Idle EXCEPT !.pc = "looked", !.tok = t, !.client = c, !.scope = bounded]]
              /\ UNCHANGED held
        /\ UNCHANGED <<clock, fixed, tier, deletedAt, flow, tok>>

\* From here on anybody may present any token of the family.
Leaked(f) ==
    /\ held[f] # None
    /\ held' = [held EXCEPT ![f] = None]
    /\ UNCHANGED <<clock, fixed, tier, deletedAt, flow, tok, req>>

\* The old row spent and its successor in place, in one transaction.
Rotated(r) ==
    LET t == req[r].tok
    IN  Append([tok EXCEPT ![t].revoked = "rotated", ![t].revokedAt = req[r].at],
               [tok[t] EXCEPT !.parent = t, !.scope = req[r].scope])

FaultyRotate(r) ==
    /\ req[r].pc = "looked" /\ ~RowLocked(req[r].tok) /\ Len(tok) < MaxTokens
    /\ tok[req[r].tok].revoked \in {"", "rotated"}
    /\ tok' = Append([tok EXCEPT ![req[r].tok].revoked = "rotated", ![req[r].tok].revokedAt = clock],
                     [tok[req[r].tok] EXCEPT !.parent = req[r].tok, !.revoked = "", !.scope = req[r].scope])
    /\ req' = [req EXCEPT ![r] = Idle]
    /\ Answered(tok[req[r].tok].family, req[r].tok, Len(tok) + 1)
    /\ UNCHANGED <<clock, fixed, tier, deletedAt, flow>>

\* UPDATE ... WHERE revoked_at IS NULL decides between two rotations.
RotateRefreshToken(r) ==
    LET t == req[r].tok
    IN  /\ req[r].pc = "looked" /\ ~RowLocked(t)
        /\ IF ~Live(t)
           THEN req' = [req EXCEPT ![r].pc = "lost"] /\ UNCHANGED <<tok, held>>
           ELSE /\ Len(tok) + Cardinality({q \in Requests : req[q].pc = "rotating"}) < MaxTokens
                /\ IF dialect = "postgres"
                   THEN req' = [req EXCEPT ![r].pc = "rotating", ![r].at = clock] /\ UNCHANGED <<tok, held>>
                   ELSE /\ tok' = [Rotated(r) EXCEPT ![t].revokedAt = clock]
                        /\ req' = [req EXCEPT ![r] = Idle]
                        /\ Answered(tok[t].family, t, Len(tok) + 1)
        /\ UNCHANGED <<clock, fixed, tier, deletedAt, flow>>

CommitRotation(r) ==
    /\ req[r].pc = "rotating"
    /\ tok' = Rotated(r)
    /\ req' = [req EXCEPT ![r] = Idle]
    /\ Answered(tok[req[r].tok].family, req[r].tok, Len(tok) + 1)
    /\ UNCHANGED <<clock, fixed, tier, deletedAt, flow>>

\* A rotation that lost the race reads the row again before it calls it reuse.
RotationLost(r) ==
    /\ req[r].pc = "lost"
    /\ attemptGraceRecovery(r, req[r].tok, req[r].client)
    /\ UNCHANGED <<clock, fixed, tier, deletedAt, flow, tok>>

handleRevoke(r, t, c) ==
    /\ req[r].pc = "idle" /\ LookupRefreshToken(t) /\ tok[t].client = c
    /\ req' = [req EXCEPT ![r] = [Idle EXCEPT !.pc = "revoking", !.tok = t, !.reason = "explicit_revoke"]]
    /\ UNCHANGED <<clock, fixed, tier, deletedAt, flow, tok, held>>

\* One UPDATE over the family.  It does not lock the users row, so on Postgres
\* it may find a row that a rotation has locked, and waits.
RevokeRefreshTokenFamily(r) ==
    LET f == tok[req[r].tok].family
    IN  /\ req[r].pc = "revoking"
        /\ IF \E t \in LiveRows(f) : RowLocked(t)
           THEN req' = [req EXCEPT ![r].pc = "waiting", ![r].snap = LiveRows(f)] /\ UNCHANGED tok
           ELSE /\ tok' = RevokedAs(LiveRows(f), req[r].reason)
                /\ req' = [req EXCEPT ![r] = Idle]
        /\ UNCHANGED <<clock, fixed, tier, deletedAt, flow, held>>

\* The lock is gone: the rows seen at the start are checked once more.
RevokeResumes(r) ==
    /\ req[r].pc = "waiting" /\ \A s \in req[r].snap : ~RowLocked(s)
    /\ tok' = RevokedAs({s \in req[r].snap : Live(s)}, req[r].reason)
    /\ req' = [req EXCEPT ![r] = Idle]
    /\ UNCHANGED <<clock, fixed, tier, deletedAt, flow, held>>

\* A database error ends a request; a transaction it had open rolls back.
RequestFails(r) ==
    /\ req[r].pc # "idle"
    /\ req' = [req EXCEPT ![r] = Idle]
    /\ UNCHANGED <<clock, fixed, tier, deletedAt, flow, tok, held>>

SweepExpiredRefreshTokens ==
    LET rows == {t \in DOMAIN tok : tok[t].revoked # "swept" /\ tok[t].expiresAt < clock}
    IN  /\ rows # {} /\ \A t \in rows : ~RowLocked(t)
        /\ tok' = RevokedAs(rows, "swept")
        /\ UNCHANGED <<clock, fixed, tier, deletedAt, flow, req, held>>

-----------------------------------------------------------------------------
(* The owner and the operator.                                             *)

\* What the manage page lists for a client.
ListActiveClientGrants(c) == {t \in DOMAIN tok : Live(t) /\ tok[t].client = c /\ tok[t].expiresAt > clock}

\* The owner cuts one client off on the manage page.
RevokeClientGrants(c) ==
    /\ ~UserLocked /\ ListActiveClientGrants(c) # {}
    /\ tok' = RevokedAs(ListActiveClientGrants(c), "owner_revoke")
    /\ UNCHANGED <<clock, fixed, tier, deletedAt, flow, req, held>>

HardDeleteAccount ==
    /\ ~UserLocked
    /\ deletedAt' = clock
    /\ tok' = RevokedAs({t \in DOMAIN tok : Live(t)}, "account_deleted")
    /\ UNCHANGED <<clock, fixed, tier, flow, req, held>>

SetAccessTier ==
    /\ tier' \in {"client", "none"} \ {tier}
    /\ UNCHANGED <<clock, fixed, deletedAt, flow, grants>>

\* A restart drops everything held in memory.
Restart ==
    /\ flow' = [f \in Flows |-> IF flow[f].st = "new" \/ (store = "db" /\ flow[f].st \in {"pending", "code"})
                                THEN flow[f] ELSE Over(f)]
    /\ req' = [r \in Requests |-> Idle]
    /\ UNCHANGED <<clock, fixed, tier, deletedAt, tok, held>>

Next ==
    \/ Tick \/ sweep \/ SweepExpiredRefreshTokens
    \/ HardDeleteAccount \/ SetAccessTier \/ Restart
    \/ \E f \in Flows :
          \/ \E c \in Clients, scope \in Requested : handleAuthorize(f, c, scope)
          \/ ConsumePending(f) \/ CallbackFails(f) \/ handleTelegramCallback(f) \/ InsertCodeInMemory(f)
          \/ SaveSessionForSignIn(f) \/ finishEnable(f)
          \/ Leaked(f) \/ ExchangeConnect(f) \/ handleTokenAuthCode(f) \/ issueRefreshToken(f)
    \/ \E c \in Clients : RevokeClientGrants(c)
    \/ \E r \in Requests :
          \/ \E t \in DOMAIN tok, c \in Clients : handleTokenRefresh(r, t, c) \/ handleRevoke(r, t, c)
          \/ RotateRefreshToken(r) \/ CommitRotation(r) \/ RotationLost(r)
          \/ RevokeRefreshTokenFamily(r) \/ RevokeResumes(r) \/ RequestFails(r)

Spec == Init /\ [][Next]_vars

-----------------------------------------------------------------------------
\* A grant does not outlive the deletion of the account it was given for: a live
\* refresh token descends from a sign-in begun after the last deletion, however
\* the deletion fell between authorize, callback, code, redemption and rotation.
DeletedGrantsStayDead ==
    \A t \in DOMAIN tok : Live(t) => flow[tok[t].family].started > deletedAt

\* Two rotations of one token, or a rotation and a retry, never leave two live
\* tokens in a family.
OneLiveTokenPerFamily ==
    \A f \in Families : Cardinality(LiveRows(f)) <= 1

\* A client that only presents the token it holds, and retries a lost answer
\* inside the grace window, is never taken for a thief: until its family is
\* ended on purpose or expires, the token it holds or that token's successor is
\* live.
HonestClientKeepsGrant ==
    \A f \in Families :
       \/ held[f] = None
       \/ \E t \in DOMAIN tok : tok[t].family = f
             /\ tok[t].revoked \in {"explicit_revoke", "owner_revoke", "account_deleted", "swept"}
       \/ \E t \in LiveRows(f) : t = held[f] \/ tok[t].parent = held[f]
=============================================================================
