------------------------------ MODULE MCAudit ------------------------------
(* The audit log (AuditChain), grants of OAuth clients (OAuthGrants), tokens *)
(* of workers (WorkerTokens), and the credential of a device                 *)
(* (DeviceCredential).                                                       *)
EXTENDS AuditChain, TLC

CONSTANTS t1, t2, k1, k2, c3, NotRun, c1, self

VARIABLES
  part,  \* the component this behaviour is about
  grantClock, role, dialect, store, tier, deletedAt, flow, tok, req, held,
  now, tokens, lines, revoked, inactive, cache, reads, maxReads, slot, told,
  faults,
  nd, device, denylist, nonces, stale, posts, proofs, rec, proc, runs, minted,
  expiry, keys, revoking, ops, deviceFaults

\* Requests, slots and commands; sign-ins of OAuth clients and server slots.
Twins == {t1, t2}
Pair == {k1, k2}

OAuthClients == {c1, self}
Roles == {"plain"}
Asked == {{"telegram"}}
Deployments == {<<"postgres", "db">>, <<"sqlite", "memory">>}

\* A token from before the jti and orig_iat claims.
OldTokens == {[kind |-> "worker", acct |-> 1, jti |-> 0, orig |-> 0, iat |-> 2,
               exp |-> 6, line |-> 0, born |-> 2]}
\* Reads of the list, failed ones.
Reads == {<<2, 1>>}
TTLs == {9}

OG == INSTANCE OAuthGrants WITH
  clock <- grantClock, Clients <- OAuthClients, Flows <- Pair,
  Requests <- Twins, ConnectClientID <- self, Requested <- Asked,
  AutoApprove <- TRUE, CodeTTL <- 1, RefreshTokenTTL <- 1,
  rotationGraceWindow <- 1, MaxPendingAuth <- 1, MaxAuthCodes <- 1,
  MaxPendingEnable <- 1, MaxClock <- 2, MaxTokens <- 3
grantVars == <<grantClock, role, dialect, store, tier, deletedAt, flow, tok,
               req, held>>

WT == INSTANCE WorkerTokens WITH
  Accounts <- {1}, Slots <- Twins, MaxJtis <- 2, MaxTokens <- 3, StartTime <- 3,
  MaxTime <- 5, MaxRevokes <- 1, Budgets <- Reads, Hours <- TTLs,
  DefaultTTL <- 2, MaxTTL <- 3, maxRenewalChain <- 3, CacheTTL <- 1,
  StartRows <- OldTokens
tokenVars == <<now, tokens, lines, revoked, inactive, cache, reads, maxReads,
               slot, told, faults>>

\* Revocations, damaged records and expiries; faults.
Happenings == {<<2, 1>>, <<1, 2>>}

DC == INSTANCE DeviceCredential WITH
  slot <- proofs, clock <- expiry, faults <- deviceFaults,
  Activates <- Twins, Slots <- Pair, MaxDevices <- 2, MaxKeys <- 2,
  MaxRuns <- 2, MaxPosts <- 4, MaxPendingDeviceNonces <- 1,
  Budgets <- Happenings
deviceVars == <<nd, device, denylist, nonces, stale, posts, proofs, rec, proc,
                runs, minted, expiry, keys, revoking, ops, deviceFaults>>

\* Two sign-ins up to their first refresh tokens, or one with its rotations
\* (on Postgres).
Bounded ==
  /\ OG!At("new") # {} \/ (Len(tok) <= 1 /\ \A r \in Twins : req[r] = OG!Idle)
  /\ dialect = "postgres" \/ Len(tok) <= 1

Symmetry == Permutations(Twins) \cup Permutations(Pair)

-----------------------------------------------------------------------------
\* Each behaviour runs one of the components; the others do not move.
PackInit ==
  /\ part \in {"audit", "grants", "tokens", "credential"}
  /\ Init /\ (part = "audit" \/ log = {})
  /\ IF part = "grants" THEN OG!Init ELSE
          grantClock = NotRun /\ role = NotRun /\ dialect = NotRun /\ store = NotRun /\
          tier = NotRun /\ deletedAt = NotRun /\ flow = NotRun /\ tok = NotRun /\
          req = NotRun /\ held = NotRun
  /\ IF part = "tokens" THEN WT!Init ELSE
          now = NotRun /\ tokens = NotRun /\ lines = NotRun /\ revoked = NotRun /\
          inactive = NotRun /\ cache = NotRun /\ reads = NotRun /\ maxReads = NotRun /\
          slot = NotRun /\ told = NotRun /\ faults = NotRun
  /\ IF part = "credential" THEN DC!Init ELSE
          nd = NotRun /\ device = NotRun /\ denylist = NotRun /\ nonces = NotRun /\
          stale = NotRun /\ posts = NotRun /\ proofs = NotRun /\ rec = NotRun /\
          proc = NotRun /\ runs = NotRun /\ minted = NotRun /\ expiry = NotRun /\
          keys = NotRun /\ revoking = NotRun /\ ops = NotRun /\ deviceFaults = NotRun

PackNext ==
  \/ part = "audit" /\ Next /\ UNCHANGED <<part, grantVars, tokenVars, deviceVars>>
  \/ part = "grants" /\ Bounded /\ OG!Next /\ UNCHANGED <<part, vars, tokenVars, deviceVars>>
  \/ part = "tokens" /\ WT!Next /\ UNCHANGED <<part, vars, grantVars, deviceVars>>
  \/ part = "credential" /\ DC!Next /\ UNCHANGED <<part, vars, grantVars, tokenVars>>

PackSpec == PackInit /\ [][PackNext]_<<part, vars, grantVars, tokenVars, deviceVars>>

-----------------------------------------------------------------------------
\* Rotations, retries, deletions and revocations that meet: no grant outlives
\* its account, a family has one live token, and a client that behaves keeps
\* its grant until someone ends it.
GrantsAreSound ==
  part = "grants" => /\ OG!DeletedGrantsStayDead /\ OG!OneLiveTokenPerFamily
                     /\ OG!HonestClientKeepsGrant

\* A revocation that was answered as refreshed holds, for a lineage and for an
\* account, no chain of renewals outlives its window, and a revoked device
\* gets no bridge token.
TokensAreSound ==
  /\ [](part = "tokens" =>
          WT!ChainEnds /\ WT!RevokedLineageStaysOut /\ WT!BlanketCoversChain)
  /\ [][part = "tokens" => WT!RevokedDeviceGetsNone]_tokenVars

\* A device has one lineage of tokens, all refused once it is revoked; and the
\* record on disk never pairs a key with another's credential, nor goes back
\* to an older one.
CredentialsAreSound ==
  /\ [](part = "credential" =>
          DC!RevokedLineageDenied /\ DC!OneLineage /\ DC!RecordMatchesKey)
  /\ [][part = "credential" => DC!NewerCredentialKept]_deviceVars
=============================================================================
