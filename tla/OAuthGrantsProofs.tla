-------------------------- MODULE OAuthGrantsProofs --------------------------
(***************************************************************************)
(* Grants of OAuth clients (OAuthGrants): no grant outlives the deletion   *)
(* of its account, a family has one live token, and a client that behaves  *)
(* keeps its grant.  GrantInv is the inductive invariant; one lemma for    *)
(* each kind of change (sign-ins, requests, revocations, rotations, the    *)
(* first row of a family) shows what keeps it, and one for each action     *)
(* that the action is such a change.                                       *)
(***************************************************************************)
EXTENDS OAuthGrants, SequenceTheorems, FiniteSetTheorems, TLAPS

\* The lifetime of a refresh token is a number.
GrantAssumption == RefreshTokenTTL \in Int

States == {"new", "pending", "callback", "enable", "saved", "minting", "code", "redeeming", "gone"}
Ends == {"explicit_revoke", "owner_revoke", "account_deleted", "swept"}
AnyClient == Clients \cup {NoClient}
FlowType == [st : States, client : AnyClient, scope : {{}} \cup Requested, started : Nat, at : Nat]
TokenType == [family : Flows, client : AnyClient, parent : Nat, scope : SUBSET Scopes,
              expiresAt : Int, revoked : {"", "rotated", "reuse_detected"} \cup Ends, revokedAt : Int]
AskType == [pc : {"idle", "looked", "rotating", "lost", "revoking", "waiting"}, tok : Nat,
            client : AnyClient, at : Nat, scope : SUBSET Scopes,
            reason : {"", "reuse_detected", "explicit_revoke"}, snap : SUBSET Nat]

GrantType ==
    /\ clock \in Nat
    /\ deletedAt \in Int /\ deletedAt <= clock
    /\ flow \in [Flows -> FlowType] /\ \A f \in Flows : flow[f].at <= clock
    /\ tok \in Seq(TokenType)
    /\ req \in [Requests -> AskType]
    /\ held \in [Flows -> Nat]

\* A code given out is for a sign-in that no deletion has overtaken, or is
\* itself older than the deletion.
SignInInv ==
    \A f \in Flows : flow[f].st \in {"minting", "code", "redeeming"} =>
        flow[f].started > deletedAt \/ flow[f].at <= deletedAt

\* A family's sign-in is over, and began after the last deletion if a token of
\* the family is live.
FamilyInv ==
    \A t \in DOMAIN tok : /\ flow[tok[t].family].st = "gone"
                          /\ Live(t) => flow[tok[t].family].started > deletedAt

\* A family has one live token.
OneLive == \A s, t \in DOMAIN tok : Live(s) /\ Live(t) /\ tok[s].family = tok[t].family => s = t

\* The family was ended on purpose, or nobody is known to keep its token.
Parted(f) == held[f] = None \/ \E t \in DOMAIN tok : tok[t].family = f /\ tok[t].revoked \in Ends

\* Otherwise the token its client keeps is live, or its successor is.
KeepInv ==
    \A f \in Flows : \/ Parted(f)
                     \/ \E t \in DOMAIN tok : /\ Live(t) /\ tok[t].family = f
                                              /\ t = held[f] \/ tok[t].parent = held[f]

\* Reuse was only found in families that nobody behaving depends on.
ReuseInv == \A t \in DOMAIN tok : tok[t].revoked = "reuse_detected" => Parted(tok[t].family)

\* What a request in progress relies on.
AskInv(r) ==
    req[r].pc # "idle" =>
        /\ req[r].tok \in DOMAIN tok
        /\ req[r].pc = "rotating" => Live(req[r].tok)
        /\ req[r].pc \in {"looked", "rotating"} /\ Live(req[r].tok) =>
              held[tok[req[r].tok].family] \in {req[r].tok, None}
        /\ req[r].pc = "lost" => ~Live(req[r].tok)
        /\ req[r].pc \in {"revoking", "waiting"} =>
              /\ req[r].reason \in {"reuse_detected", "explicit_revoke"}
              /\ req[r].reason = "reuse_detected" => Parted(tok[req[r].tok].family)
        /\ req[r].pc = "waiting" =>
              \A s \in req[r].snap : s \in DOMAIN tok /\ tok[s].family = tok[req[r].tok].family

\* One rotation at a time has a row.
LockInv ==
    \A q, r \in Requests :
        req[q].pc = "rotating" /\ req[r].pc = "rotating" /\ req[q].tok = req[r].tok => q = r

GrantInv ==
    /\ GrantType /\ SignInInv /\ FamilyInv /\ OneLive /\ KeepInv /\ ReuseInv
    /\ (\A r \in Requests : AskInv(r)) /\ LockInv
-----------------------------------------------------------------------------
\* The fields of a sign-in, a row and a request.
LEMMA GrantFields ==
    ASSUME GrantType
    PROVE  /\ \A f \in Flows : /\ flow[f].st \in States /\ flow[f].client \in AnyClient
                               /\ flow[f].scope \in {{}} \cup Requested
                               /\ flow[f].started \in Nat /\ flow[f].at \in Nat
           /\ DOMAIN tok = 1..Len(tok) /\ Len(tok) \in Nat
           /\ \A t \in DOMAIN tok : tok[t] \in TokenType /\ tok[t].family \in Flows
           /\ \A r \in Requests : req[r] \in AskType /\ req[r].tok \in Nat
<1>1. \A f \in Flows : flow[f] \in FlowType
  BY Zenon DEF GrantType
<1>2. \A r \in Requests : req[r] \in AskType
  BY Zenon DEF GrantType
<1>3. DOMAIN tok = 1..Len(tok) /\ Len(tok) \in Nat /\ \A t \in DOMAIN tok : tok[t] \in TokenType
  BY DEF GrantType
<1>4. \A t \in DOMAIN tok : tok[t].family \in Flows
  BY <1>3, Zenon DEF TokenType
<1>5. \A r \in Requests : req[r].tok \in Nat
  BY <1>2, Zenon DEF AskType
<1>6. \A f \in Flows : /\ flow[f].st \in States /\ flow[f].client \in AnyClient
                       /\ flow[f].scope \in {{}} \cup Requested
                       /\ flow[f].started \in Nat /\ flow[f].at \in Nat
  BY <1>1, Zenon DEF FlowType
<1> QED
  BY <1>2, <1>3, <1>4, <1>5, <1>6, Zenon

\* The idle request.
LEMMA IdleAsk == Idle \in AskType /\ Idle.pc = "idle"
  BY Zenon DEF Idle, AskType, None, AnyClient

\* What a family that is parted, and the requests about it, need of a step.
LEMMA PartedKept ==
    ASSUME GrantType, NEW f \in Flows, Parted(f), DOMAIN tok \subseteq DOMAIN tok',
           held[f] = None => held'[f] = None,
           \A t \in DOMAIN tok : /\ tok'[t].family = tok[t].family
                                 /\ tok[t].revoked \in Ends => tok'[t].revoked \in Ends
    PROVE  Parted(f)'
<1>1. CASE held[f] = None
  BY <1>1, Zenon DEF Parted
<1>2. CASE \E t \in DOMAIN tok : tok[t].family = f /\ tok[t].revoked \in Ends
  <2>1. PICK t \in DOMAIN tok : tok[t].family = f /\ tok[t].revoked \in Ends
    BY <1>2, Zenon
  <2>2. t \in DOMAIN tok' /\ tok'[t].family = f /\ tok'[t].revoked \in Ends
    BY <2>1, Zenon
  <2> QED
    BY <2>2, Zenon DEF Parted
<1> QED
  BY <1>1, <1>2, Zenon DEF Parted

\* A request that does not move keeps what it relies on when its row and its
\* client do.
LEMMA AskKept ==
    ASSUME GrantInv, NEW r \in Requests, req'[r] = req[r], DOMAIN tok \subseteq DOMAIN tok',
           \A t \in DOMAIN tok : /\ tok'[t].family = tok[t].family
                                 /\ Live(t)' => Live(t),
           \A f \in Flows : Parted(f) => Parted(f)',
           req[r].pc = "rotating" => Live(req[r].tok)',
           req[r].pc # "idle" /\ Live(req[r].tok)'
              /\ held[tok[req[r].tok].family] \in {req[r].tok, None} =>
                   held'[tok[req[r].tok].family] \in {req[r].tok, None}
    PROVE  AskInv(r)'
<1> SUFFICES ASSUME req[r].pc # "idle" PROVE AskInv(r)'
  BY Zenon DEF AskInv
<1>0. PICK t : t = req[r].tok
  BY Zenon
<1>a. t = req'[r].tok
  BY <1>0, Zenon
<1>1. AskInv(r) /\ GrantType
  BY Zenon DEF GrantInv
<1>2. t \in DOMAIN tok /\ t \in DOMAIN tok' /\ tok'[t].family = tok[t].family
  BY <1>0, <1>1, Zenon DEF AskInv
<1>3. tok[t].family \in Flows
  BY <1>1, <1>2, GrantFields, Zenon
<1>b. req[r].pc = "rotating" => Live(t)'
  BY <1>a, Zenon DEF Live
<1>4. req[r].pc \in {"looked", "rotating"} /\ Live(t)' => held'[tok'[t].family] \in {t, None}
  <2> SUFFICES ASSUME req[r].pc \in {"looked", "rotating"}, Live(t)'
               PROVE  held'[tok[t].family] \in {t, None}
    BY <1>2, Zenon
  <2>1. Live(t)
    BY <1>2, Zenon
  <2>2. held[tok[t].family] \in {t, None}
    BY <1>0, <1>1, <2>1, Zenon DEF AskInv
  <2>3. Live(req[r].tok)'
    BY <1>a, Zenon DEF Live
  <2> QED
    BY <1>0, <2>2, <2>3, Zenon
<1>5. req[r].pc = "lost" => ~Live(t)'
  BY <1>0, <1>1, <1>2, Zenon DEF AskInv
<1>6. req[r].pc \in {"revoking", "waiting"} =>
        /\ req[r].reason \in {"reuse_detected", "explicit_revoke"}
        /\ req[r].reason = "reuse_detected" => Parted(tok[t].family)'
  <2>1. Parted(tok[t].family) => Parted(tok[t].family)'
    <3>1. PICK f \in Flows : f = tok[t].family
      BY <1>3, Zenon
    <3>2. Parted(f) => Parted(f)'
      OBVIOUS
    <3> QED
      BY <1>2, <3>1, <3>2, Zenon DEF Parted
  <2> QED
    BY <1>0, <1>1, <2>1, Zenon DEF AskInv
<1>7. req[r].pc = "waiting" =>
        \A s \in req[r].snap : s \in DOMAIN tok' /\ tok'[s].family = tok'[t].family
  BY <1>0, <1>1, <1>2, Zenon DEF AskInv
<1>8. /\ req'[r].pc = req[r].pc /\ req'[r].reason = req[r].reason /\ req'[r].snap = req[r].snap
      /\ req'[r].tok = t
  BY <1>a, Zenon
<1> QED
  BY <1>2, <1>b, <1>4, <1>5, <1>6, <1>7, <1>8, Zenon DEF AskInv, Live, Parted

\* Requests that end rely on nothing, and the others on rows and clients.
LEMMA AsksKept ==
    ASSUME GrantInv,
           \A r \in Requests : req'[r] = req[r] \/ req'[r] = Idle,
           UNCHANGED <<tok, held>>
    PROVE  (\A r \in Requests : AskInv(r)') /\ LockInv'
<1>1. ASSUME NEW r \in Requests PROVE AskInv(r)'
  <2>1. CASE req'[r] = req[r]
    <3>1. tok' = tok /\ held' = held
      OBVIOUS
    <3>2. AskInv(r)
      BY Zenon DEF GrantInv
    <3>3. \A f \in Flows : Parted(f) => Parted(f)'
      BY <3>1, Zenon DEF Parted
    <3>4. req[r].pc = "rotating" => Live(req[r].tok)'
      BY <2>1, <3>1, <3>2, Zenon DEF AskInv, Live
    <3>5. \A t \in DOMAIN tok : Live(t)' => Live(t)
      BY <3>1, Zenon DEF Live
    <3> QED
      BY <2>1, <3>1, <3>3, <3>4, <3>5, AskKept, Zenon
  <2>2. CASE req'[r] = Idle
    BY <2>2, IdleAsk, Zenon DEF AskInv
  <2> QED
    BY <2>1, <2>2, Zenon
<1>2. LockInv'
  <2>1. LockInv
    BY Zenon DEF GrantInv
  <2> QED
    BY <2>1, IdleAsk, Zenon DEF LockInv
<1> QED
  BY <1>1, <1>2, Zenon

\* A sign-in moves on without giving out a code, or gives one out that no
\* deletion has overtaken, or carries its code on, or ends.
SignInMoves(f) ==
    \/ flow'[f] = flow[f]
    \/ flow'[f] = Over(f)
    \/ /\ flow[f].st # "gone"
       /\ flow'[f] \in FlowType /\ flow'[f].at <= clock
       /\ \/ flow'[f].st \in {"pending", "callback", "enable", "saved"}
          \/ flow'[f].st \in {"minting", "code"} /\ flow'[f].started > deletedAt
          \/ /\ flow[f].st \in {"minting", "code"} /\ flow'[f].st \in {"code", "redeeming"}
             /\ flow'[f].started = flow[f].started /\ flow'[f].at = flow[f].at

\* What is over has its type and keeps its beginning.
LEMMA OverFields ==
    ASSUME GrantType, NEW f \in Flows
    PROVE  /\ Over(f) \in FlowType /\ Over(f).st = "gone"
           /\ Over(f).started = flow[f].started /\ Over(f).at = 0
<1>1. flow[f].started \in Nat
  BY GrantFields, Zenon
<1> QED
  BY <1>1, Zenon DEF Over, FlowType, States, AnyClient

\* Steps of sign-ins.
LEMMA SignInStep ==
    ASSUME GrantInv, UNCHANGED <<clock, deletedAt, tok, held>>,
           flow' = [f \in Flows |-> flow'[f]], req' = [r \in Requests |-> req'[r]],
           \A f \in Flows : SignInMoves(f),
           \A r \in Requests : req'[r] = req[r] \/ req'[r] = Idle
    PROVE  GrantInv'
<1>0. GrantType /\ SignInInv /\ FamilyInv
  BY Zenon DEF GrantInv
<1>1. ASSUME NEW f \in Flows
      PROVE  /\ flow'[f] \in FlowType /\ flow'[f].at <= clock
             /\ flow'[f].st \in {"minting", "code", "redeeming"} =>
                  flow'[f].started > deletedAt \/ flow'[f].at <= deletedAt
             /\ flow[f].st = "gone" => flow'[f].st = "gone" /\ flow'[f].started = flow[f].started
  <2>0. flow[f] \in FlowType /\ flow[f].at <= clock /\ clock \in Nat
    BY <1>0, Zenon DEF GrantType
  <2>s. flow[f].st \in {"minting", "code", "redeeming"} =>
          flow[f].started > deletedAt \/ flow[f].at <= deletedAt
    BY <1>0, Zenon DEF SignInInv
  <2>1. CASE flow'[f] = flow[f]
    BY <2>0, <2>1, <2>s, Zenon
  <2>2. CASE flow'[f] = Over(f)
    <3>1. 0 <= clock
      BY <2>0
    <3> QED
      BY <1>0, <2>2, <3>1, OverFields, Zenon
  <2>3. CASE /\ flow[f].st # "gone"
             /\ flow'[f] \in FlowType /\ flow'[f].at <= clock
             /\ \/ flow'[f].st \in {"pending", "callback", "enable", "saved"}
                \/ flow'[f].st \in {"minting", "code"} /\ flow'[f].started > deletedAt
                \/ /\ flow[f].st \in {"minting", "code"} /\ flow'[f].st \in {"code", "redeeming"}
                   /\ flow'[f].started = flow[f].started /\ flow'[f].at = flow[f].at
    BY <2>3, <2>s, Zenon
  <2> QED
    BY <2>1, <2>2, <2>3, Zenon DEF SignInMoves
<1>2. req' \in [Requests -> AskType]
  <2>1. \A r \in Requests : req'[r] \in AskType
    BY <1>0, GrantFields, IdleAsk, Zenon
  <2> QED
    BY <2>1, Zenon
<1>3. flow' \in [Flows -> FlowType]
  BY <1>1, Zenon
<1>4. GrantType'
  BY <1>0, <1>1, <1>2, <1>3, Zenon DEF GrantType
<1>5. SignInInv'
  BY <1>1, Zenon DEF SignInInv
<1>6. FamilyInv'
  <2> SUFFICES ASSUME NEW t \in DOMAIN tok
               PROVE  /\ flow'[tok[t].family].st = "gone"
                      /\ Live(t) => flow'[tok[t].family].started > deletedAt
    BY Zenon DEF FamilyInv, Live
  <2>1. tok[t].family \in Flows
    BY <1>0, GrantFields, Zenon
  <2> QED
    BY <1>0, <1>1, <2>1, Zenon DEF FamilyInv
<1>7. OneLive' /\ KeepInv' /\ ReuseInv'
  <2>1. OneLive'
    BY Zenon DEF GrantInv, OneLive, Live
  <2>2. KeepInv'
    BY Zenon DEF GrantInv, KeepInv, Live, Parted
  <2>3. ReuseInv'
    BY Zenon DEF GrantInv, ReuseInv, Parted
  <2> QED
    BY <2>1, <2>2, <2>3, Zenon
<1>8. (\A r \in Requests : AskInv(r)') /\ LockInv'
  BY AsksKept, Zenon DEF GrantInv
<1> QED
  BY <1>4, <1>5, <1>6, <1>7, <1>8, Zenon DEF GrantInv

\* Rows of tokens after some of them were revoked.
LEMMA RevokedRows ==
    ASSUME GrantType, NEW ts, NEW reason \in {"reuse_detected"} \cup Ends, tok' = RevokedAs(ts, reason)
    PROVE  /\ tok' \in Seq(TokenType) /\ DOMAIN tok' = DOMAIN tok
           /\ \A t \in DOMAIN tok : /\ tok'[t].family = tok[t].family
                                    /\ tok'[t].parent = tok[t].parent
                                    /\ t \in ts => tok'[t].revoked = reason
                                    /\ t \notin ts => tok'[t] = tok[t]
<1>1. DOMAIN tok' = DOMAIN tok
  BY Zenon DEF RevokedAs
<1>2. DOMAIN tok = 1..Len(tok) /\ Len(tok) \in Nat
  BY GrantFields, Zenon
<1>3. ASSUME NEW t \in DOMAIN tok
      PROVE  /\ tok'[t] \in TokenType /\ tok'[t].family = tok[t].family
             /\ tok'[t].parent = tok[t].parent
             /\ t \in ts => tok'[t].revoked = reason
             /\ t \notin ts => tok'[t] = tok[t]
  <2>1. tok[t] \in TokenType
    BY GrantFields, Zenon
  <2>2. CASE t \in ts
    <3>1. tok'[t] = [tok[t] EXCEPT !.revoked = reason, !.revokedAt = 0]
      BY <2>2, Zenon DEF RevokedAs
    <3>0. reason \in {"", "rotated", "reuse_detected"} \cup Ends
      BY Zenon
    <3>a. 0 \in Int
      BY SMT
    <3>2. tok'[t] \in TokenType
      BY <2>1, <3>0, <3>a, <3>1, Zenon DEF TokenType
    <3>3. tok'[t].family = tok[t].family /\ tok'[t].parent = tok[t].parent /\ tok'[t].revoked = reason
      BY <2>1, <3>1, Zenon DEF TokenType
    <3> QED
      BY <2>2, <3>2, <3>3, Zenon
  <2>3. CASE t \notin ts
    <3>1. tok'[t] = tok[t]
      BY <2>3, Zenon DEF RevokedAs
    <3> QED
      BY <2>1, <2>3, <3>1, Zenon
  <2> QED
    BY <2>2, <2>3, Zenon
<1>4. tok' \in [1..Len(tok) -> TokenType]
  <2>1. tok' = [t \in 1..Len(tok) |-> tok'[t]]
    BY <1>2, Zenon DEF RevokedAs
  <2> QED
    BY <1>2, <1>3, <2>1, Zenon
<1>5. tok' \in Seq(TokenType)
  BY <1>2, <1>4, SeqDef, Zenon
<1> QED
  BY <1>1, <1>3, <1>5, Zenon

\* Revocations: of live rows, or for good; of a family taken to be stolen only
\* when nobody who behaves keeps its token; of no row that is being rotated; and
\* at a deletion of every live row.
LEMMA RevokeStep ==
    ASSUME GrantInv, UNCHANGED <<clock, flow, held>>,
           NEW ts, NEW reason \in {"reuse_detected"} \cup Ends, tok' = RevokedAs(ts, reason),
           reason \notin Ends => \A t \in ts : t \in DOMAIN tok => Live(t) /\ Parted(tok[t].family),
           req' = [r \in Requests |-> req'[r]],
           \A r \in Requests : \/ req'[r] = Idle
                               \/ req'[r] = req[r] /\ (req[r].pc = "rotating" => req[r].tok \notin ts),
           \/ deletedAt' = deletedAt
           \/ deletedAt' = clock /\ \A t \in DOMAIN tok : Live(t) => t \in ts
    PROVE  GrantInv'
<1>0. GrantType /\ SignInInv /\ FamilyInv /\ OneLive /\ KeepInv /\ ReuseInv /\ LockInv
  BY Zenon DEF GrantInv
<1>a. reason # "" /\ (reason = "reuse_detected" <=> reason \notin Ends)
  BY Zenon DEF Ends
<1>1. tok' \in Seq(TokenType) /\ DOMAIN tok' = DOMAIN tok
  BY <1>0, RevokedRows, Zenon
<1>2. \A t \in DOMAIN tok : /\ tok'[t].family = tok[t].family
                            /\ tok'[t].parent = tok[t].parent
                            /\ t \in ts => tok'[t].revoked = reason
                            /\ t \notin ts => tok'[t] = tok[t]
  BY <1>0, RevokedRows, Zenon
<1>3. \A t \in DOMAIN tok : Live(t)' => t \notin ts /\ Live(t)
  BY <1>2, <1>a, Zenon DEF Live
<1>4. \A t \in DOMAIN tok : tok[t].revoked \in Ends => tok'[t].revoked \in Ends
  <2> SUFFICES ASSUME NEW t \in DOMAIN tok, tok[t].revoked \in Ends, t \in ts, reason \notin Ends
               PROVE  FALSE
    BY <1>2, Zenon
  <2>1. tok[t].revoked = ""
    BY Zenon DEF Live
  <2> QED
    BY <2>1, Zenon DEF Ends
<1>5. \A f \in Flows : Parted(f) => Parted(f)'
  BY <1>0, <1>1, <1>2, <1>4, PartedKept, Zenon
<1>6. GrantType'
  <2>1. req' \in [Requests -> AskType]
    <3>1. \A r \in Requests : req'[r] \in AskType
      BY <1>0, GrantFields, IdleAsk, Zenon
    <3> QED
      BY <3>1, Zenon
  <2>2. deletedAt' \in Int /\ deletedAt' <= clock
    BY <1>0 DEF GrantType
  <2> QED
    BY <1>0, <1>1, <2>1, <2>2, Zenon DEF GrantType
<1>7. SignInInv'
  <2>1. CASE deletedAt' = deletedAt
    BY <1>0, <2>1, Zenon DEF SignInInv
  <2>2. CASE deletedAt' = clock
    BY <1>0, <2>2, Zenon DEF SignInInv, GrantType
  <2> QED
    BY <2>1, <2>2, Zenon
<1>8. FamilyInv'
  <2> SUFFICES ASSUME NEW t \in DOMAIN tok'
               PROVE  /\ flow'[tok'[t].family].st = "gone"
                      /\ Live(t)' => flow'[tok'[t].family].started > deletedAt'
    BY Zenon DEF FamilyInv
  <2>0. t \in DOMAIN tok
    BY <1>1, Zenon
  <2>1. flow[tok[t].family].st = "gone" /\ (Live(t) => flow[tok[t].family].started > deletedAt)
    BY <1>0, <2>0, Zenon DEF FamilyInv
  <2>2. Live(t)' => Live(t) /\ deletedAt' = deletedAt
    BY <1>3, <2>0, Zenon
  <2>3. flow'[tok'[t].family] = flow[tok[t].family]
    BY <1>2, <2>0, Zenon
  <2> QED
    BY <2>1, <2>2, <2>3, Zenon
<1>9. OneLive'
  <2> SUFFICES ASSUME NEW s \in DOMAIN tok, NEW t \in DOMAIN tok, Live(s)', Live(t)',
                      tok'[s].family = tok'[t].family
               PROVE  s = t
    BY <1>1, Zenon DEF OneLive
  <2>1. Live(s) /\ Live(t) /\ tok[s].family = tok[t].family
    BY <1>2, <1>3, Zenon
  <2> QED
    BY <1>0, <2>1, Zenon DEF OneLive
<1>10. KeepInv'
  <2> SUFFICES ASSUME NEW f \in Flows, ~Parted(f)'
               PROVE  \E t \in DOMAIN tok' : /\ Live(t)' /\ tok'[t].family = f
                                             /\ t = held'[f] \/ tok'[t].parent = held'[f]
    BY Zenon DEF KeepInv
  <2>1. PICK t \in DOMAIN tok : /\ Live(t) /\ tok[t].family = f
                                /\ t = held[f] \/ tok[t].parent = held[f]
    BY <1>0, <1>5, Zenon DEF KeepInv
  <2>2. t \notin ts
    <3> SUFFICES ASSUME t \in ts PROVE FALSE
      OBVIOUS
    <3>1. reason \in Ends
      BY <1>5, <2>1, Zenon
    <3>2. tok'[t].family = f /\ tok'[t].revoked \in Ends
      BY <1>2, <2>1, <3>1, Zenon
    <3> QED
      BY <1>1, <3>2, Zenon DEF Parted
  <2>3. Live(t)' /\ tok'[t] = tok[t]
    BY <1>2, <2>1, <2>2, Zenon DEF Live
  <2> QED
    BY <1>1, <2>1, <2>3, Zenon
<1>11. ReuseInv'
  <2> SUFFICES ASSUME NEW t \in DOMAIN tok, tok'[t].revoked = "reuse_detected"
               PROVE  Parted(tok[t].family)'
    BY <1>1, Zenon DEF ReuseInv
  <2>1. PICK f \in Flows : f = tok[t].family
    BY <1>0, GrantFields, Zenon
  <2>2. Parted(f)
    <3>1. CASE t \in ts
      BY <1>2, <1>a, <2>1, <3>1, Zenon
    <3>2. CASE t \notin ts
      BY <1>0, <1>2, <2>1, <3>2, Zenon DEF ReuseInv
    <3> QED
      BY <3>1, <3>2, Zenon
  <2>3. tok'[t].family = f
    BY <1>2, <2>1, Zenon
  <2> QED
    BY <1>5, <2>2, <2>3, Zenon DEF Parted
<1>12. ASSUME NEW r \in Requests PROVE AskInv(r)'
  <2>1. CASE req'[r] = Idle
    BY <2>1, IdleAsk, Zenon DEF AskInv
  <2>2. CASE req'[r] = req[r] /\ (req[r].pc = "rotating" => req[r].tok \notin ts)
    <3>1. req[r].pc = "rotating" => Live(req[r].tok)'
      <4> SUFFICES ASSUME req[r].pc = "rotating" PROVE Live(req[r].tok)'
        OBVIOUS
      <4>1. AskInv(r) /\ req[r].pc # "idle"
        BY Zenon DEF GrantInv
      <4>2. req[r].tok \in DOMAIN tok /\ Live(req[r].tok)
        BY <4>1, Zenon DEF AskInv
      <4> QED
        BY <1>2, <2>2, <4>2, Zenon DEF Live
    <3>2. \A t \in DOMAIN tok : tok'[t].family = tok[t].family /\ (Live(t)' => Live(t))
      BY <1>2, <1>3, Zenon
    <3> QED
      BY <1>1, <1>5, <2>2, <3>1, <3>2, AskKept, Zenon
  <2> QED
    BY <2>1, <2>2, Zenon
<1>13. LockInv'
  BY <1>0, IdleAsk, Zenon DEF LockInv
<1> QED
  BY <1>6, <1>7, <1>8, <1>9, <1>10, <1>11, <1>12, <1>13, Zenon DEF GrantInv

\* Requests that move without touching a row, and the token a client keeps: it
\* loses it, or is handed the live one of the family.
LEMMA AskStep ==
    ASSUME GrantInv, UNCHANGED <<clock, deletedAt, flow, tok>>,
           req' = [r \in Requests |-> req'[r]],
           \A r \in Requests : req'[r] = req[r] \/ (req'[r] \in AskType /\ AskInv(r)'),
           LockInv', NEW g \in Flows,
           \/ held' = held
           \/ held' = [held EXCEPT ![g] = None]
           \/ held[g] # None /\ \E s \in DOMAIN tok : /\ Live(s) /\ tok[s].family = g
                                                      /\ held' = [held EXCEPT ![g] = s]
    PROVE  GrantInv'
<1>0. GrantType /\ SignInInv /\ FamilyInv /\ OneLive /\ KeepInv /\ ReuseInv /\ LockInv
  BY Zenon DEF GrantInv
<1>a. held \in [Flows -> Nat] /\ tok' = tok /\ DOMAIN tok \subseteq Nat
  BY <1>0, GrantFields DEF GrantType
<1>1. /\ held' \in [Flows -> Nat]
      /\ \A f \in Flows : held[f] = None => held'[f] = None
      /\ \A f \in Flows : \/ held'[f] = held[f] \/ held'[f] = None
                          \/ \E s \in DOMAIN tok : Live(s) /\ tok[s].family = f /\ held'[f] = s
  <2>1. CASE held' = held
    BY <1>a, <2>1, Zenon
  <2>2. CASE held' = [held EXCEPT ![g] = None]
    BY <1>a, <2>2, Zenon DEF None
  <2>3. CASE held[g] # None /\ \E s \in DOMAIN tok : /\ Live(s) /\ tok[s].family = g
                                                     /\ held' = [held EXCEPT ![g] = s]
    <3>1. PICK s \in DOMAIN tok : Live(s) /\ tok[s].family = g /\ held' = [held EXCEPT ![g] = s]
      BY <2>3, Zenon
    <3>2. s \in Nat
      BY <1>a, Zenon
    <3>3. held' \in [Flows -> Nat]
      BY <1>a, <3>1, <3>2, Zenon
    <3>4. held'[g] = s /\ \A f \in Flows : f # g => held'[f] = held[f]
      BY <1>a, <3>1, Zenon
    <3> QED
      BY <2>3, <3>1, <3>3, <3>4, Zenon
  <2> QED
    BY <2>1, <2>2, <2>3, Zenon
<1>2. \A f \in Flows : Parted(f) => Parted(f)'
  BY <1>a, <1>1, Zenon DEF Parted
<1>3. GrantType'
  <2>1. req' \in [Requests -> AskType]
    <3>1. \A r \in Requests : req'[r] \in AskType
      BY <1>0, GrantFields, Zenon
    <3> QED
      BY <3>1, Zenon
  <2> QED
    BY <1>0, <1>1, <2>1, Zenon DEF GrantType
<1>4. SignInInv' /\ FamilyInv' /\ OneLive'
  BY <1>0, <1>a, Zenon DEF SignInInv, FamilyInv, OneLive, Live
<1>5. KeepInv'
  <2> SUFFICES ASSUME NEW f \in Flows, ~Parted(f)'
               PROVE  \E t \in DOMAIN tok' : /\ Live(t)' /\ tok'[t].family = f
                                             /\ t = held'[f] \/ tok'[t].parent = held'[f]
    BY Zenon DEF KeepInv
  <2>0. \E t \in DOMAIN tok : /\ Live(t) /\ tok[t].family = f
                              /\ t = held'[f] \/ tok[t].parent = held'[f]
    <3>1. CASE held'[f] = held[f]
      BY <1>0, <1>2, <3>1, Zenon DEF KeepInv
    <3>2. CASE held'[f] = None
      BY <3>2, Zenon DEF Parted
    <3> QED
      BY <1>1, <3>1, <3>2, Zenon
  <2> QED
    BY <1>a, <2>0, Zenon DEF Live
<1>6. ReuseInv'
  <2>1. \A t \in DOMAIN tok : tok[t].family \in Flows
    BY <1>0, GrantFields, Zenon
  <2> SUFFICES ASSUME NEW t \in DOMAIN tok, tok[t].revoked = "reuse_detected"
               PROVE  Parted(tok[t].family)'
    BY <1>a, Zenon DEF ReuseInv
  <2>2. PICK f \in Flows : f = tok[t].family
    BY <2>1, Zenon
  <2>3. Parted(f)'
    BY <1>0, <1>2, <2>2, Zenon DEF ReuseInv
  <2> QED
    BY <1>a, <2>2, <2>3, Zenon DEF Parted
<1>7. ASSUME NEW r \in Requests PROVE AskInv(r)'
  <2> SUFFICES ASSUME req'[r] = req[r] PROVE AskInv(r)'
    OBVIOUS
  <2>1. AskInv(r)
    BY Zenon DEF GrantInv
  <2>2. req[r].pc = "rotating" => Live(req[r].tok)'
    BY <1>a, <2>1, Zenon DEF AskInv, Live
  <2>3. req[r].pc # "idle" /\ Live(req[r].tok)'
           /\ held[tok[req[r].tok].family] \in {req[r].tok, None} =>
                held'[tok[req[r].tok].family] \in {req[r].tok, None}
    <3> SUFFICES ASSUME req[r].pc # "idle", Live(req[r].tok)',
                        held[tok[req[r].tok].family] \in {req[r].tok, None}
                 PROVE  held'[tok[req[r].tok].family] \in {req[r].tok, None}
      OBVIOUS
    <3>1. PICK t : t = req[r].tok
      BY Zenon
    <3>2. t \in DOMAIN tok
      BY <2>1, <3>1, Zenon DEF AskInv
    <3>3. Live(t)
      BY <1>a, <3>1, Zenon DEF Live
    <3>4. tok[t].family \in Flows
      BY <1>0, <3>2, GrantFields, Zenon
    <3>5. \A s \in DOMAIN tok : Live(s) /\ tok[s].family = tok[t].family => s = t
      BY <1>0, <3>2, <3>3, Zenon DEF OneLive
    <3> QED
      <4>1. held'[tok[t].family] \in {held[tok[t].family], None, t}
        <5>1. PICK h \in Flows : h = tok[t].family
          BY <3>4, Zenon
        <5>2. \/ held'[h] = held[h] \/ held'[h] = None
              \/ \E s \in DOMAIN tok : Live(s) /\ tok[s].family = h /\ held'[h] = s
          BY <1>1, Zenon
        <5> QED
          BY <3>5, <5>1, <5>2, Zenon
      <4> QED
        BY <3>1, <4>1, Zenon
  <2>4. \A t \in DOMAIN tok : tok'[t].family = tok[t].family /\ (Live(t)' => Live(t))
    BY <1>a, Zenon DEF Live
  <2>5. DOMAIN tok \subseteq DOMAIN tok'
    BY <1>a, Zenon
  <2> QED
    BY <1>2, <2>2, <2>3, <2>4, <2>5, AskKept, Zenon
<1> QED
  BY <1>3, <1>4, <1>5, <1>6, <1>7, Zenon DEF GrantInv

\* The number of the next row.
LEMMA NextRow == \A k \in Nat : 0 <= k /\ k + 1 \in Nat /\ k + 1 \notin 1..k /\ 0 \notin 1..k
  OBVIOUS

\* A rotation: one live row is spent, its successor is in place, and its client
\* may have been told.
LEMMA RotateStep ==
    ASSUME GrantInv, UNCHANGED <<clock, deletedAt, flow>>,
           NEW r \in Requests, req' = [req EXCEPT ![r] = Idle],
           NEW t \in DOMAIN tok, Live(t), held[tok[t].family] \in {t, None},
           \A q \in Requests : req[q].pc = "rotating" /\ req[q].tok = t => q = r,
           tok' \in Seq(TokenType), NEW n, n = Len(tok) + 1, DOMAIN tok' = DOMAIN tok \cup {n},
           \A s \in DOMAIN tok : s # t => tok'[s] = tok[s],
           tok'[t].family = tok[t].family /\ tok'[t].revoked = "rotated",
           tok'[n].family = tok[t].family /\ tok'[n].revoked = "" /\ tok'[n].parent = t,
           Answered(tok[t].family, t, n)
    PROVE  GrantInv'
<1> DEFINE f == tok[t].family
<1>0. GrantType /\ SignInInv /\ FamilyInv /\ OneLive /\ KeepInv /\ ReuseInv /\ LockInv
  BY Zenon DEF GrantInv
<1>a. f \in Flows /\ held \in [Flows -> Nat] /\ n \in Nat /\ n \notin DOMAIN tok /\ t # None
  <2>1. f \in Flows /\ held \in [Flows -> Nat] /\ DOMAIN tok = 1..Len(tok) /\ Len(tok) \in Nat
    BY <1>0, GrantFields, Zenon DEF GrantType
  <2>2. n \in Nat /\ n \notin 1..Len(tok) /\ 0 \notin 1..Len(tok)
    BY <2>1, NextRow, Zenon
  <2>3. t # None
    BY <2>1, <2>2, Zenon DEF None
  <2> QED
    BY <2>1, <2>2, <2>3, Zenon
<1>b. PICK g \in Flows : g = f
  BY <1>a, Zenon
<1>1. /\ held' \in [Flows -> Nat]
      /\ \A h \in Flows : h # g => held'[h] = held[h]
      /\ held'[g] = held[g] \/ (held[g] = t /\ held'[g] = n)
  BY <1>a, <1>b, Zenon DEF Answered
<1> HIDE DEF f
<1>2. \A s \in DOMAIN tok : /\ s # n
                            /\ tok'[s].family = tok[s].family
                            /\ Live(s)' <=> Live(s) /\ s # t
                            /\ s # t => tok'[s] = tok[s]
  BY <1>a, Zenon DEF Live
<1>3. \A h \in Flows : Parted(h) => Parted(h)'
  <2>1. \A s \in DOMAIN tok : tok[s].revoked \in Ends => tok'[s].revoked \in Ends
    <3>1. tok[t].revoked \notin Ends
      BY Zenon DEF Live, Ends
    <3> QED
      BY <3>1, <1>2, Zenon
  <2>2. \A h \in Flows : held[h] = None => held'[h] = None
    BY <1>1, <1>a, Zenon
  <2> QED
    BY <1>0, <1>2, <2>1, <2>2, PartedKept, Zenon
<1>4. GrantType'
  <2>1. req' \in [Requests -> AskType]
    BY <1>0, IdleAsk, Zenon DEF GrantType
  <2> QED
    BY <1>0, <1>1, <2>1, Zenon DEF GrantType
<1>5. SignInInv'
  BY <1>0, Zenon DEF SignInInv
<1>6. FamilyInv'
  <2> SUFFICES ASSUME NEW s \in DOMAIN tok'
               PROVE  /\ flow[tok'[s].family].st = "gone"
                      /\ Live(s)' => flow[tok'[s].family].started > deletedAt
    BY Zenon DEF FamilyInv
  <2>1. CASE s = n
    BY <1>0, <2>1, Zenon DEF FamilyInv
  <2>2. CASE s \in DOMAIN tok
    <3>1. tok'[s].family = tok[s].family /\ (Live(s)' => Live(s))
      BY <1>2, <2>2, Zenon
    <3> QED
      BY <1>0, <2>2, <3>1, Zenon DEF FamilyInv
  <2> QED
    BY <2>1, <2>2, Zenon
<1>7. OneLive'
  <2>1. \A s \in DOMAIN tok : Live(s)' => tok[s].family # tok[t].family
    BY <1>0, <1>2, Zenon DEF OneLive
  <2> SUFFICES ASSUME NEW s \in DOMAIN tok', NEW u \in DOMAIN tok', Live(s)', Live(u)',
                      tok'[s].family = tok'[u].family
               PROVE  s = u
    BY Zenon DEF OneLive
  <2>2. CASE s = n /\ u \in DOMAIN tok
    <3>1. tok[u].family = tok[t].family
      BY <1>2, <2>2, Zenon
    <3> QED
      BY <2>1, <2>2, <3>1, Zenon
  <2>3. CASE u = n /\ s \in DOMAIN tok
    <3>1. tok[s].family = tok[t].family
      BY <1>2, <2>3, Zenon
    <3> QED
      BY <2>1, <2>3, <3>1, Zenon
  <2>4. CASE s \in DOMAIN tok /\ u \in DOMAIN tok
    <3>1. Live(s) /\ Live(u) /\ tok[s].family = tok[u].family
      BY <1>2, <2>4, Zenon
    <3> QED
      BY <1>0, <2>4, <3>1, Zenon DEF OneLive
  <2>5. (s = n \/ s \in DOMAIN tok) /\ (u = n \/ u \in DOMAIN tok)
    BY Zenon
  <2>6. CASE s = n /\ u = n
    BY <2>6, Zenon
  <2> QED
    BY <2>2, <2>3, <2>4, <2>5, <2>6, Zenon
<1>8. KeepInv'
  <2> SUFFICES ASSUME NEW h \in Flows, ~Parted(h)'
               PROVE  \E s \in DOMAIN tok' : /\ Live(s)' /\ tok'[s].family = h
                                             /\ s = held'[h] \/ tok'[s].parent = held'[h]
    BY Zenon DEF KeepInv
  <2>1. CASE h = g
    <3>1. held'[g] # None
      BY <2>1, Zenon DEF Parted
    <3>2. held'[g] = t \/ held'[g] = n
      BY <1>1, <1>b, <3>1, Zenon DEF f
    <3>3. Live(n)' /\ n \in DOMAIN tok' /\ tok'[n].family = h
      BY <1>b, <2>1, Zenon DEF Live, f
    <3> QED
      BY <2>1, <3>2, <3>3, Zenon
  <2>2. CASE h # g
    <3>1. PICK s \in DOMAIN tok : /\ Live(s) /\ tok[s].family = h
                                  /\ s = held[h] \/ tok[s].parent = held[h]
      BY <1>0, <1>3, Zenon DEF KeepInv
    <3>2. s # t
      BY <1>b, <2>2, <3>1, Zenon DEF f
    <3>3. Live(s)' /\ tok'[s] = tok[s] /\ held'[h] = held[h]
      BY <1>1, <1>2, <2>2, <3>1, <3>2, Zenon
    <3> QED
      BY <3>1, <3>3, Zenon
  <2> QED
    BY <2>1, <2>2, Zenon
<1>9. ReuseInv'
  <2> SUFFICES ASSUME NEW s \in DOMAIN tok', tok'[s].revoked = "reuse_detected"
               PROVE  Parted(tok[s].family)'
    BY Zenon DEF ReuseInv
  <2>1. s \in DOMAIN tok /\ s # t
    OBVIOUS
  <2>2. PICK h \in Flows : h = tok[s].family
    BY <1>0, <2>1, GrantFields, Zenon
  <2>3. Parted(h)' /\ tok'[s].family = h
    BY <1>0, <1>2, <1>3, <2>1, <2>2, Zenon DEF ReuseInv
  <2> QED
    BY <2>3, Zenon DEF Parted
<1>10. ASSUME NEW q \in Requests PROVE AskInv(q)'
  <2>1. CASE q = r
    <3>1. req'[q] = Idle
      BY <1>0, <2>1, Zenon DEF GrantType
    <3> QED
      BY <3>1, IdleAsk, Zenon DEF AskInv
  <2>2. CASE q # r
    <3>1. req'[q] = req[q] /\ AskInv(q)
      BY <1>0, <2>2, Zenon DEF GrantType, GrantInv
    <3>2. PICK u : u = req[q].tok
      BY Zenon
    <3>3. req[q].pc = "rotating" => Live(req[q].tok)'
      <4> SUFFICES ASSUME req[q].pc = "rotating" PROVE Live(u)'
        BY <3>1, <3>2, Zenon DEF Live
      <4>1. req[q].pc # "idle"
        OBVIOUS
      <4> QED
        BY <1>2, <2>2, <3>1, <3>2, <4>1, Zenon DEF AskInv
    <3>4. req[q].pc # "idle" /\ Live(req[q].tok)'
             /\ held[tok[req[q].tok].family] \in {req[q].tok, None} =>
                  held'[tok[req[q].tok].family] \in {req[q].tok, None}
      <4> SUFFICES ASSUME req[q].pc # "idle", Live(u)', held[tok[u].family] \in {u, None}
                   PROVE  held'[tok[u].family] \in {u, None}
        BY <3>1, <3>2, Zenon DEF Live
      <4>1. u \in DOMAIN tok
        BY <3>1, <3>2, Zenon DEF AskInv
      <4>2. tok[u].family \in Flows
        BY <1>0, <4>1, GrantFields, Zenon
      <4>3. tok[u].family # g
        BY <1>0, <1>2, <1>b, <4>1, Zenon DEF OneLive, f
      <4> QED
        BY <1>1, <4>2, <4>3, Zenon
    <3>5. \A s \in DOMAIN tok : tok'[s].family = tok[s].family /\ (Live(s)' => Live(s))
      BY <1>2, Zenon
    <3> QED
      BY <1>3, <3>1, <3>3, <3>4, <3>5, AskKept, Zenon
  <2> QED
    BY <2>1, <2>2, Zenon
<1>11. LockInv'
  <2>1. \A q \in Requests : req'[q] = req[q] \/ req'[q] = Idle
    BY <1>0, Zenon DEF GrantType
  <2> SUFFICES ASSUME NEW q \in Requests, NEW u \in Requests, req'[q].pc = "rotating",
                      req'[u].pc = "rotating", req'[q].tok = req'[u].tok
               PROVE  q = u
    BY Zenon DEF LockInv
  <2>2. req'[q] = req[q] /\ req'[u] = req[u]
    BY <2>1, IdleAsk, Zenon
  <2>3. req[q].pc = "rotating" /\ req[u].pc = "rotating" /\ req[q].tok = req[u].tok
    BY <2>2, Zenon
  <2>4. LockInv
    BY <1>0, Zenon
  <2> QED
    BY <2>3, <2>4, Zenon DEF LockInv
<1> QED
  BY <1>4, <1>5, <1>6, <1>7, <1>8, <1>9, <1>10, <1>11, Zenon DEF GrantInv

\* One row more.
LEMMA AppendRow ==
    ASSUME NEW rows \in Seq(TokenType), NEW row \in TokenType
    PROVE  /\ Append(rows, row) \in Seq(TokenType)
           /\ DOMAIN Append(rows, row) = DOMAIN rows \cup {Len(rows) + 1}
           /\ \A t \in DOMAIN rows : Append(rows, row)[t] = rows[t]
           /\ Append(rows, row)[Len(rows) + 1] = row
<1>1. /\ Append(rows, row) \in Seq(TokenType) /\ Len(Append(rows, row)) = Len(rows) + 1
      /\ \A i \in 1..Len(rows) : Append(rows, row)[i] = rows[i]
      /\ Append(rows, row)[Len(rows) + 1] = row
  BY AppendProperties
<1>2. DOMAIN rows = 1..Len(rows) /\ Len(rows) \in Nat
  BY SMT
<1>3. DOMAIN Append(rows, row) = 1..(Len(rows) + 1)
  BY <1>1, SMT
<1>4. \A k \in Nat : 1..(k + 1) = 1..k \cup {k + 1}
  BY SMT
<1> QED
  BY <1>1, <1>2, <1>3, <1>4, Zenon

\* The first row of a family.
LEMMA IssueStep ==
    ASSUME GrantInv, UNCHANGED <<clock, deletedAt, req>>,
           NEW f \in Flows, flow[f].st = "redeeming", flow' = [flow EXCEPT ![f] = Over(f)],
           flow[f].started > deletedAt, NEW row \in TokenType, row.family = f, row.revoked = "",
           tok' = Append(tok, row), held' = [held EXCEPT ![f] = Len(tok) + 1]
    PROVE  GrantInv'
<1>0. GrantType /\ SignInInv /\ FamilyInv /\ OneLive /\ KeepInv /\ ReuseInv /\ LockInv
  BY Zenon DEF GrantInv
<1>a. tok \in Seq(TokenType) /\ flow \in [Flows -> FlowType] /\ held \in [Flows -> Nat]
  BY <1>0, Zenon DEF GrantType
<1>b. PICK n : n = Len(tok) + 1
  BY Zenon
<1>c. n \in Nat /\ n \notin DOMAIN tok
  BY <1>0, <1>b, GrantFields, NextRow, Zenon
<1>1. /\ tok' \in Seq(TokenType) /\ DOMAIN tok' = DOMAIN tok \cup {n}
      /\ \A t \in DOMAIN tok : tok'[t] = tok[t]
      /\ tok'[n] = row
  BY <1>a, <1>b, AppendRow, Zenon
<1>2. /\ held' \in [Flows -> Nat] /\ held'[f] = n
      /\ \A g \in Flows : g # f => held'[g] = held[g]
  BY <1>a, <1>b, <1>c, Zenon
<1>3. /\ flow' \in [Flows -> FlowType]
      /\ flow'[f].st = "gone" /\ flow'[f].started = flow[f].started /\ flow'[f].at = 0
      /\ \A g \in Flows : g # f => flow'[g] = flow[g]
  BY <1>0, <1>a, OverFields, Zenon
<1>4. \A t \in DOMAIN tok : tok[t].family \in Flows /\ tok[t].family # f
  BY <1>0, GrantFields, Zenon DEF FamilyInv
<1>5. \A t \in DOMAIN tok : Live(t)' <=> Live(t)
  BY <1>1, Zenon DEF Live
<1>6. \A g \in Flows : g # f /\ Parted(g) => Parted(g)'
  <2>1. \A t \in DOMAIN tok : /\ tok'[t].family = tok[t].family
                              /\ tok[t].revoked \in Ends => tok'[t].revoked \in Ends
    BY <1>1, Zenon
  <2> QED
    BY <1>0, <1>1, <1>2, <2>1, PartedKept, Zenon
<1>7. GrantType'
  <2>1. \A g \in Flows : flow'[g].at <= clock
    <3>1. 0 <= clock
      BY <1>0, NextRow, Zenon DEF GrantType
    <3> QED
      BY <1>0, <1>3, <3>1, Zenon DEF GrantType
  <2> QED
    BY <1>0, <1>1, <1>2, <1>3, <2>1, Zenon DEF GrantType
<1>8. SignInInv'
  <2> SUFFICES ASSUME NEW g \in Flows, flow'[g].st \in {"minting", "code", "redeeming"}
               PROVE  flow'[g].started > deletedAt \/ flow'[g].at <= deletedAt
    BY Zenon DEF SignInInv
  <2>1. g # f
    BY <1>3, Zenon
  <2> QED
    BY <1>0, <1>3, <2>1, Zenon DEF SignInInv
<1>9. FamilyInv'
  <2> SUFFICES ASSUME NEW t \in DOMAIN tok'
               PROVE  /\ flow'[tok'[t].family].st = "gone"
                      /\ Live(t)' => flow'[tok'[t].family].started > deletedAt
    BY Zenon DEF FamilyInv
  <2>1. CASE t = n
    BY <1>1, <1>3, <2>1, Zenon
  <2>2. CASE t \in DOMAIN tok
    <3>1. flow'[tok'[t].family] = flow[tok[t].family]
      BY <1>1, <1>3, <1>4, <2>2, Zenon
    <3> QED
      BY <1>0, <1>5, <2>2, <3>1, Zenon DEF FamilyInv
  <2> QED
    BY <1>1, <2>1, <2>2, Zenon
<1>10. OneLive'
  <2> SUFFICES ASSUME NEW s \in DOMAIN tok', NEW t \in DOMAIN tok', Live(s)', Live(t)',
                      tok'[s].family = tok'[t].family
               PROVE  s = t
    BY Zenon DEF OneLive
  <2>1. (s = n \/ s \in DOMAIN tok) /\ (t = n \/ t \in DOMAIN tok)
    BY <1>1, Zenon
  <2>2. CASE s = n
    BY <1>1, <1>4, <2>1, <2>2, Zenon
  <2>3. CASE t = n
    BY <1>1, <1>4, <2>1, <2>3, Zenon
  <2>4. CASE s \in DOMAIN tok /\ t \in DOMAIN tok
    <3>1. Live(s) /\ Live(t) /\ tok[s].family = tok[t].family
      BY <1>1, <1>5, <2>4, Zenon
    <3> QED
      BY <1>0, <2>4, <3>1, Zenon DEF OneLive
  <2> QED
    BY <2>1, <2>2, <2>3, <2>4, Zenon
<1>11. KeepInv'
  <2> SUFFICES ASSUME NEW g \in Flows, ~Parted(g)'
               PROVE  \E t \in DOMAIN tok' : /\ Live(t)' /\ tok'[t].family = g
                                             /\ t = held'[g] \/ tok'[t].parent = held'[g]
    BY Zenon DEF KeepInv
  <2>1. CASE g = f
    <3>1. Live(n)' /\ tok'[n].family = f
      BY <1>1, Zenon DEF Live
    <3> QED
      BY <1>1, <1>2, <2>1, <3>1, Zenon
  <2>2. CASE g # f
    <3>1. PICK t \in DOMAIN tok : /\ Live(t) /\ tok[t].family = g
                                  /\ t = held[g] \/ tok[t].parent = held[g]
      BY <1>0, <1>6, <2>2, Zenon DEF KeepInv
    <3> QED
      BY <1>1, <1>2, <1>5, <2>2, <3>1, Zenon
  <2> QED
    BY <2>1, <2>2, Zenon
<1>12. ReuseInv'
  <2> SUFFICES ASSUME NEW t \in DOMAIN tok', tok'[t].revoked = "reuse_detected"
               PROVE  Parted(tok[t].family)'
    BY Zenon DEF ReuseInv
  <2>1. t \in DOMAIN tok
    BY <1>1, Zenon
  <2>2. PICK g \in Flows : g = tok[t].family /\ g # f
    BY <1>4, <2>1, Zenon
  <2>3. Parted(g)' /\ tok'[t].family = g
    BY <1>0, <1>1, <1>6, <2>1, <2>2, Zenon DEF ReuseInv
  <2> QED
    BY <2>3, Zenon DEF Parted
<1>13. ASSUME NEW r \in Requests PROVE AskInv(r)'
  <2> SUFFICES ASSUME req[r].pc # "idle" PROVE AskInv(r)'
    BY Zenon DEF AskInv
  <2>0. AskInv(r) /\ req'[r] = req[r]
    BY Zenon DEF GrantInv
  <2>1. PICK t : t = req[r].tok
    BY Zenon
  <2>2. t = req'[r].tok /\ t \in DOMAIN tok /\ t \in DOMAIN tok'
    BY <1>1, <2>0, <2>1, Zenon DEF AskInv
  <2>3. PICK g \in Flows : g = tok[t].family /\ g # f
    BY <1>4, <2>2, Zenon
  <2>4. tok'[t] = tok[t] /\ tok'[t].family = g /\ held'[g] = held[g]
    BY <1>1, <1>2, <2>2, <2>3, Zenon
  <2>5. Parted(g) => Parted(tok[t].family)'
    <3>1. Parted(g) => Parted(g)'
      BY <1>6, <2>3, Zenon
    <3> QED
      BY <2>4, <3>1, Zenon DEF Parted
  <2>6. req[r].pc \in {"looked", "rotating"} /\ Live(t)' => held'[tok'[t].family] \in {t, None}
    BY <1>5, <2>0, <2>1, <2>2, <2>3, <2>4, Zenon DEF AskInv
  <2>7. (req[r].pc = "rotating" => Live(t)') /\ (req[r].pc = "lost" => ~Live(t)')
    BY <1>5, <2>0, <2>1, <2>2, Zenon DEF AskInv
  <2>8. req[r].pc \in {"revoking", "waiting"} =>
          /\ req[r].reason \in {"reuse_detected", "explicit_revoke"}
          /\ req[r].reason = "reuse_detected" => Parted(tok[t].family)'
    BY <2>0, <2>1, <2>3, <2>5, Zenon DEF AskInv
  <2>9. req[r].pc = "waiting" =>
          \A s \in req[r].snap : s \in DOMAIN tok' /\ tok'[s].family = tok'[t].family
    BY <1>1, <2>0, <2>1, <2>2, Zenon DEF AskInv
  <2> QED
    BY <2>0, <2>2, <2>6, <2>7, <2>8, <2>9, Zenon DEF AskInv, Live, Parted
<1>14. LockInv'
  BY <1>0, Zenon DEF LockInv
<1> QED
  BY <1>7, <1>8, <1>9, <1>10, <1>11, <1>12, <1>13, <1>14, Zenon DEF GrantInv

-----------------------------------------------------------------------------
\* A sign-in that moves on, with the one it displaces.
LEMMA MovedRows ==
    ASSUME GrantType, NEW f \in Flows, NEW st \in States, NEW out, NEW m, m = MovedTo(f, st, out)
    PROVE  /\ m \in [Flows -> FlowType]
           /\ m[f].st = st /\ m[f].at = clock
           /\ m[f].started = flow[f].started
           /\ \A g \in Flows : g # f => m[g] \in {flow[g], Over(g)}
<1>1. /\ m[f] = [flow[f] EXCEPT !.st = st, !.at = clock]
      /\ \A g \in Flows : g # f => m[g] \in {flow[g], Over(g)}
  BY Zenon DEF MovedTo
<1>2. flow \in [Flows -> FlowType] /\ clock \in Nat
  BY Zenon DEF GrantType
<1>3. flow[f] \in FlowType
  BY <1>2, Zenon
<1>4. [flow[f] EXCEPT !.st = st, !.at = clock] \in FlowType
  BY <1>2, <1>3, Zenon DEF FlowType
<1>5. /\ [flow[f] EXCEPT !.st = st, !.at = clock].st = st
      /\ [flow[f] EXCEPT !.st = st, !.at = clock].at = clock
      /\ [flow[f] EXCEPT !.st = st, !.at = clock].started = flow[f].started
  BY <1>3, Zenon DEF FlowType
<1>6. \A g \in Flows : m[g] \in FlowType
  <2>1. \A g \in Flows : Over(g) \in FlowType /\ flow[g] \in FlowType
    BY <1>2, OverFields, Zenon
  <2> QED
    BY <1>1, <1>4, <2>1, Zenon
<1>7. m = [g \in Flows |-> m[g]]
  BY Zenon DEF MovedTo
<1> QED
  BY <1>1, <1>5, <1>6, <1>7, Zenon

\* A sign-in begins or moves on without a code, or gets its code.
LEMMA MovedKeeps ==
    ASSUME GrantInv, UNCHANGED <<clock, deletedAt, grants>>, NEW f \in Flows, NEW out,
           NEW st \in {"enable", "code"}, flow[f].st # "gone",
           st = "code" => flow[f].started > deletedAt,
           flow' = MovedTo(f, st, out)
    PROVE  GrantInv'
<1>0. GrantType
  BY Zenon DEF GrantInv
<1>1. st \in States
  BY Zenon DEF States
<1>2. /\ flow' \in [Flows -> FlowType]
      /\ flow'[f].st = st /\ flow'[f].at = clock
      /\ flow'[f].started = flow[f].started
      /\ \A g \in Flows : g # f => flow'[g] \in {flow[g], Over(g)}
  <2>1. PICK m : m = MovedTo(f, st, out)
    BY Zenon
  <2>2. /\ m \in [Flows -> FlowType]
        /\ m[f].st = st /\ m[f].at = clock /\ m[f].started = flow[f].started
        /\ \A g \in Flows : g # f => m[g] \in {flow[g], Over(g)}
    <3>1. m \in [Flows -> FlowType]
      BY <1>0, <1>1, <2>1, MovedRows, Zenon
    <3>2. m[f].st = st
      BY <1>0, <1>1, <2>1, MovedRows
    <3>3. \A g \in Flows : g # f => m[g] \in {flow[g], Over(g)}
      BY <1>0, <1>1, <2>1, MovedRows, Zenon
    <3> QED
      BY <1>0, <1>1, <2>1, <3>1, <3>2, <3>3, MovedRows
  <2>3. flow' = m
    BY <2>1, Zenon
  <2> QED
    BY <2>2, <2>3, Zenon
<1>3. clock <= clock
  BY <1>0 DEF GrantType
<1>4. SignInMoves(f)
  <2>1. flow'[f] \in FlowType /\ flow'[f].at <= clock
    BY <1>2, <1>3, Zenon
  <2>2. CASE st = "enable"
    BY <1>2, <2>1, <2>2, Zenon DEF SignInMoves
  <2>3. CASE st = "code"
    BY <1>2, <2>1, <2>3, Zenon DEF SignInMoves
  <2> QED
    BY <2>2, <2>3, Zenon
<1>5. \A g \in Flows : SignInMoves(g)
  <2>1. \A g \in Flows : g # f => SignInMoves(g)
    BY <1>2, Zenon DEF SignInMoves
  <2> QED
    BY <1>4, <2>1, Zenon
<1>6. flow' = [g \in Flows |-> flow'[g]] /\ req' = [r \in Requests |-> req'[r]]
  BY <1>0, <1>2, Zenon DEF GrantType, grants
<1> QED
  BY <1>5, <1>6, SignInStep, Zenon DEF grants

\* One sign-in moves and no other.
LEMMA OneMoves ==
    ASSUME GrantInv, UNCHANGED <<clock, deletedAt, grants>>, NEW f \in Flows,
           NEW row, flow' = [flow EXCEPT ![f] = row], flow'[f] = row => SignInMoves(f)
    PROVE  GrantInv'
<1>0. GrantType
  BY Zenon DEF GrantInv
<1>1. flow \in [Flows -> FlowType]
  BY <1>0, Zenon DEF GrantType
<1>2. flow'[f] = row /\ \A g \in Flows : g # f => flow'[g] = flow[g]
  BY <1>1, Zenon
<1>3. \A g \in Flows : SignInMoves(g)
  <2>1. \A g \in Flows : g # f => SignInMoves(g)
    BY <1>2, Zenon DEF SignInMoves
  <2> QED
    BY <1>2, <2>1, Zenon
<1>4. flow' = [g \in Flows |-> flow'[g]] /\ req' = [r \in Requests |-> req'[r]]
  BY <1>0, <1>1, Zenon DEF GrantType, grants
<1> QED
  BY <1>3, <1>4, SignInStep, Zenon DEF grants

\* A sign-in that ends.
LEMMA OverKeeps ==
    ASSUME GrantInv, UNCHANGED <<clock, deletedAt, grants>>, NEW f \in Flows,
           flow' = [flow EXCEPT ![f] = Over(f)]
    PROVE  GrantInv'
  BY OneMoves, Zenon DEF SignInMoves

\* A sign-in no deletion has overtaken.
LEMMA NotOvertaken ==
    ASSUME GrantType, NEW at \in Nat, ~accountDeletedSince(at)
    PROVE  at > deletedAt
<1>1. deletedAt \in Int
  BY Zenon DEF GrantType
<1>2. deletedAt = -1 \/ ~(deletedAt >= at)
  BY Zenon DEF accountDeletedSince, Never
<1> QED
  BY <1>1, <1>2, SMT

\* A code is minted for a sign-in no deletion has overtaken.
LEMMA MintKeeps ==
    ASSUME GrantInv, UNCHANGED <<clock, deletedAt, grants>>, NEW f \in Flows,
           flow[f].st \in {"callback", "saved"}, mintAuthCode(f)
    PROVE  GrantInv'
<1>0. GrantType
  BY Zenon DEF GrantInv
<1>1. flow[f].started \in Nat /\ flow[f].st # "gone"
  BY <1>0, GrantFields, Zenon
<1>2. CASE flow' = [flow EXCEPT ![f] = Over(f)]
  BY <1>2, OverKeeps, Zenon
<1>3. CASE ~accountDeletedSince(flow[f].started)
  <2>0. flow[f].started > deletedAt
    BY <1>0, <1>1, <1>3, NotOvertaken, Zenon
  <2>1. CASE store = "db"
    <3>1. PICK out : flow' = MovedTo(f, "code", out)
      BY <1>3, <2>1, Zenon DEF mintAuthCode, InsertOAuthCode
    <3> QED
      BY <1>1, <2>0, <3>1, MovedKeeps, Zenon
  <2>2. CASE store # "db"
    <3>1. PICK row : row = [flow[f] EXCEPT !.st = "minting", !.at = clock]
      BY Zenon
    <3>2. flow' = [flow EXCEPT ![f] = row]
      BY <1>3, <2>2, <3>1, Zenon DEF mintAuthCode
    <3>3. flow[f] \in FlowType /\ clock \in Nat /\ "minting" \in States
      BY <1>0, Zenon DEF GrantType, States
    <3>4. row \in FlowType
      BY <3>1, <3>3, Zenon DEF FlowType
    <3>5. row.st = "minting" /\ row.at = clock /\ row.started = flow[f].started /\ clock <= clock
      BY <3>1, <3>3 DEF FlowType
    <3>6. flow'[f] = row => SignInMoves(f)
      BY <1>1, <2>0, <3>4, <3>5, Zenon DEF SignInMoves
    <3> QED
      BY <3>2, <3>6, OneMoves, Zenon
  <2> QED
    BY <2>1, <2>2, Zenon
<1>4. CASE accountDeletedSince(flow[f].started)
  <2>1. flow' = [flow EXCEPT ![f] = Over(f)]
    BY <1>4, Zenon DEF mintAuthCode, InsertOAuthCode
  <2> QED
    BY <1>2, <2>1, Zenon
<1> QED
  BY <1>3, <1>4, Zenon

\* /oauth/authorize.
LEMMA AuthorizeKeeps ==
    ASSUME GrantInv, NEW f \in Flows, NEW c \in Clients, NEW scope \in Requested,
           handleAuthorize(f, c, scope)
    PROVE  GrantInv'
<1>0. GrantType
  BY Zenon DEF GrantInv
<1>1. PICK out : flow' = [MovedTo(f, "pending", out) EXCEPT ![f].client = c, ![f].scope = scope,
                                                            ![f].started = clock]
  BY Zenon DEF handleAuthorize
<1>2. UNCHANGED <<clock, deletedAt, grants>> /\ flow[f].st = "new"
  BY Zenon DEF handleAuthorize
<1>3. PICK m : m = MovedTo(f, "pending", out)
  BY Zenon
<1>4. "pending" \in States
  BY Zenon DEF States
<1>5. /\ m \in [Flows -> FlowType] /\ m[f].st = "pending" /\ m[f].at = clock
      /\ \A g \in Flows : g # f => m[g] \in {flow[g], Over(g)}
  <2>1. m \in [Flows -> FlowType]
    BY <1>0, <1>3, <1>4, MovedRows, Zenon
  <2>2. m[f].st = "pending"
    BY <1>0, <1>3, <1>4, MovedRows
  <2>3. \A g \in Flows : g # f => m[g] \in {flow[g], Over(g)}
    BY <1>0, <1>3, <1>4, MovedRows, Zenon
  <2> QED
    BY <1>0, <1>3, <1>4, <2>1, <2>2, <2>3, MovedRows
<1>6. PICK row : row = [m[f] EXCEPT !.client = c, !.scope = scope, !.started = clock]
  BY Zenon
<1>7. flow' = [m EXCEPT ![f] = row]
  BY <1>1, <1>3, <1>5, <1>6, Zenon
<1>8. m[f] \in FlowType /\ clock \in Nat /\ clock <= clock /\ c \in AnyClient
      /\ scope \in {{}} \cup Requested
  BY <1>0, <1>5 DEF GrantType, AnyClient
<1>9. row \in FlowType
  BY <1>6, <1>8, Zenon DEF FlowType
<1>10. row.st = "pending" /\ row.at = clock
  BY <1>5, <1>6, <1>8, Zenon DEF FlowType
<1>11. flow'[f] = row /\ \A g \in Flows : g # f => flow'[g] = m[g]
  BY <1>5, <1>7, Zenon
<1>12. flow' \in [Flows -> FlowType]
  BY <1>5, <1>7, <1>9, Zenon
<1>13. ASSUME NEW g \in Flows PROVE SignInMoves(g)
  <2>1. CASE g = f
    BY <1>2, <1>8, <1>9, <1>10, <1>11, <2>1 DEF SignInMoves
  <2>2. CASE g # f
    BY <1>5, <1>11, <2>2, Zenon DEF SignInMoves
  <2> QED
    BY <2>1, <2>2, Zenon
<1>14. flow' = [g \in Flows |-> flow'[g]] /\ req' = [r \in Requests |-> req'[r]]
  BY <1>0, <1>2, <1>12, Zenon DEF GrantType, grants
<1> QED
  BY <1>2, <1>13, <1>14, SignInStep, Zenon DEF grants

\* A sign-in whose state changes and nothing else.
LEMMA StateKeeps ==
    ASSUME GrantInv, UNCHANGED <<clock, deletedAt, grants>>, NEW f \in Flows, NEW st \in States,
           flow[f].st # "gone",
           \/ st \in {"callback", "saved"}
           \/ flow[f].st \in {"minting", "code"} /\ st \in {"code", "redeeming"},
           flow' = [flow EXCEPT ![f] = [flow[f] EXCEPT !.st = st]]
    PROVE  GrantInv'
<1>0. GrantType
  BY Zenon DEF GrantInv
<1>1. PICK row : row = [flow[f] EXCEPT !.st = st]
  BY Zenon
<1>2. flow[f] \in FlowType /\ flow[f].at <= clock
  BY <1>0, Zenon DEF GrantType
<1>3. row \in FlowType
  BY <1>1, <1>2, Zenon DEF FlowType
<1>4. row.st = st /\ row.at = flow[f].at /\ row.started = flow[f].started
  BY <1>1, <1>2, Zenon DEF FlowType
<1>5. flow'[f] = row => SignInMoves(f)
  BY <1>2, <1>3, <1>4, Zenon DEF SignInMoves
<1> QED
  BY <1>1, <1>5, OneMoves, Zenon

\* The steps of a sign-in.
LEMMA SignInKeeps ==
    ASSUME GrantInv, NEW f \in Flows,
           \/ \E c \in Clients, scope \in Requested : handleAuthorize(f, c, scope)
           \/ ConsumePending(f) \/ CallbackFails(f) \/ handleTelegramCallback(f)
           \/ InsertCodeInMemory(f) \/ SaveSessionForSignIn(f) \/ finishEnable(f)
           \/ ExchangeConnect(f) \/ handleTokenAuthCode(f)
    PROVE  GrantInv'
<1>0. GrantType
  BY Zenon DEF GrantInv
<1>a. {"callback", "saved", "redeeming"} \subseteq States
  BY Zenon DEF States
<1>b. flow \in [Flows -> FlowType]
  BY <1>0, Zenon DEF GrantType
<1>1. CASE \E c \in Clients, scope \in Requested : handleAuthorize(f, c, scope)
  BY <1>1, AuthorizeKeeps, Zenon
<1>2. CASE ConsumePending(f)
  <2>1. UNCHANGED <<clock, deletedAt, grants>> /\ flow[f].st # "gone"
    BY <1>2, Zenon DEF ConsumePending
  <2>2. \/ flow' = [flow EXCEPT ![f] = Over(f)]
        \/ flow' = [flow EXCEPT ![f] = [flow[f] EXCEPT !.st = "callback"]]
    BY <1>2, Zenon DEF ConsumePending, ConsumeOAuthPending
  <2> QED
    BY <1>a, <2>1, <2>2, OverKeeps, StateKeeps, Zenon
<1>3. CASE CallbackFails(f)
  BY <1>3, OverKeeps, Zenon DEF CallbackFails
<1>4. CASE handleTelegramCallback(f)
  <2>1. UNCHANGED <<clock, deletedAt, grants>> /\ flow[f].st = "callback"
    BY <1>4, Zenon DEF handleTelegramCallback
  <2>2. mintAuthCode(f) \/ \E out : flow' = MovedTo(f, "enable", out)
    BY <1>4, Zenon DEF handleTelegramCallback
  <2>3. CASE mintAuthCode(f)
    BY <2>1, <2>3, MintKeeps, Zenon
  <2>4. CASE \E out : flow' = MovedTo(f, "enable", out)
    BY <2>1, <2>4, MovedKeeps, Zenon
  <2> QED
    BY <2>2, <2>3, <2>4, Zenon
<1>5. CASE InsertCodeInMemory(f)
  <2>1. UNCHANGED <<clock, deletedAt, grants>> /\ flow[f].st = "minting"
    BY <1>5, Zenon DEF InsertCodeInMemory
  <2>2. PICK out : flow' = [MovedTo(f, "code", out) EXCEPT ![f].at = flow[f].at]
    BY <1>5, Zenon DEF InsertCodeInMemory
  <2>3. PICK m : m = MovedTo(f, "code", out)
    BY Zenon
  <2>4. "code" \in States
    BY Zenon DEF States
  <2>5. m \in [Flows -> FlowType]
    BY <1>0, <2>3, <2>4, MovedRows, Zenon
  <2>6. m[f].st = "code" /\ m[f].started = flow[f].started
    BY <1>0, <2>3, <2>4, MovedRows
  <2>7. \A g \in Flows : g # f => m[g] \in {flow[g], Over(g)}
    BY <1>0, <2>3, <2>4, MovedRows, Zenon
  <2>8. PICK row : row = [m[f] EXCEPT !.at = flow[f].at]
    BY Zenon
  <2>9. flow' = [m EXCEPT ![f] = row]
    BY <2>2, <2>3, <2>5, <2>8, Zenon
  <2>10. flow[f].at \in Nat /\ flow[f].at <= clock /\ m[f] \in FlowType
    BY <1>0, <2>5, GrantFields, Zenon DEF GrantType
  <2>11. row \in FlowType
    BY <2>8, <2>10, Zenon DEF FlowType
  <2>12. row.st = "code" /\ row.at = flow[f].at /\ row.started = flow[f].started
    BY <2>6, <2>8, <2>10, Zenon DEF FlowType
  <2>13. flow'[f] = row /\ flow' \in [Flows -> FlowType]
         /\ \A g \in Flows : g # f => flow'[g] = m[g]
    BY <2>5, <2>9, <2>11, Zenon
  <2>14. ASSUME NEW g \in Flows PROVE SignInMoves(g)
    <3>1. CASE g = f
      BY <2>1, <2>10, <2>11, <2>12, <2>13, <3>1 DEF SignInMoves
    <3>2. CASE g # f
      BY <2>7, <2>13, <3>2, Zenon DEF SignInMoves
    <3> QED
      BY <3>1, <3>2, Zenon
  <2>15. flow' = [g \in Flows |-> flow'[g]] /\ req' = [r \in Requests |-> req'[r]]
    BY <1>0, <2>1, <2>13, Zenon DEF GrantType, grants
  <2> QED
    BY <2>1, <2>14, <2>15, SignInStep, Zenon DEF grants
<1>6. CASE SaveSessionForSignIn(f)
  <2>1. UNCHANGED <<clock, deletedAt, grants>> /\ flow[f].st # "gone"
    BY <1>6, Zenon DEF SaveSessionForSignIn
  <2>2. \/ flow' = [flow EXCEPT ![f] = Over(f)]
        \/ flow' = [flow EXCEPT ![f] = [flow[f] EXCEPT !.st = "saved"]]
    BY <1>b, <1>6, Zenon DEF SaveSessionForSignIn
  <2> QED
    BY <1>a, <2>1, <2>2, OverKeeps, StateKeeps
<1>7. CASE finishEnable(f)
  BY <1>7, MintKeeps, Zenon DEF finishEnable
<1>8. CASE ExchangeConnect(f)
  BY <1>8, OverKeeps, Zenon DEF ExchangeConnect
<1>9. CASE handleTokenAuthCode(f)
  <2>1. UNCHANGED <<clock, deletedAt, grants>> /\ flow[f].st = "code"
    BY <1>9, Zenon DEF handleTokenAuthCode, ConsumeOAuthCode
  <2>2. \/ flow' = [flow EXCEPT ![f] = Over(f)]
        \/ flow' = [flow EXCEPT ![f] = [flow[f] EXCEPT !.st = "redeeming"]]
    BY <1>b, <1>9, Zenon DEF handleTokenAuthCode
  <2> QED
    BY <1>a, <2>1, <2>2, OverKeeps, StateKeeps
<1> QED
  BY <1>1, <1>2, <1>3, <1>4, <1>5, <1>6, <1>7, <1>8, <1>9, Zenon

\* Sweeps of sign-ins, and restarts.
LEMMA DropsKeep ==
    ASSUME GrantInv, sweep \/ Restart
    PROVE  GrantInv'
<1>0. GrantType
  BY Zenon DEF GrantInv
<1>1. CASE sweep
  <2>1. UNCHANGED <<clock, deletedAt, grants>>
    BY <1>1, Zenon DEF sweep
  <2>2. \E old : flow' = [f \in Flows |-> IF f \in old THEN Over(f) ELSE flow[f]]
    BY <1>1, Zenon DEF sweep
  <2>3. flow' = [f \in Flows |-> flow'[f]] /\ \A f \in Flows : SignInMoves(f)
    BY <2>2, Zenon DEF SignInMoves
  <2>4. req' = [r \in Requests |-> req'[r]]
    BY <1>0, <2>1, Zenon DEF GrantType, grants
  <2> QED
    BY <2>1, <2>3, <2>4, SignInStep, Zenon DEF grants
<1>2. CASE Restart
  <2>1. UNCHANGED <<clock, deletedAt, tok, held>>
    BY <1>2, Zenon DEF Restart
  <2>2. flow' = [f \in Flows |-> flow'[f]] /\ \A f \in Flows : SignInMoves(f)
    BY <1>2, Zenon DEF Restart, SignInMoves
  <2>3. req' = [r \in Requests |-> req'[r]] /\ \A r \in Requests : req'[r] = Idle
    BY <1>2, Zenon DEF Restart
  <2> QED
    BY <2>1, <2>2, <2>3, SignInStep, Zenon
<1> QED
  BY <1>1, <1>2, Zenon

\* Time passes.
LEMMA TickKeeps ==
    ASSUME GrantInv, Tick
    PROVE  GrantInv'
<1>0. GrantType /\ clock' = clock + 1 /\ UNCHANGED <<deletedAt, flow, tok, req, held>>
  BY Zenon DEF GrantInv, Tick, grants
<1>1. GrantType'
  <2>1. clock' \in Nat /\ deletedAt' <= clock'
    BY <1>0 DEF GrantType
  <2>2. \A f \in Flows : flow'[f].at <= clock'
    <3> SUFFICES ASSUME NEW f \in Flows PROVE flow[f].at <= clock'
      BY <1>0, Zenon
    <3>1. flow[f].at \in Nat /\ flow[f].at <= clock /\ clock \in Nat
      BY <1>0, GrantFields, Zenon DEF GrantType
    <3> QED
      BY <1>0, <3>1
  <2> QED
    BY <1>0, <2>1, <2>2, Zenon DEF GrantType
<1>2. SignInInv' /\ FamilyInv' /\ OneLive' /\ KeepInv' /\ ReuseInv'
  <2>1. SignInInv' /\ FamilyInv'
    BY <1>0, Zenon DEF GrantInv, SignInInv, FamilyInv, Live
  <2>2. OneLive'
    BY <1>0, Zenon DEF GrantInv, OneLive, Live
  <2>3. KeepInv'
    BY <1>0, Zenon DEF GrantInv, KeepInv, Live, Parted
  <2>4. ReuseInv'
    BY <1>0, Zenon DEF GrantInv, ReuseInv, Parted
  <2> QED
    BY <2>1, <2>2, <2>3, <2>4, Zenon
<1>3. (\A r \in Requests : AskInv(r)') /\ LockInv'
  BY <1>0, AsksKept, Zenon
<1> QED
  BY <1>1, <1>2, <1>3, Zenon DEF GrantInv

\* What a grant is entitled to is a set of scopes.
LEMMA ScopesOf == ResolveScopes \in SUBSET Scopes
  BY Zenon DEF ResolveScopes, Scopes, Negotiable

\* The code is exchanged for the first row of a family.
LEMMA IssueKeeps ==
    ASSUME GrantAssumption, GrantInv, NEW f \in Flows, issueRefreshToken(f)
    PROVE  GrantInv'
<1>0. GrantType /\ SignInInv
  BY Zenon DEF GrantInv
<1>1. /\ UNCHANGED <<clock, deletedAt, req>> /\ flow[f].st = "redeeming"
      /\ flow' = [flow EXCEPT ![f] = Over(f)] /\ SaveRefreshTokenForGrant(f)
  BY Zenon DEF issueRefreshToken
<1>2. CASE accountDeletedSince(flow[f].at)
  <2>1. UNCHANGED <<clock, deletedAt, grants>>
    BY <1>1, <1>2, Zenon DEF SaveRefreshTokenForGrant, grants
  <2> QED
    BY <1>1, <2>1, OverKeeps, Zenon
<1>3. CASE ~accountDeletedSince(flow[f].at)
  <2>1. flow[f].at \in Nat /\ flow[f].started \in Nat /\ flow[f].client \in AnyClient
    BY <1>0, GrantFields, Zenon
  <2>2. flow[f].at > deletedAt /\ deletedAt \in Int
    BY <1>0, <1>3, <2>1, NotOvertaken, Zenon DEF GrantType
  <2>3. flow[f].started > deletedAt
    <3>1. flow[f].started > deletedAt \/ flow[f].at <= deletedAt
      BY <1>0, <1>1, Zenon DEF SignInInv
    <3> QED
      BY <2>1, <2>2, <3>1
  <2>4. PICK row : row = [family |-> f, client |-> flow[f].client, parent |-> None,
                          scope |-> narrowGrant(ResolveScopes, flow[f].scope),
                          expiresAt |-> clock + RefreshTokenTTL, revoked |-> "", revokedAt |-> 0]
    BY Zenon
  <2>5. tok' = Append(tok, row) /\ held' = [held EXCEPT ![f] = Len(tok) + 1]
    BY <1>1, <1>3, <2>4, Zenon DEF SaveRefreshTokenForGrant, saveRefreshToken
  <2>6. narrowGrant(ResolveScopes, flow[f].scope) \in SUBSET Scopes
    BY ScopesOf, Zenon DEF narrowGrant
  <2>7. clock + RefreshTokenTTL \in Int /\ None \in Nat /\ 0 \in Int
    BY <1>0 DEF GrantAssumption, GrantType, None
  <2>8. row \in TokenType
    BY <2>1, <2>4, <2>6, <2>7, Zenon DEF TokenType
  <2>9. row.family = f /\ row.revoked = ""
    BY <2>4, Zenon
  <2> QED
    BY <1>1, <2>3, <2>5, <2>8, <2>9, IssueStep, Zenon
<1> QED
  BY <1>2, <1>3, Zenon

-----------------------------------------------------------------------------
\* One request moves on, and holds no lock after it.
LEMMA OneAsk ==
    ASSUME GrantInv, UNCHANGED <<clock, deletedAt, flow, tok>>, NEW r \in Requests,
           NEW ask \in AskType, req' = [req EXCEPT ![r] = ask], ask.pc # "rotating", AskInv(r)',
           NEW g \in Flows,
           \/ held' = held
           \/ held' = [held EXCEPT ![g] = None]
           \/ held[g] # None /\ \E s \in DOMAIN tok : /\ Live(s) /\ tok[s].family = g
                                                      /\ held' = [held EXCEPT ![g] = s]
    PROVE  GrantInv'
<1>0. GrantType /\ LockInv
  BY Zenon DEF GrantInv
<1>1. req' = [q \in Requests |-> req'[q]] /\ req'[r] = ask /\ \A q \in Requests : q # r => req'[q] = req[q]
  BY <1>0, Zenon DEF GrantType
<1>2. \A q \in Requests : req'[q] = req[q] \/ (req'[q] \in AskType /\ AskInv(q)')
  BY <1>1, Zenon
<1>3. LockInv'
  <2> SUFFICES ASSUME NEW q \in Requests, NEW u \in Requests, req'[q].pc = "rotating",
                      req'[u].pc = "rotating", req'[q].tok = req'[u].tok
               PROVE  q = u
    BY Zenon DEF LockInv
  <2>1. q # r /\ u # r
    BY <1>1, Zenon
  <2> QED
    BY <1>0, <1>1, <2>1, Zenon DEF LockInv
<1> QED
  BY <1>1, <1>2, <1>3, AskStep, Zenon

\* A request that ends without another change.
LEMMA EndKeeps ==
    ASSUME GrantInv, UNCHANGED <<clock, deletedAt, flow, tok, held>>, NEW r \in Requests,
           req' = [req EXCEPT ![r] = Idle]
    PROVE  GrantInv'
<1>0. GrantType
  BY Zenon DEF GrantInv
<1>1. \A q \in Requests : req'[q] = req[q] \/ req'[q] = Idle
  BY <1>0, Zenon DEF GrantType
<1>2. flow' = [g \in Flows |-> flow'[g]] /\ req' = [q \in Requests |-> req'[q]]
  BY <1>0, Zenon DEF GrantType
<1>3. \A g \in Flows : SignInMoves(g)
  BY Zenon DEF SignInMoves
<1> QED
  BY <1>1, <1>2, <1>3, SignInStep, Zenon

\* A family's client loses its token.
LEMMA LeakedKeeps ==
    ASSUME GrantInv, NEW f \in Flows, Leaked(f)
    PROVE  GrantInv'
<1>1. UNCHANGED <<clock, deletedAt, flow, tok, req>> /\ held' = [held EXCEPT ![f] = None]
  BY Zenon DEF Leaked
<1>2. req' = [q \in Requests |-> req'[q]] /\ \A q \in Requests : req'[q] = req[q]
  BY <1>1, Zenon DEF GrantInv, GrantType
<1>3. LockInv'
  BY <1>1, Zenon DEF GrantInv, LockInv
<1> QED
  BY <1>1, <1>2, <1>3, AskStep, Zenon

\* A spent token presented again: answered inside the window, and otherwise
\* the beginning of a revocation for reuse, which the client that behaves is
\* not the cause of.
LEMMA RecoveryKeeps ==
    ASSUME GrantInv, UNCHANGED <<clock, deletedAt, flow, tok>>, NEW r \in Requests,
           NEW t \in DOMAIN tok, ~Live(t), NEW c, attemptGraceRecovery(r, t, c)
    PROVE  GrantInv'
<1>0. GrantType /\ ReuseInv
  BY Zenon DEF GrantInv
<1>1. PICK g \in Flows : g = tok[t].family
  BY <1>0, GrantFields, Zenon
<1>2. t \in Nat /\ t # None /\ tok[t] \in TokenType
  <2>1. t \in 1..Len(tok) /\ Len(tok) \in Nat /\ tok[t] \in TokenType
    BY <1>0, GrantFields, Zenon
  <2> QED
    BY <2>1 DEF None
<1>3. CASE tok[t].revoked # "rotated" \/ Late(t)
  <2>1. PICK ask : ask = [Idle EXCEPT !.pc = "revoking", !.tok = t, !.reason = "reuse_detected"]
    BY Zenon
  <2>2. req' = [req EXCEPT ![r] = ask]
    BY <1>3, <2>1, Zenon DEF attemptGraceRecovery
  <2>3. ask \in AskType /\ ask.pc = "revoking" /\ ask.tok = t /\ ask.reason = "reuse_detected"
    BY <1>2, <2>1, Zenon DEF Idle, AskType, AnyClient
  <2>4. held' = IF tok[t].revoked = "rotated" THEN [held EXCEPT ![g] = None] ELSE held
    BY <1>1, <1>3, Zenon DEF attemptGraceRecovery
  <2>5. held \in [Flows -> Nat] /\ req \in [Requests -> AskType]
    BY <1>0, Zenon DEF GrantType
  <2>6. Parted(g)'
    <3>1. CASE tok[t].revoked = "rotated"
      <4>1. held'[g] = None
        BY <2>4, <2>5, <3>1, Zenon
      <4> QED
        BY <4>1, Zenon DEF Parted
    <3>2. CASE tok[t].revoked # "rotated"
      <4>1. tok[t].revoked = "reuse_detected" \/ tok[t].revoked \in Ends
        BY <1>2, <3>2 DEF TokenType, Live
      <4>2. Parted(g)
        BY <1>0, <1>1, <4>1, Zenon DEF ReuseInv, Parted
      <4>3. held' = held /\ tok' = tok
        BY <2>4, <3>2, Zenon
      <4> QED
        BY <4>2, <4>3, Zenon DEF Parted
    <3> QED
      BY <3>1, <3>2
  <2>7. req'[r] = ask /\ tok' = tok
    BY <2>2, <2>5, Zenon
  <2>8. AskInv(r)'
    BY <1>1, <2>3, <2>6, <2>7 DEF AskInv, Parted
  <2>9. ask.pc # "rotating"
    BY <2>3, Zenon
  <2> QED
    BY <2>2, <2>3, <2>4, <2>8, <2>9, OneAsk, Zenon
<1>4. CASE ~(tok[t].revoked # "rotated" \/ Late(t))
  <2>1. req' = [req EXCEPT ![r] = Idle]
    BY <1>4, Zenon DEF attemptGraceRecovery
  <2>2. CASE held' = held
    BY <2>1, <2>2, EndKeeps, Zenon
  <2>3. CASE held' # held
    <3>1. PICK s \in LookupRefreshTokenByHashPair(t, c) : Answered(tok[s].family, t, s)
      BY <1>4, <2>3, Zenon DEF attemptGraceRecovery
    <3>2. s \in DOMAIN tok /\ Live(s) /\ tok[s].family = g
      BY <1>1, <3>1, Zenon DEF LookupRefreshTokenByHashPair, Rows
    <3>3. held[g] = t /\ held' = [held EXCEPT ![g] = s]
      BY <2>3, <3>1, <3>2, Zenon DEF Answered
    <3>4. req'[r] = Idle
      BY <1>0, <2>1, Zenon DEF GrantType
    <3>5. AskInv(r)'
      BY <3>4, IdleAsk, Zenon DEF AskInv
    <3>6. Idle.pc # "rotating" /\ Idle \in AskType
      BY IdleAsk, Zenon
    <3> QED
      BY <1>2, <2>1, <3>2, <3>3, <3>5, <3>6, OneAsk, Zenon
  <2> QED
    BY <2>2, <2>3, Zenon
<1> QED
  BY <1>3, <1>4, Zenon

\* A refresh begins.
LEMMA RefreshKeeps ==
    ASSUME GrantInv, NEW r \in Requests, NEW t \in DOMAIN tok, NEW c \in Clients,
           handleTokenRefresh(r, t, c)
    PROVE  GrantInv'
<1>0. GrantType
  BY Zenon DEF GrantInv
<1>1. UNCHANGED <<clock, deletedAt, flow, tok>> /\ held[tok[t].family] \in {t, None}
  BY Zenon DEF handleTokenRefresh
<1>2. CASE tok[t].revoked # "" /\ attemptGraceRecovery(r, t, c)
  BY <1>1, <1>2, RecoveryKeeps, Zenon DEF Live
<1>3. CASE ~(tok[t].revoked # "" /\ attemptGraceRecovery(r, t, c))
  <2>1. PICK ask : ask = [Idle EXCEPT !.pc = "looked", !.tok = t, !.client = c,
                                      !.scope = boundRefreshGrant(tok[t].scope)]
    BY Zenon
  <2>2. tok[t].revoked = "" /\ req' = [req EXCEPT ![r] = ask] /\ held' = held
    BY <1>3, <2>1, Zenon DEF handleTokenRefresh
  <2>3. t \in Nat /\ c \in AnyClient
    BY <1>0, GrantFields DEF AnyClient
  <2>4. boundRefreshGrant(tok[t].scope) \in SUBSET Scopes
    BY ScopesOf, Zenon DEF boundRefreshGrant
  <2>5. ask \in AskType /\ ask.pc = "looked" /\ ask.tok = t
    BY <2>1, <2>3, <2>4, Zenon DEF Idle, AskType
  <2>6. req'[r] = ask /\ tok' = tok
    BY <1>0, <1>1, <2>2, Zenon DEF GrantType
  <2>7. AskInv(r)'
    BY <1>1, <2>2, <2>5, <2>6, Zenon DEF AskInv
  <2>8. ask.pc # "rotating" /\ tok[t].family \in Flows
    BY <1>0, <2>5, GrantFields, Zenon
  <2> QED
    BY <1>1, <2>2, <2>5, <2>7, <2>8, OneAsk, Zenon
<1> QED
  BY <1>2, <1>3, Zenon

\* A client gives its grant up.
LEMMA RevokeKeeps ==
    ASSUME GrantInv, NEW r \in Requests, NEW t \in DOMAIN tok, NEW c \in Clients,
           handleRevoke(r, t, c)
    PROVE  GrantInv'
<1>0. GrantType
  BY Zenon DEF GrantInv
<1>1. UNCHANGED <<clock, deletedAt, flow, tok, held>>
  BY Zenon DEF handleRevoke
<1>2. PICK ask : ask = [Idle EXCEPT !.pc = "revoking", !.tok = t, !.reason = "explicit_revoke"]
  BY Zenon
<1>3. req' = [req EXCEPT ![r] = ask]
  BY <1>2, Zenon DEF handleRevoke
<1>4. t \in Nat /\ tok[t].family \in Flows
  BY <1>0, GrantFields
<1>5. ask \in AskType /\ ask.pc = "revoking" /\ ask.tok = t /\ ask.reason = "explicit_revoke"
  BY <1>2, <1>4, Zenon DEF Idle, AskType, AnyClient
<1>6. req'[r] = ask /\ tok' = tok
  BY <1>0, <1>1, <1>3, Zenon DEF GrantType
<1>7. AskInv(r)' /\ ask.pc # "rotating"
  BY <1>5, <1>6, Zenon DEF AskInv
<1> QED
  BY <1>1, <1>3, <1>4, <1>5, <1>7, OneAsk, Zenon

\* One row replaced.
LEMMA ReplaceRow ==
    ASSUME NEW rows \in Seq(TokenType), NEW t \in DOMAIN rows, NEW row \in TokenType,
           NEW new, new = [rows EXCEPT ![t] = row]
    PROVE  /\ new \in Seq(TokenType) /\ DOMAIN new = DOMAIN rows /\ Len(new) = Len(rows)
           /\ new[t] = row /\ \A s \in DOMAIN rows : s # t => new[s] = rows[s]
  OBVIOUS

\* Row t is spent, row n its successor.
RotatesTo(rows, t, n) ==
    /\ rows \in Seq(TokenType) /\ DOMAIN rows = DOMAIN tok \cup {n}
    /\ \A s \in DOMAIN tok : s # t => rows[s] = tok[s]
    /\ rows[t].family = tok[t].family /\ rows[t].revoked = "rotated"
    /\ rows[n].family = tok[t].family /\ rows[n].revoked = "" /\ rows[n].parent = t

\* The rows after a rotation.
LEMMA RotatedRows ==
    ASSUME GrantType, NEW r \in Requests, NEW t \in DOMAIN tok, t = req[r].tok, Live(t),
           NEW rows, rows = Rotated(r), NEW n, n = Len(tok) + 1
    PROVE  RotatesTo(rows, t, n)
<1>1. tok \in Seq(TokenType) /\ tok[t] \in TokenType /\ t \in Nat /\ req[r] \in AskType
  BY GrantFields, Zenon DEF GrantType
<1>2. req[r].at \in Int /\ req[r].scope \in SUBSET Scopes
  <2>1. req[r].at \in Nat /\ req[r].scope \in SUBSET Scopes
    BY <1>1, Zenon DEF AskType
  <2> QED
    BY <2>1
<1>3. PICK old : old = [tok[t] EXCEPT !.revoked = "rotated", !.revokedAt = req[r].at]
  BY Zenon
<1>4. PICK new : new = [tok[t] EXCEPT !.parent = t, !.scope = req[r].scope]
  BY Zenon
<1>5. PICK spent : spent = [tok EXCEPT ![t] = old]
  BY Zenon
<1>6. "rotated" \in {"", "rotated", "reuse_detected"} \cup Ends
  BY Zenon
<1>7. old \in TokenType /\ new \in TokenType
  BY <1>1, <1>2, <1>3, <1>4, <1>6, Zenon DEF TokenType
<1>8. old.family = tok[t].family /\ old.revoked = "rotated"
  BY <1>1, <1>3, Zenon DEF TokenType
<1>9. new.family = tok[t].family /\ new.revoked = "" /\ new.parent = t
  BY <1>1, <1>4, Zenon DEF TokenType, Live
<1>10. rows = Append(spent, new)
  <2>1. [tok EXCEPT ![t].revoked = "rotated", ![t].revokedAt = req[r].at] = spent
    BY <1>1, <1>3, <1>5, Zenon
  <2> QED
    BY <1>4, <2>1, Zenon DEF Rotated
<1>11. spent \in Seq(TokenType) /\ DOMAIN spent = DOMAIN tok /\ Len(spent) = Len(tok)
  BY <1>1, <1>5, <1>7
<1>12. spent[t] = old /\ \A s \in DOMAIN tok : s # t => spent[s] = tok[s]
  BY <1>1, <1>5, <1>7, ReplaceRow, Zenon
<1>13. /\ Append(spent, new) \in Seq(TokenType)
       /\ DOMAIN Append(spent, new) = DOMAIN spent \cup {Len(spent) + 1}
       /\ \A s \in DOMAIN spent : Append(spent, new)[s] = spent[s]
       /\ Append(spent, new)[Len(spent) + 1] = new
  BY <1>7, <1>11, AppendRow, Zenon
<1>14. /\ rows \in Seq(TokenType) /\ DOMAIN rows = DOMAIN tok \cup {n}
       /\ \A s \in DOMAIN tok : rows[s] = spent[s]
       /\ rows[n] = new
  BY <1>10, <1>11, <1>13, Zenon
<1> QED
  BY <1>8, <1>9, <1>12, <1>14, Zenon DEF RotatesTo

\* A rotation commits.
LEMMA CommitKeeps ==
    ASSUME GrantInv, NEW r \in Requests, CommitRotation(r)
    PROVE  GrantInv'
<1>0. GrantType /\ LockInv /\ AskInv(r)
  BY Zenon DEF GrantInv
<1>1. /\ UNCHANGED <<clock, deletedAt, flow>> /\ req[r].pc = "rotating"
      /\ tok' = Rotated(r) /\ req' = [req EXCEPT ![r] = Idle]
  BY Zenon DEF CommitRotation
<1>2. PICK t : t = req[r].tok
  BY Zenon
<1>3. t \in DOMAIN tok /\ Live(t) /\ held[tok[t].family] \in {t, None}
  BY <1>0, <1>1, <1>2, Zenon DEF AskInv
<1>4. PICK n : n = Len(tok) + 1
  BY Zenon
<1>5. Answered(tok[t].family, t, n)
  BY <1>2, <1>4, Zenon DEF CommitRotation
<1>6. \A q \in Requests : req[q].pc = "rotating" /\ req[q].tok = t => q = r
  BY <1>0, <1>1, <1>2, Zenon DEF LockInv
<1>7. PICK rows : rows = Rotated(r)
  BY Zenon
<1>8. /\ rows \in Seq(TokenType) /\ DOMAIN rows = DOMAIN tok \cup {n}
      /\ \A s \in DOMAIN tok : s # t => rows[s] = tok[s]
      /\ rows[t].family = tok[t].family /\ rows[t].revoked = "rotated"
      /\ rows[n].family = tok[t].family /\ rows[n].revoked = "" /\ rows[n].parent = t
  <2>1. RotatesTo(rows, t, n)
    BY <1>0, <1>2, <1>3, <1>4, <1>7, RotatedRows, Zenon
  <2> QED
    BY <2>1, Zenon DEF RotatesTo
<1>9. tok' = rows
  BY <1>1, <1>7, Zenon
<1> QED
  BY <1>1, <1>3, <1>4, <1>5, <1>6, <1>8, <1>9, RotateStep, ZenonT(30)

\* UPDATE ... WHERE revoked_at IS NULL.
LEMMA RotateKeeps ==
    ASSUME GrantInv, NEW r \in Requests, RotateRefreshToken(r)
    PROVE  GrantInv'
<1>0. GrantType /\ LockInv /\ AskInv(r)
  BY Zenon DEF GrantInv
<1>a. clock \in Nat /\ req \in [Requests -> AskType] /\ req[r] \in AskType
  BY <1>0, Zenon DEF GrantType
<1>1. PICK t : t = req[r].tok
  BY Zenon
<1>2. UNCHANGED <<clock, deletedAt, flow>> /\ req[r].pc = "looked" /\ ~RowLocked(t)
  BY <1>1, Zenon DEF RotateRefreshToken
<1>3. t \in DOMAIN tok /\ (Live(t) => held[tok[t].family] \in {t, None})
  BY <1>0, <1>1, <1>2, Zenon DEF AskInv
<1>4. tok[t].family \in Flows
  BY <1>0, <1>3, GrantFields, Zenon
<1>5. CASE ~Live(t)
  <2>1. PICK ask : ask = [req[r] EXCEPT !.pc = "lost"]
    BY Zenon
  <2>2. req' = [req EXCEPT ![r] = ask]
    <3>1. req' = [req EXCEPT ![r].pc = "lost"]
      BY <1>1, <1>5, Zenon DEF RotateRefreshToken
    <3> QED
      BY <1>a, <2>1, <3>1, Zenon
  <2>3. tok' = tok /\ held' = held
    BY <1>1, <1>5, Zenon DEF RotateRefreshToken
  <2>4. ask \in AskType /\ ask.pc = "lost" /\ ask.tok = t
    BY <1>1, <1>a, <2>1, Zenon DEF AskType
  <2>5. req'[r] = ask
    BY <1>a, <2>2, Zenon
  <2>6. AskInv(r)' /\ ask.pc # "rotating"
    BY <1>3, <1>5, <2>3, <2>4, <2>5 DEF AskInv, Live
  <2> QED
    BY <1>2, <1>4, <2>2, <2>3, <2>4, <2>6, OneAsk, Zenon
<1>6. CASE Live(t) /\ dialect = "postgres"
  <2>1. PICK ask : ask = [req[r] EXCEPT !.pc = "rotating", !.at = clock]
    BY Zenon
  <2>2. req' = [req EXCEPT ![r] = ask]
    <3>1. req' = [req EXCEPT ![r].pc = "rotating", ![r].at = clock]
      BY <1>1, <1>6, Zenon DEF RotateRefreshToken
    <3> QED
      BY <1>a, <2>1, <3>1, Zenon
  <2>3. tok' = tok /\ held' = held
    BY <1>1, <1>6, Zenon DEF RotateRefreshToken
  <2>4. ask \in AskType /\ ask.pc = "rotating" /\ ask.tok = t
    BY <1>1, <1>a, <2>1 DEF AskType
  <2>5. /\ req'[r] = ask /\ \A q \in Requests : q # r => req'[q] = req[q]
        /\ req' = [q \in Requests |-> req'[q]]
    BY <1>a, <2>2, Zenon
  <2>6. AskInv(r)'
    BY <1>3, <1>6, <2>3, <2>4, <2>5 DEF AskInv, Live
  <2>7. LockInv'
    <3>1. \A q \in Requests : ~(req[q].pc = "rotating" /\ req[q].tok = t)
      BY <1>2, Zenon DEF RowLocked
    <3> SUFFICES ASSUME NEW q \in Requests, NEW u \in Requests, req'[q].pc = "rotating",
                        req'[u].pc = "rotating", req'[q].tok = req'[u].tok
                 PROVE  q = u
      BY Zenon DEF LockInv
    <3>2. CASE q = r \/ u = r
      BY <2>4, <2>5, <3>1, <3>2, Zenon
    <3>3. CASE q # r /\ u # r
      BY <1>0, <2>5, <3>3, Zenon DEF LockInv
    <3> QED
      BY <3>2, <3>3, Zenon
  <2>8. \A q \in Requests : req'[q] = req[q] \/ (req'[q] \in AskType /\ AskInv(q)')
    BY <2>4, <2>5, <2>6, Zenon
  <2> QED
    BY <1>2, <1>4, <2>3, <2>5, <2>7, <2>8, AskStep, Zenon
<1>7. CASE Live(t) /\ dialect # "postgres"
  <2>1. PICK n : n = Len(tok) + 1
    BY Zenon
  <2>2. PICK rows : rows = Rotated(r)
    BY Zenon
  <2>3. /\ tok' = [rows EXCEPT ![t].revokedAt = clock] /\ req' = [req EXCEPT ![r] = Idle]
        /\ Answered(tok[t].family, t, n)
    BY <1>1, <1>7, <2>1, <2>2, Zenon DEF RotateRefreshToken
  <2>4. /\ rows \in Seq(TokenType) /\ DOMAIN rows = DOMAIN tok \cup {n}
        /\ \A s \in DOMAIN tok : s # t => rows[s] = tok[s]
        /\ rows[t].family = tok[t].family /\ rows[t].revoked = "rotated"
        /\ rows[n].family = tok[t].family /\ rows[n].revoked = "" /\ rows[n].parent = t
    <3>1. RotatesTo(rows, t, n)
      BY <1>0, <1>1, <1>3, <1>7, <2>1, <2>2, RotatedRows, Zenon
    <3> QED
      BY <3>1, Zenon DEF RotatesTo
  <2>5. PICK old : old = [rows[t] EXCEPT !.revokedAt = clock]
    BY Zenon
  <2>6. t \in DOMAIN rows /\ rows[t] \in TokenType /\ clock \in Int
    <3>1. t \in DOMAIN rows
      BY <1>3, <2>4, Zenon
    <3>2. rows \in Seq(TokenType)
      BY <2>4, Zenon
    <3>3. rows[t] \in TokenType
      BY <3>1, <3>2
    <3>4. clock \in Int
      BY <1>a
    <3> QED
      BY <3>1, <3>3, <3>4, Zenon
  <2>7. old \in TokenType
    BY <2>5, <2>6, Zenon DEF TokenType
  <2>8. old.family = tok[t].family /\ old.revoked = "rotated"
    BY <2>4, <2>5, <2>6 DEF TokenType
  <2>9. PICK new : new = [rows EXCEPT ![t] = old]
    BY Zenon
  <2>10. tok' = new
    BY <2>3, <2>4, <2>5, <2>6, <2>9, Zenon
  <2>11. /\ new \in Seq(TokenType) /\ DOMAIN new = DOMAIN rows
         /\ new[t] = old /\ \A s \in DOMAIN rows : s # t => new[s] = rows[s]
    BY <2>4, <2>6, <2>7, <2>9, ReplaceRow, Zenon
  <2>12. n # t /\ n \in DOMAIN rows
    <3>1. n \notin DOMAIN tok
      BY <1>0, <2>1, GrantFields, NextRow, Zenon
    <3> QED
      BY <1>3, <2>4, <3>1, Zenon
  <2>13. /\ tok' \in Seq(TokenType) /\ DOMAIN tok' = DOMAIN tok \cup {n}
         /\ \A s \in DOMAIN tok : s # t => tok'[s] = tok[s]
         /\ tok'[t].family = tok[t].family /\ tok'[t].revoked = "rotated"
         /\ tok'[n].family = tok[t].family /\ tok'[n].revoked = "" /\ tok'[n].parent = t
    BY <2>4, <2>8, <2>10, <2>11, <2>12, Zenon
  <2>14. \A q \in Requests : req[q].pc = "rotating" /\ req[q].tok = t => q = r
    BY <1>2, Zenon DEF RowLocked
  <2> QED
    BY <1>2, <1>3, <1>7, <2>1, <2>3, <2>13, <2>14, RotateStep, ZenonT(30)
<1> QED
  BY <1>5, <1>6, <1>7, Zenon

\* The UPDATE over a family waits, or revokes its live rows.
LEMMA RevokeFamilyKeeps ==
    ASSUME GrantInv, NEW r \in Requests, RevokeRefreshTokenFamily(r)
    PROVE  GrantInv'
<1>0. GrantType /\ AskInv(r)
  BY Zenon DEF GrantInv
<1>a. req \in [Requests -> AskType] /\ req[r] \in AskType
  BY <1>0, Zenon DEF GrantType
<1>1. UNCHANGED <<clock, deletedAt, flow, held>> /\ req[r].pc = "revoking"
  BY Zenon DEF RevokeRefreshTokenFamily
<1>2. PICK t : t = req[r].tok
  BY Zenon
<1>3. t \in DOMAIN tok /\ req[r].reason \in {"reuse_detected", "explicit_revoke"}
      /\ (req[r].reason = "reuse_detected" => Parted(tok[t].family))
  BY <1>0, <1>1, <1>2, Zenon DEF AskInv
<1>4. PICK f \in Flows : f = tok[t].family
  BY <1>0, <1>3, GrantFields, Zenon
<1>5. \A s \in LiveRows(f) : s \in DOMAIN tok /\ Live(s) /\ tok[s].family = f
  BY Zenon DEF LiveRows, Rows
<1>6. CASE \E s \in LiveRows(f) : RowLocked(s)
  <2>1. PICK ask : ask = [req[r] EXCEPT !.pc = "waiting", !.snap = LiveRows(f)]
    BY Zenon
  <2>2. req' = [req EXCEPT ![r] = ask] /\ tok' = tok
    <3>1. req' = [req EXCEPT ![r].pc = "waiting", ![r].snap = LiveRows(f)] /\ tok' = tok
      BY <1>2, <1>4, <1>6, Zenon DEF RevokeRefreshTokenFamily
    <3> QED
      BY <1>a, <2>1, <3>1, Zenon
  <2>3. LiveRows(f) \in SUBSET Nat
    <3>1. DOMAIN tok = 1..Len(tok) /\ Len(tok) \in Nat
      BY <1>0, GrantFields, Zenon
    <3> QED
      BY <1>5, <3>1
  <2>4. ask \in AskType
    <3>1. "waiting" \in {"idle", "looked", "rotating", "lost", "revoking", "waiting"}
      BY Zenon
    <3> QED
      BY <1>a, <2>1, <2>3, <3>1, Zenon DEF AskType
  <2>5. ask.pc = "waiting" /\ ask.tok = t /\ ask.reason = req[r].reason /\ ask.snap = LiveRows(f)
    BY <1>2, <1>a, <2>1, Zenon DEF AskType
  <2>6. req'[r] = ask
    BY <1>a, <2>2, Zenon
  <2>7. AskInv(r)' /\ ask.pc # "rotating"
    <3>1. Parted(tok[t].family) => Parted(tok[t].family)'
      BY <1>1, <2>2, Zenon DEF Parted
    <3> QED
      BY <1>3, <1>4, <1>5, <2>2, <2>5, <2>6, <3>1 DEF AskInv, Parted
  <2> QED
    BY <1>1, <1>4, <2>2, <2>4, <2>7, OneAsk, Zenon
<1>7. CASE ~\E s \in LiveRows(f) : RowLocked(s)
  <2>1. tok' = RevokedAs(LiveRows(f), req[r].reason) /\ req' = [req EXCEPT ![r] = Idle]
    BY <1>2, <1>4, <1>7, Zenon DEF RevokeRefreshTokenFamily
  <2>2. req[r].reason \in {"reuse_detected"} \cup Ends
    BY <1>3, Zenon DEF Ends
  <2>3. req[r].reason \notin Ends => \A s \in LiveRows(f) : Live(s) /\ Parted(tok[s].family)
    <3>1. req[r].reason \notin Ends => req[r].reason = "reuse_detected"
      BY <2>2, Zenon
    <3> QED
      BY <1>3, <1>4, <1>5, <3>1, Zenon
  <2>4. req' = [q \in Requests |-> req'[q]]
        /\ \A q \in Requests : req'[q] = Idle \/ req'[q] = req[q]
    BY <1>a, <2>1, Zenon
  <2>5. \A q \in Requests : req[q].pc = "rotating" => req[q].tok \notin LiveRows(f)
    BY <1>7, Zenon DEF RowLocked
  <2> QED
    BY <1>1, <2>1, <2>2, <2>3, <2>4, <2>5, RevokeStep, Zenon
<1> QED
  BY <1>6, <1>7, Zenon

\* The UPDATE that waited goes on.
LEMMA ResumeKeeps ==
    ASSUME GrantInv, NEW r \in Requests, RevokeResumes(r)
    PROVE  GrantInv'
<1>0. GrantType /\ AskInv(r)
  BY Zenon DEF GrantInv
<1>a. req \in [Requests -> AskType]
  BY <1>0, Zenon DEF GrantType
<1>1. /\ UNCHANGED <<clock, deletedAt, flow, held>> /\ req[r].pc = "waiting"
      /\ req' = [req EXCEPT ![r] = Idle] /\ \A s \in req[r].snap : ~RowLocked(s)
  BY Zenon DEF RevokeResumes
<1>2. PICK ts : ts = {s \in req[r].snap : Live(s)}
  BY Zenon
<1>3. tok' = RevokedAs(ts, req[r].reason)
  BY <1>2, Zenon DEF RevokeResumes
<1>4. /\ req[r].reason \in {"reuse_detected", "explicit_revoke"}
      /\ req[r].reason = "reuse_detected" => Parted(tok[req[r].tok].family)
      /\ \A s \in req[r].snap : s \in DOMAIN tok /\ tok[s].family = tok[req[r].tok].family
  BY <1>0, <1>1, Zenon DEF AskInv
<1>5. req[r].reason \in {"reuse_detected"} \cup Ends
  BY <1>4, Zenon DEF Ends
<1>6. req[r].reason \notin Ends => \A s \in ts : Live(s) /\ Parted(tok[s].family)
  <2>1. req[r].reason \notin Ends => req[r].reason = "reuse_detected"
    BY <1>5, Zenon
  <2> QED
    BY <1>2, <1>4, <2>1, Zenon
<1>7. req' = [q \in Requests |-> req'[q]]
      /\ \A q \in Requests : req'[q] = Idle \/ req'[q] = req[q]
  BY <1>1, <1>a, Zenon
<1>8. \A q \in Requests : req[q].pc = "rotating" => req[q].tok \notin ts
  BY <1>1, <1>2, Zenon DEF RowLocked
<1> QED
  BY <1>1, <1>3, <1>5, <1>6, <1>7, <1>8, RevokeStep, Zenon

\* Rows ended for good by the sweep, the owner or a deletion.
LEMMA EndingsKeep ==
    ASSUME GrantInv,
           \/ SweepExpiredRefreshTokens \/ HardDeleteAccount
           \/ \E c \in Clients : RevokeClientGrants(c)
    PROVE  GrantInv'
<1>0. req' = req /\ UNCHANGED <<clock, flow, held>>
  BY Zenon DEF SweepExpiredRefreshTokens, HardDeleteAccount, RevokeClientGrants
<1>1. req' = [q \in Requests |-> req'[q]]
  BY <1>0, Zenon DEF GrantInv, GrantType
<1>2. {"swept", "account_deleted", "owner_revoke"} \subseteq Ends
  BY Zenon DEF Ends
<1>3. CASE SweepExpiredRefreshTokens
  <2>1. PICK ts : tok' = RevokedAs(ts, "swept") /\ \A t \in ts : ~RowLocked(t)
    BY <1>3, Zenon DEF SweepExpiredRefreshTokens
  <2>2. \A q \in Requests : req[q].pc = "rotating" => req[q].tok \notin ts
    BY <2>1, Zenon DEF RowLocked
  <2>3. "swept" \in Ends /\ deletedAt' = deletedAt
    BY <1>2, <1>3, Zenon DEF SweepExpiredRefreshTokens
  <2> QED
    BY <1>0, <1>1, <2>1, <2>2, <2>3, RevokeStep
<1>4. CASE HardDeleteAccount
  <2>1. PICK ts : ts = {t \in DOMAIN tok : Live(t)}
    BY Zenon
  <2>2. tok' = RevokedAs(ts, "account_deleted") /\ deletedAt' = clock
    BY <1>4, <2>1, Zenon DEF HardDeleteAccount
  <2>3. \A q \in Requests : req[q].pc # "rotating"
    BY <1>4, Zenon DEF HardDeleteAccount, UserLocked
  <2>4. "account_deleted" \in Ends /\ \A t \in DOMAIN tok : Live(t) => t \in ts
    BY <1>2, <2>1, Zenon
  <2> QED
    BY <1>0, <1>1, <2>2, <2>3, <2>4, RevokeStep
<1>5. CASE \E c \in Clients : RevokeClientGrants(c)
  <2>1. PICK ts : tok' = RevokedAs(ts, "owner_revoke")
    BY <1>5, Zenon DEF RevokeClientGrants
  <2>2. \A q \in Requests : req[q].pc # "rotating"
    BY <1>5, Zenon DEF RevokeClientGrants, UserLocked
  <2>3. "owner_revoke" \in Ends /\ deletedAt' = deletedAt
    BY <1>2, <1>5, Zenon DEF RevokeClientGrants
  <2> QED
    BY <1>0, <1>1, <2>1, <2>2, <2>3, RevokeStep, Zenon
<1> QED
  BY <1>3, <1>4, <1>5

\* A rotation that lost, and a request that fails.
LEMMA LostAndFailedKeep ==
    ASSUME GrantInv, NEW r \in Requests, RotationLost(r) \/ RequestFails(r)
    PROVE  GrantInv'
<1>1. CASE RotationLost(r)
  <2>1. UNCHANGED <<clock, deletedAt, flow, tok>> /\ req[r].pc = "lost"
        /\ attemptGraceRecovery(r, req[r].tok, req[r].client)
    BY <1>1, Zenon DEF RotationLost
  <2>2. PICK t, c : t = req[r].tok /\ c = req[r].client
    BY Zenon
  <2>3. AskInv(r)
    BY Zenon DEF GrantInv
  <2>4. t \in DOMAIN tok /\ ~Live(t)
    BY <2>1, <2>2, <2>3 DEF AskInv
  <2>5. attemptGraceRecovery(r, t, c)
    BY <2>1, <2>2, Zenon
  <2> QED
    BY <2>1, <2>4, <2>5, RecoveryKeeps, Zenon
<1>2. CASE RequestFails(r)
  BY <1>2, EndKeeps, Zenon DEF RequestFails
<1> QED
  BY <1>1, <1>2, Zenon

\* At the start nothing was granted.
LEMMA InitGrants == Init => GrantInv
<1> SUFFICES ASSUME Init PROVE GrantInv
  OBVIOUS
<1>1. tok = <<>> /\ DOMAIN tok = {} /\ tok \in Seq(TokenType)
  BY DEF Init
<1>2. clock = 0 /\ deletedAt = -1 /\ clock \in Nat /\ deletedAt \in Int /\ deletedAt <= clock /\ 0 <= clock
  BY DEF Init, Never
<1>3. \A f \in Flows : flow[f] = [st |-> "new", client |-> NoClient, scope |-> {}, started |-> 0, at |-> 0]
  BY Zenon DEF Init
<1>4. \A f \in Flows : flow[f] \in FlowType /\ flow[f].st = "new" /\ flow[f].at = 0
  BY <1>3 DEF FlowType, States, AnyClient
<1>5. flow \in [Flows -> FlowType] /\ \A f \in Flows : flow[f].at <= clock
  <2>1. flow = [f \in Flows |-> flow[f]]
    BY Zenon DEF Init
  <2> QED
    BY <1>2, <1>4, <2>1, Zenon
<1>6. \A r \in Requests : req[r] = Idle
  BY Zenon DEF Init
<1>7. req \in [Requests -> AskType]
  <2>1. req = [r \in Requests |-> Idle]
    BY Zenon DEF Init
  <2> QED
    BY <2>1, IdleAsk, Zenon
<1>8. held \in [Flows -> Nat] /\ \A f \in Flows : held[f] = None
  BY Zenon DEF Init, None, Families
<1>9. GrantType
  BY <1>1, <1>2, <1>5, <1>7, <1>8, Zenon DEF GrantType
<1>10. SignInInv
  BY <1>4, Zenon DEF SignInInv
<1>11. FamilyInv /\ OneLive /\ ReuseInv
  BY <1>1, Zenon DEF FamilyInv, OneLive, ReuseInv
<1>12. KeepInv
  BY <1>8, Zenon DEF KeepInv, Parted
<1>13. (\A r \in Requests : AskInv(r)) /\ LockInv
  BY <1>6, IdleAsk, Zenon DEF AskInv, LockInv
<1> QED
  BY <1>9, <1>10, <1>11, <1>12, <1>13, Zenon DEF GrantInv

\* Every step keeps the invariant.
LEMMA NextKeepsGrants == GrantAssumption /\ GrantInv /\ [Next]_vars => GrantInv'
<1> SUFFICES ASSUME GrantAssumption, GrantInv, [Next]_vars PROVE GrantInv'
  OBVIOUS
<1>1. CASE Tick
  BY <1>1, TickKeeps, Zenon
<1>2. CASE sweep \/ Restart
  BY <1>2, DropsKeep, Zenon
<1>3. CASE SweepExpiredRefreshTokens \/ HardDeleteAccount \/ \E c \in Clients : RevokeClientGrants(c)
  BY <1>3, EndingsKeep, Zenon
<1>4. CASE UNCHANGED <<clock, deletedAt, flow, tok, req, held>>
  <2>1. flow' = [f \in Flows |-> flow'[f]] /\ req' = [r \in Requests |-> req'[r]]
    BY <1>4, Zenon DEF GrantInv, GrantType
  <2>2. \A f \in Flows : SignInMoves(f)
    BY <1>4, Zenon DEF SignInMoves
  <2> QED
    BY <1>4, <2>1, <2>2, SignInStep, Zenon
<1>5. CASE SetAccessTier
  BY <1>4, <1>5, Zenon DEF SetAccessTier, grants
<1>6. CASE UNCHANGED vars
  BY <1>4, <1>6, Zenon DEF vars, grants
<1>7. ASSUME NEW f \in Flows,
             \/ \E c \in Clients, scope \in Requested : handleAuthorize(f, c, scope)
             \/ ConsumePending(f) \/ CallbackFails(f) \/ handleTelegramCallback(f)
             \/ InsertCodeInMemory(f) \/ SaveSessionForSignIn(f) \/ finishEnable(f)
             \/ ExchangeConnect(f) \/ handleTokenAuthCode(f)
      PROVE  GrantInv'
  BY <1>7, SignInKeeps, Zenon
<1>8. ASSUME NEW f \in Flows, Leaked(f) \/ issueRefreshToken(f) PROVE GrantInv'
  BY <1>8, LeakedKeeps, IssueKeeps, Zenon
<1>9. ASSUME NEW r \in Requests,
             \/ \E t \in DOMAIN tok, c \in Clients : handleTokenRefresh(r, t, c) \/ handleRevoke(r, t, c)
             \/ RotateRefreshToken(r) \/ CommitRotation(r) \/ RotationLost(r)
             \/ RevokeRefreshTokenFamily(r) \/ RevokeResumes(r) \/ RequestFails(r)
      PROVE  GrantInv'
  BY <1>9, RefreshKeeps, RevokeKeeps, RotateKeeps, CommitKeeps, LostAndFailedKeep,
     RevokeFamilyKeeps, ResumeKeeps, Zenon
<1> QED
  BY <1>1, <1>2, <1>3, <1>5, <1>6, <1>7, <1>8, <1>9, Zenon DEF Next

\* What the invariant says of grants.
LEMMA GrantInvMeans ==
    ASSUME GrantInv
    PROVE  DeletedGrantsStayDead /\ OneLiveTokenPerFamily /\ HonestClientKeepsGrant
<1>1. DeletedGrantsStayDead
  BY Zenon DEF GrantInv, FamilyInv, DeletedGrantsStayDead
<1>2. ASSUME NEW f \in Families PROVE Cardinality(LiveRows(f)) <= 1
  <2>1. \A s, t \in LiveRows(f) : s = t
    BY Zenon DEF GrantInv, OneLive, LiveRows, Rows
  <2>2. LiveRows(f) = {} \/ \E t : LiveRows(f) = {t}
    BY <2>1, Zenon
  <2>3. Cardinality(LiveRows(f)) = 0 \/ Cardinality(LiveRows(f)) = 1
    BY <2>2, FS_EmptySet, FS_Singleton, Zenon
  <2> QED
    BY <2>3
<1>3. HonestClientKeepsGrant
  <2> SUFFICES ASSUME NEW f \in Families, ~Parted(f)
               PROVE  \E t \in LiveRows(f) : t = held[f] \/ tok[t].parent = held[f]
    BY Zenon DEF HonestClientKeepsGrant, Parted, Ends
  <2>1. PICK t \in DOMAIN tok : /\ Live(t) /\ tok[t].family = f
                                /\ t = held[f] \/ tok[t].parent = held[f]
    BY Zenon DEF GrantInv, KeepInv, Families
  <2>2. t \in LiveRows(f)
    BY <2>1, Zenon DEF LiveRows, Rows, Live
  <2> QED
    BY <2>1, <2>2, Zenon
<1> QED
  BY <1>1, <1>2, <1>3, Zenon DEF OneLiveTokenPerFamily

\* No interleaving of sign-ins, redemptions, rotations, retries, revocations,
\* deletions, sweeps and restarts lets a grant outlive the deletion of its
\* account, leaves two live tokens in a family, or takes a client that behaves
\* for a thief: for any number of clients, sign-ins and requests, in both
\* dialects and both kinds of store.
THEOREM GrantsStaySound ==
    GrantAssumption /\ Spec =>
        [](DeletedGrantsStayDead /\ OneLiveTokenPerFamily /\ HonestClientKeepsGrant)
<1>1. CASE GrantAssumption
  <2>1. GrantInv /\ [Next]_vars => GrantInv'
    BY <1>1, NextKeepsGrants, Zenon
  <2>2. GrantInv => DeletedGrantsStayDead /\ OneLiveTokenPerFamily /\ HonestClientKeepsGrant
    BY GrantInvMeans, Zenon
  <2> QED
    BY <2>1, <2>2, InitGrants, PTL DEF Spec
<1> QED
  BY <1>1, Zenon
=============================================================================
