---------------------------- MODULE RecordProofs ----------------------------
(***************************************************************************)
(* Proofs about three records the service keeps: the forks of assistants   *)
(* (ForkRules), the digests that campaigns are made from (DigestCampaigns, *)
(* as D), and the audit log of tool calls (AuditChain).  The components    *)
(* share no state; each has a section, and the results come last.          *)
(***************************************************************************)
EXTENDS AuditChain, ForkRules, TLAPS

CONSTANTS Slots, Entries, Ids, MaxVersion, Feeds, MaxCampaigns, Budgets
VARIABLES slot, digests, owner, camps, asks, faults

D == INSTANCE DigestCampaigns

-----------------------------------------------------------------------------
(* Forks. *)

DefinitionType ==
    [intents : IntentLists, tools : SUBSET Tools, limit : Limits, ceiling : Limits,
     policy : {"required", "optional"}, floor : Levels, isFork : BOOLEAN,
     visibility : {"public", "private"}]

\* The latest fork is a definition that passed the check against its base,
\* and what runs was resolved from that fork by an accepted install.
ForkInv ==
    /\ base \in DefinitionType
    /\ fork # None =>
         /\ fork \in DefinitionType
         /\ ParseDefinition(fork)
         /\ ValidateFork(base, fork)
    /\ effect # None =>
         /\ fork # None
         /\ \E in \in Installs : Accepts(fork, in) /\ effect = Resolve(fork, in)

\* BuildFork makes a definition of a definition and an edit.
LEMMA BuildForkType ==
    ASSUME NEW from \in DefinitionType, NEW ov \in Overrides
    PROVE  BuildFork(from, ov) \in DefinitionType
<1>1. /\ Given(ov.intents, from.intents) \in IntentLists
      /\ Given(ov.tools, from.tools) \in SUBSET Tools
      /\ Given(ov.limit, from.limit) \in Limits
      /\ Given(ov.ceiling, from.ceiling) \in Limits
      /\ Given(ov.policy, from.policy) \in {"required", "optional"}
      BY Zenon DEF Given, DefinitionType, Overrides
<1>2. from.floor \in Levels
      BY Zenon DEF DefinitionType
<1> QED
      BY <1>1, <1>2, Zenon DEF BuildFork, DefinitionType

\* The catalog's definitions are definitions.
LEMMA InitFork == ForkInit => ForkInv
<1> SUFFICES ASSUME ForkInit PROVE ForkInv
    OBVIOUS
<1>1. base \in Definitions
      BY Zenon DEF ForkInit
<1>2. base.intents \in IntentLists
  <2>1. base.intents \in [BaseIntents -> Intent]
        BY <1>1, Zenon DEF Definitions
  <2> QED
      BY <2>1, BaseAssumption, Zenon DEF IntentLists
<1>3. base.tools \in SUBSET Tools
      BY <1>1, BaseAssumption, Zenon DEF Definitions
<1>4. base \in DefinitionType
      BY <1>1, <1>2, <1>3, Zenon DEF Definitions, DefinitionType
<1> QED
    BY <1>4, Zenon DEF ForkInit, ForkInv

\* Every edit and every install preserves the invariant.
LEMMA NextFork == ForkInv /\ [ForkNext]_forkVars => ForkInv'
<1> SUFFICES ASSUME ForkInv, [ForkNext]_forkVars PROVE ForkInv'
    OBVIOUS
<1>1. CASE Edit
  <2>1. PICK ov \in Edits :
           LET f == BuildFork(IF fork = None THEN base ELSE fork, ov) IN
           ParseDefinition(f) /\ ValidateFork(base, f) /\ fork' = f
        BY <1>1, Zenon DEF Edit
  <2> DEFINE from == IF fork = None THEN base ELSE fork
  <2>2. from \in DefinitionType
        BY Zenon DEF ForkInv
  <2>3. ov \in Overrides
        BY EditsAssumption, Zenon
  <2>4. BuildFork(from, ov) \in DefinitionType
        BY <2>2, <2>3, BuildForkType, Zenon
  <2>5. /\ fork' \in DefinitionType
        /\ ParseDefinition(fork')
        /\ ValidateFork(base, fork')
        BY <2>1, <2>4, Zenon
  <2>6. base' = base /\ effect' = effect /\ effect = None
        BY <1>1, Zenon DEF Edit
  <2> QED
      BY <2>5, <2>6, Zenon DEF ForkInv
<1>2. CASE InstallFork
  <2>1. base' = base /\ fork' = fork /\ fork # None
        BY <1>2, Zenon DEF InstallFork
  <2>2. \E in \in Installs : Accepts(fork, in) /\ effect' = Resolve(fork, in)
        BY <1>2, Zenon DEF InstallFork
  <2> QED
      BY <2>1, <2>2, Zenon DEF ForkInv
<1>3. CASE UNCHANGED forkVars
      BY <1>3, Zenon DEF forkVars, ForkInv
<1> QED
    BY <1>1, <1>2, <1>3, Zenon DEF ForkNext

\* A tier the fork's own intent allows an install is one the base allows.
LEMMA TierNarrows ==
    ASSUME NEW b \in Intent, NEW f \in Intent, NEW tier \in Tiers,
           TierRank[f.tier] >= TierRank[b.tier],
           OverrideRank[f.userOverride] >= OverrideRank[b.userOverride],
           TierAllowed(f, tier)
    PROVE  /\ tier = "auto" => TierAllowed(b, "auto")
           /\ (b.tier = "never" /\ b.userOverride # "any") => tier = "never"
BY DEF Intent, Tiers, Modes, TierRank, OverrideRank, TierAllowed

\* What runs is within the base.
LEMMA InvNarrow == ForkInv => ForkNeverWidens
<1> SUFFICES ASSUME ForkInv, effect # None
             PROVE  ForkNeverWidens
    BY Zenon DEF ForkNeverWidens
<1>1. /\ base \in DefinitionType /\ fork \in DefinitionType
      /\ ParseDefinition(fork) /\ ValidateFork(base, fork)
      BY Zenon DEF ForkInv
<1>2. PICK in \in Installs : Accepts(fork, in) /\ effect = Resolve(fork, in)
      BY Zenon DEF ForkInv
<1> DEFINE tier(n) == IF n \in DOMAIN in.tiers THEN in.tiers[n] ELSE fork.intents[n].tier
<1>3. /\ base.intents \in [DOMAIN base.intents -> Intent]
      /\ fork.intents \in [DOMAIN fork.intents -> Intent]
      BY <1>1, Zenon DEF DefinitionType, IntentLists
<1>4. ASSUME NEW n \in DOMAIN fork.intents
      PROVE  tier(n) \in Tiers /\ TierAllowed(fork.intents[n], tier(n))
  <2>1. CASE n \in DOMAIN in.tiers
    <3>1. TierAllowed(fork.intents[n], in.tiers[n])
          BY <1>2, <2>1, Zenon DEF Accepts, intentTiers
    <3>2. in.tiers[n] \in Tiers
          BY <2>1 DEF Installs
    <3> QED
        BY <2>1, <3>1, <3>2, Zenon
  <2>2. CASE n \notin DOMAIN in.tiers
        BY <1>3, <2>2, Zenon DEF TierAllowed, Intent
  <2> QED
      BY <2>1, <2>2, Zenon
<1>5. /\ effect.allow = {n \in DOMAIN fork.intents : tier(n) = "auto"}
      /\ effect.never = {n \in DOMAIN fork.intents : tier(n) = "never"}
      /\ effect.tools = fork.tools
      /\ effect.limit = IF in.limit = None THEN fork.limit ELSE in.limit
      /\ effect.disclosed = (in.enabled # FALSE)
      /\ effect.level = IF in.level = None THEN fork.floor ELSE in.level
      BY <1>2, Zenon DEF Resolve
<1>6. ASSUME NEW n \in DOMAIN fork.intents, n \in DOMAIN base.intents
      PROVE  /\ tier(n) = "auto" => TierAllowed(base.intents[n], "auto")
             /\ (base.intents[n].tier = "never" /\ base.intents[n].userOverride # "any")
                   => tier(n) = "never"
  <2>1. /\ TierRank[fork.intents[n].tier] >= TierRank[base.intents[n].tier]
        /\ OverrideRank[fork.intents[n].userOverride]
              >= OverrideRank[base.intents[n].userOverride]
        BY <1>1, <1>6, Zenon DEF ValidateFork, IntentsNarrow
  <2>2. base.intents[n] \in Intent /\ fork.intents[n] \in Intent
        BY <1>3, <1>6, Zenon
  <2> QED
      BY <2>1, <2>2, <1>4, TierNarrows, Zenon
<1>7. ASSUME NEW n \in effect.allow
      PROVE  BaseMayAllow(n)
  <2>1. n \in DOMAIN fork.intents /\ tier(n) = "auto"
        BY <1>5, Zenon
  <2>2. CASE n \in DOMAIN base.intents
        BY <2>1, <2>2, <1>6, Zenon DEF BaseMayAllow
  <2>3. CASE n \notin DOMAIN base.intents
    <3>1. fork.intents[n].tier # "auto" /\ fork.intents[n].userOverride # "any"
          BY <1>1, <2>1, <2>3, Zenon DEF ValidateFork, IntentsNarrow
    <3>2. fork.intents[n] \in Intent
          BY <1>3, <2>1, Zenon
    <3>3. TierAllowed(fork.intents[n], "auto")
          BY <1>4, <2>1, Zenon
    <3> QED
        BY <3>1, <3>2, <3>3 DEF TierAllowed, TierRank, Intent, Tiers
  <2> QED
      BY <2>2, <2>3, Zenon
<1>8. ASSUME NEW n \in Intents, BaseMustNever(n)
      PROVE  n \in effect.never
  <2>1. n \in DOMAIN fork.intents /\ n \in DOMAIN base.intents
        BY <1>1, <1>8, Zenon DEF BaseMustNever, ValidateFork, IntentsNarrow
  <2> QED
      BY <2>1, <1>5, <1>6, <1>8, Zenon DEF BaseMustNever
<1>9. effect.tools \subseteq base.tools
      BY <1>1, <1>5, Zenon DEF ValidateFork
<1>10. withinCeilings(effect.limit, base.ceiling)
  <2>1. fork.limit \in Int /\ fork.ceiling \in Int /\ base.ceiling \in Int
        BY <1>1, BaseAssumption DEF DefinitionType, Limits
  <2>2. in.limit # None => in.limit \in Int /\ in.limit <= fork.ceiling
    <3>1. in.limit \in Limits \cup {None}
          BY Zenon DEF Installs
    <3> QED
        BY <3>1, <1>2, BaseAssumption DEF Accepts, withinCeilings, Limits
  <2>3. fork.ceiling <= base.ceiling /\ fork.limit <= base.ceiling
        BY <1>1, Zenon DEF ValidateFork, withinCeilings
  <2> QED
      BY <2>1, <2>2, <2>3, <1>5 DEF withinCeilings
<1>11. ~ effect.disclosed => base.policy # "required"
  <2>1. ~ effect.disclosed => fork.policy # "required"
        BY <1>2, <1>5, Zenon DEF Accepts
  <2> QED
      BY <2>1, <1>1, Zenon DEF ValidateFork
<1>12. effect.level >= base.floor
  <2>1. fork.floor \in Int /\ base.floor \in Int /\ fork.floor >= base.floor
        BY <1>1 DEF DefinitionType, Levels, ValidateFork
  <2>2. in.level # None => in.level \in Int /\ in.level >= fork.floor
    <3>1. in.level \in Levels \cup {None}
          BY Zenon DEF Installs
    <3> QED
        BY <3>1, <1>2 DEF Accepts, ownerProfile, Levels
  <2> QED
      BY <2>1, <2>2, <1>5
<1> QED
    BY <1>7, <1>8, <1>9, <1>10, <1>11, <1>12, Zenon DEF ForkNeverWidens

-----------------------------------------------------------------------------
(* Digests. *)

\* Feeds list entries, and no digest is called "none".
DigestAssumption == D!None \notin Ids /\ Feeds \subseteq SUBSET Entries

DigestType == [id : Ids, version : Nat, body : SUBSET Entries]
WantType == [id : Ids \cup {D!None}, version : Nat, body : SUBSET Entries]
SlotType == [pc : {"free", "guards", "freeze", "persist", "prepare", "discard"},
             want : WantType, feed : SUBSET Entries, stored : BOOLEAN]
CampaignType == [source : WantType, active : BOOLEAN]

\* Requests want a digest, and campaigns are what was made.
RequestInv ==
    /\ slot \in [Slots -> SlotType]
    /\ \A s \in Slots : slot[s].pc # "free" => slot[s].want.id \in Ids

\* The entries of a stored digest belong to its id, and no other entry belongs
\* to anyone.
OwnerInv ==
    /\ digests \subseteq DigestType
    /\ owner \in [Entries -> Ids \cup {D!None}]
    /\ \A d \in digests : \A e \in d.body : owner[e] = d.id
    /\ \A e \in Entries : owner[e] # D!None => \E d \in digests : d.id = owner[e] /\ e \in d.body

\* A campaign's digest is stored, and of the campaigns under way at most one has
\* a digest.
CampaignInv ==
    /\ camps \in Seq(CampaignType)
    /\ D!SourceIsKept
    /\ \A i, k \in D!ActiveBroadcastCampaign :
          camps[i].source # D!NoDigest /\ camps[k].source # D!NoDigest => i = k

DigestInv == RequestInv /\ OwnerInv /\ CampaignInv

\* A free slot and the digest of no campaign have their types.
LEMMA FreeType == D!Free \in SlotType /\ D!Free.pc = "free" /\ D!NoDigest \in WantType
  BY Zenon DEF D!Free, SlotType, WantType, D!NoDigest, D!Digest

\* A request moves on with the digest it wants, with its body perhaps, or ends.
LEMMA RequestMoves ==
    ASSUME RequestInv, NEW s \in Slots, NEW v \in SlotType, v.pc # "free" => v.want.id \in Ids,
           slot' = [slot EXCEPT ![s] = v]
    PROVE  RequestInv'
  BY Zenon DEF RequestInv

\* A new request takes a free slot.
LEMMA HandleKeeps ==
    ASSUME DigestAssumption, DigestInv, NEW s \in Slots, NEW id \in Ids, NEW n \in 1..MaxVersion,
           NEW f \in Feeds, D!HandlePrepareDigest(s, id, n, f)
    PROVE  DigestInv'
<1> DEFINE v == [D!Free EXCEPT !.pc = "guards", !.want = D!Digest(id, n, {}), !.feed = f]
<1>1. v \in SlotType /\ v.want.id \in Ids
  <2>1. n \in Nat /\ f \in SUBSET Entries
    BY DEF DigestAssumption
  <2>2. D!Digest(id, n, {}) \in WantType /\ D!Digest(id, n, {}).id \in Ids
    BY <2>1, Zenon DEF WantType, D!Digest
  <2> HIDE DEF D!Digest
  <2> QED
    BY <2>1, <2>2, FreeType, Zenon DEF D!Free, SlotType
<1>2. slot' = [slot EXCEPT ![s] = v] /\ UNCHANGED <<digests, owner, camps>>
  BY Zenon DEF D!HandlePrepareDigest
<1> HIDE DEF v
<1>3. RequestInv'
  BY <1>1, <1>2, RequestMoves, Zenon DEF DigestInv
<1> QED
  BY <1>2, <1>3, Zenon DEF DigestInv, OwnerInv, CampaignInv, D!SourceIsKept, D!ActiveBroadcastCampaign

\* Steps that only move their request.
LEMMA AnsweredKeeps ==
    ASSUME RequestInv, NEW s \in Slots, D!Answered(s)
    PROVE  RequestInv'
  BY FreeType, RequestMoves, Zenon DEF D!Answered

\* Rows that stay, and the owners with them.
LEMMA StoreKept ==
    ASSUME OwnerInv, CampaignInv, UNCHANGED <<digests, owner, camps>>
    PROVE  OwnerInv' /\ CampaignInv'
  BY Zenon DEF OwnerInv, CampaignInv, D!SourceIsKept, D!ActiveBroadcastCampaign

\* The fields of a request.
LEMMA SlotFields ==
    ASSUME RequestInv, NEW s \in Slots
    PROVE  /\ slot[s] \in SlotType
           /\ slot[s].want \in WantType /\ slot[s].feed \in SUBSET Entries
           /\ slot[s].pc # "free" => slot[s].want \in DigestType
<1>1. slot[s] \in SlotType /\ slot[s].want \in WantType /\ slot[s].feed \in SUBSET Entries
  BY Zenon DEF RequestInv, SlotType
<1>2. slot[s].pc # "free" => slot[s].want \in DigestType
  BY <1>1, Zenon DEF RequestInv, WantType, DigestType
<1> QED
  BY <1>1, <1>2, Zenon

\* The guards read, and move their request on or end it.
LEMMA GuardsKeeps ==
    ASSUME DigestInv, NEW s \in Slots, D!Guards(s)
    PROVE  DigestInv'
<1>1. RequestInv'
  <2>1. CASE D!Answered(s)
    BY <2>1, AnsweredKeeps, Zenon DEF DigestInv
  <2>2. CASE slot' = [slot EXCEPT ![s].pc = "freeze"]
    <3> DEFINE v == [slot[s] EXCEPT !.pc = "freeze"]
    <3>1. v \in SlotType /\ v.want.id \in Ids
      BY SlotFields, Zenon DEF DigestInv, D!Guards, SlotType, DigestType
    <3>2. slot' = [slot EXCEPT ![s] = v]
      BY <2>2, Zenon
    <3> HIDE DEF v
    <3> QED
      BY <3>1, <3>2, RequestMoves, Zenon DEF DigestInv
  <2> QED
    BY <2>1, <2>2, Zenon DEF D!Guards
<1> QED
  BY <1>1, StoreKept, Zenon DEF D!Guards, DigestInv

\* Freezing a digest gives the request a body of its feed.
LEMMA NextDigestKeeps ==
    ASSUME DigestInv, NEW s \in Slots, D!NextDigest(s)
    PROVE  DigestInv'
<1> DEFINE d == slot[s].want
           body == D!DigestCandidates(slot[s].feed, D!PublishedProductUpdateEntries(d.id))
           v == [slot[s] EXCEPT !.pc = "persist", !.want = D!Digest(d.id, d.version, body), !.feed = {}]
<1>1. slot[s] \in SlotType /\ d \in DigestType /\ body \in SUBSET Entries
  BY SlotFields, Zenon DEF DigestInv, D!NextDigest, D!DigestCandidates
<1>2. D!Answered(s) \/ slot' = [slot EXCEPT ![s] = v]
  BY <1>1, Zenon DEF D!NextDigest, SlotType
<1>3. v \in SlotType /\ v.want.id \in Ids
  <2>1. D!Digest(d.id, d.version, body) \in WantType /\ D!Digest(d.id, d.version, body).id \in Ids
    BY <1>1, Zenon DEF D!Digest, WantType, DigestType
  <2> HIDE DEF body, d
  <2> QED
    BY <1>1, <2>1, Zenon DEF SlotType
<1> HIDE DEF v
<1>4. RequestInv'
  BY <1>2, <1>3, AnsweredKeeps, RequestMoves, Zenon DEF DigestInv
<1> QED
  BY <1>4, StoreKept, Zenon DEF D!NextDigest, DigestInv

\* A new digest: its entries were nobody's or its id's own.
LEMMA StoredOwners ==
    ASSUME DigestAssumption, OwnerInv, NEW d \in DigestType, D!Taken(d) = {},
           digests' = digests \cup {d},
           owner' = [e \in Entries |-> IF e \in d.body THEN d.id ELSE owner[e]]
    PROVE  OwnerInv'
<1>0. d.id \in Ids /\ d.body \in SUBSET Entries
  BY Zenon DEF DigestType
<1>1. \A e \in d.body : owner[e] \in {D!None, d.id}
  BY Zenon DEF D!Taken
<1>2. digests' \subseteq DigestType /\ owner' \in [Entries -> Ids \cup {D!None}]
  BY <1>0, Zenon DEF OwnerInv
<1>3. ASSUME NEW x \in digests', NEW e \in x.body PROVE owner'[e] = x.id
  <2>1. CASE x \in digests
    <3>1. owner[e] = x.id /\ x.id \in Ids /\ e \in Entries
      BY <2>1, <1>3, Zenon DEF OwnerInv, DigestType
    <3> QED
      BY <1>1, <3>1, Zenon DEF DigestAssumption
  <2>2. CASE x = d
    BY <1>0, <1>3, <2>2, Zenon
  <2> QED
    BY <2>1, <2>2, Zenon
<1>4. ASSUME NEW e \in Entries, owner'[e] # D!None
      PROVE  \E x \in digests' : x.id = owner'[e] /\ e \in x.body
  <2>1. CASE e \in d.body
    BY <2>1, Zenon
  <2>2. CASE e \notin d.body
    BY <1>4, <2>2, Zenon DEF OwnerInv
  <2> QED
    BY <2>1, <2>2, Zenon
<1> QED
  BY <1>2, <1>3, <1>4, Zenon DEF OwnerInv

\* Storing a digest, whether its answer arrives or is lost.
LEMMA SaveKeeps ==
    ASSUME DigestAssumption, DigestInv, NEW s \in Slots, D!SaveProductUpdateDigest(s)
    PROVE  DigestInv'
<1> DEFINE d == slot[s].want
           new == D!Stored(d.id, d.version) = {} /\ D!Taken(d) = {}
<1>1. slot[s] \in SlotType /\ d \in DigestType
  BY SlotFields, Zenon DEF DigestInv, D!SaveProductUpdateDigest
<1>2. /\ digests' = IF new THEN digests \cup {d} ELSE digests
      /\ owner' = IF new THEN [e \in Entries |-> IF e \in d.body THEN d.id ELSE owner[e]] ELSE owner
      /\ camps' = camps
  BY Zenon DEF D!SaveProductUpdateDigest
<1>3. D!Answered(s) \/ \E b \in BOOLEAN : slot' = [slot EXCEPT ![s] = [slot[s] EXCEPT !.pc = "prepare", !.stored = b]]
  BY Zenon DEF D!SaveProductUpdateDigest, D!Answered
<1>4. RequestInv'
  <2>1. ASSUME NEW b \in BOOLEAN PROVE [slot[s] EXCEPT !.pc = "prepare", !.stored = b] \in SlotType
                                       /\ [slot[s] EXCEPT !.pc = "prepare", !.stored = b].want = d
    BY <1>1, Zenon DEF SlotType
  <2>2. d.id \in Ids
    BY <1>1, Zenon DEF DigestType
  <2> QED
    BY <1>3, <2>1, <2>2, AnsweredKeeps, RequestMoves, Zenon DEF DigestInv
<1>5. OwnerInv'
  <2>1. CASE new
    BY <1>1, <1>2, <2>1, StoredOwners, Zenon DEF DigestInv
  <2>2. CASE ~new
    BY <1>2, <2>2, Zenon DEF DigestInv, OwnerInv
  <2> QED
    BY <2>1, <2>2, Zenon
<1>6. CampaignInv'
  BY <1>2, Zenon DEF DigestInv, CampaignInv, D!SourceIsKept, D!ActiveBroadcastCampaign
<1> QED
  BY <1>4, <1>5, <1>6, Zenon DEF DigestInv

\* A campaign is appended: one with a digest needs that none is under way.
LEMMA Appended ==
    ASSUME CampaignInv, NEW src \in WantType, digests' = digests,
           camps' = Append(camps, D!Campaign(src)),
           src # D!NoDigest => src \in digests /\ D!ActiveBroadcastCampaign = {}
    PROVE  CampaignInv'
<1> DEFINE c == D!Campaign(src)
           n == Len(camps)
<1>1. c \in CampaignType /\ c.source = src
  BY Zenon DEF D!Campaign, CampaignType
<1>2. camps \in Seq(CampaignType) /\ n \in Nat
  BY DEF CampaignInv
<1> HIDE DEF c, n
<1>3. camps' = Append(camps, c) /\ DOMAIN camps = 1..n
  BY <1>2 DEF c, n
<1>4. /\ camps' \in Seq(CampaignType) /\ DOMAIN camps' = 1..(n + 1)
      /\ camps'[n + 1] = c /\ \A i \in 1..n : camps'[i] = camps[i]
  BY <1>1, <1>2, <1>3 DEF n
<1>5. D!SourceIsKept'
  BY <1>1, <1>2, <1>3, <1>4 DEF CampaignInv, D!SourceIsKept
<1>6. ASSUME NEW i \in 1..(n + 1), NEW k \in 1..(n + 1), camps'[i].active, camps'[k].active,
             camps'[i].source # D!NoDigest, camps'[k].source # D!NoDigest
      PROVE  i = k
  <2>1. CASE i \in 1..n /\ k \in 1..n
    BY <1>3, <1>4, <1>6, <2>1, Zenon DEF CampaignInv, D!ActiveBroadcastCampaign
  <2>2. ASSUME NEW j \in 1..n, camps'[j].active, src # D!NoDigest PROVE FALSE
    BY <1>3, <1>4, <2>2, Zenon DEF D!ActiveBroadcastCampaign
  <2>3. CASE i = n + 1 \/ k = n + 1
    <3>1. src # D!NoDigest
      BY <1>1, <1>4, <1>6, <2>3, Zenon
    <3>2. i \notin 1..n /\ k \notin 1..n
      BY <1>6, <2>2, <3>1, Zenon
    <3> QED
      BY <1>2, <3>2
  <2> QED
    BY <1>2, <2>1, <2>3
<1> QED
  BY <1>4, <1>5, <1>6, Zenon DEF CampaignInv, D!ActiveBroadcastCampaign

\* Creating a campaign from a stored digest, or being refused.
LEMMA CreateKeeps ==
    ASSUME DigestInv, NEW s \in Slots, D!CreateBroadcastCampaign(s)
    PROVE  DigestInv'
<1> DEFINE d == slot[s].want
<1>1. slot[s] \in SlotType /\ d \in DigestType /\ d \in WantType
  BY SlotFields, Zenon DEF DigestInv, D!CreateBroadcastCampaign
<1>2. OwnerInv'
  BY Zenon DEF DigestInv, OwnerInv, D!CreateBroadcastCampaign
<1>3. RequestInv'
  <2> DEFINE v == [slot[s] EXCEPT !.pc = "discard"]
  <2>1. v \in SlotType /\ v.want = d /\ d.id \in Ids
    BY <1>1, Zenon DEF SlotType, DigestType
  <2>2. D!Answered(s) \/ slot' = [slot EXCEPT ![s] = v]
    BY Zenon DEF D!CreateBroadcastCampaign, D!Answered
  <2> HIDE DEF v
  <2> QED
    BY <2>1, <2>2, AnsweredKeeps, RequestMoves, Zenon DEF DigestInv
<1>4. CampaignInv'
  <2>1. CASE camps' = camps
    BY <2>1, Zenon DEF DigestInv, CampaignInv, D!SourceIsKept, D!ActiveBroadcastCampaign, D!CreateBroadcastCampaign
  <2>2. CASE D!MayCreate(d) /\ camps' = Append(camps, D!Campaign(d))
    BY <1>1, <2>2, Appended, Zenon DEF DigestInv, D!MayCreate, D!CreateBroadcastCampaign
  <2> QED
    BY <2>1, <2>2, Zenon DEF D!CreateBroadcastCampaign
<1> QED
  BY <1>2, <1>3, <1>4, Zenon DEF DigestInv

\* A digest goes, and with it what only it carried.
LEMMA DiscardedOwners ==
    ASSUME DigestAssumption, OwnerInv, NEW d \in digests,
           digests' = digests \ {d},
           owner' = [e \in Entries |-> IF owner[e] = d.id /\ e \notin D!OwnersLeft(d, digests \ {d})
                                       THEN D!None ELSE owner[e]]
    PROVE  OwnerInv'
<1>1. digests' \subseteq DigestType /\ owner' \in [Entries -> Ids \cup {D!None}]
  BY Zenon DEF OwnerInv
<1>2. ASSUME NEW x \in digests', NEW e \in x.body PROVE owner'[e] = x.id
  <2>1. x \in digests \ {d} /\ owner[e] = x.id /\ e \in Entries
    BY <1>2, Zenon DEF OwnerInv, DigestType
  <2>2. x.id = d.id => e \in D!OwnersLeft(d, digests \ {d})
    BY <1>2, <2>1, Zenon DEF D!OwnersLeft
  <2> QED
    BY <2>1, <2>2, Zenon
<1>3. ASSUME NEW e \in Entries, owner'[e] # D!None
      PROVE  \E x \in digests' : x.id = owner'[e] /\ e \in x.body
  <2>1. owner'[e] = owner[e] /\ (owner[e] = d.id => e \in D!OwnersLeft(d, digests \ {d}))
    BY <1>3, Zenon
  <2>2. CASE owner[e] = d.id
    BY <2>1, <2>2, Zenon DEF D!OwnersLeft
  <2>3. CASE owner[e] # d.id
    BY <1>3, <2>1, <2>3, Zenon DEF OwnerInv
  <2> QED
    BY <2>2, <2>3, Zenon
<1> QED
  BY <1>1, <1>2, <1>3, Zenon DEF OwnerInv

\* Only a digest that no campaign uses is discarded.
LEMMA DiscardKeeps ==
    ASSUME DigestAssumption, DigestInv, NEW s \in Slots, D!DiscardUnusedProductUpdateDigest(s)
    PROVE  DigestInv'
<1> DEFINE d == slot[s].want
           gone == D!sameAs(d) /\ D!Unused(d)
<1>1. /\ digests' = IF gone THEN digests \ {d} ELSE digests
      /\ owner' = IF gone THEN [e \in Entries |-> IF owner[e] = d.id /\ e \notin D!OwnersLeft(d, digests \ {d})
                                                  THEN D!None ELSE owner[e]]
                  ELSE owner
      /\ D!Answered(s) /\ camps' = camps
  BY Zenon DEF D!DiscardUnusedProductUpdateDigest
<1>2. gone => d \in digests
  BY Zenon DEF D!sameAs, D!Stored
<1> HIDE DEF d
<1>3. OwnerInv'
  <2>1. CASE gone
    BY <1>1, <1>2, <2>1, DiscardedOwners, Zenon DEF DigestInv
  <2>2. CASE ~gone
    BY <1>1, <2>2, Zenon DEF DigestInv, OwnerInv
  <2> QED
    BY <2>1, <2>2, Zenon
<1>4. CampaignInv'
  <2>1. D!SourceIsKept'
    BY <1>1, Zenon DEF DigestInv, CampaignInv, D!SourceIsKept, D!Unused
  <2> QED
    BY <1>1, <2>1, Zenon DEF DigestInv, CampaignInv, D!ActiveBroadcastCampaign
<1>5. RequestInv'
  BY <1>1, AnsweredKeeps, Zenon DEF DigestInv
<1> QED
  BY <1>3, <1>4, <1>5, Zenon DEF DigestInv

\* A campaign that ends keeps its digest.
LEMMA EndsKeeps ==
    ASSUME DigestInv, NEW i \in DOMAIN camps, D!Ends(i)
    PROVE  DigestInv'
<1>1. camps \in Seq(CampaignType) /\ camps[i] \in CampaignType
  BY DEF DigestInv, CampaignInv
<1> DEFINE c == [camps[i] EXCEPT !.active = FALSE]
<1>2. c \in CampaignType /\ c.source = camps[i].source /\ ~c.active
  BY <1>1, Zenon DEF CampaignType
<1>3. camps' = [camps EXCEPT ![i] = c] /\ UNCHANGED <<slot, digests, owner>>
  BY Zenon DEF D!Ends
<1> HIDE DEF c
<1>4. /\ camps' \in Seq(CampaignType) /\ DOMAIN camps' = DOMAIN camps
      /\ \A k \in DOMAIN camps : camps'[k].source = camps[k].source
      /\ \A k \in DOMAIN camps : camps'[k].active => camps[k].active
  <2>1. camps' \in Seq(CampaignType) /\ DOMAIN camps' = DOMAIN camps
    BY <1>1, <1>2, <1>3
  <2>2. \A k \in DOMAIN camps : camps'[k] = IF k = i THEN c ELSE camps[k]
    BY <1>3, Zenon
  <2> QED
    BY <1>2, <2>1, <2>2, Zenon
<1>5. CampaignInv'
  BY <1>3, <1>4 DEF DigestInv, CampaignInv, D!SourceIsKept, D!ActiveBroadcastCampaign
<1> QED
  BY <1>3, <1>5, Zenon DEF DigestInv, RequestInv, OwnerInv

\* Nothing is stored at first.
LEMMA InitDigest == D!Init => DigestInv
<1> SUFFICES ASSUME D!Init PROVE DigestInv
  OBVIOUS
<1>1. RequestInv
  BY FreeType, Zenon DEF D!Init, RequestInv
<1>2. OwnerInv
  BY Zenon DEF D!Init, OwnerInv
<1>3. CampaignInv
  BY DEF D!Init, CampaignInv, D!SourceIsKept, D!ActiveBroadcastCampaign
<1> QED
  BY <1>1, <1>2, <1>3, Zenon DEF DigestInv

\* Every step preserves the invariant of digests.
LEMMA NextKeepsDigests == DigestAssumption /\ DigestInv /\ [D!Next]_(D!vars) => DigestInv'
<1> SUFFICES ASSUME DigestAssumption, DigestInv, [D!Next]_(D!vars) PROVE DigestInv'
  OBVIOUS
<1>1. ASSUME NEW s \in Slots, D!Crash(s) PROVE DigestInv'
  BY <1>1, AnsweredKeeps, StoreKept, Zenon DEF D!Crash, DigestInv
<1>2. CASE D!PrepareManual
  <2>1. CampaignInv'
    BY <1>2, FreeType, Appended, Zenon DEF D!PrepareManual, DigestInv
  <2> QED
    BY <1>2, <2>1, Zenon DEF D!PrepareManual, DigestInv, RequestInv, OwnerInv
<1>3. CASE UNCHANGED D!vars
  BY <1>3, StoreKept, Zenon DEF D!vars, DigestInv, RequestInv
<1> QED
  BY <1>1, <1>2, <1>3, HandleKeeps, GuardsKeeps, NextDigestKeeps, SaveKeeps, CreateKeeps,
     DiscardKeeps, EndsKeeps, Zenon
     DEF D!Next

-----------------------------------------------------------------------------
(* The audit log. *)

Stages == {"idle", "begin", "select", "insert", "commit", "written", "lost"}
Entry == [tool : Calls \cup {Edited}, at : Nat]
CallType == [pc : Stages, at : Nat, prev : Seq(Entry), id : Nat]
RowType == [id : Nat, chained : BOOLEAN, tool : Calls \cup {Edited}, at : Nat,
            prev : Seq(Entry), hash : Seq(Entry)]

AuditType ==
    /\ clock \in Nat
    /\ call \in [Calls -> CallType]
    /\ log \subseteq RowType
    /\ lastId \in Nat
    /\ tampered \subseteq Nat

Written == {c \in Calls : call[c].pc = "written"}

\* The entry_hash of the row a call wrote.
HashOf(c) == hashAuditEntry(call[c].prev, c, call[c].at)

\* An id that no open transaction was given.
Settled(i) == i <= lastId /\ \A c \in Calls : call[c].pc = "commit" => i < lastId

\* One transaction at a time, and each id is given once.
IdsInv ==
    /\ \A c, d \in InTransaction : c = d
    /\ \A c \in Calls : call[c].pc = "commit" => call[c].id = lastId /\ lastId > 0
    /\ \A c \in Written : Settled(call[c].id) /\ call[c].id > 0
    /\ \A c, d \in Written : call[c].id = call[d].id => c = d
    /\ \A r \in log : Settled(r.id)
    /\ \A i \in tampered : Settled(i)

\* A set of rows has a newest and an oldest one.
Ordered ==
    \A rows \in SUBSET log : rows # {} =>
        /\ \E r \in rows : \A s \in rows : s.id <= r.id
        /\ \E r \in rows : \A s \in rows : r.id <= s.id

\* The row r is what call c wrote, but for its tool when a hand changed it.
WrittenBy(r, c) ==
    /\ r.id = call[c].id
    /\ r.at = call[c].at
    /\ r.prev = call[c].prev
    /\ r.hash = HashOf(c)
    /\ r.tool = c \/ (r.tool = Edited /\ r.id \in tampered)

RowsInv ==
    /\ \A r, s \in log : r.id = s.id => r = s
    /\ \A r \in log : ~r.chained => r = Legacy
    /\ \A r \in Chained : \E c \in Written : WrittenBy(r, c)

\* What an open transaction read is still the newest row's hash.
PendingInv ==
    \A c \in Calls : call[c].pc \in {"insert", "commit"} =>
        call[c].prev = IF Chained = {} THEN Zero ELSE Newest(Chained).hash

\* A row chains to the row of call d: no row that is kept lies between.
LinksTo(r, d) ==
    /\ r.prev = HashOf(d)
    /\ call[d].id < r.id
    /\ \A s \in Chained : ~(call[d].id < s.id /\ s.id < r.id)

ChainInv ==
    \A r \in Chained :
        \/ r.prev = Zero /\ \A s \in Chained : r.id <= s.id
        \/ \E d \in Written : LinksTo(r, d)

\* The row that r chains to is gone.
Broken(r) == r.prev # Zero /\ \A s \in log : s.hash # r.prev

TamperInv ==
    \A r \in log : r.id \in tampered => r.chained /\ (r.tool = Edited \/ Broken(r))

\* What nobody removed is there.
KeptInv ==
    tampered = {} /\ ~swept =>
        /\ \A c \in Written : \E r \in Chained : WrittenBy(r, c)
        /\ Cardinality(Chained) = Cardinality(Written)

FiniteInv == IsFiniteSet(Chained) /\ IsFiniteSet(Written)

AuditInv ==
    /\ AuditType /\ IdsInv /\ Ordered /\ RowsInv /\ PendingInv /\ ChainInv
    /\ TamperInv /\ KeptInv /\ FiniteInv
-----------------------------------------------------------------------------
\* The last element of a sequence is the one appended to it.
LEMMA AppendLast ==
    ASSUME NEW S, NEW p \in Seq(S), NEW q \in Seq(S), NEW a \in S, NEW b \in S,
           Append(p, a) = Append(q, b)
    PROVE  a = b
<1>1. Len(Append(p, a)) = Len(p) + 1 /\ Len(Append(q, b)) = Len(q) + 1
      OBVIOUS
<1>2. Append(p, a)[Len(p) + 1] = a /\ Append(q, b)[Len(q) + 1] = b
      OBVIOUS
<1>3. Len(p) = Len(q)
      BY <1>1
<1> QED
    BY <1>2, <1>3, Zenon

\* The hash of a row is never the zero hash.
LEMMA HashType ==
    ASSUME NEW p \in Seq(Entry), NEW c \in Calls \cup {Edited}, NEW s \in Nat
    PROVE  hashAuditEntry(p, c, s) \in Seq(Entry) /\ hashAuditEntry(p, c, s) # Zero
<1> DEFINE a == [tool |-> c, at |-> s]
<1>1. a \in Entry
      BY Zenon DEF Entry
<1> HIDE DEF a
<1>2. Append(p, a) \in Seq(Entry) /\ Len(Append(p, a)) = Len(p) + 1
      BY <1>1
<1>3. Len(Zero) = 0 /\ Len(p) \in Nat
      BY DEF Zero
<1>5. Append(p, a) # Zero
      BY <1>2, <1>3
<1>4. hashAuditEntry(p, c, s) = Append(p, a)
      BY Zenon DEF hashAuditEntry, a
<1> QED
    BY <1>2, <1>4, <1>5, Zenon

\* It tells what the row said when it was written.
LEMMA HashTells ==
    ASSUME NEW p \in Seq(Entry), NEW c \in Calls \cup {Edited}, NEW s \in Nat,
           NEW q \in Seq(Entry), NEW d \in Calls \cup {Edited}, NEW t \in Nat,
           hashAuditEntry(p, c, s) = hashAuditEntry(q, d, t)
    PROVE  c = d
<1> DEFINE a == [tool |-> c, at |-> s]
           b == [tool |-> d, at |-> t]
<1>1. a \in Entry /\ b \in Entry
      BY Zenon DEF Entry
<1>2. Append(p, a) = Append(q, b)
      BY Zenon DEF hashAuditEntry
<1>3. a = b
  <2> HIDE DEF a, b
  <2> QED
      BY <1>1, <1>2, AppendLast, Zenon
<1>4. a.tool = c /\ b.tool = d
      OBVIOUS
<1> QED
    BY <1>3, <1>4, Zenon

\* The same of the rows that calls wrote.
LEMMA HashesDiffer ==
    ASSUME AuditType, NEW c \in Calls, NEW d \in Calls
    PROVE  /\ HashOf(c) \in Seq(Entry)
           /\ HashOf(c) # Zero
           /\ HashOf(c) = HashOf(d) => c = d
<1>1. /\ call[c].prev \in Seq(Entry) /\ call[d].prev \in Seq(Entry)
      /\ call[c].at \in Nat /\ call[d].at \in Nat
      BY Zenon DEF AuditType, CallType
<1>2. c \in Calls \cup {Edited} /\ d \in Calls \cup {Edited}
      OBVIOUS
<1>3. HashOf(c) \in Seq(Entry) /\ HashOf(c) # Zero
      BY <1>1, <1>2, HashType, Zenon DEF HashOf
<1>4. ASSUME HashOf(c) = HashOf(d) PROVE c = d
  <2>1. hashAuditEntry(call[c].prev, c, call[c].at) = hashAuditEntry(call[d].prev, d, call[d].at)
        BY <1>4, Zenon DEF HashOf
  <2> QED
      BY <1>1, <1>2, <2>1, HashTells, Zenon
<1> QED
    BY <1>3, <1>4, Zenon

\* What CHOOSE picks as the newest row.
LEMMA NewestIs ==
    ASSUME Ordered, NEW rows \in SUBSET log, rows # {}
    PROVE  Newest(rows) \in rows /\ \A s \in rows : s.id <= Newest(rows).id
  BY Zenon DEF Ordered, Newest

\* What CHOOSE picks as the oldest row.
LEMMA OldestIs ==
    ASSUME Ordered, NEW rows \in SUBSET log, rows # {}
    PROVE  Oldest(rows) \in rows /\ \A s \in rows : Oldest(rows).id <= s.id
  BY Zenon DEF Ordered, Oldest

\* What is before a row in the walk, as VerifyAuditChain compares it.
Expected(r) ==
    IF Before(r) = {} \/ ~Newest(Before(r)).chained THEN Zero ELSE Newest(Before(r)).hash

\* What it means for a row to be bad: its hash or its link does not recompute.
LEMMA BadMeans ==
    ASSUME NEW r
    PROVE  Bad(r) <=> r.prev # Expected(r) \/ r.hash # hashAuditEntry(r.prev, r.tool, r.at)
  BY Zenon DEF Bad, Expected

\* Rows have types and a writer.
LEMMA RowFacts ==
    ASSUME AuditInv, NEW r \in log
    PROVE  /\ r \in RowType
           /\ r.id \in Nat /\ r.chained \in BOOLEAN /\ r.prev \in Seq(Entry) /\ r.at \in Nat
           /\ r.tool \in Calls \cup {Edited}
           /\ ~r.chained => r.id = 0 /\ r.hash = Zero
           /\ r.chained => r.id > 0 /\ r.hash # Zero
<1>1. r \in RowType
      BY Zenon DEF AuditInv, AuditType
<1>2. /\ r.id \in Nat /\ r.chained \in BOOLEAN /\ r.prev \in Seq(Entry) /\ r.at \in Nat
      /\ r.tool \in Calls \cup {Edited}
      BY <1>1, Zenon DEF RowType
<1>3. ~r.chained => r.id = 0 /\ r.hash = Zero
      BY DEF AuditInv, RowsInv, Legacy
<1>4. ASSUME r.chained PROVE r.id > 0 /\ r.hash # Zero
  <2>1. PICK c \in Written : WrittenBy(r, c)
        BY <1>4, Zenon DEF AuditInv, RowsInv, Chained
  <2>2. c \in Calls /\ call[c].id > 0
        BY Zenon DEF AuditInv, IdsInv, Written
  <2>3. HashOf(c) # Zero
        BY <2>2, HashesDiffer, Zenon DEF AuditInv
  <2> QED
      BY <2>1, <2>2, <2>3, Zenon DEF WrittenBy
<1> QED
    BY <1>1, <1>2, <1>3, <1>4, Zenon

\* A row with the hash of call d is the row that d wrote.
LEMMA RowOfHash ==
    ASSUME AuditInv, NEW s \in log, NEW d \in Written, s.hash = HashOf(d)
    PROVE  s \in Chained /\ s.id = call[d].id
<1>1. d \in Calls /\ HashOf(d) # Zero
      BY HashesDiffer, Zenon DEF AuditInv, Written
<1>2. s \in Chained
      BY <1>1, RowFacts, Zenon DEF Chained
<1>3. PICK c \in Written : WrittenBy(s, c)
      BY <1>2, Zenon DEF AuditInv, RowsInv
<1>4. c = d
      BY <1>1, <1>3, HashesDiffer, Zenon DEF AuditInv, Written, WrittenBy
<1> QED
    BY <1>2, <1>3, <1>4, Zenon DEF WrittenBy

-----------------------------------------------------------------------------
\* A row that nobody touched recomputes to its hash.
LEMMA UntouchedRecomputes ==
    ASSUME AuditInv, NEW r \in Chained, r.id \notin tampered
    PROVE  r.hash = hashAuditEntry(r.prev, r.tool, r.at)
<1>1. PICK c \in Written : WrittenBy(r, c)
      BY Zenon DEF AuditInv, RowsInv
<1> QED
    BY <1>1, Zenon DEF WrittenBy, HashOf

\* A bad row that nobody touched links to a row that is gone.
LEMMA BadIsBroken ==
    ASSUME AuditInv, NEW r \in Chained, r.id \notin tampered, Bad(r)
    PROVE  Broken(r)
<1>1. r \in log /\ r.chained /\ r.id \in Nat
      BY RowFacts, Zenon DEF Chained
<1>2. r.prev # Expected(r)
      BY BadMeans, UntouchedRecomputes, Zenon
<1>3. Before(r) \in SUBSET log
      BY Zenon DEF Before
<1>4. Ordered
      BY Zenon DEF AuditInv
<1>5. ASSUME r.prev = Zero PROVE FALSE
  <2>1. \A s \in Chained : r.id <= s.id
        BY <1>5, HashesDiffer, Zenon DEF AuditInv, ChainInv, LinksTo, Written
  <2>2. ASSUME Before(r) # {} PROVE ~Newest(Before(r)).chained
    <3> DEFINE n == Newest(Before(r))
    <3>1. n \in log /\ n.id < r.id
          BY <1>3, <1>4, <2>2, NewestIs, Zenon DEF Before
    <3>2. n.id \in Nat
          BY <3>1, RowFacts, Zenon
    <3> HIDE DEF n
    <3>3. n \notin Chained
          BY <1>1, <2>1, <3>1, <3>2
    <3>4. ~n.chained
          BY <3>1, <3>3, Zenon DEF Chained
    <3> QED
        BY <3>4, Zenon DEF n
  <2> QED
      BY <1>2, <1>5, <2>2, Zenon DEF Expected
<1>6. ASSUME NEW s \in log, s.hash = r.prev, r.prev # Zero PROVE FALSE
  <2>1. PICK d \in Written : LinksTo(r, d)
        BY <1>6, Zenon DEF AuditInv, ChainInv
  <2>2. s \in Chained /\ s.id = call[d].id
        BY <1>6, <2>1, RowOfHash, Zenon DEF LinksTo
  <2>3. s.id \in Nat /\ s.id > 0 /\ s.id < r.id
        BY <2>1, <2>2, RowFacts, Zenon DEF LinksTo, Chained
  <2>4. s \in Before(r)
        BY <2>3, Zenon DEF Before
  <2> DEFINE n == Newest(Before(r))
  <2>5. n \in log /\ n.id < r.id /\ s.id <= n.id
        BY <1>3, <1>4, <2>4, NewestIs, Zenon DEF Before
  <2> HIDE DEF n
  <2>6. n.id \in Nat /\ n.chained
        BY <2>3, <2>5, RowFacts
  <2>7. ~(s.id < n.id)
        BY <2>1, <2>2, <2>5, <2>6, Zenon DEF LinksTo, Chained
  <2>8. n = s
        BY <2>3, <2>5, <2>6, <2>7 DEF AuditInv, RowsInv
  <2> QED
      BY <1>2, <1>6, <2>4, <2>6, <2>8, Zenon DEF Expected, n
<1> QED
    BY <1>5, <1>6, Zenon DEF Broken

\* A row that a hand disturbed is bad.
LEMMA TamperedIsBad ==
    ASSUME AuditInv, NEW r \in log, r.id \in tampered
    PROVE  r \in Chained /\ Bad(r)
<1>1. r.chained /\ (r.tool = Edited \/ Broken(r))
      BY Zenon DEF AuditInv, TamperInv
<1>2. r \in Chained
      BY <1>1, Zenon DEF Chained
<1>3. CASE r.tool = Edited
  <2>1. PICK c \in Written : WrittenBy(r, c)
        BY <1>2, Zenon DEF AuditInv, RowsInv
  <2>2. c \in Calls /\ call[c].prev \in Seq(Entry) /\ call[c].at \in Nat
        BY Zenon DEF Written, AuditInv, AuditType, CallType
  <2>3. /\ c \in Calls \cup {Edited} /\ Edited \in Calls \cup {Edited} /\ c # Edited
        /\ HashOf(c) = hashAuditEntry(call[c].prev, c, call[c].at)
        /\ r.prev = call[c].prev /\ r.at = call[c].at
        BY <2>1, <2>2, AuditAssumption, Zenon DEF HashOf, WrittenBy
  <2>4. hashAuditEntry(r.prev, Edited, r.at) # HashOf(c)
        BY <2>2, <2>3, HashTells, Zenon
  <2> QED
      BY <1>2, <1>3, <2>1, <2>4, BadMeans, Zenon DEF WrittenBy
<1>4. CASE Broken(r)
  <2>1. Expected(r) = Zero \/ \E s \in log : Expected(r) = s.hash
    <3>1. Before(r) # {} => Newest(Before(r)) \in log
          BY NewestIs, Zenon DEF Before, AuditInv
    <3> QED
        BY <3>1, Zenon DEF Expected
  <2>2. r.prev # Expected(r)
        BY <1>4, <2>1, Zenon DEF Broken
  <2> QED
      BY <1>2, <2>2, BadMeans, Zenon
<1> QED
    BY <1>1, <1>2, <1>3, <1>4, Zenon

\* The invariant is what the answer of VerifyAuditChain needs.
LEMMA AuditInvMeans == AuditInv => ChainTellsTheTruth
<1> SUFFICES ASSUME AuditInv PROVE ChainTellsTheTruth
    OBVIOUS
<1> DEFINE bad == {r \in Chained : Bad(r)}
<1>1. bad = {} => VerifyAuditChain.ok /\ VerifyAuditChain.verified = Cardinality(Chained)
      BY Zenon DEF VerifyAuditChain
<1>2. bad # {} => ~VerifyAuditChain.ok /\ VerifyAuditChain.firstBad = Oldest(bad).id
      BY Zenon DEF VerifyAuditChain
<1>3. UntouchedChainVerifies
  <2> SUFFICES ASSUME tampered = {}, ~swept
               PROVE  /\ VerifyAuditChain.ok
                      /\ VerifyAuditChain.verified = Cardinality(Written)
      BY Zenon DEF UntouchedChainVerifies, Written
  <2>1. /\ \A c \in Written : \E r \in Chained : WrittenBy(r, c)
        /\ Cardinality(Chained) = Cardinality(Written)
        BY Zenon DEF AuditInv, KeptInv
  <2>2. ASSUME NEW r \in Chained, Bad(r) PROVE FALSE
    <3>1. Broken(r)
          BY <2>2, BadIsBroken, Zenon
    <3>2. PICK d \in Written : LinksTo(r, d)
          BY <3>1, Zenon DEF AuditInv, ChainInv, Broken
    <3>3. PICK s \in Chained : WrittenBy(s, d)
          BY <2>1, Zenon
    <3> QED
        BY <3>1, <3>2, <3>3, Zenon DEF Broken, LinksTo, WrittenBy, Chained
  <2> QED
      BY <1>1, <2>1, <2>2, Zenon
<1>4. TamperingShows
  <2> SUFFICES ASSUME NEW r \in log, r.id \in tampered
               PROVE  ~VerifyAuditChain.ok /\ VerifyAuditChain.firstBad <= r.id
      BY Zenon DEF TamperingShows
  <2>1. r \in bad
        BY TamperedIsBad, Zenon
  <2>2. bad \in SUBSET log
        BY Zenon DEF Chained
  <2> HIDE DEF bad
  <2>3. Oldest(bad).id <= r.id
        BY <2>1, <2>2, OldestIs, Zenon DEF AuditInv
  <2> QED
      BY <1>2, <2>1, <2>3, Zenon
<1>5. ReportedOnlyWhenBroken
      BY BadIsBroken, Zenon DEF ReportedOnlyWhenBroken, Broken
<1> QED
    BY <1>3, <1>4, <1>5, Zenon DEF ChainTellsTheTruth

-----------------------------------------------------------------------------
\* A step of a call that is not yet written leaves the rows as they are.
LEMMA CallStep ==
    ASSUME AuditInv, log' = log, tampered' = tampered, swept' = swept,
           Written' = Written, \A c \in Written : call'[c] = call[c]
    PROVE  /\ Chained' = Chained
           /\ Ordered' /\ RowsInv' /\ ChainInv' /\ TamperInv' /\ KeptInv' /\ FiniteInv'
<1>1. Chained' = Chained
      BY Zenon DEF Chained
<1>2. ASSUME NEW c \in Written PROVE HashOf(c)' = HashOf(c)
      BY Zenon DEF HashOf
<1>3. ASSUME NEW r, NEW c \in Written
      PROVE  WrittenBy(r, c)' = WrittenBy(r, c) /\ LinksTo(r, c)' = LinksTo(r, c)
      BY <1>1, <1>2, Zenon DEF WrittenBy, LinksTo
<1>4. Ordered'
      BY Zenon DEF AuditInv, Ordered
<1>5. RowsInv'
      BY <1>1, <1>3, Zenon DEF AuditInv, RowsInv
<1>6. ChainInv'
      BY <1>1, <1>3, Zenon DEF AuditInv, ChainInv
<1>7. TamperInv'
      BY Zenon DEF AuditInv, TamperInv, Broken
<1>8. KeptInv'
      BY <1>1, <1>3, Zenon DEF AuditInv, KeptInv
<1>9. FiniteInv'
      BY <1>1, Zenon DEF AuditInv, FiniteInv
<1> QED
    BY <1>1, <1>4, <1>5, <1>6, <1>7, <1>8, <1>9, Zenon

\* LogToolCall, BeginTx, previousAuditHash, Insert and Lost move one call c.
Moves(c, stage) ==
    /\ call' \in [Calls -> CallType]
    /\ call'[c].pc = stage
    /\ \A d \in Calls : d # c => call'[d] = call[d]

\* A call that moves leaves the other calls alone.
LEMMA MovesStep ==
    ASSUME AuditInv, NEW c \in Calls, NEW stage \in Stages, Moves(c, stage),
           call[c].pc # "written", stage # "written"
    PROVE  Written' = Written /\ \A d \in Written : call'[d] = call[d]
<1>1. c \notin Written /\ c \notin Written'
      BY Zenon DEF Moves, Written
<1> QED
    BY <1>1, Zenon DEF Moves, Written

\* While c has its transaction open, no other call has.
LEMMA OneOpen ==
    ASSUME AuditInv, NEW c \in InTransaction, NEW d \in Calls, d # c
    PROVE  call[d].pc \notin {"select", "insert", "commit"}
  BY Zenon DEF AuditInv, IdsInv, InTransaction

\* A call takes its time and waits for a transaction.
LEMMA LogToolCallKeeps ==
    ASSUME AuditInv, NEW c \in Calls, LogToolCall(c)
    PROVE  AuditInv'
<1>1. call[c] \in CallType
      BY Zenon DEF AuditInv, AuditType
<1>2. Moves(c, "begin")
  <2>1. call'[c] = [call[c] EXCEPT !.pc = "begin", !.at = clock]
        BY Zenon DEF LogToolCall, AuditInv, AuditType
  <2>2. call'[c] \in CallType /\ call'[c].pc = "begin"
        BY <1>1, <2>1, Zenon DEF CallType, Stages, AuditInv, AuditType
  <2> QED
      BY <2>2, Zenon DEF Moves, LogToolCall, AuditInv, AuditType
<1>3. Written' = Written /\ \A d \in Written : call'[d] = call[d]
      BY <1>2, MovesStep, Zenon DEF LogToolCall, Stages
<1>4. InTransaction' = InTransaction /\ \A d \in InTransaction : call'[d] = call[d]
      BY <1>2, Zenon DEF InTransaction, Moves, LogToolCall
<1>5. \A d \in Calls : call'[d].pc = "commit" => call[d].pc = "commit" /\ call'[d] = call[d]
      BY <1>4, Zenon DEF InTransaction
<1>6. UNCHANGED <<clock, log, lastId, swept, tampered>>
      BY Zenon DEF LogToolCall
<1>7. /\ Chained' = Chained
      /\ Ordered' /\ RowsInv' /\ ChainInv' /\ TamperInv' /\ KeptInv' /\ FiniteInv'
      BY <1>3, <1>6, CallStep, Zenon
<1>8. AuditType'
      BY <1>2, <1>6, Zenon DEF AuditInv, AuditType, Moves
<1>9. IdsInv'
      BY <1>3, <1>4, <1>5, <1>6 DEF AuditInv, IdsInv, Settled
<1>10. PendingInv'
  <2>1. \A d \in Calls : call'[d].pc \in {"insert", "commit"} => call'[d] = call[d]
        BY <1>4, Zenon DEF InTransaction
  <2> QED
      BY <1>7, <2>1, Zenon DEF AuditInv, PendingInv
<1> QED
    BY <1>7, <1>8, <1>9, <1>10, Zenon DEF AuditInv

\* With SQLite a transaction begins when no other is open.
LEMMA BeginTxKeeps ==
    ASSUME ~Postgres, AuditInv, NEW c \in Calls, BeginTx(c)
    PROVE  AuditInv'
<1>1. call[c] \in CallType
      BY Zenon DEF AuditInv, AuditType
<1>2. Moves(c, "select")
  <2>1. call'[c] = [call[c] EXCEPT !.pc = "select"]
        BY Zenon DEF BeginTx, AuditInv, AuditType
  <2>2. call'[c] \in CallType /\ call'[c].pc = "select"
        BY <1>1, <2>1, Zenon DEF CallType, Stages
  <2> QED
      BY <2>2, Zenon DEF Moves, BeginTx, AuditInv, AuditType
<1>3. Written' = Written /\ \A d \in Written : call'[d] = call[d]
      BY <1>2, MovesStep, Zenon DEF BeginTx, Stages
<1>4. \A d \in Calls : call[d].pc \notin {"select", "insert", "commit"}
      BY Zenon DEF BeginTx, ConnectionFree, InTransaction
<1>5. \A d \in Calls : /\ call'[d].pc \notin {"insert", "commit"}
                       /\ d # c => d \notin InTransaction'
      BY <1>2, <1>4, Zenon DEF Moves, InTransaction
<1>6. UNCHANGED <<clock, log, lastId, swept, tampered>>
      BY Zenon DEF BeginTx
<1>7. /\ Chained' = Chained
      /\ Ordered' /\ RowsInv' /\ ChainInv' /\ TamperInv' /\ KeptInv' /\ FiniteInv'
      BY <1>3, <1>6, CallStep, Zenon
<1>8. AuditType'
      BY <1>2, <1>6, Zenon DEF AuditInv, AuditType, Moves
<1>9. IdsInv'
  <2>1. \A d, e \in InTransaction' : d = e
        BY <1>5, Zenon DEF InTransaction
  <2> QED
      BY <1>3, <1>5, <1>6, <2>1 DEF AuditInv, IdsInv, Settled
<1>10. PendingInv'
      BY <1>5, Zenon DEF PendingInv
<1> QED
    BY <1>7, <1>8, <1>9, <1>10, Zenon DEF AuditInv

\* The transaction reads the hash of the newest row.
LEMMA previousAuditHashKeeps ==
    ASSUME AuditInv, NEW c \in Calls, previousAuditHash(c)
    PROVE  AuditInv'
<1> DEFINE p == IF Chained = {} THEN Zero ELSE Newest(Chained).hash
<1>1. call[c] \in CallType
      BY Zenon DEF AuditInv, AuditType
<1>p. p \in Seq(Entry)
  <2>1. CASE Chained = {}
        BY <2>1 DEF Zero
  <2>2. CASE Chained # {}
    <3>1. Newest(Chained) \in RowType
          BY <2>2, NewestIs, Zenon DEF Chained, AuditInv, AuditType
    <3> QED
        BY <2>2, <3>1, Zenon DEF RowType
  <2> QED
      BY <2>1, <2>2, Zenon
<1>c. call'[c] = [call[c] EXCEPT !.pc = "insert", !.prev = p]
      BY Zenon DEF previousAuditHash, AuditInv, AuditType
<1>2. Moves(c, "insert") /\ call'[c].prev = p
  <2> HIDE DEF p
  <2>2. call'[c] \in CallType /\ call'[c].pc = "insert" /\ call'[c].prev = p
        BY <1>1, <1>p, <1>c, Zenon DEF CallType, Stages
  <2> QED
      BY <2>2, Zenon DEF Moves, previousAuditHash, AuditInv, AuditType
<1>3. Written' = Written /\ \A d \in Written : call'[d] = call[d]
      BY <1>2, MovesStep, Zenon DEF previousAuditHash, Stages
<1>4. c \in InTransaction
      BY Zenon DEF previousAuditHash, InTransaction
<1>5. \A d \in Calls : d # c => call'[d].pc \notin {"select", "insert", "commit"}
      BY <1>2, <1>4, OneOpen, Zenon DEF Moves
<1>6. UNCHANGED <<clock, log, lastId, swept, tampered>>
      BY Zenon DEF previousAuditHash
<1>7. /\ Chained' = Chained
      /\ Ordered' /\ RowsInv' /\ ChainInv' /\ TamperInv' /\ KeptInv' /\ FiniteInv'
      BY <1>3, <1>6, CallStep, Zenon
<1>8. AuditType'
      BY <1>2, <1>6, Zenon DEF AuditInv, AuditType, Moves
<1>9. IdsInv'
  <2>1. \A d \in Calls : call'[d].pc # "commit"
        BY <1>2, <1>5, Zenon DEF Moves
  <2>2. \A d, e \in InTransaction' : d = e
        BY <1>5, Zenon DEF InTransaction
  <2> QED
      BY <1>3, <1>6, <2>1, <2>2 DEF AuditInv, IdsInv, Settled
<1>10. PendingInv'
      BY <1>2, <1>5, <1>7, Zenon DEF PendingInv
<1> QED
    BY <1>7, <1>8, <1>9, <1>10, Zenon DEF AuditInv

\* The insert takes the next id.
LEMMA InsertKeeps ==
    ASSUME AuditInv, NEW c \in Calls, Insert(c)
    PROVE  AuditInv'
<1>1. call[c] \in CallType /\ lastId \in Nat
      BY Zenon DEF AuditInv, AuditType
<1>c. call'[c] = [call[c] EXCEPT !.pc = "commit", !.id = lastId + 1]
      BY Zenon DEF Insert, AuditInv, AuditType
<1>2. Moves(c, "commit") /\ call'[c].prev = call[c].prev /\ call'[c].id = lastId + 1
  <2> DEFINE k == lastId + 1
  <2>1. k \in Nat /\ call'[c] = [call[c] EXCEPT !.pc = "commit", !.id = k]
        BY <1>1, <1>c
  <2> HIDE DEF k
  <2>2. /\ call'[c] \in CallType /\ call'[c].pc = "commit"
        /\ call'[c].prev = call[c].prev /\ call'[c].id = k
        BY <1>1, <2>1, Zenon DEF CallType, Stages
  <2> QED
      BY <2>2, Zenon DEF Moves, Insert, AuditInv, AuditType, k
<1>3. Written' = Written /\ \A d \in Written : call'[d] = call[d]
      BY <1>2, MovesStep, Zenon DEF Insert, Stages
<1>4. c \in InTransaction
      BY Zenon DEF Insert, InTransaction
<1>5. \A d \in Calls : d # c => call'[d].pc \notin {"select", "insert", "commit"}
      BY <1>2, <1>4, OneOpen, Zenon DEF Moves
<1>6. UNCHANGED <<clock, log, swept, tampered>> /\ lastId' = lastId + 1
      BY Zenon DEF Insert
<1>7. /\ Chained' = Chained
      /\ Ordered' /\ RowsInv' /\ ChainInv' /\ TamperInv' /\ KeptInv' /\ FiniteInv'
      BY <1>3, <1>6, CallStep, Zenon
<1>8. AuditType'
      BY <1>1, <1>2, <1>6 DEF AuditInv, AuditType, Moves
<1>9. IdsInv'
  <2>1. \A d \in Calls : call'[d].pc = "commit" => d = c
        BY <1>5, Zenon
  <2>2. \A d, e \in InTransaction' : d = e
        BY <1>5, Zenon DEF InTransaction
  <2>3. ASSUME NEW i \in Nat, Settled(i) PROVE Settled(i)'
        BY <1>1, <1>6, <2>3 DEF Settled
  <2>4. \A d \in Written : call[d].id \in Nat
        BY Zenon DEF Written, AuditInv, AuditType, CallType
  <2>5. \A r \in log : r.id \in Nat
        BY RowFacts, Zenon
  <2>6. tampered \subseteq Nat
        BY Zenon DEF AuditInv, AuditType
  <2>7. ASSUME NEW d \in Written PROVE (Settled(call[d].id) /\ call[d].id > 0)'
    <3>1. PICK i \in Nat : i = call[d].id
          BY <2>4, Zenon
    <3>2. Settled(i) /\ i > 0
          BY <3>1, Zenon DEF AuditInv, IdsInv
    <3>3. Settled(i)' /\ (call[d].id)' = i
          BY <1>3, <2>3, <3>1, <3>2, Zenon
    <3> QED
        BY <3>2, <3>3, Zenon DEF Settled
  <2>8. \A d, e \in Written' : call'[d].id = call'[e].id => d = e
        BY <1>3 DEF AuditInv, IdsInv
  <2>9. \A r \in log' : Settled(r.id)'
        BY <1>6, <2>3, <2>5, Zenon DEF AuditInv, IdsInv
  <2>10. \A i \in tampered' : Settled(i)'
        BY <1>6, <2>3, <2>6, Zenon DEF AuditInv, IdsInv
  <2> QED
      BY <1>1, <1>2, <1>3, <1>6, <2>1, <2>2, <2>7, <2>8, <2>9, <2>10 DEF IdsInv
<1>10. PendingInv'
      BY <1>2, <1>5, <1>7, Zenon DEF AuditInv, PendingInv, Insert
<1> QED
    BY <1>7, <1>8, <1>9, <1>10, Zenon DEF AuditInv

\* Lost gives the id back when it was taken.
LEMMA LostKeeps ==
    ASSUME ~Postgres, AuditInv, NEW c \in Calls, Lost(c)
    PROVE  AuditInv'
<1>1. call[c] \in CallType /\ lastId \in Nat
      BY Zenon DEF AuditInv, AuditType
<1>2. Moves(c, "lost")
  <2>1. call'[c] = [call[c] EXCEPT !.pc = "lost"]
        BY Zenon DEF Lost, AuditInv, AuditType
  <2>2. call'[c] \in CallType /\ call'[c].pc = "lost"
        BY <1>1, <2>1, Zenon DEF CallType, Stages
  <2> QED
      BY <2>2, Zenon DEF Moves, Lost, AuditInv, AuditType
<1>3. Written' = Written /\ \A d \in Written : call'[d] = call[d]
      BY <1>2, MovesStep, Zenon DEF Lost, Stages
<1>4. \A d \in Calls : call'[d].pc \in {"select", "insert", "commit"} =>
                         d \in InTransaction /\ d # c /\ call'[d] = call[d]
      BY <1>2, Zenon DEF Moves, InTransaction
<1>6. /\ UNCHANGED <<clock, log, swept, tampered>>
      /\ lastId' = IF call[c].pc = "commit" THEN lastId - 1 ELSE lastId
      BY Zenon DEF Lost
<1>7. /\ Chained' = Chained
      /\ Ordered' /\ RowsInv' /\ ChainInv' /\ TamperInv' /\ KeptInv' /\ FiniteInv'
      BY <1>3, <1>6, CallStep, Zenon
<1>8. lastId' \in Nat /\ (call[c].pc # "commit" => lastId' = lastId)
  <2>1. call[c].pc = "commit" => lastId > 0
        BY Zenon DEF AuditInv, IdsInv
  <2> QED
      BY <1>1, <1>6, <2>1
<1>9. AuditType'
      BY <1>2, <1>6, <1>8, Zenon DEF AuditInv, AuditType, Moves
<1>10. ASSUME NEW i \in Nat, Settled(i) PROVE Settled(i)'
  <2>1. CASE call[c].pc = "commit"
    <3>1. c \in InTransaction /\ i < lastId
          BY <1>10, <2>1, Zenon DEF InTransaction, Settled
    <3>2. \A d \in Calls : call'[d].pc # "commit"
          BY <1>4, <3>1, OneOpen, Zenon DEF InTransaction
    <3> QED
        BY <1>1, <1>6, <2>1, <3>1, <3>2 DEF Settled
  <2>2. CASE call[c].pc # "commit"
    <3>1. \A d \in Calls : call'[d].pc = "commit" => call[d].pc = "commit"
          BY <1>4, Zenon
    <3> QED
        BY <1>8, <1>10, <2>2, <3>1, Zenon DEF Settled
  <2> QED
      BY <2>1, <2>2, Zenon
<1>11. IdsInv'
  <2>1. \A d, e \in InTransaction' : d = e
        BY <1>4, Zenon DEF InTransaction, AuditInv, IdsInv
  <2>2. ASSUME NEW d \in Calls, call'[d].pc = "commit"
        PROVE  call'[d].id = lastId' /\ lastId' > 0
    <3>1. call[d].pc = "commit" /\ call'[d] = call[d] /\ d # c /\ d \in InTransaction
          BY <1>4, <2>2, Zenon
    <3>2. call[c].pc # "commit"
          BY <3>1, OneOpen, Zenon
    <3> QED
        BY <1>8, <3>1, <3>2, Zenon DEF AuditInv, IdsInv
  <2>4. \A d \in Written : call[d].id \in Nat
        BY Zenon DEF Written, AuditInv, AuditType, CallType
  <2>5. \A r \in log : r.id \in Nat
        BY RowFacts, Zenon
  <2>6. tampered \subseteq Nat
        BY Zenon DEF AuditInv, AuditType
  <2>7. ASSUME NEW d \in Written PROVE (Settled(call[d].id) /\ call[d].id > 0)'
    <3>1. PICK i \in Nat : i = call[d].id
          BY <2>4, Zenon
    <3>2. Settled(i) /\ i > 0
          BY <3>1, Zenon DEF AuditInv, IdsInv
    <3>3. Settled(i)' /\ (call[d].id)' = i
          BY <1>3, <1>10, <3>1, <3>2, Zenon
    <3> QED
        BY <3>2, <3>3, Zenon DEF Settled
  <2>8. \A d, e \in Written' : call'[d].id = call'[e].id => d = e
        BY <1>3 DEF AuditInv, IdsInv
  <2>9. \A r \in log' : Settled(r.id)'
        BY <1>6, <1>10, <2>5, Zenon DEF AuditInv, IdsInv
  <2>10. \A i \in tampered' : Settled(i)'
        BY <1>6, <1>10, <2>6, Zenon DEF AuditInv, IdsInv
  <2> QED
      BY <1>3, <2>1, <2>2, <2>7, <2>8, <2>9, <2>10, Zenon DEF IdsInv
<1>12. PendingInv'
  <2>1. \A d \in Calls : call'[d].pc \in {"insert", "commit"} => call'[d] = call[d]
        BY <1>4, Zenon
  <2> QED
      BY <1>7, <2>1, Zenon DEF AuditInv, PendingInv
<1> QED
    BY <1>7, <1>9, <1>11, <1>12, Zenon DEF AuditInv

-----------------------------------------------------------------------------
INSTANCE FiniteSetTheorems

\* Commit makes the row of c visible: the newest, chained to the one before.
LEMMA CommitKeeps ==
    ASSUME ~Postgres, AuditInv, NEW c \in Calls, Commit(c)
    PROVE  AuditInv'
<1>0. PICK new : new = RowOf(c)
      OBVIOUS
<1>1. call[c] \in CallType /\ lastId \in Nat /\ call[c].pc = "commit"
      BY Zenon DEF AuditInv, AuditType, Commit
<1>2. /\ call[c].id \in Nat /\ call[c].at \in Nat /\ call[c].prev \in Seq(Entry)
      /\ call[c].id = lastId /\ lastId > 0
      BY <1>1, Zenon DEF CallType, AuditInv, IdsInv
<1>3. /\ new.id = lastId /\ new.chained /\ new.tool = c /\ new.at = call[c].at
      /\ new.prev = call[c].prev /\ new.hash = HashOf(c)
      BY <1>0, <1>2, Zenon DEF RowOf, Stored, HashOf
<1>4. new \in RowType
  <2>1. HashOf(c) \in Seq(Entry)
        BY HashesDiffer, Zenon DEF AuditInv
  <2> QED
      BY <1>0, <1>2, <2>1, Zenon DEF RowOf, Stored, HashOf, RowType
<1>5. /\ log' = log \cup {new}
      /\ UNCHANGED <<clock, lastId, swept, tampered>>
      BY <1>0, Zenon DEF Commit
<1>6. /\ call' \in [Calls -> CallType] /\ call'[c].pc = "written"
      /\ call'[c].id = call[c].id /\ call'[c].at = call[c].at /\ call'[c].prev = call[c].prev
      /\ \A d \in Calls : d # c => call'[d] = call[d]
  <2>1. call'[c] = [call[c] EXCEPT !.pc = "written"]
        BY Zenon DEF Commit, AuditInv, AuditType
  <2>2. /\ call'[c] \in CallType /\ call'[c].pc = "written"
        /\ call'[c].id = call[c].id /\ call'[c].at = call[c].at /\ call'[c].prev = call[c].prev
        BY <1>1, <2>1, Zenon DEF CallType, Stages
  <2> QED
      BY <2>2, Zenon DEF Commit, AuditInv, AuditType
<1>7. c \in InTransaction /\ c \notin Written
      BY <1>1, Zenon DEF InTransaction, Written
<1>8. \A d \in Calls : call'[d].pc \notin {"select", "insert", "commit"}
      BY <1>6, <1>7, OneOpen
<1>9. Written' = Written \cup {c}
      BY <1>6, Zenon DEF Written
<1>10. \A r \in log : r.id < lastId /\ r.id \in Nat
      BY <1>1, RowFacts, Zenon DEF AuditInv, IdsInv, Settled
<1>11. new \notin log /\ Chained' = Chained \cup {new} /\ new \notin Chained
      BY <1>2, <1>3, <1>5, <1>10 DEF Chained
<1>12. ASSUME NEW d \in Calls
       PROVE  HashOf(d)' = HashOf(d) /\ (call[d].id)' = call[d].id
      BY <1>6, Zenon DEF HashOf
<1>13. ASSUME NEW r, NEW d \in Calls PROVE WrittenBy(r, d)' = WrittenBy(r, d)
      BY <1>5, <1>6, <1>12 DEF WrittenBy
<1>14. WrittenBy(new, c)
      BY <1>2, <1>3 DEF WrittenBy
<1>15. AuditType'
      BY <1>4, <1>5, <1>6 DEF AuditInv, AuditType
<1>16. IdsInv'
  <2>1. ASSUME NEW i PROVE i <= lastId => Settled(i)'
        BY <1>5, <1>8 DEF Settled
  <2>2. \A d \in Written : call[d].id < lastId /\ call[d].id > 0
        BY <1>1, Zenon DEF AuditInv, IdsInv, Settled
  <2>3. \A d \in Written : call'[d].id = call[d].id /\ call[d].id \in Nat
        BY <1>6, Zenon DEF Written, AuditInv, AuditType, CallType
  <2>4. \A d \in Written' : call'[d].id <= lastId /\ call'[d].id > 0
        BY <1>2, <1>6, <1>9, <2>2, <2>3
  <2>5. \A d, e \in Written' : call'[d].id = call'[e].id => d = e
        BY <1>2, <1>6, <1>9, <2>2, <2>3 DEF AuditInv, IdsInv
  <2>6. \A r \in log' : r.id <= lastId
        BY <1>2, <1>3, <1>5, <1>10
  <2>7. \A i \in tampered' : i <= lastId
        BY <1>5, Zenon DEF AuditInv, IdsInv, Settled
  <2> QED
      BY <1>5, <1>8, <2>4, <2>5, <2>6, <2>7 DEF IdsInv, Settled, InTransaction
<1>17. Ordered'
  <2> SUFFICES ASSUME NEW rows \in SUBSET log', rows # {}
               PROVE  /\ \E r \in rows : \A s \in rows : s.id <= r.id
                      /\ \E r \in rows : \A s \in rows : r.id <= s.id
      BY Zenon DEF Ordered
  <2>1. CASE new \notin rows
        BY <1>5, <2>1 DEF AuditInv, Ordered
  <2>2. CASE rows = {new}
        BY <1>2, <1>3, <2>2
  <2>3. CASE new \in rows /\ rows # {new}
    <3>1. rows \ {new} \in SUBSET log /\ rows \ {new} # {}
          BY <1>5, <2>3, Zenon
    <3>2. PICK o \in rows \ {new} : \A s \in rows \ {new} : o.id <= s.id
          BY <3>1, Zenon DEF AuditInv, Ordered
    <3>3. o \in log /\ o.id < new.id
          BY <1>3, <1>10, <3>1
    <3>4. \A s \in rows : o.id <= s.id
          BY <1>2, <1>3, <1>10, <3>2, <3>3
    <3>5. \A s \in rows : s.id <= new.id
          BY <1>2, <1>3, <1>10, <3>1
    <3> QED
        BY <2>3, <3>4, <3>5, Zenon
  <2> QED
      BY <2>1, <2>2, <2>3
<1>18. RowsInv'
  <2>1. \A r, s \in log' : r.id = s.id => r = s
        BY <1>2, <1>3, <1>5, <1>10 DEF AuditInv, RowsInv
  <2>2. \A r \in log' : ~r.chained => r = Legacy
        BY <1>3, <1>5, Zenon DEF AuditInv, RowsInv
  <2>3. ASSUME NEW r \in Chained' PROVE \E d \in Written' : WrittenBy(r, d)'
    <3>1. CASE r = new
          BY <1>9, <1>13, <1>14, <3>1
    <3>2. CASE r \in Chained
      <4>1. PICK d \in Written : WrittenBy(r, d)
            BY <3>2, Zenon DEF AuditInv, RowsInv
      <4> QED
          BY <1>9, <1>13, <4>1 DEF Written
    <3> QED
        BY <1>11, <3>1, <3>2, Zenon
  <2> QED
      BY <2>1, <2>2, <2>3 DEF RowsInv
<1>19. PendingInv'
      BY <1>8, Zenon DEF PendingInv
<1>20. ChainInv'
  <2>1. ASSUME NEW r \in Chained, NEW d \in Written, LinksTo(r, d) PROVE LinksTo(r, d)'
    <3>1. d \in Calls /\ r.id < new.id /\ r.id \in Nat
          BY <1>3, <1>10, Zenon DEF Written, Chained
    <3>2. \A s \in Chained' : ~(call[d].id < s.id /\ s.id < r.id)
          BY <1>2, <1>3, <1>11, <2>1, <3>1 DEF LinksTo
    <3> QED
        BY <1>12, <2>1, <3>1, <3>2 DEF LinksTo
  <2>2. ASSUME NEW r \in Chained, \A s \in Chained : r.id <= s.id
        PROVE  \A s \in Chained' : r.id <= s.id
        BY <1>2, <1>3, <1>10, <1>11, <2>2 DEF Chained
  <2>3. CASE Chained = {}
    <3>1. new.prev = Zero
          BY <1>1, <1>3, <2>3 DEF AuditInv, PendingInv
    <3>2. Chained' = {new}
          BY <1>11, <2>3
    <3> QED
        BY <1>2, <1>3, <3>1, <3>2 DEF ChainInv
  <2>4. CASE Chained # {}
    <3> DEFINE n == Newest(Chained)
    <3>1. n \in Chained /\ \A s \in Chained : s.id <= n.id
          BY <2>4, NewestIs DEF AuditInv, Chained
    <3>2. new.prev = n.hash
          BY <1>1, <1>3, <2>4 DEF AuditInv, PendingInv
    <3> HIDE DEF n
    <3>3. PICK d \in Written : WrittenBy(n, d)
          BY <3>1, Zenon DEF AuditInv, RowsInv
    <3>4. n.id \in Nat /\ n.id < new.id /\ call[d].id = n.id /\ d \in Calls
          BY <1>3, <1>10, <3>1, <3>3 DEF WrittenBy, Written, Chained
    <3>5. \A s \in Chained' : ~(call[d].id < s.id /\ s.id < new.id)
          BY <1>2, <1>3, <1>10, <1>11, <3>1, <3>4 DEF Chained
    <3>6. LinksTo(new, d)'
          BY <1>12, <3>2, <3>3, <3>4, <3>5, Zenon DEF LinksTo, WrittenBy
    <3>7. ASSUME NEW r \in Chained
          PROVE  \/ r.prev = Zero /\ \A s \in Chained' : r.id <= s.id
                 \/ \E e \in Written' : LinksTo(r, e)'
          BY <1>9, <2>1, <2>2 DEF AuditInv, ChainInv
    <3> QED
        BY <1>9, <1>11, <3>6, <3>7 DEF ChainInv
  <2> QED
      BY <2>3, <2>4
<1>21. TamperInv'
  <2> SUFFICES ASSUME NEW r \in log', r.id \in tampered
               PROVE  r.chained /\ (r.tool = Edited \/ Broken(r)')
      BY <1>5, Zenon DEF TamperInv
  <2>1. r \in log
    <3>1. \A i \in tampered : i < lastId
          BY <1>1, Zenon DEF AuditInv, IdsInv, Settled
    <3> QED
        BY <1>2, <1>3, <1>5, <3>1
  <2>2. r.chained /\ (r.tool = Edited \/ Broken(r))
        BY <2>1, Zenon DEF AuditInv, TamperInv
  <2>3. ASSUME Broken(r) PROVE Broken(r)'
    <3>1. PICK d \in Written : LinksTo(r, d)
          BY <2>1, <2>2, <2>3 DEF AuditInv, ChainInv, Broken, Chained
    <3>2. HashOf(c) # HashOf(d)
          BY <1>7, HashesDiffer DEF AuditInv, Written
    <3> QED
        BY <1>3, <1>5, <2>3, <3>1, <3>2 DEF Broken, LinksTo
  <2> QED
      BY <2>2, <2>3, Zenon
<1>22. FiniteInv'
      BY <1>9, <1>11, FS_AddElement DEF AuditInv, FiniteInv
<1>23. KeptInv'
  <2> SUFFICES ASSUME tampered = {}, ~swept
               PROVE  /\ \A d \in Written' : \E r \in Chained' : WrittenBy(r, d)'
                      /\ Cardinality(Chained') = Cardinality(Written')
      BY <1>5, Zenon DEF KeptInv
  <2>1. /\ \A d \in Written : \E r \in Chained : WrittenBy(r, d)
        /\ Cardinality(Chained) = Cardinality(Written)
        BY Zenon DEF AuditInv, KeptInv
  <2>2. /\ Cardinality(Chained') = Cardinality(Chained) + 1
        /\ Cardinality(Written') = Cardinality(Written) + 1
        BY <1>7, <1>9, <1>11, FS_AddElement DEF AuditInv, FiniteInv
  <2>3. ASSUME NEW d \in Written' PROVE \E r \in Chained' : WrittenBy(r, d)'
        BY <1>9, <1>11, <1>13, <1>14, <2>1 DEF Written
  <2> QED
      BY <2>1, <2>2, <2>3
<1> QED
    BY <1>15, <1>16, <1>17, <1>18, <1>19, <1>20, <1>21, <1>22, <1>23, Zenon DEF AuditInv

\* Rows leave between transactions: what is kept stays chained as it was.
LEMMA RowsLeave ==
    ASSUME ~Postgres, AuditInv, ConnectionFree, log' \subseteq log,
           UNCHANGED <<clock, call, lastId>>, tampered \subseteq tampered',
           \A i \in tampered' : i \in tampered \/ \E r \in log : r.id = i
    PROVE  AuditType' /\ IdsInv' /\ Ordered' /\ RowsInv' /\ PendingInv' /\ ChainInv' /\ FiniteInv'
<1>1. Chained' \subseteq Chained /\ Written' = Written
      BY Zenon DEF Chained, Written
<1>2. \A d \in Calls : call'[d].pc \notin {"select", "insert", "commit"}
      BY Zenon DEF ConnectionFree, InTransaction
<1>3. ASSUME NEW d \in Calls PROVE HashOf(d)' = HashOf(d) /\ (call[d].id)' = call[d].id
      BY Zenon DEF HashOf
<1>4. AuditType'
      BY RowFacts, Zenon DEF AuditInv, AuditType
<1>5. IdsInv'
  <2>1. ASSUME NEW i, Settled(i) PROVE Settled(i)'
        BY <2>1, Zenon DEF Settled
  <2>2. \A i \in tampered' : Settled(i)
        BY Zenon DEF AuditInv, IdsInv
  <2>3. \A r \in log' : Settled(r.id)
        BY Zenon DEF AuditInv, IdsInv
  <2>4. \A d \in Written : (Settled(call[d].id) /\ call[d].id > 0)'
        BY Zenon DEF AuditInv, IdsInv, Settled
  <2>5. \A d, e \in Written' : call'[d].id = call'[e].id => d = e
        BY <1>1, Zenon DEF AuditInv, IdsInv
  <2> QED
      BY <1>1, <1>2, <2>1, <2>2, <2>3, <2>4, <2>5 DEF IdsInv, InTransaction
<1>6. Ordered'
      BY Zenon DEF AuditInv, Ordered
<1>7. RowsInv'
  <2>1. ASSUME NEW r, NEW d \in Calls, WrittenBy(r, d) PROVE WrittenBy(r, d)'
        BY <1>3, <2>1, Zenon DEF WrittenBy
  <2>2. \A r \in Chained' : \E d \in Written' : WrittenBy(r, d)'
        BY <1>1, <2>1, Zenon DEF AuditInv, RowsInv, Written
  <2> QED
      BY <2>2, Zenon DEF AuditInv, RowsInv
<1>8. PendingInv'
      BY <1>2, Zenon DEF PendingInv
<1>9. ChainInv'
  <2>1. ASSUME NEW r, NEW d \in Calls, LinksTo(r, d) PROVE LinksTo(r, d)'
        BY <1>1, <1>3, <2>1, Zenon DEF LinksTo
  <2> QED
      BY <1>1, <2>1, Zenon DEF AuditInv, ChainInv, Written
<1>10. FiniteInv'
      BY <1>1, FS_Subset, Zenon DEF AuditInv, FiniteInv
<1> QED
    BY <1>4, <1>5, <1>6, <1>7, <1>8, <1>9, <1>10

\* Retention removes old rows.
LEMMA SweepKeeps ==
    ASSUME ~Postgres, AuditInv, SweepAuditLog
    PROVE  AuditInv'
<1>1. /\ log' \subseteq log /\ UNCHANGED <<clock, call, lastId, tampered>>
      /\ ConnectionFree /\ swept' = TRUE
      BY Zenon DEF SweepAuditLog
<1>2. TamperInv'
      BY <1>1, Zenon DEF AuditInv, TamperInv, Broken
<1>3. KeptInv'
      BY <1>1, Zenon DEF KeptInv
<1> QED
    BY <1>1, <1>2, <1>3, RowsLeave, Zenon DEF AuditInv

\* The row after the removed one chained to it, and to no other.
LEMMA RemoveRowKeeps ==
    ASSUME ~Postgres, AuditInv, NEW r \in log, RemoveRow(r)
    PROVE  AuditInv'
<1>0. PICK x : x = Oldest(After(r))
      OBVIOUS
<1>1. /\ log' = log \ {r} /\ UNCHANGED <<clock, call, lastId, swept>>
      /\ ConnectionFree /\ r.chained /\ After(r) # {}
      /\ tampered' = tampered \cup {x.id}
      BY <1>0, Zenon DEF RemoveRow
<1>2. /\ x \in log /\ r.id < x.id
      /\ \A s \in log : r.id < s.id => x.id <= s.id
      BY <1>0, <1>1, OldestIs DEF After, AuditInv
<1>3. r.id \in Nat /\ x.id \in Nat /\ r \in Chained
      BY <1>1, <1>2, RowFacts, Zenon DEF Chained
<1>4. x.chained /\ x \in Chained
      BY <1>2, <1>3, RowFacts DEF Chained
<1>5. /\ AuditType' /\ IdsInv' /\ Ordered' /\ RowsInv' /\ PendingInv' /\ ChainInv'
      /\ FiniteInv'
      BY <1>1, <1>2, RowsLeave, Zenon
<1>6. PICK d \in Written : LinksTo(x, d)
      BY <1>2, <1>3, <1>4 DEF AuditInv, ChainInv
<1>7. Broken(x)'
  <2>1. x.prev = HashOf(d) /\ HashOf(d) # Zero
        BY <1>6, HashesDiffer, Zenon DEF LinksTo, AuditInv, Written
  <2>2. ASSUME NEW s \in log, s # r, s.hash = HashOf(d) PROVE FALSE
    <3>1. s \in Chained /\ s.id = call[d].id /\ s.id \in Nat
          BY <2>2, RowOfHash, RowFacts
    <3>2. s.id < x.id /\ ~(s.id < r.id)
          BY <1>2, <1>3, <1>6, <3>1 DEF LinksTo
    <3>3. r.id # s.id
          BY <2>2, Zenon DEF AuditInv, RowsInv
    <3> QED
        BY <1>2, <1>3, <3>1, <3>2, <3>3
  <2> QED
      BY <1>1, <2>1, <2>2 DEF Broken
<1>8. TamperInv'
  <2> SUFFICES ASSUME NEW s \in log', s.id \in tampered'
               PROVE  s.chained /\ (s.tool = Edited \/ Broken(s)')
      BY Zenon DEF TamperInv
  <2>1. CASE s.id = x.id
    <3>1. s = x
          BY <1>1, <1>2, <2>1 DEF AuditInv, RowsInv
    <3> QED
        BY <1>4, <1>7, <3>1
  <2>2. CASE s.id \in tampered
        BY <1>1, <2>2, Zenon DEF AuditInv, TamperInv, Broken
  <2> QED
      BY <1>1, <2>1, <2>2
<1>9. KeptInv'
      BY <1>1, Zenon DEF KeptInv
<1> QED
    BY <1>5, <1>8, <1>9, Zenon DEF AuditInv

\* An edited row keeps its id and its hashes.
LEMMA EditRowKeeps ==
    ASSUME ~Postgres, AuditInv, NEW r \in log, EditRow(r)
    PROVE  AuditInv'
<1>0. PICK q : q = [r EXCEPT !.tool = Edited]
      OBVIOUS
<1>1. /\ log' = (log \ {r}) \cup {q} /\ UNCHANGED <<clock, call, lastId, swept>>
      /\ ConnectionFree /\ r.chained /\ tampered' = tampered \cup {r.id}
      BY <1>0, Zenon DEF EditRow
<1>2. /\ r \in RowType /\ r.id \in Nat
      BY RowFacts, Zenon
<1>3. /\ q \in RowType /\ q.tool = Edited /\ q.id = r.id /\ q.at = r.at
      /\ q.prev = r.prev /\ q.hash = r.hash /\ q.chained = r.chained
      BY <1>0, <1>2, Zenon DEF RowType
<1>4. \A d \in Calls : call'[d].pc \notin {"select", "insert", "commit"}
      BY <1>1, Zenon DEF ConnectionFree, InTransaction
<1>5. Written' = Written /\ Chained' = (Chained \ {r}) \cup {q} /\ r \in Chained
      BY <1>1, <1>3, Zenon DEF Written, Chained
<1>6. ASSUME NEW d \in Calls PROVE HashOf(d)' = HashOf(d) /\ (call[d].id)' = call[d].id
      BY <1>1, Zenon DEF HashOf
<1>7. \A s \in log' : \E o \in log :
         /\ o.id = s.id /\ o.prev = s.prev /\ o.hash = s.hash /\ o.chained = s.chained
         /\ s = o \/ (o = r /\ s = q)
      BY <1>1, <1>3
<1>8. AuditType'
      BY <1>1, <1>2, <1>3 DEF AuditInv, AuditType
<1>9. IdsInv'
  <2>1. ASSUME NEW i, Settled(i) PROVE Settled(i)'
        BY <1>1, <2>1, Zenon DEF Settled
  <2>2. \A i \in tampered' : Settled(i)
        BY <1>1 DEF AuditInv, IdsInv
  <2>3. \A s \in log' : Settled(s.id)
        BY <1>1, <1>3, Zenon DEF AuditInv, IdsInv
  <2>4. \A d \in Written : (Settled(call[d].id) /\ call[d].id > 0)'
        BY <1>1, Zenon DEF AuditInv, IdsInv, Settled
  <2>5. \A d, e \in Written' : call'[d].id = call'[e].id => d = e
        BY <1>1, <1>5, Zenon DEF AuditInv, IdsInv
  <2> QED
      BY <1>4, <1>5, <2>1, <2>2, <2>3, <2>4, <2>5 DEF IdsInv, InTransaction
<1>10. Ordered'
  <2> SUFFICES ASSUME NEW rows \in SUBSET log', rows # {}
               PROVE  /\ \E a \in rows : \A s \in rows : s.id <= a.id
                      /\ \E a \in rows : \A s \in rows : a.id <= s.id
      BY Zenon DEF Ordered
  <2>1. CASE q \notin rows
        BY <1>1, <2>1 DEF AuditInv, Ordered
  <2>2. CASE q \in rows
    <3> DEFINE old == (rows \ {q}) \cup {r}
    <3>1. old \in SUBSET log /\ old # {}
          BY <1>1, Zenon
    <3>2. PICK a \in old : \A s \in old : s.id <= a.id
          BY <3>1 DEF AuditInv, Ordered
    <3>3. PICK b \in old : \A s \in old : b.id <= s.id
          BY <3>1, Zenon DEF AuditInv, Ordered
    <3>4. \A s \in rows : s.id <= a.id /\ b.id <= s.id
          BY <1>3, <3>2, <3>3
    <3>5. \E n \in rows : n.id = a.id
          BY <1>3, <2>2
    <3>6. \E n \in rows : n.id = b.id
          BY <1>3, <2>2
    <3> QED
        BY <3>4, <3>5, <3>6
  <2> QED
      BY <2>1, <2>2
<1>11. RowsInv'
  <2>1. \A s, o \in log' : s.id = o.id => s = o
        BY <1>1, <1>3 DEF AuditInv, RowsInv
  <2>2. \A s \in log' : ~s.chained => s = Legacy
        BY <1>1, <1>3, Zenon DEF AuditInv, RowsInv
  <2>3. ASSUME NEW s \in Chained' PROVE \E d \in Written' : WrittenBy(s, d)'
    <3>1. PICK o \in Chained : s = o \/ (o = r /\ s = q)
          BY <1>5
    <3>2. PICK d \in Written : WrittenBy(o, d)
          BY Zenon DEF AuditInv, RowsInv
    <3>3. WrittenBy(s, d)'
          BY <1>1, <1>3, <1>6, <3>1, <3>2 DEF WrittenBy, Written
    <3> QED
        BY <1>5, <3>3, Zenon
  <2> QED
      BY <2>1, <2>2, <2>3 DEF RowsInv
<1>12. PendingInv'
      BY <1>4, Zenon DEF PendingInv
<1>13. ChainInv'
  <2>1. \A s \in Chained' : \E o \in Chained : o.id = s.id /\ o.prev = s.prev
        BY <1>3, <1>5
  <2>2. ASSUME NEW s, NEW o, NEW d \in Calls, o.id = s.id, o.prev = s.prev, LinksTo(o, d)
        PROVE  LinksTo(s, d)'
        BY <1>6, <2>1, <2>2 DEF LinksTo
  <2> SUFFICES ASSUME NEW s \in Chained'
               PROVE  \/ s.prev = Zero /\ \A u \in Chained' : s.id <= u.id
                      \/ \E d \in Written' : LinksTo(s, d)'
      BY Zenon DEF ChainInv
  <2>3. PICK o \in Chained : o.id = s.id /\ o.prev = s.prev
        BY <2>1, Zenon
  <2>4. CASE o.prev = Zero /\ \A u \in Chained : o.id <= u.id
        BY <2>1, <2>3, <2>4
  <2>5. CASE \E d \in Written : LinksTo(o, d)
        BY <1>5, <2>2, <2>3, <2>5 DEF Written
  <2> QED
      BY <2>4, <2>5 DEF AuditInv, ChainInv
<1>14. TamperInv'
  <2>1. ASSUME NEW s, Broken(s) PROVE Broken(s)'
        BY <1>1, <1>3, <2>1 DEF Broken
  <2> QED
      BY <1>1, <1>3, <2>1 DEF AuditInv, TamperInv, RowsInv
<1>15. KeptInv'
      BY <1>1, Zenon DEF KeptInv
<1>16. FiniteInv'
  <2>1. IsFiniteSet(Chained \ {r})
        BY FS_Subset, Zenon DEF AuditInv, FiniteInv
  <2> QED
      BY <1>5, <2>1, FS_AddElement DEF AuditInv, FiniteInv
<1> QED
    BY <1>8, <1>9, <1>10, <1>11, <1>12, <1>13, <1>14, <1>15, <1>16 DEF AuditInv

-----------------------------------------------------------------------------
\* Before the first call there is at most the row from before the chain.
LEMMA InitAudit == Init => AuditInv
<1> SUFFICES ASSUME Init PROVE AuditInv
    OBVIOUS
<1>1. Written = {} /\ Chained = {} /\ InTransaction = {}
      BY DEF Init, Written, Chained, InTransaction, Legacy
<1>2. \A c \in Calls : call[c].pc = "idle"
      BY Zenon DEF Init
<1>3. AuditType
  <2>1. Zero \in Seq(Entry)
        BY DEF Zero
  <2>2. Legacy \in RowType
        BY <2>1, Zenon DEF Legacy, RowType
  <2>3. [pc |-> "idle", at |-> 0, prev |-> Zero, id |-> 0] \in CallType
        BY <2>1, Zenon DEF CallType, Stages
  <2> QED
      BY <2>2, <2>3, Zenon DEF Init, AuditType
<1>4. \A r \in log : r = Legacy /\ r.id = 0
      BY DEF Init, Legacy
<1>5. IdsInv /\ PendingInv
      BY <1>1, <1>2, <1>4 DEF Init, IdsInv, PendingInv, Settled
<1>6. Ordered
      BY <1>4 DEF Ordered
<1>7. RowsInv /\ ChainInv
      BY <1>1, <1>4, Zenon DEF RowsInv, ChainInv
<1>8. TamperInv /\ KeptInv /\ FiniteInv
      BY <1>1, FS_EmptySet, Zenon DEF Init, TamperInv, KeptInv, FiniteInv
<1> QED
    BY <1>3, <1>5, <1>6, <1>7, <1>8 DEF AuditInv

\* A tick and a stuttering step leave calls and rows alone.
LEMMA QuietKeeps ==
    ASSUME AuditInv, UNCHANGED <<call, log, lastId, swept, tampered>>, clock' \in Nat
    PROVE  AuditInv'
<1>1. Chained' = Chained /\ Written' = Written /\ InTransaction' = InTransaction
      BY Zenon DEF Chained, Written, InTransaction
<1>2. /\ Ordered' /\ RowsInv' /\ ChainInv' /\ TamperInv' /\ KeptInv' /\ FiniteInv'
      BY <1>1, CallStep, Zenon
<1>3. AuditType' /\ IdsInv' /\ PendingInv'
      BY <1>1, Zenon DEF AuditInv, AuditType, IdsInv, PendingInv, Settled
<1> QED
    BY <1>2, <1>3, Zenon DEF AuditInv

\* Every step preserves the invariant, with SQLite.
LEMMA NextAudit == ~Postgres /\ AuditInv /\ [Next]_vars => AuditInv'
<1> SUFFICES ASSUME ~Postgres, AuditInv, [Next]_vars PROVE AuditInv'
    OBVIOUS
<1>1. CASE Tick
      BY <1>1, QuietKeeps DEF Tick, AuditInv, AuditType
<1>2. ASSUME NEW c \in Calls,
             \/ LogToolCall(c) \/ BeginTx(c) \/ previousAuditHash(c)
             \/ Insert(c) \/ Commit(c) \/ Lost(c)
      PROVE  AuditInv'
      BY <1>2, LogToolCallKeeps, BeginTxKeeps, previousAuditHashKeeps, InsertKeeps,
         CommitKeeps, LostKeeps, Zenon
<1>3. CASE SweepAuditLog
      BY <1>3, SweepKeeps, Zenon
<1>4. ASSUME NEW r \in log, EditRow(r) \/ RemoveRow(r) PROVE AuditInv'
      BY <1>4, EditRowKeeps, RemoveRowKeeps
<1>5. CASE UNCHANGED vars
      BY <1>5, QuietKeeps, Zenon DEF vars, AuditInv, AuditType
<1> QED
    BY <1>1, <1>2, <1>3, <1>4, <1>5 DEF Next

-----------------------------------------------------------------------------
(* The results. *)

\* However often a fork is edited and whatever its owner chooses, an install
\* of it does nothing that no install of its base could (ValidateFork and
\* Resolve together).
THEOREM ForksStayNarrow == ForkSpec => []ForkNeverWidens
<1>1. ForkInit => ForkInv
      BY InitFork, Zenon
<1>2. ForkInv /\ [ForkNext]_forkVars => ForkInv'
      BY NextFork, Zenon
<1>3. ForkInv => ForkNeverWidens
      BY InvNarrow, Zenon
<1> QED
    BY <1>1, <1>2, <1>3, PTL DEF ForkSpec

\* The invariant is what the digests promise.
LEMMA DigestInvMeans ==
    ASSUME DigestAssumption, DigestInv
    PROVE  D!SourceIsKept /\ D!AnnouncedOnce /\ D!NothingWithheld /\ D!OneDigestCampaign
<1>1. D!SourceIsKept
  BY Zenon DEF DigestInv, CampaignInv
<1>2. D!AnnouncedOnce
  <2>1. D!NoDigest.body = {}
    BY Zenon DEF D!NoDigest, D!Digest
  <2> QED
    BY <1>1, <2>1, Zenon DEF D!SourceIsKept, D!AnnouncedOnce, DigestInv, OwnerInv
<1>3. D!NothingWithheld
  BY DEF D!NothingWithheld, DigestInv, OwnerInv, DigestType, DigestAssumption
<1>4. D!OneDigestCampaign
  <2> DEFINE S == {i \in D!ActiveBroadcastCampaign : camps[i].source # D!NoDigest}
  <2>1. \A i, k \in S : i = k
    BY Zenon DEF DigestInv, CampaignInv
  <2>0. Cardinality(S) <= 1 => D!OneDigestCampaign
    <3>1. \A T : D!Cardinality(T) = Cardinality(T)
      BY Zenon DEF D!Cardinality, Cardinality
    <3> QED
      BY <3>1, Zenon DEF D!OneDigestCampaign
  <2> HIDE DEF S
  <2>2. CASE S = {}
    <3>1. Cardinality(S) = 0
      BY <2>2, FS_EmptySet, Zenon
    <3> QED
      BY <2>0, <3>1
  <2>3. CASE S # {}
    <3>1. PICK i : S = {i}
      BY <2>1, <2>3
    <3>2. Cardinality(S) = 1
      BY <3>1, FS_Singleton, Zenon
    <3> QED
      BY <2>0, <3>2
  <2> QED
    BY <2>2, <2>3, Zenon
<1> QED
  BY <1>1, <1>2, <1>3, <1>4

\* Whatever requests of whatever operators and builds overlap in
\* prepareFromDigest, lose an answer or die between two statements: the digest
\* of a campaign is never discarded, an entry is announced under one digest id,
\* an entry is withheld only while a stored digest carries it, and at most one
\* campaign made from a digest is under way.
THEOREM DigestsStayFaithful ==
    DigestAssumption /\ D!Spec => [](D!SourceIsKept /\ D!AnnouncedOnce /\ D!NothingWithheld /\ D!OneDigestCampaign)
<1>1. CASE DigestAssumption
  <2>1. DigestInv /\ [D!Next]_(D!vars) => DigestInv'
    BY <1>1, NextKeepsDigests, Zenon
  <2>2. DigestInv => D!SourceIsKept /\ D!AnnouncedOnce /\ D!NothingWithheld /\ D!OneDigestCampaign
    BY <1>1, DigestInvMeans, Zenon
  <2> QED
    BY <2>1, <2>2, InitDigest, PTL DEF D!Spec
<1> QED
  BY <1>1, Zenon

\* With SQLite, for any number of calls, clock readings, retention periods and
\* rows changed by hand, VerifyAuditChain answers truly: a log nobody touched
\* verifies with the count of the calls written, a disturbed row is reported or
\* an earlier one is, and an untouched row is called bad only when the row it
\* chains to is gone (LogToolCall, SweepAuditLog).
THEOREM AuditTellsTheTruth == ~Postgres /\ Spec => []ChainTellsTheTruth
<1> SUFFICES ASSUME ~Postgres PROVE Spec => []ChainTellsTheTruth
    OBVIOUS
<1> QED
    BY InitAudit, NextAudit, AuditInvMeans, PTL DEF Spec
=============================================================================
