-------------------------- MODULE DigestCampaigns --------------------------
(***************************************************************************)
(* Preparing a broadcast from the product-update digest: the page's        *)
(* prepareFromDigest (internal/web/broadcasts.go), the freezing of a       *)
(* digest (internal/productupdate) and its rows (internal/db).             *)
(*                                                                         *)
(* One category.  A digest's content hash stands for its id, version and   *)
(* the set of entries it carries, its body.  Requests run in processes of  *)
(* different builds, whose feeds hold different shipped entries.           *)
(***************************************************************************)
EXTENDS Naturals, FiniteSets, Sequences

CONSTANTS
    Slots,                  \* bound: requests handled at once
    Entries, Ids,           \* feed entries, digest ids
    MaxVersion,             \* bound on versions
    Feeds,                  \* the approved, shipped entries of each build
    MaxCampaigns,           \* bound
    Budgets                 \* bound: pairs <<requests, faults>>

VARIABLES
    slot,
    digests,                \* product_update_digests with their publications
    owner,                  \* product_update_entry_owners
    camps,                  \* broadcast_campaigns, in the order they were made
    asks, faults

vars == <<slot, digests, owner, camps, asks, faults>>

None == "none"
Digest(id, version, body) == [id |-> id, version |-> version, body |-> body]
NoDigest == Digest(None, 0, {})
Free == [pc |-> "free", want |-> NoDigest, feed |-> {}, stored |-> FALSE]

\* A campaign has the digest it was made from, or none.
Campaign(source) == [source |-> source, active |-> TRUE]

TypeOK ==
    /\ \A s \in Slots : slot[s].pc \in {"free", "guards", "freeze", "persist", "prepare", "discard"}
    /\ \A d \in digests : d.id \in Ids /\ d.version \in 1..MaxVersion /\ d.body \subseteq Entries /\ d.body # {}
    /\ owner \in [Entries -> Ids \cup {None}]
    /\ Len(camps) <= MaxCampaigns

Init ==
    /\ slot = [s \in Slots |-> Free]
    /\ digests = {} /\ owner = [e \in Entries |-> None] /\ camps = <<>>
    /\ \E b \in Budgets : asks = b[1] /\ faults = b[2]

Stored(id, version) == {d \in digests : d.id = id /\ d.version = version}
ActiveBroadcastCampaign == {i \in DOMAIN camps : camps[i].active}

Answered(s) == slot' = [slot EXCEPT ![s] = Free]

-----------------------------------------------------------------------------
\* prepareFromDigest, one step per statement.

HandlePrepareDigest(s, id, version, feed) ==
    /\ slot[s].pc = "free" /\ asks > 0
    /\ asks' = asks - 1
    /\ slot' = [slot EXCEPT ![s] = [Free EXCEPT !.pc = "guards", !.want = Digest(id, version, {}), !.feed = feed]]
    /\ UNCHANGED <<digests, owner, camps, faults>>

\* No active campaign of the category; a correction needs the version before it.
Guards(s) ==
    LET d == slot[s].want
    IN /\ slot[s].pc = "guards"
       /\ IF ActiveBroadcastCampaign = {} /\ (d.version > 1 => Stored(d.id, d.version - 1) # {})
          THEN slot' = [slot EXCEPT ![s].pc = "freeze"]
          ELSE Answered(s)
       /\ UNCHANGED <<digests, owner, camps, asks, faults>>

PublishedProductUpdateEntries(except) == {e \in Entries : owner[e] \notin {None, except}}

DigestCandidates(feed, published) == feed \ published

\* The digest is frozen and rendered in memory.
NextDigest(s) ==
    LET d == slot[s].want
        body == DigestCandidates(slot[s].feed, PublishedProductUpdateEntries(d.id))
    IN /\ slot[s].pc = "freeze"
       /\ IF body = {} THEN Answered(s)
          ELSE slot' = [slot EXCEPT ![s].pc = "persist", ![s].want = Digest(d.id, d.version, body), ![s].feed = {}]
       /\ UNCHANGED <<digests, owner, camps, asks, faults>>

FaultyTaken(d) == {}
Taken(d) == {e \in d.body : owner[e] \notin {None, d.id}}

sameAs(d) == Stored(d.id, d.version) = {d}

\* The answer to a commit may be lost: then the request ends and the rows stay.
SaveProductUpdateDigest(s) ==
    LET d == slot[s].want
        new == Stored(d.id, d.version) = {} /\ Taken(d) = {}
    IN /\ slot[s].pc = "persist"
       /\ digests' = IF new THEN digests \cup {d} ELSE digests
       /\ owner' = IF new THEN [e \in Entries |-> IF e \in d.body THEN d.id ELSE owner[e]] ELSE owner
       /\ \/ /\ slot' = [slot EXCEPT ![s] = IF new \/ sameAs(d) THEN [@ EXCEPT !.pc = "prepare", !.stored = new] ELSE Free]
             /\ UNCHANGED faults
          \/ /\ new /\ faults > 0
             /\ faults' = faults - 1 /\ Answered(s)
       /\ UNCHANGED <<camps, asks>>

MayCreate(d) == d \in digests /\ ActiveBroadcastCampaign = {}

\* Prepare finds no recipients, or too many, or creates the campaign, or finds
\* the category taken or the digest gone.  Only the request that stored the
\* digest takes it back.
CreateBroadcastCampaign(s) ==
    LET d == slot[s].want
        refused == slot' = [slot EXCEPT ![s] = IF @.stored THEN [@ EXCEPT !.pc = "discard"] ELSE Free]
    IN /\ slot[s].pc = "prepare"
       /\ \/ /\ MayCreate(d) /\ Len(camps) < MaxCampaigns
             /\ camps' = Append(camps, Campaign(d))
             /\ Answered(s) /\ UNCHANGED faults
          \/ /\ ~MayCreate(d)
             /\ refused /\ UNCHANGED <<camps, faults>>
          \/ /\ faults > 0
             /\ faults' = faults - 1
             /\ refused /\ UNCHANGED camps
       /\ UNCHANGED <<digests, owner, asks>>

Unused(d) == \A i \in DOMAIN camps : camps[i].source.id # d.id \/ camps[i].source.version # d.version

OwnersLeft(d, rest) == {e \in Entries : owner[e] = d.id /\ \E x \in rest : x.id = d.id /\ e \in x.body}

DiscardUnusedProductUpdateDigest(s) ==
    LET d == slot[s].want
        rest == digests \ {d}
        gone == sameAs(d) /\ Unused(d)
    IN /\ slot[s].pc = "discard"
       /\ digests' = IF gone THEN rest ELSE digests
       /\ owner' = IF gone THEN [e \in Entries |-> IF owner[e] = d.id /\ e \notin OwnersLeft(d, rest) THEN None ELSE owner[e]]
                   ELSE owner
       /\ Answered(s)
       /\ UNCHANGED <<camps, asks, faults>>

\* The process dies between two statements.
Crash(s) ==
    /\ slot[s].pc \in {"prepare", "discard"} /\ faults > 0
    /\ faults' = faults - 1 /\ Answered(s)
    /\ UNCHANGED <<digests, owner, camps, asks>>

-----------------------------------------------------------------------------
\* Campaigns come and go beside it: one written by hand, and the end of any.

PrepareManual ==
    /\ asks > 0 /\ Len(camps) < MaxCampaigns
    /\ asks' = asks - 1
    /\ camps' = Append(camps, Campaign(NoDigest))
    /\ UNCHANGED <<slot, digests, owner, faults>>

Ends(i) ==
    /\ camps[i].active
    /\ camps' = [camps EXCEPT ![i].active = FALSE]
    /\ UNCHANGED <<slot, digests, owner, asks, faults>>

Next ==
    \/ \E s \in Slots :
          \/ \E id \in Ids, v \in 1..MaxVersion, f \in Feeds : HandlePrepareDigest(s, id, v, f)
          \/ Guards(s) \/ NextDigest(s) \/ SaveProductUpdateDigest(s) \/ CreateBroadcastCampaign(s)
          \/ DiscardUnusedProductUpdateDigest(s) \/ Crash(s)
    \/ PrepareManual
    \/ \E i \in DOMAIN camps : Ends(i)

Spec == Init /\ [][Next]_vars

-----------------------------------------------------------------------------
\* An entry is announced under one digest id only, however requests of two
\* operators, or of two builds, overlap: everything a campaign carried is owned
\* by the digest it was made from, and stays so.
AnnouncedOnce ==
    \A i \in DOMAIN camps : \A e \in camps[i].source.body : owner[e] = camps[i].source.id

\* No entry is lost to the feed: an entry is withheld from other digests only
\* while a stored digest carries it.  A refused request leaves nothing claimed.
NothingWithheld ==
    \A e \in Entries : owner[e] # None <=> \E d \in digests : d.id = owner[e] /\ e \in d.body

\* The digest a campaign was approved from is never taken back, by the
\* clean-up of a request that lost the race to that campaign.
SourceIsKept ==
    \A i \in DOMAIN camps : camps[i].source # NoDigest => camps[i].source \in digests

\* At most one campaign made from a digest is under way in the category.
OneDigestCampaign ==
    Cardinality({i \in ActiveBroadcastCampaign : camps[i].source # NoDigest}) <= 1
=============================================================================
