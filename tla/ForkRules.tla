------------------------------ MODULE ForkRules ------------------------------
(***************************************************************************)
(* What a fork may change and what an install may choose                   *)
(* (internal/assistant): a base definition, forks built from it by any     *)
(* number of edits, and installs resolved against the latest of them.      *)
(*                                                                         *)
(* A definition keeps its intents, tools, limit, ceiling, disclosure       *)
(* policy and the disclosure floor of a variable; the three limits behave  *)
(* alike and are one.  Tiers, override modes and disclosure levels are the *)
(* ranks the code compares.                                                *)
(***************************************************************************)
EXTENDS Integers, FiniteSets

CONSTANTS
    Intents,       \* intent names
    BaseIntents,   \* the ones a base declares
    Tools,         \* the tools a runtime has
    BaseTools,     \* the ones a base declares
    MaxLimit,      \* the largest limit
    Edits,         \* the edits made of forks
    None           \* no value

VARIABLES base, fork, effect
forkVars == <<base, fork, effect>>

\* tierRank, userOverrideRank and disclosureRank.
TierRank == [auto |-> 0, approve |-> 1, never |-> 2]
OverrideRank == [any |-> 0, tighten |-> 1, none |-> 2]
Tiers == {"auto", "approve", "never"}
Modes == {"any", "tighten", "none"}
Levels == 0 .. 2
Limits == 1 .. MaxLimit

Intent == [tier : Tiers, userOverride : Modes]

(***************************************************************************)
(* Definitions.                                                            *)
(***************************************************************************)
withinCeilings(limit, ceiling) == limit <= ceiling

\* A fork is private, and only a fork is.
checkForkMetadata(d) == d.isFork <=> d.visibility = "private"

ParseDefinition(d) ==
    /\ withinCeilings(d.limit, d.ceiling)
    /\ d.tools \subseteq Tools /\ d.tools # {}
    /\ checkForkMetadata(d)

FaultyIntentsNarrow(b, f) ==
    \A n \in DOMAIN f.intents :
         LET is == f.intents[n] IN
         IF n \in DOMAIN b.intents
         THEN TierRank[is.tier] >= TierRank[b.intents[n].tier]
         ELSE is.tier # "auto"

\* The intents of a fork against the base's: a new one neither sends by
\* itself nor lets an install make it, a kept one is no looser, and a never
\* is not left out.
IntentsNarrow(b, f) ==
    /\ \A n \in DOMAIN f.intents :
         LET is == f.intents[n] IN
         IF n \in DOMAIN b.intents
         THEN /\ TierRank[is.tier] >= TierRank[b.intents[n].tier]
              /\ OverrideRank[is.userOverride] >= OverrideRank[b.intents[n].userOverride]
         ELSE /\ is.tier # "auto"
              /\ is.userOverride # "any"
    /\ \A n \in DOMAIN b.intents :
         b.intents[n].tier = "never" => n \in DOMAIN f.intents

ValidateFork(b, f) ==
    /\ IntentsNarrow(b, f)
    /\ f.tools \subseteq b.tools
    /\ withinCeilings(f.limit, b.ceiling)
    /\ withinCeilings(f.ceiling, b.ceiling)
    /\ b.policy = "required" => f.policy = "required"
    /\ f.floor >= b.floor

IntentLists == UNION {[s -> Intent] : s \in SUBSET Intents}

\* ForkOverrides: a part left out is None.
Overrides ==
    [intents : IntentLists \cup {None}, tools : (SUBSET Tools) \cup {None},
     limit : Limits \cup {None}, ceiling : Limits \cup {None},
     policy : {"required", "optional", None}]

ASSUME BaseAssumption ==
    BaseIntents \subseteq Intents /\ BaseTools \subseteq Tools /\ MaxLimit \in Nat
ASSUME EditsAssumption == Edits \subseteq Overrides

Given(part, else) == IF part = None THEN else ELSE part

\* A fork edit replaces whole parts of the definition it starts from.
BuildFork(from, ov) ==
    [intents |-> Given(ov.intents, from.intents),
     tools |-> Given(ov.tools, from.tools),
     limit |-> Given(ov.limit, from.limit),
     ceiling |-> Given(ov.ceiling, from.ceiling),
     policy |-> Given(ov.policy, from.policy),
     floor |-> from.floor, isFork |-> TRUE, visibility |-> "private"]

(***************************************************************************)
(* Installs.                                                               *)
(***************************************************************************)
\* The tier an override may give an intent, from the mode of the definition.
TierAllowed(in, tier) ==
    \/ tier = in.tier
    \/ in.userOverride = "any"
    \/ in.userOverride = "tighten" /\ TierRank[tier] >= TierRank[in.tier]

\* The install document: each choice is made or left to the definition.
Installs ==
    [tiers : UNION {[s -> Tiers] : s \in {{}} \cup {{n} : n \in Intents}},
     limit : Limits \cup {None}, enabled : {None},  level : {None}]
    \cup
    [tiers : {[s \in {} |-> "auto"]},
     limit : {None}, enabled : BOOLEAN \cup {None}, level : Levels \cup {None}]

intentTiers(d, in) ==
    \A n \in DOMAIN in.tiers :
        n \in DOMAIN d.intents /\ TierAllowed(d.intents[n], in.tiers[n])

\* A disclosure level is only ever made stricter.
ownerProfile(d, in) == in.level # None => in.level >= d.floor

\* An install Resolve does not refuse.
Accepts(d, in) ==
    /\ intentTiers(d, in)
    /\ ownerProfile(d, in)
    /\ in.limit # None => withinCeilings(in.limit, d.ceiling)
    /\ in.enabled = FALSE => d.policy # "required"

\* Resolve: the profile the runtime enforces.
Resolve(d, in) ==
    LET tier(n) == IF n \in DOMAIN in.tiers THEN in.tiers[n] ELSE d.intents[n].tier IN
    [allow |-> {n \in DOMAIN d.intents : tier(n) = "auto"},
     never |-> {n \in DOMAIN d.intents : tier(n) = "never"},
     tools |-> d.tools,
     limit |-> IF in.limit = None THEN d.limit ELSE in.limit,
     disclosed |-> in.enabled # FALSE,
     level |-> IF in.level = None THEN d.floor ELSE in.level]

(***************************************************************************)
(* The specification.                                                      *)
(***************************************************************************)
Definitions ==
    [intents : [BaseIntents -> Intent], tools : {BaseTools}, limit : Limits,
     ceiling : Limits, policy : {"required", "optional"}, floor : Levels,
     isFork : {FALSE}, visibility : {"public"}]

ForkInit ==
    /\ base \in {d \in Definitions : ParseDefinition(d)}
    /\ fork = None
    /\ effect = None

\* fork_assistant and update_fork: built from the base or from the latest
\* version, always validated against the base.
Edit ==
    /\ effect = None
    /\ \E ov \in Edits :
         LET f == BuildFork(IF fork = None THEN base ELSE fork, ov) IN
         /\ ParseDefinition(f)
         /\ ValidateFork(base, f)
         /\ fork' = f
    /\ UNCHANGED <<base, effect>>

InstallFork ==
    /\ effect = None
    /\ fork # None
    /\ \E in \in Installs :
         /\ Accepts(fork, in)
         /\ effect' = Resolve(fork, in)
    /\ UNCHANGED <<base, fork>>

ForkNext == Edit \/ InstallFork

ForkSpec == ForkInit /\ [][ForkNext]_forkVars

(***************************************************************************)
(* Properties.                                                             *)
(***************************************************************************)
\* The widest profile an install of the base could have been given.
BaseMayAllow(n) == n \in DOMAIN base.intents /\ TierAllowed(base.intents[n], "auto")
BaseMustNever(n) ==
    /\ n \in DOMAIN base.intents
    /\ base.intents[n].tier = "never"
    /\ base.intents[n].userOverride # "any"

\* However often a fork is edited and whatever its owner then chooses, an
\* install of it does nothing that no install of its base could: it sends
\* no intent by itself, uses no tool, exceeds no limit, drops no disclosure
\* line and discloses no field, unless the base allows that.
ForkNeverWidens ==
    effect # None =>
        /\ \A n \in effect.allow : BaseMayAllow(n)
        /\ \A n \in Intents : BaseMustNever(n) => n \in effect.never
        /\ effect.tools \subseteq base.tools
        /\ withinCeilings(effect.limit, base.ceiling)
        /\ ~ effect.disclosed => base.policy # "required"
        /\ effect.level >= base.floor
=============================================================================
