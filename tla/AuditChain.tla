------------------------------ MODULE AuditChain ------------------------------
(***************************************************************************)
(* The hash-chained audit log of one user: LogToolCall appends a row whose *)
(* prev_hash is the entry_hash of the user's newest row, SweepAuditLog     *)
(* deletes rows past retention, and VerifyAuditChain recomputes the chain. *)
(*                                                                         *)
(* SHA-256 over length-prefixed fields is taken to be injective: the hash  *)
(* of a row is the sequence of the contents hashed into it, and 32 zero    *)
(* bytes are the empty sequence.  Of a row's content the model keeps the   *)
(* tool call and created_at, which is hashed in nanoseconds.               *)
(*                                                                         *)
(* Postgres is the dialect.  With SQLite the pool has one connection, so a *)
(* transaction excludes every other statement; with Postgres it has ten,   *)
(* BeginTx(ctx, nil) is READ COMMITTED, and TIMESTAMPTZ keeps microseconds.*)
(*                                                                         *)
(* An operator named Faulty... is a plausible bug in the definition that   *)
(* follows it; no specification uses it.                                   *)
(***************************************************************************)
EXTENDS Integers, Sequences, FiniteSets, FiniteSetsExt

CONSTANTS
    Calls,           \* tool calls of the user, each logged once
    Edited,          \* what an edited row says instead of its tool call
    Postgres,        \* TRUE: Postgres, FALSE: SQLite
    NanosPerMicro,   \* clock readings per microsecond
    Retention,       \* AUDIT_RETENTION_DAYS, in clock readings; 0 keeps forever
    MaxClock,        \* bound on the clock
    MaxTampering     \* bound on rows edited or removed by hand

ASSUME AuditAssumption ==
    /\ Edited \notin Calls
    /\ Postgres \in BOOLEAN
    /\ NanosPerMicro \in Nat \ {0}
    /\ {Retention, MaxClock, MaxTampering} \subseteq Nat

VARIABLES
    clock,     \* time.Now()
    call,      \* what each LogToolCall holds and where it stands
    log,       \* the user's committed rows of audit_logs
    lastId,    \* the id sequence
    swept,     \* TRUE once retention has removed a row
    tampered   \* history: ids of the rows a hand-made change disturbed

vars == <<clock, call, log, lastId, swept, tampered>>

Zero == <<>>

hashAuditEntry(prev, tool, at) == Append(prev, [tool |-> tool, at |-> at])

\* What the database gives back for a created_at it was given.
Stored(at) == IF Postgres THEN (at \div NanosPerMicro) * NanosPerMicro ELSE at

Legacy == [id |-> 0, chained |-> FALSE, tool |-> Edited, at |-> 0, prev |-> Zero, hash |-> Zero]

Newest(rows) == CHOOSE r \in rows : \A s \in rows : s.id <= r.id
Oldest(rows) == CHOOSE r \in rows : \A s \in rows : r.id <= s.id

Chained == {r \in log : r.chained}
Before(r) == {s \in log : s.id < r.id}
After(r) == {s \in log : r.id < s.id}

InTransaction == {c \in Calls : call[c].pc \in {"select", "insert", "commit"}}

\* database/sql hands out a connection: SQLite's only one, or one of Postgres'.
ConnectionFree == Postgres \/ InTransaction = {}

Hashes == Seq([tool : Calls \cup {Edited}, at : 0..MaxClock])

\* Calls, rows and history are well formed.
TypeOK ==
    /\ clock \in 0..MaxClock
    /\ call \in [Calls -> [pc : {"idle", "begin", "select", "insert", "commit", "written", "lost"},
                           at : 0..MaxClock, prev : Hashes, id : Nat]]
    /\ \A r \in log :
          /\ r \in [id : Nat, chained : BOOLEAN, tool : Calls \cup {Edited}, at : 0..MaxClock,
                    prev : Hashes, hash : Hashes]
          /\ r.id <= lastId
          /\ \A s \in log : s.id = r.id => s = r
    /\ lastId \in 0..Cardinality(Calls)
    /\ swept \in BOOLEAN
    /\ tampered \subseteq 1..Cardinality(Calls)

\* The user may have one row from before the chain's columns were added.
Init ==
    /\ clock = 0
    /\ call = [c \in Calls |-> [pc |-> "idle", at |-> 0, prev |-> Zero, id |-> 0]]
    /\ log \in {{}, {Legacy}}
    /\ lastId = 0
    /\ swept = FALSE
    /\ tampered = {}

Tick ==
    /\ clock < MaxClock
    /\ clock' = clock + 1
    /\ UNCHANGED <<call, log, lastId, swept, tampered>>

-----------------------------------------------------------------------------
\* LogToolCall reads the clock before it has a connection.
LogToolCall(c) ==
    /\ call[c].pc = "idle"
    /\ call' = [call EXCEPT ![c].pc = "begin", ![c].at = clock]
    /\ UNCHANGED <<clock, log, lastId, swept, tampered>>

BeginTx(c) ==
    /\ call[c].pc = "begin"
    /\ ConnectionFree
    /\ call' = [call EXCEPT ![c].pc = "select"]
    /\ UNCHANGED <<clock, log, lastId, swept, tampered>>

\* A plain SELECT of committed rows; a failed read is Lost, never the zero hash.
previousAuditHash(c) ==
    /\ call[c].pc = "select"
    /\ call' = [call EXCEPT ![c].pc = "insert",
                            ![c].prev = IF Chained = {} THEN Zero ELSE Newest(Chained).hash]
    /\ UNCHANGED <<clock, log, lastId, swept, tampered>>

Insert(c) ==
    /\ call[c].pc = "insert"
    /\ lastId' = lastId + 1
    /\ call' = [call EXCEPT ![c].pc = "commit", ![c].id = lastId + 1]
    /\ UNCHANGED <<clock, log, swept, tampered>>

\* The row a call inserts.  Its hash is taken over the time in memory.
RowOf(c) ==
    [id |-> call[c].id, chained |-> TRUE, tool |-> c, at |-> Stored(call[c].at),
     prev |-> call[c].prev, hash |-> hashAuditEntry(call[c].prev, c, call[c].at)]

\* The row becomes visible.
Commit(c) ==
    /\ call[c].pc = "commit"
    /\ call' = [call EXCEPT ![c].pc = "written"]
    /\ log' = log \cup {RowOf(c)}
    /\ UNCHANGED <<clock, lastId, swept, tampered>>

\* Any stage fails or runs into auditWriteTimeout: logged, rolled back, never retried.
\* SQLite takes back the id as well; Postgres' sequence does not.
Lost(c) ==
    /\ call[c].pc \in {"begin", "select", "insert", "commit"}
    /\ call' = [call EXCEPT ![c].pc = "lost"]
    /\ lastId' = IF call[c].pc = "commit" /\ ~Postgres THEN lastId - 1 ELSE lastId
    /\ UNCHANGED <<clock, log, swept, tampered>>

-----------------------------------------------------------------------------
\* The daily retention sweep, one DELETE on created_at.
SweepAuditLog ==
    LET expired == {r \in log : r.at < clock - Retention}
    IN  /\ Retention > 0
        /\ ConnectionFree
        /\ expired # {}
        /\ log' = log \ expired
        /\ swept' = TRUE
        /\ UNCHANGED <<clock, call, lastId, tampered>>

\* By hand, outside the program: a row is rewritten.
EditRow(r) ==
    /\ ConnectionFree
    /\ Cardinality(tampered) < MaxTampering
    /\ r.chained /\ r.tool # Edited
    /\ log' = (log \ {r}) \cup {[r EXCEPT !.tool = Edited]}
    /\ tampered' = tampered \cup {r.id}
    /\ UNCHANGED <<clock, call, lastId, swept>>

\* By hand, outside the program: a row in the middle of the history is removed.
RemoveRow(r) ==
    /\ ConnectionFree
    /\ Cardinality(tampered) < MaxTampering
    /\ r.chained /\ After(r) # {}
    /\ log' = log \ {r}
    /\ tampered' = tampered \cup {Oldest(After(r)).id}
    /\ UNCHANGED <<clock, call, lastId, swept>>

-----------------------------------------------------------------------------
\* The verifier follows prev_hash and does not recompute.
FaultyBad(r) ==
    r.prev # (IF Before(r) = {} \/ ~Newest(Before(r)).chained THEN Zero ELSE Newest(Before(r)).hash)

\* The walk's test of one chained row: its prev_hash against the row before it
\* in id order, then its entry_hash against the recomputed one.
Bad(r) ==
    \/ r.prev # (IF Before(r) = {} \/ ~Newest(Before(r)).chained THEN Zero ELSE Newest(Before(r)).hash)
    \/ r.hash # hashAuditEntry(r.prev, r.tool, r.at)

\* What GET /api/account/audit/verify answers; the walk ends at the first bad row.
VerifyAuditChain ==
    LET bad == {r \in Chained : Bad(r)}
    IN  IF bad = {}
        THEN [ok |-> TRUE, verified |-> Cardinality(Chained), firstBad |-> 0]
        ELSE [ok |-> FALSE, verified |-> Cardinality(Before(Oldest(bad)) \cap Chained),
              firstBad |-> Oldest(bad).id]

Next ==
    \/ Tick
    \/ \E c \in Calls :
          \/ LogToolCall(c) \/ BeginTx(c) \/ previousAuditHash(c)
          \/ Insert(c) \/ Commit(c) \/ Lost(c)
    \/ SweepAuditLog
    \/ \E r \in log : EditRow(r) \/ RemoveRow(r)

Spec == Init /\ [][Next]_vars

-----------------------------------------------------------------------------
\* A log nobody touched and retention has not reached verifies, and the answer
\* counts exactly the calls that were written, however calls overlapped or failed.
UntouchedChainVerifies ==
    tampered = {} /\ ~swept =>
        /\ VerifyAuditChain.ok
        /\ VerifyAuditChain.verified = Cardinality({c \in Calls : call[c].pc = "written"})

\* An edited row, and the row after a removed one, are reported for as long as
\* they are kept: the walk stops there or earlier, whatever is appended or swept.
TamperingShows ==
    \A r \in log : r.id \in tampered =>
        ~VerifyAuditChain.ok /\ VerifyAuditChain.firstBad <= r.id

\* A row no hand touched is called bad only when the row it chains to is gone.
ReportedOnlyWhenBroken ==
    \A r \in Chained : r.id \notin tampered /\ Bad(r) =>
        r.prev # Zero /\ \A s \in log : s.hash # r.prev

\* A log that nobody touched verifies, an edited or removed row shows as long as
\* its neighbour is kept, and nothing else is reported (VerifyAuditChain).
ChainTellsTheTruth == UntouchedChainVerifies /\ TamperingShows /\ ReportedOnlyWhenBroken
=============================================================================
