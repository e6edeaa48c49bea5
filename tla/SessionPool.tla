---------------------------- MODULE SessionPool ----------------------------
(***************************************************************************)
(* The pool of Telegram clients (internal/telegram/clientpool.go), for one *)
(* user of one server process: Borrow with its waits, the run and gc       *)
(* goroutines of a client, the eviction calls, the session rows the        *)
(* clients load and the listener supervisor that pins a client             *)
(* (internal/agent/listener/supervisor.go, agentruntime.go).               *)
(*                                                                         *)
(* A step is what happens between two releases of the pool mutex: the      *)
(* database call of revokeRejected and RemoveAtomic is inside it, the one  *)
(* of finishRun is not.  Row r was saved with auth key r; "dead" holds     *)
(* the keys Telegram no longer accepts.  Time is left out: an idle or an   *)
(* absolute expiry may be found whenever the code looks.                   *)
(***************************************************************************)
EXTENDS Naturals, FiniteSets

CONSTANTS
  Calls,       \* the Borrow calls of requests
  Probe,       \* the Borrow call of the listener supervisor
  MaxRows,     \* bound: session rows saved
  MaxClients,  \* bound: clients started
  MaxRounds,   \* bound: reconciliations of the supervisor
  Budgets      \* bound: choices of how many outside events a run may see

VARIABLES
  rows,        \* telegram_accounts of the user
  dead,        \* auth keys Telegram rejects
  clients,     \* every pool entry ever created, with its goroutines
  current,     \* p.entries[user]: a client or 0
  pinned,      \* user \in p.pinned
  retiring,    \* user \in p.retiring
  calls,       \* Borrow calls
  signIn,      \* a sign-in that has saved its row and not yet evicted
  enabled,     \* the agent profile has its listener enabled
  account,     \* user \in l.accounts
  supervisor,  \* where reconcile stands
  rounds, events

vars == <<rows, dead, clients, current, pinned, retiring, calls, signIn,
          enabled, account, supervisor, rounds, events>>
pool == <<current, pinned, retiring>>
agent == <<enabled, account, supervisor, rounds>>

RowIds == 1..MaxRows
Clients == 1..MaxClients
Callers == Calls \cup {Probe}

\* A pool entry.  "run" is the run goroutine, "exit" the error client.Run
\* returned, "closing" a gc goroutine that has decided to cancel.
entry == [run : {"none", "start", "loaded", "up", "exited", "revoke", "over"},
          row : 0..MaxRows, key : 0..MaxRows, wired : BOOLEAN,
          listens : BOOLEAN, stopped : BOOLEAN, cancelled : BOOLEAN,
          ready : BOOLEAN, exit : {"nil", "auth", "none", "other"},
          closing : BOOLEAN]

NoEntry == [run |-> "none", row |-> 0, key |-> 0, wired |-> FALSE,
            listens |-> FALSE, stopped |-> FALSE, cancelled |-> FALSE,
            ready |-> FALSE, exit |-> "nil", closing |-> FALSE]

Row == [state : {"unused", "active", "revoked"}, key : 0..MaxRows,
        why : {"", "superseded", "removed", "expired", "unauthorized"}]

Idle == [at |-> "idle", client |-> 0, row |-> 0]

\* The variables hold what the code's structures can hold.
TypeOK ==
  /\ rows \in [RowIds -> Row]
  /\ dead \subseteq RowIds
  /\ clients \in [Clients -> entry]
  /\ current \in 0..MaxClients
  /\ {pinned, retiring, signIn, enabled, account} \subseteq BOOLEAN
  /\ calls \in [Callers -> [at : {"idle", "expired", "checked", "waiting",
                                  "ready", "calling", "done"},
                            client : 0..MaxClients, row : 0..MaxRows]]
  /\ supervisor \in {"idle", "unpin", "closeListener", "remove", "pin",
                     "closeUnwired", "borrow", "probe"}

Init ==
  /\ rows = [r \in RowIds |-> IF r = 1
                THEN [state |-> "active", key |-> 1, why |-> ""]
                ELSE [state |-> "unused", key |-> 0, why |-> ""]]
  /\ dead = {}
  /\ clients = [c \in Clients |-> NoEntry]
  /\ current = 0
  /\ pinned = FALSE /\ retiring = FALSE /\ signIn = FALSE
  /\ calls = [b \in Callers |-> Idle]
  /\ enabled \in BOOLEAN /\ account = FALSE
  /\ supervisor = "idle" /\ rounds = 0
  /\ events \in Budgets

Event == events > 0 /\ events' = events - 1
----------------------------------------------------------------------------
(* Session rows *)

Active == {r \in RowIds : rows[r].state = "active"}

\* ORDER BY connected_at DESC, id DESC LIMIT 1
Newest(S) == CHOOSE r \in S : \A q \in S : q <= r

Revoked(table, S, why) ==
  [r \in RowIds |-> IF r \in S /\ table[r].state = "active"
                      THEN [state |-> "revoked", key |-> 0, why |-> why]
                      ELSE table[r]]

RevokeSessionByID(r, why) == rows' = Revoked(rows, {r}, why)

\* A sign-in supersedes every active row and inserts its own.
SaveSession ==
  /\ ~signIn
  /\ \E r \in RowIds :
       /\ rows[r].state = "unused" /\ \A q \in 1..(r - 1) : rows[q].state # "unused"
       /\ rows' = [Revoked(rows, Active, "superseded")
                     EXCEPT ![r] = [state |-> "active", key |-> r, why |-> ""]]
  /\ signIn' = TRUE
  /\ UNCHANGED <<dead, clients, pool, calls, agent, events>>

\* The hourly sweep revokes an expired row without touching the pool.
SweepSessions ==
  /\ Event
  /\ Active # {}
  /\ rows' = Revoked(rows, Active, "expired")
  /\ UNCHANGED <<dead, clients, pool, calls, signIn, agent>>

\* Telegram ends an authorization: the owner did it from another device, or
\* a later sign-in logged the superseded key out.
KeyDies ==
  /\ Event
  /\ \E r \in RowIds \ dead : rows[r].state # "unused" /\ dead' = dead \cup {r}
  /\ UNCHANGED <<rows, clients, pool, calls, signIn, agent>>
----------------------------------------------------------------------------
(* Eviction *)

\* The entry leaves the map, is marked stopped, and its context is cancelled.
Evict ==
  /\ current' = 0
  /\ clients' = IF current = 0 THEN clients
                ELSE [clients EXCEPT ![current].stopped = TRUE,
                                     ![current].cancelled = TRUE]

Close == Evict /\ UNCHANGED <<pinned, retiring>>

EvictPooledClient ==
  /\ signIn
  /\ signIn' = FALSE
  /\ Close
  /\ UNCHANGED <<rows, dead, calls, agent, events>>

\* Disconnect and delete: the eviction and the revocation of the rows are
\* one critical section; the entry is gone even when the revocation fails.
RemoveAtomic ==
  /\ Event
  /\ Active # {}
  /\ Evict /\ UNCHANGED <<pinned, retiring>>
  /\ \/ rows' = rows
     \/ rows' = Revoked(rows, Active, "removed")
  /\ UNCHANGED <<dead, calls, signIn, agent>>
----------------------------------------------------------------------------
(* The run goroutine of a client *)

\* LoadSession: the newest active row.  Its id is kept once and for all.
LoadedRow(c, r) == IF clients[c].row = 0 THEN r ELSE clients[c].row

LoadSession(c) ==
  /\ clients[c].run = "start"
  /\ ~clients[c].cancelled
  /\ clients' = [clients EXCEPT ![c] =
       IF Active = {} THEN [@ EXCEPT !.run = "exited", !.exit = "none"]
       ELSE [@ EXCEPT !.run = "loaded", !.row = LoadedRow(c, Newest(Active)),
                      !.key = rows[Newest(Active)].key]]
  /\ UNCHANGED <<rows, dead, pool, calls, signIn, agent, events>>

\* gotd may read its storage again; it then holds the key it read or keeps
\* the one it has.
ReloadSession(c) ==
  /\ Event
  /\ clients[c].run = "up" /\ ~clients[c].cancelled /\ Active # {}
  /\ \E k \in {clients[c].key, rows[Newest(Active)].key} :
       clients' = [clients EXCEPT ![c].row = LoadedRow(c, Newest(Active)),
                                  ![c].key = k]
  /\ UNCHANGED <<rows, dead, pool, calls, signIn, agent>>

\* StoreSession: gotd writes the session it runs on into the row it loaded.
UpdateSessionBlobByID(c) ==
  rows' = [rows EXCEPT ![clients[c].row].key =
             IF rows[clients[c].row].state = "active" THEN clients[c].key ELSE @]
UpdateSessionBlob(c) ==
  rows' = [r \in RowIds |-> IF r \in Active THEN [rows[r] EXCEPT !.key = clients[c].key]
                            ELSE rows[r]]

StoreSession(c) ==
  /\ clients[c].run = "up"
  /\ clients[c].row # 0
  /\ UpdateSessionBlobByID(c)
  /\ UNCHANGED <<dead, clients, pool, calls, signIn, agent, events>>

\* client.Run connects and calls fn, which closes ready; or it returns.
Connect(c) ==
  /\ clients[c].run = "loaded"
  /\ ~clients[c].cancelled
  /\ clients' = [clients EXCEPT ![c] =
       IF clients[c].key \in dead THEN [@ EXCEPT !.run = "exited", !.exit = "auth"]
       ELSE [@ EXCEPT !.run = "up", !.ready = TRUE]]
  /\ UNCHANGED <<rows, dead, pool, calls, signIn, agent, events>>

\* RunFor: the update manager runs while the account is still registered.
RunFor(c) ==
  /\ clients[c].run = "up" /\ clients[c].wired /\ ~clients[c].listens
  /\ account
  /\ clients' = [clients EXCEPT ![c].listens = TRUE]
  /\ UNCHANGED <<rows, dead, pool, calls, signIn, agent, events>>

\* client.Run returns: cancelled, the update manager's call rejected, or the
\* connection lost.
RunReturns(c) ==
  /\ clients[c].run \in {"start", "loaded", "up"}
  /\ \/ /\ clients[c].cancelled
        /\ clients' = [clients EXCEPT ![c].run = "exited", ![c].listens = FALSE]
        /\ UNCHANGED events
     \/ /\ clients[c].listens /\ clients[c].key \in dead
        /\ clients' = [clients EXCEPT ![c].run = "exited", ![c].exit = "auth",
                                      ![c].listens = FALSE]
        /\ UNCHANGED events
     \/ /\ Event
        /\ clients' = [clients EXCEPT ![c].run = "exited", ![c].exit = "other",
                                      ![c].listens = FALSE]
  /\ UNCHANGED <<rows, dead, pool, calls, signIn, agent>>

Owns(c) == current = c

\* The first critical section of finishRun: only the entry that exited is
\* taken from the map, and a rejected one leaves the user retiring.
finishRun(c) ==
  /\ clients[c].run = "exited"
  /\ LET rejected == Owns(c) /\ clients[c].exit = "auth"
     IN  /\ clients' = [clients EXCEPT ![c].stopped = TRUE,
               ![c].ready = @ \/ clients[c].exit # "nil",
               ![c].run = IF rejected THEN "revoke" ELSE "over"]
         /\ retiring' = (retiring \/ rejected)
         /\ current' = IF Owns(c) THEN 0 ELSE current
  /\ UNCHANGED <<rows, dead, pinned, calls, signIn, agent, events>>

\* Its database call, outside the mutex and bounded by a timeout, and the
\* deferred end of the retirement.
finishRunRevoke(c) ==
  /\ clients[c].run = "revoke"
  /\ clients' = [clients EXCEPT ![c].run = "over"]
  /\ retiring' = FALSE
  /\ \/ RevokeSessionByID(clients[c].row, "unauthorized") /\ UNCHANGED events
     \/ Event /\ UNCHANGED rows
  /\ UNCHANGED <<dead, current, pinned, calls, signIn, agent>>

\* The gc goroutine reads stopped and lastUsed under the mutex, then asks
\* isPinned, and cancels the entry it started with after both.
gc(c) ==
  /\ clients[c].run # "none" /\ ~clients[c].cancelled
  /\ \/ /\ Event
        /\ ~clients[c].stopped /\ ~pinned /\ ~clients[c].closing
        /\ clients' = [clients EXCEPT ![c].closing = TRUE]
     \/ /\ clients[c].closing
        /\ clients' = [clients EXCEPT ![c].closing = FALSE, ![c].cancelled = TRUE]
        /\ UNCHANGED events
  /\ UNCHANGED <<rows, dead, pool, calls, signIn, agent>>
----------------------------------------------------------------------------
(* Borrow *)

At(b, at) == [calls EXCEPT ![b].at = at]
Returns(b) == calls' = [calls EXCEPT ![b] = [Idle EXCEPT !.at = "done"]]

\* CheckSessionValid reads the newest row; an expired one is revoked by a
\* second statement.
CheckSessionValid(b) ==
  /\ \/ Active = {} /\ Returns(b) /\ UNCHANGED events
     \/ Active # {} /\ calls' = At(b, "checked") /\ UNCHANGED events
     \/ /\ Event /\ Active # {}
        /\ calls' = [calls EXCEPT ![b].at = "expired", ![b].row = Newest(Active)]
  /\ UNCHANGED <<rows, dead, clients, pool, signIn>>

Borrow(b) ==
  /\ calls[b].at = "idle"
  /\ CheckSessionValid(b)
  /\ UNCHANGED agent

RevokeExpired(b) ==
  /\ calls[b].at = "expired"
  /\ RevokeSessionByID(calls[b].row, "expired")
  /\ Returns(b)
  /\ UNCHANGED <<dead, clients, pool, signIn, agent, events>>

FaultyAcquire(b) ==
  /\ calls[b].at = "checked"
  /\ \/ /\ current # 0 /\ ~clients[current].stopped
        /\ calls' = [calls EXCEPT ![b].at = "waiting", ![b].client = current]
        /\ UNCHANGED <<clients, current, events>>
     \/ /\ current = 0
        /\ \E c \in Clients :
             /\ clients[c].run = "none" /\ \A d \in 1..(c - 1) : clients[d].run # "none"
             /\ clients' = [clients EXCEPT ![c].run = "start", ![c].wired = account]
             /\ current' = c
             /\ calls' = [calls EXCEPT ![b].at = "waiting", ![b].client = c]
        /\ UNCHANGED events
  /\ UNCHANGED <<rows, dead, pinned, retiring, signIn, agent>>

\* acquire: refused while the user is retiring; the live entry; refused when
\* the pool is full (other users' entries are not modelled, so a full pool
\* is an outside event); or a new client, wired to the update manager
\* when the listener has the account.
acquire(b) ==
  /\ calls[b].at = "checked"
  /\ \/ retiring /\ Returns(b) /\ UNCHANGED <<clients, current, events>>
     \/ /\ ~retiring /\ current # 0 /\ ~clients[current].stopped
        /\ calls' = [calls EXCEPT ![b].at = "waiting", ![b].client = current]
        /\ UNCHANGED <<clients, current, events>>
     \/ /\ ~retiring /\ current = 0
        /\ \E c \in Clients :
             /\ clients[c].run = "none" /\ \A d \in 1..(c - 1) : clients[d].run # "none"
             /\ clients' = [clients EXCEPT ![c].run = "start", ![c].wired = account]
             /\ current' = c
             /\ calls' = [calls EXCEPT ![b].at = "waiting", ![b].client = c]
        /\ UNCHANGED events
     \/ /\ Event /\ ~retiring /\ current = 0
        /\ Returns(b) /\ UNCHANGED <<clients, current>>
  /\ UNCHANGED <<rows, dead, pinned, retiring, signIn, agent>>

\* The row the client loaded is revoked and the client evicted, all inside
\* the mutex; a replacement entry is left alone.
revokeRejected(b) ==
  LET c == calls[b].client
  IN  /\ current' = IF Owns(c) THEN 0 ELSE current
      /\ clients' = [clients EXCEPT ![c].stopped = TRUE, ![c].cancelled = TRUE]
      /\ \/ RevokeSessionByID(clients[c].row, "unauthorized") /\ UNCHANGED events
         \/ Event /\ UNCHANGED rows
      /\ Returns(b)

\* Borrow waits for ready.  A client that failed to run fails the call, and
\* a rejected session is revoked; otherwise fn is called.
Await(b) ==
  LET e == clients[calls[b].client]
  IN  /\ calls[b].at = "waiting"
      /\ e.ready
      /\ \/ e.stopped /\ e.exit = "auth" /\ revokeRejected(b)
         \/ /\ e.stopped /\ e.exit \in {"none", "other"}
            /\ Returns(b) /\ UNCHANGED <<rows, clients, current, events>>
         \/ /\ e.exit = "nil" \/ ~e.stopped
            /\ calls' = At(b, "calling")
            /\ UNCHANGED <<rows, clients, current, events>>
      /\ UNCHANGED <<dead, pinned, retiring, signIn, agent>>

\* The caller's context ends before the client is ready.
GiveUp(b) ==
  /\ calls[b].at = "waiting"
  /\ Event
  /\ Returns(b)
  /\ UNCHANGED <<rows, dead, clients, pool, signIn, agent>>

\* fn returns: it did its work, or its request was rejected.
CallReturns(b) ==
  LET e == clients[calls[b].client]
  IN  /\ calls[b].at = "calling"
      /\ \/ Returns(b) /\ UNCHANGED <<rows, clients, current, events>>
         \/ e.key \in dead /\ e.run = "up" /\ revokeRejected(b)
      /\ UNCHANGED <<dead, pinned, retiring, signIn, agent>>
----------------------------------------------------------------------------
(* The listener supervisor *)

SetEnabled ==
  /\ Event
  /\ enabled' = ~enabled
  /\ UNCHANGED <<rows, dead, clients, pool, calls, signIn, account, supervisor, rounds>>

\* One pass: a listener without an enabled profile or an active session is
\* taken down; one with both is registered first and pinned after that.
reconcile ==
  /\ supervisor = "idle" /\ rounds < MaxRounds
  /\ rounds' = rounds + 1
  /\ \/ /\ enabled /\ Active # {}
        /\ account' = TRUE /\ supervisor' = "pin"
     \/ /\ ~(enabled /\ Active # {})
        /\ supervisor' = IF account THEN "unpin" ELSE "idle"
        /\ UNCHANGED account
  /\ UNCHANGED <<rows, dead, clients, pool, calls, signIn, enabled, events>>

Wired == current # 0 /\ ~clients[current].stopped /\ clients[current].wired
Unwired == current # 0 /\ ~clients[current].stopped /\ ~clients[current].wired

Unpin ==
  /\ \/ /\ supervisor = "unpin"
        /\ pinned' = FALSE
        /\ supervisor' = IF Wired THEN "closeListener" ELSE "remove"
        /\ UNCHANGED <<clients, current, retiring>>
     \/ supervisor = "closeListener" /\ Close /\ supervisor' = "remove"
  /\ UNCHANGED <<rows, dead, calls, signIn, enabled, account, rounds, events>>

RemoveAccount ==
  /\ supervisor = "remove"
  /\ account' = FALSE /\ supervisor' = "idle"
  /\ UNCHANGED <<rows, dead, clients, pool, calls, signIn, enabled, rounds, events>>

Pin ==
  /\ \/ /\ supervisor = "pin"
        /\ pinned' = TRUE
        /\ supervisor' = IF Unwired THEN "closeUnwired" ELSE "borrow"
        /\ UNCHANGED <<clients, current, retiring>>
     \/ supervisor = "closeUnwired" /\ Close /\ supervisor' = "borrow"
  /\ UNCHANGED <<rows, dead, calls, signIn, enabled, account, rounds, events>>

\* The supervisor's own Borrow, which (re)creates the pinned client.
ProbeBorrow ==
  \/ /\ supervisor = "borrow" /\ calls[Probe].at = "idle"
     /\ CheckSessionValid(Probe)
     /\ supervisor' = "probe"
     /\ UNCHANGED <<enabled, account, rounds>>
  \/ /\ supervisor = "probe" /\ calls[Probe].at = "done"
     /\ calls' = [calls EXCEPT ![Probe] = Idle]
     /\ supervisor' = "idle"
     /\ UNCHANGED <<rows, dead, clients, pool, signIn, enabled, account, rounds, events>>
----------------------------------------------------------------------------
ClientStep(c) ==
  \/ LoadSession(c) \/ ReloadSession(c) \/ StoreSession(c) \/ Connect(c)
  \/ RunFor(c) \/ RunReturns(c) \/ finishRun(c) \/ finishRunRevoke(c) \/ gc(c)

CallStep(b) ==
  RevokeExpired(b) \/ acquire(b) \/ Await(b) \/ GiveUp(b) \/ CallReturns(b)

Next ==
  \/ SaveSession \/ SweepSessions \/ KeyDies
  \/ EvictPooledClient \/ RemoveAtomic
  \/ \E c \in Clients : ClientStep(c)
  \/ \E b \in Calls : Borrow(b)
  \/ \E b \in Callers : CallStep(b)
  \/ SetEnabled \/ reconcile \/ Unpin \/ RemoveAccount \/ Pin \/ ProbeBorrow

Spec == Init /\ [][Next]_vars
----------------------------------------------------------------------------
\* A row is revoked as "unauthorized" only when Telegram rejected the very
\* key that row was saved with: a stale client's late rejection, from a call
\* or from its run goroutine, never ends the session a newer sign-in saved.
RejectedRowOnly ==
  \A r \in RowIds : rows[r].why = "unauthorized" => r \in dead

\* An active row always holds the key it was saved with: a client that goes
\* on running after its row was superseded cannot write its session into the
\* row that replaced it.
RowKeepsItsKey ==
  \A r \in Active : rows[r].key = r

\* While finishRun has yet to revoke the rejected row (outside the mutex), no
\* client of the user is in the pool that could have loaded it again.
RetiringExcludes == retiring => current = 0

\* Once a disconnect or a deletion has committed, no client in the pool runs
\* on a row it ended, whatever Borrow was in flight.
RemovedNotPooled ==
  current # 0 /\ clients[current].row # 0
    => rows[clients[current].row].why # "removed"

\* Between reconciliations, the client of a pinned listener has the update
\* handler: enabling the agent never leaves an older client without it in
\* the pool, exempt from idle collection and receiving nothing.
PinnedIsWired ==
  supervisor = "idle" /\ pinned /\ current # 0 => clients[current].wired
=============================================================================
