------------------------------ MODULE BridgeHub ------------------------------
(***************************************************************************)
(* The Local Bridge relay of one user (internal/bridge/hub.go, server.go). *)
(*                                                                         *)
(* A daemon's websocket is served by a handler that checks the device in   *)
(* the database, registers with the hub and then runs a reader and a       *)
(* writer.  Tool calls look the connection up, verify its device, take one *)
(* of maxPendingCalls slots and queue an envelope on outbound; a pump      *)
(* moves envelopes to send and is the only one to close it.  Removing a    *)
(* connection from the map and retiring it are two steps: doomed marks the *)
(* connection in between.                                                  *)
(*                                                                         *)
(* Users share no hub state, so one user is modelled.  Call ids are fresh  *)
(* UUIDs, so a call is its own id.  Authentication, the account mode and   *)
(* the metrics are left out; pings appear as the deadline that ends the    *)
(* reader of a stalled daemon, one that neither reads nor writes.  The     *)
(* handler refuses an empty device id, so Call never meets one.            *)
(*                                                                         *)
(* An operator named Faulty... is a plausible bug in the definition that   *)
(* follows it; no specification uses it.                                   *)
(***************************************************************************)
EXTENDS Naturals, Sequences, FiniteSets

CONSTANTS
    Devices,          \* the user's registered devices
    Conns,            \* bound: websocket connections ever opened
    Calls,            \* bound: tool calls ever made
    outboundCap,      \* capacity of outbound
    sendCap,          \* capacity of send
    maxPendingCalls,
    MaxRestarts,      \* bound
    None

ASSUME NoneAssumption == None \notin Devices \cup Conns \cup Calls
ASSUME CapAssumption ==
    /\ outboundCap \in Nat /\ sendCap \in Nat
    /\ maxPendingCalls \in Nat /\ MaxRestarts \in Nat
ASSUME CallsAssumption == IsFiniteSet(Calls)

VARIABLES
    active,   \* devices whose row has revoked_at NULL
    revoke,   \* [Devices -> progress of revoke_local_bridge_device]
    blocked,  \* blockedDevices
    current,  \* the user's entry of conn
    sock,     \* [Conns -> the websocket handler and its daemonConn]
    count,    \* [Conns -> pendingCount]
    call,     \* [Calls -> the goroutine in Hub.Call]
    latest,   \* history: the connection registered last
    restarts

vars == <<active, revoke, blocked, current, sock, count, call, latest, restarts>>

Handler ==
    [pc : {"new", "checked", "replacing", "open", "ending", "closing", "closed"},
     dev : Devices \cup {None}, prev : Conns \cup {None},
     doomed : BOOLEAN, retired : BOOLEAN, stalled : BOOLEAN,
     outbound : Seq(Calls), send : Seq(Calls), wire : SUBSET Calls]

Calling ==
    [pc : {"idle", "verify", "evict", "admit", "reject", "enqueue", "wait", "returned"},
     conn : Conns \cup {None}, late : BOOLEAN]

Revoking ==
    [pc : {"no", "committed", "evicting", "done", "untold"}, conn : Conns \cup {None}]

TypeOK ==
    /\ active \subseteq Devices /\ blocked \subseteq Devices
    /\ revoke \in [Devices -> Revoking]
    /\ current \in Conns \cup {None} /\ latest \in Conns \cup {None}
    /\ sock \in [Conns -> Handler]
    /\ count \in [Conns -> Nat]
    /\ call \in [Calls -> Calling]
    /\ restarts \in 0..MaxRestarts

Init ==
    /\ active = Devices /\ blocked = {}
    /\ revoke = [d \in Devices |-> [pc |-> "no", conn |-> None]]
    /\ current = None /\ latest = None
    /\ sock = [c \in Conns |->
         [pc |-> "new", dev |-> None, prev |-> None,
          doomed |-> FALSE, retired |-> FALSE, stalled |-> FALSE,
          outbound |-> <<>>, send |-> <<>>, wire |-> {}]]
    /\ count = [c \in Conns |-> 0]
    /\ call = [k \in Calls |->
         [pc |-> "idle", conn |-> None, late |-> FALSE]]
    /\ restarts = 0

hubVars == <<blocked, current, latest>>

-----------------------------------------------------------------------------
(* The websocket handler. *)

\* newBridgeHandler up to the registration: the device must be active now.
Admit(c) ==
    \E d \in active :
        /\ sock[c].pc = "new"
        /\ sock' = [sock EXCEPT ![c].pc = "checked", ![c].dev = d]
        /\ UNCHANGED <<active, revoke, hubVars, count, call, restarts>>

\* Takes the entry whatever the block set says.
FaultyTryRegister(c) ==
    /\ sock[c].pc = "checked"
    /\ current' = c /\ latest' = c
    /\ sock' = [b \in Conns |->
         IF b = c THEN [sock[c] EXCEPT !.pc = "replacing", !.prev = current]
         ELSE [sock[b] EXCEPT !.doomed = @ \/ b = current]]
    /\ UNCHANGED <<active, revoke, blocked, count, call, restarts>>

\* TryRegister under the mutex: refuse a blocked device, else replace.
TryRegister(c) ==
    /\ sock[c].pc = "checked"
    /\ \/ /\ sock[c].dev \in blocked
          /\ sock' = [sock EXCEPT ![c].pc = "closed"]
          /\ UNCHANGED hubVars
       \/ /\ sock[c].dev \notin blocked
          /\ current' = c /\ latest' = c
          /\ sock' = [b \in Conns |->
               IF b = c THEN [sock[c] EXCEPT !.pc = "replacing", !.prev = current]
               ELSE [sock[b] EXCEPT !.doomed = @ \/ b = current]]
          /\ UNCHANGED blocked
    /\ UNCHANGED <<active, revoke, count, call, restarts>>

\* TryRegister returns once the connection it replaced is retired, and the
\* handler starts its reader and writer.
Serve(c) ==
    /\ sock[c].pc = "replacing"
    /\ sock[c].prev # None => sock[sock[c].prev].retired
    /\ sock' = [sock EXCEPT ![c].pc = "open", ![c].prev = None]
    /\ UNCHANGED <<active, revoke, hubVars, count, call, restarts>>

Serving(c) == sock[c].pc \in {"open", "ending"}

\* The writer has taken an envelope from send and writes the frame.
Write(c) ==
    /\ Serving(c) /\ ~sock[c].stalled
    /\ sock[c].send # <<>>
    /\ sock' = [sock EXCEPT ![c].send = Tail(@), ![c].wire = @ \cup {Head(sock[c].send)}]
    /\ UNCHANGED <<active, revoke, hubVars, count, call, restarts>>

\* The writer finds send closed and drained.
WriterStops(c) ==
    /\ sock[c].pc = "open" /\ sock[c].retired /\ sock[c].send = <<>>
    /\ sock' = [sock EXCEPT ![c].pc = "ending"]
    /\ UNCHANGED <<active, revoke, hubVars, count, call, restarts>>

\* The socket breaks, or the reader passes its read deadline.
Disconnect(c) ==
    /\ sock[c].pc = "open"
    /\ sock' = [sock EXCEPT ![c].pc = "ending"]
    /\ UNCHANGED <<active, revoke, hubVars, count, call, restarts>>

\* The daemon stops reading and answering, pings included.
Stall(c) ==
    /\ sock[c].pc = "open" /\ ~sock[c].stalled
    /\ sock' = [sock EXCEPT ![c].stalled = TRUE]
    /\ UNCHANGED <<active, revoke, hubVars, count, call, restarts>>

\* Unregister: drops whatever connection the user has by now.
FaultyUnregister(c) ==
    /\ sock[c].pc = "ending"
    /\ current' = None
    /\ sock' = [b \in Conns |->
         [sock[b] EXCEPT !.pc = IF b = c THEN "closing" ELSE @, !.doomed = @ \/ b = current]]
    /\ UNCHANGED <<active, revoke, blocked, latest, count, call, restarts>>

\* What is left of a connection once nothing reads send any more.
Gone(c) == [sock[c] EXCEPT !.pc = "closed", !.stalled = FALSE, !.prev = None,
                           !.outbound = <<>>, !.send = <<>>, !.wire = {}]

\* Removes the entry and leaves the connection running.
FaultyForgets(c) ==
    /\ sock[c].pc = "ending"
    /\ current' = IF current = c THEN None ELSE current
    /\ sock' = [sock EXCEPT ![c].pc = "closed"]
    /\ UNCHANGED <<active, revoke, blocked, latest, count, call, restarts>>

\* The handler's cleanup: retire the connection if it is still the user's.
UnregisterSend(c) ==
    /\ sock[c].pc = "ending"
    /\ \/ /\ current = c
          /\ current' = None
          /\ sock' = [sock EXCEPT ![c].pc = "closing", ![c].doomed = TRUE]
       \/ /\ current # c
          /\ sock' = [sock EXCEPT ![c] = Gone(c)]
          /\ UNCHANGED current
    /\ UNCHANGED <<active, revoke, blocked, latest, count, call, restarts>>

Closed(c) ==
    /\ sock[c].pc = "closing" /\ sock[c].retired
    /\ sock' = [sock EXCEPT ![c] = Gone(c)]
    /\ UNCHANGED <<active, revoke, hubVars, count, call, restarts>>

-----------------------------------------------------------------------------
(* The connection's pump and its retirement. *)

\* Whoever took c out of the map closes done and waits for the pump to stop.
\* What the pump still forwards in between it could have forwarded before, so
\* this is one step.
Retire(c) ==
    /\ sock[c].doomed /\ ~sock[c].retired
    /\ sock' = [sock EXCEPT ![c].retired = TRUE]
    /\ UNCHANGED <<active, revoke, hubVars, count, call, restarts>>

\* The envelope in the pump's hand is the head of outbound, the one in the
\* writer's hand, once there is a writer, the head of send.
Forward(c) ==
    /\ ~sock[c].retired
    /\ sock[c].outbound # <<>>
    /\ Len(sock[c].send) < IF Serving(c) THEN sendCap + 1 ELSE sendCap
    /\ sock' = [sock EXCEPT ![c].send = Append(@, Head(sock[c].outbound)), ![c].outbound = Tail(@)]
    /\ UNCHANGED <<active, revoke, hubVars, count, call, restarts>>

-----------------------------------------------------------------------------
(* revoke_local_bridge_device. *)

\* RevokeDeviceAndDenylist, in this process or in another one; the owner may
\* repeat a revocation that this hub was never told of.
RevokeDevice(d) ==
    /\ revoke[d].pc \in {"no", "untold"}
    /\ active' = active \ {d}
    /\ \E how \in {"committed", "untold"} : revoke' = [revoke EXCEPT ![d].pc = how]
    /\ UNCHANGED <<hubVars, sock, count, call, restarts>>

Connected(d) == current # None /\ sock[current].dev = d

\* BlockDevice under the mutex.
BlockDevice(d) ==
    /\ revoke[d].pc = "committed"
    /\ blocked' = blocked \cup {d}
    /\ \/ /\ Connected(d)
          /\ current' = None
          /\ sock' = [sock EXCEPT ![current].doomed = TRUE]
          /\ revoke' = [revoke EXCEPT ![d] = [pc |-> "evicting", conn |-> current]]
       \/ /\ ~Connected(d)
          /\ revoke' = [revoke EXCEPT ![d].pc = "done"]
          /\ UNCHANGED <<current, sock>>
    /\ UNCHANGED <<active, latest, count, call, restarts>>

\* BlockDevice returns when retire does.
Evicted(d) ==
    /\ revoke[d].pc = "evicting"
    /\ sock[revoke[d].conn].retired
    /\ revoke' = [revoke EXCEPT ![d] = [pc |-> "done", conn |-> None]]
    /\ UNCHANGED <<active, hubVars, sock, count, call, restarts>>

-----------------------------------------------------------------------------
(* Hub.Call. *)

\* Call returns; what it returns is the name of the action that does.
Return(k) == call' = [call EXCEPT ![k].pc = "returned", ![k].conn = None]

\* Look the connection up.  late records whether its device had already been
\* revoked when the call was made.
Call(k) ==
    /\ call[k].pc = "idle"
    /\ \/ /\ current = None
          /\ Return(k)
       \/ /\ current # None
          /\ call' = [call EXCEPT ![k].pc = "verify", ![k].conn = current,
                                  ![k].late = sock[current].dev \notin active]
    /\ UNCHANGED <<active, revoke, hubVars, sock, count, restarts>>

\* verifyDevice.  A revoked device is blocked here too and the connection,
\* if it is still the user's, is taken out of the map (retireConnection).
Verify(k) ==
    /\ call[k].pc = "verify"
    /\ LET c == call[k].conn IN
       \/ /\ Return(k)
          /\ UNCHANGED <<hubVars, sock>>
       \/ /\ sock[c].dev \in active
          /\ call' = [call EXCEPT ![k].pc = "admit"]
          /\ UNCHANGED <<hubVars, sock>>
       \/ /\ sock[c].dev \notin active
          /\ blocked' = blocked \cup {sock[c].dev}
          /\ \/ /\ current = c
                /\ current' = None
                /\ sock' = [sock EXCEPT ![c].doomed = TRUE]
                /\ call' = [call EXCEPT ![k].pc = "evict"]
             \/ /\ current # c
                /\ Return(k)
                /\ UNCHANGED <<current, sock>>
          /\ UNCHANGED latest
    /\ UNCHANGED <<active, revoke, count, restarts>>

RetiredInactive(k) ==
    /\ call[k].pc = "evict" /\ sock[call[k].conn].retired
    /\ Return(k)
    /\ UNCHANGED <<active, revoke, hubVars, sock, count, restarts>>

\* The limit is compared before the slot is counted.
FaultyTakeSlot(k) ==
    LET c == call[k].conn IN
    /\ call[k].pc = "admit"
    /\ \/ sock[c].retired /\ Return(k) /\ UNCHANGED count
       \/ /\ ~sock[c].retired
          /\ count' = [count EXCEPT ![c] = @ + 1]
          /\ call' = [call EXCEPT ![k].pc =
               IF count[c] > maxPendingCalls THEN "reject" ELSE "enqueue"]
    /\ UNCHANGED <<active, revoke, hubVars, sock, restarts>>

\* The check of done, then pendingCount.Add(1).
TakeSlot(k) ==
    LET c == call[k].conn IN
    /\ call[k].pc = "admit"
    /\ \/ sock[c].retired /\ Return(k) /\ UNCHANGED count
       \/ /\ ~sock[c].retired
          /\ count' = [count EXCEPT ![c] = @ + 1]
          /\ call' = [call EXCEPT ![k].pc =
               IF count[c] + 1 > maxPendingCalls THEN "reject" ELSE "enqueue"]
    /\ UNCHANGED <<active, revoke, hubVars, sock, restarts>>

\* Return and run the deferred Add(-1) and pending.Delete.
Leave(k) ==
    /\ Return(k)
    /\ count' = [count EXCEPT ![call[k].conn] = @ - 1]
    /\ UNCHANGED <<active, revoke, hubVars, sock, restarts>>

Reject(k) == call[k].pc = "reject" /\ Leave(k)

\* outbound holds outboundCap envelopes, and the pump one.
Enqueue(k) ==
    LET c == call[k].conn IN
    /\ call[k].pc = "enqueue" /\ Len(sock[c].outbound) <= outboundCap
    /\ sock' = [sock EXCEPT ![c].outbound = Append(@, k)]
    /\ call' = [call EXCEPT ![k].pc = "wait"]
    /\ UNCHANGED <<active, revoke, hubVars, count, restarts>>

Holding(k) == call[k].pc \in {"enqueue", "wait"}

Cancelled(k) == Holding(k) /\ Leave(k)

ConnectionRetired(k) == Holding(k) /\ sock[call[k].conn].retired /\ Leave(k)

Deadline(k) == call[k].pc = "wait" /\ Leave(k)

\* The daemon answers a frame it got on c; the reader of c hands the answer to
\* the pending calls of the connection the user has by then (Deliver), where
\* the call takes it.  Any other answer is dropped.
Answered(c, k) ==
    /\ k \in sock[c].wire /\ ~sock[c].stalled
    /\ current # None /\ call[k].conn = current
    /\ call[k].pc = "wait" /\ Leave(k)

-----------------------------------------------------------------------------
\* The process restarts: the hub's memory and every goroutine are gone.
Restart ==
    /\ restarts < MaxRestarts
    /\ restarts' = restarts + 1
    /\ blocked' = {} /\ current' = None
    /\ sock' = [c \in Conns |->
         IF sock[c].pc = "new" THEN sock[c]
         ELSE [Gone(c) EXCEPT !.doomed = TRUE, !.retired = TRUE]]
    /\ count' = [c \in Conns |-> 0]
    /\ call' = [k \in Calls |->
         IF call[k].pc \in {"idle", "returned"} THEN call[k]
         ELSE [call[k] EXCEPT !.pc = "returned", !.conn = None]]
    /\ revoke' = [d \in Devices |->
         IF revoke[d].pc \in {"committed", "evicting"}
         THEN [pc |-> "untold", conn |-> None] ELSE revoke[d]]
    /\ UNCHANGED <<active, latest>>

HandlerStep(c) ==
    \/ Admit(c) \/ TryRegister(c) \/ Serve(c) \/ Write(c) \/ WriterStops(c)
    \/ Disconnect(c) \/ Stall(c) \/ UnregisterSend(c) \/ Closed(c)
PumpStep(c) == Retire(c) \/ Forward(c)
RevokeStep(d) == RevokeDevice(d) \/ BlockDevice(d) \/ Evicted(d)
CallStep(k) ==
    \/ Call(k) \/ Verify(k) \/ RetiredInactive(k) \/ TakeSlot(k) \/ Reject(k) \/ Enqueue(k)
    \/ Cancelled(k) \/ ConnectionRetired(k) \/ Deadline(k)

Next ==
    \/ \E c \in Conns : HandlerStep(c) \/ PumpStep(c) \/ \E k \in Calls : Answered(c, k)
    \/ \E d \in Devices : RevokeStep(d)
    \/ \E k \in Calls : CallStep(k)
    \/ Restart

Spec == Init /\ [][Next]_vars

\* The steps of a handler, of a revocation and of a call that its goroutine
\* takes by itself; each leaves the point it is taken at.
HandlerRuns(c) ==
    \/ TryRegister(c) \/ Serve(c) \/ WriterStops(c)
    \/ sock[c].stalled /\ Disconnect(c)
    \/ UnregisterSend(c) \/ Closed(c)
RevokeRuns(d) == BlockDevice(d) \/ Evicted(d)
CallRuns(k) ==
    \/ Verify(k) \/ RetiredInactive(k) \/ TakeSlot(k) \/ Reject(k)
    \/ Enqueue(k) \/ ConnectionRetired(k) \/ Deadline(k)

\* Goroutines run, a channel operation that stays possible happens, a read of
\* a stalled socket reaches its deadline and a waiting call's timer fires.
\* Nothing is assumed of the daemon, of ctx or of the owner.
Fairness ==
    /\ \A c \in Conns :
         WF_vars(HandlerRuns(c)) /\ WF_vars(Write(c)) /\ WF_vars(Retire(c)) /\ WF_vars(Forward(c))
    /\ \A d \in Devices : WF_vars(RevokeRuns(d))
    /\ \A k \in Calls : WF_vars(CallRuns(k))

FairSpec == Spec /\ Fairness

-----------------------------------------------------------------------------
\* Once revoke_local_bridge_device has blocked a device, no connection of it
\* is the user's connection, although a handler may have checked the device
\* before the revocation and register after it, and although a restart
\* forgets the block set.
RevokedStaysOut ==
    \A d \in Devices :
        revoke[d].pc \in {"evicting", "done"} => ~Connected(d)

\* The connection registered last stays the user's connection while its
\* handler runs and its device is not blocked: neither the cleanup of an
\* earlier handler nor a call that holds an earlier connection removes it.
LiveConnectionKept ==
    latest # None /\ sock[latest].pc \in {"replacing", "open"} /\ sock[latest].dev \notin blocked
        => current = latest

\* At most maxPendingCalls calls of a connection are queued or waiting, with
\* any number of callers passing the check at once (ErrDaemonOverloaded).
PendingBound ==
    \A c \in Conns :
        Cardinality({k \in Calls : Holding(k) /\ call[k].conn = c}) <= maxPendingCalls

\* pendingCount counts exactly the calls between their Add(1) and Add(-1):
\* no way out of Call keeps a slot or gives one back twice.
SlotsBalance ==
    \A c \in Conns :
        count[c] = Cardinality({k \in Calls : call[k].conn = c /\ (Holding(k) \/ call[k].pc = "reject")})

\* A call made after its connection's device was revoked, by whatever replica,
\* is never written to that device's socket (verifyDevice before dispatch).
RevokedNotServed == \A c \in Conns : \A k \in sock[c].wire : ~call[k].late

\* A revoked device is cut off: it is neither connected once its revocation has
\* evicted it, nor handed a call that began later.
RevokedIsCutOff == RevokedStaysOut /\ RevokedNotServed

\* The slots of a connection are exact, and never more than its bound.
CallSlots == SlotsBalance /\ PendingBound

\* Every Hub.Call returns, whatever the daemon does: the wait for queue space
\* has no timer of its own and relies on the reader's deadline to retire the
\* connection of a stalled daemon.
EveryCallReturns == \A k \in Calls : call[k].pc # "idle" ~> call[k].pc = "returned"

\* After a revocation every socket of the device closes, also one that was
\* being replaced or admitted at that moment.
RevokedDisconnects ==
    \A d \in Devices : \A c \in Conns :
        revoke[d].pc = "done" /\ sock[c].dev = d ~> sock[c].pc = "closed"

\* Nothing hangs: calls return and revoked devices' sockets close.
BridgeSettles == EveryCallReturns /\ RevokedDisconnects
=============================================================================
