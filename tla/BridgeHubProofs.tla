--------------------------- MODULE BridgeHubProofs ---------------------------
(***************************************************************************)
(* Proofs about BridgeHub, for every set of devices, connections and       *)
(* calls, every queue capacity, call limit and number of restarts.         *)
(***************************************************************************)
EXTENDS BridgeHub, TLAPS

Registered(c) == sock[c].pc \notin {"new", "checked"}

\* The envelopes a connection still carries or has written.
Queued(h) ==
    {h.outbound[i] : i \in DOMAIN h.outbound} \cup {h.send[i] : i \in DOMAIN h.send} \cup h.wire

\* What holds of the map: its entry and the last registration are registered
\* connections, and a live last registration is the entry.  A connection past
\* its check has a device.
MapInv ==
    /\ \A c \in Conns : sock[c].pc # "new" => sock[c].dev \in Devices
    /\ current # None => Registered(current)
    /\ latest # None => Registered(latest)
    /\ LiveConnectionKept

\* A blocked device is inactive in the database, so only a handler that had
\* checked it before can still bring it in, and that one meets the block.
BlockInv ==
    /\ \A d \in Devices : revoke[d].pc # "no" => d \notin active
    /\ \A d \in Devices : revoke[d].pc \in {"evicting", "done"} =>
         \A c \in Conns : sock[c].pc = "checked" /\ sock[c].dev = d => d \in blocked
    /\ RevokedStaysOut

\* A call made too late finds its device inactive; the others are the only
\* ones that are dispatched.
CallInv ==
    /\ \A k \in Calls : call[k].pc \notin {"idle", "returned"} =>
         call[k].conn \in Conns /\ Registered(call[k].conn)
    /\ \A k \in Calls : call[k].pc = "verify" /\ call[k].late => sock[call[k].conn].dev \notin active
    /\ \A k \in Calls : call[k].pc \in {"admit", "reject", "enqueue", "wait"} => ~call[k].late
    /\ \A c \in Conns : \A k \in Queued(sock[c]) :
         k \in Calls /\ call[k].pc \in {"wait", "returned"} /\ ~call[k].late

SlotInv == SlotsBalance /\ PendingBound

Inv == TypeOK /\ MapInv /\ BlockInv /\ CallInv /\ SlotInv

-----------------------------------------------------------------------------
(* Queues. *)

LEMMA TailElements ==
    ASSUME NEW S, NEW s \in Seq(S), s # <<>>
    PROVE  /\ Tail(s) \in Seq(S) /\ Head(s) \in S
           /\ {Tail(s)[i] : i \in DOMAIN Tail(s)} \subseteq {s[i] : i \in DOMAIN s}
           /\ Head(s) \in {s[i] : i \in DOMAIN s}
<1>1. Tail(s) \in Seq(S) /\ Head(s) \in S /\ Len(s) \in Nat \ {0}
  OBVIOUS
<1>2. Head(s) = s[1] /\ 1 \in DOMAIN s
  BY <1>1
<1>3. ASSUME NEW i \in DOMAIN Tail(s) PROVE i + 1 \in DOMAIN s /\ Tail(s)[i] = s[i + 1]
  BY <1>1
<1> QED
  BY <1>1, <1>2, <1>3

LEMMA AppendElements ==
    ASSUME NEW S, NEW s \in Seq(S), NEW e \in S
    PROVE  /\ Append(s, e) \in Seq(S)
           /\ {Append(s, e)[i] : i \in DOMAIN Append(s, e)} \subseteq {s[i] : i \in DOMAIN s} \cup {e}
<1>1. Append(s, e) \in Seq(S)
  OBVIOUS
<1>2. ASSUME NEW i \in DOMAIN Append(s, e)
      PROVE  Append(s, e)[i] \in {s[j] : j \in DOMAIN s} \cup {e}
  <2>1. i \in 1..(Len(s) + 1)
    OBVIOUS
  <2>2. CASE i = Len(s) + 1
    BY <2>2
  <2>3. CASE i # Len(s) + 1
    <3>1. i \in DOMAIN s /\ Append(s, e)[i] = s[i]
      BY <2>1, <2>3
    <3> QED
      BY <3>1
  <2> QED
    BY <2>2, <2>3
<1> QED
  BY <1>1, <1>2

-----------------------------------------------------------------------------
(* Steps of one connection: its handler, its pump or its retirement moves. *)

\* What those steps have in common.
Moved(c) ==
    /\ sock' \in [Conns -> Handler]
    /\ \A b \in Conns : b # c => sock'[b] = sock[b]
    /\ sock'[c].dev = sock[c].dev
    /\ \/ sock'[c].pc = sock[c].pc
       \/ sock[c].pc \notin {"new", "checked"} /\ sock'[c].pc \notin {"new", "checked"}
    /\ sock'[c].pc \in {"replacing", "open"} => sock[c].pc \in {"replacing", "open"}
    /\ Queued(sock'[c]) \subseteq Queued(sock[c])

LEMMA MoveTo ==
    ASSUME sock \in [Conns -> Handler], NEW c \in Conns, NEW q \in Handler,
           sock' = [sock EXCEPT ![c] = q],
           q.dev = sock[c].dev,
           \/ q.pc = sock[c].pc
           \/ sock[c].pc \notin {"new", "checked"} /\ q.pc \notin {"new", "checked"},
           q.pc \in {"replacing", "open"} => sock[c].pc \in {"replacing", "open"},
           Queued(q) \subseteq Queued(sock[c])
    PROVE  Moved(c)
<1>1. sock'[c] = q /\ sock' \in [Conns -> Handler] /\ \A b \in Conns : b # c => sock'[b] = sock[b]
  OBVIOUS
<1> QED
  BY <1>1 DEF Moved

LEMMA GoneType ==
    ASSUME sock \in [Conns -> Handler], NEW c \in Conns
    PROVE  /\ Gone(c) \in Handler /\ Gone(c).pc = "closed" /\ Gone(c).dev = sock[c].dev
           /\ Queued(Gone(c)) = {}
<1>1. sock[c] \in Handler
  OBVIOUS
<1>2. <<>> \in Seq(Calls) /\ DOMAIN <<>> = {}
  OBVIOUS
<1>3. /\ Gone(c) \in Handler /\ Gone(c).pc = "closed" /\ Gone(c).dev = sock[c].dev
      /\ Gone(c).outbound = <<>> /\ Gone(c).send = <<>> /\ Gone(c).wire = {}
  BY <1>1, <1>2 DEF Gone, Handler
<1> QED
  BY <1>2, <1>3 DEF Queued

LEMMA HandlerMoves ==
    ASSUME TypeOK, NEW c \in Conns,
           \/ Serve(c) \/ WriterStops(c) \/ Disconnect(c) \/ Stall(c) \/ Closed(c) \/ Retire(c)
    PROVE  Moved(c)
<1>t. sock \in [Conns -> Handler] /\ sock[c] \in Handler
  BY DEF TypeOK
<1>1. CASE Serve(c)
  <2> DEFINE q == [sock[c] EXCEPT !.pc = "open", !.prev = None]
  <2>1. /\ q \in Handler /\ q.pc = "open" /\ q.dev = sock[c].dev /\ q.outbound = sock[c].outbound
        /\ q.send = sock[c].send /\ q.wire = sock[c].wire
    BY <1>t DEF Handler
  <2>2. sock' = [sock EXCEPT ![c] = q] /\ sock[c].pc = "replacing"
    BY <1>1 DEF Serve
  <2>3. Queued(q) = Queued(sock[c])
    BY <2>1 DEF Queued
  <2> HIDE DEF q
  <2> QED
    BY <1>t, <2>1, <2>2, <2>3, MoveTo
<1>2. CASE WriterStops(c) \/ Disconnect(c)
  <2> DEFINE q == [sock[c] EXCEPT !.pc = "ending"]
  <2>1. /\ q \in Handler /\ q.pc = "ending" /\ q.dev = sock[c].dev /\ q.outbound = sock[c].outbound
        /\ q.send = sock[c].send /\ q.wire = sock[c].wire
    BY <1>t DEF Handler
  <2>2. sock' = [sock EXCEPT ![c] = q] /\ sock[c].pc = "open"
    BY <1>2 DEF WriterStops, Disconnect
  <2>3. Queued(q) = Queued(sock[c])
    BY <2>1 DEF Queued
  <2> HIDE DEF q
  <2> QED
    BY <1>t, <2>1, <2>2, <2>3, MoveTo
<1>3. CASE Stall(c)
  <2> DEFINE q == [sock[c] EXCEPT !.stalled = TRUE]
  <2>1. /\ q \in Handler /\ q.pc = sock[c].pc /\ q.dev = sock[c].dev /\ q.outbound = sock[c].outbound
        /\ q.send = sock[c].send /\ q.wire = sock[c].wire
    BY <1>t DEF Handler
  <2>2. sock' = [sock EXCEPT ![c] = q]
    BY <1>3 DEF Stall
  <2>3. Queued(q) = Queued(sock[c])
    BY <2>1 DEF Queued
  <2> HIDE DEF q
  <2> QED
    BY <1>t, <2>1, <2>2, <2>3, MoveTo
<1>4. CASE Closed(c)
  <2>1. sock' = [sock EXCEPT ![c] = Gone(c)] /\ sock[c].pc = "closing"
    BY <1>4 DEF Closed
  <2> QED
    BY <1>t, <2>1, GoneType, MoveTo
<1>5. CASE Retire(c)
  <2> DEFINE q == [sock[c] EXCEPT !.retired = TRUE]
  <2>1. /\ q \in Handler /\ q.pc = sock[c].pc /\ q.dev = sock[c].dev /\ q.outbound = sock[c].outbound
        /\ q.send = sock[c].send /\ q.wire = sock[c].wire
    BY <1>t DEF Handler
  <2>2. sock' = [sock EXCEPT ![c] = q]
    BY <1>5 DEF Retire
  <2>3. Queued(q) = Queued(sock[c])
    BY <2>1 DEF Queued
  <2> HIDE DEF q
  <2> QED
    BY <1>t, <2>1, <2>2, <2>3, MoveTo
<1> QED
  BY <1>1, <1>2, <1>3, <1>4, <1>5

LEMMA QueueMoves ==
    ASSUME TypeOK, NEW c \in Conns, Write(c) \/ Forward(c)
    PROVE  Moved(c)
<1>t. sock \in [Conns -> Handler] /\ sock[c] \in Handler
  BY DEF TypeOK
<1>s. sock[c].outbound \in Seq(Calls) /\ sock[c].send \in Seq(Calls) /\ sock[c].wire \subseteq Calls
  BY <1>t DEF Handler
<1>1. CASE Write(c)
  <2> DEFINE q == [sock[c] EXCEPT !.send = Tail(sock[c].send),
                                  !.wire = sock[c].wire \cup {Head(sock[c].send)}]
  <2>1. sock[c].send # <<>> /\ sock' = [sock EXCEPT ![c] = q]
    BY <1>t, <1>1 DEF Write
  <2>2. /\ Tail(sock[c].send) \in Seq(Calls) /\ Head(sock[c].send) \in Calls
        /\ {Tail(sock[c].send)[i] : i \in DOMAIN Tail(sock[c].send)}
             \subseteq {sock[c].send[i] : i \in DOMAIN sock[c].send}
        /\ Head(sock[c].send) \in {sock[c].send[i] : i \in DOMAIN sock[c].send}
    BY <1>s, <2>1, TailElements
  <2>3. /\ q \in Handler /\ q.pc = sock[c].pc /\ q.dev = sock[c].dev /\ q.outbound = sock[c].outbound
        /\ q.send = Tail(sock[c].send) /\ q.wire = sock[c].wire \cup {Head(sock[c].send)}
    BY <1>t, <1>s, <2>2 DEF Handler
  <2> HIDE DEF q
  <2>4. Queued(q) \subseteq Queued(sock[c])
    BY <2>2, <2>3 DEF Queued
  <2> QED
    BY <1>t, <2>1, <2>3, <2>4, MoveTo
<1>2. CASE Forward(c)
  <2> DEFINE e == Head(sock[c].outbound)
             q == [sock[c] EXCEPT !.send = Append(sock[c].send, e), !.outbound = Tail(sock[c].outbound)]
  <2>1. sock[c].outbound # <<>> /\ sock' = [sock EXCEPT ![c] = q]
    BY <1>t, <1>2 DEF Forward
  <2>2. /\ Tail(sock[c].outbound) \in Seq(Calls) /\ e \in Calls
        /\ {Tail(sock[c].outbound)[i] : i \in DOMAIN Tail(sock[c].outbound)}
             \subseteq {sock[c].outbound[i] : i \in DOMAIN sock[c].outbound}
        /\ e \in {sock[c].outbound[i] : i \in DOMAIN sock[c].outbound}
    BY <1>s, <2>1, TailElements
  <2>3. /\ Append(sock[c].send, e) \in Seq(Calls)
        /\ {Append(sock[c].send, e)[i] : i \in DOMAIN Append(sock[c].send, e)}
             \subseteq {sock[c].send[i] : i \in DOMAIN sock[c].send} \cup {e}
    BY <1>s, <2>2, AppendElements
  <2> HIDE DEF e
  <2>4. /\ q \in Handler /\ q.pc = sock[c].pc /\ q.dev = sock[c].dev
        /\ q.outbound = Tail(sock[c].outbound) /\ q.send = Append(sock[c].send, e)
        /\ q.wire = sock[c].wire
    BY <1>t, <1>s, <2>2, <2>3 DEF Handler
  <2> HIDE DEF q
  <2>5. Queued(q) \subseteq Queued(sock[c])
    BY <2>2, <2>3, <2>4 DEF Queued
  <2> QED
    BY <1>t, <2>1, <2>4, <2>5, MoveTo
<1> QED
  BY <1>1, <1>2

-----------------------------------------------------------------------------
(* What a step must respect to preserve each part of the invariant. *)

Live(c) == sock[c].pc \in {"replacing", "open"}

\* Registered connections stay so, with their device; nothing is revived,
\* admitted or queued.
SockKeeps ==
    \A b \in Conns :
        /\ Registered(b) => Registered(b)'
        /\ sock'[b].dev = sock[b].dev
        /\ Live(b)' => Live(b)
        /\ sock'[b].pc = "checked" => sock[b].pc = "checked"
        /\ sock[b].pc = "new" => sock'[b].pc = "new"
        /\ Queued(sock'[b]) \subseteq Queued(sock[b])

\* The entry stays, or goes because its handler ended or its device is blocked.
EntryKept ==
    \/ current' = current
    \/ current # None /\ current' = None /\ (sock'[current].pc \notin {"replacing", "open"} \/ sock[current].dev \in blocked')

\* A call goes on, other than to evict, only if its device was active when it
\* was made.
Onward(k) ==
    /\ call'[k].late = call[k].late
    /\ call'[k].pc \notin {"idle", "verify"}
    /\ call'[k].pc # "returned" =>
         call[k].pc \notin {"idle", "returned"} /\ call'[k].conn = call[k].conn /\ (~call[k].late \/ call'[k].pc = "evict")
    /\ call[k].pc \in {"wait", "returned"} => call'[k].pc \in {"wait", "returned"}

CallsKeep == \A k \in Calls : call'[k] = call[k] \/ Onward(k)

LEMMA MovedKeeps ==
    ASSUME NEW c \in Conns, Moved(c) PROVE SockKeeps
  BY DEF Moved, SockKeeps, Registered, Live

LEMMA MapKept ==
    ASSUME Inv, SockKeeps, EntryKept, latest' = latest, blocked \subseteq blocked'
    PROVE  MapInv'
<1>t. current \in Conns \cup {None} /\ latest \in Conns \cup {None}
  BY DEF Inv, TypeOK
<1>d. (\A c \in Conns : sock[c].pc # "new" => sock[c].dev \in Devices)'
  BY DEF Inv, MapInv, SockKeeps
<1>1. (current # None => Registered(current))'
  BY <1>t DEF Inv, MapInv, SockKeeps, EntryKept, Registered
<1>2. (latest # None => Registered(latest))'
  BY <1>t DEF Inv, MapInv, SockKeeps, Registered
<1>3. LiveConnectionKept'
  <2> SUFFICES ASSUME latest # None, Live(latest)', sock'[latest].dev \notin blocked'
               PROVE  current' = latest
    BY DEF LiveConnectionKept, Live
  <2>1. Live(latest) /\ sock[latest].dev = sock'[latest].dev /\ sock[latest].dev \notin blocked
    BY <1>t DEF SockKeeps, Live
  <2>2. current = latest
    BY <2>1 DEF Inv, MapInv, LiveConnectionKept, Live
  <2> QED
    BY <2>2, <2>1 DEF EntryKept, Live
<1> QED
  BY <1>d, <1>1, <1>2, <1>3 DEF MapInv

LEMMA BlockKept ==
    ASSUME Inv, SockKeeps, current' \in {current, None},
           blocked \subseteq blocked', active' = active, revoke' = revoke
    PROVE  BlockInv'
<1>t. current \in Conns \cup {None}
  BY DEF Inv, TypeOK
<1>1. \A d \in Devices : Connected(d)' => Connected(d)
  BY <1>t DEF Connected, SockKeeps
<1>2. RevokedStaysOut'
  BY <1>1 DEF Inv, BlockInv, RevokedStaysOut
<1>3. \A d \in Devices : revoke'[d].pc \in {"evicting", "done"} =>
        \A c \in Conns : sock'[c].pc = "checked" /\ sock'[c].dev = d => d \in blocked'
  BY DEF Inv, BlockInv, SockKeeps
<1> QED
  BY <1>2, <1>3 DEF Inv, BlockInv

LEMMA CallsKept ==
    ASSUME Inv, CallsKeep, active' \subseteq active,
           \A b \in Conns : /\ Registered(b) => Registered(b)' /\ sock'[b].dev = sock[b].dev
                            /\ Queued(sock'[b]) \subseteq Queued(sock[b])
    PROVE  CallInv'
<1>1. (\A k \in Calls : call[k].pc \notin {"idle", "returned"} =>
          call[k].conn \in Conns /\ Registered(call[k].conn))'
  BY DEF Inv, CallInv, CallsKeep, Onward, Registered
<1>2. (\A k \in Calls : call[k].pc = "verify" /\ call[k].late =>
          sock[call[k].conn].dev \notin active)'
  BY DEF Inv, CallInv, CallsKeep, Onward
<1>3. (\A k \in Calls : call[k].pc \in {"admit", "reject", "enqueue", "wait"} => ~call[k].late)'
  BY DEF Inv, CallInv, CallsKeep, Onward
<1>4. (\A c \in Conns : \A k \in Queued(sock[c]) :
          k \in Calls /\ call[k].pc \in {"wait", "returned"} /\ ~call[k].late)'
  BY DEF Inv, CallInv, CallsKeep, Onward
<1> QED
  BY <1>1, <1>2, <1>3, <1>4 DEF CallInv

-----------------------------------------------------------------------------
(* Slots.  From here on the calls that hold one are counted. *)
INSTANCE FiniteSetTheorems

Counted == {"reject", "enqueue", "wait"}
Slots(c) == {k \in Calls : call[k].conn = c /\ (Holding(k) \/ call[k].pc = "reject")}
Held(c) == {k \in Calls : Holding(k) /\ call[k].conn = c}

LEMMA SlotSets ==
    \A c : /\ IsFiniteSet(Slots(c)) /\ IsFiniteSet(Held(c))
           /\ Cardinality(Slots(c)) \in Nat /\ Cardinality(Held(c)) \in Nat
           /\ Cardinality(Held(c)) <= Cardinality(Slots(c))
<1>1. ASSUME NEW c PROVE IsFiniteSet(Slots(c)) /\ Held(c) \subseteq Slots(c)
  <2>1. Slots(c) \subseteq Calls
    BY DEF Slots
  <2> QED
    BY <2>1, CallsAssumption, FS_Subset DEF Slots, Held
<1> QED
  BY <1>1, FS_Subset, FS_CardinalityType

LEMMA SlotInvMeaning ==
    SlotInv <=> \A c \in Conns : count[c] = Cardinality(Slots(c)) /\ Cardinality(Held(c)) <= maxPendingCalls
  BY DEF SlotInv, SlotsBalance, PendingBound, Slots, Held

\* A step that takes or frees no slot.
LEMMA SlotsKept ==
    ASSUME SlotInv, count' = count,
           \A k \in Calls :
               \/ call'[k] = call[k]
               \/ call[k].pc \notin Counted /\ call'[k].pc \notin Counted
               \/ /\ call'[k].conn = call[k].conn
                  /\ call[k].pc \in {"enqueue", "wait"} /\ call'[k].pc \in {"enqueue", "wait"}
    PROVE  SlotInv'
<1>1. \A c : Slots(c)' = Slots(c) /\ Held(c)' = Held(c)
  BY DEF Slots, Held, Holding, Counted
<1>2. \A c \in Conns : (count[c] = Cardinality(Slots(c)) /\ Cardinality(Held(c)) <= maxPendingCalls)'
  BY <1>1, SlotInvMeaning
<1> QED
  BY <1>2 DEF SlotInv, SlotsBalance, PendingBound, Slots, Held

\* The call that leaves gives back its own slot.
LEMMA LeaveSlots ==
    ASSUME Inv, NEW k \in Calls, call[k].pc \in Counted, Leave(k)
    PROVE  SlotInv' /\ count' \in [Conns -> Nat]
<1>t. call \in [Calls -> Calling] /\ count \in [Conns -> Nat] /\ None \notin Conns
  BY NoneAssumption DEF Inv, TypeOK
<1>c. PICK c \in Conns : call[k].conn = c
  BY DEF Inv, CallInv, Counted
<1> DEFINE S == Slots(c)
<1>1. /\ call'[k].pc = "returned" /\ call'[k].conn = None
      /\ \A j \in Calls : j # k => call'[j] = call[j]
  BY <1>t DEF Leave, Return, Calling
<1>2. count' = [count EXCEPT ![c] = @ - 1]
  BY <1>c DEF Leave
<1>3. k \in S
  BY <1>c DEF Slots, Holding, Counted
<1>4. Slots(c)' = S \ {k} /\ Held(c)' \subseteq Held(c)
  BY <1>1, <1>c, <1>t DEF Slots, Held, Holding, Counted
<1>5. \A b \in Conns : b # c => Slots(b)' = Slots(b) /\ Held(b)' = Held(b)
  BY <1>1, <1>c, <1>t DEF Slots, Held, Holding
<1>6. count[c] = Cardinality(S) /\ \A b \in Conns : Cardinality(Held(b)) <= maxPendingCalls
  BY <1>c, SlotInvMeaning DEF Inv
<1> HIDE DEF S
<1>7. IsFiniteSet(S) /\ Cardinality(S) \in Nat
  BY SlotSets DEF S
<1>8. Cardinality(S \ {k}) = Cardinality(S) - 1 /\ Cardinality(S \ {k}) \in Nat
  BY <1>3, <1>7, FS_RemoveElement, FS_CardinalityType
<1>9. IsFiniteSet(Held(c)) /\ Cardinality(Held(c)) \in Nat
  BY SlotSets
<1>10. Cardinality(Held(c)') <= Cardinality(Held(c)) /\ Cardinality(Held(c)') \in Nat
  BY <1>4, <1>9, FS_Subset, FS_CardinalityType
<1>11. \A b \in Conns : b # c => count'[b] = count[b]
  BY <1>2, <1>t
<1>12. count'[c] = count[c] - 1
  BY <1>2, <1>t, <1>c
<1>13. count' \in [Conns -> Nat]
  BY <1>2, <1>t, <1>6, <1>8, <1>c
<1>14. ASSUME NEW b \in Conns
       PROVE  count'[b] = Cardinality(Slots(b)') /\ Cardinality(Held(b)') <= maxPendingCalls
  <2>1. CASE b = c
    BY <2>1, <1>4, <1>6, <1>8, <1>9, <1>10, <1>12, <1>c, CapAssumption
  <2>2. CASE b # c
    BY <2>2, <1>5, <1>11, SlotInvMeaning DEF Inv
  <2> QED
    BY <2>1, <2>2
<1> QED
  BY <1>13, <1>14 DEF SlotInv, SlotsBalance, PendingBound, Slots, Held

\* A call is let through only while the slots counted, its own included, are
\* within the limit.
LEMMA TakeSlots ==
    ASSUME Inv, NEW k \in Calls, TakeSlot(k), ~sock[call[k].conn].retired
    PROVE  SlotInv' /\ count' \in [Conns -> Nat]
<1>c. PICK c \in Conns : call[k].conn = c
  BY DEF TakeSlot, Inv, CallInv
<1> DEFINE S == Slots(c)
           to == IF count[c] + 1 > maxPendingCalls THEN "reject" ELSE "enqueue"
<1>t. call \in [Calls -> Calling] /\ count \in [Conns -> Nat]
  BY DEF Inv, TypeOK
<1>a. call[k].pc = "admit" /\ count' = [count EXCEPT ![c] = @ + 1] /\ call' = [call EXCEPT ![k].pc = to]
  BY <1>c DEF TakeSlot
<1>1. /\ call'[k].pc = to /\ call'[k].conn = c
      /\ \A j \in Calls : j # k => call'[j] = call[j]
  BY <1>t, <1>a, <1>c DEF Calling
<1>2. k \notin S /\ Slots(c)' = S \cup {k}
  BY <1>1, <1>a, <1>t DEF Slots, Holding
<1>3. Held(c)' \subseteq Slots(c)' /\ (to = "reject" => Held(c)' = Held(c))
  BY <1>1, <1>a, <1>c DEF Slots, Held, Holding
<1>4. \A b \in Conns : b # c => Slots(b)' = Slots(b) /\ Held(b)' = Held(b)
  BY <1>1, <1>a, <1>c DEF Slots, Held, Holding
<1>5. count[c] = Cardinality(S) /\ \A b \in Conns : Cardinality(Held(b)) <= maxPendingCalls
  BY <1>c, SlotInvMeaning DEF Inv
<1> HIDE DEF S
<1>6. IsFiniteSet(S) /\ Cardinality(S) \in Nat
  BY SlotSets DEF S
<1>7. Cardinality(S \cup {k}) = Cardinality(S) + 1 /\ IsFiniteSet(S \cup {k})
  BY <1>2, <1>6, FS_AddElement
<1>8. Cardinality(Held(c)') <= Cardinality(S) + 1 /\ Cardinality(Held(c)') \in Nat
  BY <1>2, <1>3, <1>7, FS_Subset, FS_CardinalityType
<1>9. Cardinality(Held(c)') <= maxPendingCalls
  <2>1. CASE count[c] + 1 > maxPendingCalls
    BY <2>1, <1>3, <1>5, <1>c
  <2>2. CASE ~(count[c] + 1 > maxPendingCalls)
    BY <2>2, <1>5, <1>6, <1>8, CapAssumption
  <2> QED
    BY <2>1, <2>2
<1>10. count' \in [Conns -> Nat] /\ count'[c] = count[c] + 1 /\ \A b \in Conns : b # c => count'[b] = count[b]
  BY <1>a, <1>t, <1>c
<1>11. ASSUME NEW b \in Conns
       PROVE  count'[b] = Cardinality(Slots(b)') /\ Cardinality(Held(b)') <= maxPendingCalls
  <2>1. CASE b = c
    BY <2>1, <1>2, <1>5, <1>7, <1>9, <1>10
  <2>2. CASE b # c
    BY <2>2, <1>4, <1>10, SlotInvMeaning DEF Inv
  <2> QED
    BY <2>1, <2>2
<1> QED
  BY <1>10, <1>11 DEF SlotInv, SlotsBalance, PendingBound, Slots, Held

-----------------------------------------------------------------------------
(* Every step preserves the invariant. *)

LEMMA ConnStep ==
    ASSUME Inv, NEW c \in Conns,
           \/ Serve(c) \/ WriterStops(c) \/ Disconnect(c) \/ Stall(c) \/ Closed(c) \/ Retire(c)
           \/ Write(c) \/ Forward(c)
    PROVE  Inv'
<1>1. Moved(c)
  BY HandlerMoves, QueueMoves DEF Inv
<1>2. /\ active' = active /\ revoke' = revoke /\ blocked' = blocked /\ current' = current
      /\ latest' = latest /\ count' = count /\ call' = call /\ restarts' = restarts
  BY DEF Serve, WriterStops, Disconnect, Stall, Closed, Retire, Write, Forward, hubVars
<1>3. TypeOK'
  BY <1>1, <1>2 DEF Inv, TypeOK, Moved
<1>4. SockKeeps /\ CallsKeep /\ EntryKept
  BY <1>1, <1>2, MovedKeeps DEF CallsKeep, EntryKept
<1>5. MapInv' /\ BlockInv'
  BY <1>2, <1>4, MapKept, BlockKept
<1>6. CallInv'
  BY <1>2, <1>4, CallsKept DEF SockKeeps
<1>7. SlotInv'
  BY <1>2, SlotsKept DEF Inv
<1> QED
  BY <1>3, <1>5, <1>6, <1>7 DEF Inv

\* The device is active, so no revocation of it has blocked it.
LEMMA AdmitStep ==
    ASSUME Inv, NEW c \in Conns, Admit(c) PROVE Inv'
<1>1. PICK d \in active : /\ sock[c].pc = "new"
                          /\ sock' = [sock EXCEPT ![c].pc = "checked", ![c].dev = d]
                          /\ UNCHANGED <<active, revoke, hubVars, count, call, restarts>>
  BY DEF Admit
<1>2. /\ active' = active /\ revoke' = revoke /\ blocked' = blocked /\ current' = current
      /\ latest' = latest /\ count' = count /\ call' = call /\ restarts' = restarts
  BY <1>1 DEF hubVars
<1>t. sock \in [Conns -> Handler] /\ sock[c] \in Handler /\ d \in Devices
  BY DEF Inv, TypeOK
<1> DEFINE q == [sock[c] EXCEPT !.pc = "checked", !.dev = d]
<1>3. /\ q \in Handler /\ q.pc = "checked" /\ q.dev = d /\ q.outbound = sock[c].outbound
      /\ q.send = sock[c].send /\ q.wire = sock[c].wire
  BY <1>t DEF Handler
<1>4. sock' = [sock EXCEPT ![c] = q]
  BY <1>1
<1> HIDE DEF q
<1>5. /\ sock' \in [Conns -> Handler] /\ sock'[c] = q
      /\ \A b \in Conns : b # c => sock'[b] = sock[b]
  BY <1>3, <1>4, <1>t
<1>6. \A b \in Conns : Registered(b) => b # c
  BY <1>1 DEF Registered
<1>7. TypeOK'
  BY <1>2, <1>5 DEF Inv, TypeOK
<1>8. MapInv'
  <2>1. (current # None => Registered(current) /\ current # c) /\ (latest # None => Registered(latest) /\ latest # c)
    BY <1>1 DEF Inv, MapInv, Registered
  <2>2. current \in Conns \cup {None} /\ latest \in Conns \cup {None}
    BY DEF Inv, TypeOK
  <2>3. (\A b \in Conns : sock[b].pc # "new" => sock[b].dev \in Devices)'
    BY <1>t, <1>3, <1>5 DEF Inv, MapInv
  <2>4. (current # None => Registered(current))' /\ (latest # None => Registered(latest))'
    BY <1>2, <1>5, <2>1, <2>2 DEF Registered
  <2>5. LiveConnectionKept'
    BY <1>2, <1>5, <2>1, <2>2 DEF Inv, MapInv, LiveConnectionKept
  <2> QED
    BY <2>3, <2>4, <2>5 DEF MapInv
<1>9. BlockInv'
  <2>1. current # None => current # c
    BY <1>1 DEF Inv, MapInv, Registered
  <2>2. \A e \in Devices : Connected(e)' => Connected(e)
    BY <1>2, <1>5, <2>1 DEF Connected, Inv, TypeOK
  <2>3. \A e \in Devices : revoke[e].pc \in {"evicting", "done"} => e # d
    BY DEF Inv, BlockInv
  <2> QED
    BY <1>2, <1>3, <1>5, <2>2, <2>3 DEF Inv, BlockInv, RevokedStaysOut
<1>10. CallInv'
  <2>1. \A b \in Conns : Queued(sock'[b]) = Queued(sock[b])
    BY <1>3, <1>5 DEF Queued
  <2>2. \A b \in Conns : Registered(b) => Registered(b)' /\ sock'[b].dev = sock[b].dev
    BY <1>5, <1>6 DEF Registered
  <2> QED
    BY <1>2, <2>1, <2>2, CallsKept DEF CallsKeep
<1>11. SlotInv'
  BY <1>2, SlotsKept DEF Inv
<1> QED
  BY <1>7, <1>8, <1>9, <1>10, <1>11 DEF Inv

LEMMA TryRegisterStep ==
    ASSUME Inv, NEW c \in Conns, TryRegister(c) PROVE Inv'
<1>2. /\ active' = active /\ revoke' = revoke /\ blocked' = blocked
      /\ count' = count /\ call' = call /\ restarts' = restarts
  BY DEF TryRegister, hubVars
<1>t. sock \in [Conns -> Handler] /\ sock[c] \in Handler /\ sock[c].pc = "checked"
      /\ current \in Conns \cup {None} /\ latest \in Conns \cup {None} /\ None \notin Conns
  BY NoneAssumption DEF Inv, TypeOK, TryRegister
<1>s. SlotInv'
  BY <1>2, SlotsKept DEF Inv
<1>1. CASE sock[c].dev \in blocked
  <2>1. sock' = [sock EXCEPT ![c].pc = "closed"] /\ current' = current /\ latest' = latest
    BY <1>1 DEF TryRegister, hubVars
  <2> DEFINE q == [sock[c] EXCEPT !.pc = "closed"]
  <2>2. /\ q \in Handler /\ q.pc = "closed" /\ q.dev = sock[c].dev /\ q.outbound = sock[c].outbound
        /\ q.send = sock[c].send /\ q.wire = sock[c].wire
    BY <1>t DEF Handler
  <2>3. sock' = [sock EXCEPT ![c] = q]
    BY <2>1
  <2> HIDE DEF q
  <2>4. sock' \in [Conns -> Handler] /\ sock'[c] = q /\ \A b \in Conns : b # c => sock'[b] = sock[b]
    BY <2>2, <2>3, <1>t
  <2>5. Queued(q) = Queued(sock[c])
    BY <2>2 DEF Queued
  <2>6. SockKeeps /\ EntryKept /\ CallsKeep
    BY <1>t, <2>1, <2>2, <2>4, <2>5, <1>2 DEF SockKeeps, Registered, Live, EntryKept, CallsKeep
  <2>7. TypeOK'
    BY <1>2, <2>1, <2>4 DEF Inv, TypeOK
  <2>8. MapInv' /\ BlockInv' /\ CallInv'
    BY <1>2, <2>1, <2>6, MapKept, BlockKept, CallsKept DEF SockKeeps
  <2> QED
    BY <2>7, <2>8, <1>s DEF Inv
<1>3. CASE sock[c].dev \notin blocked
  <2>1. /\ current' = c /\ latest' = c
        /\ sock' = [b \in Conns |->
             IF b = c THEN [sock[c] EXCEPT !.pc = "replacing", !.prev = current]
             ELSE [sock[b] EXCEPT !.doomed = @ \/ b = current]]
    BY <1>3 DEF TryRegister, hubVars
  <2>2. /\ sock'[c] \in Handler /\ sock'[c].pc = "replacing" /\ sock'[c].dev = sock[c].dev
        /\ sock'[c].outbound = sock[c].outbound /\ sock'[c].send = sock[c].send
        /\ sock'[c].wire = sock[c].wire
    BY <2>1, <1>t DEF Handler
  <2>3. ASSUME NEW b \in Conns, b # c
        PROVE  /\ sock'[b] \in Handler /\ sock'[b].pc = sock[b].pc /\ sock'[b].dev = sock[b].dev
               /\ sock'[b].outbound = sock[b].outbound /\ sock'[b].send = sock[b].send
               /\ sock'[b].wire = sock[b].wire
    <3>1. sock[b] \in Handler /\ sock'[b] = [sock[b] EXCEPT !.doomed = sock[b].doomed \/ b = current]
      BY <2>1, <2>3, <1>t
    <3>2. (sock[b].doomed \/ b = current) \in BOOLEAN
      OBVIOUS
    <3> QED
      BY <3>1, <3>2 DEF Handler
  <2>4. sock' \in [Conns -> Handler]
    BY <2>1, <2>2, <2>3
  <2>5. TypeOK'
    BY <1>2, <2>1, <2>4 DEF Inv, TypeOK
  <2>6. MapInv'
    <3>1. (\A b \in Conns : sock[b].pc # "new" => sock[b].dev \in Devices)'
      BY <2>2, <2>3, <1>t DEF Inv, MapInv
    <3> QED
      BY <2>1, <2>2, <3>1 DEF MapInv, LiveConnectionKept, Registered
  <2>7. BlockInv'
    <3>1. \A d \in Devices : revoke[d].pc \in {"evicting", "done"} => sock[c].dev # d
      BY <1>3, <1>t DEF Inv, BlockInv
    <3>2. \A d \in Devices : Connected(d)' => sock[c].dev = d
      BY <2>1, <2>2 DEF Connected
    <3>3. \A b \in Conns : sock'[b].pc = "checked" => sock[b].pc = "checked" /\ sock'[b].dev = sock[b].dev
      BY <2>2, <2>3
    <3> QED
      BY <1>2, <3>1, <3>2, <3>3 DEF Inv, BlockInv, RevokedStaysOut
  <2>8. CallInv'
    <3>1. \A b \in Conns : Queued(sock'[b]) = Queued(sock[b])
      BY <2>2, <2>3 DEF Queued
    <3>2. \A b \in Conns : Registered(b) => Registered(b)' /\ sock'[b].dev = sock[b].dev
      BY <2>2, <2>3 DEF Registered
    <3> QED
      BY <1>2, <3>1, <3>2, CallsKept DEF CallsKeep
  <2> QED
    BY <2>5, <2>6, <2>7, <2>8, <1>s DEF Inv
<1> QED
  BY <1>1, <1>3

\* Marking a connection as leaving the map.
LEMMA DoomMoves ==
    ASSUME sock \in [Conns -> Handler], NEW c \in Conns, sock' = [sock EXCEPT ![c].doomed = TRUE]
    PROVE  Moved(c)
<1> DEFINE q == [sock[c] EXCEPT !.doomed = TRUE]
<1>1. /\ q \in Handler /\ q.pc = sock[c].pc /\ q.dev = sock[c].dev /\ q.outbound = sock[c].outbound
      /\ q.send = sock[c].send /\ q.wire = sock[c].wire
  BY DEF Handler
<1>2. sock' = [sock EXCEPT ![c] = q]
  OBVIOUS
<1>3. Queued(q) = Queued(sock[c])
  BY <1>1 DEF Queued
<1> HIDE DEF q
<1> QED
  BY <1>1, <1>2, <1>3, MoveTo

\* The cleanup removes the entry only when it is the handler's own, and then
\* the handler is no longer live.
LEMMA UnregisterStep ==
    ASSUME Inv, NEW c \in Conns, UnregisterSend(c) PROVE Inv'
<1>2. /\ active' = active /\ revoke' = revoke /\ blocked' = blocked /\ latest' = latest
      /\ count' = count /\ call' = call /\ restarts' = restarts
  BY DEF UnregisterSend
<1>t. sock \in [Conns -> Handler] /\ sock[c] \in Handler /\ sock[c].pc = "ending" /\ None \notin Conns
  BY NoneAssumption DEF Inv, TypeOK, UnregisterSend
<1>1. Moved(c) /\ EntryKept /\ current' \in {current, None}
  <2>1. CASE current = c
    <3> DEFINE q == [sock[c] EXCEPT !.pc = "closing", !.doomed = TRUE]
    <3>1. /\ q \in Handler /\ q.pc = "closing" /\ q.dev = sock[c].dev /\ q.outbound = sock[c].outbound
          /\ q.send = sock[c].send /\ q.wire = sock[c].wire
      BY <1>t DEF Handler
    <3>2. sock' = [sock EXCEPT ![c] = q] /\ current' = None
      BY <2>1 DEF UnregisterSend
    <3>3. Queued(q) = Queued(sock[c])
      BY <3>1 DEF Queued
    <3> HIDE DEF q
    <3>4. Moved(c)
      BY <1>t, <3>1, <3>2, <3>3, MoveTo
    <3>5. sock'[current].pc = "closing" /\ current # None
      BY <2>1, <1>t, <3>1, <3>2
    <3> QED
      BY <3>2, <3>4, <3>5 DEF EntryKept
  <2>2. CASE current # c
    <3>1. sock' = [sock EXCEPT ![c] = Gone(c)] /\ current' = current
      BY <2>2 DEF UnregisterSend
    <3> QED
      BY <1>t, <3>1, GoneType, MoveTo DEF EntryKept
  <2> QED
    BY <2>1, <2>2
<1>3. TypeOK'
  BY <1>1, <1>2 DEF Inv, TypeOK, Moved
<1>4. SockKeeps /\ CallsKeep
  BY <1>1, <1>2, MovedKeeps DEF CallsKeep
<1>5. MapInv' /\ BlockInv' /\ CallInv'
  BY <1>1, <1>2, <1>4, MapKept, BlockKept, CallsKept DEF SockKeeps
<1>6. SlotInv'
  BY <1>2, SlotsKept DEF Inv
<1> QED
  BY <1>3, <1>5, <1>6 DEF Inv

LEMMA RevokeStepKeeps ==
    ASSUME Inv, NEW d \in Devices, RevokeStep(d) PROVE Inv'
<1>t. /\ sock \in [Conns -> Handler] /\ revoke \in [Devices -> Revoking]
      /\ current \in Conns \cup {None} /\ active \subseteq Devices /\ blocked \subseteq Devices
  BY DEF Inv, TypeOK
<1>1. CASE RevokeDevice(d)
  <2>1. PICK how \in {"committed", "untold"} : revoke' = [revoke EXCEPT ![d].pc = how]
    BY <1>1 DEF RevokeDevice
  <2>2. /\ active' = active \ {d} /\ blocked' = blocked /\ current' = current /\ latest' = latest
        /\ sock' = sock /\ count' = count /\ call' = call /\ restarts' = restarts
    BY <1>1 DEF RevokeDevice, hubVars
  <2>3. /\ revoke' \in [Devices -> Revoking] /\ revoke'[d].pc = how
        /\ \A e \in Devices : e # d => revoke'[e] = revoke[e]
    BY <2>1, <1>t DEF Revoking
  <2>4. TypeOK'
    BY <2>2, <2>3 DEF Inv, TypeOK
  <2>5. SockKeeps /\ EntryKept /\ CallsKeep
    BY <2>2 DEF SockKeeps, EntryKept, CallsKeep, Registered, Live
  <2>6. MapInv' /\ CallInv'
    BY <2>2, <2>5, MapKept, CallsKept DEF SockKeeps
  <2>7. BlockInv'
    BY <2>2, <2>3 DEF Inv, BlockInv, RevokedStaysOut, Connected
  <2>8. SlotInv'
    BY <2>2, SlotsKept DEF Inv
  <2> QED
    BY <2>4, <2>6, <2>7, <2>8 DEF Inv
<1>2. CASE BlockDevice(d)
  <2>1. /\ revoke[d].pc = "committed" /\ blocked' = blocked \cup {d}
        /\ active' = active /\ latest' = latest /\ count' = count /\ call' = call /\ restarts' = restarts
    BY <1>2 DEF BlockDevice
  <2>2. /\ SockKeeps /\ EntryKept /\ current' \in {current, None} /\ sock' \in [Conns -> Handler]
        /\ revoke' \in [Devices -> Revoking] /\ revoke'[d].pc # "no" /\ ~Connected(d)'
        /\ \A e \in Devices : e # d => revoke'[e] = revoke[e]
    <3>1. CASE Connected(d)
      <4>1. /\ current' = None /\ sock' = [sock EXCEPT ![current].doomed = TRUE] /\ current \in Conns
            /\ revoke' = [revoke EXCEPT ![d] = [pc |-> "evicting", conn |-> current]]
        BY <3>1, <1>2, <1>t DEF BlockDevice, Connected
      <4>2. PICK c \in Conns : c = current
        BY <4>1
      <4>3. Moved(c)
        BY <4>1, <4>2, <1>t, DoomMoves
      <4>4. EntryKept /\ ~Connected(d)'
        BY <4>1, <3>1, <2>1 DEF EntryKept, Connected
      <4>5. [pc |-> "evicting", conn |-> current] \in Revoking
        BY <4>1 DEF Revoking
      <4> QED
        BY <4>1, <4>3, <4>4, <4>5, <1>t, MovedKeeps DEF Moved
    <3>2. CASE ~Connected(d)
      <4>1. current' = current /\ sock' = sock /\ revoke' = [revoke EXCEPT ![d].pc = "done"]
        BY <3>2, <1>2 DEF BlockDevice
      <4>2. revoke' \in [Devices -> Revoking] /\ revoke'[d].pc = "done"
        BY <4>1, <1>t DEF Revoking
      <4>3. SockKeeps /\ EntryKept /\ ~Connected(d)'
        BY <4>1, <3>2 DEF SockKeeps, EntryKept, Connected, Registered, Live
      <4> QED
        BY <4>1, <4>2, <4>3, <1>t
    <3> QED
      BY <3>1, <3>2
  <2>3. TypeOK'
    BY <2>1, <2>2, <1>t DEF Inv, TypeOK
  <2>4. MapInv' /\ CallInv'
    BY <2>1, <2>2, MapKept, CallsKept DEF SockKeeps, CallsKeep
  <2>5. BlockInv'
    <3>1. \A e \in Devices : Connected(e)' => Connected(e)
      BY <2>2, <1>t DEF Connected, SockKeeps
    <3>2. RevokedStaysOut'
      BY <2>2, <3>1 DEF Inv, BlockInv, RevokedStaysOut
    <3>3. (\A e \in Devices : revoke[e].pc \in {"evicting", "done"} =>
             \A c \in Conns : sock[c].pc = "checked" /\ sock[c].dev = e => e \in blocked)'
      BY <2>1, <2>2 DEF Inv, BlockInv, SockKeeps
    <3>4. (\A e \in Devices : revoke[e].pc # "no" => e \notin active)'
      BY <2>1, <2>2 DEF Inv, BlockInv
    <3> QED
      BY <3>2, <3>3, <3>4 DEF BlockInv
  <2>6. SlotInv'
    BY <2>1, SlotsKept DEF Inv
  <2> QED
    BY <2>3, <2>4, <2>5, <2>6 DEF Inv
<1>3. CASE Evicted(d)
  <2>1. /\ revoke[d].pc = "evicting" /\ revoke' = [revoke EXCEPT ![d] = [pc |-> "done", conn |-> None]]
        /\ active' = active /\ blocked' = blocked /\ current' = current /\ latest' = latest
        /\ sock' = sock /\ count' = count /\ call' = call /\ restarts' = restarts
    BY <1>3 DEF Evicted, hubVars
  <2>2. /\ revoke' \in [Devices -> Revoking] /\ revoke'[d].pc = "done"
        /\ \A e \in Devices : e # d => revoke'[e] = revoke[e]
    BY <2>1, <1>t DEF Revoking
  <2>3. TypeOK'
    BY <2>1, <2>2 DEF Inv, TypeOK
  <2>4. SockKeeps /\ EntryKept /\ CallsKeep
    BY <2>1 DEF SockKeeps, EntryKept, CallsKeep, Registered, Live
  <2>5. MapInv' /\ CallInv'
    BY <2>1, <2>4, MapKept, CallsKept DEF SockKeeps
  <2>6. BlockInv'
    BY <2>1, <2>2 DEF Inv, BlockInv, RevokedStaysOut, Connected
  <2>7. SlotInv'
    BY <2>1, SlotsKept DEF Inv
  <2> QED
    BY <2>3, <2>5, <2>6, <2>7 DEF Inv
<1> QED
  BY <1>1, <1>2, <1>3 DEF RevokeStep

\* Returning from any point before a slot is taken.
LEMMA ReturnKeeps ==
    ASSUME Inv, NEW k \in Calls, Return(k)
    PROVE  /\ CallsKeep /\ call' \in [Calls -> Calling] /\ call'[k].pc = "returned"
           /\ \A j \in Calls : j # k => call'[j] = call[j]
<1>1. call \in [Calls -> Calling]
  BY DEF Inv, TypeOK
<1>2. /\ call' \in [Calls -> Calling] /\ call'[k].pc = "returned" /\ call'[k].late = call[k].late
      /\ \A j \in Calls : j # k => call'[j] = call[j]
  BY <1>1 DEF Return, Calling
<1> QED
  BY <1>2 DEF CallsKeep, Onward

LEMMA LeaveStep ==
    ASSUME Inv, NEW k \in Calls, call[k].pc \in Counted, Leave(k) PROVE Inv'
<1>1. /\ active' = active /\ revoke' = revoke /\ blocked' = blocked /\ current' = current
      /\ latest' = latest /\ sock' = sock /\ restarts' = restarts /\ Return(k)
  BY DEF Leave, hubVars
<1>2. SlotInv' /\ count' \in [Conns -> Nat]
  BY LeaveSlots
<1>3. CallsKeep /\ call' \in [Calls -> Calling]
  BY <1>1, ReturnKeeps
<1>4. TypeOK'
  BY <1>1, <1>2, <1>3 DEF Inv, TypeOK
<1>5. SockKeeps /\ EntryKept
  BY <1>1 DEF SockKeeps, EntryKept, Registered, Live
<1>6. MapInv' /\ BlockInv' /\ CallInv'
  BY <1>1, <1>3, <1>5, MapKept, BlockKept, CallsKept DEF SockKeeps
<1> QED
  BY <1>2, <1>4, <1>6 DEF Inv

\* A call that returns without a slot leaves everything else alone.
LEMMA ReturnStep ==
    ASSUME Inv, NEW k \in Calls, call[k].pc \notin Counted, Return(k),
           UNCHANGED <<active, revoke, hubVars, sock, count, restarts>>
    PROVE  Inv'
<1>1. /\ active' = active /\ revoke' = revoke /\ blocked' = blocked /\ current' = current
      /\ latest' = latest /\ sock' = sock /\ count' = count /\ restarts' = restarts
  BY DEF hubVars
<1>3. /\ CallsKeep /\ call' \in [Calls -> Calling] /\ call'[k].pc = "returned"
      /\ \A j \in Calls : j # k => call'[j] = call[j]
  BY ReturnKeeps
<1>4. TypeOK'
  BY <1>1, <1>3 DEF Inv, TypeOK
<1>5. SockKeeps /\ EntryKept
  BY <1>1 DEF SockKeeps, EntryKept, Registered, Live
<1>6. MapInv' /\ BlockInv' /\ CallInv'
  BY <1>1, <1>3, <1>5, MapKept, BlockKept, CallsKept DEF SockKeeps
<1>7. SlotInv'
  BY <1>1, <1>3, SlotsKept DEF Inv, Counted
<1> QED
  BY <1>4, <1>6, <1>7 DEF Inv

LEMMA CallLookup ==
    ASSUME Inv, NEW k \in Calls, Call(k) PROVE Inv'
<1>t. call \in [Calls -> Calling] /\ call[k].pc = "idle" /\ current \in Conns \cup {None}
  BY DEF Call, Inv, TypeOK
<1>1. CASE current = None
  BY <1>1, <1>t, ReturnStep DEF Call, Counted
<1>2. CASE current # None
  <2>1. /\ active' = active /\ revoke' = revoke /\ blocked' = blocked /\ current' = current
        /\ latest' = latest /\ sock' = sock /\ count' = count /\ restarts' = restarts
    BY DEF Call, hubVars
  <2> DEFINE late == sock[current].dev \notin active
  <2>2. call' = [call EXCEPT ![k].pc = "verify", ![k].conn = current, ![k].late = late]
    BY <1>2 DEF Call
  <2>3. current \in Conns /\ late \in BOOLEAN /\ Registered(current)
    BY <1>2, <1>t DEF Inv, MapInv
  <2>4. /\ call' \in [Calls -> Calling]
        /\ call'[k].pc = "verify" /\ call'[k].conn = current /\ call'[k].late = late
        /\ \A j \in Calls : j # k => call'[j] = call[j]
    BY <2>2, <2>3, <1>t DEF Calling
  <2>5. TypeOK'
    BY <2>1, <2>4 DEF Inv, TypeOK
  <2>6. SockKeeps /\ EntryKept
    BY <2>1 DEF SockKeeps, EntryKept, Registered, Live
  <2>7. MapInv' /\ BlockInv'
    BY <2>1, <2>6, MapKept, BlockKept
  <2>8. CallInv'
    <3>1. (\A j \in Calls : call[j].pc \notin {"idle", "returned"} =>
             call[j].conn \in Conns /\ Registered(call[j].conn))'
      BY <2>1, <2>3, <2>4 DEF Inv, CallInv, Registered
    <3>2. (\A j \in Calls : call[j].pc = "verify" /\ call[j].late => sock[call[j].conn].dev \notin active)'
      BY <2>1, <2>4 DEF Inv, CallInv
    <3>3. (\A j \in Calls : call[j].pc \in {"admit", "reject", "enqueue", "wait"} => ~call[j].late)'
      BY <2>4 DEF Inv, CallInv
    <3>4. (\A c \in Conns : \A j \in Queued(sock[c]) :
             j \in Calls /\ call[j].pc \in {"wait", "returned"} /\ ~call[j].late)'
      BY <1>t, <2>1, <2>4 DEF Inv, CallInv
    <3> QED
      BY <3>1, <3>2, <3>3, <3>4 DEF CallInv
  <2>9. SlotInv'
    BY <1>t, <2>1, <2>4, SlotsKept DEF Inv, Counted
  <2> QED
    BY <2>5, <2>7, <2>8, <2>9 DEF Inv
<1> QED
  BY <1>1, <1>2

\* A call that goes on without a slot.
LEMMA GoesOn ==
    ASSUME Inv, NEW k \in Calls, call[k].pc = "verify", NEW to \in {"admit", "evict"},
           call' = [call EXCEPT ![k].pc = to], ~call[k].late \/ to = "evict"
    PROVE  /\ CallsKeep /\ call' \in [Calls -> Calling] /\ call'[k].pc = to
           /\ \A j \in Calls : j # k => call'[j] = call[j]
<1>1. call \in [Calls -> Calling]
  BY DEF Inv, TypeOK
<1>2. /\ call' \in [Calls -> Calling] /\ call'[k].pc = to /\ call'[k].late = call[k].late
      /\ call'[k].conn = call[k].conn /\ \A j \in Calls : j # k => call'[j] = call[j]
  BY <1>1 DEF Calling
<1> QED
  BY <1>2 DEF CallsKeep, Onward

\* verifyDevice stops a late call here: its device was inactive when the call
\* was made and devices are never made active again.
LEMMA VerifyStep ==
    ASSUME Inv, NEW k \in Calls, Verify(k) PROVE Inv'
<1>c. PICK c \in Conns : call[k].conn = c /\ Registered(c)
  BY DEF Verify, Inv, CallInv
<1>t. /\ call[k].pc = "verify" /\ active' = active /\ revoke' = revoke /\ count' = count
      /\ restarts' = restarts /\ latest' = latest /\ sock \in [Conns -> Handler]
      /\ current \in Conns \cup {None} /\ sock[c].dev \in Devices
  BY <1>c DEF Verify, hubVars, Inv, TypeOK, MapInv, Registered
<1>a. SUFFICES ASSUME SockKeeps, EntryKept, CallsKeep, call' \in [Calls -> Calling],
                      call'[k].pc \notin Counted, \A j \in Calls : j # k => call'[j] = call[j],
                      sock' \in [Conns -> Handler], current' \in {current, None},
                      blocked \subseteq blocked', blocked' \subseteq Devices
               PROVE  Inv'
  <2>0. SockKeeps /\ EntryKept /\ CallsKeep /\ call' \in [Calls -> Calling]
        /\ call'[k].pc \notin Counted /\ (\A j \in Calls : j # k => call'[j] = call[j])
        /\ sock' \in [Conns -> Handler] /\ current' \in {current, None}
        /\ blocked \subseteq blocked' /\ blocked' \subseteq Devices
    <3>b. blocked \subseteq Devices
      BY DEF Inv, TypeOK
    <3>u. ASSUME sock' = sock, current' = current PROVE SockKeeps /\ EntryKept
      BY <3>u DEF SockKeeps, EntryKept, Registered, Live
    <3>1. CASE Return(k) /\ UNCHANGED <<hubVars, sock>>
      BY <3>1, <3>b, <3>u, <1>t, ReturnKeeps DEF hubVars, Counted
    <3>2. CASE /\ sock[c].dev \in active /\ call' = [call EXCEPT ![k].pc = "admit"]
               /\ UNCHANGED <<hubVars, sock>>
      <4>1. ~call[k].late
        BY <3>2, <1>c, <1>t DEF Inv, CallInv
      <4> QED
        BY <4>1, <3>2, <3>b, <3>u, <1>t, GoesOn DEF hubVars, Counted
    <3>3. CASE /\ blocked' = blocked \cup {sock[c].dev} /\ current = c /\ current' = None
               /\ sock' = [sock EXCEPT ![c].doomed = TRUE] /\ call' = [call EXCEPT ![k].pc = "evict"]
      <4>1. SockKeeps /\ sock' \in [Conns -> Handler]
        BY <3>3, <1>t, DoomMoves, MovedKeeps DEF Moved
      <4>2. EntryKept
        BY <3>3, NoneAssumption DEF EntryKept
      <4> QED
        BY <4>1, <4>2, <3>3, <3>b, <1>t, GoesOn DEF Counted
    <3>4. CASE /\ blocked' = blocked \cup {sock[c].dev} /\ Return(k) /\ UNCHANGED <<current, sock>>
      BY <3>4, <3>b, <3>u, <1>t, ReturnKeeps DEF Counted
    <3> QED
      BY <3>1, <3>2, <3>3, <3>4, <1>c DEF Verify
  <2> QED
    BY <2>0
<1>1. TypeOK'
  BY <1>a, <1>t DEF Inv, TypeOK
<1>2. MapInv' /\ BlockInv' /\ CallInv'
  BY <1>a, <1>t, MapKept, BlockKept, CallsKept DEF SockKeeps
<1>3. SlotInv'
  BY <1>a, <1>t, SlotsKept DEF Inv, Counted
<1> QED
  BY <1>1, <1>2, <1>3 DEF Inv

LEMMA TakeSlotStep ==
    ASSUME Inv, NEW k \in Calls, TakeSlot(k) PROVE Inv'
<1>t. call \in [Calls -> Calling] /\ call[k].pc = "admit"
  BY DEF TakeSlot, Inv, TypeOK
<1>1. CASE sock[call[k].conn].retired
  BY <1>1, <1>t, ReturnStep DEF TakeSlot, Counted
<1>2. CASE ~sock[call[k].conn].retired
  <2>1. /\ active' = active /\ revoke' = revoke /\ blocked' = blocked /\ current' = current
        /\ latest' = latest /\ sock' = sock /\ restarts' = restarts
    BY DEF TakeSlot, hubVars
  <2>2. PICK to \in {"reject", "enqueue"} : call' = [call EXCEPT ![k].pc = to]
    BY <1>2 DEF TakeSlot
  <2>3. /\ call' \in [Calls -> Calling] /\ call'[k].pc = to /\ call'[k].late = call[k].late
        /\ call'[k].conn = call[k].conn /\ \A j \in Calls : j # k => call'[j] = call[j]
    BY <1>t, <2>2 DEF Calling
  <2>4. CallsKeep
    BY <1>t, <2>3 DEF CallsKeep, Onward, Inv, CallInv
  <2>5. SlotInv' /\ count' \in [Conns -> Nat]
    BY <1>2, TakeSlots
  <2>6. TypeOK'
    BY <2>1, <2>3, <2>5 DEF Inv, TypeOK
  <2>7. SockKeeps /\ EntryKept
    BY <2>1 DEF SockKeeps, EntryKept, Registered, Live
  <2>8. MapInv' /\ BlockInv' /\ CallInv'
    BY <2>1, <2>4, <2>7, MapKept, BlockKept, CallsKept DEF SockKeeps
  <2> QED
    BY <2>5, <2>6, <2>8 DEF Inv
<1> QED
  BY <1>1, <1>2

\* Only a verified call is queued.
LEMMA EnqueueStep ==
    ASSUME Inv, NEW k \in Calls, Enqueue(k) PROVE Inv'
<1>c. PICK c \in Conns : call[k].conn = c
  BY DEF Enqueue, Inv, CallInv
<1>t. /\ call \in [Calls -> Calling] /\ call[k].pc = "enqueue" /\ ~call[k].late
      /\ sock \in [Conns -> Handler] /\ sock[c] \in Handler
      /\ active' = active /\ revoke' = revoke /\ blocked' = blocked /\ current' = current
      /\ latest' = latest /\ count' = count /\ restarts' = restarts
  BY DEF Enqueue, hubVars, Inv, TypeOK, CallInv
<1> DEFINE q == [sock[c] EXCEPT !.outbound = Append(sock[c].outbound, k)]
<1>1. sock' = [sock EXCEPT ![c] = q] /\ call' = [call EXCEPT ![k].pc = "wait"]
  BY <1>c, <1>t DEF Enqueue
<1>2. /\ sock[c].outbound \in Seq(Calls) /\ Append(sock[c].outbound, k) \in Seq(Calls)
      /\ {Append(sock[c].outbound, k)[i] : i \in DOMAIN Append(sock[c].outbound, k)}
           \subseteq {sock[c].outbound[i] : i \in DOMAIN sock[c].outbound} \cup {k}
  <2>1. sock[c].outbound \in Seq(Calls)
    BY <1>t DEF Handler
  <2> QED
    BY <2>1, AppendElements
<1>3. /\ q \in Handler /\ q.pc = sock[c].pc /\ q.dev = sock[c].dev
      /\ q.outbound = Append(sock[c].outbound, k) /\ q.send = sock[c].send /\ q.wire = sock[c].wire
  BY <1>t, <1>2 DEF Handler
<1> HIDE DEF q
<1>4. Queued(q) \subseteq Queued(sock[c]) \cup {k}
  BY <1>2, <1>3 DEF Queued
<1>5. /\ sock' \in [Conns -> Handler] /\ sock'[c] = q /\ \A b \in Conns : b # c => sock'[b] = sock[b]
  BY <1>1, <1>3, <1>t
<1>6. \A b \in Conns : /\ sock'[b].pc = sock[b].pc /\ sock'[b].dev = sock[b].dev
                       /\ Queued(sock'[b]) \subseteq Queued(sock[b]) \cup {k}
  BY <1>3, <1>4, <1>5
<1>7. /\ call' \in [Calls -> Calling] /\ call'[k].pc = "wait" /\ call'[k].late = call[k].late
      /\ call'[k].conn = call[k].conn /\ \A j \in Calls : j # k => call'[j] = call[j]
  BY <1>1, <1>t DEF Calling
<1>8. TypeOK'
  BY <1>t, <1>5, <1>7 DEF Inv, TypeOK
<1>v. current \in Conns \cup {None} /\ latest \in Conns \cup {None}
  BY DEF Inv, TypeOK
<1>9. MapInv'
  BY <1>t, <1>v, <1>6 DEF Inv, MapInv, Registered, LiveConnectionKept
<1>10. BlockInv'
  BY <1>t, <1>v, <1>6 DEF Inv, BlockInv, RevokedStaysOut, Connected
<1>11. CallInv'
  <2>1. (\A j \in Calls : call[j].pc \notin {"idle", "returned"} =>
           call[j].conn \in Conns /\ Registered(call[j].conn))'
    <3> SUFFICES ASSUME NEW j \in Calls, call'[j].pc \notin {"idle", "returned"}
                 PROVE  call'[j].conn \in Conns /\ sock'[call'[j].conn].pc \notin {"new", "checked"}
      BY DEF Registered
    <3>1. call'[j].conn = call[j].conn
      BY <1>7
    <3>2. call[j].pc \notin {"idle", "returned"}
      BY <1>t, <1>7
    <3>3. call[j].conn \in Conns /\ sock[call[j].conn].pc \notin {"new", "checked"}
      BY <3>2 DEF Inv, CallInv, Registered
    <3>4. sock'[call[j].conn].pc = sock[call[j].conn].pc
      BY <3>3, <1>6
    <3> QED
      BY <3>1, <3>3, <3>4
  <2>2. (\A j \in Calls : call[j].pc = "verify" /\ call[j].late => sock[call[j].conn].dev \notin active)'
    <3> SUFFICES ASSUME NEW j \in Calls, call'[j].pc = "verify", call'[j].late
                 PROVE  sock'[call'[j].conn].dev \notin active'
      OBVIOUS
    <3>1. call'[j] = call[j] /\ call[j].conn \in Conns
      BY <1>7 DEF Inv, CallInv
    <3> QED
      BY <3>1, <1>6, <1>t DEF Inv, CallInv
  <2>3. (\A j \in Calls : call[j].pc \in {"admit", "reject", "enqueue", "wait"} => ~call[j].late)'
    BY <1>t, <1>7 DEF Inv, CallInv
  <2>4. (\A b \in Conns : \A j \in Queued(sock[b]) :
           j \in Calls /\ call[j].pc \in {"wait", "returned"} /\ ~call[j].late)'
    <3> SUFFICES ASSUME NEW b \in Conns, NEW j \in Queued(sock'[b])
                 PROVE  j \in Calls /\ call'[j].pc \in {"wait", "returned"} /\ ~call'[j].late
      BY DEF Queued
    <3>1. CASE j = k
      BY <3>1, <1>t, <1>7
    <3>2. CASE j # k
      <4>1. j \in Queued(sock[b])
        BY <3>2, <1>6
      <4>2. j \in Calls /\ call[j].pc \in {"wait", "returned"} /\ ~call[j].late
        BY <4>1 DEF Inv, CallInv
      <4> QED
        BY <3>2, <4>2, <1>7
    <3> QED
      BY <3>1, <3>2
  <2> QED
    BY <2>1, <2>2, <2>3, <2>4 DEF CallInv
<1>12. SlotInv'
  BY <1>t, <1>7, SlotsKept DEF Inv
<1> QED
  BY <1>8, <1>9, <1>10, <1>11, <1>12 DEF Inv

\* No handler is left between its check and its registration, so forgetting
\* the block set lets nothing in.
LEMMA RestartStep ==
    ASSUME Inv, Restart PROVE Inv'
<1>t. /\ sock \in [Conns -> Handler] /\ call \in [Calls -> Calling] /\ revoke \in [Devices -> Revoking]
      /\ latest \in Conns \cup {None} /\ restarts \in Nat /\ MaxRestarts \in Nat
  BY CapAssumption DEF Inv, TypeOK
<1>1. /\ active' = active /\ latest' = latest /\ blocked' = {} /\ current' = None
      /\ count' = [c \in Conns |-> 0] /\ restarts' = restarts + 1 /\ restarts < MaxRestarts
  BY DEF Restart
<1>2. ASSUME NEW c \in Conns
      PROVE  /\ sock'[c] \in Handler /\ sock'[c].dev = sock[c].dev
             /\ sock'[c].pc = IF sock[c].pc = "new" THEN "new" ELSE "closed"
             /\ Queued(sock'[c]) \subseteq Queued(sock[c])
  <2>1. CASE sock[c].pc = "new"
    BY <2>1, <1>t DEF Restart
  <2>2. CASE sock[c].pc # "new"
    <3> DEFINE g == [Gone(c) EXCEPT !.doomed = TRUE, !.retired = TRUE]
    <3>1. sock'[c] = g
      BY <2>2 DEF Restart
    <3>2. /\ Gone(c) \in Handler /\ Gone(c).pc = "closed" /\ Gone(c).dev = sock[c].dev
          /\ Gone(c).outbound = <<>> /\ Gone(c).send = <<>> /\ Gone(c).wire = {}
      BY <1>t, GoneType DEF Gone, Handler
    <3>3. /\ g \in Handler /\ g.pc = "closed" /\ g.dev = sock[c].dev
          /\ g.outbound = <<>> /\ g.send = <<>> /\ g.wire = {}
      BY <3>2 DEF Handler
    <3> HIDE DEF g
    <3>4. Queued(g) = {}
      BY <3>3 DEF Queued
    <3> QED
      BY <2>2, <3>1, <3>3, <3>4
  <2> QED
    BY <2>1, <2>2
<1>3. sock' \in [Conns -> Handler]
  BY <1>2 DEF Restart
<1>4. ASSUME NEW k \in Calls
      PROVE  /\ call'[k] \in Calling /\ call'[k].pc \in {"idle", "returned"}
             /\ call'[k].late = call[k].late
             /\ call[k].pc \in {"wait", "returned"} => call'[k].pc = "returned"
  BY <1>t DEF Restart, Calling
<1>5. call' \in [Calls -> Calling]
  BY <1>4 DEF Restart
<1>6. ASSUME NEW d \in Devices
      PROVE  /\ revoke'[d] \in Revoking /\ revoke'[d].pc \notin {"committed", "evicting"}
             /\ revoke'[d].pc # "no" => revoke[d].pc # "no"
  BY <1>t DEF Restart, Revoking
<1>7. revoke' \in [Devices -> Revoking]
  BY <1>6 DEF Restart
<1>8. TypeOK'
  BY <1>1, <1>t, <1>3, <1>5, <1>7, CapAssumption DEF Inv, TypeOK
<1>9. MapInv'
  <2>1. (\A c \in Conns : sock[c].pc # "new" => sock[c].dev \in Devices)'
    BY <1>2 DEF Inv, MapInv
  <2>2. latest # None => latest \in Conns /\ sock'[latest].pc = "closed"
    BY <1>t, <1>2 DEF Inv, MapInv, Registered
  <2> QED
    BY <1>1, <2>1, <2>2 DEF MapInv, Registered, LiveConnectionKept
<1>10. BlockInv'
  BY <1>1, <1>2, <1>6 DEF Inv, BlockInv, RevokedStaysOut, Connected
<1>11. CallInv'
  BY <1>2, <1>4 DEF Inv, CallInv
<1>12. SlotInv'
  <2>1. \A c \in Conns : Slots(c)' = {} /\ Held(c)' = {}
    BY <1>4 DEF Slots, Held, Holding
  <2>2. \A c \in Conns : count'[c] = 0
    BY <1>1
  <2> QED
    BY <2>1, <2>2, FS_EmptySet, CapAssumption DEF SlotInv, SlotsBalance, PendingBound, Slots, Held
<1> QED
  BY <1>8, <1>9, <1>10, <1>11, <1>12 DEF Inv

LEMMA InitInv == Init => Inv
<1> SUFFICES ASSUME Init PROVE Inv
  OBVIOUS
<1>1. \A c \in Conns : /\ sock[c].pc = "new" /\ sock[c].outbound = <<>>
                       /\ sock[c].send = <<>> /\ sock[c].wire = {}
  BY DEF Init
<1>2. sock \in [Conns -> Handler]
  BY SMTT(30) DEF Init, Handler
<1>3. call \in [Calls -> Calling] /\ revoke \in [Devices -> Revoking] /\ count \in [Conns -> Nat]
  BY DEF Init, Calling, Revoking
<1>r. restarts \in 0..MaxRestarts
  BY CapAssumption DEF Init
<1>v. active \subseteq Devices /\ blocked \subseteq Devices /\ current = None /\ latest = None
  BY DEF Init
<1>4. TypeOK
  BY <1>2, <1>3, <1>r, <1>v DEF TypeOK
<1>5. \A c \in Conns : Queued(sock[c]) = {}
  BY <1>1 DEF Queued
<1>6. MapInv
  BY <1>1 DEF Init, MapInv, LiveConnectionKept
<1>7. BlockInv
  BY DEF Init, BlockInv, RevokedStaysOut
<1>8. CallInv
  BY <1>5 DEF Init, CallInv
<1>9. SlotInv
  <2>1. \A c \in Conns : Slots(c) = {} /\ Held(c) = {} /\ count[c] = 0
    BY DEF Init, Slots, Held, Holding
  <2> QED
    BY <2>1, FS_EmptySet, CapAssumption DEF SlotInv, SlotsBalance, PendingBound, Slots, Held
<1> QED
  BY <1>4, <1>6, <1>7, <1>8, <1>9 DEF Inv

LEMMA NextInv == Inv /\ [Next]_vars => Inv'
<1> SUFFICES ASSUME Inv, [Next]_vars PROVE Inv'
  OBVIOUS
<1>1. CASE \E c \in Conns : HandlerStep(c) \/ PumpStep(c) \/ \E k \in Calls : Answered(c, k)
  <2>1. PICK c \in Conns : HandlerStep(c) \/ PumpStep(c) \/ \E k \in Calls : Answered(c, k)
    BY <1>1
  <2>2. CASE HandlerStep(c) \/ PumpStep(c)
    BY <2>2, AdmitStep, TryRegisterStep, ConnStep, UnregisterStep DEF HandlerStep, PumpStep
  <2>3. CASE \E k \in Calls : Answered(c, k)
    BY <2>3, LeaveStep DEF Answered, Counted
  <2> QED
    BY <2>1, <2>2, <2>3
<1>2. CASE \E d \in Devices : RevokeStep(d)
  BY <1>2, RevokeStepKeeps
<1>3. CASE \E k \in Calls : CallStep(k)
  <2>1. PICK k \in Calls : CallStep(k)
    BY <1>3
  <2>2. CASE Reject(k) \/ Cancelled(k) \/ ConnectionRetired(k) \/ Deadline(k)
    BY <2>2, LeaveStep DEF Reject, Cancelled, ConnectionRetired, Deadline, Holding, Counted
  <2>3. CASE RetiredInactive(k)
    BY <2>3, ReturnStep DEF RetiredInactive, Counted
  <2> QED
    BY <2>1, <2>2, <2>3, CallLookup, VerifyStep, TakeSlotStep, EnqueueStep DEF CallStep
<1>4. CASE Restart
  BY <1>4, RestartStep
<1>5. CASE UNCHANGED vars
  <2>1. /\ sock' = sock /\ call' = call /\ revoke' = revoke /\ count' = count /\ active' = active
        /\ blocked' = blocked /\ current' = current /\ latest' = latest /\ restarts' = restarts
    BY <1>5 DEF vars
  <2>2. TypeOK'
    BY <2>1 DEF Inv, TypeOK
  <2>3. MapInv'
    BY <2>1 DEF Inv, MapInv, Registered, LiveConnectionKept, Connected
  <2>4. BlockInv'
    BY <2>1 DEF Inv, BlockInv, RevokedStaysOut, Connected, Registered
  <2>5. CallInv'
    <3>1. CallInv /\ \A c \in Conns : Registered(c)' = Registered(c)
      BY <2>1 DEF Inv, Registered
    <3> QED
      BY <2>1, <3>1 DEF CallInv, Queued
  <2>6. SlotInv'
    BY <2>1 DEF Inv, SlotInv, SlotsBalance, PendingBound, Slots, Held, Holding
  <2> QED
    BY <2>2, <2>3, <2>4, <2>5, <2>6 DEF Inv
<1> QED
  BY <1>1, <1>2, <1>3, <1>4, <1>5 DEF Next

LEMMA AlwaysInv == Spec => []Inv
  BY InitInv, NextInv, PTL DEF Spec

-----------------------------------------------------------------------------
(* Theorems. *)

\* A device that BlockDevice has dealt with is never again the user's
\* connection: not by a handler that had passed its admission check, and not
\* after a restart that loses the block set.
THEOREM RevokedNeverReturns == Spec => []RevokedStaysOut
<1>1. Inv => RevokedStaysOut
  BY DEF Inv, BlockInv
<1> QED
  BY <1>1, AlwaysInv, PTL

\* The user's entry is the connection registered last for as long as its
\* handler runs and its device is not blocked: UnregisterSend and
\* retireConnection of an older connection never take it away.
THEOREM LatestIsServed == Spec => []LiveConnectionKept
<1>1. Inv => LiveConnectionKept
  BY DEF Inv, MapInv
<1> QED
  BY <1>1, AlwaysInv, PTL

\* verifyDevice before dispatch is enough: no call made after the revocation
\* of its device, in this process or another, reaches the device's socket.
THEOREM NoLateDispatch == Spec => []RevokedNotServed
<1>1. Inv => RevokedNotServed
  BY DEF Inv, CallInv, Queued, RevokedNotServed
<1> QED
  BY <1>1, AlwaysInv, PTL

\* pendingCount is exact on every way out of Hub.Call, and therefore the
\* limit holds with any number of concurrent callers.
THEOREM SlotsExact == Spec => [](SlotsBalance /\ PendingBound)
<1>1. Inv => SlotsBalance /\ PendingBound
  BY DEF Inv, SlotInv
<1> QED
  BY <1>1, AlwaysInv, PTL

\* A revoked device is cut off: it is never again the user's connection, and
\* no call made after the revocation reaches it (BlockDevice, verifyDevice).
THEOREM RevokedStaysCutOff == Spec => []RevokedIsCutOff
  BY RevokedNeverReturns, NoLateDispatch, PTL DEF RevokedIsCutOff

\* The slots of Hub.Call are counted exactly and never exceed their limit.
THEOREM CallSlotsHold == Spec => []CallSlots
  BY SlotsExact, PTL DEF CallSlots
=============================================================================
