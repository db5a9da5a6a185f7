---------------------------- MODULE ServerProofs -----------------------------
(***************************************************************************)
(* What the event loop of the daemon guarantees for any number of slots,   *)
(* any clients and any shutoff time, longer than epoll_wait can wait or    *)
(* not: type correctness, that the server listens exactly when it has      *)
(* room, what a timeout says of the clients, and that each connection is   *)
(* in one place.                                                           *)
(***************************************************************************)
EXTENDS Server, TLAPS, WellFoundedInduction

(* Ages are saturating: growing older stays within them and keeps order.   *)
LEMMA AgesGrow ==
    /\ Oldest \in Nat /\ 0 \in Ages
    /\ \A a \in Ages : Older(a) \in Ages
    /\ \A a, b \in Ages : a >= b => Older(a) >= Older(b)
  BY ServerAssumption DEF Oldest, Ages, Older

(* Dropping connections only frees slots and keeps the types.              *)
LEMMA DropType ==
    ASSUME TypeOK, NEW dropped \in SUBSET Slots, Drop(dropped)
    PROVE  /\ slot' \in [Slots -> Peers \cup {None}]
           /\ unread' \in [Peers -> 0..MaxUnread]
           /\ closed' \in SUBSET Peers
           /\ \A i \in Slots : slot[i] = None => slot'[i] = None
           /\ \A i \in Slots \ dropped : slot'[i] = slot[i]
  <1>1. 0 \in 0..MaxUnread
    BY ServerAssumption
  <1> QED
    BY <1>1 DEF TypeOK, Drop

(* The initial state of server_create is well typed. *)
LEMMA TypeInit == Init => TypeOK
  BY ServerAssumption, AgesGrow DEF Init, TypeOK, Fresh, Slots

(* No step of the clients, of the loop or of systemd breaks the types. *)
LEMMA TypeStep == TypeOK /\ [Next]_vars => TypeOK'
  <1> SUFFICES ASSUME TypeOK, [Next]_vars PROVE TypeOK'
    OBVIOUS
  <1>1. CASE \E p \in Peers : Connect(p) \/ Request(p) \/ Hangup(p)
    <2> PICK p \in Peers : Connect(p) \/ Request(p) \/ Hangup(p)
      BY <1>1
    <2>1. CASE Connect(p)
      BY <2>1 DEF Connect, TypeOK, loop
    <2>2. CASE Request(p)
      <3>1. unread[p] + 1 \in 0..MaxUnread
        BY <2>2, ServerAssumption DEF Request, TypeOK
      <3> QED
        BY <2>2, <3>1 DEF Request, TypeOK, loop
    <2>3. CASE Hangup(p)
      BY <2>3 DEF Hangup, TypeOK, loop
    <2> QED
      BY <2>1, <2>2, <2>3
  <1>2. CASE Tick
    BY <1>2, AgesGrow DEF Tick, TypeOK
  <1>3. CASE Timeout \/ Interrupted \/ epoll_failing
    BY <1>3 DEF Timeout, Interrupted, epoll_failing, Dispatched, server_stop, TypeOK
  <1>4. CASE \E i \in Slots : on_client_hangup(i) \/ on_client_event(i)
    <2> PICK i \in Slots : on_client_hangup(i) \/ on_client_event(i)
      BY <1>4
    <2>1. CASE on_client_hangup(i)
      <3>1. /\ slot' \in [Slots -> Peers \cup {None}]
            /\ unread' \in [Peers -> 0..MaxUnread]
            /\ closed' \in SUBSET Peers
        BY <2>1, DropType DEF on_client_hangup
      <3> QED
        BY <2>1, <3>1, AgesGrow DEF on_client_hangup, Dispatched, TypeOK
    <2>2. CASE on_client_event(i)
      BY <2>2 DEF on_client_event, TypeOK
    <2> QED
      BY <2>1, <2>2
  <1>5. CASE onrequest \/ flushw \/ Keep
    <2>1. CASE onrequest
      <3>1. CASE slot[cur] \in Peers
        <4>1. unread[slot[cur]] - 1 \in 0..MaxUnread
          BY <2>1, <3>1, ServerAssumption DEF onrequest, TypeOK
        <4> QED
          BY <2>1, <4>1 DEF onrequest, TypeOK
      <3>2. CASE slot[cur] \notin Peers
        BY <2>1, <3>2 DEF onrequest, TypeOK
      <3> QED
        BY <3>1, <3>2
    <2>2. CASE flushw
      BY <2>2 DEF flushw, TypeOK
    <2>3. CASE Keep
      BY <2>3, AgesGrow DEF Keep, Dispatched, TypeOK
    <2> QED
      BY <1>5, <2>1, <2>2, <2>3
  <1>6. CASE Discard
    <2>1. /\ slot' \in [Slots -> Peers \cup {None}]
          /\ unread' \in [Peers -> 0..MaxUnread]
          /\ closed' \in SUBSET Peers
      BY <1>6, DropType DEF Discard, TypeOK
    <2> QED
      BY <1>6, <2>1, AgesGrow DEF Discard, Dispatched, TypeOK
  <1>7. CASE on_server_event
    <2>1. Head(backlog) \in Peers /\ Tail(backlog) \in Seq(Peers)
      BY <1>7 DEF on_server_event, ServerReady, TypeOK
    <2>2. armed' \in BOOLEAN /\ deaf' \in BOOLEAN /\ stopped' \in {"no", "quiet", "error"}
      BY <1>7 DEF on_server_event, pollitem_mod, server_stop, TypeOK
    <2> QED
      BY <1>7, <2>1, <2>2, AgesGrow DEF on_server_event, Dispatched, TypeOK
  <1>8. CASE on_server_event_failing
    <2>1. /\ Head(backlog) \in Peers /\ Tail(backlog) \in Seq(Peers)
          /\ 0 \in 0..MaxUnread
      BY <1>8, ServerAssumption DEF on_server_event_failing, ServerReady, TypeOK
    <2> QED
      BY <1>8, <2>1 DEF on_server_event_failing, server_stop, Dispatched, TypeOK
  <1>9. CASE Sweep
    <2>1. /\ slot' \in [Slots -> Peers \cup {None}]
          /\ unread' \in [Peers -> 0..MaxUnread]
          /\ closed' \in SUBSET Peers
      BY <1>9, DropType DEF Sweep, Inactives
    <2>2. armed' \in BOOLEAN /\ stopped' \in {"no", "quiet", "error"}
      BY <1>9 DEF Sweep, pollitem_mod, server_stop, TypeOK
    <2>3. 0 \in Slots
      BY ServerAssumption DEF Slots
    <2> QED
      BY <1>9, <2>1, <2>2, <2>3, AgesGrow DEF Sweep, TypeOK
  <1>10. CASE server_destroy
    <2>1. /\ slot' \in [Slots -> Peers \cup {None}]
          /\ unread' \in [Peers -> 0..MaxUnread]
          /\ closed' \in SUBSET Peers
      BY <1>10, DropType DEF server_destroy
    <2> QED
      BY <1>10, <2>1, AgesGrow DEF server_destroy, Fresh, loop, TypeOK
  <1>11. CASE Activation
    <2>1. 0 \in Slots
      BY ServerAssumption DEF Slots
    <2> QED
      BY <1>11, <2>1, AgesGrow DEF Activation, Fresh, TypeOK
  <1>12. CASE UNCHANGED vars
    BY <1>12 DEF vars, TypeOK
  <1> QED
    BY <1>1, <1>2, <1>3, <1>4, <1>5, <1>6, <1>7, <1>8, <1>9, <1>10, <1>11, <1>12
    DEF Next, Environment, Dispatch, Handle

(* The server structure and its loop stay well typed. *)
THEOREM ServerTypeOK == Spec => []TypeOK
  <1> QED
    BY TypeInit, TypeStep, PTL DEF Spec

-----------------------------------------------------------------------------
(* Listening.  The property speaks of the loop when it waits; what makes   *)
(* it inductive is what the sweep needs to know: a server that is not      *)
(* going to stop and does not listen is deaf, so that the sweep looks for  *)
(* room, and one that listens has room.                                    *)
Room == \E i \in Slots : slot[i] = None

ListenInv ==
    /\ pc = "wait" \/ InHandler => stopped = "no" /\ (Room => armed)
    /\ pc # "stopped" /\ stopped = "no" => (armed => Room) /\ (armed \/ deaf)

(* A fresh server listens and all its slots are free. *)
LEMMA ListenInit == Init => ListenInv
  <1>1. 0 \in Slots
    BY ServerAssumption DEF Slots
  <1> QED
    BY <1>1 DEF Init, Fresh, ListenInv, Room, InHandler

(* Accepting in the last free slot stops listening and makes deaf, leaving *)
(* frees a slot, and the sweep listens again when deaf.                    *)
LEMMA ListenStep == TypeOK /\ ListenInv /\ [Next]_vars => ListenInv'
  <1> SUFFICES ASSUME TypeOK, ListenInv, [Next]_vars PROVE ListenInv'
    OBVIOUS
  <1>1. CASE UNCHANGED <<slot, loop>>
    BY <1>1 DEF loop, ListenInv, Room, InHandler
  <1>2. CASE \E p \in Peers : Connect(p) \/ Request(p) \/ Hangup(p)
    BY <1>2, <1>1 DEF Connect, Request, Hangup
  <1>3. CASE Tick \/ Timeout \/ Interrupted \/ epoll_failing
    BY <1>3 DEF Tick, Timeout, Interrupted, epoll_failing, Dispatched, ListenInv, Room,
                InHandler
  <1>4. CASE \E i \in Slots : on_client_hangup(i) \/ on_client_event(i)
    <2> PICK i \in Slots : on_client_hangup(i) \/ on_client_event(i)
      BY <1>4
    <2>1. CASE on_client_hangup(i)
      <3>1. \A j \in Slots : slot[j] = None => slot'[j] = None
        BY <2>1, DropType DEF on_client_hangup
      <3> QED
        BY <2>1, <3>1 DEF on_client_hangup, Dispatched, ListenInv, Room, InHandler
    <2>2. CASE on_client_event(i)
      BY <2>2 DEF on_client_event, ListenInv, Room, InHandler
    <2> QED
      BY <2>1, <2>2
  <1>5. CASE onrequest \/ flushw \/ Keep
    BY <1>5 DEF onrequest, flushw, Keep, Dispatched, ListenInv, Room, InHandler
  <1>6. CASE Discard
    <2>1. \A j \in Slots : slot[j] = None => slot'[j] = None
      BY <1>6, DropType DEF Discard, TypeOK
    <2> QED
      BY <1>6, <2>1 DEF Discard, Dispatched, ListenInv, Room, InHandler
  <1>7. CASE on_server_event
    <2>1. CASE \E i, j \in Free : i # j
      <3>1. PICK i \in Slots : slot[i] = None /\ ~FirstFree(i)
        BY <2>1 DEF Free, FirstFree, Slots
      <3>2. slot'[i] = None
        BY <1>7, <3>1 DEF on_server_event
      <3>3. Room'
        BY <3>2 DEF Room
      <3>4. pc = "wait" /\ pc' = "sweep" /\ UNCHANGED <<armed, deaf, stopped>>
        BY <1>7, <2>1 DEF on_server_event, Dispatched
      <3> QED
        BY <3>3, <3>4 DEF ListenInv, InHandler
    <2>2. CASE \A i, j \in Free : i = j
      BY <1>7, <2>2 DEF on_server_event, pollitem_mod, server_stop, Dispatched, ListenInv,
                        InHandler
    <2> QED
      BY <2>1, <2>2
  <1>8. CASE on_server_event_failing
    BY <1>8 DEF on_server_event_failing, server_stop, Dispatched, ListenInv, Room, InHandler
  <1>9. CASE Sweep
    <2>1. Room => Room'
      BY <1>9, DropType DEF Sweep, Inactives, Room
    <2>2. pc' = IF stopped' = "no" THEN "wait" ELSE "stopped"
      BY <1>9 DEF Sweep
    <2>3. stopped' = "no" => stopped = "no"
      BY <1>9 DEF Sweep, server_stop, pollitem_mod
    <2>4. ASSUME stopped' = "no" PROVE armed' <=> Room'
      <3>1. stopped = "no" /\ (armed => Room) /\ (armed \/ deaf)
        BY <1>9, <2>3, <2>4 DEF Sweep, ListenInv
      <3>2. IF deaf /\ Room' THEN armed' = TRUE ELSE UNCHANGED armed
        BY <1>9, <2>4, <3>1 DEF Sweep, server_stop, pollitem_mod, Room
      <3> QED
        BY <2>1, <3>1, <3>2 DEF TypeOK
    <2>5. ASSUME stopped' = "no" PROVE armed' \/ deaf'
      <3>1. armed \/ deaf
        BY <1>9, <2>3, <2>5 DEF Sweep, ListenInv
      <3>2. deaf' = deaf /\ (armed => armed')
        BY <1>9, <2>3, <2>5 DEF Sweep, server_stop, pollitem_mod
      <3> QED
        BY <3>1, <3>2
    <2> QED
      BY <2>2, <2>4, <2>5 DEF ListenInv, InHandler
  <1>10. CASE server_destroy
    BY <1>10 DEF server_destroy, loop, ListenInv, InHandler
  <1>11. CASE Activation
    <2>1. 0 \in Slots /\ slot' = [i \in Slots |-> None]
      BY <1>11, ServerAssumption DEF Slots, Activation, Fresh
    <2>2. Room'
      BY <2>1 DEF Room
    <2> QED
      BY <1>11, <2>2 DEF Activation, ListenInv, InHandler
  <1>12. CASE UNCHANGED vars
    BY <1>12, <1>1 DEF vars, loop
  <1> QED
    BY <1>2, <1>3, <1>4, <1>5, <1>6, <1>7, <1>8, <1>9, <1>10, <1>11, <1>12
    DEF Next, Environment, Dispatch, Handle

(* Whenever the loop waits, it listens exactly when a slot is free: a full *)
(* server never stays deaf after a client left, and never spins.           *)
THEOREM ServerListensIffRoom == Spec => []ListensIffRoom
  <1>1. TypeOK /\ ListenInv => ListensIffRoom
    BY DEF TypeOK, ListenInv, ListensIffRoom, Room
  <1> QED
    BY <1>1, TypeInit, TypeStep, ListenInit, ListenStep, PTL DEF Spec

-----------------------------------------------------------------------------
(* Timeouts.  While the loop waits nobody has been silent for less time    *)
(* than the wait lasts, since a client's lasttime is set before it began.  *)
QuietInv ==
    /\ pc = "wait" => \A i \in Slots : slot[i] # None => age[i] >= waited
    /\ TimeoutIsQuiet

(* There is no client at first. *)
LEMMA QuietInit == Init => QuietInv
  BY DEF Init, Fresh, QuietInv, TimeoutIsQuiet

(* Time passes for the clients and for the wait alike; every sweep starts  *)
(* a new wait.                                                             *)
LEMMA QuietStep == TypeOK /\ QuietInv /\ [Next]_vars => QuietInv'
  <1> SUFFICES ASSUME TypeOK, QuietInv, [Next]_vars PROVE QuietInv'
    OBVIOUS
  <1>1. CASE UNCHANGED <<slot, age, loop>>
    BY <1>1 DEF loop, QuietInv, TimeoutIsQuiet, Inactive
  <1>2. CASE \E p \in Peers : Connect(p) \/ Request(p) \/ Hangup(p)
    BY <1>2, <1>1 DEF Connect, Request, Hangup
  <1>3. CASE Tick
    <2>1. pc' = pc /\ slot' = slot /\ pc # "sweep"
      BY <1>3 DEF Tick, InHandler
    <2>2. ASSUME pc = "wait", NEW i \in Slots, slot[i] # None
          PROVE  age'[i] >= waited'
      <3>1. age[i] \in Ages /\ waited \in Ages /\ age[i] >= waited
        BY <2>2 DEF TypeOK, QuietInv
      <3>2. age'[i] = Older(age[i]) /\ waited' = Older(waited)
        BY <1>3, <2>2 DEF Tick
      <3> QED
        BY <3>1, <3>2, AgesGrow
    <2> QED
      BY <2>1, <2>2 DEF QuietInv, TimeoutIsQuiet
  <1>4. CASE Timeout
    <2>1. pc' = "sweep" /\ slot' = slot /\ age' = age
      BY <1>4 DEF Timeout, Dispatched
    <2>2. \A i \in Slots : slot[i] # None => age[i] >= waited
      BY <1>4 DEF Timeout, QuietInv
    <2>3. ShutOff >= 0 /\ waited >= tempo
      BY <1>4 DEF Timeout
    <2>4. ASSUME NEW i \in Slots, slot[i] # None
          PROVE  age[i] >= ShutOff \/ (ShutOff > MaxTempo /\ age[i] >= MaxTempo)
      <3>1. age[i] >= waited /\ age[i] \in Int /\ waited \in Int
        BY <2>2, <2>4, AgesGrow DEF TypeOK, Ages
      <3> QED
        BY <2>3, <3>1, ServerAssumption DEF tempo
    <2> QED
      BY <2>1, <2>3, <2>4 DEF QuietInv, TimeoutIsQuiet, Inactive
  <1>5. CASE Sweep
    <2>1. pc' \in {"wait", "stopped"} /\ waited' = 0
      BY <1>5 DEF Sweep
    <2>2. \A i \in Slots : age'[i] >= 0
      <3>1. TypeOK'
        BY TypeStep
      <3>2. age' \in [Slots -> Ages]
        BY <3>1 DEF TypeOK
      <3> QED
        BY <3>2, AgesGrow DEF Ages
    <2> QED
      BY <2>1, <2>2 DEF QuietInv, TimeoutIsQuiet
  <1>6. CASE Activation
    BY <1>6 DEF Activation, Fresh, QuietInv, TimeoutIsQuiet
  <1>7. CASE server_destroy
    <2>1. pc' = "stopped"
      BY <1>7 DEF server_destroy, loop
    <2> QED
      BY <2>1 DEF QuietInv, TimeoutIsQuiet
  <1>8. CASE pc' # "wait" /\ rc' # 0
    BY <1>8 DEF QuietInv, TimeoutIsQuiet
  <1>9. CASE pc' \in {"handle", "flush", "reject", "stopped"}
    BY <1>9 DEF QuietInv, TimeoutIsQuiet
  <1>10. CASE UNCHANGED vars
    BY <1>10, <1>1 DEF vars, loop
  <1>11. CASE \/ Interrupted \/ on_server_event \/ on_server_event_failing
             \/ Keep \/ Discard
    <2>1. pc' = "sweep" /\ rc' \in {-1, 1}
      BY <1>11 DEF Interrupted, on_server_event, on_server_event_failing,
                   Keep, Discard, Dispatched
    <2> QED
      BY <2>1, <1>8
  <1>12. CASE epoll_failing
    BY <1>12, <1>9 DEF epoll_failing
  <1>13. CASE \E i \in Slots : on_client_hangup(i) \/ on_client_event(i)
    BY <1>13, <1>8, <1>9 DEF on_client_hangup, on_client_event, Dispatched
  <1>14. CASE onrequest \/ flushw
    BY <1>14, <1>9 DEF onrequest, flushw
  <1> QED
    BY <1>2, <1>3, <1>4, <1>5, <1>6, <1>7, <1>10, <1>11, <1>12, <1>13, <1>14
    DEF Next, Environment, Dispatch, Handle

(* When epoll_wait times out every client is due to be dropped, unless     *)
(* shutofftime is more than epoll_wait can wait: then each has been silent *)
(* for that longest wait at least.                                         *)
THEOREM ServerTimeoutIsQuiet == Spec => []TimeoutIsQuiet
  <1>1. QuietInv => TimeoutIsQuiet
    BY DEF QuietInv
  <1> QED
    BY <1>1, TypeInit, TypeStep, QuietInit, QuietStep, PTL DEF Spec

-----------------------------------------------------------------------------
(* Connections.  OnePlace is inductive once the types are known.           *)

(* Among free slots there is a first one. *)
LEMMA Least ==
    ASSUME NEW T \in SUBSET Nat, T # {}
    PROVE  \E m \in T : \A k \in T : m <= k
  <1> DEFINE R == {ss \in Nat \X Nat : ss[1] < ss[2]}
  <1>1. IsWellFoundedOn(R, Nat)
    BY NatLessThanWellFounded DEF OpToRel
  <1> HIDE DEF R
  <1>2. PICK m \in T : \A k \in T : ~(<<k, m>> \in R)
    BY <1>1, WFMin
  <1>3. \A k \in T : ~(k < m)
    BY <1>2 DEF R
  <1> QED
    BY <1>3

(* The connection at the head of a backlog without repetition leaves it,   *)
(* and nobody else does.                                                   *)
LEMMA TailOfQueue ==
    ASSUME backlog \in Seq(Peers), backlog # <<>>, backlog' = Tail(backlog),
           \A i, j \in DOMAIN backlog : backlog[i] = backlog[j] => i = j
    PROVE  /\ \A i, j \in DOMAIN backlog' : backlog'[i] = backlog'[j] => i = j
           /\ Queued' = Queued \ {Head(backlog)} /\ Head(backlog) \in Queued
  <1>1. /\ Len(backlog) \in Nat \ {0} /\ DOMAIN backlog = 1..Len(backlog)
        /\ backlog' \in Seq(Peers) /\ DOMAIN backlog' = 1..(Len(backlog) - 1)
        /\ \A i \in 1..(Len(backlog) - 1) : backlog'[i] = backlog[i + 1]
        /\ Head(backlog) = backlog[1]
    OBVIOUS
  <1>2. \A i, j \in DOMAIN backlog' : backlog'[i] = backlog'[j] => i = j
    <2> TAKE i, j \in DOMAIN backlog'
    <2>1. i + 1 \in DOMAIN backlog /\ j + 1 \in DOMAIN backlog
      BY <1>1
    <2>2. backlog[i + 1] = backlog[j + 1] => i + 1 = j + 1
      BY <2>1
    <2> QED
      BY <1>1, <2>2
  <1>3. ASSUME NEW p \in Queued, p # Head(backlog)
        PROVE  p \in Queued'
    <2>1. PICK i \in DOMAIN backlog : backlog[i] = p
      BY <1>3 DEF Queued
    <2>2. i - 1 \in 1..(Len(backlog) - 1) /\ (i - 1) + 1 = i
      BY <1>1, <1>3, <2>1
    <2>3. backlog'[i - 1] = p
      BY <1>1, <2>1, <2>2
    <2> QED
      BY <1>1, <2>2, <2>3 DEF Queued
  <1>4. ASSUME NEW p \in Queued'
        PROVE  p \in Queued /\ p # Head(backlog)
    <2>1. PICK i \in DOMAIN backlog' : backlog'[i] = p
      BY <1>4 DEF Queued
    <2>2. i + 1 \in DOMAIN backlog /\ backlog[i + 1] = p /\ 1 \in DOMAIN backlog /\ i + 1 # 1
      BY <1>1, <2>1
    <2> QED
      BY <1>1, <2>2 DEF Queued
  <1>5. Head(backlog) \in Queued
    BY <1>1 DEF Queued
  <1> QED
    BY <1>2, <1>3, <1>4, <1>5

(* A new connection comes last in the backlog. *)
LEMMA EndOfQueue ==
    ASSUME backlog \in Seq(Peers), NEW p \in Peers \ Queued, backlog' = Append(backlog, p),
           \A i, j \in DOMAIN backlog : backlog[i] = backlog[j] => i = j
    PROVE  /\ \A i, j \in DOMAIN backlog' : backlog'[i] = backlog'[j] => i = j
           /\ Queued' = Queued \cup {p}
  <1>1. /\ Len(backlog) \in Nat /\ DOMAIN backlog = 1..Len(backlog)
        /\ DOMAIN backlog' = 1..(Len(backlog) + 1)
        /\ \A i \in 1..Len(backlog) : backlog'[i] = backlog[i]
        /\ backlog'[Len(backlog) + 1] = p
    OBVIOUS
  <1>2. \A i \in DOMAIN backlog : backlog[i] # p
    BY DEF Queued
  <1>3. DOMAIN backlog' = DOMAIN backlog \cup {Len(backlog) + 1}
    BY <1>1
  <1>4. \A i, j \in DOMAIN backlog' : backlog'[i] = backlog'[j] => i = j
    BY <1>1, <1>2, <1>3
  <1>5. Queued' = Queued \cup {p}
    BY <1>1, <1>3 DEF Queued
  <1> QED
    BY <1>4, <1>5

(* Closing connections forgets what their clients sent, and theirs only.   *)
LEMMA DropPlace ==
    ASSUME TypeOK, OnePlace, NEW dropped \in SUBSET Slots, Drop(dropped), UNCHANGED backlog
    PROVE  OnePlace'
  <1>1. /\ \A i \in dropped : slot'[i] = None
        /\ \A i \in Slots \ dropped : slot'[i] = slot[i]
    BY DEF Drop
  <1>2. Queued' = Queued
    BY DEF Queued
  <1>3. Served' \subseteq Served
    BY <1>1 DEF Served
  <1>4. ASSUME NEW p \in Peers, p \notin Queued', p \notin Served'
        PROVE  unread'[p] = 0 /\ p \notin closed'
    <2>1. CASE p \in Served
      <3>1. PICK i \in Slots : slot[i] = p /\ p # None
        BY <2>1 DEF Served
      <3>2. i \in dropped
        BY <1>1, <1>4, <3>1 DEF Served
      <3> QED
        BY <3>1, <3>2 DEF Drop
    <2>2. CASE p \notin Served
      <3>1. unread[p] = 0 /\ p \notin closed
        BY <1>2, <1>4, <2>2 DEF OnePlace
      <3> QED
        BY <3>1 DEF Drop
    <2> QED
      BY <2>1, <2>2
  <1>5. \A i, j \in Slots : slot'[i] = slot'[j] /\ slot'[i] # None => i = j
    BY <1>1 DEF OnePlace
  <1> QED
    BY <1>2, <1>3, <1>4, <1>5 DEF OnePlace

(* No peer has a connection at first. *)
LEMMA PlaceInit == Init => OnePlace
  BY DEF Init, Fresh, OnePlace, Queued, Served

(* A connection moves from the backlog to a free slot; its end erases it.  *)
LEMMA PlaceStep == TypeOK /\ OnePlace /\ [Next]_vars => OnePlace'
  <1> SUFFICES ASSUME TypeOK, OnePlace, [Next]_vars PROVE OnePlace'
    OBVIOUS
  <1>0. /\ backlog \in Seq(Peers) /\ None \notin Peers
        /\ \A i, j \in DOMAIN backlog : backlog[i] = backlog[j] => i = j
        /\ unread \in [Peers -> 0..MaxUnread]
    BY ServerAssumption DEF TypeOK, OnePlace
  <1>1. CASE UNCHANGED <<slot, backlog, unread, closed>>
    BY <1>1 DEF OnePlace, Queued, Served
  <1>2. ASSUME NEW p \in Peers, Connect(p)
        PROVE  OnePlace'
    <2>1. /\ p \notin Queued /\ p \notin Served /\ backlog' = Append(backlog, p)
          /\ UNCHANGED <<slot, unread, closed>>
      BY <1>2 DEF Connect
    <2>2. /\ \A i, j \in DOMAIN backlog' : backlog'[i] = backlog'[j] => i = j
          /\ Queued' = Queued \cup {p}
      BY <1>0, <2>1, EndOfQueue
    <2>3. Served' = Served
      BY <2>1 DEF Served
    <2> QED
      BY <2>1, <2>2, <2>3 DEF OnePlace
  <1>3. ASSUME NEW p \in Peers, Request(p) \/ Hangup(p)
        PROVE  OnePlace'
    <2>1. /\ p \in Queued \cup Served /\ UNCHANGED <<slot, backlog>>
          /\ \A q \in Peers : q # p => unread'[q] = unread[q]
          /\ closed' \subseteq closed \cup {p}
      BY <1>0, <1>3 DEF Request, Hangup
    <2>2. Queued' = Queued /\ Served' = Served
      BY <2>1 DEF Queued, Served
    <2> QED
      BY <2>1, <2>2 DEF OnePlace
  <1>4. CASE Tick \/ Timeout \/ Interrupted \/ epoll_failing \/ Activation
    <2>1. CASE Activation
      <3>1. /\ \A i \in Slots : slot[i] = None /\ slot'[i] = None
            /\ UNCHANGED <<backlog, unread, closed>>
        BY <2>1 DEF Activation, Fresh, Served
      <3>2. Served' = Served /\ Queued' = Queued
        BY <3>1 DEF Served, Queued
      <3> QED
        BY <3>1, <3>2 DEF OnePlace
    <2> QED
      BY <1>1, <1>4, <2>1 DEF Tick, Timeout, Interrupted, epoll_failing
  <1>5. ASSUME NEW i \in Slots, on_client_hangup(i) \/ on_client_event(i)
        PROVE  OnePlace'
    <2>1. {i} \in SUBSET Slots
      OBVIOUS
    <2> QED
      BY <1>1, <1>5, <2>1, DropPlace DEF on_client_hangup, on_client_event
  <1>6. CASE onrequest \/ flushw \/ Keep
    <2>1. /\ UNCHANGED <<slot, backlog, closed>>
          /\ \A p \in Peers : unread[p] = 0 => unread'[p] = 0
      BY <1>0, <1>6 DEF onrequest, flushw, Keep
    <2>2. Queued' = Queued /\ Served' = Served
      BY <2>1 DEF Queued, Served
    <2> QED
      BY <2>1, <2>2 DEF OnePlace
  <1>7. CASE Discard \/ Sweep \/ server_destroy
    <2>1. {cur} \in SUBSET Slots /\ Inactives \in SUBSET Slots /\ Slots \in SUBSET Slots
      BY DEF TypeOK, Inactives
    <2> QED
      BY <1>7, <2>1, DropPlace DEF Discard, Sweep, server_destroy
  <1>8. CASE on_server_event
    <2>1. backlog # <<>> /\ UNCHANGED <<unread, closed>>
      BY <1>8 DEF on_server_event, ServerReady
    <2>2. CASE Free = {}
      <3>1. slot' = slot /\ backlog' = backlog
        BY <1>8, <2>2 DEF on_server_event, FirstFree, TypeOK
      <3> QED
        BY <1>1, <2>1, <3>1
    <2>3. CASE Free # {}
      <3> DEFINE p == Head(backlog)
      <3>1. backlog' = Tail(backlog)
        BY <1>8, <2>3 DEF on_server_event
      <3>2. /\ \A i, j \in DOMAIN backlog' : backlog'[i] = backlog'[j] => i = j
            /\ Queued' = Queued \ {p} /\ p \in Queued
        BY <1>0, <2>1, <3>1, TailOfQueue
      <3>3. p \in Peers /\ p # None /\ p \notin Served
        BY <1>0, <2>1, <3>2 DEF OnePlace
      <3>4. PICK f \in Free : FirstFree(f)
        <4>1. Free \in SUBSET Int /\ \A i \in Free : i \in 0..MAX_CLIENT_COUNT - 1
          BY ServerAssumption DEF Free, Slots
        <4>2. Free \in SUBSET Nat
          BY <4>1, ServerAssumption
        <4>3. \E m \in Free : \A k \in Free : m <= k
          BY <2>3, <4>2, Least
        <4> QED
          BY <4>3 DEF FirstFree
      <3>5. \A i \in Slots : FirstFree(i) <=> i = f
        BY <3>4, ServerAssumption DEF FirstFree, Free, Slots
      <3>6. /\ f \in Slots /\ slot[f] = None /\ slot'[f] = p
            /\ \A i \in Slots : i # f => slot'[i] = slot[i]
        BY <1>8, <3>4, <3>5 DEF on_server_event, Free
      <3>7. Served' = Served \cup {p}
        <4> HIDE DEF p
        <4> QED
          BY <3>3, <3>6 DEF Served
      <3>8. \A i \in Slots : slot[i] # p
        BY <3>3 DEF Served
      <3> HIDE DEF p
      <3>9. \A i, j \in Slots : slot'[i] = slot'[j] /\ slot'[i] # None => i = j
        BY <3>6, <3>8 DEF OnePlace
      <3> QED
        BY <2>1, <3>2, <3>3, <3>7, <3>9 DEF OnePlace
    <2> QED
      BY <2>2, <2>3
  <1>9. CASE on_server_event_failing
    <2>1. CASE UNCHANGED <<backlog, unread, closed>>
      BY <1>1, <1>9, <2>1 DEF on_server_event_failing
    <2>2. CASE /\ backlog' = Tail(backlog)
               /\ unread' = [unread EXCEPT ![Head(backlog)] = 0]
               /\ closed' = closed \ {Head(backlog)}
      <3>1. backlog # <<>> /\ slot' = slot
        BY <1>9 DEF on_server_event_failing, ServerReady
      <3>2. /\ \A i, j \in DOMAIN backlog' : backlog'[i] = backlog'[j] => i = j
            /\ Queued' = Queued \ {Head(backlog)}
        BY <1>0, <2>2, <3>1, TailOfQueue
      <3>3. Served' = Served
        BY <3>1 DEF Served
      <3>4. /\ \A q \in Peers : q # Head(backlog) => unread'[q] = unread[q]
            /\ Head(backlog) \in Peers => unread'[Head(backlog)] = 0
        BY <1>0, <2>2
      <3> QED
        BY <2>2, <3>1, <3>2, <3>3, <3>4 DEF OnePlace
    <2> QED
      BY <1>9, <2>1, <2>2 DEF on_server_event_failing
  <1>10. CASE UNCHANGED vars
    BY <1>1, <1>10 DEF vars
  <1> QED
    BY <1>2, <1>3, <1>4, <1>5, <1>6, <1>7, <1>8, <1>9, <1>10
    DEF Next, Environment, Dispatch, Handle

(* Each connection has one place, in the backlog or in one slot, and what  *)
(* a finished one left (unread requests, a hangup) never reaches a later   *)
(* connection of the same client: on_server_event takes the first of the   *)
(* queue to one slot, and every way to destroy a client forgets it all.    *)
THEOREM ServerOnePlace == Spec => []OnePlace
  <1> QED
    BY TypeInit, TypeStep, PlaceInit, PlaceStep, PTL DEF Spec

=============================================================================
