------------------------------- MODULE Server --------------------------------
(***************************************************************************)
(* The event loop of the daemon: src/src/protocol/sec-lsm-manager-server.c *)
(* over src/src/protocol/pollitem.c.  One thread waits on epoll, handles   *)
(* at most one event, then sweeps its MAX_CLIENT_COUNT slots: inactive     *)
(* clients are dropped, the loop stops or listens again.  What a client    *)
(* asks is module Session; here a request only is something to read.       *)
(*                                                                         *)
(* Times are ages: the seconds elapsed since a client's lasttime or since  *)
(* epoll_wait was entered.  The code only compares them with shutofftime,  *)
(* so they saturate there and no bound on the clock is needed.             *)
(***************************************************************************)
EXTENDS Integers, Sequences

CONSTANTS
    MAX_CLIENT_COUNT, \* slots of the server, 3 in the code
    Peers,        \* client processes
    None,         \* no client: the NULL pointer of a free slot
    ShutOff,      \* shutofftime in seconds, negative for never
    MaxTempo,     \* longest time-out of epoll_wait in seconds, INT_MAX / 1000
    MaxUnread,    \* bound on the unread requests of a connection
    Faults        \* whether system calls of the server may fail

Slots == 0 .. MAX_CLIENT_COUNT - 1
Oldest == IF ShutOff < 0 THEN 0 ELSE ShutOff
Ages == 0 .. Oldest

(* The time-out given to epoll_wait, for a shutoff that is enabled: it     *)
(* saturates at the largest int of milliseconds.                           *)
tempo == IF ShutOff > MaxTempo THEN MaxTempo ELSE ShutOff

ASSUME ServerAssumption ==
    /\ MAX_CLIENT_COUNT \in Nat \ {0}
    /\ None \notin Peers
    /\ ShutOff \in Int /\ MaxTempo \in Nat /\ MaxUnread \in Nat
    /\ Faults \in BOOLEAN

VARIABLES
    slot,         \* [Slots -> Peers \cup {None}]: clients[i].client
    age,          \* [Slots -> Ages]: now - clients[i].lasttime
    armed,        \* the listening socket is polled for EPOLLIN
    deaf,         \* server->deaf
    stopped,      \* "no", or why the server stops: "quiet" (0), "error"
    pc,           \* "wait" in epoll_wait; in client_process_input "handle",
                  \* "flush" in flushw, "reject" when it returns an error;
                  \* "sweep" after the dispatch, "stopped" out of the loop
    cur,          \* the slot whose event is handled
    rc,           \* result of pollitem_wait_dispatch: 1, 0 or -1
    waited,       \* seconds spent in the current epoll_wait
    backlog,      \* connections that wait for accept, in order
    unread,       \* [Peers -> 0..MaxUnread]: requests sent and not read
    closed        \* peers that closed their end of a live connection

vars == <<slot, age, armed, deaf, stopped, pc, cur, rc, waited,
          backlog, unread, closed>>
loop == <<armed, deaf, stopped, pc, cur, rc, waited>>

Queued == {backlog[i] : i \in DOMAIN backlog}
Served == {slot[i] : i \in Slots} \ {None}
Free == {i \in Slots : slot[i] = None}

(* Faulty: slots up to MAX_CLIENT_COUNT included. *)
Fresh_past ==
    [slot |-> [i \in 0..MAX_CLIENT_COUNT |-> None], age |-> [i \in 0..MAX_CLIENT_COUNT |-> 0]]

(* server_create, then the entry of server_serve.  The server structure is *)
(* zeroed: no client, not deaf; the socket is polled.                      *)
Fresh ==
    [slot |-> [i \in Slots |-> None], age |-> [i \in Slots |-> 0]]

Init ==
    /\ slot = Fresh.slot /\ age = Fresh.age
    /\ armed = TRUE /\ deaf = FALSE /\ stopped = "no"
    /\ pc = "wait" /\ cur = 0 /\ rc = 0 /\ waited = 0
    /\ backlog = <<>> /\ unread = [p \in Peers |-> 0] /\ closed = {}

-----------------------------------------------------------------------------
(* Client processes.  The kernel queues one connection more than the       *)
(* length given to listen, MAX_CLIENT_COUNT.                               *)

Connect(p) ==
    /\ p \notin Queued \cup Served
    /\ Len(backlog) <= MAX_CLIENT_COUNT
    /\ backlog' = Append(backlog, p)
    /\ UNCHANGED <<slot, age, loop, unread, closed>>

Request(p) ==
    /\ p \in (Queued \cup Served) \ closed
    /\ unread[p] < MaxUnread
    /\ unread' = [unread EXCEPT ![p] = @ + 1]
    /\ UNCHANGED <<slot, age, loop, backlog, closed>>

Hangup(p) ==
    /\ p \in (Queued \cup Served) \ closed
    /\ closed' = closed \cup {p}
    /\ UNCHANGED <<slot, age, loop, backlog, unread>>

-----------------------------------------------------------------------------
(* epoll.  An event is ready on a slot when its client sent something or   *)
(* left, on the listening socket when it is polled and has a connection.   *)
ClientReady(i) == slot[i] # None /\ (unread[slot[i]] > 0 \/ slot[i] \in closed)
ServerReady == armed /\ backlog # <<>>
Ready == ServerReady \/ \E i \in Slots : ClientReady(i)

Older(n) == IF n < Oldest THEN n + 1 ELSE n

InHandler == pc \in {"handle", "flush", "reject"}

(* Time passes while a request is handled (it may label files, compile and *)
(* load a policy, wait for a client to read) or while nothing is ready.    *)
Tick ==
    /\ InHandler \/ (pc = "wait" /\ ~Ready)
    /\ age' = [i \in Slots |-> IF slot[i] # None THEN Older(age[i]) ELSE 0]
    /\ waited' = IF pc = "wait" THEN Older(waited) ELSE waited
    /\ UNCHANGED <<slot, armed, deaf, stopped, pc, cur, rc, backlog, unread, closed>>

(* Return of the dispatch to the loop. *)
Dispatched(status) == pc' = "sweep" /\ rc' = status

(* epoll_wait returns 0 after tempo, or is interrupted. *)
Timeout ==
    /\ pc = "wait" /\ ~Ready
    /\ ShutOff >= 0 /\ waited >= tempo
    /\ Dispatched(0)
    /\ UNCHANGED <<slot, age, armed, deaf, stopped, cur, waited, backlog, unread, closed>>

Interrupted ==
    /\ Faults /\ pc = "wait"
    /\ Dispatched(-1)
    /\ UNCHANGED <<slot, age, armed, deaf, stopped, cur, waited, backlog, unread, closed>>

-----------------------------------------------------------------------------
(* on_client_event. *)

(* Faulty: the state of the connection survives it. *)
Drop_slot(dropped) ==
    /\ slot' = [i \in Slots |-> IF i \in dropped THEN None ELSE slot[i]]
    /\ UNCHANGED <<unread, closed>>

(* The connection of slot i is closed and its client destroyed: what it    *)
(* sent and was not read is lost.                                          *)
Drop(dropped) ==
    /\ slot' = [i \in Slots |-> IF i \in dropped THEN None ELSE slot[i]]
    /\ unread' = [p \in Peers |->
                     IF \E i \in dropped : slot[i] = p THEN 0 ELSE unread[p]]
    /\ closed' = closed \ {slot[i] : i \in dropped}

(* A hangup drops the client before anything is read. *)
on_client_hangup(i) ==
    /\ pc = "wait" /\ slot[i] # None /\ slot[i] \in closed
    /\ Drop({i})
    /\ age' = [age EXCEPT ![i] = 0]
    /\ Dispatched(1)
    /\ UNCHANGED <<armed, deaf, stopped, cur, waited, backlog>>

on_client_event(i) ==
    /\ pc = "wait" /\ slot[i] # None /\ slot[i] \notin closed /\ unread[slot[i]] > 0
    /\ pc' = "handle" /\ cur' = i
    /\ UNCHANGED <<slot, age, armed, deaf, stopped, rc, waited, backlog, unread, closed>>

(* client_process_input takes one request after the other, those that come *)
(* meanwhile too: it returns when it finds none.                           *)
onrequest ==
    /\ pc = "handle" /\ unread[slot[cur]] > 0
    /\ unread' = [unread EXCEPT ![slot[cur]] = @ - 1]
    /\ pc' = "flush"
    /\ UNCHANGED <<slot, age, armed, deaf, stopped, cur, rc, waited, backlog, closed>>

(* The reply is sent: flushw waits for a client that does not read it.     *)
(* The loop is left when the request violated the protocol or the client   *)
(* is disconnected.                                                        *)
flushw ==
    /\ pc = "flush"
    /\ pc' \in {"handle", "reject"}
    /\ UNCHANGED <<slot, age, armed, deaf, stopped, cur, rc, waited, backlog, unread, closed>>

(* Faulty: the handler returns before it has read all. *)
Keep_unread ==
    /\ pc = "handle" /\ slot[cur] \notin closed
    /\ age' = [age EXCEPT ![cur] = 0]
    /\ Dispatched(1)
    /\ UNCHANGED <<slot, armed, deaf, stopped, cur, waited, backlog, unread, closed>>

(* Nothing is left to read: EAGAIN. *)
Keep ==
    /\ pc = "handle" /\ slot[cur] \notin closed /\ unread[slot[cur]] = 0
    /\ age' = [age EXCEPT ![cur] = 0]
    /\ Dispatched(1)
    /\ UNCHANGED <<slot, armed, deaf, stopped, cur, waited, backlog, unread, closed>>

(* A violation, a disconnected client, the end of the stream or a failure  *)
(* to read it.                                                             *)
Discard ==
    /\ \/ pc = "reject"
       \/ pc = "handle" /\ unread[slot[cur]] = 0 /\ (slot[cur] \in closed \/ Faults)
    /\ Drop({cur})
    /\ age' = [age EXCEPT ![cur] = 0]
    /\ Dispatched(1)
    /\ UNCHANGED <<armed, deaf, stopped, cur, waited, backlog>>

-----------------------------------------------------------------------------
(* on_server_event. *)

(* The first reason to stop is kept; the loop ends after the sweep. *)
server_stop(why) == stopped' = IF stopped = "no" THEN why ELSE stopped

(* Faulty: the socket is never polled again. *)
pollitem_mod_off(listen) == armed' = FALSE /\ UNCHANGED stopped

(* Polling the listening socket or not; epoll_ctl may refuse. *)
pollitem_mod(listen) ==
    \/ armed' = listen /\ UNCHANGED stopped
    \/ Faults /\ UNCHANGED armed /\ server_stop("error")

FirstFree(i) == i \in Free /\ \A j \in Free : i <= j

(* The connection gets the first free slot.  When no other one is left     *)
(* (or none was free) the listening socket is no more polled.              *)
on_server_event ==
    /\ pc = "wait" /\ ServerReady
    /\ slot' = [i \in Slots |-> IF FirstFree(i) THEN Head(backlog) ELSE slot[i]]
    /\ age' = [i \in Slots |-> IF FirstFree(i) THEN 0 ELSE age[i]]
    /\ backlog' = IF Free = {} THEN backlog ELSE Tail(backlog)
    /\ \/ /\ \E i, j \in Free : i # j
          /\ UNCHANGED <<armed, deaf, stopped>>
       \/ /\ \A i, j \in Free : i = j
          /\ pollitem_mod(FALSE)
          /\ deaf' = TRUE
    /\ Dispatched(1)
    /\ UNCHANGED <<cur, waited, unread, closed>>

(* The listening socket hangs up; or accept fails; or it succeeds and      *)
(* client_create or pollitem_add fails: the connection is closed at once.  *)
on_server_event_failing ==
    /\ Faults /\ pc = "wait" /\ ServerReady /\ Free # {}
    /\ \/ server_stop("error") /\ UNCHANGED <<backlog, unread, closed>>
       \/ UNCHANGED <<stopped, backlog, unread, closed>>
       \/ /\ backlog' = Tail(backlog)
          /\ unread' = [unread EXCEPT ![Head(backlog)] = 0]
          /\ closed' = closed \ {Head(backlog)}
          /\ UNCHANGED stopped
    /\ Dispatched(1)
    /\ UNCHANGED <<slot, age, armed, deaf, cur, waited>>

(* epoll_wait itself fails: the loop ends without a sweep. *)
epoll_failing ==
    /\ Faults /\ pc = "wait"
    /\ server_stop("error") /\ pc' = "stopped" /\ rc' = -1
    /\ UNCHANGED <<slot, age, armed, deaf, cur, waited, backlog, unread, closed>>

-----------------------------------------------------------------------------
(* The sweep of server_serve after each dispatch. *)

(* Faulty: lasttime < trig. *)
Inactive_strictly(i) == slot[i] # None /\ ShutOff >= 0 /\ age[i] > ShutOff

(* lasttime <= trig, where trig is 0 when the shutoff is disabled. *)
Inactive(i) == slot[i] # None /\ ShutOff >= 0 /\ age[i] >= ShutOff
Inactives == {i \in Slots : Inactive(i)}

NoneLeft == \A i \in Slots : slot'[i] = None

Sweep ==
    /\ pc = "sweep"
    /\ Drop(Inactives)
    /\ age' = [i \in Slots |-> IF i \in Inactives THEN 0 ELSE age[i]]
    /\ \/ /\ rc = 0 /\ NoneLeft /\ ShutOff >= 0
          /\ server_stop("quiet") /\ UNCHANGED armed
       \/ /\ ~(rc = 0 /\ NoneLeft /\ ShutOff >= 0)
          /\ IF deaf /\ \E i \in Slots : slot'[i] = None
             THEN pollitem_mod(TRUE)
             ELSE UNCHANGED <<armed, stopped>>
    /\ pc' = IF stopped' = "no" THEN "wait" ELSE "stopped"
    /\ waited' = 0 /\ cur' = 0 /\ rc' = 0 \* of no use any more
    /\ UNCHANGED <<deaf, backlog>>

(* After the loop main destroys the server and exits.  The listening       *)
(* socket belongs to systemd, whose units start the daemon again as soon   *)
(* as a connection waits, or at once after a failure.                      *)
server_destroy ==
    /\ pc = "stopped" /\ Served # {}
    /\ Drop(Slots)
    /\ age' = Fresh.age
    /\ UNCHANGED <<loop, backlog>>

Activation ==
    /\ pc = "stopped" /\ Served = {}
    /\ backlog # <<>> \/ stopped = "error"
    /\ slot' = Fresh.slot /\ age' = Fresh.age
    /\ armed' = TRUE /\ deaf' = FALSE /\ stopped' = "no"
    /\ pc' = "wait" /\ cur' = 0 /\ rc' = 0 /\ waited' = 0
    /\ UNCHANGED <<backlog, unread, closed>>

-----------------------------------------------------------------------------
Environment == \E p \in Peers : Connect(p) \/ Request(p) \/ Hangup(p)

Handle == onrequest \/ Keep \/ Discard

Dispatch ==
    \/ \E i \in Slots : on_client_hangup(i) \/ on_client_event(i)
    \/ on_server_event \/ on_server_event_failing
    \/ Timeout \/ Interrupted \/ epoll_failing

Next ==
    \/ Environment \/ Tick
    \/ Dispatch \/ Handle \/ flushw \/ Sweep
    \/ server_destroy \/ Activation

Spec == Init /\ [][Next]_vars

(* The loop runs and time passes.  epoll keeps its ready list in order, so *)
(* that each ready descriptor gets its turn.  Nothing is assumed of the    *)
(* clients, on which flushw and the end of client_process_input depend.    *)
Fairness ==
    /\ WF_vars(Handle) /\ WF_vars(Sweep) /\ WF_vars(Tick) /\ WF_vars(Timeout)
    /\ SF_vars(on_server_event)
    /\ \A i \in Slots : SF_vars(on_client_hangup(i) \/ on_client_event(i))
    /\ WF_vars(server_destroy) /\ WF_vars(Activation)

FairSpec == Spec /\ Fairness

-----------------------------------------------------------------------------
(* Properties. *)

(* Type correctness of the server structure and of its loop. *)
TypeOK ==
    /\ slot \in [Slots -> Peers \cup {None}] /\ age \in [Slots -> Ages]
    /\ armed \in BOOLEAN /\ deaf \in BOOLEAN
    /\ stopped \in {"no", "quiet", "error"}
    /\ pc \in {"wait", "handle", "flush", "reject", "sweep", "stopped"}
    /\ cur \in Slots /\ rc \in {-1, 0, 1} /\ waited \in Ages
    /\ backlog \in Seq(Peers)
    /\ unread \in [Peers -> 0..MaxUnread] /\ closed \in SUBSET Peers

(* Whenever the loop waits, the listening socket is polled exactly when a  *)
(* slot is free: a server that became deaf because it was full hears again *)
(* as soon as a client leaves, though deaf itself is never reset, and a    *)
(* full server does not spin on connections it cannot accept.              *)
ListensIffRoom == pc = "wait" => (armed <=> \E i \in Slots : slot[i] = None)

(* Each connection is in one place: a client has at most one slot, waits   *)
(* in the backlog at most once and never both, and nothing of a finished   *)
(* connection (unread data, hangup) is left to a later one.                *)
OnePlace ==
    /\ \A i, j \in Slots : slot[i] = slot[j] /\ slot[i] # None => i = j
    /\ \A i, j \in DOMAIN backlog : backlog[i] = backlog[j] => i = j
    /\ Queued \cap Served = {}
    /\ \A p \in Peers \ (Queued \cup Served) : unread[p] = 0 /\ p \notin closed

(* When epoll_wait times out, every client has been silent for as long as  *)
(* it waited, which began after their last event.  When the time-out is    *)
(* shutofftime the sweep then drops them all, so that it always ends the   *)
(* loop; a shutofftime that tempo cannot tell takes several time-outs.     *)
TimeoutIsQuiet ==
    pc = "sweep" /\ rc = 0 => \A i \in Slots : slot[i] # None =>
        Inactive(i) \/ (ShutOff > MaxTempo /\ age[i] >= MaxTempo)

(* The failures end: from some time on no call fails. *)
Fails ==
    \/ Interrupted \/ on_server_event_failing
    \/ stopped # "error" /\ stopped' = "error"
FailuresEnd == <>[][~Fails]_vars

(* No client holds the only thread of the daemon: one whose requests are   *)
(* being handled reads its replies, and does not send for ever.  The code  *)
(* ensures neither.                                                        *)
Chats == pc \in {"handle", "flush"} /\ Request(slot[cur])
ClientsRead == WF_vars(flushw)
ClientsPause == <>[](pc \in {"handle", "flush"}) => <>[][~Chats]_vars

(* With such clients, whatever failed before, the requests of a served     *)
(* client are all read while it is served, or one is answered by an error  *)
(* that ends the connection.  Only a client that closes its end, that the  *)
(* sweep finds inactive (its requests may have waited behind a long one)   *)
(* or that a failing server leaves may lose what it sent.                  *)
Read(p) == p \in Served /\ unread[p] = 0
Rejected(p) == pc = "reject" /\ slot[cur] = p
Swept(p) == pc = "sweep" /\ \E i \in Inactives : slot[i] = p
RequestsRead ==
    FailuresEnd /\ ClientsRead /\ ClientsPause => \A p \in Peers :
        (p \in Served /\ unread[p] > 0)
            ~> \/ Read(p) \/ Rejected(p)
               \/ p \in closed \/ Swept(p) \/ stopped = "error"

(* If slots keep becoming free and no client holds the thread, every       *)
(* waiting connection is accepted, by this daemon or by the one that       *)
(* systemd starts after it.                                                *)
ConnectionsAccepted ==
    FailuresEnd /\ ClientsRead /\ ClientsPause /\ []<>(Free # {}) =>
        \A p \in Peers : (p \in Queued) ~> (p \notin Queued)

(* When the clients read their replies and stay silent for good, the       *)
(* daemon stops and remains so.                                            *)
Quiet == backlog = <<>> /\ closed = {} /\ \A p \in Peers : unread[p] = 0
StopsWhenQuiet ==
    FailuresEnd /\ ClientsRead /\ <>[]Quiet => <>[](pc = "stopped" /\ Served = {})
=============================================================================
