------------------------------ MODULE ClientLib ------------------------------
(***************************************************************************)
(* The client library src/src/protocol/sec-lsm-manager.c: one handle, the  *)
(* application that calls it, and the daemon as the library meets it, with *)
(* one context for each connection.  A step is one system call of the      *)
(* library; the codec under it is in module Prot and the daemon in module  *)
(* Session.  The daemon may end a connection at any time (it stops, dies,  *)
(* or finds the client inactive), and a system call of the library may     *)
(* fail while the daemon still has the connection (action Failure).        *)
(***************************************************************************)
EXTENDS Naturals, FiniteSets, Sequences, SequencesExt

CONSTANTS
    Settings,     \* the properties that set_id and the add functions give
    TooBig,       \* those of them that no protocol buffer can hold
    Fds,          \* the descriptors that the process may have
    MaxFaults,    \* bound: failing calls on a live connection
    MaxFlight     \* bound: messages in flight when the application calls

Actions == {"install", "uninstall"}
Requests == Settings \cup Actions \cup {"clear", "display", "log"}

ASSUME ClientAssumption ==
    /\ TooBig \subseteq Settings
    /\ Settings \cap (Actions \cup {"clear", "display", "log", "hello"}) = {}
    /\ IsFiniteSet(Settings) /\ IsFiniteSet(Fds) /\ Fds # {}
    /\ MaxFaults \in Nat /\ MaxFlight \in Nat

VARIABLES
    state, fd, synclock,  \* fields of struct sec_lsm_manager
    outbuf,       \* prot->outbuf: requests that were put and not yet written
    faults,       \* calls that failed since the connection was opened
    open,         \* descriptors that are not closed
    call,         \* [pc, req]: the call in progress
    conn,         \* [Fds -> connections], the daemon's side of each
    acked,        \* settings acknowledged to the application
    result        \* [req, rc, profile]: the call that returned last

vars == <<state, fd, synclock, outbuf, faults, open, call, conn, acked, result>>

Idle == [pc |-> "idle", req |-> "none"]
NoResult == [req |-> "none", rc |-> "ok", profile |-> {}]

(* A connection: whether the daemon still has it, its context, requests    *)
(* that the daemon did not read and replies that the library did not take. *)
Down == [up |-> FALSE, ctx |-> {}, err |-> FALSE, inq |-> <<>>, outq |-> <<>>]

Init ==
    /\ state = "Disconnected" /\ fd \in Fds /\ synclock = FALSE
    /\ open = {} /\ call = Idle /\ conn = [c \in Fds |-> Down]
    /\ outbuf = <<>> /\ faults = 0 /\ acked = {} /\ result = NoResult

daemonvars == <<conn>>
linkvars == <<outbuf, faults>>
appvars == <<acked, result>>

-----------------------------------------------------------------------------
(* The end of a call, with its status and, for an action, the profile that *)
(* the daemon applied.                                                     *)
Return(rc, profile) ==
    /\ call' = Idle /\ synclock' = FALSE
    /\ result' = [req |-> call.req, rc |-> rc, profile |-> profile]
    /\ acked' = CASE rc = "ok" /\ call.req \in Settings -> acked \cup {call.req}
                  [] rc = "ok" /\ call.req = "clear" -> {}
                  [] OTHER -> acked

Continue(pc) ==
    call' = [call EXCEPT !.pc = pc] /\ UNCHANGED <<synclock, appvars>>

(* Faulty: the descriptor is closed and the handle still connected. *)
disconnection_stale(s) == open' = open \ {fd} /\ UNCHANGED state

(* Only the descriptor of an established connection is closed. *)
disconnection(s) ==
    /\ state' = s
    /\ open' = IF state = "Connected" THEN open \ {fd} ELSE open

-----------------------------------------------------------------------------
(* The application calls; the callback of display may call too. *)
sync_process(req) ==
    /\ call.pc = "idle" /\ ~synclock
    /\ state = "Connected" => Len(conn[fd].inq \o conn[fd].outq) <= MaxFlight
    /\ synclock' = TRUE /\ call' = [pc |-> "open", req |-> req]
    /\ result' = NoResult
    /\ UNCHANGED <<state, fd, open, linkvars, daemonvars, acked>>

sync_process_busy(req) ==
    /\ call.pc = "callback" /\ synclock
    /\ result' = [req |-> req, rc |-> "EBUSY", profile |-> {}]
    /\ UNCHANGED <<state, fd, synclock, open, call, linkvars, daemonvars, acked>>

sec_lsm_manager_disconnect ==
    /\ call.pc \in {"idle", "callback"}
    /\ disconnection("Disconnected")
    /\ acked' = {} /\ result' = NoResult
    /\ UNCHANGED <<fd, synclock, call, linkvars, daemonvars>>

Reopens == state = "Disconnected"

(* connection: prot_reset, then socket_open fails or the protocol is       *)
(* negotiated.                                                             *)
connection_failing ==
    /\ call.pc = "open" /\ Reopens
    /\ outbuf' = <<>> /\ Return("errno", {})
    /\ UNCHANGED <<state, fd, open, faults, daemonvars>>

(* Faulty: the protocol keeps what the last connection left. *)
connection_kept(c) ==
    /\ call.pc = "open" /\ Reopens
    /\ c \notin open /\ ~conn[c].up
    /\ fd' = c /\ open' = open \cup {c} /\ faults' = 0
    /\ conn' = [conn EXCEPT ![c] = [Down EXCEPT !.up = TRUE]]
    /\ Continue("hello")
    /\ UNCHANGED <<state, outbuf>>

connection(c) ==
    /\ call.pc = "open" /\ Reopens
    /\ c \notin open /\ ~conn[c].up
    /\ fd' = c /\ open' = open \cup {c} /\ outbuf' = <<>> /\ faults' = 0
    /\ conn' = [conn EXCEPT ![c] = [Down EXCEPT !.up = TRUE]]
    /\ Continue("hello")
    /\ UNCHANGED state

(* A write of no byte may tell that the daemon is gone. *)
ensure_opened ==
    /\ call.pc = "open" /\ ~Reopens
    /\ \/ /\ state = "Connected"
          /\ Continue("send") /\ UNCHANGED <<state, open>>
       \/ /\ state = "Connected" /\ ~conn[fd].up
          /\ disconnection("Broken") /\ Return("EPIPE", {})
       \/ /\ state = "Broken"
          /\ Return("EPIPE", {}) /\ UNCHANGED <<state, open>>
    /\ UNCHANGED <<fd, linkvars, daemonvars>>

-----------------------------------------------------------------------------
(* flushw: these requests reach the daemon. *)
Written(requests) == conn' = [conn EXCEPT ![fd].inq = @ \o requests]

(* send_fields of the greeting and of the request, with what an earlier    *)
(* failure left to be written.  A request that no buffer holds is          *)
(* cancelled twice and nothing of it is sent.  A write to a connection     *)
(* that is gone fails and leaves the state as it is, or is lost in the     *)
(* socket; what it leaves in the buffer no write can deliver any more.     *)
send_hello ==
    /\ call.pc = "hello"
    /\ \/ /\ conn[fd].up /\ Written(<<"hello">>)
          /\ Continue("greet") /\ UNCHANGED <<state, open>>
       \/ /\ ~conn[fd].up /\ disconnection("Broken")
          /\ Return("EPIPE", {}) /\ UNCHANGED daemonvars
    /\ UNCHANGED <<fd, linkvars>>

send_fields ==
    /\ call.pc = "send"
    /\ \/ /\ conn[fd].up /\ outbuf' = <<>>
          /\ \/ call.req \in TooBig /\ Written(outbuf) /\ Return("EMSGSIZE", {})
             \/ /\ call.req \notin TooBig
                /\ Written(Append(outbuf, call.req)) /\ Continue("wait")
       \/ /\ ~conn[fd].up /\ UNCHANGED <<outbuf, daemonvars>>
          /\ \/ call.req \in TooBig /\ Return("EMSGSIZE", {})
             \/ call.req \notin TooBig /\ Continue("wait")
             \/ (call.req \in TooBig => outbuf # <<>>) /\ Return("EPIPE", {})
    /\ UNCHANGED <<state, fd, open, faults>>

-----------------------------------------------------------------------------
(* wait_reply: the next reply is taken from the connection.  No reply is   *)
(* too big for the library (NeverOversize of module Prot).                 *)
Taken == conn' = [conn EXCEPT ![fd].outq = Tail(@)]
HasReply == conn[fd].outq # <<>>
NextReply == Head(conn[fd].outq)

(* The greeting is answered; a failure breaks the handle, whose state was  *)
(* not yet Connected, so that the descriptor stays open.                   *)
greeted ==
    /\ call.pc = "greet" /\ HasReply /\ Taken
    /\ \/ NextReply.kind = "done" /\ state' = "Connected"
          /\ Continue("send") /\ UNCHANGED open
       \/ NextReply.kind # "done" /\ disconnection("Broken") /\ Return("EPROTO", {})
    /\ UNCHANGED <<fd, linkvars>>

greeting_lost ==
    /\ call.pc = "greet" /\ ~HasReply /\ ~conn[fd].up
    /\ disconnection("Broken") /\ Return("EPIPE", {})
    /\ UNCHANGED <<fd, linkvars, daemonvars>>

IsString == call.req = "display" /\ NextReply.kind = "string"

wait_done_or_error ==
    /\ call.pc = "wait" /\ HasReply /\ ~IsString
    /\ Taken
    /\ Return(CASE NextReply.kind = "done" -> "ok"
                [] NextReply.kind = "error" ->
                     IF call.req = "display" THEN "EPERM" ELSE "EPROTO"
                [] OTHER -> "ECANCELED", NextReply.profile)
    /\ UNCHANGED <<state, fd, open, linkvars>>

(* Faulty: display ends with the first string. *)
wait_display_replies_one ==
    /\ call.pc = "wait" /\ HasReply /\ IsString
    /\ Taken /\ Return("ok", {})
    /\ UNCHANGED <<state, fd, open, linkvars>>

(* A string of a display is given to the callback. *)
wait_display_replies ==
    /\ call.pc = "wait" /\ HasReply /\ IsString
    /\ Taken /\ Continue("callback")
    /\ UNCHANGED <<state, fd, open, linkvars>>

callback_ends ==
    /\ call.pc = "callback"
    /\ Continue("wait")
    /\ UNCHANGED <<state, fd, open, linkvars, daemonvars>>

(* Faulty: the end of the stream is awaited like a reply. *)
reply_lost_waiting == call.pc = "wait" /\ ~HasReply /\ UNCHANGED vars

(* The end of the stream, a reset when the daemon left the request unread, *)
(* a descriptor that the callback closed (a reply already read is still    *)
(* taken).                                                                 *)
reply_lost ==
    /\ call.pc = "wait"
    /\ \/ /\ fd \in open /\ ~HasReply /\ ~conn[fd].up
          /\ disconnection("Broken") /\ Return("EPIPE", {})
       \/ /\ fd \in open /\ ~HasReply /\ ~conn[fd].up
          /\ Return("ECONNRESET", {}) /\ UNCHANGED <<state, open>>
       \/ /\ fd \notin open
          /\ Return("EBADF", {}) /\ UNCHANGED <<state, open>>
    /\ UNCHANGED <<fd, linkvars, daemonvars>>

-----------------------------------------------------------------------------
(* A write, a poll or a read fails although the daemon has the connection. *)
Fault == faults < MaxFaults /\ faults' = faults + 1

(* In ensure_opened and connection the failure breaks the handle. *)
opening_fails ==
    /\ \/ call.pc = "open" /\ state = "Connected" /\ Return("EPIPE", {})
       \/ call.pc \in {"hello", "greet"} /\ Return("failed", {})
    /\ Fault /\ disconnection("Broken")
    /\ UNCHANGED <<fd, outbuf, daemonvars>>

(* In flushw the rest stays in the buffer for the next write, a request    *)
(* written in part included; the one that did not fit in the buffer is     *)
(* cancelled.  The handle stays connected.                                 *)
flushw_fails ==
    /\ call.pc = "send" /\ conn[fd].up /\ Fault
    /\ \E put \in {outbuf, Append(outbuf, call.req)} : \E n \in 0..Len(put) - 1 :
          /\ put # outbuf => call.req \notin TooBig
          /\ Written(SubSeq(put, 1, n))
          /\ outbuf' = SubSeq(put, n + 1, Len(put))
    /\ Return("failed", {}) /\ UNCHANGED <<state, fd, open>>

(* In wait_reply the replies are left, on a handle that stays connected. *)
wait_reply_fails ==
    /\ call.pc = "wait" /\ fd \in open /\ Fault
    /\ Return("failed", {})
    /\ UNCHANGED <<state, fd, open, outbuf, daemonvars>>

-----------------------------------------------------------------------------
(* The daemon, one request of connection c. *)
Reply(kind, profile) == [kind |-> kind, profile |-> profile]

Strings(c) ==
    [i \in 1..Cardinality(conn[c].ctx) + (IF conn[c].err THEN 1 ELSE 0) |->
        Reply("string", {})]

Answer(c, ctx, err, replies) ==
    conn' = [conn EXCEPT ![c] = [up |-> TRUE, ctx |-> ctx, err |-> err,
                                 inq |-> Tail(@.inq), outq |-> @.outq \o replies]]

onrequest(c) ==
    LET req == Head(conn[c].inq)
        ctx == conn[c].ctx
        err == conn[c].err
        refused == <<Reply("error", {})>>
        done == <<Reply("done", {})>>
    IN
    /\ conn[c].up /\ conn[c].inq # <<>>
    /\ \/ req \in {"hello", "log"} /\ Answer(c, ctx, err, done)
       \/ req = "hello" /\ Answer(c, ctx, err, refused)
       \/ req = "clear" /\ Answer(c, {}, FALSE, done)
       \/ req = "display" /\ Answer(c, ctx, err, Strings(c) \o done)
       \/ /\ req = "display"
          /\ \E n \in 0..Len(Strings(c)) :
                Answer(c, ctx, TRUE, SubSeq(Strings(c), 1, n) \o refused)
       \/ req \in Settings \ ctx /\ ~err /\ Answer(c, ctx \cup {req}, err, done)
       \/ req \in Actions /\ ~err /\ Answer(c, ctx, err, <<Reply("done", ctx)>>)
       \/ req \in Settings \cup Actions /\ Answer(c, ctx, TRUE, refused)
    /\ UNCHANGED <<state, fd, synclock, open, call, linkvars, appvars>>

(* The daemon ends the connection; what it already replied can be read.    *)
daemon_closes(c) ==
    /\ conn[c].up
    /\ conn' = [conn EXCEPT ![c] = [Down EXCEPT !.outq =
                                     IF c = fd THEN conn[c].outq ELSE @]]
    /\ UNCHANGED <<state, fd, synclock, open, call, linkvars, appvars>>

-----------------------------------------------------------------------------
Library ==
    \/ connection_failing \/ (\E c \in Fds : connection(c)) \/ ensure_opened
    \/ send_hello \/ send_fields \/ greeted \/ greeting_lost
    \/ wait_done_or_error \/ wait_display_replies \/ callback_ends \/ reply_lost

Application ==
    \/ \E req \in Requests : sync_process(req) \/ sync_process_busy(req)
    \/ sec_lsm_manager_disconnect

Failure == opening_fails \/ flushw_fails \/ wait_reply_fails

Next ==
    \/ Library \/ Failure \/ Application
    \/ \E c \in Fds : onrequest(c) \/ daemon_closes(c)

Spec == Init /\ [][Next]_vars

(* The thread of the application runs, its callbacks return, and the       *)
(* daemon answers what it reads unless it closes.  No call has to fail.    *)
FairSpec ==
    Spec /\ WF_vars(Library) /\ \A c \in Fds : WF_vars(onrequest(c))

-----------------------------------------------------------------------------
(* Properties. *)

Connections ==
    [up : BOOLEAN, ctx : SUBSET Settings, err : BOOLEAN,
     inq : Seq(Requests \cup {"hello"}),
     outq : Seq([kind : {"done", "error", "string"}, profile : SUBSET Settings])]

(* Type correctness; a connected handle has an open descriptor and the     *)
(* lock is held exactly during a call.                                     *)
TypeOK ==
    /\ state \in {"Disconnected", "Connected", "Broken"}
    /\ fd \in Fds /\ open \subseteq Fds
    /\ outbuf \in Seq(Requests) /\ faults \in 0..MaxFaults
    /\ synclock = (call.pc # "idle")
    /\ call \in [pc : {"idle", "open", "hello", "greet", "send", "wait", "callback"},
                 req : Requests \cup {"none"}]
    /\ conn \in [Fds -> Connections]
    /\ acked \subseteq Settings
    /\ state = "Connected" => fd \in open

(* Between two calls nothing is in flight on a connection in use, whatever *)
(* the daemon refused, the library cancelled or the callback did before:   *)
(* the next reply read is that of the next request.  This needs that no    *)
(* write, poll or read failed on that connection while the daemon had it:  *)
(* flushw_fails and wait_reply_fails leave their request or its reply.     *)
NothingInFlight ==
    ~synclock /\ state = "Connected" /\ conn[fd].up /\ faults = 0 =>
        conn[fd].inq = <<>> /\ conn[fd].outq = <<>> /\ outbuf = <<>>

(* QA/SEC-LSM-MGR.RKA.md: "Because the client receives a disconnection     *)
(* error, it can take the correct decision".  An action that succeeds was  *)
(* applied to exactly the settings that the application was told of since  *)
(* its last clear or disconnect, earlier actions included, since the       *)
(* daemon keeps them: a context lost with its connection is never replaced *)
(* by an empty or a partial one.  After a failure on a live connection the *)
(* status is that of an earlier request and tells nothing.                 *)
ActionAppliesAcked ==
    result.req \in Actions /\ result.rc = "ok" /\ faults = 0
        => result.profile = acked

(* Every call returns, whenever the daemon ends the connection and         *)
(* whatever an earlier failure left in flight (FairSpec).                  *)
CallsReturn == synclock ~> ~synclock
=============================================================================
