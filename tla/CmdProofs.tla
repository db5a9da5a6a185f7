------------------------------ MODULE CmdProofs ------------------------------
(***************************************************************************)
(* What the client library and the command line client on top of it        *)
(* guarantee for any lines, settings and descriptors.                      *)
(*                                                                         *)
(* First the library: what an application may rely on when it calls it,    *)
(* whenever the daemon ends the connection and whatever the callback of a  *)
(* display calls, as long as no system call failed on the connection in    *)
(* use; Spec, Next and the inductive invariant IInv are those of module    *)
(* ClientLib.  Then the program: an action that succeeds was applied to    *)
(* all that the line said and sent, even when the program keeps going      *)
(* after errors; its proof rests on IInv.                                  *)
(***************************************************************************)
EXTENDS Cmd, FiniteSetTheorems, TLAPS, WellFoundedInduction


Kinds == {"done", "error", "string"}
Replies == [kind : Kinds, profile : SUBSET Settings]

-----------------------------------------------------------------------------
(* The inductive invariant. *)

(* Which states of the handle are met in which phases of a call.  Only     *)
(* display has a callback, which may disconnect the handle under it.       *)
Phases ==
    /\ call.pc # "idle" => call.req \in Requests
    /\ call.pc # "idle" => ~(result.req \in Actions /\ result.rc = "ok")
    /\ call.pc \in {"hello", "greet"} => state = "Disconnected" /\ fd \in open
    /\ call.pc = "send" => state = "Connected"
    /\ call.pc = "callback" => call.req = "display"
    /\ call.pc = "wait" /\ state # "Connected" => call.req = "display"
    /\ state = "Disconnected" => acked = {}

(* Nothing is in flight, and the daemon has what it acknowledged. *)
Quiet ==
    /\ conn[fd].inq = <<>> /\ conn[fd].outq = <<>>
    /\ conn[fd].up => conn[fd].ctx = acked

(* The request was sent and not read. *)
Sending ==
    /\ conn[fd].inq = <<call.req>> /\ conn[fd].outq = <<>>
    /\ conn[fd].up /\ conn[fd].ctx = acked

(* The daemon is gone and nothing of it is left to read. *)
Gone == conn[fd].inq = <<>> /\ conn[fd].outq = <<>> /\ ~conn[fd].up

(* The context of the daemon after its last reply to the request.          *)
After(kind) ==
    CASE kind = "done" /\ call.req \in Settings -> acked \cup {call.req}
      [] kind = "done" /\ call.req = "clear" -> {}
      [] OTHER -> acked

(* The request was answered: strings, for a display only, and one reply    *)
(* that ends them.                                                         *)
Answered ==
    LET q == conn[fd].outq
        last == q[Len(q)]
    IN
    /\ conn[fd].inq = <<>> /\ q # <<>>
    /\ \A i \in 1..Len(q) : i # Len(q) => q[i].kind = "string"
    /\ Len(q) # 1 => call.req = "display"
    /\ last.kind # "string"
    /\ call.req \in Actions /\ last.kind = "done" => last.profile = acked
    /\ conn[fd].up => conn[fd].ctx = After(last.kind)

(* The greeting: no context yet, and at most one reply. *)
Greeting ==
    /\ conn[fd].ctx = {}
    /\ \/ conn[fd].inq = <<"hello">> /\ conn[fd].outq = <<>>
       \/ conn[fd].inq = <<>> /\ Len(conn[fd].outq) = 1
       \/ Gone

(* What is in flight on the connection in use, in each phase of a call. *)
Flight ==
    /\ state = "Connected" /\ call.pc \in {"idle", "open", "send"} => Quiet
    /\ call.pc = "hello" => Quiet /\ conn[fd].ctx = {}
    /\ call.pc = "greet" => Greeting
    /\ state = "Connected" /\ call.pc \in {"wait", "callback"} =>
          Sending \/ Gone \/ Answered

(* The action that returned last, if it succeeded, was applied to what was *)
(* acknowledged.                                                           *)
Applied == result.req \in Actions /\ result.rc = "ok" => result.profile = acked

(* What holds in every state, what holds on a connection on which no call  *)
(* failed, and the inductive invariant.                                    *)
Sure == TypeOK /\ Phases
Steady == outbuf = <<>> /\ Flight /\ Applied
Clean == Sure /\ Steady
IInv == Sure /\ (faults = 0 => Steady)

-----------------------------------------------------------------------------
(* Connections. *)

(* The fields of a connection, and the connections that they make. *)
LEMMA Fields ==
    ASSUME conn \in [Fds -> Connections], NEW c \in Fds
    PROVE  /\ conn[c].up \in BOOLEAN /\ conn[c].ctx \in SUBSET Settings
           /\ conn[c].err \in BOOLEAN
           /\ conn[c].inq \in Seq(Requests \cup {"hello"}) /\ conn[c].outq \in Seq(Replies)
  BY DEF Connections, Replies, Kinds

LEMMA Makes ==
    ASSUME NEW up \in BOOLEAN, NEW ctx \in SUBSET Settings, NEW err \in BOOLEAN,
           NEW inq \in Seq(Requests \cup {"hello"}), NEW outq \in Seq(Replies)
    PROVE  [up |-> up, ctx |-> ctx, err |-> err, inq |-> inq, outq |-> outq] \in Connections
  BY DEF Connections, Replies, Kinds

(* What a new field makes of a connection. *)
Conn(u, a, e, i, o) == [up |-> u, ctx |-> a, err |-> e, inq |-> i, outq |-> o]

LEMMA FieldExcept ==
    ASSUME conn \in [Fds -> Connections], NEW c \in Fds, NEW x
    PROVE  /\ [conn EXCEPT ![c].inq = x] =
                [conn EXCEPT ![c] = Conn(conn[c].up, conn[c].ctx, conn[c].err, x, conn[c].outq)]
           /\ [conn EXCEPT ![c].outq = x] =
                [conn EXCEPT ![c] = Conn(conn[c].up, conn[c].ctx, conn[c].err, conn[c].inq, x)]
  <1> DEFINE Q == Seq(Requests \cup {"hello"})
             R == Seq([kind : {"done", "error", "string"}, profile : SUBSET Settings])
  <1>1. conn[c] \in [up : BOOLEAN, ctx : SUBSET Settings, err : BOOLEAN, inq : Q, outq : R]
    BY DEF Connections
  <1> HIDE DEF Q, R
  <1>2. /\ [conn EXCEPT ![c].inq = x] = [conn EXCEPT ![c] = [conn[c] EXCEPT !.inq = x]]
        /\ [conn EXCEPT ![c].outq = x] = [conn EXCEPT ![c] = [conn[c] EXCEPT !.outq = x]]
    OBVIOUS
  <1>3. /\ [conn[c] EXCEPT !.inq = x] =
              Conn(conn[c].up, conn[c].ctx, conn[c].err, x, conn[c].outq)
        /\ [conn[c] EXCEPT !.outq = x] =
              Conn(conn[c].up, conn[c].ctx, conn[c].err, conn[c].inq, x)
    BY ONLY <1>1 DEF Conn
  <1> QED
    BY <1>2, <1>3, Zenon

(* New connections, and those that the daemon ended. *)
LEMMA DownFacts ==
    ASSUME NEW q \in Seq(Replies)
    PROVE  /\ [Down EXCEPT !.up = TRUE] = Conn(TRUE, {}, FALSE, <<>>, <<>>)
           /\ [Down EXCEPT !.outq = q] = Conn(FALSE, {}, FALSE, <<>>, q)
           /\ Conn(TRUE, {}, FALSE, <<>>, <<>>) \in Connections
           /\ Conn(FALSE, {}, FALSE, <<>>, q) \in Connections
  <1> DEFINE B == BOOLEAN
             X == {{}}
             Q == {<<>>}
  <1>1. Down \in [up : B, ctx : X, err : B, inq : Q, outq : Q]
    BY DEF Down
  <1> HIDE DEF B, X, Q
  <1>2. /\ Down.up = FALSE /\ Down.ctx = {} /\ Down.err = FALSE /\ Down.inq = <<>>
        /\ Down.outq = <<>>
    BY DEF Down
  <1>3. ASSUME NEW u
        PROVE  /\ [Down EXCEPT !.up = u] = Conn(u, Down.ctx, Down.err, Down.inq, Down.outq)
               /\ [Down EXCEPT !.outq = q] = Conn(Down.up, Down.ctx, Down.err, Down.inq, q)
    BY ONLY <1>1 DEF Conn
  <1>4. /\ <<>> \in Seq(Replies) /\ <<>> \in Seq(Requests \cup {"hello"})
        /\ {} \in SUBSET Settings /\ TRUE \in BOOLEAN /\ FALSE \in BOOLEAN
    OBVIOUS
  <1>5. /\ Conn(TRUE, {}, FALSE, <<>>, <<>>) \in Connections
        /\ Conn(FALSE, {}, FALSE, <<>>, q) \in Connections
    BY <1>4, Makes, Zenon DEF Conn
  <1> QED
    BY ONLY <1>2, <1>3, <1>5, Zenon

(* The rest of a sequence. *)
LEMMA TailFacts ==
    ASSUME NEW R, NEW q \in Seq(R), q # <<>>
    PROVE  /\ Len(q) \in Nat \ {0} /\ Head(q) = q[1]
           /\ Tail(q) \in Seq(R) /\ Len(Tail(q)) = Len(q) - 1
           /\ \A i \in 1..(Len(q) - 1) : Tail(q)[i] = q[i + 1]
           /\ Len(q) = 1 <=> Tail(q) = <<>>
  <1>1. Len(q) \in Nat \ {0} /\ Head(q) = q[1]
    OBVIOUS
  <1>2. Tail(q) \in Seq(R) /\ Len(Tail(q)) = Len(q) - 1
    OBVIOUS
  <1>3. \A i \in 1..(Len(q) - 1) : Tail(q)[i] = q[i + 1]
    OBVIOUS
  <1>4. \A s \in Seq(R) : Len(s) = 0 <=> s = <<>>
    OBVIOUS
  <1>5. Len(q) = 1 <=> Tail(q) = <<>>
    <2>1. Len(Tail(q)) = 0 <=> Tail(q) = <<>>
      BY <1>2, <1>4, Zenon
    <2>2. Len(q) = 1 <=> Len(Tail(q)) = 0
      BY <1>1, <1>2
    <2> QED
      BY <2>1, <2>2, Zenon
  <1> QED
    BY <1>1, <1>2, <1>3, <1>5

(* Requests are written. *)
LEMMA WrittenFacts ==
    ASSUME conn \in [Fds -> Connections], fd \in Fds,
           NEW s \in Seq(Requests \cup {"hello"}), Written(s)
    PROVE  /\ conn' \in [Fds -> Connections]
           /\ conn'[fd].inq = conn[fd].inq \o s /\ conn'[fd].outq = conn[fd].outq
           /\ conn'[fd].up = conn[fd].up /\ conn'[fd].ctx = conn[fd].ctx
           /\ conn'[fd].err = conn[fd].err
  <1> DEFINE i == conn[fd].inq \o s
             k == Conn(conn[fd].up, conn[fd].ctx, conn[fd].err, i, conn[fd].outq)
  <1>1. i \in Seq(Requests \cup {"hello"})
    BY Fields
  <1>2. conn' = [conn EXCEPT ![fd].inq = i]
    BY DEF Written
  <1> HIDE DEF i
  <1>3. k \in Connections
    BY <1>1, Fields, Makes DEF Conn
  <1>4. conn' = [conn EXCEPT ![fd] = k]
    BY <1>2, FieldExcept, Zenon
  <1> HIDE DEF k
  <1>5. conn' \in [Fds -> Connections] /\ conn'[fd] = k
    BY <1>3, <1>4
  <1> QED
    BY <1>5 DEF k, Conn, i

(* A reply is taken. *)
LEMMA TakenFacts ==
    ASSUME conn \in [Fds -> Connections], fd \in Fds, Taken, HasReply
    PROVE  /\ conn' \in [Fds -> Connections]
           /\ conn'[fd].inq = conn[fd].inq /\ conn'[fd].outq = Tail(conn[fd].outq)
           /\ conn'[fd].up = conn[fd].up /\ conn'[fd].ctx = conn[fd].ctx
           /\ conn'[fd].err = conn[fd].err
  <1> DEFINE k == Conn(conn[fd].up, conn[fd].ctx, conn[fd].err,
                        conn[fd].inq, Tail(conn[fd].outq))
  <1>1. Tail(conn[fd].outq) \in Seq(Replies)
    BY Fields DEF HasReply
  <1>2. k \in Connections
    BY <1>1, Fields, Makes DEF Conn
  <1>3. conn' = [conn EXCEPT ![fd] = k]
    <2>1. conn' = [conn EXCEPT ![fd].outq = Tail(conn[fd].outq)]
      BY DEF Taken
    <2>2. [conn EXCEPT ![fd].outq = Tail(conn[fd].outq)] = [conn EXCEPT ![fd] = k]
      BY FieldExcept, Zenon
    <2> QED
      BY <2>1, <2>2, Zenon
  <1> HIDE DEF k
  <1>4. conn' \in [Fds -> Connections] /\ conn'[fd] = k
    BY <1>2, <1>3
  <1> QED
    BY <1>4 DEF k, Conn

(* The daemon answers a request. *)
LEMMA AnswerFacts ==
    ASSUME conn \in [Fds -> Connections], NEW c \in Fds, conn[c].up, conn[c].inq # <<>>,
           NEW ctx \in SUBSET Settings, NEW err \in BOOLEAN, NEW replies \in Seq(Replies),
           Answer(c, ctx, err, replies)
    PROVE  /\ conn' \in [Fds -> Connections]
           /\ conn'[c].inq = Tail(conn[c].inq) /\ conn'[c].outq = conn[c].outq \o replies
           /\ conn'[c].up = TRUE /\ conn'[c].ctx = ctx
           /\ \A d \in Fds : d # c => conn'[d] = conn[d]
  <1> DEFINE k == Conn(TRUE, ctx, err,
                        Tail(conn[c].inq), conn[c].outq \o replies)
  <1>1. Tail(conn[c].inq) \in Seq(Requests \cup {"hello"})
    BY Fields
  <1>2. conn[c].outq \o replies \in Seq(Replies)
    BY Fields
  <1>3. k \in Connections
    BY <1>1, <1>2, Fields, Makes DEF Conn
  <1>4. conn' = [conn EXCEPT ![c] = k]
    BY DEF Answer, Conn
  <1> HIDE DEF k
  <1>5. /\ conn' \in [Fds -> Connections] /\ conn'[c] = k
        /\ \A d \in Fds : d # c => conn'[d] = conn[d]
    BY <1>3, <1>4
  <1> QED
    BY <1>5 DEF k, Conn

(* The strings of a display. *)
LEMMA StringsFacts ==
    ASSUME conn \in [Fds -> Connections], NEW c \in Fds
    PROVE  /\ Strings(c) \in Seq(Replies) /\ Len(Strings(c)) \in Nat
           /\ \A i \in 1..Len(Strings(c)) : Strings(c)[i].kind = "string"
  <1> DEFINE m == Cardinality(conn[c].ctx) + (IF conn[c].err THEN 1 ELSE 0)
             r == Reply("string", {})
  <1>1. IsFiniteSet(conn[c].ctx)
    BY Fields, ClientAssumption, FS_Subset
  <1>2. m \in Nat
    BY <1>1, FS_CardinalityType
  <1>3. r \in Replies /\ r.kind = "string"
    BY DEF Reply, Replies, Kinds
  <1>4. Strings(c) = [i \in 1..m |-> r]
    BY DEF Strings
  <1> HIDE DEF m, r
  <1> QED
    BY <1>2, <1>3, <1>4

-----------------------------------------------------------------------------
(* Steps of a call. *)

PCs == {"idle", "open", "hello", "greet", "send", "wait", "callback"}

LEMMA ConstantFacts ==
    /\ Requests = Settings \cup {"install", "uninstall", "clear", "display", "log"}
    /\ "hello" \notin Requests /\ "none" \notin Actions
    /\ \A s \in Settings : s \notin Actions /\ s \notin {"clear", "display", "log", "hello"}
    /\ Actions \cap {"clear", "display", "log", "hello"} = {}
  BY ClientAssumption DEF Requests, Actions

(* A call goes on. *)
LEMMA ContinueFacts ==
    ASSUME TypeOK, NEW pc \in PCs, Continue(pc), call.pc # "idle", pc # "idle"
    PROVE  /\ call'.pc = pc /\ call'.req = call.req
           /\ call' \in [pc : PCs, req : Requests \cup {"none"}]
           /\ synclock' = (call'.pc # "idle")
           /\ acked' = acked /\ result' = result
  <1>1. call'.pc = pc /\ call'.req = call.req /\ acked' = acked /\ result' = result
        /\ call' \in [pc : PCs, req : Requests \cup {"none"}]
    BY DEF Continue, TypeOK, PCs, appvars
  <1>2. synclock = TRUE /\ synclock' = synclock
    BY DEF Continue, TypeOK
  <1> QED
    BY <1>1, <1>2

-----------------------------------------------------------------------------
(* Steps of the daemon. *)

(* A reply that ends an answer, after the strings of a display. *)
Ends(q, r) ==
    /\ q \in Seq(Replies) /\ Len(q) \in Nat \ {0} /\ q[Len(q)] = r
    /\ r \in Replies /\ r.kind # "string"
    /\ \A i \in 1..Len(q) : i # Len(q) => q[i].kind = "string"

LEMMA EndsFacts ==
    ASSUME NEW s \in Seq(Replies), \A i \in 1..Len(s) : s[i].kind = "string",
           NEW r \in Replies, r.kind # "string"
    PROVE  Ends(s \o <<r>>, r)
  <1> DEFINE q == s \o <<r>>
  <1>1. q \in Seq(Replies) /\ Len(q) = Len(s) + 1 /\ Len(s) \in Nat
    OBVIOUS
  <1>2. q[Len(q)] = r
    BY <1>1
  <1>3. \A i \in 1..Len(q) : i # Len(q) => q[i].kind = "string"
    <2> SUFFICES ASSUME NEW i \in 1..Len(q), i # Len(q) PROVE q[i].kind = "string"
      OBVIOUS
    <2>1. i \in 1..Len(s)
      BY <1>1
    <2>2. q[i] = s[i]
      BY <2>1
    <2> QED
      BY <2>1, <2>2
  <1> HIDE DEF q
  <1>4. Len(q) \in Nat \ {0}
    BY <1>1
  <1> QED
    BY <1>1, <1>2, <1>3, <1>4 DEF Ends, q

LEMMA EndsAlone ==
    ASSUME NEW r \in Replies, r.kind # "string"
    PROVE  Ends(<<r>>, r) /\ Len(<<r>>) = 1
  BY DEF Ends

(* What the daemon answers to a request: the reply that ends it and what   *)
(* the context has become.                                                 *)
Becomes(req, ctx, kind) ==
    CASE kind = "done" /\ req \in Settings -> ctx \cup {req}
      [] kind = "done" /\ req = "clear" -> {}
      [] OTHER -> ctx

LEMMA RequestFacts ==
    ASSUME conn \in [Fds -> Connections], NEW c \in Fds, onrequest(c)
    PROVE  \E q, r : /\ Ends(q, r)
                     /\ Len(q) # 1 => Head(conn[c].inq) = "display"
                     /\ Head(conn[c].inq) \in Actions /\ r.kind = "done" =>
                           r.profile = conn[c].ctx
                     /\ \E err \in BOOLEAN :
                           Answer(c, Becomes(Head(conn[c].inq), conn[c].ctx, r.kind), err, q)
  <1> DEFINE req == Head(conn[c].inq)
             ctx == conn[c].ctx
             G(q, r, err) == /\ Ends(q, r) /\ err \in BOOLEAN
                             /\ Len(q) # 1 => req = "display"
                             /\ req \in Actions /\ r.kind = "done" => r.profile = ctx
                             /\ Answer(c, Becomes(req, ctx, r.kind), err, q)
             E == Reply("error", {})
             D == Reply("done", {})
             P == Reply("done", ctx)
  <1>1. /\ ctx \in SUBSET Settings /\ conn[c].err \in BOOLEAN
        /\ TRUE \in BOOLEAN /\ FALSE \in BOOLEAN
    BY Fields
  <1>2. /\ E \in Replies /\ E.kind = "error" /\ E.kind # "string" /\ E.kind # "done"
        /\ D \in Replies /\ D.kind = "done" /\ D.kind # "string"
        /\ P \in Replies /\ P.kind = "done" /\ P.kind # "string" /\ P.profile = ctx
    BY <1>1 DEF Reply, Replies, Kinds
  <1>3. /\ Ends(<<E>>, E) /\ Len(<<E>>) = 1 /\ Ends(<<D>>, D) /\ Len(<<D>>) = 1
        /\ Ends(<<P>>, P) /\ Len(<<P>>) = 1
    <2> HIDE DEF E, D, P
    <2> QED
      BY <1>2, EndsAlone
  <1>4. /\ Strings(c) \in Seq(Replies) /\ Len(Strings(c)) \in Nat
        /\ \A i \in 1..Len(Strings(c)) : Strings(c)[i].kind = "string"
    BY StringsFacts
  <1>5. Ends(Strings(c) \o <<D>>, D)
    BY <1>2, <1>4, EndsFacts
  <1>6. ASSUME NEW n \in 0..Len(Strings(c))
        PROVE  Ends(SubSeq(Strings(c), 1, n) \o <<E>>, E)
    <2> DEFINE s == SubSeq(Strings(c), 1, n)
    <2>1. s \in Seq(Replies) /\ Len(s) = n
      BY <1>4
    <2>2. \A i \in 1..Len(s) : s[i].kind = "string"
      BY <1>4, <2>1
    <2> HIDE DEF s, E
    <2>3. Ends(s \o <<E>>, E)
      BY <1>2, <2>1, <2>2, EndsFacts
    <2> QED
      BY <2>3 DEF s
  <1>7. /\ \A s \in Settings : s \notin Actions /\ s \notin {"clear", "display", "log", "hello"}
        /\ Actions \cap {"clear", "display", "log", "hello"} = {}
    BY ConstantFacts
  <1>8. \E q, r, err : G(q, r, err)
    <2> HIDE DEF E, D, P, req, ctx
    <2>1. CASE req \in {"hello", "log"} /\ Answer(c, ctx, conn[c].err, <<D>>)
      <3>1. Becomes(req, ctx, "done") = ctx /\ req \notin Actions
        BY <1>7, <2>1 DEF Becomes
      <3>2. G(<<D>>, D, conn[c].err)
        BY <1>1, <1>2, <1>3, <2>1, <3>1
      <3> QED
        BY <3>2
    <2>2. CASE /\ req = "hello" \/ req \in Settings \cup Actions
               /\ \E err \in BOOLEAN : Answer(c, ctx, err, <<E>>)
      <3>1. Becomes(req, ctx, "error") = ctx
        BY DEF Becomes
      <3>2. \E err \in BOOLEAN : G(<<E>>, E, err)
        BY <1>2, <1>3, <2>2, <3>1
      <3> QED
        BY <3>2
    <2>3. CASE req = "clear" /\ Answer(c, {}, FALSE, <<D>>)
      <3>1. Becomes(req, ctx, "done") = {} /\ req \notin Actions
        BY <1>7, <2>3 DEF Becomes
      <3>2. G(<<D>>, D, FALSE)
        BY <1>1, <1>2, <1>3, <2>3, <3>1
      <3> QED
        BY <3>2
    <2>4. CASE req = "display" /\ Answer(c, ctx, conn[c].err, Strings(c) \o <<D>>)
      <3>1. Becomes(req, ctx, "done") = ctx /\ req \notin Actions
        BY <1>7, <2>4 DEF Becomes
      <3>2. G(Strings(c) \o <<D>>, D, conn[c].err)
        BY <1>1, <1>2, <1>5, <2>4, <3>1
      <3> QED
        BY <3>2
    <2>5. CASE /\ req = "display"
               /\ \E n \in 0..Len(Strings(c)) :
                     Answer(c, ctx, TRUE, SubSeq(Strings(c), 1, n) \o <<E>>)
      <3>1. PICK n \in 0..Len(Strings(c)) :
               Answer(c, ctx, TRUE, SubSeq(Strings(c), 1, n) \o <<E>>)
        BY <2>5
      <3>2. Becomes(req, ctx, "error") = ctx
        BY DEF Becomes
      <3>3. G(SubSeq(Strings(c), 1, n) \o <<E>>, E, TRUE)
        BY <1>1, <1>2, <1>6, <2>5, <3>1, <3>2
      <3> QED
        BY <3>3
    <2>6. CASE req \in Settings /\ Answer(c, ctx \cup {req}, conn[c].err, <<D>>)
      <3>1. Becomes(req, ctx, "done") = ctx \cup {req} /\ req \notin Actions
        BY <1>7, <2>6 DEF Becomes
      <3>2. G(<<D>>, D, conn[c].err)
        BY <1>1, <1>2, <1>3, <2>6, <3>1
      <3> QED
        BY <3>2
    <2>7. CASE req \in Actions /\ Answer(c, ctx, conn[c].err, <<P>>)
      <3>1. Becomes(req, ctx, "done") = ctx
        BY <1>7, <2>7 DEF Becomes
      <3>2. G(<<P>>, P, conn[c].err)
        BY <1>1, <1>2, <1>3, <2>7, <3>1
      <3> QED
        BY <3>2
    <2> QED
      BY <1>1, <2>1, <2>2, <2>3, <2>4, <2>5, <2>6, <2>7, Zenon
      DEF onrequest, E, D, P, req, ctx
  <1> QED
    BY <1>8

-----------------------------------------------------------------------------
(* What holds in every state, after failures too. *)

LEMMA SureReturn ==
    ASSUME Sure, NEW rc, NEW profile, Return(rc, profile), fd' = fd,
           conn' \in [Fds -> Connections], outbuf' \in Seq(Requests), faults' \in 0..MaxFaults,
           \/ state' = state /\ open' = open
           \/ disconnection("Broken"),
           state' = "Disconnected" => acked' = {}
    PROVE  Sure'
  <1>1. call' = Idle /\ synclock' = FALSE /\ acked' \subseteq Settings
    BY DEF Return, Sure, TypeOK
  <1>2. call'.pc = "idle" /\ call'.req = "none"
    BY <1>1 DEF Idle
  <1>3. synclock' = (call'.pc # "idle")
    BY <1>1, <1>2
  <1>4. /\ state' \in {"Disconnected", "Connected", "Broken"} /\ open' \subseteq Fds
        /\ state' = "Connected" => fd' \in open'
    BY DEF disconnection, Sure, TypeOK
  <1>5. call' \in [pc : PCs, req : Requests \cup {"none"}]
    BY <1>1 DEF Idle, PCs
  <1>6. TypeOK'
    BY <1>1, <1>3, <1>4, <1>5 DEF Sure, TypeOK, PCs
  <1>7. Phases'
    BY <1>2 DEF Phases
  <1> QED
    BY <1>6, <1>7 DEF Sure

(* A call that fails. *)
LEMMA SureFails ==
    ASSUME Sure, NEW rc, rc # "ok", Return(rc, {}), fd' = fd,
           conn' \in [Fds -> Connections], outbuf' \in Seq(Requests), faults' \in 0..MaxFaults,
           \/ state' = state /\ open' = open
           \/ disconnection("Broken")
    PROVE  Sure'
  <1>1. acked' = acked
    BY DEF Return
  <1>2. state' = "Disconnected" => acked' = {}
    BY <1>1 DEF disconnection, Sure, Phases
  <1> QED
    BY <1>2, SureReturn

LEMMA SureContinue ==
    ASSUME Sure, NEW pc \in PCs, pc # "idle", call.pc # "idle", Continue(pc),
           conn' \in [Fds -> Connections], outbuf' \in Seq(Requests), faults' \in 0..MaxFaults,
           fd' \in Fds, open' \subseteq Fds,
           state' \in {"Disconnected", "Connected", "Broken"},
           state' = "Connected" => fd' \in open',
           state' = "Disconnected" => state = "Disconnected",
           pc \in {"hello", "greet"} => state' = "Disconnected" /\ fd' \in open',
           pc = "send" => state' = "Connected",
           pc = "callback" => call.req = "display",
           pc = "wait" /\ state' # "Connected" => call.req = "display"
    PROVE  Sure'
  <1>1. /\ call'.pc = pc /\ call'.req = call.req
        /\ call' \in [pc : PCs, req : Requests \cup {"none"}]
        /\ synclock' = (call'.pc # "idle") /\ acked' = acked /\ result' = result
    BY ContinueFacts DEF Sure
  <1>2. TypeOK'
    BY <1>1 DEF Sure, TypeOK, PCs
  <1>3. Phases'
    BY <1>1 DEF Sure, Phases
  <1> QED
    BY <1>2, <1>3 DEF Sure

LEMMA SureApplication ==
    ASSUME Sure, Application
    PROVE  Sure'
  <1>1. CASE \E req \in Requests : sync_process(req)
    <2>1. PICK req \in Requests : sync_process(req)
      BY <1>1
    <2>2. /\ UNCHANGED <<state, fd, open, outbuf, faults, conn, acked>>
          /\ call' = [pc |-> "open", req |-> req] /\ result' = NoResult /\ synclock' = TRUE
      BY <2>1 DEF sync_process, daemonvars, linkvars
    <2>3. call'.pc = "open" /\ call'.req = req
      BY <2>2
    <2>4. synclock' = (call'.pc # "idle")
      BY <2>2, <2>3
    <2>5. call' \in [pc : PCs, req : Requests \cup {"none"}]
      BY <2>2 DEF PCs
    <2>6. TypeOK'
      BY <2>2, <2>4, <2>5 DEF Sure, TypeOK, PCs
    <2>7. Phases'
      BY <2>2, <2>3, ConstantFacts DEF Sure, Phases, NoResult
    <2> QED
      BY <2>6, <2>7 DEF Sure
  <1>2. CASE \E req \in Requests : sync_process_busy(req)
    <2>1. /\ UNCHANGED <<state, fd, synclock, open, outbuf, faults, call, conn, acked>>
          /\ result'.rc = "EBUSY"
      BY <1>2 DEF sync_process_busy, daemonvars, linkvars
    <2> QED
      BY <2>1 DEF Sure, TypeOK, Phases
  <1>3. CASE sec_lsm_manager_disconnect
    <2>1. /\ UNCHANGED <<fd, synclock, outbuf, faults, call, conn>>
          /\ call.pc \in {"idle", "callback"}
          /\ state' = "Disconnected" /\ open' \subseteq open
          /\ acked' = {} /\ result' = NoResult
      BY <1>3 DEF sec_lsm_manager_disconnect, disconnection, daemonvars, linkvars
    <2> QED
      BY <2>1, ConstantFacts DEF Sure, TypeOK, Phases, NoResult
  <1> QED
    BY <1>1, <1>2, <1>3 DEF Application

(* What a new connection is. *)
LEMMA ConnectionFacts ==
    ASSUME Sure, NEW c \in Fds, connection(c)
    PROVE  /\ fd' = c /\ open' = open \cup {c} /\ state' = state /\ state = "Disconnected"
           /\ Continue("hello") /\ outbuf' = <<>> /\ faults' = 0 /\ call.pc = "open"
           /\ conn' \in [Fds -> Connections]
           /\ conn'[c] = Conn(TRUE, {}, FALSE, <<>>, <<>>)
  <1>1. /\ fd' = c /\ open' = open \cup {c} /\ state' = state /\ state = "Disconnected"
        /\ Continue("hello") /\ outbuf' = <<>> /\ faults' = 0 /\ call.pc = "open"
        /\ conn' = [conn EXCEPT ![c] = [Down EXCEPT !.up = TRUE]]
    BY DEF connection, Reopens
  <1>2. <<>> \in Seq(Replies)
    OBVIOUS
  <1>3. /\ conn' = [conn EXCEPT ![c] = Conn(TRUE, {}, FALSE, <<>>, <<>>)]
        /\ Conn(TRUE, {}, FALSE, <<>>, <<>>) \in Connections
    BY <1>1, <1>2, DownFacts, Zenon
  <1>4. conn \in [Fds -> Connections]
    BY DEF Sure, TypeOK
  <1>5. conn' \in [Fds -> Connections] /\ conn'[c] = Conn(TRUE, {}, FALSE, <<>>, <<>>)
    BY <1>3, <1>4
  <1> QED
    BY <1>1, <1>5

LEMMA SureOpen ==
    ASSUME Sure, connection_failing \/ (\E c \in Fds : connection(c)) \/ ensure_opened
    PROVE  Sure'
  <1>0. /\ conn \in [Fds -> Connections] /\ outbuf \in Seq(Requests)
        /\ faults \in 0..MaxFaults /\ fd \in Fds /\ open \subseteq Fds
        /\ state \in {"Disconnected", "Connected", "Broken"}
        /\ state = "Connected" => fd \in open
        /\ 0 \in 0..MaxFaults /\ <<>> \in Seq(Requests)
    BY ClientAssumption DEF Sure, TypeOK
  <1>1. CASE connection_failing
    BY <1>0, <1>1, SureFails DEF connection_failing, daemonvars
  <1>2. ASSUME NEW c \in Fds, connection(c) PROVE Sure'
    <2>1. /\ fd' = c /\ open' = open \cup {c} /\ state' = state /\ state = "Disconnected"
          /\ Continue("hello") /\ outbuf' = <<>> /\ faults' = 0 /\ call.pc = "open"
          /\ conn' \in [Fds -> Connections]
      BY <1>2, ConnectionFacts
    <2>2. "hello" \in PCs
      BY DEF PCs
    <2> QED
      BY <1>0, <2>1, <2>2, SureContinue
  <1>3. CASE ensure_opened
    <2>1. UNCHANGED <<fd, conn, outbuf, faults>> /\ call.pc = "open" /\ "send" \in PCs
      BY <1>3 DEF ensure_opened, daemonvars, linkvars, PCs
    <2>2. CASE state = "Connected" /\ Continue("send") /\ UNCHANGED <<state, open>>
      BY <1>0, <2>1, <2>2, SureContinue
    <2>3. CASE /\ Return("EPIPE", {})
               /\ disconnection("Broken") \/ UNCHANGED <<state, open>>
      BY <1>0, <2>1, <2>3, SureFails
    <2> QED
      BY <1>3, <2>2, <2>3 DEF ensure_opened
  <1> QED
    BY <1>1, <1>2, <1>3

(* What is written is made of requests. *)
LEMMA PutFacts ==
    ASSUME Sure, call.pc = "send"
    PROVE  /\ outbuf \in Seq(Requests) /\ Append(outbuf, call.req) \in Seq(Requests)
           /\ \A s \in Seq(Requests) : s \in Seq(Requests \cup {"hello"})
  <1>1. outbuf \in Seq(Requests) /\ call.req \in Requests
    BY DEF Sure, TypeOK, Phases
  <1> QED
    BY <1>1

LEMMA SureSend ==
    ASSUME Sure, send_hello \/ send_fields
    PROVE  Sure'
  <1>0. /\ conn \in [Fds -> Connections] /\ outbuf \in Seq(Requests)
        /\ faults \in 0..MaxFaults /\ fd \in Fds /\ open \subseteq Fds
        /\ state \in {"Disconnected", "Connected", "Broken"}
        /\ state = "Connected" => fd \in open
        /\ "greet" \in PCs /\ "wait" \in PCs /\ <<>> \in Seq(Requests)
    BY DEF Sure, TypeOK, PCs
  <1>1. CASE send_hello
    <2>1. /\ call.pc = "hello" /\ state = "Disconnected" /\ fd \in open
          /\ UNCHANGED <<fd, outbuf, faults>>
      BY <1>1 DEF send_hello, linkvars, Sure, Phases
    <2>2. CASE Written(<<"hello">>) /\ Continue("greet") /\ UNCHANGED <<state, open>>
      <3>1. conn' \in [Fds -> Connections]
        <4> DEFINE s == <<"hello">>
        <4>1. s \in Seq(Requests \cup {"hello"}) /\ Written(s)
          BY <2>2
        <4> HIDE DEF s
        <4> QED
          BY <1>0, <4>1, WrittenFacts
      <3> QED
        BY <1>0, <2>1, <2>2, <3>1, SureContinue
    <2>3. CASE disconnection("Broken") /\ Return("EPIPE", {}) /\ conn' = conn
      BY <1>0, <2>1, <2>3, SureFails
    <2> QED
      BY <1>1, <2>2, <2>3 DEF send_hello, daemonvars
  <1>2. CASE send_fields
    <2>1. /\ call.pc = "send" /\ state = "Connected" /\ UNCHANGED <<state, fd, open, faults>>
      BY <1>2 DEF send_fields, Sure, Phases
    <2>2. /\ conn' \in [Fds -> Connections] /\ outbuf' \in Seq(Requests)
      <3>1. ASSUME NEW s \in Seq(Requests), Written(s) PROVE conn' \in [Fds -> Connections]
        BY <1>0, <2>1, <3>1, PutFacts, WrittenFacts
      <3>2. outbuf \in Seq(Requests) /\ Append(outbuf, call.req) \in Seq(Requests)
        BY <2>1, PutFacts
      <3> QED
        BY <1>0, <1>2, <3>1, <3>2 DEF send_fields, daemonvars
    <2>3. CASE Continue("wait")
      BY <1>0, <2>1, <2>2, <2>3, SureContinue
    <2>4. CASE Return("EMSGSIZE", {}) \/ Return("EPIPE", {})
      BY <1>0, <2>1, <2>2, <2>4, SureFails
    <2> QED
      BY <1>2, <2>3, <2>4 DEF send_fields
  <1> QED
    BY <1>1, <1>2

LEMMA SureReplies ==
    ASSUME Sure, \/ greeted \/ greeting_lost \/ wait_done_or_error
                 \/ wait_display_replies \/ callback_ends \/ reply_lost
    PROVE  Sure'
  <1>0. /\ conn \in [Fds -> Connections] /\ outbuf \in Seq(Requests)
        /\ faults \in 0..MaxFaults /\ fd \in Fds /\ open \subseteq Fds
        /\ state \in {"Disconnected", "Connected", "Broken"}
        /\ state = "Connected" => fd \in open
        /\ {"send", "wait", "callback"} \subseteq PCs
    BY DEF Sure, TypeOK, PCs
  <1>1. UNCHANGED <<fd, outbuf, faults>> /\ outbuf' \in Seq(Requests) /\ faults' \in 0..MaxFaults
    BY <1>0 DEF greeted, greeting_lost, wait_done_or_error, wait_display_replies, callback_ends,
                reply_lost, linkvars
  <1>2. conn' \in [Fds -> Connections]
    <2>1. ASSUME Taken, HasReply PROVE conn' \in [Fds -> Connections]
      BY <1>0, <2>1, TakenFacts
    <2> QED
      BY <1>0, <2>1 DEF greeted, greeting_lost, wait_done_or_error, wait_display_replies,
                        callback_ends, reply_lost, daemonvars
  <1>3. CASE greeted
    <2>1. call.pc = "greet" /\ fd \in open
      BY <1>3 DEF greeted, Sure, Phases
    <2>2. CASE state' = "Connected" /\ Continue("send") /\ open' = open
      BY <1>0, <1>1, <1>2, <2>1, <2>2, SureContinue
    <2>3. CASE disconnection("Broken") /\ Return("EPROTO", {})
      BY <1>1, <1>2, <2>3, SureFails
    <2> QED
      BY <1>3, <2>2, <2>3 DEF greeted
  <1>4. CASE wait_done_or_error
    <2> DEFINE rc == CASE NextReply.kind = "done" -> "ok"
                       [] NextReply.kind = "error" ->
                            IF call.req = "display" THEN "EPERM" ELSE "EPROTO"
                       [] OTHER -> "ECANCELED"
    <2>1. /\ call.pc = "wait" /\ Return(rc, NextReply.profile) /\ UNCHANGED <<state, open>>
      BY <1>4 DEF wait_done_or_error
    <2> HIDE DEF rc
    <2>2. state = "Disconnected" => call.req = "display" /\ acked = {}
      BY <2>1 DEF Sure, Phases
    <2>3. state' = "Disconnected" => acked' = {}
      BY <2>1, <2>2, ConstantFacts DEF Return
    <2> QED
      BY <1>1, <1>2, <2>1, <2>3, SureReturn
  <1>5. CASE wait_display_replies \/ callback_ends
    <2>1. /\ call.pc \in {"wait", "callback"} /\ call.req = "display"
          /\ UNCHANGED <<state, open>>
      BY <1>5 DEF wait_display_replies, callback_ends, IsString, Sure, Phases
    <2>2. ASSUME NEW pc \in {"wait", "callback"}, Continue(pc) PROVE Sure'
      BY <1>0, <1>1, <1>2, <2>1, <2>2, SureContinue
    <2> QED
      BY <1>5, <2>2 DEF wait_display_replies, callback_ends
  <1>6. CASE greeting_lost \/ reply_lost
    <2>1. PICK rc \in {"EPIPE", "ECONNRESET", "EBADF"} :
             Return(rc, {}) /\ (disconnection("Broken") \/ UNCHANGED <<state, open>>)
      BY <1>6 DEF greeting_lost, reply_lost
    <2> QED
      BY <1>1, <1>2, <2>1, SureFails
  <1> QED
    BY <1>3, <1>4, <1>5, <1>6

LEMMA SureFailure ==
    ASSUME Sure, Failure
    PROVE  Sure' /\ faults' # 0
  <1>0. /\ conn \in [Fds -> Connections] /\ fd \in Fds /\ outbuf \in Seq(Requests)
        /\ faults \in 0..MaxFaults /\ MaxFaults \in Nat
    BY ClientAssumption DEF Sure, TypeOK
  <1>1. faults' \in 0..MaxFaults /\ faults' # 0
    <2>1. faults < MaxFaults /\ faults' = faults + 1
      BY DEF Failure, opening_fails, flushw_fails, wait_reply_fails, Fault
    <2> QED
      BY <1>0, <2>1
  <1>2. CASE opening_fails \/ wait_reply_fails
    <2>1. PICK rc \in {"EPIPE", "failed"} :
             Return(rc, {}) /\ (disconnection("Broken") \/ UNCHANGED <<state, open>>)
      BY <1>2 DEF opening_fails, wait_reply_fails
    <2>2. UNCHANGED <<fd, conn, outbuf>>
      BY <1>2 DEF opening_fails, wait_reply_fails, daemonvars
    <2> QED
      BY <1>0, <1>1, <2>1, <2>2, SureFails
  <1>3. CASE flushw_fails
    <2>1. call.pc = "send" /\ Return("failed", {}) /\ UNCHANGED <<state, fd, open>>
      BY <1>3 DEF flushw_fails
    <2>2. PICK put \in {outbuf, Append(outbuf, call.req)} : \E n \in 0..Len(put) - 1 :
             Written(SubSeq(put, 1, n)) /\ outbuf' = SubSeq(put, n + 1, Len(put))
      BY <1>3 DEF flushw_fails
    <2>3. PICK n \in 0..Len(put) - 1 :
             Written(SubSeq(put, 1, n)) /\ outbuf' = SubSeq(put, n + 1, Len(put))
      BY <2>2
    <2>4. put \in Seq(Requests)
      BY <2>1, PutFacts
    <2> DEFINE s == SubSeq(put, 1, n)
    <2>5. s \in Seq(Requests) /\ outbuf' \in Seq(Requests)
      BY <2>3, <2>4
    <2>6. Written(s)
      BY <2>3
    <2> HIDE DEF s
    <2>7. s \in Seq(Requests \cup {"hello"})
      BY <2>1, <2>5, PutFacts
    <2>8. conn' \in [Fds -> Connections]
      BY <1>0, <2>6, <2>7, WrittenFacts
    <2> QED
      BY <1>1, <2>1, <2>5, <2>8, SureFails
  <1> QED
    BY <1>1, <1>2, <1>3 DEF Failure

(* What the daemon answers to a request. *)
LEMMA AnswerIs ==
    ASSUME conn \in [Fds -> Connections], NEW c \in Fds, onrequest(c)
    PROVE  \E q, r :
             /\ Ends(q, r)
             /\ Len(q) # 1 => Head(conn[c].inq) = "display"
             /\ Head(conn[c].inq) \in Actions /\ r.kind = "done" => r.profile = conn[c].ctx
             /\ conn' \in [Fds -> Connections]
             /\ conn'[c].inq = Tail(conn[c].inq) /\ conn'[c].outq = conn[c].outq \o q
             /\ conn'[c].up = TRUE
             /\ conn'[c].ctx = Becomes(Head(conn[c].inq), conn[c].ctx, r.kind)
             /\ \A d \in Fds : d # c => conn'[d] = conn[d]
  <1>0. conn[c].up /\ conn[c].inq # <<>>
    BY DEF onrequest
  <1>1. PICK q, r :
           /\ Ends(q, r)
           /\ Len(q) # 1 => Head(conn[c].inq) = "display"
           /\ Head(conn[c].inq) \in Actions /\ r.kind = "done" => r.profile = conn[c].ctx
           /\ \E err \in BOOLEAN :
                 Answer(c, Becomes(Head(conn[c].inq), conn[c].ctx, r.kind), err, q)
    BY <1>0, RequestFacts
  <1> DEFINE ctx == Becomes(Head(conn[c].inq), conn[c].ctx, r.kind)
  <1>2. ctx \in SUBSET Settings
    BY Fields DEF Becomes
  <1>3. q \in Seq(Replies)
    BY <1>1 DEF Ends
  <1> HIDE DEF ctx
  <1>4. PICK err \in BOOLEAN : Answer(c, ctx, err, q)
    BY <1>1 DEF ctx
  <1>5. /\ conn' \in [Fds -> Connections]
        /\ conn'[c].inq = Tail(conn[c].inq) /\ conn'[c].outq = conn[c].outq \o q
        /\ conn'[c].up = TRUE /\ conn'[c].ctx = ctx
        /\ \A d \in Fds : d # c => conn'[d] = conn[d]
    BY <1>0, <1>2, <1>3, <1>4, AnswerFacts, Zenon
  <1> QED
    BY <1>1, <1>5, Zenon DEF ctx

(* What is left of a connection that the daemon ends. *)
LEMMA CloseFacts ==
    ASSUME conn \in [Fds -> Connections], NEW c \in Fds, daemon_closes(c)
    PROVE  /\ conn' \in [Fds -> Connections]
           /\ conn'[c].up = FALSE /\ conn'[c].ctx = {} /\ conn'[c].inq = <<>>
           /\ c = fd => conn'[c].outq = conn[c].outq
           /\ \A d \in Fds : d # c => conn'[d] = conn[d]
  <1> DEFINE q == IF c = fd THEN conn[c].outq ELSE Down.outq
  <1>1. q \in Seq(Replies)
    BY Fields DEF Down
  <1>2. conn' = [conn EXCEPT ![c] = [Down EXCEPT !.outq = q]]
    BY DEF daemon_closes
  <1> HIDE DEF q
  <1>3. /\ conn' = [conn EXCEPT ![c] = Conn(FALSE, {}, FALSE, <<>>, q)]
        /\ Conn(FALSE, {}, FALSE, <<>>, q) \in Connections
    BY <1>1, <1>2, DownFacts, Zenon
  <1>4. /\ conn' \in [Fds -> Connections] /\ conn'[c] = Conn(FALSE, {}, FALSE, <<>>, q)
        /\ \A d \in Fds : d # c => conn'[d] = conn[d]
    BY <1>3
  <1> QED
    BY <1>4 DEF Conn, q

LEMMA SureDaemon ==
    ASSUME Sure, NEW c \in Fds, onrequest(c) \/ daemon_closes(c)
    PROVE  Sure'
  <1>1. /\ conn \in [Fds -> Connections]
        /\ UNCHANGED <<state, fd, synclock, outbuf, faults, open, call, acked, result>>
    BY DEF onrequest, daemon_closes, appvars, linkvars, Sure, TypeOK
  <1>2. conn' \in [Fds -> Connections]
    BY <1>1, AnswerIs, CloseFacts
  <1> QED
    BY <1>1, <1>2 DEF Sure, TypeOK, Phases

LEMMA SureNext == Sure /\ [Next]_vars => Sure'
  <1> SUFFICES ASSUME Sure, [Next]_vars PROVE Sure'
    OBVIOUS
  <1>1. CASE UNCHANGED vars
    BY <1>1 DEF vars, Sure, TypeOK, Phases
  <1>2. CASE Library
    BY <1>2, SureOpen, SureSend, SureReplies DEF Library
  <1> QED
    BY <1>1, <1>2, SureApplication, SureFailure, SureDaemon DEF Next

-----------------------------------------------------------------------------
(* Steps on a connection on which no call failed. *)

(* A call goes on. *)
LEMMA ContinueStep ==
    ASSUME Clean, NEW pc \in PCs, pc # "idle", call.pc # "idle", Continue(pc),
           outbuf' = <<>>, Flight'
    PROVE  Steady'
  <1>1. acked' = acked /\ result' = result
    BY ContinueFacts DEF Clean, Sure
  <1> QED
    BY <1>1 DEF Clean, Steady, Applied

(* A call returns: the connection in use, if any, is quiet, and an action  *)
(* that succeeds was applied to what was acknowledged.                     *)
LEMMA ReturnStep ==
    ASSUME NEW rc, NEW profile, Return(rc, profile), outbuf' = <<>>,
           state' = "Connected" => Quiet',
           rc = "ok" /\ call.req \in Actions => profile = acked
    PROVE  Steady'
  <1>1. /\ result' = [req |-> call.req, rc |-> rc, profile |-> profile]
        /\ call.req \in Actions => acked' = acked
    BY ConstantFacts DEF Return
  <1>2. call'.pc = "idle"
    BY DEF Return, Idle
  <1>3. Flight'
    BY <1>2 DEF Flight
  <1>4. Applied'
    BY <1>1 DEF Applied
  <1> QED
    BY <1>3, <1>4 DEF Steady

(* A call fails and nothing of it is left on a connection still in use. *)
LEMMA FailStep ==
    ASSUME NEW rc, rc # "ok", Return(rc, {}), outbuf' = <<>>, fd' = fd,
           state' = "Connected" => conn' = conn /\ Quiet
    PROVE  Steady'
  <1>1. acked' = acked
    BY DEF Return
  <1>2. state' = "Connected" => Quiet'
    BY <1>1 DEF Quiet
  <1> QED
    BY <1>2, ReturnStep

(* The application calls. *)
LEMMA ApplicationStep ==
    ASSUME Clean, Application
    PROVE  Steady'
  <1>0. outbuf' = <<>>
    BY DEF Application, sync_process, sync_process_busy, sec_lsm_manager_disconnect, linkvars,
           Clean, Steady
  <1>1. CASE \E req \in Requests : sync_process(req)
    <2>1. PICK req \in Requests : sync_process(req)
      BY <1>1
    <2>2. /\ UNCHANGED <<state, fd, open, conn, acked>> /\ call.pc = "idle"
          /\ call' = [pc |-> "open", req |-> req] /\ result' = NoResult
      BY <2>1 DEF sync_process, daemonvars
    <2>3. call'.pc = "open"
      BY <2>2
    <2>4. Flight'
      BY <2>2, <2>3 DEF Clean, Steady, Flight, Quiet
    <2>5. Applied'
      BY <2>2, ConstantFacts DEF Applied, NoResult
    <2> QED
      BY <1>0, <2>4, <2>5 DEF Steady
  <1>2. CASE \E req \in Requests : sync_process_busy(req)
    <2>1. /\ UNCHANGED <<state, fd, call, conn, acked>> /\ result'.rc = "EBUSY"
      BY <1>2 DEF sync_process_busy, daemonvars
    <2>2. Flight'
      BY <2>1 DEF Clean, Steady, Flight, Quiet, Sending, Gone, Answered, After, Greeting
    <2> QED
      BY <1>0, <2>1, <2>2 DEF Steady, Applied
  <1>3. CASE sec_lsm_manager_disconnect
    <2>1. /\ call' = call /\ call.pc \in {"idle", "callback"}
          /\ state' = "Disconnected" /\ result' = NoResult
      BY <1>3 DEF sec_lsm_manager_disconnect, disconnection
    <2>2. Flight'
      BY <2>1 DEF Flight
    <2>3. Applied'
      BY <2>1, ConstantFacts DEF Applied, NoResult
    <2> QED
      BY <1>0, <2>2, <2>3 DEF Steady
  <1> QED
    BY <1>1, <1>2, <1>3 DEF Application

(* A new connection starts afresh, whatever failed on earlier ones. *)
LEMMA FreshStep ==
    ASSUME Sure, NEW c \in Fds, connection(c)
    PROVE  Steady'
  <1>1. /\ fd' = c /\ state' = state /\ state = "Disconnected" /\ outbuf' = <<>>
        /\ conn'[c] = Conn(TRUE, {}, FALSE, <<>>, <<>>)
        /\ Continue("hello") /\ call.pc = "open" /\ "hello" \in PCs
    BY ConnectionFacts DEF PCs
  <1>2. /\ call'.pc = "hello" /\ acked' = acked /\ result' = result
    BY <1>1, ContinueFacts DEF Sure
  <1>3. /\ acked = {} /\ ~(result.req \in Actions /\ result.rc = "ok")
    BY <1>1 DEF Sure, Phases
  <1>4. conn'[fd'].inq = <<>> /\ conn'[fd'].outq = <<>> /\ conn'[fd'].ctx = {}
    BY <1>1 DEF Conn
  <1>5. Flight'
    BY <1>1, <1>2, <1>3, <1>4 DEF Flight, Quiet
  <1> QED
    BY <1>1, <1>2, <1>3, <1>5 DEF Steady, Applied

(* The connection cannot be opened, or it is checked. *)
LEMMA OpenStep ==
    ASSUME Clean, connection_failing \/ ensure_opened
    PROVE  Steady'
  <1>0. /\ call.pc = "open" /\ outbuf' = <<>> /\ UNCHANGED <<fd, conn>>
        /\ state = "Connected" => Quiet
    BY DEF connection_failing, ensure_opened, daemonvars, linkvars, Clean, Steady, Flight
  <1>1. CASE connection_failing
    BY <1>0, <1>1, FailStep DEF connection_failing
  <1>2. CASE state = "Connected" /\ Continue("send") /\ UNCHANGED <<state, open>>
    <2>1. call'.pc = "send" /\ acked' = acked /\ "send" \in PCs
      BY <1>0, <1>2, ContinueFacts DEF Clean, Sure, PCs
    <2>2. Flight'
      BY <1>0, <1>2, <2>1 DEF Flight, Quiet
    <2> QED
      BY <1>0, <1>2, <2>1, <2>2, ContinueStep
  <1>3. CASE /\ Return("EPIPE", {})
             /\ disconnection("Broken") \/ UNCHANGED <<state, open>>
    BY <1>0, <1>3, FailStep DEF disconnection
  <1> QED
    BY <1>1, <1>2, <1>3 DEF ensure_opened

(* The greeting and the request are sent. *)
LEMMA SendStep ==
    ASSUME Clean, send_hello \/ send_fields
    PROVE  Steady'
  <1>0. /\ conn \in [Fds -> Connections] /\ fd \in Fds /\ TypeOK /\ outbuf = <<>>
        /\ "greet" \in PCs /\ "wait" \in PCs
    BY DEF Clean, Sure, Steady, TypeOK, PCs
  <1>1. CASE send_hello
    <2>0. /\ call.pc = "hello" /\ state = "Disconnected" /\ Quiet /\ conn[fd].ctx = {}
          /\ UNCHANGED <<fd, outbuf>>
      BY <1>1 DEF send_hello, linkvars, Clean, Sure, Steady, Phases, Flight
    <2>1. CASE /\ Written(<<"hello">>) /\ Continue("greet") /\ UNCHANGED <<state, open>>
      <3> DEFINE s == <<"hello">>
      <3>1. s \in Seq(Requests \cup {"hello"}) /\ Written(s) /\ <<>> \o s = s
        BY <2>1
      <3> HIDE DEF s
      <3>2. /\ conn'[fd].inq = conn[fd].inq \o s /\ conn'[fd].outq = conn[fd].outq
            /\ conn'[fd].ctx = conn[fd].ctx
        BY <1>0, <3>1, WrittenFacts
      <3>3. call'.pc = "greet"
        BY <1>0, <2>0, <2>1, ContinueFacts
      <3>4. conn'[fd].inq = <<"hello">> /\ conn'[fd].outq = <<>> /\ conn'[fd].ctx = {}
        <4>1. conn'[fd].inq = s /\ conn'[fd].outq = <<>> /\ conn'[fd].ctx = {}
          BY <2>0, <3>1, <3>2 DEF Quiet
        <4> QED
          BY <4>1 DEF s
      <3>5. Flight'
        BY <2>0, <2>1, <3>3, <3>4 DEF Flight, Greeting
      <3> QED
        BY <1>0, <2>0, <2>1, <3>5, ContinueStep
    <2>2. CASE disconnection("Broken") /\ Return("EPIPE", {}) /\ UNCHANGED conn
      BY <1>0, <2>0, <2>2, FailStep DEF disconnection
    <2> QED
      BY <1>1, <2>1, <2>2 DEF send_hello, daemonvars
  <1>2. CASE send_fields
    <2>0. /\ call.pc = "send" /\ state = "Connected" /\ Quiet /\ call.req \in Requests
          /\ UNCHANGED <<state, fd, open>> /\ outbuf' = <<>>
      BY <1>0, <1>2 DEF send_fields, Clean, Sure, Steady, Phases, Flight
    <2>1. CASE /\ conn[fd].up /\ Written(Append(outbuf, call.req)) /\ Continue("wait")
      <3> DEFINE s == <<call.req>>
      <3>1. s \in Seq(Requests \cup {"hello"}) /\ <<>> \o s = s /\ Append(outbuf, call.req) = s
        BY <1>0, <2>0
      <3>2. Written(s)
        BY <2>1, <3>1, Zenon
      <3> HIDE DEF s
      <3>3. /\ conn'[fd].inq = conn[fd].inq \o s /\ conn'[fd].outq = conn[fd].outq
            /\ conn'[fd].ctx = conn[fd].ctx /\ conn'[fd].up = conn[fd].up
        BY <1>0, <3>1, <3>2, WrittenFacts
      <3>4. call'.pc = "wait" /\ call'.req = call.req /\ acked' = acked
        BY <1>0, <2>0, <2>1, ContinueFacts
      <3>5. /\ conn'[fd].inq = <<call.req>> /\ conn'[fd].outq = <<>>
            /\ conn'[fd].up /\ conn'[fd].ctx = acked
        <4>1. /\ conn'[fd].inq = s /\ conn'[fd].outq = <<>>
              /\ conn'[fd].up /\ conn'[fd].ctx = acked
          BY <2>0, <2>1, <3>1, <3>3 DEF Quiet
        <4> QED
          BY <4>1 DEF s
      <3>6. Flight'
        BY <2>0, <3>4, <3>5 DEF Flight, Sending
      <3> QED
        BY <1>0, <2>0, <2>1, <3>6, ContinueStep
    <2>2. CASE ~conn[fd].up /\ Continue("wait") /\ UNCHANGED conn
      <3>1. call'.pc = "wait" /\ call'.req = call.req /\ acked' = acked
        BY <1>0, <2>0, <2>2, ContinueFacts
      <3>2. Flight'
        BY <2>0, <2>2, <3>1 DEF Flight, Quiet, Gone
      <3> QED
        BY <1>0, <2>0, <2>2, <3>2, ContinueStep
    <2>3. CASE Written(outbuf) /\ Return("EMSGSIZE", {})
      <3> DEFINE s == <<>>
      <3>1. s \in Seq(Requests \cup {"hello"}) /\ <<>> \o s = <<>>
        OBVIOUS
      <3>2. Written(s)
        BY <1>0, <2>3, Zenon
      <3> HIDE DEF s
      <3>3. /\ conn'[fd].inq = conn[fd].inq \o s /\ conn'[fd].outq = conn[fd].outq
            /\ conn'[fd].ctx = conn[fd].ctx /\ conn'[fd].up = conn[fd].up
        BY <1>0, <3>1, <3>2, WrittenFacts
      <3>4. acked' = acked
        BY <2>3 DEF Return
      <3>5. Quiet'
        BY <2>0, <3>1, <3>3, <3>4 DEF Quiet
      <3> QED
        BY <2>0, <2>3, <3>5, ReturnStep
    <2>4. CASE /\ Return("EMSGSIZE", {}) \/ Return("EPIPE", {})
               /\ UNCHANGED conn
      BY <2>0, <2>4, FailStep
    <2> QED
      BY <1>2, <2>1, <2>2, <2>3, <2>4 DEF send_fields, daemonvars
  <1> QED
    BY <1>1, <1>2

(* The greeting is answered, or not. *)
LEMMA GreetStep ==
    ASSUME Clean, greeted \/ greeting_lost
    PROVE  Steady'
  <1>0. /\ conn \in [Fds -> Connections] /\ fd \in Fds /\ TypeOK
        /\ call.pc = "greet" /\ state = "Disconnected" /\ acked = {} /\ Greeting
        /\ fd' = fd /\ outbuf' = <<>> /\ "send" \in PCs
    BY DEF greeted, greeting_lost, linkvars, Clean, Sure, Steady, TypeOK, Phases, Flight, PCs
  <1>1. CASE greeting_lost
    BY <1>0, <1>1, FailStep DEF greeting_lost, disconnection
  <1>2. CASE disconnection("Broken") /\ Return("EPROTO", {})
    BY <1>0, <1>2, FailStep DEF disconnection
  <1>3. CASE greeted /\ state' = "Connected" /\ Continue("send")
    <2>1. /\ conn'[fd].inq = conn[fd].inq /\ conn'[fd].outq = Tail(conn[fd].outq)
          /\ conn'[fd].ctx = conn[fd].ctx
      BY <1>0, <1>3, TakenFacts DEF greeted
    <2>2. conn[fd].outq # <<>>
      BY <1>3 DEF greeted, HasReply
    <2>3. call'.pc = "send" /\ acked' = acked
      BY <1>0, <1>3, ContinueFacts
    <2>4. conn[fd].outq \in Seq(Replies) /\ conn[fd].inq = <<>> /\ Len(conn[fd].outq) = 1
      BY <1>0, <2>2, Fields DEF Greeting, Gone
    <2>5. conn'[fd].inq = <<>> /\ conn'[fd].outq = <<>> /\ conn'[fd].ctx = acked
      BY <1>0, <2>1, <2>2, <2>4, TailFacts DEF Greeting
    <2>6. Flight'
      BY <1>0, <1>3, <2>3, <2>5 DEF Flight, Quiet
    <2> QED
      BY <1>0, <1>3, <2>6, ContinueStep
  <1> QED
    BY <1>1, <1>2, <1>3 DEF greeted

(* The reply that ends a call is taken: all that the daemon sent is read. *)
LEMMA LastReplyStep ==
    ASSUME Clean, wait_done_or_error
    PROVE  Steady'
  <1> DEFINE r == NextReply
             rc == CASE r.kind = "done" -> "ok"
                     [] r.kind = "error" ->
                          IF call.req = "display" THEN "EPERM" ELSE "EPROTO"
                     [] OTHER -> "ECANCELED"
  <1>0. /\ conn \in [Fds -> Connections] /\ fd \in Fds
        /\ call.pc = "wait" /\ HasReply /\ Taken
        /\ UNCHANGED <<state, fd, open>> /\ ~IsString /\ outbuf' = <<>>
        /\ Return(rc, r.profile)
        /\ state # "Connected" => call.req = "display"
    BY DEF wait_done_or_error, linkvars, Clean, Sure, Steady, TypeOK, Phases
  <1>1. /\ conn'[fd].inq = conn[fd].inq /\ conn'[fd].outq = Tail(conn[fd].outq)
        /\ conn'[fd].up = conn[fd].up /\ conn'[fd].ctx = conn[fd].ctx
    BY <1>0, TakenFacts
  <1>2. /\ conn[fd].outq \in Seq(Replies) /\ conn[fd].outq # <<>> /\ r = conn[fd].outq[1]
        /\ Len(conn[fd].outq) \in Nat \ {0}
        /\ Len(conn[fd].outq) = 1 => conn'[fd].outq = <<>>
    <2>1. conn[fd].outq \in Seq(Replies) /\ conn[fd].outq # <<>>
      BY <1>0, Fields DEF HasReply
    <2> QED
      BY <1>1, <2>1, TailFacts DEF NextReply
  <1>3. rc = "ok" <=> r.kind = "done"
    OBVIOUS
  <1>4. acked' = After(r.kind)
    BY <1>0, <1>3 DEF Return, After
  <1> HIDE DEF r, rc
  <1>5. CASE state = "Connected"
    <2>1. Answered
      BY <1>0, <1>2, <1>5 DEF Clean, Steady, Flight, Sending, Gone
    <2>2. Len(conn[fd].outq) = 1 /\ r = conn[fd].outq[Len(conn[fd].outq)]
      <3>1. Len(conn[fd].outq) # 1 => call.req = "display" /\ r.kind = "string"
        <4>1. Len(conn[fd].outq) # 1 =>
                 1 \in 1..Len(conn[fd].outq) /\ 1 # Len(conn[fd].outq)
          BY <1>2
        <4> QED
          BY <1>2, <2>1, <4>1, Zenon DEF Answered
      <3>2. ~(call.req = "display" /\ r.kind = "string")
        BY <1>0 DEF IsString, r
      <3> QED
        BY <1>2, <3>1, <3>2
    <2>3. Quiet'
      BY <1>0, <1>1, <1>2, <1>4, <2>1, <2>2 DEF Quiet, Answered
    <2>4. rc = "ok" /\ call.req \in Actions => r.profile = acked
      BY <1>3, <2>1, <2>2 DEF Answered
    <2> QED
      BY <1>0, <2>3, <2>4, ReturnStep
  <1>6. CASE state # "Connected"
    <2>1. call.req \notin Actions
      BY <1>0, <1>6, ConstantFacts DEF Actions
    <2> QED
      BY <1>0, <1>6, <2>1, ReturnStep
  <1> QED
    BY <1>5, <1>6

(* Another string of a display is taken, or the callback of one ends. *)
LEMMA DisplayStep ==
    ASSUME Clean, wait_display_replies \/ callback_ends
    PROVE  Steady'
  <1>0. /\ conn \in [Fds -> Connections] /\ fd \in Fds /\ TypeOK
        /\ call.pc \in {"wait", "callback"} /\ call.req = "display"
        /\ UNCHANGED <<state, fd, open>> /\ outbuf' = <<>>
        /\ {"wait", "callback"} \subseteq PCs
    BY DEF wait_display_replies, callback_ends, IsString, linkvars, Clean, Sure, Steady, TypeOK,
           Phases, PCs
  <1>1. PICK pc \in {"wait", "callback"} : Continue(pc)
    BY DEF wait_display_replies, callback_ends
  <1>2. /\ call'.pc = pc /\ call'.req = call.req /\ acked' = acked
    BY <1>0, <1>1, ContinueFacts
  <1>3. "display" \in Requests /\ "display" \notin Actions
    BY ConstantFacts DEF Actions
  <1>4. CASE callback_ends
    <2>1. conn' = conn
      BY <1>4 DEF callback_ends, daemonvars
    <2>2. Flight'
      BY <1>0, <1>2, <2>1 DEF Clean, Steady, Flight, Sending, Gone, Answered, After
    <2> QED
      BY <1>0, <1>1, <2>2, ContinueStep
  <1>5. CASE wait_display_replies
    <2>0. call.pc = "wait" /\ HasReply /\ Taken /\ NextReply.kind = "string"
      BY <1>5 DEF wait_display_replies, IsString
    <2>1. /\ conn'[fd].inq = conn[fd].inq /\ conn'[fd].outq = Tail(conn[fd].outq)
          /\ conn'[fd].up = conn[fd].up /\ conn'[fd].ctx = conn[fd].ctx
      BY <1>0, <2>0, TakenFacts
    <2>2. state = "Connected" => Answered'
      <3> SUFFICES ASSUME state = "Connected" PROVE Answered'
        OBVIOUS
      <3> DEFINE q == conn[fd].outq
                 t == conn'[fd].outq
      <3>1. q \in Seq(Replies) /\ q # <<>> /\ t = Tail(q) /\ NextReply = Head(q)
        BY <1>0, <2>0, <2>1, Fields DEF HasReply, NextReply
      <3>2. Answered
        BY <1>0, <3>1 DEF Clean, Steady, Flight, Sending, Gone
      <3> HIDE DEF q, t
      <3>3. /\ Len(q) \in Nat \ {0} /\ NextReply = q[1]
            /\ Len(t) = Len(q) - 1 /\ \A i \in 1..(Len(q) - 1) : t[i] = q[i + 1]
            /\ Len(q) = 1 <=> t = <<>>
        BY <3>1, TailFacts
      <3>4. Len(q) # 1
        BY <2>0, <3>2, <3>3 DEF Answered, q
      <3>5. t # <<>> /\ t[Len(t)] = q[Len(q)]
        BY <3>3, <3>4
      <3>6. \A i \in 1..Len(t) : i # Len(t) => t[i].kind = "string"
        <4> SUFFICES ASSUME NEW i \in 1..Len(t), i # Len(t) PROVE t[i].kind = "string"
          OBVIOUS
        <4>1. i + 1 \in 1..Len(q) /\ i + 1 # Len(q) /\ t[i] = q[i + 1]
          BY <3>3
        <4> QED
          BY <3>2, <4>1 DEF Answered, q
      <3> QED
        BY <1>0, <1>2, <1>3, <2>1, <3>2, <3>5, <3>6 DEF Answered, After, q, t
    <2>3. Flight'
      BY <1>0, <1>2, <2>0, <2>2 DEF Flight
    <2> QED
      BY <1>0, <1>1, <2>3, ContinueStep
  <1> QED
    BY <1>4, <1>5

(* The reply does not come. *)
LEMMA LostStep ==
    ASSUME Clean, reply_lost
    PROVE  Steady'
  <1>0. fd' = fd /\ conn' = conn /\ call.pc = "wait" /\ outbuf' = <<>>
    BY DEF reply_lost, daemonvars, linkvars, Clean, Steady
  <1>1. CASE disconnection("Broken") /\ Return("EPIPE", {})
    BY <1>0, <1>1, FailStep DEF disconnection
  <1>2. CASE /\ ~HasReply /\ ~conn[fd].up /\ Return("ECONNRESET", {})
             /\ UNCHANGED <<state, open>>
    <2>1. conn[fd].outq = <<>>
      BY <1>2 DEF HasReply
    <2>2. state = "Connected" => Sending \/ Gone
      BY <1>0, <2>1 DEF Clean, Steady, Flight, Answered
    <2>3. state = "Connected" => Quiet
      BY <1>2, <2>1, <2>2 DEF Quiet, Sending, Gone
    <2> QED
      BY <1>0, <1>2, <2>3, FailStep
  <1>3. CASE fd \notin open /\ Return("EBADF", {}) /\ UNCHANGED <<state, open>>
    <2>1. state # "Connected"
      BY <1>3 DEF Clean, Sure, TypeOK
    <2> QED
      BY <1>0, <1>3, <2>1, FailStep
  <1> QED
    BY <1>1, <1>2, <1>3 DEF reply_lost

(* The daemon answers a request. *)
LEMMA AnswerStep ==
    ASSUME Clean, NEW c \in Fds, onrequest(c)
    PROVE  Steady'
  <1>0. /\ conn \in [Fds -> Connections] /\ fd \in Fds
        /\ conn[c].up /\ conn[c].inq # <<>> /\ outbuf' = <<>>
        /\ UNCHANGED <<state, fd, synclock, open, call, acked, result>>
    BY DEF onrequest, appvars, linkvars, Clean, Sure, Steady, TypeOK
  <1> DEFINE req == Head(conn[c].inq)
  <1>1. PICK q, r :
           /\ Ends(q, r)
           /\ Len(q) # 1 => req = "display"
           /\ req \in Actions /\ r.kind = "done" => r.profile = conn[c].ctx
           /\ conn' \in [Fds -> Connections]
           /\ conn'[c].inq = Tail(conn[c].inq) /\ conn'[c].outq = conn[c].outq \o q
           /\ conn'[c].up = TRUE /\ conn'[c].ctx = Becomes(req, conn[c].ctx, r.kind)
           /\ \A d \in Fds : d # c => conn'[d] = conn[d]
    BY <1>0, AnswerIs
  <1> DEFINE ctx == Becomes(req, conn[c].ctx, r.kind)
  <1>2. conn'[c].ctx = ctx
    BY <1>1
  <1>3. q \in Seq(Replies)
    BY <1>1 DEF Ends
  <1> HIDE DEF req, ctx
  <1>4. Applied'
    BY <1>0 DEF Clean, Steady, Applied
  <1>5. CASE c # fd
    <2>1. conn'[fd] = conn[fd]
      BY <1>0, <1>1, <1>5
    <2>2. Flight'
      BY <1>0, <2>1 DEF Clean, Steady, Flight, Quiet, Sending, Gone, Answered, After, Greeting
    <2> QED
      BY <1>0, <1>4, <2>2 DEF Steady
  <1>6. CASE c = fd
    <2>1. ASSUME NEW x, conn[fd].inq = <<x>>, conn[fd].outq = <<>>
          PROVE  req = x /\ conn'[fd].inq = <<>> /\ conn'[fd].outq = q
      <3>1. req = x /\ Tail(conn[fd].inq) = <<>>
        BY <1>6, <2>1 DEF req
      <3>2. <<>> \o q = q
        BY <1>3
      <3> QED
        BY <1>1, <1>6, <2>1, <3>1, <3>2
    <2>2. ASSUME state = "Connected", call.pc \in {"wait", "callback"}
          PROVE  Answered'
      <3>1. Sending
        BY <1>0, <1>6, <2>2 DEF Clean, Steady, Flight, Gone, Answered
      <3>2. /\ req = call.req /\ conn'[fd].inq = <<>> /\ conn'[fd].outq = q
            /\ conn[fd].ctx = acked
        BY <2>1, <3>1 DEF Sending
      <3>3. ctx = After(r.kind)
        BY <1>6, <3>2 DEF ctx, Becomes, After
      <3>4. /\ q # <<>> /\ q[Len(q)] = r /\ r.kind # "string"
            /\ \A i \in 1..Len(q) : i # Len(q) => q[i].kind = "string"
        BY <1>1 DEF Ends
      <3> QED
        BY <1>0, <1>1, <1>2, <1>6, <3>2, <3>3, <3>4 DEF Answered, After
    <2>3. ASSUME call.pc = "greet"
          PROVE  Greeting'
      <3>1. conn[fd].inq = <<"hello">> /\ conn[fd].outq = <<>> /\ conn[fd].ctx = {}
        BY <1>0, <1>6, <2>3 DEF Clean, Steady, Flight, Greeting, Gone
      <3>2. req = "hello" /\ conn'[fd].inq = <<>> /\ conn'[fd].outq = q
        BY <2>1, <3>1
      <3>3. Len(q) = 1
        BY <1>1, <3>2
      <3>4. ctx = {}
        BY <1>6, <3>1, <3>2, ConstantFacts DEF ctx, Becomes
      <3> QED
        BY <1>0, <1>2, <1>6, <3>2, <3>3, <3>4 DEF Greeting
    <2>4. /\ ~(state = "Connected" /\ call.pc \in {"idle", "open", "send"})
          /\ call.pc # "hello"
      BY <1>0, <1>6 DEF Clean, Steady, Flight, Quiet
    <2>5. Flight'
      BY <1>0, <2>2, <2>3, <2>4 DEF Flight
    <2> QED
      BY <1>0, <1>4, <2>5 DEF Steady
  <1> QED
    BY <1>5, <1>6

(* The daemon ends a connection. *)
LEMMA CloseStep ==
    ASSUME Clean, NEW c \in Fds, daemon_closes(c)
    PROVE  Steady'
  <1>0. /\ conn \in [Fds -> Connections] /\ fd \in Fds /\ outbuf' = <<>>
        /\ UNCHANGED <<state, fd, synclock, open, call, acked, result>>
    BY DEF daemon_closes, appvars, linkvars, Clean, Sure, Steady, TypeOK
  <1>1. /\ conn'[c].up = FALSE /\ conn'[c].ctx = {} /\ conn'[c].inq = <<>>
        /\ c = fd => conn'[c].outq = conn[c].outq
        /\ \A d \in Fds : d # c => conn'[d] = conn[d]
    BY <1>0, CloseFacts
  <1>2. Applied'
    BY <1>0 DEF Clean, Steady, Applied
  <1>3. CASE c # fd
    <2>1. conn'[fd] = conn[fd]
      BY <1>0, <1>1, <1>3
    <2>2. Flight'
      BY <1>0, <2>1 DEF Clean, Steady, Flight, Quiet, Sending, Gone, Answered, After, Greeting
    <2> QED
      BY <1>0, <1>2, <2>2 DEF Steady
  <1>4. CASE c = fd
    <2>1. /\ conn'[fd].up = FALSE /\ conn'[fd].ctx = {} /\ conn'[fd].inq = <<>>
          /\ conn'[fd].outq = conn[fd].outq
      BY <1>1, <1>4
    <2>2. /\ Quiet => Quiet'
          /\ Greeting => Greeting'
      BY <1>0, <2>1 DEF Quiet, Greeting, Gone
    <2>3. Sending \/ Gone => Gone'
      BY <1>0, <2>1 DEF Sending, Gone
    <2>4. Answered => Answered'
      BY <1>0, <2>1 DEF Answered
    <2>5. Flight'
      BY <1>0, <2>1, <2>2, <2>3, <2>4 DEF Clean, Steady, Flight
    <2> QED
      BY <1>0, <1>2, <2>5 DEF Steady
  <1> QED
    BY <1>3, <1>4

-----------------------------------------------------------------------------
(* The theorems. *)

LEMMA InitIInv == Init => IInv
  <1> SUFFICES ASSUME Init PROVE IInv
    OBVIOUS
  <1>1. /\ state = "Disconnected" /\ fd \in Fds /\ open = {} /\ call = Idle
        /\ conn = [c \in Fds |-> Down] /\ acked = {} /\ result = NoResult
        /\ outbuf = <<>> /\ faults = 0
    BY DEF Init
  <1>2. call.pc = "idle" /\ call.req = "none"
    BY <1>1 DEF Idle
  <1>3. TypeOK
    <2>1. synclock = (call.pc # "idle")
      BY <1>2 DEF Init
    <2>2. Down \in Connections
      BY DEF Down, Connections
    <2>3. call \in [pc : PCs, req : Requests \cup {"none"}]
      BY <1>1 DEF Idle, PCs
    <2>4. 0 \in 0..MaxFaults /\ <<>> \in Seq(Requests)
      BY ClientAssumption
    <2> QED
      BY <1>1, <2>1, <2>2, <2>3, <2>4 DEF TypeOK, PCs
  <1>4. Phases /\ Flight
    BY <1>1, <1>2 DEF Phases, Flight
  <1>5. Applied
    BY <1>1, ConstantFacts DEF Applied, NoResult
  <1> QED
    BY <1>1, <1>3, <1>4, <1>5 DEF IInv, Sure, Steady

(* Only a new connection forgets the failures. *)
LEMMA FaultsKept ==
    ASSUME [Next]_vars, ~Failure, ~(\E c \in Fds : connection(c))
    PROVE  faults' = faults
  BY DEF Next, vars, Library, Application, connection_failing, ensure_opened, send_hello,
         send_fields, greeted, greeting_lost, wait_done_or_error, wait_display_replies,
         callback_ends, reply_lost, sync_process, sync_process_busy,
         sec_lsm_manager_disconnect, onrequest, daemon_closes, linkvars

LEMMA NextIInv == IInv /\ [Next]_vars => IInv'
  <1> SUFFICES ASSUME IInv, [Next]_vars, faults' = 0 PROVE Steady'
    BY SureNext DEF IInv
  <1>1. Sure /\ ~Failure
    BY SureFailure DEF IInv
  <1>2. CASE \E c \in Fds : connection(c)
    BY <1>1, <1>2, FreshStep
  <1>3. CASE ~(\E c \in Fds : connection(c))
    <2>1. Clean
      BY <1>1, <1>3, FaultsKept DEF IInv, Clean
    <2>2. CASE Application
      BY <2>1, <2>2, ApplicationStep
    <2>3. CASE Library
      BY <1>3, <2>1, <2>3, OpenStep, SendStep, GreetStep, LastReplyStep, DisplayStep, LostStep
      DEF Library
    <2>4. CASE \E c \in Fds : onrequest(c) \/ daemon_closes(c)
      BY <2>1, <2>4, AnswerStep, CloseStep
    <2>5. CASE UNCHANGED vars
      BY <2>1, <2>5
      DEF vars, Clean, Steady, Flight, Quiet, Sending, Gone, Answered, After, Greeting, Applied
    <2> QED
      BY <1>1, <2>2, <2>3, <2>4, <2>5 DEF Next
  <1> QED
    BY <1>2, <1>3

LEMMA AlwaysIInv == Spec => []IInv
  BY InitIInv, NextIInv, PTL DEF Spec

(* Type correctness; a connected handle has an open descriptor, and the    *)
(* lock of the handle is held exactly during a call.                       *)
THEOREM ClientTypeOK == Spec => []TypeOK
  BY AlwaysIInv, PTL DEF IInv, Sure

(* As long as no write, poll or read failed on a connection that the       *)
(* daemon has, nothing is in flight on it between two calls: the next      *)
(* reply that the library reads is that of its next request, whatever      *)
(* failed on earlier connections.                                          *)
THEOREM ClientNothingInFlight == Spec => []NothingInFlight
  <1>1. IInv => NothingInFlight
    <2> SUFFICES ASSUME IInv, ~synclock, state = "Connected", faults = 0
                 PROVE  Quiet /\ outbuf = <<>>
      BY DEF NothingInFlight, Quiet
    <2>1. call.pc = "idle"
      BY DEF IInv, Sure, TypeOK
    <2> QED
      BY <2>1 DEF IInv, Steady, Flight
  <1> QED
    BY <1>1, AlwaysIInv, PTL

(* On such a connection an action that succeeds was applied to exactly the *)
(* settings that the library acknowledged: a context lost with its         *)
(* connection is never replaced by an empty or a partial one behind the    *)
(* application's back.                                                     *)
THEOREM ClientActionAppliesAcked == Spec => []ActionAppliesAcked
  <1>1. IInv => ActionAppliesAcked
    BY DEF IInv, Steady, Applied, ActionAppliesAcked
  <1> QED
    BY <1>1, AlwaysIInv, PTL

-----------------------------------------------------------------------------
(* The library, seen from a program that said the settings S since the     *)
(* last time it forgot.                                                    *)

(* No action can succeed until the program clears or resets, or a call     *)
(* failed on the connection in use.                                        *)
Doomed == \/ state = "Broken"
          \/ state = "Connected" /\ (conn[fd].err \/ ~conn[fd].up \/ faults # 0)

(* What the program has said once a request has returned. *)
NowSaid(S, req, rc) ==
    CASE req = "clear" /\ rc = "ok" -> {}
      [] req \in Settings /\ rc \notin {"EINVAL", "EMSGSIZE", "errno"} -> S \cup {req}
      [] OTHER -> S

ReplyIs(kind) == conn[fd].outq # <<>> /\ Head(conn[fd].outq).kind = kind

(* During a call: all that was said was acknowledged, or no action can     *)
(* succeed, or this call forgets.                                          *)
Track(S) ==
    /\ \/ acked = S \/ Doomed
       \/ call.pc = "wait" /\ call.req = "clear" /\ ReplyIs("done")
    /\ faults = 0 /\ call.pc = "wait" /\ call.req \in Actions /\ ReplyIs("done") => acked = S
    /\ call.pc = "wait" /\ call.req \in Settings /\ ReplyIs("error") => Doomed
    /\ call.pc \in {"send", "wait", "callback"} => state = "Connected"

(* When a call has returned, and when it returns. *)
Returned(S, req) ==
    /\ result.req = req
    /\ acked = NowSaid(S, req, result.rc) \/ Doomed
    /\ faults = 0 /\ req \in Actions /\ result.rc = "ok" => acked = S
Returns(S, req) ==
    /\ call'.pc = "idle" /\ result'.req = req
    /\ acked' = NowSaid(S, req, result'.rc) \/ Doomed'
    /\ faults' = 0 /\ req \in Actions /\ result'.rc = "ok" => acked' = S

(* A call that returns. *)
LEMMA ReturnFacts ==
    ASSUME NEW rc, NEW profile, Return(rc, profile)
    PROVE  /\ call'.pc = "idle" /\ result'.req = call.req /\ result'.rc = rc
           /\ rc # "ok" => acked' = acked
  BY DEF Return, Idle

(* A failure that leaves the handle as doomed as it was, or more. *)
LEMMA FailedReturn ==
    ASSUME NEW S, Track(S), NEW rc, rc # "ok", NEW profile, Return(rc, profile),
           Doomed' \/ (acked = S /\ rc \in {"EINVAL", "EMSGSIZE", "errno"})
    PROVE  Returns(S, call.req)
  <1>1. /\ call'.pc = "idle" /\ result'.req = call.req /\ result'.rc = rc /\ acked' = acked
    BY ReturnFacts
  <1>2. rc \in {"EINVAL", "EMSGSIZE", "errno"} => NowSaid(S, call.req, rc) = S
    BY DEF NowSaid
  <1> QED
    BY <1>1, <1>2 DEF Returns

Goes(S) ==
    \/ call'.pc # "idle" /\ call'.req = call.req /\ Track(S)'
    \/ Returns(S, call.req)

LEMMA TrackOpen ==
    ASSUME Sure, NEW S, Track(S),
           connection_failing \/ (\E c \in Fds : connection(c)) \/ ensure_opened
    PROVE  Goes(S)
  <1>1. call.pc = "open" /\ state \in {"Disconnected", "Connected", "Broken"}
    BY DEF connection_failing, connection, ensure_opened, Sure, TypeOK
  <1>2. state = "Disconnected" => acked = S
    BY <1>1 DEF Track, Doomed
  <1>3. ASSUME NEW pc \in PCs \ {"idle", "open"}, Continue(pc)
        PROVE  /\ call'.pc = pc /\ call'.req = call.req /\ acked' = acked
    BY <1>1, <1>3, ContinueFacts DEF Sure
  <1>4. CASE connection_failing
    <2>1. Return("errno", {}) /\ acked = S
      BY <1>2, <1>4 DEF connection_failing, Reopens
    <2> QED
      BY <2>1, FailedReturn DEF Goes
  <1>5. ASSUME NEW c \in Fds, connection(c) PROVE Goes(S)
    <2>1. Continue("hello") /\ acked = S /\ state' = state /\ "hello" \in PCs \ {"idle", "open"}
      BY <1>2, <1>5 DEF connection, Reopens, PCs
    <2>2. call'.pc = "hello" /\ call'.req = call.req /\ acked' = acked
      BY <1>3, <2>1
    <2> QED
      BY <2>1, <2>2 DEF Goes, Track
  <1>6. CASE ensure_opened
    <2>1. fd' = fd /\ conn' = conn /\ faults' = faults
      BY <1>6 DEF ensure_opened, daemonvars, linkvars
    <2>2. CASE state = "Connected" /\ Continue("send") /\ state' = state
      <3>1. call'.pc = "send" /\ call'.req = call.req /\ acked' = acked
        BY <1>3, <2>2 DEF PCs
      <3> QED
        BY <1>1, <2>1, <2>2, <3>1 DEF Goes, Track, Doomed
    <2>3. CASE Return("EPIPE", {}) /\ state' = "Broken"
      BY <2>3, FailedReturn DEF Goes, Doomed
    <2> QED
      BY <1>6, <2>2, <2>3 DEF ensure_opened, disconnection
  <1> QED
    BY <1>4, <1>5, <1>6

LEMMA TrackHello ==
    ASSUME Sure, NEW S, Track(S), send_hello
    PROVE  Goes(S)
  <1>1. call.pc = "hello" /\ state = "Disconnected" /\ acked = S
    BY DEF send_hello, Sure, Phases, Track, Doomed
  <1>2. CASE Continue("greet") /\ state' = state
    <2>1. call'.pc = "greet" /\ call'.req = call.req /\ acked' = acked
      BY <1>1, <1>2, ContinueFacts DEF Sure, PCs
    <2> QED
      BY <1>1, <1>2, <2>1 DEF Goes, Track
  <1>3. CASE Return("EPIPE", {}) /\ state' = "Broken"
    BY <1>3, FailedReturn DEF Goes, Doomed
  <1> QED
    BY <1>2, <1>3 DEF send_hello, disconnection

LEMMA TrackSend ==
    ASSUME Clean, NEW S, Track(S), send_fields
    PROVE  Goes(S)
  <1>1. /\ call.pc = "send" /\ UNCHANGED <<state, fd, faults>> /\ state = "Connected"
        /\ fd \in Fds /\ conn \in [Fds -> Connections]
        /\ conn[fd].outq = <<>> /\ outbuf \in Seq(Requests)
    BY DEF send_fields, Clean, Sure, Steady, TypeOK, Phases, Flight, Quiet
  <1>2. acked = S \/ Doomed
    BY <1>1 DEF Track
  <1>3. ASSUME Continue("wait")
        PROVE  call'.pc = "wait" /\ call'.req = call.req /\ acked' = acked
    BY <1>1, <1>3, ContinueFacts DEF Clean, Sure, PCs
  <1>4. ASSUME NEW s \in Seq(Requests), Written(s)
        PROVE  /\ conn'[fd].err = conn[fd].err /\ conn'[fd].up = conn[fd].up
               /\ conn'[fd].outq = conn[fd].outq
    BY <1>1, <1>4, PutFacts, WrittenFacts DEF Clean
  <1>5. Append(outbuf, call.req) \in Seq(Requests)
    BY <1>1, PutFacts DEF Clean
  <1>6. /\ conn'[fd].err = conn[fd].err /\ conn'[fd].up = conn[fd].up
        /\ conn'[fd].outq = <<>>
    BY <1>1, <1>4, <1>5 DEF send_fields, daemonvars
  <1>7. Doomed => Doomed'
    BY <1>1, <1>6 DEF Doomed
  <1>8. CASE Return("EMSGSIZE", {})
    BY <1>2, <1>7, <1>8, FailedReturn DEF Goes
  <1>9. CASE Continue("wait")
    BY <1>1, <1>2, <1>3, <1>6, <1>7, <1>9 DEF Goes, Track, ReplyIs
  <1>10. CASE ~conn[fd].up /\ Return("EPIPE", {})
    BY <1>1, <1>6, <1>10, FailedReturn DEF Goes, Doomed
  <1> QED
    BY <1>8, <1>9, <1>10 DEF send_fields

LEMMA TrackGreet ==
    ASSUME Sure, NEW S, Track(S), greeted \/ greeting_lost
    PROVE  Goes(S)
  <1>1. call.pc = "greet" /\ state = "Disconnected"
    BY DEF greeted, greeting_lost, Sure, Phases
  <1>2. acked = S
    BY <1>1 DEF Track, Doomed
  <1>3. CASE Continue("send") /\ state' = "Connected"
    <2>1. call'.pc = "send" /\ call'.req = call.req /\ acked' = acked
      BY <1>1, <1>3, ContinueFacts DEF Sure, PCs
    <2> QED
      BY <1>2, <1>3, <2>1 DEF Goes, Track
  <1>4. ASSUME NEW rc, rc # "ok", Return(rc, {}), state' = "Broken"
        PROVE  Goes(S)
    BY <1>4, FailedReturn DEF Goes, Doomed
  <1> QED
    BY <1>3, <1>4 DEF greeted, greeting_lost, disconnection

(* The reply that ends a call. *)
LEMMA TrackReply ==
    ASSUME Clean, NEW S, Track(S), wait_done_or_error
    PROVE  Goes(S)
  <1>1. /\ call.pc = "wait" /\ HasReply /\ ~IsString /\ fd' = fd /\ state' = state
        /\ faults' = faults
        /\ fd \in Fds /\ conn \in [Fds -> Connections] /\ state = "Connected"
    BY DEF wait_done_or_error, linkvars, Clean, Sure, TypeOK, Track
  <1>2. conn'[fd].err = conn[fd].err /\ conn'[fd].up = conn[fd].up
    BY <1>1 DEF wait_done_or_error, Taken, Connections
  <1>3. Doomed => Doomed'
    BY <1>1, <1>2 DEF Doomed
  <1> DEFINE kind == NextReply.kind
             rc == CASE kind = "done" -> "ok"
                     [] kind = "error" -> IF call.req = "display" THEN "EPERM" ELSE "EPROTO"
                     [] OTHER -> "ECANCELED"
  <1>4. Return(rc, NextReply.profile)
    BY DEF wait_done_or_error
  <1>5. call.req # "display" => kind \in {"done", "error"}
    <2> SUFFICES ASSUME call.req # "display" PROVE kind \in {"done", "error"}
      OBVIOUS
    <2> DEFINE q == conn[fd].outq
    <2>1. q \in Seq(Replies) /\ q # <<>>
      BY <1>1, Fields DEF HasReply
    <2>2. Answered
      BY <1>1 DEF HasReply, Clean, Steady, Flight, Sending, Gone
    <2>3. Len(q) = 1 /\ q[Len(q)].kind # "string"
      BY <2>2 DEF Answered
    <2> HIDE DEF q
    <2>4. Head(q) \in Replies /\ Head(q).kind # "string"
      BY <2>1, <2>3
    <2> QED
      BY <2>4 DEF NextReply, q, Replies, Kinds
  <1>6. kind = "done" <=> ReplyIs("done")
    BY <1>1 DEF ReplyIs, HasReply, NextReply
  <1>7. kind = "error" <=> ReplyIs("error")
    BY <1>1 DEF ReplyIs, HasReply, NextReply
  <1> HIDE DEF kind
  <1>8. /\ kind = "done" <=> rc = "ok"
        /\ rc \notin {"EINVAL", "EMSGSIZE", "errno"}
    OBVIOUS
  <1> HIDE DEF rc
  <1>9. /\ call'.pc = "idle" /\ result'.req = call.req /\ result'.rc = rc
        /\ rc # "ok" => acked' = acked
    BY <1>4, ReturnFacts
  <1>10. acked' = CASE rc = "ok" /\ call.req \in Settings -> acked \cup {call.req}
                    [] rc = "ok" /\ call.req = "clear" -> {}
                    [] OTHER -> acked
    BY <1>4 DEF Return
  <1>11. acked' = NowSaid(S, call.req, rc) \/ Doomed'
    <2>1. CASE call.req \in Settings
      <3>1. call.req # "clear" /\ call.req # "display"
        BY <2>1, ConstantFacts
      <3>2. CASE rc = "ok"
        BY <1>3, <1>8, <1>10, <2>1, <3>1, <3>2 DEF Track, NowSaid
      <3>3. CASE rc # "ok"
        BY <1>1, <1>3, <1>5, <1>7, <1>8, <2>1, <3>1, <3>3 DEF Track
      <3> QED
        BY <3>2, <3>3
    <2>2. CASE call.req = "clear"
      <3>1. call.req \notin Settings
        BY <2>2, ConstantFacts
      <3>2. CASE rc = "ok"
        BY <1>10, <2>2, <3>1, <3>2 DEF NowSaid
      <3>3. CASE rc # "ok"
        <4>1. acked = S \/ Doomed
          BY <1>6, <1>8, <3>3 DEF Track
        <4> QED
          BY <1>3, <1>9, <3>1, <3>3, <4>1 DEF NowSaid
      <3> QED
        BY <3>2, <3>3
    <2>3. CASE call.req \notin Settings /\ call.req # "clear"
      <3>1. acked = S \/ Doomed
        BY <2>3 DEF Track
      <3>2. acked' = acked /\ NowSaid(S, call.req, rc) = S
        BY <1>10, <2>3 DEF NowSaid
      <3> QED
        BY <1>3, <3>1, <3>2
    <2> QED
      BY <2>1, <2>2, <2>3
  <1>12. faults = 0 /\ call.req \in Actions /\ rc = "ok" => acked' = S
    <2> SUFFICES ASSUME faults = 0, call.req \in Actions, rc = "ok" PROVE acked' = S
      OBVIOUS
    <2>1. acked = S
      BY <1>1, <1>6, <1>8 DEF Track
    <2>2. call.req \notin Settings /\ call.req # "clear"
      BY ConstantFacts
    <2> QED
      BY <1>10, <2>1, <2>2
  <1> QED
    BY <1>1, <1>9, <1>11, <1>12 DEF Goes, Returns

LEMMA TrackDisplay ==
    ASSUME Clean, NEW S, Track(S), wait_display_replies \/ callback_ends
    PROVE  Goes(S)
  <1>1. /\ call.pc \in {"wait", "callback"} /\ call.req = "display" /\ fd' = fd /\ state' = state
        /\ faults' = faults /\ fd \in Fds /\ conn \in [Fds -> Connections]
    BY DEF wait_display_replies, callback_ends, IsString, linkvars, Clean, Sure,
           TypeOK, Phases
  <1>2. conn'[fd].err = conn[fd].err /\ conn'[fd].up = conn[fd].up
    BY <1>1 DEF wait_display_replies, callback_ends, Taken, Connections, daemonvars
  <1>3. /\ call'.pc \in {"wait", "callback"} /\ call'.req = call.req /\ acked' = acked
    <2>1. ASSUME NEW pc \in {"wait", "callback"}, Continue(pc)
          PROVE  call'.pc = pc /\ call'.req = call.req /\ acked' = acked
      BY <1>1, <2>1, ContinueFacts DEF Clean, Sure, PCs
    <2> QED
      BY <2>1 DEF wait_display_replies, callback_ends
  <1>4. acked = S \/ Doomed
    BY <1>1 DEF Track
  <1>5. "display" \notin Actions /\ "display" \notin Settings /\ state = "Connected"
    BY <1>1, ConstantFacts DEF Track
  <1> QED
    BY <1>1, <1>2, <1>3, <1>4, <1>5 DEF Goes, Track, Doomed

LEMMA TrackLost ==
    ASSUME Clean, NEW S, Track(S), reply_lost
    PROVE  Goes(S)
  <1>1. /\ call.pc = "wait" /\ state = "Connected" /\ fd' = fd /\ conn' = conn /\ fd \in open
        /\ faults' = faults
    BY DEF reply_lost, Track, Clean, Sure, TypeOK, daemonvars, linkvars
  <1>2. CASE Return("EPIPE", {}) /\ state' = "Broken"
    BY <1>2, FailedReturn DEF Goes, Doomed
  <1>3. CASE Return("ECONNRESET", {}) /\ ~conn[fd].up /\ state' = state
    BY <1>1, <1>3, FailedReturn DEF Goes, Doomed
  <1> QED
    BY <1>1, <1>2, <1>3 DEF reply_lost, disconnection

(* After a failure the status of a call tells nothing. *)
LEMMA TrackFaulty ==
    ASSUME Sure, NEW S, Library, faults # 0, state = "Connected"
    PROVE  Goes(S)
  <1>1. faults' = faults /\ state' \in {"Connected", "Broken"} /\ call.pc # "idle"
    BY DEF Library, connection_failing, connection, Reopens, ensure_opened, send_hello,
           send_fields, greeted, greeting_lost, wait_done_or_error, wait_display_replies,
           callback_ends, reply_lost, linkvars, disconnection
  <1>2. Doomed'
    BY <1>1 DEF Doomed
  <1>3. ASSUME NEW pc \in {"send", "greet", "wait", "callback"}, Continue(pc),
               state' = "Connected"
        PROVE  Goes(S)
    <2>1. call'.pc = pc /\ call'.req = call.req
      BY <1>1, <1>3, ContinueFacts DEF Sure, PCs
    <2> QED
      BY <1>1, <1>2, <1>3, <2>1 DEF Goes, Track
  <1>4. ASSUME NEW rc, NEW profile, Return(rc, profile) PROVE Goes(S)
    BY <1>1, <1>2, <1>4, ReturnFacts DEF Goes, Returns
  <1> QED
    BY <1>3, <1>4
    DEF Library, connection_failing, connection, Reopens, ensure_opened, send_hello,
        send_fields, greeted, greeting_lost, wait_done_or_error, wait_display_replies,
        callback_ends, reply_lost

LEMMA TrackLibrary ==
    ASSUME IInv, NEW S, Track(S), Library
    PROVE  Goes(S)
  <1>1. CASE faults = 0
    <2>1. Clean /\ Sure
      BY <1>1 DEF IInv, Clean
    <2> QED
      BY <2>1, TrackOpen, TrackHello, TrackSend, TrackGreet, TrackReply, TrackDisplay, TrackLost
      DEF Library
  <1>2. CASE faults # 0 /\ state = "Connected"
    BY <1>2, TrackFaulty DEF IInv
  <1>3. CASE state # "Connected"
    <2>1. call.pc \notin {"send", "wait", "callback"}
      BY <1>3 DEF Track
    <2> QED
      BY <2>1, TrackOpen, TrackHello, TrackGreet
      DEF IInv, Library, send_fields, wait_done_or_error, wait_display_replies, callback_ends,
          reply_lost
  <1> QED
    BY <1>1, <1>2, <1>3

(* A call that fails on a live connection. *)
LEMMA TrackFailure ==
    ASSUME Sure, NEW S, Track(S), Failure
    PROVE  Goes(S)
  <1>1. faults' # 0
    BY SureFailure
  <1>2. PICK rc \in {"EPIPE", "failed"} : Return(rc, {})
    BY DEF Failure, opening_fails, flushw_fails, wait_reply_fails
  <1>3. Doomed'
    BY <1>1 DEF Failure, opening_fails, flushw_fails, wait_reply_fails, disconnection, Track, Doomed
  <1> QED
    BY <1>2, <1>3, FailedReturn DEF Goes

(* What the daemon changes of a connection when it answers. *)
LEMMA AnswerFields ==
    ASSUME conn \in [Fds -> Connections], NEW c \in Fds, NEW ctx, NEW err, NEW replies,
           Answer(c, ctx, err, replies)
    PROVE  /\ conn'[c].err = err /\ conn'[c].up = TRUE
           /\ conn'[c].outq = conn[c].outq \o replies
           /\ \A d \in Fds : d # c => conn'[d] = conn[d]
  BY DEF Answer

(* One reply alone is the next to be read. *)
LEMMA AnswerAlone ==
    ASSUME conn \in [Fds -> Connections], NEW c \in Fds, NEW ctx, NEW err, NEW kind,
           NEW profile, conn[c].outq = <<>>, Answer(c, ctx, err, <<Reply(kind, profile)>>)
    PROVE  /\ conn'[c].err = err /\ conn'[c].up = TRUE
           /\ conn'[c].outq # <<>> /\ Head(conn'[c].outq).kind = kind
  <1> DEFINE r == Reply(kind, profile)
  <1>1. r.kind = kind
    BY DEF Reply
  <1>2. /\ conn'[c].err = err /\ conn'[c].up = TRUE /\ conn'[c].outq = <<>> \o <<r>>
    <2> DEFINE q == <<r>>
    <2>1. Answer(c, ctx, err, q)
      OBVIOUS
    <2> HIDE DEF q
    <2>2. /\ conn'[c].err = err /\ conn'[c].up = TRUE /\ conn'[c].outq = conn[c].outq \o q
      BY <2>1, AnswerFields
    <2> QED
      BY <2>2 DEF q
  <1> HIDE DEF r
  <1>3. <<>> \o <<r>> = <<r>> /\ <<r>> # <<>> /\ Head(<<r>>) = r
    OBVIOUS
  <1> QED
    BY <1>1, <1>2, <1>3

(* A request that the daemon answers while the library waits: an error     *)
(* state lasts until clear, which has an answer; what is done had none.    *)
LEMMA AnswerToCall ==
    ASSUME conn \in [Fds -> Connections], NEW c \in Fds, onrequest(c),
           conn[c].outq = <<>>, NEW req \in Requests, Head(conn[c].inq) = req
    PROVE  LET kind == Head(conn'[c].outq).kind
           IN  /\ conn'[c].up = TRUE
               /\ req = "clear" => conn'[c].outq # <<>> /\ kind = "done"
               /\ req # "clear" /\ conn[c].err => conn'[c].err
               /\ req \in Settings /\ kind = "error" => conn'[c].err
               /\ req \in Actions /\ kind = "done" => ~conn[c].err
  <1> DEFINE ctx == conn[c].ctx
             err == conn[c].err
             kind == Head(conn'[c].outq).kind
             G == /\ conn'[c].up = TRUE
                  /\ req = "clear" => conn'[c].outq # <<>> /\ kind = "done"
                  /\ req # "clear" /\ conn[c].err => conn'[c].err
                  /\ req \in Settings /\ kind = "error" => conn'[c].err
                  /\ req \in Actions /\ kind = "done" => ~conn[c].err
  <1>1. /\ req # "hello" /\ (req \in Settings => req \notin Actions \cup {"clear", "display", "log"})
        /\ (req \in Actions => req \notin {"clear", "display", "log"})
    BY ConstantFacts
  <1>2. CASE req = "log" /\ Answer(c, ctx, err, <<Reply("done", {})>>)
    <2>1. /\ conn'[c].err = err /\ conn'[c].up = TRUE
          /\ conn'[c].outq # <<>> /\ kind = "done"
      BY <1>2, AnswerAlone
    <2> HIDE DEF kind
    <2>2. G
      BY <1>1, <1>2, <2>1
    <2> QED
      BY <2>2 DEF kind
  <1>3. CASE req = "clear" /\ Answer(c, {}, FALSE, <<Reply("done", {})>>)
    <2>1. /\ conn'[c].err = FALSE /\ conn'[c].up = TRUE
          /\ conn'[c].outq # <<>> /\ kind = "done"
      BY <1>3, AnswerAlone
    <2> HIDE DEF kind
    <2>2. G
      BY <1>1, <1>3, <2>1
    <2> QED
      BY <2>2 DEF kind
  <1>4. CASE req = "display" /\ \E s : Answer(c, ctx, err, s) \/ Answer(c, ctx, TRUE, s)
    BY <1>1, <1>4, AnswerFields
  <1>5. CASE req \in Settings /\ ~err /\ Answer(c, ctx \cup {req}, err, <<Reply("done", {})>>)
    <2>1. /\ conn'[c].err = err /\ conn'[c].up = TRUE
          /\ conn'[c].outq # <<>> /\ kind = "done"
      BY <1>5, AnswerAlone
    <2> HIDE DEF kind
    <2>2. G
      BY <1>1, <1>5, <2>1
    <2> QED
      BY <2>2 DEF kind
  <1>6. CASE req \in Actions /\ ~err /\ Answer(c, ctx, err, <<Reply("done", ctx)>>)
    <2>1. /\ conn'[c].err = err /\ conn'[c].up = TRUE
          /\ conn'[c].outq # <<>> /\ kind = "done"
      BY <1>6, AnswerAlone
    <2> HIDE DEF kind
    <2>2. G
      BY <1>1, <1>6, <2>1
    <2> QED
      BY <2>2 DEF kind
  <1>7. CASE req \in Settings \cup Actions /\ Answer(c, ctx, TRUE, <<Reply("error", {})>>)
    <2>1. /\ conn'[c].err = TRUE /\ conn'[c].up = TRUE
          /\ conn'[c].outq # <<>> /\ kind = "error"
      BY <1>7, AnswerAlone
    <2> HIDE DEF kind
    <2>2. G
      BY <1>1, <1>7, <2>1
    <2> QED
      BY <2>2 DEF kind
  <1> HIDE DEF G
  <1> QED
    BY <1>1, <1>2, <1>3, <1>4, <1>5, <1>6, <1>7 DEF onrequest, G

LEMMA TrackDaemon ==
    ASSUME IInv, NEW S, Track(S), NEW c \in Fds, onrequest(c) \/ daemon_closes(c)
    PROVE  Track(S)'
  <1>1. /\ call' = call /\ state' = state /\ fd' = fd /\ acked' = acked
        /\ faults' = faults /\ fd \in Fds /\ conn \in [Fds -> Connections]
        /\ state \in {"Disconnected", "Connected", "Broken"}
    BY DEF onrequest, daemon_closes, appvars, linkvars, IInv, Sure, TypeOK
  <1>2. CASE conn'[fd] = conn[fd] \/ state = "Broken"
    BY <1>1, <1>2 DEF Track, Doomed, ReplyIs
  <1>3. CASE state = "Disconnected"
    BY <1>1, <1>3 DEF Track, Doomed
  <1>4. CASE c # fd
    <2>1. conn'[fd] = conn[fd]
      BY <1>1, <1>4 DEF onrequest, daemon_closes, Answer
    <2> QED
      BY <1>2, <2>1
  <1>5. CASE c = fd /\ state = "Connected" /\ daemon_closes(c)
    <2>1. ~conn'[fd].up /\ conn'[fd].outq = conn[fd].outq
      BY <1>1, <1>5 DEF daemon_closes, Down
    <2> QED
      BY <1>1, <1>5, <2>1 DEF Track, Doomed, ReplyIs
  <1>6. CASE faults # 0 /\ state = "Connected"
    BY <1>1, <1>6 DEF Track, Doomed
  <1>7. CASE faults = 0 /\ c = fd /\ state = "Connected" /\ onrequest(c)
    <2>1. conn[fd].inq # <<>> /\ conn[fd].up
      BY <1>7 DEF onrequest
    <2>2. call.pc \in {"wait", "callback"} /\ Sending
      BY <1>7, <2>1 DEF IInv, Sure, Steady, TypeOK, Phases, Flight, Quiet, Gone, Answered
    <2> DEFINE req == call.req
    <2>3. /\ req \in Requests /\ conn[fd].inq = <<req>> /\ conn[fd].outq = <<>>
          /\ call.pc = "callback" => req = "display"
      BY <2>2 DEF Sending, IInv, Sure, Phases
    <2>4. Head(conn[fd].inq) = req
      BY <2>3
    <2> HIDE DEF req
    <2>5. /\ conn'[fd].up = TRUE
          /\ req = "clear" => ReplyIs("done")'
          /\ req # "clear" /\ conn[fd].err => conn'[fd].err
          /\ req \in Settings /\ ReplyIs("error")' => conn'[fd].err
          /\ req \in Actions /\ ReplyIs("done")' => ~conn[fd].err
      <3>1. onrequest(fd)
        BY <1>7
      <3> DEFINE kind == Head(conn'[fd].outq).kind
      <3>2. /\ conn'[fd].up = TRUE
            /\ req = "clear" => conn'[fd].outq # <<>> /\ kind = "done"
            /\ req # "clear" /\ conn[fd].err => conn'[fd].err
            /\ req \in Settings /\ kind = "error" => conn'[fd].err
            /\ req \in Actions /\ kind = "done" => ~conn[fd].err
        BY <1>1, <2>3, <2>4, <3>1, AnswerToCall
      <3>3. \A k : ReplyIs(k)' <=> conn'[fd].outq # <<>> /\ kind = k
        BY <1>1 DEF ReplyIs
      <3> QED
        BY <3>2, <3>3
    <2>6. acked = S \/ conn[fd].err
      BY <1>7, <2>1, <2>3 DEF Track, Doomed, ReplyIs
    <2>7. Doomed' <=> conn'[fd].err
      BY <1>1, <1>7, <2>5 DEF Doomed
    <2>8. call' = call /\ call.req = req
      BY <1>1 DEF req
    <2>9. req = "clear" => call.pc = "wait"
      BY <2>2, <2>3
    <2>10. req \in Actions /\ ReplyIs("done")' => acked = S
      BY <2>5, <2>6
    <2>11. acked = S \/ conn'[fd].err \/ (req = "clear" /\ ReplyIs("done")')
      BY <2>5, <2>6
    <2> QED
      BY <1>1, <1>7, <2>5, <2>7, <2>8, <2>9, <2>10, <2>11 DEF Track
  <1> QED
    BY <1>1, <1>2, <1>3, <1>4, <1>5, <1>6, <1>7


-----------------------------------------------------------------------------
(* Cutting a line in commands. *)

(* A nonempty set of naturals has a smallest element, and a bounded one a  *)
(* largest.                                                                *)
LEMMA LeastNat ==
    ASSUME NEW T \in SUBSET Nat, T # {}
    PROVE  \E m \in T : \A k \in T : m <= k
  <1> DEFINE R == {ss \in Nat \X Nat : ss[1] < ss[2]}
  <1>1. IsWellFoundedOn(R, Nat)
    BY NatLessThanWellFounded DEF OpToRel
  <1> HIDE DEF R
  <1>2. PICK m \in T : \A k \in T : ~(<<k, m>> \in R)
    BY <1>1, WFMin
  <1>3. \A k \in T : ~(k < m)
    BY <1>2 DEF R
  <1> QED
    BY <1>3

LEMMA MinFacts ==
    ASSUME NEW T \in SUBSET Nat, T # {}
    PROVE  Min(T) \in T /\ \A k \in T : Min(T) <= k
  BY LeastNat DEF Min

LEMMA MaxFacts ==
    ASSUME NEW n \in Nat, NEW T \in SUBSET (0..n), T # {}
    PROVE  Max(T) \in T /\ \A k \in T : Max(T) >= k
  <1> DEFINE D == {n - k : k \in T}
  <1>1. D \in SUBSET Nat /\ D # {}
    <2>1. \A k \in T : n - k \in Nat
      OBVIOUS
    <2>2. PICK k \in T : TRUE
      OBVIOUS
    <2>3. n - k \in D
      BY <2>2
    <2> QED
      BY <2>1, <2>3
  <1>2. PICK d \in D : \A e \in D : d <= e
    BY <1>1, LeastNat
  <1>3. PICK m \in T : d = n - m
    BY <1>2
  <1>4. ASSUME NEW k \in T PROVE m >= k
    <2>1. n - m <= n - k
      BY <1>2, <1>3
    <2> QED
      BY <2>1
  <1> QED
    BY <1>4 DEF Max

(* A part of a line: consecutive words of it. *)
Part(words, line) ==
    /\ words \in Seq(STRING)
    /\ \E k \in Nat : \A i \in 1..Len(words) : k + i <= Len(line) /\ words[i] = line[k + i]

LEMMA PartOfPart ==
    ASSUME NEW line, NEW s, Part(s, line), NEW m \in Nat \ {0}, NEW n \in 0..Len(s)
    PROVE  Part(SubSeq(s, m, n), line)
  <1> DEFINE t == SubSeq(s, m, n)
  <1>1. s \in Seq(STRING) /\ Len(s) \in Nat
    BY DEF Part
  <1>2. PICK k \in Nat : \A i \in 1..Len(s) : k + i <= Len(line) /\ s[i] = line[k + i]
    BY DEF Part
  <1>3. CASE m <= n
    <2>1. /\ t \in Seq(STRING) /\ Len(t) = n - m + 1
          /\ \A i \in 1..Len(t) : t[i] = s[i + m - 1]
      BY <1>1, <1>3
    <2> HIDE DEF t
    <2> DEFINE j == k + (m - 1)
    <2>2. j \in Nat
      OBVIOUS
    <2>3. ASSUME NEW i \in 1..Len(t) PROVE j + i <= Len(line) /\ t[i] = line[j + i]
      <3>1. i + m - 1 \in 1..Len(s) /\ j + i = k + (i + m - 1)
        BY <1>1, <1>3, <2>1
      <3> QED
        BY <1>2, <2>1, <3>1
    <2> HIDE DEF j
    <2>4. Part(t, line)
      BY <2>1, <2>2, <2>3 DEF Part
    <2> QED
      BY <2>4 DEF t
  <1>4. CASE m > n
    <2>1. t = <<>>
      BY <1>1, <1>4
    <2> QED
      BY <2>1 DEF Part
  <1> QED
    BY <1>1, <1>3, <1>4

(* The words from the first that is no separator. *)
LEMMA AvFacts ==
    ASSUME NEW line, Part(rest, line)
    PROVE  Part(av, line) /\ av \in Seq(STRING)
  <1> DEFINE T == {Len(rest) + 1} \cup {i \in DOMAIN rest : ~ISSEP(rest[i])}
  <1>1. rest \in Seq(STRING) /\ Len(rest) \in Nat /\ DOMAIN rest = 1..Len(rest)
    BY DEF Part
  <1>2. T \in SUBSET Nat /\ T # {} /\ 0 \notin T
    BY <1>1
  <1>3. Min(T) \in Nat \ {0}
    <2> HIDE DEF T
    <2> QED
      BY <1>2, MinFacts
  <1>4. Part(SubSeq(rest, Min(T), Len(rest)), line)
    <2> HIDE DEF T
    <2>1. Len(rest) \in 0..Len(rest)
      BY <1>1
    <2> QED
      BY <1>3, <2>1, PartOfPart
  <1> QED
    BY <1>4 DEF av, Part

(* The words of a command: at least its name, no separator. *)
LEMMA PlinkFacts ==
    ASSUME NEW line, Part(rest, line), av # <<>>, ~ISSEP(av[1]), NEW maxi \in Nat \ {0}
    PROVE  /\ Part(plink(maxi), line) /\ Len(plink(maxi)) \in 1..maxi
           /\ plink(maxi)[1] = av[1]
           /\ \A i \in 1..Len(plink(maxi)) : ~ISSEP(plink(maxi)[i])
  <1> DEFINE Sep == {j \in DOMAIN av : ISSEP(av[j])}
             T == {maxi, Len(av)} \cup {i - 1 : i \in Sep}
             n == Min(T)
             w == SubSeq(av, 1, n)
  <1>1. /\ Part(av, line) /\ av \in Seq(STRING) /\ Len(av) \in Nat \ {0}
        /\ DOMAIN av = 1..Len(av)
    BY AvFacts
  <1>2. T \in SUBSET (Nat \ {0}) /\ maxi \in T /\ Len(av) \in T
    BY <1>1
  <1>3. n \in T /\ \A k \in T : n <= k
    <2> HIDE DEF T
    <2> QED
      BY <1>2, MinFacts
  <1>4. n \in 1..maxi /\ n \in 0..Len(av) /\ n <= Len(av)
    <2> HIDE DEF T, n
    <2> QED
      BY <1>1, <1>2, <1>3
  <1>5. ASSUME NEW i \in 1..n PROVE i \in DOMAIN av /\ ~ISSEP(av[i])
    <2>1. i \in DOMAIN av
      BY <1>1, <1>4
    <2>2. SUFFICES ASSUME ISSEP(av[i]) PROVE FALSE
      BY <2>1
    <2>3. i - 1 \in T
      BY <2>1, <2>2
    <2>4. n <= i - 1
      BY <1>3, <2>3
    <2> HIDE DEF n
    <2> QED
      BY <1>4, <2>4
  <1>6. plink(maxi) = w
    BY DEF plink
  <1> HIDE DEF n
  <1>7. w \in Seq(STRING) /\ Len(w) = n /\ \A i \in 1..n : w[i] = av[i]
    BY <1>1, <1>4
  <1>8. Part(w, line)
    BY <1>1, <1>4, PartOfPart
  <1> HIDE DEF w
  <1> QED
    BY <1>4, <1>5, <1>6, <1>7, <1>8

(* A command that calls the library: a setter gives a setting, any other   *)
(* is a request of its own.                                                *)
GoodCommand(words) ==
    /\ words \in Seq(STRING) /\ words # <<>> /\ words[1] \in DOMAIN Argc \ {"reset"}
    /\ request(words) \in Requests
    /\ words[1] \in Setters => request(words) \in Settings
    /\ words[1] \notin Setters => request(words) = words[1]

(* The words that are left are a part of the line. *)
LineOK == meant \in Inputs /\ Part(rest, FlattenSeq(meant))

LEMMA PartIsCut ==
    ASSUME NEW line \in Seq(STRING), NEW w, Part(w, line), w # <<>>
    PROVE  \E i \in 1..Len(line) : \E j \in i..Len(line) : w = SubSeq(line, i, j)
  <1>1. w \in Seq(STRING) /\ Len(w) \in Nat \ {0}
    BY DEF Part
  <1>2. PICK k \in Nat : \A i \in 1..Len(w) : k + i <= Len(line) /\ w[i] = line[k + i]
    BY DEF Part
  <1>3. k + 1 \in 1..Len(line) /\ k + Len(w) \in (k + 1)..Len(line)
    BY <1>1, <1>2
  <1> DEFINE t == SubSeq(line, k + 1, k + Len(w))
  <1>4. t \in Seq(STRING) /\ Len(t) = Len(w) /\ \A i \in 1..Len(w) : t[i] = line[k + i]
    BY <1>1, <1>3
  <1>5. t = w
    <2> HIDE DEF t
    <2> QED
      BY <1>1, <1>2, <1>4
  <1> QED
    BY <1>3, <1>5

LEMMA CommandFacts ==
    ASSUME LineOK, Has(DOMAIN Argc)
    PROVE  /\ Command \in Seq(STRING) /\ Command # <<>> /\ Command[1] = av[1]
           /\ Len(Command) \in 1..Argc[av[1]]
           /\ Valid(Command) /\ av[1] # "reset" => GoodCommand(Command)
  <1> DEFINE line == FlattenSeq(meant)
             w == Command
  <1>1. av # <<>> /\ av[1] \in DOMAIN Argc /\ Part(rest, line) /\ meant \in Inputs
    BY DEF Has, LineOK
  <1>2. ~ISSEP(av[1]) /\ Argc[av[1]] \in Nat \ {0}
    <2>1. ~ISSEP(av[1])
      BY <1>1, Zenon DEF Argc, ISSEP
    <2>2. \A x \in DOMAIN Argc : Argc[x] \in Nat \ {0}
      BY DEF Argc
    <2> QED
      BY <1>1, <2>1, <2>2
  <1>3. /\ Part(w, line) /\ Len(w) \in 1..Argc[av[1]] /\ w[1] = av[1]
        /\ \A i \in 1..Len(w) : ~ISSEP(w[i])
    <2> HIDE DEF line
    <2> QED
      BY <1>1, <1>2, PlinkFacts DEF Command
  <1> HIDE DEF w
  <1>4. w \in Seq(STRING) /\ w # <<>> /\ DOMAIN w = 1..Len(w)
    BY <1>2, <1>3 DEF Part
  <1>5. ASSUME Valid(w), w[1] \in Setters PROVE w \in DOMAIN SettingOf
    <2>1. line \in Seq(STRING)
      BY <1>1, LineAssumption
    <2>2. PICK i \in 1..Len(line) : \E j \in i..Len(line) : w = SubSeq(line, i, j)
      <3> HIDE DEF line
      <3> QED
        BY <1>3, <1>4, <2>1, PartIsCut
    <2>3. PICK j \in i..Len(line) : w = SubSeq(line, i, j)
      BY <2>2
    <2>4. /\ SubSeq(line, i, j)[1] \in Setters /\ Valid(SubSeq(line, i, j))
          /\ \A k \in DOMAIN SubSeq(line, i, j) : ~ISSEP(SubSeq(line, i, j)[k])
      BY <1>3, <1>4, <1>5, <2>3
    <2> QED
      BY <1>1, <2>3, <2>4, LineAssumption, Zenon
  <1>6. ASSUME Valid(w), av[1] # "reset" PROVE GoodCommand(w)
    <2>1. CASE w[1] \in Setters
      <3>1. request(w) \in Settings
        BY <1>5, <1>6, <2>1, CmdAssumption DEF request
      <3> QED
        BY <1>1, <1>3, <1>4, <1>6, <2>1, <3>1 DEF GoodCommand, Requests
    <2>2. CASE w[1] \notin Setters
      <3>1. request(w) = w[1]
        BY <2>2 DEF request
      <3>2. w[1] \in Actions \cup {"clear", "display", "log"}
        BY <1>1, <1>3, <1>6, <2>2 DEF Argc, Setters, Actions
      <3> QED
        BY <1>1, <1>3, <1>4, <1>6, <2>2, <3>1, <3>2 DEF GoodCommand, Requests
    <2> QED
      BY <2>1, <2>2
  <1> QED
    BY <1>3, <1>4, <1>6 DEF w

-----------------------------------------------------------------------------
(* What a trace says. *)

IsTrace(t) == \E T : t \in Seq(T)

(* The commands before the i-th that set something since the last that     *)
(* forgets, and their settings: SaidBefore without its maximum.            *)
Since(t, i) ==
    {j \in 1..i - 1 : /\ t[j].words[1] \in Setters /\ ~Unsent(t[j])
                      /\ \A k \in 1..i - 1 : IsForget(t[k]) => k < j}
SaidIn(t, i) == {request(t[j].words) : j \in Since(t, i)}

LEMMA SaidBeforeIs ==
    ASSUME NEW i \in Nat \ {0}
    PROVE  SaidBefore(i) = SaidIn(trace, i)
  <1> DEFINE forgets == {j \in 1..i - 1 : IsForget(trace[j])}
             T == {0} \cup forgets
             m == Max(T)
             said == {j \in m + 1..i - 1 : trace[j].words[1] \in Setters /\ ~Unsent(trace[j])}
  <1>1. i - 1 \in Nat /\ T \in SUBSET (0..(i - 1)) /\ T # {}
    OBVIOUS
  <1>2. m \in T /\ \A k \in T : m >= k
    <2> HIDE DEF T
    <2> QED
      BY <1>1, MaxFacts
  <1>3. m \in 0..(i - 1)
    <2> HIDE DEF T, m
    <2> QED
      BY <1>1, <1>2
  <1>4. ASSUME NEW j \in 1..i - 1
        PROVE  j \in m + 1..i - 1 <=> \A k \in 1..i - 1 : IsForget(trace[k]) => k < j
    <2>1. ASSUME j \in m + 1..i - 1, NEW k \in 1..i - 1, IsForget(trace[k]) PROVE k < j
      <3>1. m >= k
        BY <1>2, <2>1
      <3> HIDE DEF m
      <3> QED
        BY <1>3, <2>1, <3>1
    <2>2. ASSUME \A k \in 1..i - 1 : IsForget(trace[k]) => k < j PROVE j \in m + 1..i - 1
      <3>1. m = 0 \/ m < j
        BY <1>2, <2>2
      <3> HIDE DEF m
      <3> QED
        BY <1>3, <3>1
    <2> QED
      BY <2>1, <2>2
  <1>5. m + 1..i - 1 \subseteq 1..i - 1
    <2> HIDE DEF m
    <2> QED
      BY <1>3
  <1>6. said = Since(trace, i)
    <2> HIDE DEF m
    <2> QED
      BY <1>4, <1>5 DEF Since
  <1>7. SaidBefore(i) = {request(trace[j].words) : j \in said}
    BY DEF SaidBefore
  <1> QED
    BY <1>6, <1>7 DEF SaidIn

(* One more command. *)
LEMMA SaidAppend ==
    ASSUME NEW T, NEW t \in Seq(T), NEW e
    PROVE  LET u == Append(t, e)
               S == SaidIn(t, Len(t) + 1)
           IN  /\ \A i \in 1..Len(t) + 1 : SaidIn(u, i) = SaidIn(t, i)
               /\ IsForget(e) /\ e.words[1] \notin Setters => SaidIn(u, Len(u) + 1) = {}
               /\ ~IsForget(e) /\ (e.words[1] \notin Setters \/ Unsent(e)) =>
                    SaidIn(u, Len(u) + 1) = S
               /\ ~IsForget(e) /\ e.words[1] \in Setters /\ ~Unsent(e) =>
                    SaidIn(u, Len(u) + 1) = S \cup {request(e.words)}
  <1> DEFINE u == Append(t, e)
             n == Len(t)
             S == SaidIn(t, n + 1)
  <1>1. /\ n \in Nat /\ Len(u) = n + 1 /\ u[n + 1] = e
        /\ \A j \in 1..n : u[j] = t[j]
    OBVIOUS
  <1> HIDE DEF u, n
  <1>2. ASSUME NEW i \in 1..n + 1 PROVE SaidIn(u, i) = SaidIn(t, i)
    <2>1. \A j \in 1..i - 1 : u[j] = t[j]
      BY <1>1
    <2>2. Since(u, i) = Since(t, i) /\ Since(t, i) \subseteq 1..i - 1
      BY <2>1 DEF Since
    <2> QED
      BY <2>1, <2>2 DEF SaidIn
  <1>3. Since(t, n + 1) \subseteq 1..n
    BY <1>1 DEF Since
  <1>4. n + 2 - 1 = n + 1 /\ n + 1 - 1 = n /\ Len(u) + 1 = n + 2
    BY <1>1
  <1>5. \A j \in 1..n + 1 : j \in 1..n \/ j = n + 1
    BY <1>1
  <1>6. ASSUME IsForget(e), e.words[1] \notin Setters PROVE SaidIn(u, n + 2) = {}
    <2>1. SUFFICES Since(u, n + 2) = {}
      BY DEF SaidIn
    <2>2. SUFFICES ASSUME NEW j \in Since(u, n + 2) PROVE FALSE
      OBVIOUS
    <2>3. j \in 1..n + 1 /\ u[j].words[1] \in Setters /\ n + 1 < j
      BY <1>1, <1>4, <1>6, <2>2 DEF Since
    <2> QED
      BY <1>1, <2>3
  <1>7. ASSUME ~IsForget(e), NEW j \in 1..n
        PROVE  j \in Since(u, n + 2) <=> j \in Since(t, n + 1)
    <2>1. \A k \in 1..n + 1 : IsForget(u[k]) => k \in 1..n
      BY <1>1, <1>5, <1>7
    <2>2. 1..n \subseteq 1..n + 1
      BY <1>1
    <2> QED
      BY <1>1, <1>4, <2>1, <2>2 DEF Since
  <1>8. ASSUME ~IsForget(e), e.words[1] \notin Setters \/ Unsent(e)
        PROVE  SaidIn(u, n + 2) = S
    <2>1. n + 1 \notin Since(u, n + 2)
      BY <1>1, <1>8 DEF Since
    <2>2. Since(u, n + 2) \subseteq 1..n + 1
      BY <1>1, <1>4 DEF Since
    <2>3. Since(u, n + 2) = Since(t, n + 1)
      BY <1>3, <1>5, <1>7, <1>8, <2>1, <2>2
    <2> QED
      BY <1>1, <1>3, <2>3 DEF SaidIn
  <1>9. ASSUME ~IsForget(e), e.words[1] \in Setters, ~Unsent(e)
        PROVE  SaidIn(u, n + 2) = S \cup {request(e.words)}
    <2>1. \A k \in 1..n + 1 : IsForget(u[k]) => k < n + 1
      BY <1>1, <1>5, <1>9
    <2>2. n + 1 \in Since(u, n + 2)
      BY <1>1, <1>4, <1>9, <2>1 DEF Since
    <2>3. Since(u, n + 2) \subseteq 1..n + 1
      BY <1>1, <1>4 DEF Since
    <2>4. Since(u, n + 2) = Since(t, n + 1) \cup {n + 1}
      BY <1>3, <1>5, <1>7, <1>9, <2>2, <2>3
    <2> QED
      BY <1>1, <1>3, <2>4 DEF SaidIn
  <1> QED
    BY <1>2, <1>4, <1>6, <1>8, <1>9 DEF u, n

-----------------------------------------------------------------------------
(* The inductive invariant of the program. *)

(* What the commands executed so far said. *)
Said == SaidIn(trace, Len(trace) + 1)

(* Between two commands and during one. *)
CallOK ==
    /\ current = <<>> => call.pc = "idle" /\ (acked = Said \/ Doomed)
    /\ current # <<>> => GoodCommand(current)
    /\ current # <<>> /\ call.pc # "idle" => call.req = request(current) /\ Track(Said)
    /\ current # <<>> /\ call.pc = "idle" => Returned(Said, request(current))

(* ActionIsWhole, without its maximum. *)
Whole ==
    \A i \in 1..Len(trace) :
        trace[i].words[1] \in Actions /\ trace[i].rc = "ok" /\ trace[i].faults = 0
            => trace[i].profile = SaidIn(trace, i)

CmdInv ==
    /\ IInv /\ IsTrace(trace) /\ Whole
    /\ code = "none" => LineOK /\ CallOK

(* One more command in the trace. *)
LEMMA LogFacts ==
    ASSUME IsTrace(trace), Whole, NEW words, NEW rc, NEW profile, Log(words, rc, profile),
           words[1] \in Actions /\ rc = "ok" /\ faults = 0 => profile = Said
    PROVE  LET e == [words |-> words, rc |-> rc, profile |-> profile, faults |-> faults]
           IN  /\ IsTrace(trace)' /\ Whole'
               /\ IsForget(e) /\ words[1] \notin Setters => Said' = {}
               /\ ~IsForget(e) /\ (words[1] \notin Setters \/ Unsent(e)) => Said' = Said
               /\ ~IsForget(e) /\ words[1] \in Setters /\ ~Unsent(e) =>
                    Said' = Said \cup {request(words)}
  <1> DEFINE e == [words |-> words, rc |-> rc, profile |-> profile, faults |-> faults]
             n == Len(trace)
  <1>1. PICK T : trace \in Seq(T)
    BY DEF IsTrace
  <1>2. /\ trace' = Append(trace, e) /\ e.words = words /\ e.rc = rc
        /\ e.profile = profile /\ e.faults = faults
    BY DEF Log
  <1>3. /\ \A i \in 1..n + 1 : SaidIn(Append(trace, e), i) = SaidIn(trace, i)
        /\ IsForget(e) /\ e.words[1] \notin Setters =>
             SaidIn(Append(trace, e), Len(Append(trace, e)) + 1) = {}
        /\ ~IsForget(e) /\ (e.words[1] \notin Setters \/ Unsent(e)) =>
             SaidIn(Append(trace, e), Len(Append(trace, e)) + 1) = Said
        /\ ~IsForget(e) /\ e.words[1] \in Setters /\ ~Unsent(e) =>
             SaidIn(Append(trace, e), Len(Append(trace, e)) + 1) = Said \cup {request(e.words)}
    <2> HIDE DEF e
    <2> QED
      BY <1>1, SaidAppend DEF Said
  <1> HIDE DEF e
  <1>4. Said' = SaidIn(Append(trace, e), Len(Append(trace, e)) + 1)
    BY <1>2 DEF Said
  <1>5. IsTrace(trace)'
    <2>1. Append(trace, e) \in Seq(T \cup {e})
      <3>1. trace \in Seq(T \cup {e})
        BY <1>1
      <3> QED
        BY <3>1
    <2> QED
      BY <1>2, <2>1 DEF IsTrace
  <1>6. /\ n \in Nat /\ Len(trace') = n + 1 /\ trace'[n + 1] = e
        /\ \A j \in 1..n : trace'[j] = trace[j]
    BY <1>1, <1>2
  <1>7. Whole'
    <2> SUFFICES ASSUME NEW i \in 1..n + 1, trace'[i].words[1] \in Actions,
                        trace'[i].rc = "ok", trace'[i].faults = 0
                 PROVE  trace'[i].profile = SaidIn(trace', i)
      BY <1>6 DEF Whole
    <2>1. SaidIn(trace', i) = SaidIn(trace, i)
      BY <1>2, <1>3
    <2>2. CASE i = n + 1
      BY <1>2, <1>6, <2>1, <2>2 DEF Said
    <2>3. CASE i \in 1..n
      BY <1>6, <2>1, <2>3 DEF Whole
    <2> QED
      BY <1>6, <2>2, <2>3
  <1> QED
    BY <1>2, <1>3, <1>4, <1>5, <1>7 DEF e

(* What is left of a line after some words. *)
LEMMA RestOfLine ==
    ASSUME LineOK, NEW used \in Nat, meant' = meant,
           rest' = SubSeq(rest, used + 1, Len(rest))
    PROVE  LineOK'
  <1> DEFINE line == FlattenSeq(meant)
  <1>1. Part(rest, line) /\ Len(rest) \in 0..Len(rest) /\ used + 1 \in Nat \ {0}
    <2>1. Part(rest, line)
      BY DEF LineOK
    <2>2. rest \in Seq(STRING)
      BY <2>1 DEF Part
    <2> QED
      BY <2>1, <2>2
  <1>2. Part(SubSeq(rest, used + 1, Len(rest)), line)
    <2> HIDE DEF line
    <2> QED
      BY <1>1, PartOfPart
  <1> QED
    BY <1>2 DEF LineOK

(* The end of a command: the program leaves or goes on. *)
LEMMA Advances ==
    ASSUME CmdInv, code = "none", call.pc = "idle", NEW used \in Nat, NEW status,
           do_all(used, status), IsTrace(trace)', Whole', acked = Said' \/ Doomed
    PROVE  CmdInv'
  <1>1. LineOK /\ IInv
    BY DEF CmdInv
  <1>2. CASE _exit_("failure")
    <2>1. [Next]_vars /\ code' # "none"
      BY <1>2 DEF _exit_, Next, Application
    <2>2. IInv'
      BY <1>1, <2>1, NextIInv
    <2> QED
      BY <2>1, <2>2 DEF CmdInv
  <1>3. CASE /\ rest' = SubSeq(rest, used + 1, Len(rest)) /\ current' = <<>>
             /\ UNCHANGED <<vars, meant, quit, code>>
    <2>1. LineOK'
      BY <1>1, <1>3, RestOfLine
    <2>2. IInv'
      BY <1>1, <1>3, NextIInv
    <2>3. call' = call /\ acked' = acked /\ Doomed' = Doomed
      BY <1>3 DEF vars, Doomed
    <2>4. CallOK'
      BY <1>3, <2>3 DEF CallOK
    <2> QED
      BY <2>1, <2>2, <2>4 DEF CmdInv
  <1> QED
    BY <1>2, <1>3 DEF do_all

(* A command that is not executed. *)
LEMMA IdleStep ==
    ASSUME CmdInv, main_ends \/ do_nothing \/ do_log_bad \/ do_quit \/ do_help \/ unknown_command
    PROVE  CmdInv'
  <1>1. /\ code = "none" /\ current = <<>> /\ trace' = trace
        /\ IsTrace(trace)' /\ Whole' /\ Said' = Said
    BY DEF CmdInv, main_ends, do_nothing, do_log_bad, do_quit, do_help, unknown_command,
           Has, Running, IsTrace, Whole, Said
  <1>2. /\ IInv /\ LineOK /\ call.pc = "idle" /\ (acked = Said' \/ Doomed)
    BY <1>1 DEF CmdInv, CallOK
  <1>3. CASE main_ends \/ do_quit
    <2>1. [Next]_vars /\ code' # "none"
      BY <1>3 DEF main_ends, do_quit, _exit_, Next, Application
    <2>2. IInv'
      BY <1>2, <2>1, NextIInv
    <2> QED
      BY <1>1, <2>1, <2>2 DEF CmdInv
  <1>4. ASSUME NEW used \in Nat, NEW status, do_all(used, status)
        PROVE  CmdInv'
    BY <1>1, <1>2, <1>4, Advances
  <1>5. CASE do_nothing
    BY <1>4, <1>5 DEF do_nothing
  <1>6. CASE do_log_bad
    <2>1. Has(DOMAIN Argc)
      BY <1>6 DEF do_log_bad, Has, Argc
    <2>2. Len(Command) \in Nat
      BY <1>2, <2>1, CommandFacts
    <2> QED
      BY <1>4, <1>6, <2>2 DEF do_log_bad
  <1>7. CASE do_help
    <2> DEFINE used == IF Len(av) > 1 /\ av[2] \in Topics THEN 2 ELSE 1
    <2>1. used \in Nat /\ do_all(used, "ok")
      BY <1>7 DEF do_help
    <2> HIDE DEF used
    <2> QED
      BY <1>4, <2>1
  <1>8. CASE unknown_command
    BY <1>4, <1>8 DEF unknown_command
  <1> QED
    BY <1>3, <1>5, <1>6, <1>7, <1>8

(* A call of the library begins. *)
LEMMA CallBegins ==
    ASSUME CmdInv, do_call
    PROVE  CmdInv'
  <1>1. /\ code = "none" /\ current = <<>> /\ IInv /\ LineOK /\ call.pc = "idle"
        /\ acked = Said \/ Doomed
    BY DEF do_call, Has, Running, CmdInv, CallOK
  <1>2. GoodCommand(Command)
    BY <1>1, CommandFacts DEF do_call, Has
  <1>3. IInv'
    <2>1. request(Command) \in Requests /\ sync_process(request(Command))
      BY <1>2 DEF GoodCommand, do_call
    <2>2. Next
      BY <2>1 DEF Next, Application
    <2> QED
      BY <1>1, <2>2, NextIInv
  <1>4. /\ current' = Command /\ call'.pc = "open" /\ call'.req = request(Command)
        /\ acked' = acked /\ Doomed' = Doomed /\ Said' = Said
        /\ code' = code /\ trace' = trace
        /\ meant' = meant /\ rest' = rest
    BY DEF do_call, sync_process, daemonvars, linkvars, Doomed, Said
  <1>5. Track(Said)'
    BY <1>1, <1>4 DEF Track
  <1> DEFINE w == Command
  <1>6. GoodCommand(w) /\ current' = w /\ call'.req = request(w)
    BY <1>2, <1>4
  <1> HIDE DEF w
  <1>7. CallOK'
    BY <1>4, <1>5, <1>6 DEF CallOK, GoodCommand, request
  <1>8. IsTrace(trace)' /\ Whole' /\ LineOK'
    BY <1>1, <1>4 DEF CmdInv, IsTrace, Whole, LineOK
  <1> QED
    BY <1>3, <1>7, <1>8 DEF CmdInv

(* A call has returned: what the program has said follows from its status. *)
LEMMA StatusStep ==
    ASSUME CmdInv, show_status
    PROVE  CmdInv'
  <1> DEFINE rc == result.rc
             e == [words |-> current, rc |-> rc, profile |-> result.profile, faults |-> faults]
             status == IF rc = "ok" THEN "ok" ELSE "error"
  <1>1. /\ code = "none" /\ current # <<>> /\ call.pc = "idle"
        /\ Log(current, rc, result.profile) /\ do_all(Len(current), status)
    BY DEF show_status
  <1>2. /\ GoodCommand(current) /\ Returned(Said, request(current))
        /\ IsTrace(trace) /\ Whole /\ IInv
    BY <1>1 DEF CmdInv, CallOK
  <1>3. e.words = current /\ e.rc = rc
    OBVIOUS
  <1>4. current[1] \in Actions => current[1] \notin Setters
    BY DEF Actions, Setters
  <1>5. current[1] \in Actions /\ rc = "ok" /\ faults = 0 => result.profile = Said
    BY <1>2, <1>4 DEF GoodCommand, Returned, IInv, Steady, Applied
  <1>6. /\ IsTrace(trace)' /\ Whole'
        /\ IsForget(e) /\ current[1] \notin Setters => Said' = {}
        /\ ~IsForget(e) /\ (current[1] \notin Setters \/ Unsent(e)) => Said' = Said
        /\ ~IsForget(e) /\ current[1] \in Setters /\ ~Unsent(e) =>
             Said' = Said \cup {request(current)}
    BY <1>1, <1>2, <1>5, LogFacts
  <1> HIDE DEF e
  <1>7. /\ IsForget(e) <=> current[1] = "clear" /\ rc = "ok"
        /\ Unsent(e) <=> rc \in {"EINVAL", "EMSGSIZE", "errno"}
    BY <1>2, <1>3 DEF IsForget, Unsent, GoodCommand
  <1>8. NowSaid(Said, request(current), rc) = Said'
    <2>1. CASE current[1] \in Setters
      <3>1. request(current) \in Settings /\ request(current) # "clear" /\ current[1] # "clear"
        BY <1>2, <2>1, ClientAssumption DEF GoodCommand, Setters
      <3> QED
        BY <1>6, <1>7, <2>1, <3>1 DEF NowSaid
    <2>2. CASE current[1] \notin Setters
      <3>1. /\ request(current) = current[1]
            /\ current[1] \in Actions \cup {"clear", "display", "log"}
        BY <1>2, <2>2 DEF GoodCommand, Setters, Actions, Argc
      <3>2. current[1] \notin Settings
        BY <3>1, ClientAssumption
      <3> QED
        BY <1>6, <1>7, <2>2, <3>1, <3>2 DEF NowSaid
    <2> QED
      BY <2>1, <2>2
  <1>9. acked = Said' \/ Doomed
    BY <1>2, <1>8 DEF Returned
  <1>10. Len(current) \in Nat
    BY <1>2 DEF GoodCommand
  <1> HIDE DEF status
  <1> QED
    BY <1>1, <1>6, <1>9, <1>10, Advances

(* A command without its arguments; it is one that sets something. *)
LEMMA RefusedStep ==
    ASSUME CmdInv, not_enough_arguments
    PROVE  CmdInv'
  <1> DEFINE w == Command
             e == [words |-> w, rc |-> "EINVAL", profile |-> {}, faults |-> faults]
  <1>1. /\ code = "none" /\ current = <<>> /\ Has(DOMAIN Argc) /\ ~Valid(w)
        /\ Log(w, "EINVAL", {}) /\ do_all(Len(w), "error") /\ av[1] # "log"
    BY DEF not_enough_arguments, Has, Running
  <1>2. /\ call.pc = "idle" /\ (acked = Said \/ Doomed) /\ LineOK
        /\ IsTrace(trace) /\ Whole
    BY <1>1 DEF CmdInv, CallOK
  <1>3. w \in Seq(STRING) /\ w # <<>> /\ w[1] = av[1] /\ Len(w) \in 1..Argc[av[1]]
    BY <1>1, <1>2, CommandFacts
  <1> HIDE DEF w
  <1>4. w[1] # "reset"
    <2> SUFFICES ASSUME w[1] = "reset" PROVE FALSE
      OBVIOUS
    <2>1. Argc[w[1]] = 1
      BY DEF Argc
    <2>2. Len(w) = 1
      BY <1>3, <2>1
    <2> QED
      BY <1>1, <2>1, <2>2 DEF Valid, Setters
  <1>5. e.words = w /\ e.rc = "EINVAL"
    OBVIOUS
  <1>6. /\ IsTrace(trace)' /\ Whole'
        /\ ~IsForget(e) /\ (w[1] \notin Setters \/ Unsent(e)) => Said' = Said
    BY <1>1, <1>2, LogFacts
  <1> HIDE DEF e
  <1>7. Said' = Said
    BY <1>4, <1>5, <1>6 DEF IsForget, Unsent
  <1>8. Len(w) \in Nat
    BY <1>3
  <1> QED
    BY <1>1, <1>2, <1>6, <1>7, <1>8, Advances

(* A reset forgets on both sides. *)
LEMMA ResetStep ==
    ASSUME CmdInv, do_reset
    PROVE  CmdInv'
  <1> DEFINE w == Command
             e == [words |-> w, rc |-> "ok", profile |-> {}, faults |-> faults]
  <1>1. /\ code = "none" /\ current = <<>> /\ rest # <<>> /\ Has(DOMAIN Argc)
        /\ av[1] = "reset" /\ Log(w, "ok", {})
        /\ sec_lsm_manager_disconnect /\ rest' = Tail(rest)
        /\ UNCHANGED <<meant, quit, current, code>>
    BY DEF do_reset, Has, Running, Argc
  <1>2. call.pc = "idle" /\ LineOK /\ IsTrace(trace) /\ Whole /\ IInv
    BY <1>1 DEF CmdInv, CallOK
  <1>3. w[1] = "reset"
    BY <1>1, <1>2, CommandFacts
  <1> HIDE DEF w
  <1>4. w[1] \notin Actions /\ w[1] \notin Setters
    BY <1>3 DEF Actions, Setters
  <1>5. e.words = w
    OBVIOUS
  <1>6. /\ IsTrace(trace)' /\ Whole'
        /\ IsForget(e) /\ w[1] \notin Setters => Said' = {}
    BY <1>1, <1>2, <1>4, LogFacts
  <1> HIDE DEF e
  <1>7. Said' = {}
    BY <1>3, <1>4, <1>5, <1>6 DEF IsForget
  <1>8. IInv'
    <2>1. Next
      BY <1>1 DEF Next, Application
    <2> QED
      BY <1>2, <2>1, NextIInv
  <1>9. LineOK'
    <2>1. rest \in Seq(STRING)
      BY <1>2 DEF LineOK, Part
    <2>2. Tail(rest) = SubSeq(rest, 1 + 1, Len(rest))
      BY <1>1, <2>1
    <2> QED
      BY <1>1, <1>2, <2>2, RestOfLine
  <1>10. CallOK'
    BY <1>1, <1>2, <1>7 DEF sec_lsm_manager_disconnect, CallOK
  <1> QED
    BY <1>6, <1>8, <1>9, <1>10 DEF CmdInv

(* A step of the library, during a command. *)
LEMMA DuringCall ==
    ASSUME CmdInv, LibraryStep \/ FailureStep
    PROVE  CmdInv'
  <1>1. (Library \/ Failure) /\ UNCHANGED cmdvars /\ IInv /\ Sure
    BY DEF LibraryStep, FailureStep, CmdInv, IInv
  <1>2. IInv'
    BY <1>1, NextIInv DEF Next
  <1>3. /\ IsTrace(trace)' /\ Whole' /\ (code' = "none" => code = "none")
        /\ Said' = Said /\ current' = current /\ LineOK' = LineOK
        /\ GoodCommand(current)' = GoodCommand(current)
    BY <1>1 DEF cmdvars, CmdInv, IsTrace, Whole, Said, LineOK, GoodCommand, request
  <1>4. ASSUME code = "none" PROVE CallOK'
    <2>1. call.pc # "idle"
      BY <1>1 DEF Library, connection_failing, connection, ensure_opened, send_hello,
                  send_fields, greeted, greeting_lost, wait_done_or_error,
                  wait_display_replies, callback_ends, reply_lost,
                  Failure, opening_fails, flushw_fails, wait_reply_fails
    <2>2. /\ current # <<>> /\ GoodCommand(current) /\ Track(Said)
          /\ call.req = request(current)
      BY <1>4, <2>1 DEF CmdInv, CallOK
    <2> DEFINE req == request(current)
    <2>3. PICK S : S = Said
      OBVIOUS
    <2>4. Goes(S) /\ S = Said'
      BY <1>1, <1>3, <2>2, <2>3, TrackLibrary, TrackFailure
    <2>5. req' = req
      BY <1>3 DEF request
    <2>6. CASE call'.pc # "idle" /\ call'.req = call.req /\ Track(S)'
      BY <1>3, <2>2, <2>4, <2>5, <2>6 DEF CallOK
    <2>7. CASE Returns(S, call.req)
      <3>1. /\ call'.pc = "idle" /\ result'.req = req
            /\ acked' = NowSaid(S, req, result'.rc) \/ Doomed'
            /\ faults' = 0 /\ req \in Actions /\ result'.rc = "ok" => acked' = S
        BY <2>2, <2>7 DEF Returns
      <3>2. Returned(Said, request(current))'
        BY <1>3, <2>4, <2>5, <3>1 DEF Returned, NowSaid
      <3> QED
        BY <1>3, <2>2, <3>1, <3>2 DEF CallOK
    <2> QED
      BY <2>4, <2>6, <2>7 DEF Goes
  <1> QED
    BY <1>2, <1>3, <1>4 DEF CmdInv

(* A step of the daemon, during a command or between two. *)
LEMMA DaemonMeanwhile ==
    ASSUME CmdInv, NEW c \in Fds, DaemonStep(c)
    PROVE  CmdInv'
  <1>1. /\ onrequest(c) \/ daemon_closes(c)
        /\ UNCHANGED cmdvars /\ IInv
        /\ call' = call /\ acked' = acked /\ result' = result /\ faults' = faults
    BY DEF DaemonStep, CmdInv, onrequest, daemon_closes, appvars, linkvars
  <1>2. IInv'
    <2>1. Next
      BY <1>1 DEF Next
    <2> QED
      BY <1>1, <2>1, NextIInv
  <1>3. /\ IsTrace(trace)' /\ Whole' /\ (code' = "none" => code = "none")
        /\ Said' = Said /\ current' = current /\ LineOK' = LineOK
        /\ GoodCommand(current)' = GoodCommand(current)
        /\ request(current)' = request(current)
    BY <1>1 DEF cmdvars, CmdInv, IsTrace, Whole, Said, LineOK, GoodCommand, request
  <1>4. ASSUME NEW S, Track(S) PROVE Track(S)'
    BY <1>1, <1>4, TrackDaemon
  <1>5. ASSUME NEW S, call.pc = "idle", acked = S \/ Doomed PROVE acked = S \/ Doomed'
    <2>1. Track(S)
      BY <1>5 DEF Track
    <2>2. Track(S)'
      BY <1>4, <2>1
    <2> QED
      BY <1>1, <1>5, <2>2 DEF Track
  <1>6. ASSUME code = "none" PROVE CallOK'
    <2>1. CallOK
      BY <1>6 DEF CmdInv
    <2>2. PICK S : S = Said
      OBVIOUS
    <2>3. PICK N : N = NowSaid(Said, request(current), result.rc)
      OBVIOUS
    <2>4. CASE current = <<>>
      <3>1. call.pc = "idle" /\ (acked = S \/ Doomed)
        BY <2>1, <2>2, <2>4 DEF CallOK
      <3>2. acked = S \/ Doomed'
        BY <1>5, <3>1
      <3> QED
        BY <1>1, <1>3, <2>2, <2>4, <3>1, <3>2 DEF CallOK
    <2>5. CASE current # <<>> /\ call.pc # "idle"
      <3>1. Track(S) /\ call.req = request(current) /\ GoodCommand(current)
        BY <2>1, <2>2, <2>5 DEF CallOK
      <3>2. Track(S)'
        BY <1>4, <3>1
      <3>3. Track(Said)'
        BY <1>3, <2>2, <3>2 DEF Track
      <3> QED
        BY <1>1, <1>3, <2>5, <3>1, <3>3 DEF CallOK
    <2>6. CASE current # <<>> /\ call.pc = "idle"
      <3>1. Returned(Said, request(current)) /\ GoodCommand(current)
        BY <2>1, <2>6 DEF CallOK
      <3>2. acked = N \/ Doomed
        BY <2>3, <3>1 DEF Returned
      <3>3. acked = N \/ Doomed'
        BY <1>5, <2>6, <3>2
      <3>4. Returned(Said, request(current))'
        BY <1>1, <1>3, <2>3, <3>1, <3>3 DEF Returned, NowSaid
      <3> QED
        BY <1>1, <1>3, <2>6, <3>1, <3>4 DEF CallOK
    <2> QED
      BY <2>4, <2>5, <2>6
  <1> QED
    BY <1>2, <1>3, <1>6 DEF CmdInv

LEMMA CmdInitInv == CmdInit => CmdInv
  <1> SUFFICES ASSUME CmdInit PROVE CmdInv
    OBVIOUS
  <1>1. /\ IInv /\ meant \in Inputs /\ rest = FlattenSeq(meant) /\ current = <<>>
        /\ trace = <<>> /\ call.pc = "idle" /\ acked = {}
    BY InitIInv DEF CmdInit, Init, Idle
  <1>2. IsTrace(trace) /\ Len(trace) = 0 /\ Whole
    BY <1>1 DEF IsTrace, Whole
  <1>3. Said = {}
    BY <1>2 DEF Said, SaidIn, Since
  <1>4. LineOK
    <2> DEFINE line == FlattenSeq(meant)
    <2>1. line \in Seq(STRING)
      BY <1>1, LineAssumption
    <2> HIDE DEF line
    <2>2. Part(line, line)
      <3>1. \A i \in 1..Len(line) : 0 + i <= Len(line) /\ line[i] = line[0 + i]
        BY <2>1
      <3> QED
        BY <2>1, <3>1 DEF Part
    <2> QED
      BY <1>1, <2>2 DEF LineOK, line
  <1>5. CallOK
    BY <1>1, <1>3 DEF CallOK
  <1> QED
    BY <1>1, <1>2, <1>4, <1>5 DEF CmdInv

LEMMA CmdNextInv == CmdInv /\ [CmdNext]_allvars => CmdInv'
  <1> SUFFICES ASSUME CmdInv, [CmdNext]_allvars PROVE CmdInv'
    OBVIOUS
  <1>1. CASE Program
    BY <1>1, IdleStep, CallBegins, StatusStep, RefusedStep, ResetStep DEF Program
  <1>2. CASE LibraryStep \/ FailureStep
    BY <1>2, DuringCall
  <1>3. ASSUME NEW c \in Fds, DaemonStep(c) PROVE CmdInv'
    BY <1>3, DaemonMeanwhile
  <1>4. CASE UNCHANGED allvars
    <2>1. UNCHANGED vars /\ UNCHANGED cmdvars
      BY <1>4 DEF allvars
    <2>2. IInv'
      BY <2>1, NextIInv DEF CmdInv
    <2> QED
      BY <2>1, <2>2 DEF vars, cmdvars, CmdInv, IsTrace, Whole, LineOK, CallOK, Said, GoodCommand,
                        request, Track, Doomed, ReplyIs, Returned, NowSaid
  <1> QED
    BY <1>1, <1>2, <1>3, <1>4 DEF CmdNext

LEMMA WholeIs == IsTrace(trace) => (Whole <=> ActionIsWhole)
  <1> SUFFICES ASSUME IsTrace(trace) PROVE Whole <=> ActionIsWhole
    OBVIOUS
  <1>1. DOMAIN trace = 1..Len(trace) /\ Len(trace) \in Nat
    BY DEF IsTrace
  <1>2. \A i \in 1..Len(trace) : SaidBefore(i) = SaidIn(trace, i)
    BY <1>1, SaidBeforeIs
  <1> QED
    BY <1>1, <1>2 DEF Whole, ActionIsWhole

(* Whatever the line and whenever the daemon leaves, an install or         *)
(* uninstall command that succeeds was applied to exactly the settings     *)
(* that the line gave since its last clear or reset and that were sent, as *)
(* long as no write, poll or read failed on the live connection.           *)
THEOREM CmdActionIsWhole == CmdSpec => []ActionIsWhole
  <1>1. CmdInv => ActionIsWhole
    BY WholeIs DEF CmdInv
  <1>2. CmdSpec => []CmdInv
    BY CmdInitInv, CmdNextInv, PTL DEF CmdSpec
  <1> QED
    BY <1>1, <1>2, PTL

=============================================================================
