---------------------------- MODULE DaemonProofs ----------------------------
(***************************************************************************)
(* With which identity, capabilities and directory a daemon serves, for    *)
(* any number of daemons, any options and any depth of the path of the     *)
(* socket: the invariant of module Daemon.                                 *)
(***************************************************************************)
EXTENDS Daemon, TLAPS

-----------------------------------------------------------------------------
(* Types. *)
Caps == {"setid", "chown", "mac"}
Creds == [uid : Int, gid : Int, gids : SUBSET Int, keep : BOOLEAN,
          permitted : SUBSET Caps, effective : SUBSET Caps,
          inheritable : SUBSET Caps, ambient : SUBSET Caps]
Wants == [uid : Int, gid : Int, gids : Seq(Int)]
Users == {"root", "service", "other"}
Opts == [user : STRING, group : STRING, groups : Seq(STRING),
         socket : {"path", "abstract", "sd"}, makesockdir : BOOLEAN,
         ownsockdir : BOOLEAN, keepgoing : BOOLEAN, offline : BOOLEAN,
         shutoff : STRING]
PCs == {"ended", "failed", "main", "mkdir", "stat", "chown", "prctl", "setgroups",
        "setgid", "setuid", "caps", "ambient", "unkeep", "offline", "create", "bind",
        "listen", "serving"}
Hits == SUBSET {"unsound", "fault", "dir", "owner", "socket"}
Kinds == {None, "dir", "file", "link"}
Procs == [pc : PCs, as : Users, opt : Opts, cred : Creds, want : Wants,
          level : Int, hit : Hits]

TypeInv == proc \in [Daemons -> Procs] /\ dir \in [1..Depth -> Kinds]

-----------------------------------------------------------------------------
(* The inductive invariant. *)

(* The phases before which each part of the credentials is still that of   *)
(* the start.                                                              *)
ToGroups == {"main", "mkdir", "stat", "chown", "prctl", "setgroups"}
ToGid == ToGroups \cup {"setgid"}
ToUid == ToGid \cup {"setuid"}
Done == {"offline", "create", "bind", "listen", "serving"}
Capable == {"unkeep"} \cup Done
Limited == {"ambient"} \cup Capable
User == {"caps"} \cup Limited
Member == {"setuid"} \cup User
Grouped == {"setgid"} \cup Member

Asked(id, default) == IF id >= 0 THEN id ELSE default

Identity(d) ==
    LET p == proc[d]
        was == Started(p.as)
    IN
    /\ p.pc \in ToGroups => p.cred.gids = was.gids
    /\ p.pc \in Grouped =>
          p.cred.gids = IF p.opt.groups = NoGroups THEN was.gids
                        ELSE {p.want.gids[i] : i \in DOMAIN p.want.gids}
    /\ p.pc \in ToGid => p.cred.gid = was.gid
    /\ p.pc \in Member => p.cred.gid = Asked(p.want.gid, was.gid)
    /\ p.pc \in ToUid => p.cred.uid = was.uid
    /\ p.pc \in User => p.cred.uid = Asked(p.want.uid, was.uid)
    /\ p.pc \in Limited => /\ p.cred.effective = cap_vector
                           /\ p.cred.permitted = cap_vector
                           /\ p.cred.ambient \subseteq cap_vector
    /\ p.pc \in Capable => p.cred.ambient = cap_vector

(* The directory that a daemon was asked to own: nobody else made it since *)
(* the daemon saw it, and no other daemon gave it away.                    *)
Owns(p) == p.opt.makesockdir /\ p.opt.ownsockdir /\ p.opt.socket # "abstract"
Handed == {"prctl", "setgroups"} \cup Grouped

Ownership(d) ==
    LET p == proc[d] IN
    /\ Owns(p) /\ p.pc \in {"chown"} \cup Handed /\ "dir" \notin p.hit =>
          dir[Depth] # None
    /\ Owns(p) /\ p.pc \in Handed /\ "dir" \notin p.hit /\ "owner" \notin p.hit =>
          ~Differs(p.want.uid, owner.uid) /\ ~Differs(p.want.gid, owner.gid)

Good(d) == (~proc[d].opt.keepgoing => Identity(d)) /\ Ownership(d)

IInv == TypeInv /\ \A d \in Daemons : Good(d)

-----------------------------------------------------------------------------
(* Lemmas on the records. *)

(* A process d moves: these fields of it change and no other process does. *)
Moves(d, pc, cred, hit) ==
    /\ proc' \in [Daemons -> Procs]
    /\ proc'[d].pc = pc /\ proc'[d].cred = cred /\ proc'[d].hit = hit
    /\ proc'[d].as = proc[d].as /\ proc'[d].opt = proc[d].opt
    /\ \A e \in Daemons : e # d => proc'[e] = proc[e]

LEMMA Fields ==
    ASSUME TypeInv, NEW d \in Daemons
    PROVE  /\ proc[d].pc \in PCs /\ proc[d].as \in Users /\ proc[d].opt \in Opts
           /\ proc[d].cred \in Creds /\ proc[d].want \in Wants /\ proc[d].level \in Int
           /\ proc[d].hit \in Hits /\ proc[d] \in Procs
  BY DEF TypeInv, Procs

LEMMA MoveFacts ==
    ASSUME TypeInv, NEW d \in Daemons, NEW pc \in PCs, NEW cred \in Creds, NEW hit \in Hits
    PROVE  /\ proc' = [proc EXCEPT ![d].pc = pc] =>
                 /\ Moves(d, pc, proc[d].cred, proc[d].hit)
                 /\ proc'[d].want = proc[d].want
           /\ proc' = [proc EXCEPT ![d].cred = cred, ![d].pc = pc] =>
                 /\ Moves(d, pc, cred, proc[d].hit)
                 /\ proc'[d].want = proc[d].want
           /\ proc' = [proc EXCEPT ![d].pc = pc, ![d].hit = hit] =>
                 /\ Moves(d, pc, proc[d].cred, hit)
                 /\ proc'[d].want = proc[d].want
  <1>1. proc \in [Daemons -> Procs]
    BY DEF TypeInv
  <1>2. ASSUME proc' = [proc EXCEPT ![d].pc = pc]
        PROVE  Moves(d, pc, proc[d].cred, proc[d].hit) /\ proc'[d].want = proc[d].want
    BY <1>1, <1>2 DEF Procs, Moves
  <1>3. ASSUME proc' = [proc EXCEPT ![d].cred = cred, ![d].pc = pc]
        PROVE  Moves(d, pc, cred, proc[d].hit) /\ proc'[d].want = proc[d].want
    BY <1>1, <1>3 DEF Procs, Moves
  <1>4. ASSUME proc' = [proc EXCEPT ![d].pc = pc, ![d].hit = hit]
        PROVE  Moves(d, pc, proc[d].cred, hit) /\ proc'[d].want = proc[d].want
    BY <1>1, <1>4 DEF Procs, Moves
  <1> QED
    BY <1>2, <1>3, <1>4, Zenon

(* The credentials that a daemon starts with. *)
LEMMA StartedFacts ==
    ASSUME NEW as \in Users
    PROVE  Started(as) \in Creds
  <1>1. ASSUME NEW id \in Int, NEW caps \in SUBSET Caps
        PROVE  [uid |-> id, gid |-> id, gids |-> {id}, keep |-> FALSE,
                permitted |-> caps, effective |-> caps,
                inheritable |-> {}, ambient |-> {}] \in Creds
    BY DEF Creds
  <1>2. /\ {"setid", "chown"} \cup cap_vector \in SUBSET Caps
        /\ {"setid"} \cup cap_vector \in SUBSET Caps /\ {} \in SUBSET Caps
        /\ 0 \in Int /\ 9 \in Int
    BY DEF Caps, cap_vector
  <1>3. CASE as = "root"
    BY <1>1, <1>2, <1>3 DEF Started
  <1>4. CASE as = "service"
    BY <1>1, <1>2, <1>4 DEF Started
  <1>5. CASE as = "other"
    BY <1>1, <1>2, <1>5 DEF Started
  <1> QED
    BY <1>3, <1>4, <1>5 DEF Users

LEMMA NoProcessFacts == NoProcess \in Procs /\ NoProcess.pc = "ended"
  <1> DEFINE s == CHOOSE s \in Starts : TRUE
  <1>1. s \in Starts
    BY DaemonAssumption
  <1>2. s.as \in Users /\ s.opt \in Opts
    BY <1>1, DaemonAssumption DEF Commands, Users, Opts
  <1>3. Started(s.as) \in Creds
    BY <1>2, StartedFacts
  <1>4. [uid |-> -1, gid |-> -1, gids |-> <<>>] \in Wants
    BY DEF Wants
  <1>5. "ended" \in PCs /\ Depth \in Int /\ {} \in Hits
    BY DaemonAssumption DEF PCs, Hits
  <1> HIDE DEF s
  <1>6. NoProcess = [pc |-> "ended", as |-> s.as, opt |-> s.opt, cred |-> Started(s.as),
                     want |-> [uid |-> -1, gid |-> -1, gids |-> <<>>],
                     level |-> Depth, hit |-> {}]
    BY DEF NoProcess, s
  <1> QED
    BY <1>2, <1>3, <1>4, <1>5, <1>6 DEF Procs

(* A daemon ends. *)
LEMMA ExitFacts ==
    ASSUME TypeInv, NEW d \in Daemons, NEW status \in {"ended", "failed"},
           NEW hits \in Hits, Exit(d, status, hits)
    PROVE  /\ proc' \in [Daemons -> Procs] /\ proc'[d].pc \in {"ended", "failed"}
           /\ \A e \in Daemons : e # d => proc'[e] = proc[e]
  <1> DEFINE h == proc[d].hit \cup hits
             r == [NoProcess EXCEPT !.pc = status, !.hit = h]
  <1>1. h \in Hits /\ status \in PCs
    BY Fields DEF Hits, PCs
  <1>2. proc' = [proc EXCEPT ![d] = r]
    BY DEF Exit
  <1> HIDE DEF h
  <1>3. r \in Procs /\ r.pc = status
    BY <1>1, NoProcessFacts DEF Procs
  <1> HIDE DEF r
  <1> QED
    BY <1>2, <1>3 DEF TypeInv

(* The identity that understood options ask for. *)
LEMMA IdFacts ==
    /\ \A text : isid(text) \in Int
    /\ \A text \in DOMAIN Passwd : Passwd[text].uid \in Int /\ Passwd[text].gid \in Int
    /\ \A text \in DOMAIN Group : Group[text] \in Int
  <1>1. \A text : isid(text) \in Int
    BY DEF isid
  <1>2. \A text \in DOMAIN Passwd : Passwd[text].uid \in Int /\ Passwd[text].gid \in Int
    BY DEF Passwd
  <1>3. \A text \in DOMAIN Group : Group[text] \in Int
    BY DEF Group
  <1> QED
    BY <1>1, <1>2, <1>3

LEMMA WantedFacts ==
    ASSUME NEW o \in Opts, Understood(o)
    PROVE  Wanted(o) \in Wants
  <1>1. o.groups \in Seq(STRING)
    BY DEF Opts
  <1>2. Taken(o) \in Seq(STRING)
    <2>1. CASE o.groups = NoGroups
      BY <2>1 DEF Taken
    <2>2. CASE o.groups # NoGroups
      <3> DEFINE k == IF Len(o.groups) < SUPL_GROUPS_MAX THEN Len(o.groups)
                      ELSE SUPL_GROUPS_MAX
      <3>1. k \in 0..Len(o.groups)
        BY <1>1, DaemonAssumption
      <3>2. Taken(o) = SubSeq(o.groups, 1, k)
        BY <2>2 DEF Taken
      <3> HIDE DEF k
      <3> QED
        BY <1>1, <3>1, <3>2
    <2> QED
      BY <2>1, <2>2
  <1>3. \A text, base : Known(text, base) /\ ~(isid(text) >= 0) => text \in DOMAIN base
    BY DEF Known
  <1>4. \A text : Known(text, Group) => group_id(text) \in Int
    BY <1>3, IdFacts DEF group_id
  <1> DEFINE t == Taken(o)
             gids == [i \in DOMAIN t |-> group_id(t[i])]
             uid == IF ~Given(o.user) THEN -1
                    ELSE IF isid(o.user) >= 0 THEN isid(o.user) ELSE Passwd[o.user].uid
             gid == IF Given(o.group) THEN group_id(o.group)
                    ELSE IF Given(o.user) /\ isid(o.user) < 0 THEN Passwd[o.user].gid ELSE -1
  <1>5. uid \in Int
    BY <1>3, IdFacts DEF Understood
  <1>6. gid \in Int
    BY <1>3, <1>4, IdFacts DEF Understood
  <1>7. gids \in Seq(Int)
    <2>1. \A i \in DOMAIN t : group_id(t[i]) \in Int
      BY <1>4 DEF Understood
    <2>2. DOMAIN t = 1..Len(t) /\ Len(t) \in Nat
      BY <1>2
    <2> HIDE DEF t
    <2> QED
      BY <2>1, <2>2
  <1>8. Wanted(o) = [uid |-> uid, gid |-> gid, gids |-> gids]
    BY DEF Wanted
  <1> HIDE DEF uid, gid, gids
  <1> QED
    BY <1>5, <1>6, <1>7, <1>8 DEF Wants

-----------------------------------------------------------------------------
(* Processes that a step leaves where they are: it may only tell them that *)
(* the directory or its owner changed.                                     *)
Told(d) ==
    LET p == proc[d]
        q == proc'[d]
    IN
    /\ q.pc = p.pc /\ q.as = p.as /\ q.opt = p.opt /\ q.want = p.want /\ q.cred = p.cred
    /\ p.hit \subseteq q.hit
    /\ dir[Depth] # None /\ dir'[Depth] = None => "dir" \in q.hit
    /\ owner' # owner => \/ dir[Depth] = None \/ "owner" \in q.hit \/ "dir" \in q.hit

LEMMA Bystander ==
    ASSUME NEW d \in Daemons, Good(d),
           Told(d) \/ proc'[d].pc \in {"ended", "failed"}
    PROVE  Good(d)'
  <1>1. CASE proc'[d].pc \in {"ended", "failed"}
    BY <1>1
    DEF Good, Identity, Ownership, ToGroups, ToGid, ToUid, Done, Capable, Limited, User,
        Member, Grouped, Handed
  <1>2. CASE Told(d)
    <2>1. Identity(d) => Identity(d)'
      BY <1>2 DEF Told, Identity
    <2>2. Ownership(d)'
      <3>1. Owns(proc[d]) = Owns(proc'[d])
        BY <1>2 DEF Told, Owns
      <3>2. ASSUME Owns(proc[d]), proc[d].pc \in {"chown"} \cup Handed, "dir" \notin proc'[d].hit
            PROVE  dir[Depth] # None /\ dir'[Depth] # None
        BY <1>2, <3>2 DEF Good, Ownership, Told
      <3>3. ASSUME Owns(proc[d]), proc[d].pc \in Handed, "dir" \notin proc'[d].hit,
                   "owner" \notin proc'[d].hit
            PROVE  /\ owner' = owner
                   /\ ~Differs(proc[d].want.uid, owner.uid)
                   /\ ~Differs(proc[d].want.gid, owner.gid)
        BY <1>2, <3>2, <3>3 DEF Good, Ownership, Told
      <3> QED
        BY <1>2, <3>1, <3>2, <3>3 DEF Told, Ownership, Owns
    <2> QED
      BY <1>2, <2>1, <2>2 DEF Good, Told
  <1> QED
    BY <1>1, <1>2

-----------------------------------------------------------------------------
(* Steps that leave the directories alone. *)

LEMMA MoveStep ==
    ASSUME IInv, NEW d \in Daemons, UNCHANGED <<dir, owner>>,
           proc' \in [Daemons -> Procs],
           \A e \in Daemons : e # d => proc'[e] = proc[e],
           Good(d)'
    PROVE  IInv'
  <1>1. TypeInv'
    BY DEF IInv, TypeInv
  <1>2. ASSUME NEW e \in Daemons, e # d
        PROVE  Good(e)'
    <2>1. Told(e)
      BY <1>2 DEF Told
    <2> QED
      BY <1>2, <2>1, Bystander DEF IInv
  <1> QED
    BY <1>1, <1>2 DEF IInv

LEMMA ExitStep ==
    ASSUME IInv, NEW d \in Daemons, UNCHANGED <<dir, owner>>,
           NEW status \in {"ended", "failed"}, NEW hits \in Hits, Exit(d, status, hits)
    PROVE  IInv'
  <1>1. /\ proc' \in [Daemons -> Procs] /\ proc'[d].pc \in {"ended", "failed"}
        /\ \A e \in Daemons : e # d => proc'[e] = proc[e]
    BY ExitFacts DEF IInv
  <1>2. Good(d)'
    BY <1>1, Bystander DEF IInv
  <1> QED
    BY <1>1, <1>2, MoveStep

LEMMA FailsStep ==
    ASSUME IInv, NEW d \in Daemons, UNCHANGED <<dir, owner>>,
           Fails(d) \/ FailsByFault(d)
    PROVE  IInv'
  <1>1. {} \in Hits /\ {"fault"} \in Hits
    BY DEF Hits
  <1>2. Exit(d, "failed", {}) \/ Exit(d, "failed", {"fault"})
    BY DEF Fails, FailsByFault
  <1> QED
    BY <1>1, <1>2, ExitStep

(* Past the directory, a process keeps what it saw of it. *)
LEMMA OwnershipKept ==
    ASSUME IInv, NEW d \in Daemons, UNCHANGED <<dir, owner>>,
           proc[d].pc \in Handed, proc'[d].opt = proc[d].opt,
           proc'[d].want = proc[d].want, proc[d].hit \subseteq proc'[d].hit
    PROVE  Ownership(d)'
  <1>1. Ownership(d)
    BY DEF IInv, Good
  <1>2. Owns(proc'[d]) = Owns(proc[d])
    BY DEF Owns
  <1> QED
    BY <1>1, <1>2 DEF Ownership

(* Past the directory, a process goes on with the same credentials. *)
LEMMA GotoStep ==
    ASSUME IInv, NEW d \in Daemons, UNCHANGED <<dir, owner>>,
           proc[d].pc \in Handed, NEW next \in PCs, NEW hit \in Hits,
           proc[d].hit \subseteq hit,
           Moves(d, next, proc[d].cred, hit), proc'[d].want = proc[d].want,
           ~proc[d].opt.keepgoing => Identity(d)'
    PROVE  IInv'
  <1>1. Ownership(d)'
    BY OwnershipKept DEF Moves
  <1>2. Good(d)'
    BY <1>1 DEF Good, Moves
  <1> QED
    BY <1>2, MoveStep DEF Moves

(* A change of the credentials, if it succeeds, is the one asked for.      *)
LEMMA ChangeStep ==
    ASSUME IInv, NEW d \in Daemons, proc[d].pc \in Handed, NEW next \in PCs,
           NEW new \in Creds, NEW may, Change(d, may, new, next),
           (/\ Moves(d, next, new, proc[d].hit) /\ proc'[d].want = proc[d].want
            /\ ~proc[d].opt.keepgoing) => Identity(d)'
    PROVE  IInv'
  <1>0. UNCHANGED <<dir, owner>> /\ TypeInv
    BY DEF Change, system, IInv
  <1>1. CASE proc' = [proc EXCEPT ![d].cred = new, ![d].pc = next]
    <2>1. proc[d].hit \in Hits
      BY <1>0, Fields
    <2>2. Moves(d, next, new, proc[d].hit) /\ proc'[d].want = proc[d].want
      BY <1>0, <1>1, <2>1, MoveFacts
    <2>3. Ownership(d)'
      BY <1>0, <2>2, OwnershipKept DEF Moves
    <2>4. Good(d)'
      BY <2>2, <2>3 DEF Good, Moves
    <2> QED
      BY <1>0, <2>2, <2>4, MoveStep DEF Moves
  <1>2. CASE /\ proc[d].opt.keepgoing
             /\ \E hits \in {{}, {"fault"}} :
                   proc' = [proc EXCEPT ![d].pc = next, ![d].hit = @ \cup hits]
    <2>1. PICK hits \in {{}, {"fault"}} :
             proc' = [proc EXCEPT ![d].pc = next, ![d].hit = proc[d].hit \cup hits]
      BY <1>2
    <2>2. proc[d].hit \cup hits \in Hits /\ proc[d].cred \in Creds
      BY <1>0, Fields DEF Hits
    <2>3. Moves(d, next, proc[d].cred, proc[d].hit \cup hits) /\ proc'[d].want = proc[d].want
      BY <1>0, <2>1, <2>2, MoveFacts
    <2> QED
      BY <1>0, <1>2, <2>2, <2>3, GotoStep
  <1>3. CASE Fails(d) \/ FailsByFault(d)
    BY <1>0, <1>3, FailsStep
  <1> QED
    BY <1>1, <1>2, <1>3 DEF Change

-----------------------------------------------------------------------------
(* The steps of main. *)

(* The options are read. *)
LEMMA MainStep ==
    ASSUME IInv, NEW d \in Daemons, main(d)
    PROVE  IInv'
  <1>0. UNCHANGED <<dir, owner>> /\ TypeInv /\ proc[d].pc = "main"
    BY DEF main, system, IInv
  <1> DEFINE o == proc[d].opt
             next == IF o.makesockdir /\ o.socket # "abstract" THEN "mkdir" ELSE "prctl"
             want == Wanted(o)
  <1>1. CASE Fails(d)
    BY <1>0, <1>1, FailsStep
  <1>2. CASE /\ Understood(o)
             /\ proc' = [proc EXCEPT ![d].want = want, ![d].level = Depth, ![d].pc = next]
    <2>1. want \in Wants /\ next \in PCs /\ Depth \in Int
      BY <1>0, <1>2, Fields, WantedFacts, DaemonAssumption DEF PCs
    <2> HIDE DEF want, next
    <2>2. /\ proc' \in [Daemons -> Procs] /\ proc'[d].pc = next
          /\ proc'[d].cred = proc[d].cred /\ proc'[d].as = proc[d].as
          /\ proc'[d].opt = proc[d].opt
          /\ \A e \in Daemons : e # d => proc'[e] = proc[e]
      BY <1>0, <1>2, <2>1 DEF TypeInv, Procs
    <2>3. ~proc[d].opt.keepgoing => Identity(d)'
      BY <1>0, <2>2
      DEF IInv, Good, Identity, next, ToGroups, ToGid, ToUid, Done, Capable, Limited, User,
          Member, Grouped
    <2>4. Ownership(d)'
      BY <1>0, <2>2 DEF Ownership, Owns, next, Handed, Grouped, Member, User, Limited, Capable, Done
    <2>5. Good(d)'
      BY <2>2, <2>3, <2>4 DEF Good
    <2> QED
      BY <1>0, <2>2, <2>5, MoveStep
  <1> QED
    BY <1>1, <1>2 DEF main

(* The groups, the group, the user. *)
LEMMA IdentityStep ==
    ASSUME IInv, NEW d \in Daemons, setgroups(d) \/ setgid(d) \/ setuid(d)
    PROVE  IInv'
  <1>0. /\ TypeInv /\ Good(d) /\ proc[d].pc \in {"setgroups", "setgid", "setuid"}
        /\ proc[d].pc \in Handed
    BY DEF setgroups, setgid, setuid, IInv, Handed, Grouped, Member
  <1>1. /\ proc[d].cred \in Creds /\ proc[d].want \in Wants /\ proc[d].hit \in Hits
        /\ proc[d].want.uid \in Int /\ proc[d].want.gid \in Int
        /\ proc[d].want.gids \in Seq(Int)
    BY <1>0, Fields DEF Wants
  <1>2. ASSUME NEW next \in {"setgid", "setuid", "caps"}, Skip(d, next)
        PROVE  /\ UNCHANGED <<dir, owner>> /\ next \in PCs
               /\ Moves(d, next, proc[d].cred, proc[d].hit) /\ proc'[d].want = proc[d].want
    BY <1>0, <1>1, <1>2, MoveFacts DEF Skip, Goto, system, PCs
  <1>3. CASE setgroups(d)
    <2> DEFINE gids == {proc[d].want.gids[i] : i \in DOMAIN proc[d].want.gids}
               new == [proc[d].cred EXCEPT !.gids = gids]
    <2>0. proc[d].pc = "setgroups" /\ "setgid" \in PCs
      BY <1>3 DEF setgroups, PCs
    <2>1. gids \in SUBSET Int
      BY <1>1
    <2> HIDE DEF gids
    <2>2. /\ new \in Creds /\ new.gids = gids /\ new.uid = proc[d].cred.uid
          /\ new.gid = proc[d].cred.gid
      BY <1>1, <2>1 DEF Creds
    <2> HIDE DEF new
    <2>3. CASE proc[d].opt.groups = NoGroups /\ Skip(d, "setgid")
      <3>1. ~proc[d].opt.keepgoing => Identity(d)'
        BY <1>0, <1>2, <2>0, <2>3
        DEF Good, Identity, Moves, ToGroups, ToGid, ToUid, Done, Capable, Limited, User,
            Member, Grouped
      <3> QED
        BY <1>0, <1>1, <1>2, <2>3, <3>1, GotoStep
    <2>4. CASE /\ proc[d].opt.groups # NoGroups
               /\ Change(d, "setid" \in proc[d].cred.effective, new, "setgid")
      <3>1. (/\ Moves(d, "setgid", new, proc[d].hit) /\ proc'[d].want = proc[d].want
             /\ ~proc[d].opt.keepgoing) => Identity(d)'
        BY <1>0, <2>0, <2>2, <2>4
        DEF Good, Identity, Moves, ToGroups, ToGid, ToUid, Done, Capable, Limited, User,
            Member, Grouped, gids
      <3> QED
        BY <1>0, <2>0, <2>2, <2>4, <3>1, ChangeStep
    <2> QED
      BY <1>3, <2>3, <2>4 DEF setgroups, new, gids
  <1>4. CASE setgid(d)
    <2> DEFINE gid == proc[d].want.gid
               new == [proc[d].cred EXCEPT !.gid = gid]
    <2>0. proc[d].pc = "setgid" /\ "setuid" \in PCs
      BY <1>4 DEF setgid, PCs
    <2>2. /\ new \in Creds /\ new.gid = gid /\ new.uid = proc[d].cred.uid
          /\ new.gids = proc[d].cred.gids
      BY <1>1 DEF Creds
    <2> HIDE DEF new
    <2>3. CASE gid < 0 /\ Skip(d, "setuid")
      <3>0. ~(gid >= 0) /\ \A default : Asked(gid, default) = default
        BY <1>1, <2>3 DEF Asked
      <3>a. Moves(d, "setuid", proc[d].cred, proc[d].hit) /\ proc'[d].want = proc[d].want
        BY <1>2, <2>3
      <3>1. ~proc[d].opt.keepgoing => Identity(d)'
        BY <1>0, <2>0, <3>0, <3>a
        DEF Good, Identity, Moves, ToGroups, ToGid, ToUid, Done, Capable, Limited, User,
            Member, Grouped
      <3> QED
        BY <1>0, <1>1, <1>2, <2>3, <3>1, GotoStep
    <2>4. CASE /\ gid >= 0
               /\ Change(d, "setid" \in proc[d].cred.effective \/ gid = proc[d].cred.gid,
                         new, "setuid")
      <3>1. (/\ Moves(d, "setuid", new, proc[d].hit) /\ proc'[d].want = proc[d].want
             /\ ~proc[d].opt.keepgoing) => Identity(d)'
        BY <1>0, <2>0, <2>2, <2>4
        DEF Good, Identity, Asked, Moves, ToGroups, ToGid, ToUid, Done, Capable, Limited, User,
            Member, Grouped
      <3> QED
        BY <1>0, <2>0, <2>2, <2>4, <3>1, ChangeStep
    <2> QED
      BY <1>4, <2>3, <2>4 DEF setgid, new
  <1>5. CASE setuid(d)
    <2> DEFINE uid == proc[d].want.uid
               new == become(proc[d].cred, uid)
    <2>0. proc[d].pc = "setuid" /\ "caps" \in PCs
      BY <1>5 DEF setuid, PCs
    <2>2. /\ new \in Creds /\ new.uid = uid /\ new.gid = proc[d].cred.gid
          /\ new.gids = proc[d].cred.gids
      <3>1. CASE proc[d].cred.uid # 0 \/ uid = 0
        BY <1>1, <3>1 DEF Creds, become
      <3>2. CASE ~(proc[d].cred.uid # 0 \/ uid = 0)
        <4> DEFINE kept == IF proc[d].cred.keep THEN proc[d].cred.permitted ELSE {}
                   S == SUBSET Caps
                   G == SUBSET Int
                   none == {}
        <4>1. kept \in S /\ none \in S
          BY <1>1 DEF Creds
        <4>2. new = [proc[d].cred EXCEPT !.uid = uid, !.effective = none, !.ambient = none,
                                         !.permitted = kept]
          BY <3>2 DEF become
        <4>3. /\ proc[d].cred \in
                   [uid : Int, gid : Int, gids : G, keep : BOOLEAN, permitted : S,
                    effective : S, inheritable : S, ambient : S]
              /\ Creds =
                   [uid : Int, gid : Int, gids : G, keep : BOOLEAN, permitted : S,
                    effective : S, inheritable : S, ambient : S]
          BY <1>1 DEF Creds
        <4> HIDE DEF kept, S, G, none, new
        <4> QED
          BY <1>1, <4>1, <4>2, <4>3
      <3> QED
        BY <3>1, <3>2
    <2> HIDE DEF new
    <2>3. CASE uid < 0 /\ Skip(d, "caps")
      <3>0. ~(uid >= 0) /\ \A default : Asked(uid, default) = default
        BY <1>1, <2>3 DEF Asked
      <3>a. Moves(d, "caps", proc[d].cred, proc[d].hit) /\ proc'[d].want = proc[d].want
        BY <1>2, <2>3
      <3>1. ~proc[d].opt.keepgoing => Identity(d)'
        BY <1>0, <2>0, <3>0, <3>a
        DEF Good, Identity, Moves, ToGroups, ToGid, ToUid, Done, Capable, Limited, User,
            Member, Grouped
      <3> QED
        BY <1>0, <1>1, <1>2, <2>3, <3>1, GotoStep
    <2>4. CASE /\ uid >= 0
               /\ Change(d, "setid" \in proc[d].cred.effective \/ uid = proc[d].cred.uid,
                         new, "caps")
      <3>1. (/\ Moves(d, "caps", new, proc[d].hit) /\ proc'[d].want = proc[d].want
             /\ ~proc[d].opt.keepgoing) => Identity(d)'
        BY <1>0, <2>0, <2>2, <2>4
        DEF Good, Identity, Asked, Moves, ToGroups, ToGid, ToUid, Done, Capable, Limited, User,
            Member, Grouped
      <3> QED
        BY <1>0, <2>0, <2>2, <2>4, <3>1, ChangeStep
    <2> QED
      BY <1>5, <2>3, <2>4 DEF setuid, new
  <1> QED
    BY <1>3, <1>4, <1>5

(* Capabilities are kept over the change of user, then no more. *)
LEMMA KeepStep ==
    ASSUME IInv, NEW d \in Daemons, keepcaps(d) \/ unkeepcaps(d)
    PROVE  IInv'
  <1>0. /\ TypeInv /\ Good(d) /\ proc[d].pc \in {"prctl", "unkeep"} /\ proc[d].pc \in Handed
        /\ UNCHANGED <<dir, owner>>
    BY DEF keepcaps, unkeepcaps, system, IInv, Handed, Grouped, Member, User, Limited, Capable
  <1> DEFINE b == proc[d].pc = "prctl"
             next == IF proc[d].pc = "prctl" THEN "setgroups"
                     ELSE IF proc[d].opt.offline THEN "offline" ELSE "create"
             new == [proc[d].cred EXCEPT !.keep = b]
  <1>1. proc[d].cred \in Creds /\ proc[d].hit \in Hits /\ proc \in [Daemons -> Procs]
    BY <1>0, Fields DEF TypeInv
  <1>2. b \in BOOLEAN /\ next \in PCs
    BY DEF PCs
  <1>3. proc' = [proc EXCEPT ![d].cred = new, ![d].pc = next]
    <2>1. CASE keepcaps(d)
      <3>1. proc[d].pc = "prctl" /\ b = TRUE
        BY <2>1 DEF keepcaps
      <3> QED
        BY <2>1, <3>1 DEF keepcaps
    <2>2. CASE unkeepcaps(d)
      <3>1. proc[d].pc = "unkeep" /\ b = FALSE
        BY <2>2 DEF unkeepcaps
      <3> QED
        BY <2>2, <3>1 DEF unkeepcaps
    <2> QED
      BY <2>1, <2>2
  <1> HIDE DEF b
  <1>4. /\ new \in Creds /\ new.uid = proc[d].cred.uid /\ new.gid = proc[d].cred.gid
        /\ new.gids = proc[d].cred.gids /\ new.effective = proc[d].cred.effective
        /\ new.permitted = proc[d].cred.permitted /\ new.ambient = proc[d].cred.ambient
    BY <1>1, <1>2 DEF Creds
  <1> HIDE DEF new
  <1>5. Moves(d, next, new, proc[d].hit) /\ proc'[d].want = proc[d].want
    <2> HIDE DEF next
    <2> QED
      BY <1>0, <1>1, <1>2, <1>3, <1>4, MoveFacts
  <1>6. Ownership(d)'
    BY <1>0, <1>5, OwnershipKept DEF Moves
  <1>7. ~proc[d].opt.keepgoing => Identity(d)'
    BY <1>0, <1>4, <1>5
    DEF Good, Identity, Moves, ToGroups, ToGid, ToUid, Done, Capable, Limited, User,
        Member, Grouped
  <1>8. Good(d)'
    BY <1>5, <1>6, <1>7 DEF Good, Moves
  <1> QED
    BY <1>0, <1>5, <1>8, MoveStep DEF Moves

(* The capabilities become those of the task. *)
LEMMA CapsStep ==
    ASSUME IInv, NEW d \in Daemons, cap_set_proc(d) \/ cap_set_ambient(d)
    PROVE  IInv'
  <1>0. /\ TypeInv /\ Good(d) /\ proc[d].pc \in {"caps", "ambient"} /\ proc[d].pc \in Handed
    BY DEF cap_set_proc, cap_set_ambient, IInv, Handed, Grouped, Member, User, Limited
  <1>1. proc[d].cred \in Creds /\ proc[d].hit \in Hits
    BY <1>0, Fields
  <1> DEFINE S == SUBSET Caps
             v == cap_vector
             a == proc[d].cred.ambient
  <1>2. v \in S /\ a \in S /\ a \cap v \in S /\ a \cup v \in S
    BY <1>1 DEF Creds, cap_vector, Caps
  <1>3. CASE cap_set_proc(d)
    <2> DEFINE x == a \cap v
               new == [proc[d].cred EXCEPT !.permitted = v, !.effective = v,
                                           !.inheritable = v, !.ambient = x]
    <2>0. proc[d].pc = "caps" /\ "ambient" \in PCs
      BY <1>3 DEF cap_set_proc, PCs
    <2>1. Change(d, v \subseteq proc[d].cred.permitted, new, "ambient")
      BY <1>3 DEF cap_set_proc
    <2>2. x \in S
      BY <1>2
    <2> HIDE DEF S, v, a, x
    <2>3. /\ new \in Creds /\ new.uid = proc[d].cred.uid /\ new.gid = proc[d].cred.gid
          /\ new.gids = proc[d].cred.gids /\ new.effective = v /\ new.permitted = v
          /\ new.ambient = x
      <3> DEFINE G == SUBSET Int
      <3>2. Creds = [uid : Int, gid : Int, gids : G, keep : BOOLEAN, permitted : S,
                     effective : S, inheritable : S, ambient : S]
        BY DEF Creds, S
      <3> HIDE DEF G
      <3> QED
        BY <1>1, <1>2, <2>2, <3>2
    <2> HIDE DEF new
    <2>4. v = cap_vector /\ x \subseteq cap_vector
      BY DEF v, x
    <2>5. (/\ Moves(d, "ambient", new, proc[d].hit) /\ proc'[d].want = proc[d].want
           /\ ~proc[d].opt.keepgoing) => Identity(d)'
      BY <1>0, <2>0, <2>3, <2>4
      DEF Good, Identity, Moves, ToGroups, ToGid, ToUid, Done, Capable, Limited, User,
          Member, Grouped
    <2> QED
      BY <1>0, <2>0, <2>1, <2>3, <2>5, ChangeStep
  <1>4. CASE cap_set_ambient(d)
    <2> DEFINE x == a \cup v
               new == [proc[d].cred EXCEPT !.ambient = x]
    <2>0. proc[d].pc = "ambient" /\ "unkeep" \in PCs
      BY <1>4 DEF cap_set_ambient, PCs
    <2>1. Change(d, v \subseteq (proc[d].cred.permitted \cap proc[d].cred.inheritable),
                 new, "unkeep")
      BY <1>4 DEF cap_set_ambient
    <2>2. x \in S
      BY <1>2
    <2> HIDE DEF S, v, x
    <2>3. /\ new \in Creds /\ new.uid = proc[d].cred.uid /\ new.gid = proc[d].cred.gid
          /\ new.gids = proc[d].cred.gids /\ new.effective = proc[d].cred.effective
          /\ new.permitted = proc[d].cred.permitted /\ new.ambient = x
      BY <1>1, <2>2 DEF Creds, S
    <2> HIDE DEF new
    <2>4. ~proc[d].opt.keepgoing => x = cap_vector
      <3>1. ~proc[d].opt.keepgoing => a \subseteq cap_vector
        BY <1>0, <2>0 DEF Good, Identity, Limited
      <3> QED
        BY <3>1 DEF x, v
    <2>5. (/\ Moves(d, "unkeep", new, proc[d].hit) /\ proc'[d].want = proc[d].want
           /\ ~proc[d].opt.keepgoing) => Identity(d)'
      BY <1>0, <2>0, <2>3, <2>4
      DEF Good, Identity, Moves, ToGroups, ToGid, ToUid, Done, Capable, Limited, User,
          Member, Grouped
    <2> QED
      BY <1>0, <2>0, <2>1, <2>3, <2>5, ChangeStep
  <1> QED
    BY <1>3, <1>4

-----------------------------------------------------------------------------
(* Steps that change the directories or what others see of them. *)

Marks == {"unsound", "fault", "dir", "owner", "socket"}

(* A process that is told something. *)
Marked(r, mark) == [r EXCEPT !.hit = @ \cup {mark}]
Same(r, q) ==
    q.pc = r.pc /\ q.as = r.as /\ q.opt = r.opt /\ q.want = r.want /\ q.cred = r.cred

LEMMA MarkFacts ==
    ASSUME NEW r \in Procs, NEW mark \in Marks
    PROVE  /\ Marked(r, mark) \in Procs /\ Same(r, Marked(r, mark))
           /\ mark \in Marked(r, mark).hit /\ r.hit \subseteq Marked(r, mark).hit
  <1> DEFINE h == r.hit \cup {mark}
  <1>1. h \in Hits /\ mark \in h /\ r.hit \subseteq h
    BY DEF Procs, Hits, Marks
  <1>2. Marked(r, mark) = [r EXCEPT !.hit = h]
    BY DEF Marked
  <1> HIDE DEF h
  <1>3. [r EXCEPT !.hit = h] \in Procs /\ [r EXCEPT !.hit = h].hit = h
        /\ Same(r, [r EXCEPT !.hit = h])
    BY <1>1 DEF Procs, Same
  <1> QED
    BY <1>1, <1>2, <1>3, Zenon

LEMMA PcFacts ==
    ASSUME NEW r \in Procs, NEW next \in PCs
    PROVE  /\ [r EXCEPT !.pc = next] \in Procs /\ [r EXCEPT !.pc = next].pc = next
           /\ [r EXCEPT !.pc = next].as = r.as /\ [r EXCEPT !.pc = next].opt = r.opt
           /\ [r EXCEPT !.pc = next].want = r.want /\ [r EXCEPT !.pc = next].cred = r.cred
           /\ [r EXCEPT !.pc = next].hit = r.hit
  BY DEF Procs

(* Process d moves, and those in M are told something. *)
Tells(d, next, M, mark) ==
    proc' = [e \in Daemons |-> IF e = d THEN [proc[d] EXCEPT !.pc = next]
                               ELSE IF e \in M THEN Marked(proc[e], mark)
                               ELSE proc[e]]

LEMMA TellFacts ==
    ASSUME TypeInv, NEW d \in Daemons, NEW next \in PCs, NEW M, NEW mark \in Marks,
           Tells(d, next, M, mark)
    PROVE  /\ proc' \in [Daemons -> Procs]
           /\ proc'[d].pc = next /\ proc'[d].as = proc[d].as /\ proc'[d].opt = proc[d].opt
           /\ proc'[d].want = proc[d].want /\ proc'[d].cred = proc[d].cred
           /\ proc'[d].hit = proc[d].hit
           /\ \A e \in Daemons \ {d} :
                 /\ Same(proc[e], proc'[e]) /\ proc[e].hit \subseteq proc'[e].hit
                 /\ e \in M => mark \in proc'[e].hit
                 /\ e \notin M => proc'[e] = proc[e]
  <1>1. \A e \in Daemons : proc[e] \in Procs
    BY DEF TypeInv
  <1> DEFINE r == [proc[d] EXCEPT !.pc = next]
  <1>2. /\ r \in Procs /\ r.pc = next /\ r.as = proc[d].as /\ r.opt = proc[d].opt
        /\ r.want = proc[d].want /\ r.cred = proc[d].cred /\ r.hit = proc[d].hit
    BY <1>1, PcFacts
  <1>3. ASSUME NEW e \in Daemons
        PROVE  /\ Marked(proc[e], mark) \in Procs /\ Same(proc[e], Marked(proc[e], mark))
               /\ mark \in Marked(proc[e], mark).hit
               /\ proc[e].hit \subseteq Marked(proc[e], mark).hit
    BY <1>1, MarkFacts
  <1>4. \A e \in Daemons : Same(proc[e], proc[e])
    BY DEF Same
  <1> HIDE DEF r
  <1>5. proc' = [e \in Daemons |-> IF e = d THEN r
                                   ELSE IF e \in M THEN Marked(proc[e], mark)
                                   ELSE proc[e]]
    BY DEF r, Tells
  <1> QED
    BY <1>1, <1>2, <1>3, <1>4, <1>5

(* The directory is made. *)
LEMMA MkdirStep ==
    ASSUME IInv, NEW d \in Daemons, ensuredir(d)
    PROVE  IInv'
  <1>0. TypeInv /\ Good(d) /\ proc[d].pc = "mkdir" /\ Depth \in Nat \ {0}
    BY DaemonAssumption DEF ensuredir, IInv
  <1>1. CASE (Fails(d) \/ FailsByFault(d)) /\ UNCHANGED <<dir, owner>>
    BY <1>1, FailsStep
  <1> DEFINE n == proc[d].level
  <1>2. CASE /\ \/ proc' = [proc EXCEPT ![d].pc = "stat"]
                \/ \E m \in Int : proc' = [proc EXCEPT ![d].level = m]
             /\ \/ UNCHANGED <<dir, owner>>
                \/ /\ mkdir(n) = "created" /\ dir' = [dir EXCEPT ![n] = "dir"]
                   /\ owner' = owner \/ n = Depth
    <2>1. /\ proc' \in [Daemons -> Procs] /\ proc'[d].pc \in {"mkdir", "stat"}
          /\ proc'[d].cred = proc[d].cred /\ proc'[d].as = proc[d].as
          /\ proc'[d].opt = proc[d].opt
          /\ \A e \in Daemons : e # d => proc'[e] = proc[e]
      <3>1. CASE proc' = [proc EXCEPT ![d].pc = "stat"]
        <4>1. "stat" \in PCs /\ proc[d].cred \in Creds /\ proc[d].hit \in Hits
          BY <1>0, Fields DEF PCs
        <4> QED
          BY <1>0, <3>1, <4>1, MoveFacts DEF Moves
      <3>2. CASE \E m \in Int : proc' = [proc EXCEPT ![d].level = m]
        <4>1. PICK m \in Int : proc' = [proc EXCEPT ![d].level = m]
          BY <3>2
        <4>2. /\ proc' \in [Daemons -> Procs] /\ proc'[d].pc = proc[d].pc
              /\ proc'[d].cred = proc[d].cred /\ proc'[d].as = proc[d].as
              /\ proc'[d].opt = proc[d].opt
              /\ \A e \in Daemons : e # d => proc'[e] = proc[e]
          BY <1>0, <4>1 DEF TypeInv, Procs
        <4> QED
          BY <1>0, <4>2
      <3> QED
        BY <1>2, <3>1, <3>2
    <2>2. /\ dir' \in [1..Depth -> Kinds]
          /\ dir[Depth] # None => dir'[Depth] # None
          /\ owner' # owner => dir[Depth] = None
      <3>1. CASE UNCHANGED <<dir, owner>>
        BY <1>0, <3>1 DEF TypeInv
      <3>2. CASE /\ mkdir(n) = "created" /\ dir' = [dir EXCEPT ![n] = "dir"]
                 /\ owner' = owner \/ n = Depth
        <4>1. dir[n] = None
          BY <3>2 DEF mkdir
        <4>2. dir \in [1..Depth -> Kinds] /\ "dir" \in Kinds /\ "dir" # None
              /\ Depth \in 1..Depth
          BY <1>0 DEF TypeInv, Kinds, None
        <4> QED
          BY <3>2, <4>1, <4>2
      <3> QED
        BY <1>2, <3>1, <3>2
    <2>3. ~proc[d].opt.keepgoing => Identity(d)'
      BY <1>0, <2>1
      DEF Good, Identity, ToGroups, ToGid, ToUid, Done, Capable, Limited, User,
          Member, Grouped
    <2>4. Ownership(d)'
      BY <2>1 DEF Ownership, Handed, Grouped, Member, User, Limited, Capable, Done
    <2>5. ASSUME NEW e \in Daemons, e # d
          PROVE  Good(e)'
      <3>1. Told(e)
        BY <2>1, <2>2, <2>5 DEF Told
      <3> QED
        BY <2>5, <3>1, Bystander DEF IInv
    <2> QED
      BY <2>1, <2>2, <2>3, <2>4, <2>5 DEF IInv, TypeInv, Good
  <1>3. n \in Int /\ n + 1 \in Int /\ n - 1 \in Int
    BY <1>0, Fields
  <1> HIDE DEF n
  <1>4. \/ (Fails(d) \/ FailsByFault(d)) /\ UNCHANGED <<dir, owner>>
        \/ /\ \/ proc' = [proc EXCEPT ![d].pc = "stat"]
              \/ proc' = [proc EXCEPT ![d].level = n + 1]
              \/ proc' = [proc EXCEPT ![d].level = n - 1]
           /\ \/ UNCHANGED <<dir, owner>>
              \/ /\ mkdir(n) = "created" /\ dir' = [dir EXCEPT ![n] = "dir"]
                 /\ owner' = owner \/ n = Depth
    BY Zenon DEF ensuredir, n
  <1> QED
    BY <1>1, <1>2, <1>3, <1>4, Zenon

(* It is looked at. *)
LEMMA StatStep ==
    ASSUME IInv, NEW d \in Daemons, ensuredir_stat(d)
    PROVE  IInv'
  <1> DEFINE for == Owned(proc[d].opt, proc[d].want)
             next == IF Differs(for.uid, owner.uid) \/ Differs(for.gid, owner.gid)
                     THEN "chown" ELSE "prctl"
  <1>0. TypeInv /\ Good(d) /\ proc[d].pc = "stat" /\ UNCHANGED <<dir, owner>>
    BY DEF ensuredir_stat, IInv, system
  <1>1. CASE Fails(d)
    BY <1>0, <1>1, FailsStep
  <1>2. CASE IsDirectory /\ Goto(d, next)
    <2>1. next \in PCs /\ proc[d].cred \in Creds /\ proc[d].hit \in Hits
      BY <1>0, Fields DEF PCs
    <2>2. next \in {"chown", "prctl"}
          /\ (Owns(proc[d]) /\ next = "prctl" =>
                ~Differs(proc[d].want.uid, owner.uid) /\ ~Differs(proc[d].want.gid, owner.gid))
      BY DEF Owned, Owns
    <2> HIDE DEF next
    <2>3. Moves(d, next, proc[d].cred, proc[d].hit) /\ proc'[d].want = proc[d].want
      BY <1>0, <1>2, <2>1, MoveFacts DEF Goto
    <2>4. dir[Depth] # None
      BY <1>2, DaemonAssumption DEF IsDirectory, None
    <2>5. Ownership(d)'
      BY <1>0, <2>2, <2>3, <2>4
      DEF Ownership, Owns, Moves, Handed, Grouped, Member, User, Limited, Capable, Done
    <2>6. ~proc[d].opt.keepgoing => Identity(d)'
      BY <1>0, <2>2, <2>3
      DEF Good, Identity, Moves, ToGroups, ToGid, ToUid, Done, Capable, Limited, User,
          Member, Grouped
    <2>7. Good(d)'
      BY <2>3, <2>5, <2>6 DEF Good, Moves
    <2> QED
      BY <1>0, <2>3, <2>7, MoveStep DEF Moves
  <1> QED
    BY <1>1, <1>2 DEF ensuredir_stat

(* It is given to the owner that was asked for; the others are told. *)
LEMMA ChownStep ==
    ASSUME IInv, NEW d \in Daemons, ensuredir_chown(d)
    PROVE  IInv'
  <1> DEFINE want == proc[d].want
             M == Daemons \ Idle
  <1>0. TypeInv /\ Good(d) /\ proc[d].pc = "chown" /\ UNCHANGED dir
    BY DEF ensuredir_chown, IInv
  <1>1. CASE (Fails(d) \/ FailsByFault(d)) /\ UNCHANGED owner
    BY <1>0, <1>1, FailsStep
  <1>2. CASE /\ owner' = [uid |-> IF want.uid >= 0 THEN want.uid ELSE owner.uid,
                          gid |-> IF want.gid >= 0 THEN want.gid ELSE owner.gid]
             /\ proc' = [e \in Daemons |->
                           IF e = d THEN [proc[d] EXCEPT !.pc = "prctl"]
                           ELSE IF e \in Idle THEN proc[e]
                           ELSE [proc[e] EXCEPT !.hit = @ \cup {"owner"}]]
    <2>1. Tells(d, "prctl", M, "owner")
      BY <1>2 DEF Marked, Tells
    <2>2. "prctl" \in PCs /\ "owner" \in Marks
      BY DEF PCs, Marks
    <2> HIDE DEF M, want
    <2>3. /\ proc' \in [Daemons -> Procs]
          /\ proc'[d].pc = "prctl" /\ proc'[d].as = proc[d].as /\ proc'[d].opt = proc[d].opt
          /\ proc'[d].want = proc[d].want /\ proc'[d].cred = proc[d].cred
          /\ proc'[d].hit = proc[d].hit
          /\ \A e \in Daemons \ {d} :
                /\ Same(proc[e], proc'[e]) /\ proc[e].hit \subseteq proc'[e].hit
                /\ e \in M => "owner" \in proc'[e].hit
                /\ e \notin M => proc'[e] = proc[e]
      BY <1>0, <2>1, <2>2, TellFacts
    <2>4. ~Differs(want.uid, owner'.uid) /\ ~Differs(want.gid, owner'.gid)
      BY <1>2 DEF Differs
    <2>5. Ownership(d)'
      <3>1. Owns(proc'[d]) = Owns(proc[d])
        BY <2>3 DEF Owns
      <3> QED
        BY <1>0, <2>3, <2>4, <3>1 DEF Good, Ownership, want
    <2>6. ~proc[d].opt.keepgoing => Identity(d)'
      BY <1>0, <2>3
      DEF Good, Identity, ToGroups, ToGid, ToUid, Done, Capable, Limited, User,
          Member, Grouped
    <2>7. ASSUME NEW e \in Daemons, e # d
          PROVE  Good(e)'
      <3>1. CASE e \in M
        <4>1. Told(e)
          BY <1>0, <2>3, <2>7, <3>1 DEF Told, Same
        <4> QED
          BY <4>1, <2>7, Bystander DEF IInv
      <3>2. CASE e \notin M
        <4>1. proc'[e].pc \in {"ended", "failed"}
          BY <2>3, <2>7, <3>2 DEF M, Idle
        <4> QED
          BY <4>1, <2>7, Bystander DEF IInv
      <3> QED
        BY <3>1, <3>2
    <2> QED
      BY <1>0, <2>3, <2>5, <2>6, <2>7 DEF IInv, TypeInv, Good
  <1> QED
    BY <1>1, <1>2 DEF ensuredir_chown

-----------------------------------------------------------------------------
(* The socket. *)

LEMMA DoneFacts ==
    ASSUME IInv, NEW d \in Daemons, proc[d].pc \in Done, proc'[d].pc \in Done,
           proc'[d].as = proc[d].as, proc'[d].opt = proc[d].opt,
           proc'[d].want = proc[d].want, proc'[d].cred = proc[d].cred
    PROVE  proc[d].pc \in Handed /\ (~proc[d].opt.keepgoing => Identity(d)')
  <1>1. Good(d)
    BY DEF IInv
  <1>2. ~proc[d].opt.keepgoing => Identity(d)'
    BY <1>1
    DEF Good, Identity, ToGroups, ToGid, ToUid, Done, Capable, Limited, User, Member, Grouped
  <1> QED
    BY <1>2 DEF Handed, Grouped, Member, User, Limited, Capable

(* A daemon goes on, and those in M are told. *)
LEMMA TellStep ==
    ASSUME IInv, NEW d \in Daemons, UNCHANGED <<dir, owner>>, proc[d].pc \in Done,
           NEW next \in Done, NEW M, NEW mark \in Marks, Tells(d, next, M, mark)
    PROVE  IInv'
  <1>1. TypeInv /\ next \in PCs
    BY DEF IInv, Done, PCs
  <1>2. /\ proc' \in [Daemons -> Procs]
        /\ proc'[d].pc = next /\ proc'[d].as = proc[d].as /\ proc'[d].opt = proc[d].opt
        /\ proc'[d].want = proc[d].want /\ proc'[d].cred = proc[d].cred
        /\ proc'[d].hit = proc[d].hit
        /\ \A e \in Daemons \ {d} :
              Same(proc[e], proc'[e]) /\ proc[e].hit \subseteq proc'[e].hit
    BY <1>1, TellFacts
  <1>3. proc[d].pc \in Handed /\ (~proc[d].opt.keepgoing => Identity(d)')
    BY <1>2, DoneFacts
  <1>4. Ownership(d)'
    BY <1>2, <1>3, OwnershipKept
  <1>5. Good(d)'
    BY <1>2, <1>3, <1>4 DEF Good
  <1>6. ASSUME NEW e \in Daemons, e # d
        PROVE  Good(e)'
    <2>1. Told(e)
      BY <1>2, <1>6 DEF Told, Same
    <2> QED
      BY <2>1, <1>6, Bystander DEF IInv
  <1> QED
    BY <1>1, <1>2, <1>5, <1>6 DEF IInv, TypeInv

LEMMA GoStep ==
    ASSUME IInv, NEW d \in Daemons, UNCHANGED <<dir, owner>>, proc[d].pc \in Done,
           NEW next \in Done, Goto(d, next)
    PROVE  IInv'
  <1>1. TypeInv /\ next \in PCs
    BY DEF IInv, Done, PCs
  <1>2. proc[d].cred \in Creds /\ proc[d].hit \in Hits
    BY <1>1, Fields
  <1>3. Moves(d, next, proc[d].cred, proc[d].hit) /\ proc'[d].want = proc[d].want
    BY <1>1, <1>2, MoveFacts DEF Goto
  <1>4. proc[d].pc \in Handed /\ (~proc[d].opt.keepgoing => Identity(d)')
    BY <1>3, DoneFacts DEF Moves
  <1> QED
    BY <1>1, <1>2, <1>3, <1>4, GotoStep

LEMMA OpenStep ==
    ASSUME IInv, NEW d \in Daemons, socket_open(d)
    PROVE  IInv'
  <1> DEFINE M == {e \in Daemons : Access(d) /\ sock = e}
  <1>0. /\ UNCHANGED <<dir, owner>> /\ proc[d].pc \in Done
        /\ "listen" \in Done /\ "bind" \in Done /\ "socket" \in Marks
    BY DEF socket_open, Done, Marks
  <1>1. CASE FailsByFault(d)
    BY <1>0, <1>1, FailsStep
  <1>2. CASE Goto(d, "listen") \/ Goto(d, "bind")
    BY <1>0, <1>2, GoStep
  <1>3. CASE proc' = [e \in Daemons |->
                        IF e = d THEN [proc[d] EXCEPT !.pc = "bind"]
                        ELSE IF Access(d) /\ sock = e
                        THEN [proc[e] EXCEPT !.hit = @ \cup {"socket"}] ELSE proc[e]]
    <2>1. Tells(d, "bind", M, "socket")
      BY <1>3 DEF Tells, Marked
    <2> QED
      BY <1>0, <2>1, TellStep
  <1> QED
    BY <1>1, <1>2, <1>3 DEF socket_open

LEMMA BindStep ==
    ASSUME IInv, NEW d \in Daemons, open_unix_bind(d)
    PROVE  IInv'
  <1> DEFINE path == proc[d].opt.socket = "path"
             waits(e) == /\ e # d /\ proc[e].opt.socket = proc[d].opt.socket
                         /\ proc[e].pc = "bind" \/ (~path /\ Starting(e))
             M == {e \in Daemons : waits(e)}
  <1>0. /\ UNCHANGED <<dir, owner>> /\ proc[d].pc \in Done
        /\ "listen" \in Done /\ "socket" \in Marks
    BY DEF open_unix_bind, Done, Marks
  <1>1. CASE Fails(d) \/ FailsByFault(d)
    BY <1>0, <1>1, FailsStep
  <1>2. CASE proc' = [e \in Daemons |->
                        IF e = d THEN [proc[d] EXCEPT !.pc = "listen"]
                        ELSE IF waits(e) THEN [proc[e] EXCEPT !.hit = @ \cup {"socket"}]
                        ELSE proc[e]]
    <2>1. Tells(d, "listen", M, "socket")
      BY <1>2 DEF Tells, Marked
    <2> QED
      BY <1>0, <2>1, TellStep
  <1> QED
    BY <1>1, <1>2 DEF open_unix_bind

LEMMA ListenStep ==
    ASSUME IInv, NEW d \in Daemons, server_create_ends(d)
    PROVE  IInv'
  <1>0. UNCHANGED <<dir, owner>> /\ proc[d].pc \in Done /\ "serving" \in Done
    BY DEF server_create_ends, Close, system, Done
  <1> QED
    BY <1>0, GoStep, FailsStep DEF server_create_ends

(* The end of a daemon, by itself or killed. *)
LEMMA EndStep ==
    ASSUME IInv, NEW d \in Daemons, offline(d) \/ server_serve_ends(d) \/ Die(d)
    PROVE  IInv'
  <1>0. UNCHANGED <<dir, owner>>
    BY DEF offline, server_serve_ends, Die, Close, system
  <1>1. {} \in Hits /\ {"fault"} \in Hits
    BY DEF Hits
  <1>2. \E status \in {"ended", "failed"}, hits \in {{}, {"fault"}} : Exit(d, status, hits)
    BY DEF offline, server_serve_ends, Die, FailsByFault
  <1> QED
    BY <1>0, <1>1, <1>2, ExitStep

-----------------------------------------------------------------------------
(* The start of a daemon, and other programs. *)

LEMMA StartStep ==
    ASSUME IInv, NEW d \in Daemons, Start(d)
    PROVE  IInv'
  <1>0. TypeInv /\ UNCHANGED <<dir, owner>> /\ proc[d] \in Procs
    BY Fields DEF IInv, Start, system
  <1>1. PICK s \in Starts :
          proc' = [proc EXCEPT ![d] =
                     [@ EXCEPT !.pc = "main", !.as = s.as, !.opt = s.opt,
                               !.cred = Started(s.as),
                               !.hit = IF Sound(s) THEN {} ELSE {"unsound"}]]
    BY DEF Start
  <1> DEFINE as == s.as
             opt == s.opt
             cred == Started(s.as)
             h == IF Sound(s) THEN {} ELSE {"unsound"}
             r == [proc[d] EXCEPT !.pc = "main", !.as = as, !.opt = opt, !.cred = cred,
                                  !.hit = h]
  <1>2. as \in Users /\ opt \in Opts
    BY DaemonAssumption DEF Commands, Users, Opts
  <1>3. cred \in Creds /\ h \in Hits /\ "main" \in PCs
    BY <1>2, StartedFacts DEF Hits, PCs
  <1>4. proc' = [proc EXCEPT ![d] = r]
    BY <1>1
  <1>5. cred = Started(as)
    OBVIOUS
  <1> HIDE DEF as, opt, cred, h
  <1>6. r \in Procs /\ r.pc = "main" /\ r.as = as /\ r.opt = opt /\ r.cred = cred
    BY <1>0, <1>2, <1>3 DEF Procs
  <1> HIDE DEF r
  <1>7. /\ proc' \in [Daemons -> Procs] /\ proc'[d] = r
        /\ \A e \in Daemons : e # d => proc'[e] = proc[e]
    BY <1>0, <1>4, <1>6 DEF TypeInv
  <1>8. Good(d)'
    BY <1>5, <1>6, <1>7
    DEF Good, Identity, Ownership, ToGroups, ToGid, ToUid, Done, Capable, Limited, User,
        Member, Grouped, Handed
  <1> QED
    BY <1>0, <1>7, <1>8, MoveStep

(* What the other programs do to the directory, the daemons are told. *)
LEMMA OthersStep ==
    ASSUME IInv, Others
    PROVE  IInv'
  <1>0. TypeInv /\ Depth \in Nat \ {0} /\ "dir" \in Marks
    BY DaemonAssumption DEF IInv, Marks
  <1>1. ASSUME proc' = Disturbed
        PROVE  /\ proc' \in [Daemons -> Procs]
               /\ \A e \in Daemons :
                     \/ /\ Same(proc[e], proc'[e]) /\ proc[e].hit \subseteq proc'[e].hit
                        /\ "dir" \in proc'[e].hit
                     \/ proc'[e].pc \in {"ended", "failed"}
    <2>1. \A e \in Daemons : proc[e] \in Procs
      BY <1>0 DEF TypeInv
    <2>2. proc' = [e \in Daemons |-> IF e \in Idle THEN proc[e] ELSE Marked(proc[e], "dir")]
      BY <1>1 DEF Disturbed, Marked
    <2>3. ASSUME NEW e \in Daemons
          PROVE  /\ Marked(proc[e], "dir") \in Procs
                 /\ Same(proc[e], Marked(proc[e], "dir"))
                 /\ "dir" \in Marked(proc[e], "dir").hit
                 /\ proc[e].hit \subseteq Marked(proc[e], "dir").hit
      BY <1>0, <2>1, MarkFacts
    <2>4. \A e \in Idle : proc[e].pc \in {"ended", "failed"}
      BY DEF Idle
    <2> QED
      BY <2>1, <2>2, <2>3, <2>4
  <1>2. ASSUME NEW i \in 1..Depth, Remove(i)
        PROVE  IInv'
    <2>1. proc' = Disturbed /\ UNCHANGED owner
          /\ dir' = [j \in 1..Depth |-> IF j < i THEN dir[j] ELSE None]
      BY <1>2 DEF Remove
    <2>2. TypeInv'
      <3>1. dir' \in [1..Depth -> Kinds]
        BY <1>0, <2>1 DEF TypeInv, Kinds
      <3> QED
        BY <1>1, <2>1, <3>1 DEF TypeInv
    <2>3. ASSUME NEW e \in Daemons
          PROVE  Good(e)'
      <3>1. Told(e) \/ proc'[e].pc \in {"ended", "failed"}
        BY <1>1, <2>1 DEF Told, Same
      <3> QED
        BY <3>1, Bystander DEF IInv
    <2> QED
      BY <2>2, <2>3 DEF IInv
  <1>3. ASSUME NEW i \in 1..Depth, NEW kind \in {"dir", "file", "link"}, Create(i, kind)
        PROVE  IInv'
    <2>1. /\ dir[i] = None /\ dir' = [dir EXCEPT ![i] = kind]
          /\ owner' = owner \/ i = Depth
          /\ proc' = proc \/ proc' = Disturbed
      BY <1>3 DEF Create
    <2>2. /\ dir' \in [1..Depth -> Kinds]
          /\ dir[Depth] # None => dir'[Depth] # None
          /\ owner' # owner => dir[Depth] = None
      <3>1. dir \in [1..Depth -> Kinds] /\ kind \in Kinds /\ kind # None
            /\ Depth \in 1..Depth
        BY <1>0 DEF TypeInv, Kinds, None
      <3> QED
        BY <2>1, <3>1
    <2>3. TypeInv'
      BY <1>0, <1>1, <2>1, <2>2 DEF TypeInv
    <2>4. ASSUME NEW e \in Daemons
          PROVE  Good(e)'
      <3>1. Told(e) \/ proc'[e].pc \in {"ended", "failed"}
        BY <1>1, <2>1, <2>2 DEF Told, Same
      <3> QED
        BY <3>1, Bystander DEF IInv
    <2> QED
      BY <2>3, <2>4 DEF IInv
  <1> QED
    BY <1>2, <1>3 DEF Others

-----------------------------------------------------------------------------
(* The theorem. *)

LEMMA InitIInv == Init => IInv
  <1> SUFFICES ASSUME Init
               PROVE  IInv
    OBVIOUS
  <1>1. TypeInv
    BY NoProcessFacts DEF Init, TypeInv, Kinds
  <1>2. ASSUME NEW d \in Daemons
        PROVE  Good(d)
    <2>1. proc[d].pc = "ended"
      BY NoProcessFacts DEF Init
    <2> QED
      BY <2>1
      DEF Good, Identity, Ownership, ToGroups, ToGid, ToUid, Done, Capable, Limited, User,
          Member, Grouped, Handed
  <1> QED
    BY <1>1, <1>2 DEF IInv

LEMMA NextIInv == IInv /\ [Next]_vars => IInv'
  <1> SUFFICES ASSUME IInv, [Next]_vars
               PROVE  IInv'
    OBVIOUS
  <1>1. ASSUME NEW d \in Daemons, Run(d)
        PROVE  IInv'
    <2>1. CASE main(d)
      BY <2>1, MainStep
    <2>2. CASE ensuredir(d)
      BY <2>2, MkdirStep
    <2>3. CASE ensuredir_stat(d)
      BY <2>3, StatStep
    <2>4. CASE ensuredir_chown(d)
      BY <2>4, ChownStep
    <2>5. CASE keepcaps(d) \/ unkeepcaps(d)
      BY <2>5, KeepStep
    <2>6. CASE setgroups(d) \/ setgid(d) \/ setuid(d)
      BY <2>6, IdentityStep
    <2>7. CASE cap_set_proc(d) \/ cap_set_ambient(d)
      BY <2>7, CapsStep
    <2>8. CASE offline(d)
      BY <2>8, EndStep
    <2>9. CASE socket_open(d)
      BY <2>9, OpenStep
    <2>10. CASE open_unix_bind(d)
      BY <2>10, BindStep
    <2>11. CASE server_create_ends(d)
      BY <2>11, ListenStep
    <2> QED
      BY <1>1, <2>1, <2>2, <2>3, <2>4, <2>5, <2>6, <2>7, <2>8, <2>9, <2>10, <2>11 DEF Run
  <1>2. ASSUME NEW d \in Daemons, server_serve_ends(d) \/ Die(d)
        PROVE  IInv'
    BY <1>2, EndStep
  <1>3. ASSUME NEW d \in Daemons, Start(d)
        PROVE  IInv'
    BY <1>3, StartStep
  <1>4. CASE Others
    BY <1>4, OthersStep
  <1>5. CASE UNCHANGED vars
    <2>1. UNCHANGED <<proc, dir, owner>>
      BY <1>5 DEF vars, system
    <2> QED
      BY <2>1 DEF IInv, TypeInv, Good, Identity, Ownership
  <1> QED
    BY <1>1, <1>2, <1>3, <1>4, <1>5 DEF Next

LEMMA AlwaysIInv == Spec => []IInv
  BY InitIInv, NextIInv, PTL DEF Spec

(* Every daemon that serves or processes its input, and that was not told  *)
(* to keep going after a failed change, has the identity that its options  *)
(* ask for, the capabilities of its task and no other, and the directory   *)
(* that it was asked to own: whatever the options, however many daemons    *)
(* start at the same time on directories that other programs change, and   *)
(* whatever call fails (main and ensuredir of main-sec-lsm-managerd.c).    *)
THEOREM DaemonServesAsConfigured == Spec => []ServesAsConfigured
  <1>1. IInv => ServesAsConfigured
    <2> SUFFICES ASSUME IInv, NEW d \in Daemons,
                        proc[d].pc \in {"serving", "offline"}, ~proc[d].opt.keepgoing
                 PROVE  LET p == proc[d]
                            was == Started(p.as)
                            asked(id, default) == IF id >= 0 THEN id ELSE default
                        IN
                        /\ p.cred.uid = asked(p.want.uid, was.uid)
                        /\ p.cred.gid = asked(p.want.gid, was.gid)
                        /\ p.cred.gids = IF p.opt.groups = NoGroups THEN was.gids
                                         ELSE {p.want.gids[i] : i \in DOMAIN p.want.gids}
                        /\ p.cred.effective = cap_vector /\ p.cred.permitted = cap_vector
                        /\ p.cred.ambient = cap_vector
                        /\ (/\ p.opt.makesockdir /\ p.opt.ownsockdir
                            /\ p.opt.socket # "abstract"
                            /\ {"dir", "owner"} \cap p.hit = {})
                           => ~Differs(p.want.uid, owner.uid) /\ ~Differs(p.want.gid, owner.gid)
      BY DEF ServesAsConfigured
    <2>1. Identity(d) /\ Ownership(d)
      BY DEF IInv, Good
    <2>2. /\ proc[d].pc \in Grouped /\ proc[d].pc \in Member /\ proc[d].pc \in User
          /\ proc[d].pc \in Limited /\ proc[d].pc \in Capable /\ proc[d].pc \in Handed
      BY DEF Grouped, Member, User, Limited, Capable, Done, Handed
    <2>3. (/\ Owns(proc[d]) /\ {"dir", "owner"} \cap proc[d].hit = {})
          => ~Differs(proc[d].want.uid, owner.uid) /\ ~Differs(proc[d].want.gid, owner.gid)
      BY <2>1, <2>2 DEF Ownership
    <2> QED
      BY <2>1, <2>2, <2>3 DEF Identity, Owns, Asked
  <1> QED
    BY <1>1, AlwaysIInv, PTL

=============================================================================
