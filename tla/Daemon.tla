------------------------------- MODULE Daemon -------------------------------
(***************************************************************************)
(* The start of the daemon, main of src/src/main-sec-lsm-managerd.c: its   *)
(* options, the directory of its socket, the change of identity and of     *)
(* capabilities, the offline mode of src/src/offline.c and the opening of  *)
(* the socket by src/src/protocol/socket.c, until READY.  Module Server    *)
(* has what the daemon does then.                                          *)
(*                                                                         *)
(* Several daemons may be started on the same socket, one after the other  *)
(* or at the same time.  They share the directories and the names of the   *)
(* sockets, which other programs change too; one step is one call to the   *)
(* system, each may fail, and a daemon may be killed between two of them.  *)
(***************************************************************************)
EXTENDS Integers, Sequences, FiniteSets

CONSTANTS
    Daemons,            \* the processes
    Starts,             \* the ways to start them, [as, opt], see Commands
    Depth,              \* number of directories in the path of the socket
    SUPL_GROUPS_MAX,    \* the most supplementary groups
    MaxStarts, MaxFaults, MaxChanges    \* bounds: starts, failures, other programs

Unset == "unset"          \* an option that is not given
NoGroups == <<Unset>>
None == "none"
Stale == "stale"          \* the name of a socket that nobody has open

(* The system: its users and groups, and the numbers among the texts that  *)
(* the options have.  isid takes the empty text for zero.                  *)
Passwd == [slm |-> [uid |-> 1, gid |-> 1]]
Group == [slm |-> 1, cynagora |-> 2]
isid(text) == CASE text = "" -> 0 [] text = "7" -> 7 [] OTHER -> -1

(* Capabilities: those to change of identity, that to give files away and  *)
(* those of cap_vector.  The service bounds what root has.                 *)
cap_vector == {"mac"}
Started(as) ==
    LET has(id, caps) == [uid |-> id, gid |-> id, gids |-> {id}, keep |-> FALSE,
                          permitted |-> caps, effective |-> caps,
                          inheritable |-> {}, ambient |-> {}]
    IN CASE as = "root"    -> has(0, {"setid", "chown"} \cup cap_vector)
         [] as = "service" -> has(0, {"setid"} \cup cap_vector)
         [] as = "other"   -> has(9, {})

Commands ==
    [as : {"root", "service", "other"},
     opt : [user : STRING, group : STRING, groups : Seq(STRING),
            socket : {"path", "abstract", "sd"}, makesockdir : BOOLEAN,
            ownsockdir : BOOLEAN, keepgoing : BOOLEAN, offline : BOOLEAN,
            shutoff : STRING]]

ASSUME DaemonAssumption ==
    /\ {None, Stale} \cap Daemons = {}
    /\ Depth \in Nat \ {0} /\ {SUPL_GROUPS_MAX, MaxStarts, MaxFaults, MaxChanges} \subseteq Nat
    /\ Starts \subseteq Commands /\ Starts # {}

VARIABLES
    proc,         \* [Daemons -> [pc, as, opt, want, cred, level, hit]]
    dir,          \* [1..Depth -> None, "dir", "file", "link"]: a link leads nowhere
    owner,        \* [uid, gid] of the last directory
    sock,         \* the name in that directory: None, Stale or who listens to it
    abstract,     \* who has the abstract name
    starts, faults, changes

system == <<dir, owner, sock, abstract>>
vars == <<proc, system, starts, faults, changes>>

(* A process that does not run yet, or no more. *)
NoProcess ==
    LET s == CHOOSE s \in Starts : TRUE IN
    [pc |-> "ended", as |-> s.as, opt |-> s.opt, cred |-> Started(s.as),
     want |-> [uid |-> -1, gid |-> -1, gids |-> <<>>], level |-> Depth, hit |-> {}]

Consistent(d) == \A i \in 2..Depth : d[i] # None => d[i - 1] = "dir"

Init ==
    /\ dir \in {d \in [1..Depth -> {None, "dir", "file", "link"}] : Consistent(d)}
    /\ owner = [uid |-> 0, gid |-> 0]
    /\ sock \in {None, Stale} /\ (sock = Stale => dir[Depth] = "dir")
    /\ abstract = None
    /\ proc = [d \in Daemons |-> NoProcess]
    /\ starts = 0 /\ faults = 0 /\ changes = 0

Idle == {d \in Daemons : proc[d].pc \in {"ended", "failed"}}
Starting(d) == proc[d].pc \notin {"ended", "failed", "serving"}
Goto(d, next) == proc' = [proc EXCEPT ![d].pc = next]
Exit(d, status, hits) ==
    proc' = [proc EXCEPT ![d] = [NoProcess EXCEPT !.pc = status,
                                                  !.hit = proc[d].hit \cup hits]]
Fails(d) == Exit(d, "failed", {})

(* A failure of a call. *)
Fault == faults < MaxFaults /\ faults' = faults + 1 /\ UNCHANGED <<starts, changes>>
NoFault == UNCHANGED <<starts, faults, changes>>
FailsByFault(d) == Fault /\ Exit(d, "failed", {"fault"})

-----------------------------------------------------------------------------
(* The identity that the options ask for.  A user that is given by number  *)
(* brings no group.                                                        *)
Given(text) == text # Unset
Known(text, base) == isid(text) >= 0 \/ text \in DOMAIN base
group_id(text) == IF isid(text) >= 0 THEN isid(text) ELSE Group[text]

Taken(o) ==
    IF o.groups = NoGroups THEN <<>>
    ELSE SubSeq(o.groups, 1, IF Len(o.groups) < SUPL_GROUPS_MAX THEN Len(o.groups)
                             ELSE SUPL_GROUPS_MAX)

Wanted(o) ==
    [uid |-> IF ~Given(o.user) THEN -1
             ELSE IF isid(o.user) >= 0 THEN isid(o.user) ELSE Passwd[o.user].uid,
     gid |-> IF Given(o.group) THEN group_id(o.group)
             ELSE IF Given(o.user) /\ isid(o.user) < 0 THEN Passwd[o.user].gid ELSE -1,
     gids |-> [i \in DOMAIN Taken(o) |-> group_id(Taken(o)[i])]]

Understood(o) ==
    /\ o.shutoff # "x"
    /\ Given(o.user) => Known(o.user, Passwd)
    /\ Given(o.group) => Known(o.group, Group)
    /\ \A i \in DOMAIN Taken(o) : Known(Taken(o)[i], Group)

(* main reads the options; the directory is handled before the identity    *)
(* changes.                                                                *)
main(d) ==
    LET o == proc[d].opt IN
    /\ proc[d].pc = "main"
    /\ \/ Understood(o)
          /\ proc' = [proc EXCEPT ![d].want = Wanted(o), ![d].level = Depth,
                                  ![d].pc = IF o.makesockdir /\ o.socket # "abstract"
                                            THEN "mkdir" ELSE "prctl"]
       \/ ~Understood(o) /\ Fails(d)
    /\ NoFault /\ UNCHANGED system

-----------------------------------------------------------------------------
(* ensure_directory and ensuredir.  The path is cut after its first level  *)
(* components.                                                             *)
mkdir(level) ==
    LET bad == {i \in 1..level - 1 : dir[i] # "dir"}
    IN  IF \E i \in bad : dir[i] = "file" THEN "ENOTDIR"
        ELSE IF bad # {} THEN "ENOENT"
        ELSE IF dir[level] # None THEN "EEXIST" ELSE "created"

(* A missing parent is made first; what exists meanwhile is taken as it is.*)
ensuredir(d) ==
    LET n == proc[d].level
        made == mkdir(n)
        exists == proc' = IF n = Depth THEN [proc EXCEPT ![d].pc = "stat"]
                          ELSE [proc EXCEPT ![d].level = n + 1]
        may == cap_vector \subseteq proc[d].cred.effective
    IN
    /\ proc[d].pc = "mkdir"
    /\ \/ /\ made = "created" /\ may /\ exists /\ NoFault
          /\ dir' = [dir EXCEPT ![n] = "dir"]
          /\ owner' = IF n = Depth THEN [uid |-> proc[d].cred.uid, gid |-> proc[d].cred.gid]
                      ELSE owner
       \/ /\ made = "EEXIST" /\ exists /\ NoFault /\ UNCHANGED <<dir, owner>>
       \/ /\ made = "ENOENT" /\ proc' = [proc EXCEPT ![d].level = n - 1]
          /\ NoFault /\ UNCHANGED <<dir, owner>>
       \/ /\ made = "ENOTDIR" \/ (made = "created" /\ ~may)
          /\ Fails(d) /\ NoFault /\ UNCHANGED <<dir, owner>>
       \/ FailsByFault(d) /\ UNCHANGED <<dir, owner>>
    /\ UNCHANGED <<sock, abstract>>

IsDirectory == \A i \in 1..Depth : dir[i] = "dir"
Differs(id, current) == id >= 0 /\ id # current
Owned(o, want) == IF o.ownsockdir THEN want ELSE [want EXCEPT !.uid = -1, !.gid = -1]

(* The directory is there: is it one, and whose? *)
ensuredir_stat(d) ==
    LET for == Owned(proc[d].opt, proc[d].want) IN
    /\ proc[d].pc = "stat"
    /\ \/ ~IsDirectory /\ Fails(d)
       \/ /\ IsDirectory
          /\ Goto(d, IF Differs(for.uid, owner.uid) \/ Differs(for.gid, owner.gid)
                     THEN "chown" ELSE "prctl")
    /\ NoFault /\ UNCHANGED system

ensuredir_chown(d) ==
    LET want == proc[d].want
        may == IsDirectory /\ "chown" \in proc[d].cred.effective
    IN
    /\ proc[d].pc = "chown"
    /\ \/ /\ may /\ NoFault
          /\ owner' = [uid |-> IF want.uid >= 0 THEN want.uid ELSE owner.uid,
                       gid |-> IF want.gid >= 0 THEN want.gid ELSE owner.gid]
          /\ proc' = [e \in Daemons |->
                        IF e = d THEN [proc[d] EXCEPT !.pc = "prctl"]
                        ELSE IF e \in Idle THEN proc[e]
                        ELSE [proc[e] EXCEPT !.hit = @ \cup {"owner"}]]
       \/ ~may /\ Fails(d) /\ NoFault /\ UNCHANGED owner
       \/ FailsByFault(d) /\ UNCHANGED owner
    /\ UNCHANGED <<dir, sock, abstract>>

-----------------------------------------------------------------------------
(* A change of the credentials.  Its failure is fatal unless the daemon    *)
(* keeps going.                                                            *)
Change(d, may, new, next) ==
    LET on(hits) == /\ proc[d].opt.keepgoing
                    /\ proc' = [proc EXCEPT ![d].pc = next, ![d].hit = @ \cup hits]
        out == ~proc[d].opt.keepgoing
    IN
    /\ \/ may /\ NoFault /\ proc' = [proc EXCEPT ![d].cred = new, ![d].pc = next]
       \/ ~may /\ NoFault /\ (on({}) \/ (out /\ Fails(d)))
       \/ Fault /\ on({"fault"})
       \/ out /\ FailsByFault(d)
    /\ UNCHANGED system

Skip(d, next) == Goto(d, next) /\ NoFault /\ UNCHANGED system

(* PR_SET_KEEPCAPS. *)
keepcaps(d) ==
    /\ proc[d].pc = "prctl"
    /\ proc' = [proc EXCEPT ![d].cred.keep = TRUE, ![d].pc = "setgroups"]
    /\ NoFault /\ UNCHANGED system

setgroups(d) ==
    LET cred == proc[d].cred
        gids == proc[d].want.gids
    IN
    /\ proc[d].pc = "setgroups"
    /\ \/ proc[d].opt.groups = NoGroups /\ Skip(d, "setgid")
       \/ /\ proc[d].opt.groups # NoGroups
          /\ Change(d, "setid" \in cred.effective,
                    [cred EXCEPT !.gids = {gids[i] : i \in DOMAIN gids}], "setgid")

setgid(d) ==
    LET cred == proc[d].cred
        gid == proc[d].want.gid
    IN
    /\ proc[d].pc = "setgid"
    /\ \/ gid < 0 /\ Skip(d, "setuid")
       \/ gid >= 0 /\ Change(d, "setid" \in cred.effective \/ gid = cred.gid,
                              [cred EXCEPT !.gid = gid], "setuid")

(* From root to another user, the kernel withdraws the effective           *)
(* capabilities, and the permitted ones unless they are kept.              *)
become(cred, uid) ==
    IF cred.uid # 0 \/ uid = 0 THEN [cred EXCEPT !.uid = uid]
    ELSE [cred EXCEPT !.uid = uid, !.effective = {}, !.ambient = {},
                      !.permitted = IF cred.keep THEN @ ELSE {}]

(* Faulty: the daemon goes on as root when it may not change of user. *)
setuid_lax(d) ==
    LET cred == proc[d].cred
        uid == proc[d].want.uid
    IN
    /\ proc[d].pc = "setuid"
    /\ \/ uid < 0 /\ Skip(d, "caps")
       \/ /\ uid >= 0 /\ NoFault /\ UNCHANGED system
          /\ proc' = [proc EXCEPT ![d].cred = become(cred, uid), ![d].pc = "caps"]
       \/ uid >= 0 /\ Fault /\ Goto(d, "caps") /\ UNCHANGED system

setuid(d) ==
    LET cred == proc[d].cred
        uid == proc[d].want.uid
    IN
    /\ proc[d].pc = "setuid"
    /\ \/ uid < 0 /\ Skip(d, "caps")
       \/ uid >= 0 /\ Change(d, "setid" \in cred.effective \/ uid = cred.uid,
                              become(cred, uid), "caps")

(* The capabilities become those of cap_vector, no more and no less... *)
cap_set_proc(d) ==
    LET cred == proc[d].cred IN
    /\ proc[d].pc = "caps"
    /\ Change(d, cap_vector \subseteq cred.permitted,
              [cred EXCEPT !.permitted = cap_vector, !.effective = cap_vector,
                           !.inheritable = cap_vector, !.ambient = @ \cap cap_vector],
              "ambient")

(* ... for the programs that it executes too. *)
cap_set_ambient(d) ==
    LET cred == proc[d].cred IN
    /\ proc[d].pc = "ambient"
    /\ Change(d, cap_vector \subseteq (cred.permitted \cap cred.inheritable),
              [cred EXCEPT !.ambient = @ \cup cap_vector], "unkeep")

unkeepcaps(d) ==
    /\ proc[d].pc = "unkeep"
    /\ proc' = [proc EXCEPT ![d].cred.keep = FALSE,
                            ![d].pc = IF proc[d].opt.offline THEN "offline" ELSE "create"]
    /\ NoFault /\ UNCHANGED system

(* The requests of the standard input are processed, in place of those of  *)
(* a socket: until its end, or until one that breaks the protocol.         *)
offline(d) ==
    /\ proc[d].pc = "offline"
    /\ \/ \E end \in {"ended", "failed"} : Exit(d, end, {}) /\ NoFault
       \/ FailsByFault(d)
    /\ UNCHANGED system

-----------------------------------------------------------------------------
(* sec_lsm_manager_server_create and socket_open.  The descriptor given by *)
(* systemd is used as it is; the name of a path is freed first, whoever    *)
(* has it.                                                                 *)
Access(d) ==
    IsDirectory /\ (\/ cap_vector \subseteq proc[d].cred.effective
                    \/ proc[d].cred.uid = owner.uid)

(* Faulty: the name is not freed. *)
socket_open_kept(d) ==
    /\ proc[d].pc = "create" /\ NoFault /\ UNCHANGED system
    /\ Goto(d, IF proc[d].opt.socket = "sd" THEN "listen" ELSE "bind")

socket_open(d) ==
    LET socket == proc[d].opt.socket IN
    /\ proc[d].pc = "create"
    /\ \/ FailsByFault(d) /\ UNCHANGED sock
       \/ socket = "sd" /\ Goto(d, "listen") /\ NoFault /\ UNCHANGED sock
       \/ socket = "abstract" /\ Goto(d, "bind") /\ NoFault /\ UNCHANGED sock
       \/ /\ socket = "path" /\ NoFault
          /\ sock' = IF Access(d) THEN None ELSE sock
          /\ proc' = [e \in Daemons |->
                        IF e = d THEN [proc[d] EXCEPT !.pc = "bind"]
                        ELSE IF Access(d) /\ sock = e
                        THEN [proc[e] EXCEPT !.hit = @ \cup {"socket"}] ELSE proc[e]]
    /\ UNCHANGED <<dir, owner, abstract>>

(* The name goes to the first that binds it after it was freed. *)
open_unix_bind(d) ==
    LET path == proc[d].opt.socket = "path"
        free == IF path THEN Access(d) /\ sock = None ELSE abstract = None
        waits(e) == /\ e # d /\ proc[e].opt.socket = proc[d].opt.socket
                    /\ proc[e].pc = "bind" \/ (~path /\ Starting(e))
    IN
    /\ proc[d].pc = "bind"
    /\ \/ /\ free /\ NoFault
          /\ sock' = IF path THEN d ELSE sock
          /\ abstract' = IF path THEN abstract ELSE d
          /\ proc' = [e \in Daemons |->
                        IF e = d THEN [proc[d] EXCEPT !.pc = "listen"]
                        ELSE IF waits(e) THEN [proc[e] EXCEPT !.hit = @ \cup {"socket"}]
                        ELSE proc[e]]
       \/ ~free /\ Fails(d) /\ NoFault /\ UNCHANGED <<sock, abstract>>
       \/ FailsByFault(d) /\ UNCHANGED <<sock, abstract>>
    /\ UNCHANGED <<dir, owner>>

(* A daemon that leaves closes its socket; the name of a path stays. *)
Close(d) ==
    /\ sock' = IF sock = d THEN Stale ELSE sock
    /\ abstract' = IF abstract = d THEN None ELSE abstract
    /\ UNCHANGED <<dir, owner>>

(* listen, whose result is not looked at, then polling of the socket. *)
server_create_ends(d) ==
    /\ proc[d].pc = "listen"
    /\ \/ Goto(d, "serving") /\ NoFault /\ UNCHANGED system
       \/ FailsByFault(d) /\ Close(d)

Run(d) ==
    \/ main(d)
    \/ ensuredir(d) \/ ensuredir_stat(d) \/ ensuredir_chown(d)
    \/ keepcaps(d) \/ setgroups(d) \/ setgid(d) \/ setuid(d)
    \/ cap_set_proc(d) \/ cap_set_ambient(d) \/ unkeepcaps(d)
    \/ offline(d)
    \/ socket_open(d) \/ open_unix_bind(d) \/ server_create_ends(d)

(* The service ends, of inactivity if a delay was set. *)
server_serve_ends(d) ==
    /\ proc[d].pc = "serving" /\ proc[d].opt.shutoff # "never"
    /\ Exit(d, "ended", {}) /\ Close(d) /\ NoFault

-----------------------------------------------------------------------------
(* What a start needs of the system to be able to succeed. *)
Sound(s) ==
    LET o == s.opt IN
    /\ s.as # "other" /\ Understood(o)
    /\ IF o.socket = "abstract" THEN abstract = None
       ELSE IF o.makesockdir THEN \A i \in 1..Depth : dir[i] \in {None, "dir"}
       ELSE o.socket = "path" => IsDirectory
    /\ o.makesockdir /\ o.ownsockdir => s.as = "root"

(* Someone, or systemd after a failure, starts a daemon.  Which of the     *)
(* processes that do not run it becomes does not matter.                   *)
Start(d) ==
    /\ starts < MaxStarts /\ Idle # {} /\ d = CHOOSE e \in Idle : TRUE
    /\ \E s \in Starts :
          proc' = [proc EXCEPT ![d] =
                     [@ EXCEPT !.pc = "main", !.as = s.as, !.opt = s.opt,
                               !.cred = Started(s.as),
                               !.hit = IF Sound(s) THEN {} ELSE {"unsound"}]]
    /\ starts' = starts + 1 /\ UNCHANGED <<system, faults, changes>>

(* A daemon is killed. *)
Die(d) ==
    /\ Starting(d) \/ proc[d].pc = "serving"
    /\ FailsByFault(d) /\ Close(d)

(* Other programs: one makes the directory too, or puts something else in  *)
(* its place; one removes a directory and what it has.                     *)
Disturbed ==
    [e \in Daemons |-> IF e \in Idle THEN proc[e] ELSE [proc[e] EXCEPT !.hit = @ \cup {"dir"}]]

Create(i, kind) ==
    /\ changes < MaxChanges /\ changes' = changes + 1 /\ UNCHANGED <<starts, faults>>
    /\ dir[i] = None /\ (i > 1 => dir[i - 1] = "dir")
    /\ dir' = [dir EXCEPT ![i] = kind]
    /\ owner' = IF i = Depth THEN [uid |-> 5, gid |-> 5] ELSE owner
    /\ proc' = IF kind = "dir" THEN proc
               ELSE Disturbed
    /\ UNCHANGED <<sock, abstract>>

Remove(i) ==
    /\ changes < MaxChanges /\ changes' = changes + 1 /\ UNCHANGED <<starts, faults>>
    /\ dir[i] # None
    /\ dir' = [j \in 1..Depth |-> IF j < i THEN dir[j] ELSE None]
    /\ sock' = None
    /\ proc' = Disturbed
    /\ UNCHANGED <<owner, abstract>>

Others == \E i \in 1..Depth : Remove(i) \/ \E kind \in {"dir", "file", "link"} : Create(i, kind)

Next ==
    \/ \E d \in Daemons : Run(d) \/ server_serve_ends(d) \/ Start(d) \/ Die(d)
    \/ Others

(* A started process runs.  Nobody has to start one, and none has to fail. *)
Spec == Init /\ [][Next]_vars /\ \A d \in Daemons : WF_vars(Run(d))

-----------------------------------------------------------------------------
(* Properties. *)

(* A daemon that serves or processes its input, and that was not told to   *)
(* keep going, has exactly the identity that its options ask for and the   *)
(* capabilities of its task, for the programs it executes too, and can no  *)
(* more take another identity; the directory it was asked to own has its   *)
(* owner, even when others create it at the same time.                     *)
ServesAsConfigured ==
    \A d \in Daemons :
        LET p == proc[d]
            was == Started(p.as)
            asked(id, default) == IF id >= 0 THEN id ELSE default
        IN
        p.pc \in {"serving", "offline"} /\ ~p.opt.keepgoing =>
            /\ p.cred.uid = asked(p.want.uid, was.uid)
            /\ p.cred.gid = asked(p.want.gid, was.gid)
            /\ p.cred.gids = IF p.opt.groups = NoGroups THEN was.gids
                             ELSE {p.want.gids[i] : i \in DOMAIN p.want.gids}
            /\ p.cred.effective = cap_vector /\ p.cred.permitted = cap_vector
            /\ p.cred.ambient = cap_vector
            /\ (/\ p.opt.makesockdir /\ p.opt.ownsockdir /\ p.opt.socket # "abstract"
                /\ {"dir", "owner"} \cap p.hit = {})
               => ~Differs(p.want.uid, owner.uid) /\ ~Differs(p.want.gid, owner.gid)

(* A daemon that is ready: clients that connect reach it. *)
Reached(d) ==
    \/ proc[d].pc = "offline"
    \/ /\ proc[d].pc = "serving"
       /\ proc[d].opt.socket = "path" => sock = d
       /\ proc[d].opt.socket = "abstract" => abstract = d

(* A start that finds what it needs ends with a daemon that clients reach: *)
(* the steps are in an order in which each is still allowed, directories   *)
(* that others make at the same time and the name left by a daemon that    *)
(* died do not prevent it.  Only a failure, a directory taken away or      *)
(* another daemon that takes the name meanwhile do (Spec).                 *)
StartServes ==
    \A d \in Daemons :
        proc[d].pc = "main" ~> \/ Reached(d)
                               \/ proc[d].hit \cap {"unsound", "fault", "dir", "socket"} # {}
=============================================================================
