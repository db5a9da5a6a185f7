------------------------------- MODULE Selinux -------------------------------
(***************************************************************************)
(* The SELinux backend of the actions: mac_install and mac_uninstall as    *)
(* src/src/lsm-selinux/selinux.c, selinux-template.c and selinux-compile.c *)
(* define them.  Module Install has what action.c does around them         *)
(* (permissions before, their withdrawal after a failure) and the Smack    *)
(* backend.                                                                *)
(*                                                                         *)
(* An application has three sources (te, if, fc), generated from templates *)
(* and from its paths, a module compiled from them by a script (pp), and   *)
(* that module in the policy, under libsemanage.  One step is one call to  *)
(* the system; each may fail, and the daemon may die between two of them.  *)
(* All requests are about versions of one application.                     *)
(***************************************************************************)
EXTENDS Naturals, Sequences

CONSTANTS
    Versions,     \* the versions of the application
    Paths,        \* the paths that they have
    PathSet,      \* [Versions -> Seq([path, type])]: their typed paths
    FaultKinds,   \* which calls may fail, see Kinds
    MaxFaults     \* bound on the failures met by one request

(* semanage: a call of libsemanage.  errno: it fails and leaves errno at   *)
(* zero.  template: reading a template or opening a file for writing;      *)
(* write, fclose: writing it.  fork: vfork or waitpid; script: the script  *)
(* of compilation.  remove, stat, xattr: those calls.  crash: the daemon   *)
(* dies.                                                                   *)
Kinds == {"semanage", "errno", "template", "write", "fclose", "fork", "script",
          "remove", "stat", "xattr", "crash"}

None == "none"
Garbled == "garbled"      \* not the content of any version
Sources == <<"te", "if", "fc">>
Contents == Versions \cup {None, Garbled}

(* The label of each type of path.  That of the default type is never      *)
(* initialised.                                                            *)
Undefined == "undefined"
suffix ==
    [default |-> Undefined, conf |-> "conf_t", data |-> "data_t",
     exec |-> "exec_t", http |-> "http_t", icon |-> "icon_t", id |-> "t",
     lib |-> "lib_t", plug |-> "redpesk_public_t", public |-> "redpesk_public_t"]
Labels == {"unset"} \cup {suffix[t] : t \in DOMAIN suffix}

(* No path is twice in a version (SettingsUnique of module Session). *)
ASSUME SelinuxAssumption ==
    /\ Versions \cap {None, Garbled} = {}
    /\ PathSet \in [Versions -> Seq([path : Paths, type : DOMAIN suffix])]
    /\ \A v \in Versions : \A i, j \in DOMAIN PathSet[v] :
          PathSet[v][i].path = PathSet[v][j].path => i = j
    /\ FaultKinds \subseteq Kinds /\ MaxFaults \in Nat

VARIABLES
    file,         \* ["te", "if", "fc", "pp" -> Contents]: the files of the module
    policy,       \* the module of the application in the policy
    label,        \* [Paths -> Labels]: the attribute of the paths
    long,         \* the identifier has at least four characters
    defs,         \* "good" or Undefined: the identifier in the labels
    job,          \* [op, version], the current or else the last request
    pc, n,        \* "idle" or the phase of the request, position in its loop
    status,       \* "ok", "failed" or "crashed", how the request ends
    faults,       \* failures met by the request
    lost,         \* one of them was not noticed
    before        \* the module when the request began, <<file, policy>>

system == <<file, policy, label>>
request == <<long, defs, job, before>>
vars == <<system, request, pc, n, status, faults, lost>>

NoFiles == [f \in {"te", "if", "fc", "pp"} |-> None]

Init ==
    /\ file = NoFiles /\ policy = None /\ label = [p \in Paths |-> "unset"]
    /\ long \in BOOLEAN /\ defs = "good"
    /\ job = [op |-> "none", version |-> None]
    /\ pc = "idle" /\ n = 1 /\ status = "ok"
    /\ faults = 0 /\ lost = FALSE /\ before = <<file, policy>>

Works == UNCHANGED <<faults, lost>>
Meets(kind) ==
    /\ kind \in FaultKinds /\ faults < MaxFaults
    /\ faults' = faults + 1
Fault(kind) == Meets(kind) /\ UNCHANGED lost
LostFault(kind) == Meets(kind) /\ lost' = TRUE

Enter(phase) == pc' = phase /\ n' = 1 /\ UNCHANGED <<status, request>>
Return(result) ==
    pc' = "idle" /\ n' = 1 /\ status' = result /\ UNCHANGED request
Advance == n' = n + 1 /\ UNCHANGED <<pc, status, request>>

version == job.version
Put(f, content) ==
    file' = [file EXCEPT ![f] = content] /\ UNCHANGED <<policy, label>>
AllSources == \A i \in DOMAIN Sources : file[Sources[i]] # None

-----------------------------------------------------------------------------
(* selinux_install and selinux_uninstall begin. *)

(* Only four characters of the identifier are copied, and the terminating  *)
(* zero only when it is one of them.                                       *)
trfid == IF long THEN {"good", Undefined} ELSE {"good"}

Begin(op, v, phase) ==
    /\ pc = "idle"
    /\ job' = [op |-> op, version |-> v]
    /\ pc' = phase /\ n' = 1 /\ status' = "ok"
    /\ faults' = 0 /\ lost' = FALSE /\ before' = <<file, policy>>
    /\ UNCHANGED <<system, long>>

selinux_install(v) == Begin("install", v, "handle") /\ defs' \in trfid

selinux_uninstall == Begin("uninstall", None, "files") /\ defs' = "good"

(* A context without identifier is refused by both. *)
refuse ==
    /\ pc = "idle"
    /\ job' = [op |-> "refused", version |-> None] /\ status' = "failed"
    /\ defs' = "good" /\ faults' = 0 /\ lost' = FALSE /\ before' = <<file, policy>>
    /\ UNCHANGED <<system, long, pc, n>>

(* Faulty: an installation is refused where sources of the module exist.   *)
create_semanage_handle_checking ==
    /\ pc = "handle" /\ Works
    /\ IF AllSources THEN Return("failed") ELSE Enter("te")
    /\ UNCHANGED system

create_semanage_handle ==
    /\ pc \in {"handle", "unhandle"}
    /\ \/ Works /\ Enter(IF pc = "handle" THEN "te" ELSE "unmodule")
       \/ Fault("semanage") /\ Return("failed")
    /\ UNCHANGED system

-----------------------------------------------------------------------------
(* create_selinux_rules. *)

(* A file is written: nothing of it when it cannot be opened, any part     *)
(* when writing fails.  A failing fclose is logged and forgotten.          *)
Write(f, content, next, failed) ==
    \/ Works /\ Put(f, content) /\ next
    \/ Fault("template") /\ UNCHANGED system /\ failed
    \/ Fault("write") /\ Put(f, Garbled) /\ failed
    \/ LostFault("fclose") /\ Put(f, Garbled) /\ next

template_process ==
    \/ pc = "te" /\ Write("te", version, Enter("if"), Return("failed"))
    \/ pc = "if" /\ Write("if", version, Enter("fc"), Enter("undo_te"))

(* The label that a path gets.  Those of all types but two contain the     *)
(* identifier.                                                             *)
Labelled(type) ==
    IF defs = Undefined /\ type \notin {"plug", "public"} THEN Undefined
    ELSE suffix[type]

LabelsDefined ==
    \A i \in DOMAIN PathSet[version] : Labelled(PathSet[version][i].type) # Undefined

(* The labels of the paths are written in the file contexts; undefined     *)
(* ones are what the memory holds, so that the file has the content of no  *)
(* version, which the script may accept or not.                            *)
generate_app_module_fc ==
    /\ pc = "fc"
    /\ Write("fc", IF LabelsDefined THEN version ELSE Garbled,
             Enter("compile"), Enter("undo_if"))

(* remove_file, which fails for want of a file too. *)
remove_file(f, next, failed) ==
    \/ file[f] # None /\ Works /\ Put(f, None) /\ next
    \/ file[f] = None /\ Works /\ UNCHANGED system /\ failed
    \/ Fault("remove") /\ UNCHANGED system /\ failed

(* The ends of a failed generate_app_module_files: the file contexts stay. *)
undo_module_files ==
    \/ pc = "undo_if" /\ remove_file("if", Enter("undo_te"), Enter("undo_te"))
    \/ pc = "undo_te" /\ remove_file("te", Return("failed"), Return("failed"))

(* The script makes the module of its sources, or fails and leaves it as   *)
(* it was; only a failure to launch it or to wait for it is noticed.       *)
launch_compile ==
    LET made == IF \A i \in DOMAIN Sources : file[Sources[i]] = version
                THEN version ELSE Garbled
    IN
    /\ pc = "compile"
    /\ \/ Works /\ Put("pp", made) /\ Enter("module")
       \/ made = Garbled /\ Works /\ UNCHANGED system /\ Enter("module")
       \/ LostFault("script") /\ UNCHANGED system /\ Enter("module")
       \/ /\ Fault("fork")
          /\ UNCHANGED system \/ Put("pp", made)
          /\ Enter("undo_files")

(* The module enters the policy when the transaction is committed.  Its    *)
(* failures are told by errno, which libsemanage may leave at zero; a file *)
(* that is not there sets it.                                              *)
install_module ==
    /\ pc = "module"
    /\ \/ /\ file["pp"] # None /\ Works
          /\ policy' = file["pp"] /\ UNCHANGED <<file, label>>
          /\ Enter("files")
       \/ file["pp"] = None /\ Works /\ UNCHANGED system /\ Enter("undo_pp")
       \/ Fault("semanage") /\ UNCHANGED system /\ Enter("undo_pp")
       \/ /\ file["pp"] # None /\ LostFault("errno")
          /\ UNCHANGED system /\ Enter("files")

undo_pp ==
    pc = "undo_pp" /\ remove_file("pp", Enter("undo_files"), Enter("undo_files"))

(* remove_app_module_files, in the order of Sources until one fails; for a *)
(* failed installation and for an uninstallation.                          *)
remove_app_module_files ==
    LET last == n = Len(Sources)
    IN
    \/ /\ pc = "undo_files"
       /\ remove_file(Sources[n], IF last THEN Return("failed") ELSE Advance,
                      Return("failed"))
    \/ /\ pc = "remove"
       /\ remove_file(Sources[n], IF last THEN Enter("remove_pp") ELSE Advance,
                      Return("failed"))

-----------------------------------------------------------------------------
(* The verifications: after an installation, before and after a removal.   *)

(* The three sources are there; one that cannot be seen is not. *)
check_module_files_exist(yes, no) ==
    \/ Works /\ IF AllSources THEN yes ELSE no
    \/ Fault("stat") /\ no

(* Faulty: an error of libsemanage is taken for success. *)
check_module_in_policy_lax(yes, no) == Works /\ yes

(* The module is listed; it is not when listing fails. *)
check_module_in_policy(yes, no) ==
    \/ Works /\ IF policy # None THEN yes ELSE no
    \/ Fault("semanage") /\ no

CheckFiles ==
    /\ \/ /\ pc = "files"
          /\ check_module_files_exist(Enter("listed"), Return("failed"))
       \/ /\ pc = "gone_files"
          /\ check_module_files_exist(Return("failed"), Enter("gone_policy"))
    /\ UNCHANGED system

CheckPolicy ==
    /\ \/ /\ pc = "listed"
          /\ check_module_in_policy(
                 Enter(IF job.op = "install" THEN "label" ELSE "remove"),
                 Return("failed"))
       \/ /\ pc = "gone_policy"
          /\ check_module_in_policy(Return("failed"), Return("ok"))
    /\ UNCHANGED system

-----------------------------------------------------------------------------
(* selinux_process_paths: every path is labelled, until one fails. *)
item == PathSet[version][n]

selinux_process_paths ==
    /\ pc = "label" /\ n <= Len(PathSet[version])
    /\ \/ /\ Works /\ Advance
          /\ label' = [label EXCEPT ![item.path] = Labelled(item.type)]
       \/ /\ Fault("stat") \/ Fault("xattr")
          /\ Return("failed") /\ UNCHANGED label
    /\ UNCHANGED <<file, policy>>

selinux_installed ==
    /\ pc = "label" /\ n > Len(PathSet[version])
    /\ Works /\ Return("ok") /\ UNCHANGED system

(* remove_selinux_rules: the files, then the module, then it is verified.  *)
(* The labels of the paths stay.                                           *)
remove_pp_file ==
    pc = "remove_pp" /\ remove_file("pp", Enter("unhandle"), Return("failed"))

remove_module ==
    /\ pc = "unmodule"
    /\ \/ Works /\ policy' = None /\ Enter("gone_files")
       \/ Fault("semanage") /\ UNCHANGED policy /\ Return("failed")
       \/ LostFault("errno") /\ UNCHANGED policy /\ Enter("gone_files")
    /\ UNCHANGED <<file, label>>

Crash ==
    /\ pc # "idle" /\ Fault("crash")
    /\ Return("crashed") /\ UNCHANGED system

Step ==
    \/ create_semanage_handle
    \/ template_process \/ generate_app_module_fc \/ undo_module_files
    \/ launch_compile \/ install_module \/ undo_pp \/ remove_app_module_files
    \/ CheckFiles \/ CheckPolicy
    \/ selinux_process_paths \/ selinux_installed
    \/ remove_pp_file \/ remove_module

Next ==
    \/ (\E v \in Versions : selinux_install(v)) \/ selinux_uninstall \/ refuse
    \/ Step \/ Crash

Spec == Init /\ [][Next]_vars

-----------------------------------------------------------------------------
(* Properties. *)

Ended(op, result) == pc = "idle" /\ job.op = op /\ status = result
Complete == AllSources /\ file["pp"] # None /\ policy # None

InForce(v) ==
    /\ file = [f \in DOMAIN file |-> v] /\ policy = v
    /\ \A i \in DOMAIN PathSet[v] :
          label[PathSet[v][i].path] = suffix[PathSet[v][i].type]

(* The verifications of selinux_install and selinux_uninstall make up for  *)
(* failures that are lost: an installation that returns 0 left a module in *)
(* the policy and all its files, and unless a failure was lost or one of   *)
(* its labels is undefined they are those of this version; a removal that  *)
(* returns 0 left no file, and no module unless a failing list hid it.     *)
SuccessIsVerified ==
    /\ Ended("install", "ok") =>
          Complete /\ (~lost /\ LabelsDefined => InForce(version))
    /\ Ended("uninstall", "ok") =>
          file = NoFiles /\ (~lost \/ faults = 1 => policy = None)

(* Whatever failures and deaths left of earlier requests, an installation  *)
(* that meets no failing call, and none of whose labels is undefined,      *)
(* succeeds, and so does a removal that meets none of what an installation *)
(* that returned 0 left: this is how to repair a removal that stopped half *)
(* way, which no other removal will complete since it wants all the        *)
(* sources.                                                                *)
InstallRepairs ==
    /\ pc = "idle" /\ job.op = "install"
          /\ faults = 0 /\ LabelsDefined => status = "ok"
    /\ pc = "idle" /\ job.op = "uninstall" /\ faults = 0
          /\ (\A f \in DOMAIN file : before[1][f] # None) /\ before[2] # None
          => status = "ok"
=============================================================================
