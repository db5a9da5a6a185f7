------------------------------- MODULE Install -------------------------------
(***************************************************************************)
(* What an action does to the system: src/src/action/action.c over the     *)
(* permission manager (src/src/perm-cynagora) and Smack                    *)
(* (src/src/lsm-smack/smack.c, smack-template.c, src/src/templating,       *)
(* src/src/xattr-utils.c).  The checks that precede it (check_context,     *)
(* check_plug_installable) are in module Session; here a request is a      *)
(* profile that passed them.                                               *)
(*                                                                         *)
(* The daemon executes one request at a time, as a sequence of system      *)
(* calls.  Each call is a step: it may fail, and the daemon may die        *)
(* between two of them, leaving the system as it is.  All the profiles     *)
(* with an identifier are versions of one application.                     *)
(***************************************************************************)
EXTENDS Naturals, Sequences

CONSTANTS
    Profiles,     \* the profiles clients install and remove, see ProfileType
    Permissions, Links, Paths, \* permissions, plug links and paths in them
    PathProperty, \* [Paths -> {"dir", "exec", "file"}], see get_path_property
    TemplatePermissions, \* permissions that have a section in the template
    FaultKinds,   \* which system calls may fail, see Kinds
    MaxFaults     \* bound on the failures met by one request

(* cynagora: a call of the permission manager.  template: reading the      *)
(* template or opening the rules for writing; fmustach, fclose: writing    *)
(* them.  read: reading them back; apply: loading them.  symlink,          *)
(* linklabel: creating a plug.  stat, access, exec, transmute (setting it), *)
(* untransmute (removing it): a path.  unlink, clear, remove: removing a   *)
(* plug, loaded rules, their file.                                         *)
(* crash: the daemon dies.                                                 *)
Kinds == {"cynagora", "template", "fmustach", "fclose", "read", "apply",
          "symlink", "linklabel", "stat", "access", "exec", "transmute",
          "untransmute", "unlink", "clear", "remove", "crash"}

-----------------------------------------------------------------------------
(* Labels. *)
Unset == "unset"
DROP_LABEL == "User:Home"

(* The labels of the path types; the identifier of the application is left *)
(* out, it is always the same.                                             *)
Pattern(label, exec, transmute) ==
    [label |-> label, exec |-> exec, transmute |-> transmute]
patterns ==
    [default |-> Pattern(Unset, FALSE, FALSE),
     conf    |-> Pattern("App:Conf", FALSE, FALSE),
     data    |-> Pattern("App:Data", FALSE, TRUE),
     exec    |-> Pattern("App:Exec", TRUE, FALSE),
     http    |-> Pattern("App:Http", FALSE, TRUE),
     icon    |-> Pattern("App:Icon", FALSE, FALSE),
     id      |-> Pattern("App", FALSE, TRUE),
     lib     |-> Pattern("App:Lib", FALSE, TRUE),
     plug    |-> Pattern("App:Plug", FALSE, FALSE),
     public  |-> Pattern("System:Shared", FALSE, TRUE)]

Labels == {Unset, DROP_LABEL, "TRUE"} \cup {patterns[t].label : t \in DOMAIN patterns}
Xattrs == [access : Labels, exec : Labels, transmute : Labels]
bare == [access |-> Unset, exec |-> Unset, transmute |-> Unset]
(* Faulty: cleaning gives another label. *)
dropped_floor == [bare EXCEPT !.access = "_"]
dropped == [bare EXCEPT !.access = DROP_LABEL]

(* What label_all_paths gives to a path of the context. *)
labels(item) ==
    LET def == patterns[item.type]
        is(property) == PathProperty[item.path] = property
    IN  [access |-> def.label,
         exec |-> IF is("exec") /\ def.exec THEN patterns.id.label ELSE Unset,
         transmute |-> IF is("dir") /\ def.transmute THEN "TRUE" ELSE Unset]

PathItems == [path : Paths, type : DOMAIN patterns]
ProfileType ==
    [id : BOOLEAN, permissions : SUBSET Permissions, plugs : Seq(Links),
     paths : Seq(PathItems)]

(* The rules that template_process makes of a profile: always some, more   *)
(* for each plug and for each permission that the template asks about.     *)
Rules(p) ==
    {<<"base", "base">>} \cup {<<"plug", p.plugs[i]>> : i \in DOMAIN p.plugs}
    \cup {<<"permission", q>> : q \in p.permissions \cap TemplatePermissions}
AllRules == UNION {Rules(p) : p \in Profiles}

(* Without identifier a profile has only default paths (check_context); no *)
(* path and no link is twice in it (SettingsUnique of module Session).     *)
ASSUME InstallAssumption ==
    /\ Profiles \subseteq ProfileType
    /\ \A p \in Profiles :
          /\ \A i, j \in DOMAIN p.paths : p.paths[i].path = p.paths[j].path => i = j
          /\ \A i, j \in DOMAIN p.plugs : p.plugs[i] = p.plugs[j] => i = j
    /\ \A p \in Profiles : ~p.id =>
          /\ p.permissions = {} /\ p.plugs = <<>>
          /\ \A i \in DOMAIN p.paths : p.paths[i].type = "default"
    /\ PathProperty \in [Paths -> {"dir", "exec", "file"}]
    /\ FaultKinds \subseteq Kinds /\ MaxFaults \in Nat

-----------------------------------------------------------------------------
VARIABLES
    granted,      \* the permissions of the application in cynagora
    file,         \* <<>> or <<rules>>: the file of rules in the policy directory
    loaded,       \* rules of the application in the kernel
    links,        \* [Links -> {"none", "bare", "labelled"}]: symbolic links
    xattr,        \* [Paths -> Xattrs]: extended attributes
    job,          \* the current or else the last request, [op, profile]
    pc,           \* "idle" or the phase of the request
    n,            \* position in the loop of the phase
    rc,           \* "ok" or "failed", in the loop of the phase
    status,       \* "ok", "failed" or "crashed", how the request ends
    faults,       \* failures met by the request
    lost,         \* one of them is not reported or cannot be cleaned, see Lossy
    before,       \* the system when the request began
    retry         \* it repeats one that failed though no call failed

system == <<granted, file, loaded, links, xattr>>
control == <<job, pc, n, rc, status, before, retry>>
vars == <<system, control, faults, lost>>

NoFile == <<>>
None == [op |-> "none", profile |-> [id |-> FALSE, permissions |-> {},
                                     plugs |-> <<>>, paths |-> <<>>]]

Init ==
    /\ granted = {} /\ file = NoFile /\ loaded = {}
    /\ links = [l \in Links |-> "none"] /\ xattr = [p \in Paths |-> bare]
    /\ job = None /\ pc = "idle" /\ n = 0 /\ rc = "ok" /\ status = "ok"
    /\ faults = 0 /\ lost = FALSE /\ before = system /\ retry = FALSE

(* The failures that the code loses: those of the last write of the rules, *)
(* of the exec label, of the removal of transmute and of clearing loaded   *)
(* rules; and rules that are loaded in part.                               *)
Lossy == {"fclose", "exec", "untransmute", "clear", "apply"}

(* One more system call fails, if the instance lets that one fail. *)
Fault(kind) ==
    /\ kind \in FaultKinds /\ faults < MaxFaults
    /\ faults' = faults + 1
    /\ lost' = (lost \/ kind \in Lossy)
Works == UNCHANGED <<faults, lost>>

-----------------------------------------------------------------------------
(* Phases.  Each begins at position 0 with no failure. *)
Enter(phase, result) ==
    /\ pc' = phase /\ n' = 0 /\ rc' = "ok" /\ status' = result
    /\ UNCHANGED <<job, before, retry>>

(* Back to the client. *)
Return(result) == Enter("idle", result)

Advance(result) ==
    /\ n' = n + 1 /\ rc' = result
    /\ UNCHANGED <<job, pc, status, before, retry>>

profile == job.profile

(* action_install and action_uninstall: permissions come first, and only   *)
(* when there is an identifier.                                            *)
Request(op, p) ==
    /\ pc = "idle"
    /\ job' = [op |-> op, profile |-> p]
    /\ pc' = CASE p.id -> "permissions"
               [] ~p.id /\ op = "install" -> "unlabel"
               [] ~p.id /\ op = "uninstall" -> "drop"
    /\ n' = 0 /\ rc' = "ok" /\ status' = "ok" /\ faults' = 0 /\ lost' = FALSE
    /\ before' = system
    /\ retry' = (job = job' /\ status = "failed" /\ faults = 0)
    /\ UNCHANGED system

-----------------------------------------------------------------------------
(* The permission manager.  cynagora_set_policies works in a transaction,  *)
(* from cynagora_enter to cynagora_leave: the former permissions are       *)
(* dropped, the new ones set until one is refused, and the whole is        *)
(* committed when none was.                                                *)
(* Faulty: the transaction is committed in any case. *)
cynagora_leave_always(commit, staged) == granted' = staged

cynagora_leave(commit, staged) == granted' = IF commit THEN staged ELSE granted

cynagora_set_policies(permissions) ==
    \/ Works /\ cynagora_leave(TRUE, permissions)
    \/ /\ Fault("cynagora")
       /\ \E staged \in SUBSET permissions : cynagora_leave(FALSE, staged)

add_permissions ==
    /\ pc = "permissions" /\ job.op = "install"
    /\ cynagora_set_policies(profile.permissions)
    /\ IF faults' = faults THEN Enter("template", "ok") ELSE Return("failed")
    /\ UNCHANGED <<file, loaded, links, xattr>>

drop_permissions ==
    /\ pc = "permissions" /\ job.op = "uninstall"
    /\ cynagora_set_policies({})
    /\ IF faults' = faults THEN Enter("drop", "ok") ELSE Return("failed")
    /\ UNCHANGED <<file, loaded, links, xattr>>

-----------------------------------------------------------------------------
(* create_smack_rules.  The rules are written from the template to their   *)
(* file, read again, then loaded in the kernel.                            *)

(* The failure of fclose, the last write, is logged and forgotten. *)
template_process ==
    /\ pc = "template"
    /\ \/ Works /\ file' = <<Rules(profile)>> /\ Enter("load", "ok")
       \/ Fault("template") /\ UNCHANGED file /\ Enter("drop", "failed")
       \/ \E part \in SUBSET Rules(profile) \ {Rules(profile)} :
             /\ file' = <<part>>
             /\ \/ Fault("fmustach") /\ Enter("drop", "failed")
                \/ Fault("fclose") /\ Enter("load", "ok")
    /\ UNCHANGED <<granted, loaded, links, xattr>>

(* When reading or loading fails the file is removed; what was loaded is   *)
(* not.                                                                    *)
load_smack_rules ==
    /\ pc = "load"
    /\ \/ Works /\ loaded' = loaded \cup file[1] /\ Enter("plug", "ok")
       \/ Fault("read") /\ UNCHANGED loaded /\ Enter("undo", "failed")
       \/ /\ Fault("apply") /\ Enter("undo", "failed")
          /\ \E part \in SUBSET file[1] : loaded' = loaded \cup part
    /\ UNCHANGED <<granted, file, links, xattr>>

undo_smack_rules ==
    /\ pc = "undo"
    /\ \/ Works /\ file' = NoFile
       \/ Fault("remove") /\ UNCHANGED file
    /\ Enter("drop", "failed")
    /\ UNCHANGED <<granted, loaded, links, xattr>>

-----------------------------------------------------------------------------
(* install_smack_plugs: every link is tried, one that exists is a failure. *)
install_smack_plugs ==
    LET link == profile.plugs[n + 1]
    IN
    /\ pc = "plug" /\ n < Len(profile.plugs)
    /\ \/ /\ Works
          /\ links' = [links EXCEPT ![link] = IF @ = "none" THEN "labelled" ELSE @]
          /\ Advance(IF links[link] = "none" THEN rc ELSE "failed")
       \/ Fault("symlink") /\ UNCHANGED links /\ Advance("failed")
       \/ /\ links[link] = "none" /\ Fault("linklabel")
          /\ links' = [links EXCEPT ![link] = "bare"] /\ Advance("failed")
    /\ UNCHANGED <<granted, file, loaded, xattr>>

(* Faulty: a failure of the plugs returns without cleaning. *)
plugs_installed_unclean ==
    /\ pc = "plug" /\ n = Len(profile.plugs) /\ Works
    /\ IF rc = "ok" THEN Enter("label", "ok") ELSE Return("failed")
    /\ UNCHANGED system

plugs_installed ==
    /\ pc = "plug" /\ n = Len(profile.plugs) /\ Works
    /\ IF rc = "ok" THEN Enter("label", "ok") ELSE Enter("drop", "failed")
    /\ UNCHANGED system

-----------------------------------------------------------------------------
(* Paths.  Three attributes are written for each, in this order, all of    *)
(* them whatever fails; the loop stops after a path that failed.           *)
Attributes == <<"access", "exec", "transmute">>
item == profile.paths[(n \div 3) + 1]
attribute == Attributes[(n % 3) + 1]
FirstWrite == n % 3 = 0
LastPath == n >= 3 * Len(profile.paths)
PathFailed == FirstWrite /\ rc = "failed"

(* Faulty: only the access label counts. *)
SetReports_access(wanted) == attribute = "access"

(* The failures that smack_set_path_labels reports: it tests the status of *)
(* the access label where that of the exec label is meant.                 *)
SetReports(wanted) ==
    CASE attribute = "access" -> TRUE
      [] attribute = "exec" -> FALSE
      [] attribute = "transmute" -> wanted.transmute # Unset

(* The failures that unset_path_labels reports. *)
UnsetReports == attribute = "transmute" => PathProperty[item.path] = "dir"

WriteKind(wanted) ==
    IF attribute = "transmute" /\ wanted.transmute = Unset THEN "untransmute"
    ELSE attribute

(* One attribute of the path gets its wanted value. *)
put_xattr(wanted, reports) ==
    /\ ~LastPath /\ ~PathFailed
    /\ \/ /\ Works
          /\ xattr' = [xattr EXCEPT ![item.path][attribute] = wanted[attribute]]
          /\ Advance(rc)
       \/ /\ Fault(WriteKind(wanted))
          /\ UNCHANGED xattr
          /\ Advance(IF reports THEN "failed" ELSE rc)
    /\ UNCHANGED <<granted, file, loaded, links>>

(* label_all_paths, of an application or of no one.  It looks first at     *)
(* what the path is.                                                       *)
label_all_paths ==
    \/ pc = "label" /\ put_xattr(labels(item), SetReports(labels(item)))
    \/ pc = "unlabel" /\ put_xattr(bare, UnsetReports)
    \/ /\ pc \in {"label", "unlabel"} /\ ~LastPath /\ ~PathFailed /\ FirstWrite
       /\ Fault("stat")
       /\ Enter("drop", "failed")
       /\ UNCHANGED system

(* install_status: a failure is cleaned. *)
install_status ==
    /\ pc \in {"label", "unlabel"} /\ (LastPath \/ PathFailed) /\ Works
    /\ IF rc = "ok" THEN Return("ok") ELSE Enter("drop", "failed")
    /\ UNCHANGED system

-----------------------------------------------------------------------------
(* force_uninstall_smack: the labels of the paths, then the plugs and the  *)
(* rules if there is an identifier.                                        *)
smack_drop_path_labels ==
    pc = "drop" /\ put_xattr(dropped, SetReports(dropped))

paths_dropped ==
    LET result == IF rc = "ok" THEN status ELSE "failed"
    IN
    /\ pc = "drop" /\ (LastPath \/ PathFailed) /\ Works
    /\ IF profile.id THEN Enter("unplug", result) ELSE Return(result)
    /\ UNCHANGED system

uninstall_smack_plugs ==
    /\ pc = "unplug" /\ n < Len(profile.plugs)
    /\ \/ /\ Works
          /\ links' = [links EXCEPT ![profile.plugs[n + 1]] = "none"]
          /\ Advance(rc)
       \/ Fault("unlink") /\ UNCHANGED links /\ Advance("failed")
    /\ UNCHANGED <<granted, file, loaded, xattr>>

plugs_removed ==
    /\ pc = "unplug" /\ n = Len(profile.plugs) /\ Works
    /\ Enter("unload", IF rc = "ok" THEN status ELSE "failed")
    /\ UNCHANGED system

(* Faulty: the file is removed first, its rules cannot be read any more. *)
remove_load_rules_late ==
    /\ pc = "unload" /\ Works
    /\ file' = NoFile
    /\ Enter("remove", status)
    /\ UNCHANGED <<granted, loaded, links, xattr>>

(* The rules of the file are cleared from the kernel; a failure to do so   *)
(* (no file, for instance) is overwritten by the status of the remove.     *)
remove_load_rules ==
    /\ pc = "unload"
    /\ \/ Works /\ loaded' = IF file = NoFile THEN loaded ELSE loaded \ file[1]
       \/ /\ Fault("clear")
          /\ \E part \in SUBSET (IF file = NoFile THEN {} ELSE file[1]) :
                loaded' = loaded \ part
    /\ Enter("remove", status)
    /\ UNCHANGED <<granted, file, links, xattr>>

(* Faulty: a failed installation keeps its permissions. *)
Removed_granted(result) == Return(IF job.op = "install" THEN "failed" ELSE result)

(* The end of force_uninstall_smack: an uninstallation returns, a failed   *)
(* installation still has permissions to drop.                             *)
Removed(result) ==
    IF job.op = "install" THEN Enter("revoke", "failed") ELSE Return(result)

remove_smack_rules ==
    /\ pc = "remove"
    /\ \/ Works /\ file' = NoFile
          /\ Removed(IF file = NoFile THEN "failed" ELSE status)
       \/ Fault("remove") /\ UNCHANGED file /\ Removed("failed")
    /\ UNCHANGED <<granted, loaded, links, xattr>>

(* The end of a failed action_install. *)
revoke_permissions ==
    /\ pc = "revoke"
    /\ cynagora_set_policies({})
    /\ Return("failed")
    /\ UNCHANGED <<file, loaded, links, xattr>>

-----------------------------------------------------------------------------
(* The daemon dies between two calls; its request has no answer. *)
Crash ==
    /\ pc # "idle" /\ Fault("crash")
    /\ Return("crashed")
    /\ UNCHANGED system

Step ==
    \/ add_permissions \/ drop_permissions
    \/ template_process \/ load_smack_rules \/ undo_smack_rules
    \/ install_smack_plugs \/ plugs_installed
    \/ label_all_paths \/ install_status
    \/ smack_drop_path_labels \/ paths_dropped
    \/ uninstall_smack_plugs \/ plugs_removed
    \/ remove_load_rules \/ remove_smack_rules \/ revoke_permissions

Next ==
    \/ \E op \in {"install", "uninstall"}, p \in Profiles : Request(op, p)
    \/ Step \/ Crash

Spec == Init /\ [][Next]_vars

-----------------------------------------------------------------------------
(* Properties. *)

Phases == {"permissions", "template", "load", "undo", "plug", "label",
           "unlabel", "drop", "unplug", "unload", "remove", "revoke"}

(* Type correctness of the system and of the request in progress. *)
TypeOK ==
    /\ granted \in SUBSET Permissions /\ loaded \in SUBSET AllRules
    /\ file = NoFile \/ (Len(file) = 1 /\ file[1] \in SUBSET AllRules)
    /\ links \in [Links -> {"none", "bare", "labelled"}]
    /\ xattr \in [Paths -> Xattrs]
    /\ job = None \/ (job.op \in {"install", "uninstall"} /\ profile \in Profiles)
    /\ pc \in Phases \cup {"idle"} /\ n \in Nat
    /\ rc \in {"ok", "failed"} /\ status \in {"ok", "failed", "crashed"}
    /\ faults \in 0..MaxFaults /\ lost \in BOOLEAN

Ended(op, result) == pc = "idle" /\ job.op = op /\ status = result
LinksOf(p) == {p.plugs[i] : i \in DOMAIN p.plugs}
PathsOf(p) == {p.paths[i].path : i \in DOMAIN p.paths}

(* The profile is in force. *)
InForce(p) ==
    /\ p.id => /\ granted = p.permissions
               /\ file = <<Rules(p)>> /\ Rules(p) \subseteq loaded
               /\ \A l \in LinksOf(p) : links[l] = "labelled"
    /\ \A i \in DOMAIN p.paths :
          xattr[p.paths[i].path] = IF p.id THEN labels(p.paths[i]) ELSE bare

(* What a system becomes when a profile is removed.  The links and the     *)
(* paths are those that the profile names, the rules those of the file     *)
(* that is there: the links and the labels that only another version had,  *)
(* and rules that were loaded from no file of now, stay.                   *)
Unloaded(sys) == IF sys[2] = NoFile THEN sys[3] ELSE sys[3] \ sys[2][1]
Without(p, sys) ==
    << IF p.id THEN {} ELSE sys[1],
       IF p.id THEN NoFile ELSE sys[2],
       IF p.id THEN Unloaded(sys) ELSE sys[3],
       [l \in Links |-> IF l \in LinksOf(p) THEN "none" ELSE sys[4][l]],
       [path \in Paths |-> IF path \in PathsOf(p) THEN dropped ELSE sys[5][path]] >>

(* When action_install or action_uninstall returns 0 the whole profile is  *)
(* in force, or is removed and nothing else, whatever was left by earlier  *)
(* requests or by a daemon that died, and whatever failed but the calls of *)
(* Lossy.                                                                  *)
SuccessIsComplete ==
    ~lost => /\ Ended("install", "ok") => InForce(profile)
             /\ Ended("uninstall", "ok") => system = Without(profile, before)

(* Nothing of the application on the system. *)
Clean(sys) ==
    /\ sys[1] = {} /\ sys[2] = NoFile /\ sys[3] = {}
    /\ \A l \in Links : sys[4][l] = "none"
    /\ \A path \in Paths : sys[5][path] \in {bare, dropped}

(* The cleaning of force_uninstall_smack and action_install is enough: a   *)
(* first installation that fails, wherever its single failure is, leaves   *)
(* no permission, rule, link or label of the application.                  *)
FailureIsClean ==
    Ended("install", "failed") /\ Clean(before) /\ faults <= 1 /\ ~lost
        => Clean(system)

(* cynagora_set_policies never leaves a part of the permissions of a       *)
(* profile, nor permissions of two of them.                                *)
GrantedIsProfile == granted \in {p.permissions : p \in Profiles} \cup {{}}

(* An uninstallation that meets no failing call removes its profile, and   *)
(* touches nothing else, even when it is told to have failed (there was no *)
(* file to remove), from whatever a crash or a failed cleaning left.       *)
RemovalIsThorough ==
    pc = "idle" /\ job.op = "uninstall" /\ faults = 0
        => system = Without(profile, before)

(* An installation may fail only because of what earlier requests left (a  *)
(* link of a plug); its own cleaning removes that, so a second try without *)
(* failing call succeeds.                                                  *)
RetrySucceeds ==
    retry /\ job.op = "install" /\ pc = "idle" /\ faults = 0 => status = "ok"
=============================================================================
