---------------------------- MODULE SelinuxProofs ----------------------------
(***************************************************************************)
(* What an action leaves on an SELinux system, for any versions of an      *)
(* application, any paths, any set of calls that may fail and any number   *)
(* of failures: the invariants of module Selinux.                          *)
(***************************************************************************)
EXTENDS Selinux, TLAPS

Files == {"te", "if", "fc", "pp"}
Installing == {"handle", "te", "if", "fc", "compile", "module", "label",
               "undo_te", "undo_if", "undo_pp", "undo_files"}
Removing == {"remove", "remove_pp", "unhandle", "unmodule", "gone_files", "gone_policy"}
Checking == {"files", "listed"}

-----------------------------------------------------------------------------
(* The inductive invariant. *)

(* Types, and which requests are in which phases. *)
PhaseOK ==
    /\ file \in [Files -> Contents] /\ policy \in Contents
    /\ label \in [Paths -> Labels]
    /\ defs \in {"good", Undefined} /\ n \in Nat \ {0} /\ faults \in Nat
    /\ lost \in BOOLEAN /\ (faults = 0 => ~lost)
    /\ pc \in Installing \cup Removing \cup Checking \cup {"idle"}
    /\ pc # "idle" => status = "ok"
    /\ pc \in Installing => job.op = "install"
    /\ pc \in Removing => job.op = "uninstall"
    /\ pc \in Checking => job.op \in {"install", "uninstall"}
    /\ job.op = "install" => version \in Versions
    /\ pc \in {"undo_files", "remove"} => n \in 1..3

(* What the verifications of an installation have seen, whatever was lost. *)
Seen ==
    /\ pc = "listed" => AllSources
    /\ pc \in Checking /\ job.op = "install" => file["pp"] # None
    /\ pc = "label" => Complete
    /\ Ended("install", "ok") => Complete

(* What an installation that lost no failure has done.  The sources come   *)
(* one after the other, then the module, then the labels.                  *)
Made ==
    job.op = "install" /\ ~lost /\ LabelsDefined =>
        /\ pc \in {"if", "fc", "compile", "module", "label"} \cup Checking
              => file["te"] = version
        /\ pc \in {"fc", "compile", "module", "label"} \cup Checking
              => file["if"] = version
        /\ pc \in {"compile", "module", "label"} \cup Checking => file["fc"] = version
        /\ pc \in {"module", "label"} \cup Checking => file["pp"] = version
        /\ pc \in {"label"} \cup Checking => policy = version
        /\ pc = "label" => \A i \in DOMAIN PathSet[version] :
              i < n => label[PathSet[version][i].path] = suffix[PathSet[version][i].type]
        /\ pc = "idle" /\ status = "ok" => InForce(version)

(* What a removal has undone.  A failure of remove_module may be lost, but *)
(* the list that follows it tells, unless it fails too.                    *)
Undone ==
    /\ pc = "remove" => \A i \in 1..3 : i < n => file[Sources[i]] = None
    /\ pc = "remove_pp" => \A i \in 1..3 : file[Sources[i]] = None
    /\ pc \in {"unhandle", "unmodule", "gone_files", "gone_policy"} => file = NoFiles
    /\ pc \in {"gone_files", "gone_policy"} => policy = None \/ (lost /\ faults >= 1)
    /\ Ended("uninstall", "ok") =>
          file = NoFiles /\ (policy = None \/ (lost /\ faults >= 2))

(* Requests that meet no failing call: an installation is never in the     *)
(* phases that undo, a removal of a whole module finds all its parts.      *)
WasWhole == (\A f \in Files : before[1][f] # None) /\ before[2] # None

Smooth ==
    faults = 0 =>
        /\ job.op = "install" /\ LabelsDefined =>
              /\ pc \notin {"undo_te", "undo_if", "undo_pp", "undo_files"}
              /\ pc = "idle" => status = "ok"
        /\ job.op = "uninstall" /\ WasWhole =>
              /\ pc \in Checking => policy # None /\ \A f \in Files : file[f] # None
              /\ pc = "remove" => /\ \A i \in 1..3 : i >= n => file[Sources[i]] # None
                                  /\ file["pp"] # None
              /\ pc = "remove_pp" => file["pp"] # None
              /\ pc = "idle" => status = "ok"

IInv == PhaseOK /\ Seen /\ Made /\ Undone /\ Smooth

-----------------------------------------------------------------------------
(* Lemmas on the steps. *)

(* The typed paths of a version. *)
LEMMA PathFacts ==
    ASSUME NEW v \in Versions
    PROVE  /\ Len(PathSet[v]) \in Nat /\ DOMAIN PathSet[v] = 1..Len(PathSet[v])
           /\ \A i \in DOMAIN PathSet[v] :
                 PathSet[v][i].path \in Paths /\ PathSet[v][i].type \in DOMAIN suffix
  <1> DEFINE T == [path : Paths, type : DOMAIN suffix]
  <1>1. PathSet[v] \in Seq(T)
    BY SelinuxAssumption
  <1> HIDE DEF T
  <1>2. /\ Len(PathSet[v]) \in Nat /\ DOMAIN PathSet[v] = 1..Len(PathSet[v])
        /\ \A i \in DOMAIN PathSet[v] : PathSet[v][i] \in T
    BY <1>1
  <1>3. ASSUME NEW i \in DOMAIN PathSet[v]
        PROVE  PathSet[v][i].path \in Paths /\ PathSet[v][i].type \in DOMAIN suffix
    BY <1>2 DEF T
  <1> QED
    BY <1>2, <1>3

(* The sources. *)
LEMMA SourceFacts ==
    /\ DOMAIN Sources = 1..3 /\ Len(Sources) = 3
    /\ Sources[1] = "te" /\ Sources[2] = "if" /\ Sources[3] = "fc"
    /\ \A i \in 1..3 : Sources[i] \in Files /\ Sources[i] # "pp"
    /\ AllSources <=> file["te"] # None /\ file["if"] # None /\ file["fc"] # None
  <1>1. DOMAIN Sources = 1..3 /\ Len(Sources) = 3
    BY DEF Sources
  <1>2. Sources[1] = "te" /\ Sources[2] = "if" /\ Sources[3] = "fc"
    BY DEF Sources
  <1>3. \A i \in 1..3 : i = 1 \/ i = 2 \/ i = 3
    OBVIOUS
  <1>4. \A i \in 1..3 : Sources[i] \in Files /\ Sources[i] # "pp"
    BY <1>2, <1>3 DEF Files
  <1>5. AllSources <=> file["te"] # None /\ file["if"] # None /\ file["fc"] # None
    BY <1>1, <1>2, <1>3 DEF AllSources
  <1> QED
    BY <1>1, <1>2, <1>4, <1>5

(* A call works, fails, or fails and nobody notices. *)
Tried == Works \/ (\E kind : Fault(kind)) \/ (\E kind : LostFault(kind))

LEMMA Counters ==
    ASSUME PhaseOK, Tried
    PROVE  /\ faults' \in Nat /\ lost' \in BOOLEAN /\ (faults' = 0 => ~lost')
           /\ faults' = faults \/ faults' = faults + 1
           /\ lost => lost'
           /\ faults' = 0 => faults = 0
           /\ faults' = faults => lost' = lost
  <1>1. CASE Works
    BY <1>1 DEF Works, PhaseOK
  <1>2. CASE \E kind : Fault(kind)
    <2>1. faults' = faults + 1 /\ faults \in Nat
      BY <1>2 DEF Fault, Meets, PhaseOK
    <2>2. lost' = lost /\ lost \in BOOLEAN
      BY <1>2 DEF Fault, PhaseOK
    <2> QED
      BY <2>1, <2>2
  <1>3. CASE \E kind : LostFault(kind)
    <2>1. /\ faults' = faults + 1 /\ faults' \in Nat /\ faults' # 0
          /\ faults' # faults
      BY <1>3 DEF LostFault, Meets, PhaseOK
    <2>2. lost' = TRUE
      BY <1>3 DEF LostFault
    <2> QED
      BY <2>1, <2>2
  <1> QED
    BY <1>1, <1>2, <1>3 DEF Tried

(* The constants in the invariant. *)
LEMMA ContentFacts ==
    /\ None \in Contents /\ Garbled \in Contents /\ Versions \subseteq Contents
    /\ None # Garbled /\ None \notin Versions /\ Garbled \notin Versions
    /\ NoFiles \in [Files -> Contents] /\ \A f \in Files : NoFiles[f] = None
  BY SelinuxAssumption DEF Contents, None, Garbled, NoFiles, Files

-----------------------------------------------------------------------------
(* Whether the labels of a request are defined does not change within it. *)
LEMMA LabelsKept ==
    ASSUME UNCHANGED <<defs, job>>
    PROVE  LabelsDefined' <=> LabelsDefined
  BY DEF LabelsDefined, Labelled, version

(* A new request. *)
LEMMA RequestStep ==
    ASSUME IInv, (\E v \in Versions : selinux_install(v)) \/ selinux_uninstall \/ refuse
    PROVE  IInv'
  <1>1. /\ UNCHANGED <<file, policy, label>> /\ faults' = 0 /\ lost' = FALSE
        /\ before' = <<file, policy>> /\ n' \in Nat \ {0} /\ defs' \in {"good", Undefined}
        /\ \/ /\ job'.op = "install" /\ job'.version \in Versions
              /\ pc' = "handle" /\ status' = "ok"
           \/ job'.op = "uninstall" /\ pc' = "files" /\ status' = "ok"
           \/ job'.op = "refused" /\ pc' = "idle"
    BY DEF selinux_install, selinux_uninstall, refuse, Begin, trfid, system, IInv, PhaseOK
  <1>2. PhaseOK'
    <2>1. lost' \in BOOLEAN /\ ~lost'
      BY <1>1
    <2> QED
      BY <1>1, <2>1
      DEF IInv, PhaseOK, version, Installing, Removing, Checking
  <1>3. Smooth'
    <2>1. before'[1] = file' /\ before'[2] = policy'
      BY <1>1
    <2> QED
      BY <1>1, <2>1 DEF Smooth, WasWhole, Checking
  <1>4. Seen' /\ Made' /\ Undone'
    BY <1>1 DEF Seen, Made, Undone, Ended, Checking
  <1> QED
    BY <1>2, <1>3, <1>4 DEF IInv

(* Steps that leave the system as it is: the handle of libsemanage, the    *)
(* verifications, the end.                                                 *)
LEMMA CheckStep ==
    ASSUME IInv, create_semanage_handle \/ CheckFiles \/ CheckPolicy
                 \/ selinux_installed \/ Crash
    PROVE  IInv'
  <1>1. /\ UNCHANGED <<file, policy, label, defs, job, before>> /\ n' = 1 /\ pc # "idle"
        /\ \/ faults' = faults /\ lost' = lost
           \/ faults' = faults + 1 /\ lost' = lost
        /\ pc' # "idle" => status' = status
    BY DEF create_semanage_handle, CheckFiles, CheckPolicy, selinux_installed, Crash,
           check_module_files_exist, check_module_in_policy, Works, Fault, Meets,
           Enter, Return, system, request
  <1>l. LabelsDefined' <=> LabelsDefined
    BY <1>1, LabelsKept
  <1>2. \/ pc = "handle" /\ pc' = "te"
        \/ pc = "unhandle" /\ pc' = "unmodule"
        \/ pc = "files" /\ pc' = "listed" /\ AllSources
        \/ pc = "gone_files" /\ pc' = "gone_policy"
        \/ pc = "listed" /\ policy # None /\ job.op = "install" /\ pc' = "label"
        \/ pc = "listed" /\ policy # None /\ job.op # "install" /\ pc' = "remove"
        \/ /\ pc = "gone_policy" /\ pc' = "idle" /\ status' = "ok"
           /\ policy = None \/ faults' = faults + 1
        \/ pc = "label" /\ n > Len(PathSet[version]) /\ pc' = "idle" /\ status' = "ok"
        \/ /\ pc' = "idle" /\ status' \in {"failed", "crashed"}
           /\ \/ faults' = faults + 1
              \/ pc = "files" /\ ~AllSources
              \/ pc = "gone_files" /\ AllSources
              \/ pc \in {"listed", "gone_policy"} /\ (policy = None <=> pc = "listed")
    BY DEF create_semanage_handle, CheckFiles, CheckPolicy, selinux_installed, Crash,
           check_module_files_exist, check_module_in_policy, Works, Fault, Meets,
           Enter, Return
  <1>3. /\ faults \in Nat /\ lost \in BOOLEAN /\ (faults = 0 => ~lost) /\ status = "ok"
        /\ lost' \in BOOLEAN /\ lost' = lost /\ (faults' = 0 => faults = 0 /\ ~lost')
        /\ version' = version
    BY <1>1 DEF IInv, PhaseOK, version
  <1>4. PhaseOK'
    BY <1>1, <1>2, <1>3 DEF IInv, PhaseOK, version, Installing, Removing, Checking
  <1>5. Seen'
    BY <1>1, <1>2, <1>3
    DEF IInv, PhaseOK, Seen, Ended, AllSources, Complete, Installing, Removing, Checking
  <1>6. Made'
    <2>1. CASE pc = "label" /\ pc' = "idle" /\ status' = "ok"
      <3>1. n > Len(PathSet[version]) /\ job.op = "install" /\ version \in Versions
        BY <1>2, <1>3, <2>1 DEF IInv, PhaseOK, Installing
      <3>2. \A i \in DOMAIN PathSet[version] : i < n
        BY <3>1, PathFacts DEF IInv, PhaseOK
      <3>3. ~lost /\ LabelsDefined => InForce(version)
        BY <2>1, <3>1, <3>2 DEF IInv, PhaseOK, Made, InForce, Files
      <3>4. InForce(version) => InForce(version)'
        BY <1>1, <1>3 DEF InForce
      <3> QED
        BY <1>l, <1>1, <1>3, <2>1, <3>1, <3>3, <3>4 DEF Made, Checking
    <2>2. CASE ~(pc = "label" /\ pc' = "idle" /\ status' = "ok")
      <3>1. job.op = "install" /\ pc' = "idle" => status' # "ok"
        BY <1>2, <2>2 DEF IInv, PhaseOK, Removing
      <3>2. pc' = "label" => \A i \in DOMAIN PathSet[version] : job.op = "install" => ~(i < n')
        BY <1>1, PathFacts DEF IInv, PhaseOK
      <3> QED
        BY <1>l, <1>1, <1>2, <1>3, <3>1, <3>2 DEF IInv, Made, Checking
    <2> QED
      BY <2>1, <2>2
  <1>7. Undone'
    <2>1. pc' = "remove" => n' = 1
      BY <1>1
    <2>2. pc' \in {"unhandle", "unmodule", "gone_policy"} => file' = NoFiles
      BY <1>1, <1>2 DEF IInv, Undone
    <2>3. pc' = "gone_policy" => policy' = None \/ (lost' /\ faults' >= 1)
      BY <1>1, <1>2, <1>3 DEF IInv, Undone
    <2>4. Ended("uninstall", "ok")' => pc = "gone_policy"
      BY <1>1, <1>2 DEF IInv, PhaseOK, Ended, Installing
    <2>5. pc = "gone_policy" /\ status' = "ok" =>
             file' = NoFiles /\ (policy' = None \/ (lost' /\ faults' >= 2))
      BY <1>1, <1>2, <1>3 DEF IInv, Undone
    <2> QED
      BY <1>2, <2>1, <2>2, <2>3, <2>4, <2>5 DEF Undone, Ended
  <1>8. Smooth'
    <2> SUFFICES ASSUME faults' = 0 PROVE Smooth'
      BY DEF Smooth
    <2>1. faults = 0 /\ faults' # faults + 1 /\ ~lost
      BY <1>1, <1>3
    <2>2. ASSUME job.op = "install", LabelsDefined
          PROVE  /\ pc' \notin {"undo_te", "undo_if", "undo_pp", "undo_files"}
                 /\ pc' = "idle" => status' = "ok"
      <3>1. /\ pc \in Checking => AllSources /\ policy # None
            /\ pc \notin Removing
        BY <2>1, <2>2, SourceFacts, ContentFacts DEF IInv, PhaseOK, Made, Removing
      <3> QED
        BY <1>2, <2>1, <3>1 DEF Checking, Removing
    <2>3. ASSUME job.op = "uninstall", WasWhole
          PROVE  /\ pc' \in Checking => policy # None /\ \A f \in Files : file[f] # None
                 /\ pc' = "remove" => \A f \in Files : file[f] # None
                 /\ pc' = "idle" => status' = "ok"
                 /\ pc' # "remove_pp"
      <3>1. /\ pc \in Checking => /\ policy # None /\ AllSources
                                  /\ \A f \in Files : file[f] # None
            /\ pc = "gone_files" => ~AllSources
            /\ pc = "gone_policy" => policy = None
            /\ pc \notin Installing
        BY <2>1, <2>3, SourceFacts, ContentFacts
        DEF IInv, PhaseOK, Smooth, Undone, Files, Installing
      <3> QED
        BY <1>2, <2>1, <3>1 DEF Checking, Installing
    <2>4. WasWhole' <=> WasWhole
      BY <1>1 DEF WasWhole
    <2> QED
      BY <1>l, <1>1, <2>2, <2>3, <2>4, SourceFacts DEF Smooth, Files
  <1> QED
    BY <1>4, <1>5, <1>6, <1>7, <1>8 DEF IInv

(* The sources are written. *)
LEMMA WriteStep ==
    ASSUME IInv, template_process \/ generate_app_module_fc
    PROVE  IInv'
  <1> DEFINE next == IF pc = "te" THEN "if" ELSE IF pc = "if" THEN "fc" ELSE "compile"
             good == IF pc = "fc" /\ ~LabelsDefined THEN Garbled ELSE version
             failed == /\ pc' \in {"undo_te", "undo_if", "idle"}
                       /\ pc' = "idle" => status' = "failed"
  <1>0. pc \in {"te", "if", "fc"} /\ job.op = "install" /\ version \in Versions
    BY DEF template_process, generate_app_module_fc, IInv, PhaseOK, Installing
  <1>a. /\ UNCHANGED <<policy, label, defs, job, before>> /\ n' = 1 /\ version' = version
        /\ pc' # "idle" => status' = status
        /\ pc' = next \/ failed
    BY DEF template_process, generate_app_module_fc, Write, Put, Enter, Return, request,
           system, version
  <1>l. LabelsDefined' <=> LabelsDefined
    BY <1>a, LabelsKept
  <1>b. \/ Works /\ pc' = next /\ file' = [file EXCEPT ![pc] = good]
        \/ (\E kind : Fault(kind)) /\ failed /\ file' = file
        \/ (\E kind : Fault(kind)) /\ failed /\ file' = [file EXCEPT ![pc] = Garbled]
        \/ (\E kind : LostFault(kind)) /\ pc' = next /\ file' = [file EXCEPT ![pc] = Garbled]
    BY DEF template_process, generate_app_module_fc, Write, Put, Enter, Return, system
  <1> HIDE DEF next, failed, good
  <1>1. /\ Tried /\ good \in Contents
        /\ \/ pc' = next /\ file' = [file EXCEPT ![pc] = good]
           \/ pc' = next /\ lost' = TRUE
           \/ failed /\ faults' # faults
        /\ \E content \in Contents : file' = [file EXCEPT ![pc] = content] \/ file' = file
    <2>1. good \in Contents
      BY <1>0, ContentFacts DEF good
    <2>2. /\ \A kind : Fault(kind) => faults' # faults
          /\ \A kind : LostFault(kind) => lost' = TRUE
      BY DEF Fault, LostFault, Meets, IInv, PhaseOK
    <2> QED
      BY <1>b, <2>1, <2>2, ContentFacts DEF Tried
  <1>2. /\ faults' \in Nat /\ lost' \in BOOLEAN /\ (faults' = 0 => ~lost')
        /\ lost => lost'
        /\ faults' = 0 => faults = 0
        /\ faults' = faults \/ faults' = faults + 1
    BY <1>1, Counters DEF IInv
  <1>3. file' \in [Files -> Contents]
    BY <1>1 DEF IInv, PhaseOK, Files
  <1>4. PhaseOK'
    <2>1. pc' \in {"if", "fc", "compile", "undo_te", "undo_if", "idle"}
      BY <1>a DEF next, failed
    <2> QED
      BY <1>0, <1>a, <1>2, <1>3, <2>1 DEF IInv, PhaseOK, Installing, Removing, Checking
  <1>5. Seen' /\ Undone'
    BY <1>0, <1>a DEF Seen, Undone, Ended, Checking, next, failed
  <1>6. Made'
    <2>1. pc' = next /\ file' = [file EXCEPT ![pc] = good] => Made'
      BY <1>l, <1>0, <1>a, <1>2 DEF IInv, PhaseOK, Made, Checking, Files, next, good
    <2>2. lost' = TRUE \/ failed => Made'
      BY <1>0, <1>a DEF Made, Checking, failed
    <2> QED
      BY <1>1, <2>1, <2>2
  <1>7. Smooth'
    BY <1>0, <1>a, <1>1, <1>2 DEF IInv, Smooth, next
  <1> QED
    BY <1>4, <1>5, <1>6, <1>7 DEF IInv

(* The script compiles them, and the module enters the policy. *)
LEMMA CompileStep ==
    ASSUME IInv, launch_compile \/ install_module
    PROVE  IInv'
  <1>1. /\ UNCHANGED <<label, defs, job, before>> /\ n' = 1 /\ Tried
        /\ pc \in {"compile", "module"} /\ job.op = "install" /\ version' = version
        /\ version \in Versions /\ status' = status
    BY DEF launch_compile, install_module, Put, Enter, IInv, PhaseOK, Installing, Tried,
           request, system, version
  <1>l. LabelsDefined' <=> LabelsDefined
    BY <1>1, LabelsKept
  <1>2. /\ faults' \in Nat /\ lost' \in BOOLEAN /\ (faults' = 0 => ~lost')
        /\ lost => lost'
        /\ faults' = 0 => faults = 0
        /\ faults' = faults \/ faults' = faults + 1
        /\ faults' = faults => lost' = lost
    BY <1>1, Counters DEF IInv
  <1> DEFINE whole == \A i \in DOMAIN Sources : file[Sources[i]] = version
             made == IF whole THEN version ELSE Garbled
  <1>3. whole <=> file["te"] = version /\ file["if"] = version /\ file["fc"] = version
    BY SourceFacts
  <1>4. CASE launch_compile
    <2>1. /\ pc = "compile" /\ policy' = policy
          /\ file' = [file EXCEPT !["pp"] = made] \/ file' = file
          /\ \/ pc' = "module" /\ (file' = [file EXCEPT !["pp"] = made] \/ made = Garbled)
             \/ pc' = "module" /\ lost' = TRUE
             \/ pc' = "undo_files" /\ faults' # faults
      BY <1>4 DEF launch_compile, Put, Enter, system, LostFault, Fault, Meets, IInv, PhaseOK
    <2>2. file' \in [Files -> Contents] /\ \A f \in Files \ {"pp"} : file'[f] = file[f]
      BY <1>1, <2>1, ContentFacts DEF IInv, PhaseOK, Files
    <2>3. PhaseOK'
      BY <1>1, <1>2, <2>1, <2>2 DEF IInv, PhaseOK, Installing, Removing, Checking
    <2>4. Seen' /\ Undone'
      BY <1>1, <2>1 DEF Seen, Undone, Ended, Checking
    <2>5. Made'
      <3> SUFFICES ASSUME ~lost', LabelsDefined, pc' = "module"
                   PROVE  \A f \in Files : file'[f] = version
        BY <1>l, <1>1, <2>1 DEF Made, Checking, Files
      <3>1. whole
        BY <1>1, <1>2, <1>3, <2>1 DEF IInv, Made
      <3>2. file' = [file EXCEPT !["pp"] = version]
        BY <1>1, <2>1, <3>1, ContentFacts
      <3> QED
        BY <1>3, <3>1, <3>2 DEF IInv, PhaseOK, Files
    <2>6. Smooth'
      BY <1>1, <1>2, <2>1 DEF IInv, Smooth, Checking
    <2> QED
      BY <2>3, <2>4, <2>5, <2>6 DEF IInv
  <1>5. CASE install_module
    <2>1. /\ pc = "module" /\ file' = file
          /\ \/ pc' = "files" /\ file["pp"] # None /\ policy' = file["pp"]
             \/ pc' = "files" /\ file["pp"] # None /\ policy' = policy /\ lost' = TRUE
             \/ pc' = "undo_pp" /\ policy' = policy /\ (file["pp"] = None \/ faults' # faults)
      BY <1>5 DEF install_module, Enter, system, LostFault, Fault, Meets, IInv, PhaseOK
    <2>2. policy' \in Contents
      BY <2>1 DEF IInv, PhaseOK, Files
    <2>3. PhaseOK'
      BY <1>1, <1>2, <2>1, <2>2 DEF IInv, PhaseOK, Installing, Removing, Checking
    <2>4. Seen' /\ Undone'
      BY <1>1, <2>1 DEF Seen, Undone, Ended, Checking
    <2>5. Made'
      BY <1>l, <1>1, <1>2, <2>1 DEF IInv, Made, Checking
    <2>6. Smooth'
      <3>1. ~lost /\ LabelsDefined => file["pp"] # None
        BY <1>1, <2>1, ContentFacts DEF IInv, Made
      <3> QED
        BY <1>l, <1>1, <1>2, <2>1, <3>1 DEF IInv, Smooth, Checking
    <2> QED
      BY <2>3, <2>4, <2>5, <2>6 DEF IInv
  <1> QED
    BY <1>4, <1>5

(* remove_file either removes the file or leaves the system as it is; it   *)
(* works when the file is there and no call fails.                         *)
LEMMA RemoveFile ==
    ASSUME IInv, NEW f \in Files, NEW next, NEW failed, remove_file(f, next, failed)
    PROVE  /\ UNCHANGED <<policy, label>> /\ lost' = lost /\ lost' \in BOOLEAN
           /\ faults' \in Nat /\ (faults' = 0 => faults = 0 /\ ~lost')
           /\ file' \in [Files -> Contents]
           /\ \/ next /\ file' = [file EXCEPT ![f] = None]
              \/ failed /\ file' = file /\ (file[f] = None \/ faults' # 0)
  <1>1. UNCHANGED <<policy, label>> /\ lost' = lost
    BY DEF remove_file, Put, system, Works, Fault
  <1>2. faults' \in Nat /\ (faults' = 0 => faults = 0)
    BY DEF remove_file, Works, Fault, Meets, IInv, PhaseOK
  <1>3. lost' \in BOOLEAN /\ (faults' = 0 => ~lost')
    BY <1>1, <1>2 DEF IInv, PhaseOK
  <1>4. \/ next /\ file' = [file EXCEPT ![f] = None]
        \/ failed /\ file' = file /\ (file[f] = None \/ faults' # 0)
    BY DEF remove_file, Put, system, Fault, Meets, IInv, PhaseOK
  <1>5. file' \in [Files -> Contents]
    BY <1>4, ContentFacts DEF IInv, PhaseOK
  <1> QED
    BY <1>1, <1>2, <1>3, <1>4, <1>5

(* A failed installation takes back what it wrote. *)
LEMMA UndoStep ==
    ASSUME IInv, \/ undo_module_files \/ undo_pp
                 \/ pc = "undo_files" /\ remove_app_module_files
    PROVE  IInv'
  <1>0. pc \in {"undo_te", "undo_if", "undo_pp", "undo_files"} /\ job.op = "install"
    BY DEF undo_module_files, undo_pp, IInv, PhaseOK, Installing
  <1>1. pc = "undo_files" => n \in 1..3 /\ Sources[n] \in Files /\ Len(Sources) = 3
    BY SourceFacts DEF IInv, PhaseOK
  <1>2. /\ "te" \in Files /\ "if" \in Files /\ "pp" \in Files
        /\ pc \in {"undo_te", "undo_if", "undo_pp"} => pc # "undo_files" /\ pc # "remove"
        /\ pc = "undo_files" => pc # "remove"
    BY DEF Files
  <1>3. \E f \in Files :
           \/ remove_file(f, Enter("undo_te"), Enter("undo_te"))
           \/ remove_file(f, Return("failed"), Return("failed"))
           \/ remove_file(f, Enter("undo_files"), Enter("undo_files"))
           \/ /\ pc = "undo_files"
              /\ remove_file(f, IF n = 3 THEN Return("failed") ELSE Advance, Return("failed"))
    <2>1. CASE undo_module_files
      BY <1>2, <2>1 DEF undo_module_files
    <2>2. CASE undo_pp
      BY <1>2, <2>2 DEF undo_pp
    <2>3. CASE pc = "undo_files" /\ remove_app_module_files
      BY <1>1, <1>2, <2>3 DEF remove_app_module_files
    <2> QED
      BY <2>1, <2>2, <2>3
  <1>4. /\ UNCHANGED <<policy, label>> /\ lost' = lost /\ lost' \in BOOLEAN
        /\ faults' \in Nat /\ (faults' = 0 => faults = 0 /\ ~lost')
        /\ file' \in [Files -> Contents]
        /\ \/ Enter("undo_te") \/ Enter("undo_files") \/ Return("failed")
           \/ pc = "undo_files" /\ n # 3 /\ Advance
    BY <1>3, RemoveFile
  <1>5. /\ UNCHANGED <<defs, job, before>> /\ version' = version
        /\ \/ pc' \in {"undo_te", "undo_files"} /\ status' = status /\ n' \in 1..3
           \/ pc' = "idle" /\ status' = "failed" /\ n' = 1
    BY <1>1, <1>4 DEF Enter, Return, Advance, request, version
  <1>l. LabelsDefined' <=> LabelsDefined
    BY <1>5, LabelsKept
  <1>6. PhaseOK'
    BY <1>0, <1>4, <1>5 DEF IInv, PhaseOK, Installing, Removing, Checking
  <1>7. Seen' /\ Made' /\ Undone'
    BY <1>0, <1>5 DEF Seen, Made, Undone, Ended, Checking
  <1>8. Smooth'
    BY <1>0, <1>4, <1>5, <1>l DEF IInv, Smooth, Checking
  <1> QED
    BY <1>6, <1>7, <1>8 DEF IInv

(* A removal takes the files one after the other. *)
LEMMA RemoveStep ==
    ASSUME IInv, \/ pc = "remove" /\ remove_app_module_files
                 \/ remove_pp_file
    PROVE  IInv'
  <1>0. pc \in {"remove", "remove_pp"} /\ job.op = "uninstall" /\ faults \in Nat
    BY DEF remove_pp_file, IInv, PhaseOK, Removing
  <1>1. pc = "remove" => /\ n \in 1..3 /\ Sources[n] \in Files /\ Len(Sources) = 3
                         /\ Sources[n] # "pp"
    BY SourceFacts DEF IInv, PhaseOK
  <1> DEFINE f == IF pc = "remove" THEN Sources[n] ELSE "pp"
             next == IF pc = "remove"
                     THEN IF n = 3 THEN Enter("remove_pp") ELSE Advance
                     ELSE Enter("unhandle")
  <1>2. f \in Files /\ (pc = "remove_pp" => f = "pp")
    BY <1>1 DEF Files
  <1>3. remove_file(f, next, Return("failed"))
    <2>1. CASE pc = "remove"
      BY <1>1, <2>1 DEF remove_app_module_files, remove_pp_file
    <2>2. CASE pc = "remove_pp"
      BY <2>2 DEF remove_pp_file
    <2> QED
      BY <1>0, <2>1, <2>2
  <1>4. /\ UNCHANGED <<policy, label>> /\ lost' = lost /\ lost' \in BOOLEAN
        /\ faults' \in Nat /\ (faults' = 0 => faults = 0 /\ ~lost')
        /\ file' \in [Files -> Contents]
        /\ \/ next /\ file' = [file EXCEPT ![f] = None]
           \/ Return("failed") /\ file' = file /\ (file[f] = None \/ faults' # 0)
    <2> HIDE DEF next, f
    <2> QED
      BY <1>2, <1>3, RemoveFile
  <1>5. /\ UNCHANGED <<defs, job, before>> /\ version' = version
        /\ \/ /\ file' = [file EXCEPT ![f] = None] /\ status' = status
              /\ \/ pc = "remove" /\ n # 3 /\ pc' = "remove" /\ n' = n + 1
                 \/ pc = "remove" /\ n = 3 /\ pc' = "remove_pp" /\ n' = 1
                 \/ pc = "remove_pp" /\ pc' = "unhandle" /\ n' = 1
           \/ /\ pc' = "idle" /\ status' = "failed" /\ n' = 1 /\ file' = file
              /\ file[f] = None \/ faults' # 0
    BY <1>0, <1>4 DEF Enter, Return, Advance, request, version
  <1>6. PhaseOK'
    <2>1. n' \in Nat \ {0} /\ (pc' = "remove" => n' \in 1..3)
      BY <1>1, <1>5
    <2> QED
      BY <1>0, <1>4, <1>5, <2>1 DEF IInv, PhaseOK, Installing, Removing, Checking
  <1>7. Seen' /\ Made'
    BY <1>0, <1>5 DEF Seen, Made, Ended, Checking
  <1>8. Undone'
    <2>1. CASE pc' = "remove"
      <3>1. \A i \in 1..3 : i < n' => file'[Sources[i]] = None
        BY <1>0, <1>1, <1>5, <2>1, SourceFacts DEF IInv, PhaseOK, Undone
      <3> QED
        BY <2>1, <3>1 DEF Undone, Ended
    <2>2. CASE pc' = "remove_pp"
      <3>1. \A i \in 1..3 : file'[Sources[i]] = None
        BY <1>0, <1>1, <1>5, <2>2, SourceFacts DEF IInv, PhaseOK, Undone
      <3> QED
        BY <2>2, <3>1 DEF Undone, Ended
    <2>3. CASE pc' = "unhandle"
      <3>1. file["te"] = None /\ file["if"] = None /\ file["fc"] = None
        BY <1>5, <2>3, SourceFacts DEF IInv, Undone
      <3>2. file' = [file EXCEPT !["pp"] = None]
        BY <1>2, <1>5, <2>3
      <3>3. \A g \in Files : file'[g] = None
        BY <3>1, <3>2 DEF IInv, PhaseOK, Files
      <3>4. file' = NoFiles
        BY <1>4, <3>3, ContentFacts
      <3> QED
        BY <2>3, <3>4 DEF Undone, Ended
    <2>4. CASE pc' = "idle"
      BY <1>5, <2>4 DEF Undone, Ended
    <2> QED
      BY <1>5, <2>1, <2>2, <2>3, <2>4
  <1>9. Smooth'
    <2> SUFFICES ASSUME faults' = 0, WasWhole
                 PROVE  /\ pc' = "remove" => /\ \A i \in 1..3 : i >= n' => file'[Sources[i]] # None
                                             /\ file'["pp"] # None
                        /\ pc' = "remove_pp" => file'["pp"] # None
                        /\ pc' # "idle"
      BY <1>0, <1>5 DEF Smooth, Checking, WasWhole
    <2>1. /\ pc = "remove" => /\ \A i \in 1..3 : i >= n => file[Sources[i]] # None
                              /\ file["pp"] # None
          /\ pc = "remove_pp" => file["pp"] # None
      BY <1>0, <1>4 DEF IInv, Smooth
    <2>2. file[f] # None
      BY <1>0, <1>1, <2>1
    <2>3. pc' = "remove" \/ pc' = "remove_pp" => file'["pp"] # None
      BY <1>1, <1>4, <1>5, <2>1 DEF IInv, PhaseOK, Files
    <2>4. pc' = "remove" => \A i \in 1..3 : i >= n' => file'[Sources[i]] # None
      <3> SUFFICES ASSUME pc' = "remove", NEW i \in 1..3, i >= n'
                   PROVE  file'[Sources[i]] # None
        OBVIOUS
      <3>1. pc = "remove" /\ n' = n + 1 /\ file' = [file EXCEPT ![Sources[n]] = None]
        BY <1>5
      <3>2. Sources[i] # Sources[n] /\ i >= n
        BY <1>1, <3>1, SourceFacts
      <3> QED
        BY <2>1, <3>1, <3>2, SourceFacts DEF IInv, PhaseOK
    <2> QED
      BY <1>5, <2>2, <2>3, <2>4
  <1> QED
    BY <1>6, <1>7, <1>8, <1>9 DEF IInv

(* The module leaves the policy; a failure may be lost. *)
LEMMA RemoveModuleStep ==
    ASSUME IInv, remove_module
    PROVE  IInv'
  <1>1. /\ UNCHANGED <<file, label, defs, job, before>> /\ n' = 1 /\ Tried
        /\ pc = "unmodule" /\ job.op = "uninstall" /\ version' = version
        /\ \/ pc' = "gone_files" /\ status' = status
           \/ pc' = "idle" /\ status' = "failed" /\ faults' # faults
        /\ policy' \in {None, policy}
    BY DEF remove_module, Enter, Return, IInv, PhaseOK, Removing, Tried, Fault, Meets,
           request, version
  <1>l. LabelsDefined' <=> LabelsDefined
    BY <1>1, LabelsKept
  <1>2. /\ faults' \in Nat /\ lost' \in BOOLEAN /\ (faults' = 0 => ~lost')
        /\ faults' = 0 => faults = 0
        /\ faults' = faults \/ faults' = faults + 1
    BY <1>1, Counters DEF IInv
  <1>3. pc' = "gone_files" => policy' = None \/ (lost' /\ faults' >= 1)
    BY <1>2 DEF remove_module, Enter, Return, LostFault, Meets
  <1>4. PhaseOK'
    <2>1. policy' \in Contents
      BY <1>1, ContentFacts DEF IInv, PhaseOK
    <2> QED
      BY <1>1, <1>2, <2>1 DEF IInv, PhaseOK, Installing, Removing, Checking
  <1>5. Seen' /\ Made' /\ Undone'
    BY <1>1, <1>3 DEF IInv, Seen, Made, Undone, Ended, Checking
  <1>6. Smooth'
    BY <1>1, <1>2 DEF IInv, Smooth, Checking
  <1> QED
    BY <1>4, <1>5, <1>6 DEF IInv

(* The next path is labelled, and no later one is the same. *)
LEMMA LabelStep ==
    ASSUME IInv, selinux_process_paths
    PROVE  IInv'
  <1> DEFINE P == PathSet[version]
  <1>1. /\ UNCHANGED <<file, policy, defs, job, before>> /\ Tried /\ lost' = lost
        /\ pc = "label" /\ job.op = "install" /\ version' = version /\ version \in Versions
        /\ n <= Len(P)
        /\ \/ /\ pc' = "label" /\ n' = n + 1 /\ status' = status
              /\ label' = [label EXCEPT ![P[n].path] = Labelled(P[n].type)]
           \/ /\ pc' = "idle" /\ n' = 1 /\ status' = "failed" /\ label' = label
              /\ faults' # faults
    BY DEF selinux_process_paths, item, Advance, Return, IInv, PhaseOK, Installing, Tried,
           Works, Fault, Meets, request, version
  <1>l. LabelsDefined' <=> LabelsDefined
    BY <1>1, LabelsKept
  <1>2. /\ faults' \in Nat /\ lost' \in BOOLEAN /\ (faults' = 0 => ~lost')
        /\ faults' = 0 => faults = 0
        /\ faults' = faults \/ faults' = faults + 1
    BY <1>1, Counters DEF IInv
  <1>3. /\ Len(P) \in Nat /\ DOMAIN P = 1..Len(P) /\ n \in DOMAIN P /\ n \in Nat \ {0}
        /\ \A i \in DOMAIN P : P[i].path \in Paths /\ P[i].type \in DOMAIN suffix
        /\ \A i, j \in DOMAIN P : P[i].path = P[j].path => i = j
    <2>1. n \in Nat \ {0} /\ version \in Versions
      BY <1>1 DEF IInv, PhaseOK
    <2>2. /\ Len(P) \in Nat /\ DOMAIN P = 1..Len(P)
          /\ \A i \in DOMAIN P : P[i].path \in Paths /\ P[i].type \in DOMAIN suffix
      BY <2>1, PathFacts
    <2>3. \A i, j \in DOMAIN P : P[i].path = P[j].path => i = j
      BY <2>1, SelinuxAssumption
    <2>4. n \in DOMAIN P
      BY <1>1, <2>1, <2>2
    <2> QED
      BY <2>1, <2>2, <2>3, <2>4
  <1> HIDE DEF P
  <1>4. PhaseOK'
    <2>1. Labelled(P[n].type) \in Labels
      <3>1. suffix["default"] = Undefined /\ "default" \in DOMAIN suffix
        BY DEF suffix
      <3>2. \A t \in DOMAIN suffix : suffix[t] \in Labels
        BY DEF Labels
      <3> QED
        BY <1>3, <3>1, <3>2 DEF Labelled
    <2>2. label' \in [Paths -> Labels]
      BY <1>1, <1>3, <2>1 DEF IInv, PhaseOK
    <2>3. n' \in Nat \ {0}
      BY <1>1, <1>3
    <2> QED
      BY <1>1, <1>2, <2>2, <2>3 DEF IInv, PhaseOK, Installing, Removing, Checking
  <1>5. Seen' /\ Undone'
    BY <1>1 DEF IInv, Seen, Undone, Ended, Complete, AllSources, Checking
  <1>6. Made'
    <2> SUFFICES ASSUME ~lost', LabelsDefined, pc' = "label"
                 PROVE  /\ \A f \in Files : file[f] = version
                        /\ policy = version
                        /\ \A i \in DOMAIN P : i < n' => label'[P[i].path] = suffix[P[i].type]
      BY <1>l, <1>1 DEF Made, Checking, Files, P
    <2>1. /\ \A f \in Files : file[f] = version
          /\ policy = version
          /\ \A i \in DOMAIN P : i < n => label[P[i].path] = suffix[P[i].type]
      BY <1>1 DEF IInv, Made, Files, P
    <2>2. n' = n + 1 /\ label' = [label EXCEPT ![P[n].path] = suffix[P[n].type]]
      <3>1. Labelled(P[n].type) # Undefined
        BY <1>3 DEF LabelsDefined, P
      <3>2. Labelled(P[n].type) = suffix[P[n].type]
        BY <3>1 DEF Labelled
      <3> QED
        BY <1>1, <3>2
    <2>3. ASSUME NEW i \in DOMAIN P, i < n'
          PROVE  label'[P[i].path] = suffix[P[i].type]
      <3>1. i < n \/ i = n
        BY <1>3, <2>2, <2>3
      <3>2. CASE i = n
        BY <1>3, <2>2, <3>2 DEF IInv, PhaseOK
      <3>3. CASE i < n
        <4>1. P[i].path # P[n].path
          BY <1>3, <3>3
        <4> QED
          BY <1>3, <2>1, <2>2, <3>3, <4>1 DEF IInv, PhaseOK
      <3> QED
        BY <3>1, <3>2, <3>3
    <2> QED
      BY <2>1, <2>3
  <1>7. Smooth'
    BY <1>1, <1>2 DEF IInv, Smooth
  <1> QED
    BY <1>4, <1>5, <1>6, <1>7 DEF IInv

-----------------------------------------------------------------------------
(* The theorems. *)

LEMMA InitIInv == Init => IInv
  <1> SUFFICES ASSUME Init PROVE IInv
    OBVIOUS
  <1>1. /\ file = NoFiles /\ policy = None /\ label = [p \in Paths |-> "unset"]
        /\ defs = "good" /\ job = [op |-> "none", version |-> None] /\ pc = "idle"
        /\ n = 1 /\ status = "ok" /\ faults = 0 /\ lost = FALSE
    BY DEF Init
  <1>2. job.op = "none"
    BY <1>1
  <1>3. PhaseOK
    <2>1. label \in [Paths -> Labels]
      BY <1>1 DEF Labels
    <2>2. lost \in BOOLEAN /\ ~lost
      BY <1>1
    <2> QED
      BY <1>1, <1>2, <2>1, <2>2, ContentFacts
      DEF PhaseOK, Installing, Removing, Checking
  <1>4. Seen /\ Made /\ Undone /\ Smooth
    BY <1>1, <1>2 DEF Seen, Made, Undone, Smooth, Ended, Checking
  <1> QED
    BY <1>3, <1>4 DEF IInv

LEMMA NextIInv == IInv /\ [Next]_vars => IInv'
  <1> SUFFICES ASSUME IInv, [Next]_vars PROVE IInv'
    OBVIOUS
  <1>1. CASE (\E v \in Versions : selinux_install(v)) \/ selinux_uninstall \/ refuse
    BY <1>1, RequestStep
  <1>2. CASE create_semanage_handle \/ CheckFiles \/ CheckPolicy
             \/ selinux_installed \/ Crash
    BY <1>2, CheckStep
  <1>3. CASE template_process \/ generate_app_module_fc
    BY <1>3, WriteStep
  <1>4. CASE launch_compile \/ install_module
    BY <1>4, CompileStep
  <1>5. CASE undo_module_files \/ undo_pp
    BY <1>5, UndoStep
  <1>6. CASE remove_app_module_files
    <2>1. pc = "undo_files" \/ pc = "remove"
      BY <1>6 DEF remove_app_module_files
    <2> QED
      BY <1>6, <2>1, UndoStep, RemoveStep
  <1>7. CASE remove_pp_file
    BY <1>7, RemoveStep
  <1>8. CASE remove_module
    BY <1>8, RemoveModuleStep
  <1>9. CASE selinux_process_paths
    BY <1>9, LabelStep
  <1>10. CASE UNCHANGED vars
    <2>1. UNCHANGED <<file, policy, label, defs, job, before, pc, n, status, faults, lost>>
      BY <1>10 DEF vars, system, request
    <2>2. version' = version /\ (LabelsDefined' <=> LabelsDefined)
      BY <2>1, LabelsKept DEF version
    <2> QED
      BY <2>1, <2>2
      DEF IInv, PhaseOK, Seen, Made, Undone, Smooth, WasWhole, Ended, Complete, AllSources,
          InForce
  <1> QED
    BY <1>1, <1>2, <1>3, <1>4, <1>5, <1>6, <1>7, <1>8, <1>9, <1>10 DEF Next, Step

LEMMA AlwaysIInv == Spec => []IInv
  BY InitIInv, NextIInv, PTL DEF Spec

(* An installation or a removal that returns 0 left what it promises,      *)
(* whichever of the calls to the system failed and whichever failures were *)
(* lost: the verifications of selinux_install and selinux_uninstall.       *)
THEOREM SelinuxSuccessIsVerified == Spec => []SuccessIsVerified
  <1>1. IInv => SuccessIsVerified
    <2> SUFFICES ASSUME IInv PROVE SuccessIsVerified
      OBVIOUS
    <2>1. Ended("install", "ok") =>
             Complete /\ (~lost /\ LabelsDefined => InForce(version))
      BY DEF IInv, Seen, Made, Ended
    <2>2. Ended("uninstall", "ok") =>
             file = NoFiles /\ (policy = None \/ (lost /\ faults >= 2))
      BY DEF IInv, Undone
    <2>3. faults >= 2 => faults # 1
      OBVIOUS
    <2> QED
      BY <2>1, <2>2, <2>3 DEF SuccessIsVerified
  <1> QED
    BY <1>1, AlwaysIInv, PTL

(* Whatever earlier requests left, an installation that meets no failing   *)
(* call succeeds, and so does the removal of a whole module.               *)
THEOREM SelinuxInstallRepairs == Spec => []InstallRepairs
  <1>1. IInv => InstallRepairs
    <2> SUFFICES ASSUME IInv PROVE InstallRepairs
      OBVIOUS
    <2>1. DOMAIN file = Files
      BY DEF IInv, PhaseOK
    <2> QED
      BY <2>1 DEF IInv, Smooth, WasWhole, InstallRepairs
  <1> QED
    BY <1>1, AlwaysIInv, PTL

=============================================================================
