---------------------------- MODULE InstallProofs ----------------------------
(***************************************************************************)
(* What an action leaves on a Smack system, for any profiles, any set of   *)
(* calls that may fail and any number of failures: the invariants of       *)
(* module Install.  The inductive invariant says, for each phase, what     *)
(* the calls made so far have achieved.                                    *)
(***************************************************************************)
EXTENDS Install, TLAPS

(* What check_context and the types of a context give of a profile. *)
LEMMA ProfileFacts ==
    ASSUME NEW p \in Profiles
    PROVE  /\ p.id \in BOOLEAN /\ p.permissions \subseteq Permissions
           /\ p.plugs \in Seq(Links)
           /\ p.paths \in Seq(PathItems)
           /\ Len(p.plugs) \in Nat /\ DOMAIN p.plugs = 1..Len(p.plugs)
           /\ Len(p.paths) \in Nat /\ DOMAIN p.paths = 1..Len(p.paths)
           /\ \A i \in 1..Len(p.plugs) : p.plugs[i] \in Links
           /\ \A i \in 1..Len(p.paths) :
                 p.paths[i] \in PathItems
           /\ Rules(p) \in SUBSET AllRules
           /\ ~p.id => p.permissions = {} /\ p.plugs = <<>> /\ LinksOf(p) = {}
           /\ \A i, j \in 1..Len(p.plugs) : p.plugs[i] = p.plugs[j] => i = j
           /\ \A i, j \in 1..Len(p.paths) : p.paths[i].path = p.paths[j].path => i = j
  <1>1. p \in ProfileType
    BY InstallAssumption
  <1>2. Rules(p) \in SUBSET AllRules
    BY DEF AllRules
  <1>3. ~p.id => p.permissions = {} /\ p.plugs = <<>> /\ LinksOf(p) = {}
    BY InstallAssumption DEF LinksOf
  <1>4. p.id \in BOOLEAN
    BY <1>1 DEF ProfileType
  <1>5. /\ p.permissions \subseteq Permissions
        /\ p.plugs \in Seq(Links)
        /\ p.paths \in Seq(PathItems)
    BY <1>1 DEF ProfileType
  <1>6. /\ Len(p.plugs) \in Nat /\ DOMAIN p.plugs = 1..Len(p.plugs)
        /\ \A i \in 1..Len(p.plugs) : p.plugs[i] \in Links
    BY <1>5
  <1>7. /\ Len(p.paths) \in Nat /\ DOMAIN p.paths = 1..Len(p.paths)
        /\ \A i \in 1..Len(p.paths) :
              p.paths[i] \in PathItems
    BY <1>5
  <1>8. /\ \A i, j \in 1..Len(p.plugs) : p.plugs[i] = p.plugs[j] => i = j
        /\ \A i, j \in 1..Len(p.paths) : p.paths[i].path = p.paths[j].path => i = j
    BY <1>6, <1>7, InstallAssumption
  <1> QED
    BY <1>2, <1>3, <1>4, <1>5, <1>6, <1>7, <1>8

(* The attributes that the code writes are labels. *)
LEMMA LabelsType ==
    /\ bare \in Xattrs /\ dropped \in Xattrs
    /\ \A it \in PathItems : labels(it) \in Xattrs
  <1>1. Unset \in Labels /\ DROP_LABEL \in Labels /\ "TRUE" \in Labels
    BY DEF Labels
  <1>2. \A t \in DOMAIN patterns : patterns[t].label \in Labels
    BY DEF Labels
  <1>3. patterns.id.label \in Labels
    BY <1>2 DEF patterns, Pattern
  <1> QED
    BY <1>1, <1>2, <1>3 DEF Xattrs, bare, dropped, labels, PathItems

-----------------------------------------------------------------------------
(* The inductive invariant. *)

Cleaning == {"drop", "unplug", "unload", "remove"}

(* Which requests are in which phases, and with which status. *)
PhaseOK ==
    /\ pc # "idle" => job.op \in {"install", "uninstall"} /\ profile \in Profiles
    /\ pc \in Phases \ {"unlabel", "drop"} => profile.id
    /\ pc = "unlabel" => ~profile.id
    /\ pc \in {"template", "load", "undo", "plug", "label", "unlabel", "revoke"}
          => job.op = "install"
    /\ pc \in {"permissions", "template", "load", "plug", "label", "unlabel"}
          => status = "ok"
    /\ pc \in Cleaning => status \in {"ok", "failed"}
    /\ pc \in {"undo", "revoke"} \/ (pc \in Cleaning /\ job.op = "install")
          => status = "failed"
    /\ pc \notin {"plug", "label", "unlabel", "drop", "unplug"} => rc = "ok"
    /\ pc \in {"plug", "unplug"} => n <= Len(profile.plugs)
    /\ pc \in {"load", "plug", "label"} => file # NoFile
    /\ faults = 0 => ~lost

(* The attributes that a phase gives to a path, and those it gave so far.  *)
Target(phase, it) ==
    IF phase = "label" THEN labels(it) ELSE IF phase = "unlabel" THEN bare ELSE dropped

Written(phase) ==
    \A i \in DOMAIN profile.paths, k \in 1..3 :
        3 * (i - 1) + k <= n =>
            xattr[profile.paths[i].path][Attributes[k]]
                = Target(phase, profile.paths[i])[Attributes[k]]

AllLinks(state) == \A l \in LinksOf(profile) : links[l] = state
FirstLinks(state) == \A i \in 1..n : links[profile.plugs[i]] = state
NextLinks(state) == \A i \in n + 1..Len(profile.plugs) : links[profile.plugs[i]] = state
AllDropped == \A path \in PathsOf(profile) : xattr[path] = dropped

(* An installation that noticed no failure and lost none has done what its *)
(* phases were for.                                                        *)
InstallProgress ==
    job.op = "install" /\ ~lost /\ status = "ok" /\ rc = "ok" =>
        /\ pc \in {"template", "load", "plug", "label"} => granted = profile.permissions
        /\ pc \in {"load", "plug", "label"} => file = <<Rules(profile)>>
        /\ pc \in {"plug", "label"} => Rules(profile) \subseteq loaded
        /\ pc = "plug" => FirstLinks("labelled")
        /\ pc = "label" => AllLinks("labelled")
        /\ pc \in {"label", "unlabel"} => Written(pc)
        /\ pc = "idle" => InForce(profile)

(* So has an uninstallation; it has the file of rules of before until the  *)
(* end.  Without failing call only the removal of the file may fail.       *)
RemovalProgress ==
    job.op = "uninstall" =>
        /\ faults = 0 /\ pc # "idle" => rc = "ok" /\ status = "ok"
        /\ ~lost /\ rc = "ok" /\ (status = "ok" \/ faults = 0) =>
              /\ pc \in Cleaning /\ profile.id => granted = {}
              /\ pc \in Cleaning \cup {"permissions"} => file = before[2]
              /\ pc = "drop" => Written("drop")
              /\ pc \in Cleaning \ {"drop"} => AllDropped
              /\ pc = "unplug" => FirstLinks("none")
              /\ pc \in {"unload", "remove"} => AllLinks("none")
              /\ pc = "remove" => loaded = Unloaded(before)
              /\ pc = "idle" => system = Without(profile, before)

(* Whatever fails, it touches only what its profile names, and the loaded  *)
(* rules last.                                                             *)
RemovalKeeps ==
    job.op = "uninstall" =>
        /\ \A path \in Paths \ PathsOf(profile) : xattr[path] = before[5][path]
        /\ \A l \in Links \ LinksOf(profile) : links[l] = before[4][l]
        /\ pc \in Cleaning \cup {"permissions"} /\ pc # "remove" => loaded = before[3]
        /\ ~profile.id => /\ granted = before[1] /\ file = before[2]
                          /\ loaded = before[3]

(* An installation that meets no failing call fails because of a link that *)
(* exists, and removes it; the next one finds none.                        *)
RetryProgress ==
    /\ retry \in BOOLEAN
    /\ job.op = "install" /\ faults = 0 =>
          /\ pc # "undo" /\ (pc # "plug" => rc = "ok")
          /\ pc = "unplug" => FirstLinks("none")
          /\ pc \in {"unload", "remove", "revoke"} => AllLinks("none")
          /\ pc = "idle" /\ status = "failed" => AllLinks("none")
          /\ retry =>
                /\ pc \in {"permissions", "template", "load"} => AllLinks("none")
                /\ pc = "plug" => rc = "ok" /\ NextLinks("none")
                /\ pc \notin Cleaning \cup {"revoke"}
                /\ pc = "idle" => status = "ok"

(* A first installation that met at most one failure, and lost none.  What *)
(* it does not own stays clean, a failure in it is the only one, and the   *)
(* loaded rules are in the file that the cleaning reads.                   *)
FirstInstall == job.op = "install" /\ Clean(before) /\ faults <= 1 /\ ~lost

FirstPhases ==
    /\ \A path \in Paths \ PathsOf(profile) : xattr[path] \in {bare, dropped}
    /\ \A l \in Links \ LinksOf(profile) : links[l] = "none"
    /\ file = NoFile => loaded = {}
    /\ file # NoFile => loaded \subseteq file[1]
    /\ ~profile.id => granted = {} /\ file = NoFile
    /\ pc = "permissions" => Clean(system)
    /\ pc = "template" => file = NoFile
    /\ pc \in {"load", "undo", "remove", "revoke"} => loaded = {}
    /\ pc = "revoke" => file = NoFile
    /\ faults = 0 =>
          /\ pc \notin Cleaning \cup {"undo", "revoke"} /\ rc = "ok"
          /\ pc \in {"template", "load"} => AllLinks("none")
          /\ pc = "plug" => NextLinks("none")
    /\ pc \in Cleaning => rc = "ok"
    /\ pc = "drop" => Written("drop")
    /\ pc \in {"unplug", "unload", "remove", "revoke"} => AllDropped
    /\ pc = "unplug" => FirstLinks("none")
    /\ pc \in {"unload", "remove", "revoke"} => AllLinks("none")

FirstProgress ==
    FirstInstall => /\ pc # "idle" => FirstPhases
                    /\ pc = "idle" /\ status = "failed" => Clean(system)

IInv ==
    /\ TypeOK /\ PhaseOK /\ GrantedIsProfile
    /\ InstallProgress /\ RemovalProgress /\ RemovalKeeps
    /\ RetryProgress /\ FirstProgress

-----------------------------------------------------------------------------
(* Lemmas on the steps. *)

(* Where the loop over the paths is. *)
LEMMA Position ==
    ASSUME TypeOK, profile \in Profiles, ~LastPath
    PROVE  /\ n \div 3 \in Nat /\ n % 3 \in 0..2
           /\ n = (3 * (n \div 3)) + (n % 3)
           /\ n \div 3 + 1 \in 1..Len(profile.paths)
           /\ item \in PathItems /\ item.path \in Paths
           /\ attribute \in {"access", "exec", "transmute"}
  <1>1. /\ n \div 3 \in Nat /\ n % 3 \in 0..2
        /\ n = (3 * (n \div 3)) + (n % 3)
    BY DEF TypeOK
  <1>2. Len(profile.paths) \in Nat
    BY ProfileFacts
  <1>3. n \div 3 + 1 \in 1..Len(profile.paths)
    BY <1>1, <1>2 DEF LastPath, TypeOK
  <1>4. item \in PathItems
    BY <1>3, ProfileFacts DEF item
  <1>5. attribute \in {"access", "exec", "transmute"}
    <2>1. (n % 3) + 1 = 1 \/ (n % 3) + 1 = 2 \/ (n % 3) + 1 = 3
      BY <1>1
    <2> QED
      BY <2>1 DEF attribute, Attributes
  <1> QED
    BY <1>1, <1>3, <1>4, <1>5 DEF PathItems

(* The attributes that a phase wants are labels. *)
LEMMA TargetType ==
    ASSUME NEW phase, NEW it \in PathItems
    PROVE  Target(phase, it) \in Xattrs
  BY LabelsType DEF Target

(* A write, whether it works or not, changes one attribute of one path.    *)
LEMMA WriteType ==
    ASSUME TypeOK, profile \in Profiles, NEW w \in Xattrs, NEW reports,
           put_xattr(w, reports)
    PROVE  /\ xattr' \in [Paths -> Xattrs]
           /\ \A path \in Paths \ PathsOf(profile) : xattr'[path] = xattr[path]
           /\ rc' \in {"ok", "failed"} /\ faults' \in 0..MaxFaults /\ lost' \in BOOLEAN
           /\ n' = n + 1 /\ n' \in Nat
           /\ UNCHANGED <<job, pc, status, before, retry, granted, file, loaded, links>>
           /\ faults' = 0 => rc' = rc /\ lost' = lost /\ faults = 0
           /\ faults' >= faults /\ (lost => lost')
           /\ faults' = faults => rc' = rc /\ lost' = lost
           /\ rc' = "ok" => rc = "ok"
  <1>1. /\ item.path \in Paths /\ attribute \in {"access", "exec", "transmute"}
        /\ n \div 3 + 1 \in DOMAIN profile.paths
    BY Position, ProfileFacts DEF put_xattr
  <1>2. item.path \in PathsOf(profile)
    BY <1>1 DEF item, PathsOf
  <1>3. xattr' \in [Paths -> Xattrs]
    BY <1>1 DEF put_xattr, TypeOK, Xattrs
  <1>4. \A path \in Paths \ PathsOf(profile) : xattr'[path] = xattr[path]
    BY <1>1, <1>2 DEF put_xattr, TypeOK
  <1>5. /\ rc' \in {"ok", "failed"} /\ n' = n + 1 /\ n' \in Nat
        /\ UNCHANGED <<job, pc, status, before, retry, granted, file, loaded, links>>
        /\ rc' = "ok" => rc = "ok"
    BY DEF put_xattr, Advance, TypeOK
  <1>6. /\ faults' \in 0..MaxFaults /\ faults' >= faults
        /\ faults' = 0 => rc' = rc /\ faults = 0
        /\ faults' = faults => rc' = rc
    BY InstallAssumption DEF put_xattr, Works, Fault, Advance, TypeOK
  <1>7. lost' \in BOOLEAN /\ (lost => lost')
    <2>1. CASE Works
      BY <2>1 DEF Works, TypeOK
    <2>2. CASE Fault(WriteKind(w))
      BY <2>2, Zenon DEF Fault, TypeOK
    <2> QED
      BY <2>1, <2>2 DEF put_xattr
  <1>8. \/ lost' = lost
        \/ faults' # faults /\ faults' # 0
    <2>1. CASE Works
      BY <2>1 DEF Works
    <2>2. CASE Fault(WriteKind(w))
      BY <2>2 DEF Fault, TypeOK
    <2> QED
      BY <2>1, <2>2 DEF put_xattr
  <1> QED
    BY <1>3, <1>4, <1>5, <1>6, <1>7, <1>8

(* A failing call is counted, and never hides that another was lost. *)
LEMMA FaultFacts ==
    ASSUME TypeOK, NEW kind, Fault(kind)
    PROVE  /\ faults' = faults + 1 /\ faults' \in 0..MaxFaults /\ faults' # 0
           /\ lost' \in BOOLEAN /\ (lost => lost') /\ (kind \in Lossy => lost')
  <1>1. faults' = faults + 1 /\ faults' \in 0..MaxFaults /\ faults' # 0
    BY InstallAssumption DEF Fault, TypeOK
  <1>2. lost' \in BOOLEAN /\ (lost => lost') /\ (kind \in Lossy => lost')
    BY Zenon DEF Fault, TypeOK
  <1> QED
    BY <1>1, <1>2

(* The loop over the paths keeps what it wrote and adds one attribute,     *)
(* unless a failure is reported or lost.                                   *)
LEMMA WriteStep ==
    ASSUME TypeOK, profile \in Profiles, NEW phase, NEW reports \in BOOLEAN,
           put_xattr(Target(phase, item), reports),
           ~reports => WriteKind(Target(phase, item)) \in Lossy,
           Written(phase), rc' = "ok", ~lost'
    PROVE  Written(phase)'
  <1> DEFINE w == Target(phase, item)
             d == n \div 3 + 1
  <1>1. /\ n \div 3 \in Nat /\ n % 3 \in 0..2 /\ n = (3 * (n \div 3)) + (n % 3)
        /\ d \in 1..Len(profile.paths) /\ item \in PathItems /\ item.path \in Paths
        /\ w \in Xattrs
    BY Position, TargetType DEF put_xattr
  <1>2. /\ n' = n + 1 /\ job' = job
        /\ xattr' = [xattr EXCEPT ![item.path][attribute] = w[attribute]]
    <2>1. ~Fault(WriteKind(w)) \/ reports
      BY FaultFacts, Zenon
    <2>2. ~(Fault(WriteKind(w)) /\ Advance(IF reports THEN "failed" ELSE rc))
      BY <2>1 DEF Advance
    <2> QED
      BY <2>2 DEF put_xattr, Advance
  <1> SUFFICES ASSUME NEW i \in DOMAIN profile.paths, NEW k \in 1..3,
                      3 * (i - 1) + k <= n + 1
               PROVE  xattr'[profile.paths[i].path][Attributes[k]]
                        = Target(phase, profile.paths[i])[Attributes[k]]
    BY <1>2 DEF Written, profile
  <1>3. i \in 1..Len(profile.paths) /\ profile.paths[i].path \in Paths
    BY ProfileFacts DEF PathItems
  <1>4. CASE i = d /\ k = (n % 3) + 1
    <2>1. profile.paths[i] = item /\ Attributes[k] = attribute
      BY <1>4 DEF item, attribute
    <2>2. attribute \in {"access", "exec", "transmute"}
      BY Position DEF put_xattr
    <2> QED
      BY <1>1, <1>2, <2>1, <2>2 DEF TypeOK, Xattrs
  <1>5. CASE ~(i = d /\ k = (n % 3) + 1)
    <2>1. 3 * (i - 1) + k <= n
      BY <1>1, <1>3, <1>5 DEF TypeOK
    <2>2. xattr[profile.paths[i].path][Attributes[k]]
            = Target(phase, profile.paths[i])[Attributes[k]]
      BY <2>1 DEF Written
    <2>3. CASE i # d
      <3>1. profile.paths[i].path # item.path
        BY <1>1, <1>3, <2>3, ProfileFacts DEF item
      <3> QED
        BY <1>1, <1>2, <1>3, <2>2, <3>1 DEF TypeOK
    <2>4. CASE i = d
      <3>1. k # (n % 3) + 1 /\ profile.paths[i] = item
        BY <1>5, <2>4 DEF item
      <3>2. /\ (n % 3) + 1 \in {1, 2, 3} /\ k \in {1, 2, 3}
        BY <1>1
      <3>3. Attributes[k] # attribute
        BY <3>1, <3>2 DEF Attributes, attribute
      <3>4. Attributes[k] \in {"access", "exec", "transmute"}
        BY <3>2 DEF Attributes
      <3> QED
        BY <1>1, <1>2, <2>2, <3>1, <3>3, <3>4 DEF TypeOK, Xattrs
    <2> QED
      BY <2>3, <2>4
  <1> QED
    BY <1>4, <1>5

(* A loop that begins has written nothing, one that ended has written all. *)
LEMMA WriteStart ==
    ASSUME NEW phase, profile' \in Profiles, n' = 0
    PROVE  Written(phase)'
  <1>1. DOMAIN profile'.paths = 1..Len(profile'.paths) /\ Len(profile'.paths) \in Nat
    BY ProfileFacts
  <1> QED
    BY <1>1 DEF Written

LEMMA WriteEnd ==
    ASSUME TypeOK, profile \in Profiles, NEW phase, Written(phase), LastPath
    PROVE  \A i \in DOMAIN profile.paths :
               xattr[profile.paths[i].path] = Target(phase, profile.paths[i])
  <1> SUFFICES ASSUME NEW i \in DOMAIN profile.paths
               PROVE  xattr[profile.paths[i].path] = Target(phase, profile.paths[i])
    OBVIOUS
  <1>1. /\ i \in 1..Len(profile.paths) /\ Len(profile.paths) \in Nat
        /\ profile.paths[i] \in PathItems
    BY ProfileFacts
  <1> DEFINE x == xattr[profile.paths[i].path]
             w == Target(phase, profile.paths[i])
  <1>2. x \in Xattrs /\ w \in Xattrs
    BY <1>1, TargetType DEF TypeOK, PathItems
  <1>3. \A k \in 1..3 : 3 * (i - 1) + k <= n
    BY <1>1 DEF LastPath, TypeOK
  <1>4. \A k \in 1..3 : x[Attributes[k]] = w[Attributes[k]]
    BY <1>3 DEF Written
  <1>5. x.access = w.access /\ x.exec = w.exec /\ x.transmute = w.transmute
    <2>1. /\ x[Attributes[1]] = w[Attributes[1]]
          /\ x[Attributes[2]] = w[Attributes[2]]
          /\ x[Attributes[3]] = w[Attributes[3]]
      BY <1>4
    <2> QED
      BY <2>1 DEF Attributes
  <1> HIDE DEF x, w
  <1> QED
    BY <1>2, <1>5 DEF Xattrs, x, w

(* Failures that are not reported are lost. *)
LEMMA Reports ==
    ASSUME TypeOK, profile \in Profiles, ~LastPath
    PROVE  /\ \A w : SetReports(w) \in BOOLEAN
           /\ \A w : ~SetReports(w) => WriteKind(w) \in Lossy
           /\ UnsetReports \in BOOLEAN
           /\ ~UnsetReports => WriteKind(bare) \in Lossy
  <1>1. attribute \in {"access", "exec", "transmute"}
    BY Position
  <1>2. ASSUME NEW w PROVE /\ SetReports(w) \in BOOLEAN
                           /\ ~SetReports(w) => WriteKind(w) \in Lossy
    BY <1>1 DEF SetReports, WriteKind, Lossy
  <1>3. /\ UnsetReports \in BOOLEAN
        /\ ~UnsetReports => WriteKind(bare) \in Lossy
    BY DEF UnsetReports, WriteKind, Lossy, bare
  <1> QED
    BY <1>2, <1>3

(* The writes of each loop: their types, and that what was written stays.  *)
Writes ==
    \/ pc = "label" /\ put_xattr(labels(item), SetReports(labels(item)))
    \/ pc = "unlabel" /\ put_xattr(bare, UnsetReports)
    \/ pc = "drop" /\ put_xattr(dropped, SetReports(dropped))

LEMMA WritesFacts ==
    ASSUME TypeOK, profile \in Profiles, Writes
    PROVE  /\ xattr' \in [Paths -> Xattrs]
           /\ \A path \in Paths \ PathsOf(profile) : xattr'[path] = xattr[path]
           /\ rc' \in {"ok", "failed"} /\ faults' \in 0..MaxFaults /\ lost' \in BOOLEAN
           /\ n' = n + 1 /\ n' \in Nat /\ pc \in {"label", "unlabel", "drop"}
           /\ UNCHANGED <<job, pc, status, before, retry, granted, file, loaded, links>>
           /\ faults' = 0 => rc' = rc /\ lost' = lost /\ faults = 0
           /\ faults' >= faults /\ (lost => lost')
           /\ faults' = faults => rc' = rc /\ lost' = lost
           /\ rc' = "ok" => rc = "ok"
           /\ Written(pc) /\ rc' = "ok" /\ ~lost' => Written(pc)'
  <1>1. ~LastPath
    BY DEF Writes, put_xattr
  <1>2. item \in PathItems
    BY <1>1, Position
  <1>3. PICK reports \in BOOLEAN :
          /\ put_xattr(Target(pc, item), reports)
          /\ ~reports => WriteKind(Target(pc, item)) \in Lossy
    BY <1>1, Reports DEF Writes, Target
  <1>4. Target(pc, item) \in Xattrs
    BY <1>2, TargetType
  <1>5. UNCHANGED <<pc, job>>
    BY <1>3 DEF put_xattr, Advance
  <1>6. ASSUME Written(pc), rc' = "ok", ~lost' PROVE Written(pc)'
    <2>1. PICK q : q = pc
      OBVIOUS
    <2>2. Written(q)'
      BY <1>3, <1>6, <2>1, WriteStep
    <2> QED
      BY <1>5, <2>1, <2>2
  <1>7. pc \in {"label", "unlabel", "drop"}
    BY DEF Writes
  <1> QED
    BY <1>3, <1>4, <1>6, <1>7, WriteType, Zenon

(* A request begins in the phase that suits it. *)
LEMMA RequestFacts ==
    ASSUME TypeOK, NEW op \in {"install", "uninstall"}, NEW p \in Profiles, Request(op, p)
    PROVE  /\ job' = [op |-> op, profile |-> p] /\ job'.op = op /\ profile' = p
           /\ n' = 0 /\ rc' = "ok" /\ status' = "ok" /\ faults' = 0 /\ lost' = FALSE
           /\ before' = system /\ UNCHANGED <<granted, file, loaded, links, xattr>>
           /\ \/ p.id /\ pc' = "permissions"
              \/ ~p.id /\ op = "install" /\ pc' = "unlabel"
              \/ ~p.id /\ op = "uninstall" /\ pc' = "drop"
           /\ retry' \in BOOLEAN
           /\ retry' => job' = job /\ status = "failed" /\ faults = 0
  <1>1. p.id \in BOOLEAN
    BY ProfileFacts
  <1>2. job' = [op |-> op, profile |-> p] /\ job'.op = op /\ profile' = p
    BY DEF Request, profile
  <1>3. /\ n' = 0 /\ rc' = "ok" /\ status' = "ok" /\ faults' = 0 /\ lost' = FALSE
        /\ before' = system /\ UNCHANGED <<granted, file, loaded, links, xattr>>
    BY DEF Request, system
  <1>4. retry' \in BOOLEAN /\ (retry' => job' = job /\ status = "failed" /\ faults = 0)
    BY Zenon DEF Request
  <1>5. CASE p.id
    BY <1>2, <1>3, <1>4, <1>5 DEF Request
  <1>6. CASE ~p.id
    BY <1>1, <1>2, <1>3, <1>4, <1>6 DEF Request
  <1> QED
    BY <1>1, <1>5, <1>6

(* The counters are well typed after a call, whether it fails or not.      *)
LEMMA Counters ==
    ASSUME TypeOK, PhaseOK, Works \/ \E kind : Fault(kind)
    PROVE  /\ faults' \in 0..MaxFaults /\ lost' \in BOOLEAN
           /\ (faults' = 0 => ~lost') /\ (lost => lost')
           /\ faults' = faults \/ faults' = faults + 1
  <1>1. CASE Works
    <2>1. faults' = faults /\ lost' = lost /\ faults \in 0..MaxFaults
      BY <1>1 DEF Works, TypeOK
    <2>2. lost \in BOOLEAN /\ (faults = 0 => ~lost)
      BY DEF TypeOK, PhaseOK
    <2> QED
      BY <2>1, <2>2, Zenon
  <1>2. CASE \E kind : Fault(kind)
    BY <1>2, FaultFacts
  <1> QED
    BY <1>1, <1>2

(* A request in progress is about a profile. *)
LEMMA Running ==
    ASSUME PhaseOK, pc # "idle"
    PROVE  /\ job.op \in {"install", "uninstall"} /\ profile \in Profiles
           /\ profile.permissions \subseteq Permissions /\ profile.id \in BOOLEAN
           /\ Rules(profile) \subseteq AllRules
  <1>1. profile \in Profiles /\ job.op \in {"install", "uninstall"}
    BY DEF PhaseOK
  <1> QED
    BY <1>1, ProfileFacts

(* Init is well typed. *)
LEMMA TypeInit == Init => TypeOK /\ PhaseOK
  <1> SUFFICES ASSUME Init PROVE TypeOK /\ PhaseOK
    OBVIOUS
  <1>1. lost \in BOOLEAN /\ ~lost
    BY DEF Init
  <1>2. bare \in Xattrs /\ 0 \in 0..MaxFaults
    BY LabelsType, InstallAssumption
  <1>3. xattr \in [Paths -> Xattrs]
    BY <1>2 DEF Init
  <1>4. TypeOK
    BY <1>1, <1>2, <1>3 DEF Init, TypeOK, Phases
  <1>5. PhaseOK
    BY <1>1 DEF Init, PhaseOK, Phases, Cleaning
  <1> QED
    BY <1>4, <1>5

(* No step breaks the types or leaves the phases of its request. *)
LEMMA TypeStep == TypeOK /\ PhaseOK /\ [Next]_vars => TypeOK' /\ PhaseOK'
  <1> SUFFICES ASSUME TypeOK, PhaseOK, [Next]_vars PROVE TypeOK' /\ PhaseOK'
    OBVIOUS
  <1>1. ASSUME NEW op \in {"install", "uninstall"}, NEW p \in Profiles, Request(op, p)
        PROVE  TypeOK' /\ PhaseOK'
    <2>1. pc' \in {"permissions", "unlabel", "drop"} /\ job'.op = op /\ profile' = p
      BY <1>1, RequestFacts
    <2>2. /\ n' = 0 /\ rc' = "ok" /\ status' = "ok" /\ faults' = 0
          /\ UNCHANGED <<granted, file, loaded, links, xattr>>
      BY <1>1, RequestFacts
    <2>3. lost' \in BOOLEAN /\ ~lost'
      BY <1>1, RequestFacts
    <2>4. 0 \in 0..MaxFaults
      BY InstallAssumption
    <2>5. TypeOK'
      BY <2>1, <2>2, <2>3, <2>4 DEF TypeOK, Phases
    <2>6. PhaseOK'
      BY <1>1, RequestFacts DEF PhaseOK, Phases, Cleaning
    <2> QED
      BY <2>5, <2>6
  <1>2. CASE add_permissions \/ drop_permissions \/ revoke_permissions
    <2>1. /\ pc \in {"permissions", "revoke"} /\ (Works \/ \E kind : Fault(kind))
          /\ granted' \in SUBSET Permissions
      BY <1>2, Running
      DEF add_permissions, drop_permissions, revoke_permissions,
          cynagora_set_policies, cynagora_leave, TypeOK
    <2>2. TypeOK'
      BY <1>2, <2>1, Counters
      DEF add_permissions, drop_permissions, revoke_permissions, Enter, Return,
          TypeOK, Phases, profile
    <2>3. PhaseOK'
      BY <1>2, <2>1, Counters
      DEF add_permissions, drop_permissions, revoke_permissions, Enter, Return,
          PhaseOK, Phases, Cleaning, profile
    <2> QED
      BY <2>2, <2>3
  <1>3. CASE template_process
    <2>1. /\ pc = "template" /\ (Works \/ \E kind : Fault(kind))
          /\ UNCHANGED <<granted, loaded, links, xattr>>
          /\ \/ file' = file /\ Enter("drop", "failed")
             \/ /\ Enter("drop", "failed") \/ Enter("load", "ok")
                /\ \E part \in SUBSET AllRules : file' = <<part>>
      BY <1>3, Running DEF template_process
    <2>2. TypeOK'
      BY <2>1, Counters DEF Enter, TypeOK, Phases, profile
    <2>3. PhaseOK'
      BY <2>1, Counters DEF Enter, PhaseOK, Phases, Cleaning, profile, NoFile
    <2> QED
      BY <2>2, <2>3
  <1>4. CASE load_smack_rules
    <2>1. /\ pc = "load" /\ (Works \/ \E kind : Fault(kind))
          /\ UNCHANGED <<granted, file, links, xattr>>
          /\ Enter("plug", "ok") \/ Enter("undo", "failed")
          /\ loaded' \in SUBSET AllRules
      BY <1>4 DEF load_smack_rules, TypeOK, PhaseOK
    <2>2. TypeOK'
      BY <2>1, Counters DEF Enter, TypeOK, Phases, profile
    <2>3. PhaseOK'
      BY <2>1, Running, Counters, ProfileFacts
      DEF Enter, PhaseOK, Phases, Cleaning, profile
    <2> QED
      BY <2>2, <2>3
  <1>5. CASE undo_smack_rules
    <2>1. /\ pc = "undo" /\ (Works \/ \E kind : Fault(kind))
          /\ UNCHANGED <<granted, loaded, links, xattr>>
          /\ Enter("drop", "failed") /\ file' \in {file, NoFile}
      BY <1>5 DEF undo_smack_rules
    <2>2. TypeOK'
      BY <2>1, Counters DEF Enter, TypeOK, Phases, profile
    <2>3. PhaseOK'
      BY <2>1, Counters DEF Enter, PhaseOK, Phases, Cleaning, profile
    <2> QED
      BY <2>2, <2>3
  <1>6. CASE install_smack_plugs \/ uninstall_smack_plugs
    <2>1. /\ pc \in {"plug", "unplug"} /\ n < Len(profile.plugs)
          /\ Works \/ \E kind : Fault(kind)
          /\ UNCHANGED <<granted, file, loaded, xattr>>
          /\ \E result \in {"ok", "failed"} : Advance(result)
      BY <1>6 DEF install_smack_plugs, uninstall_smack_plugs, TypeOK
    <2>2. Len(profile.plugs) \in Nat /\ profile.plugs[n + 1] \in Links
      BY <2>1, Running, ProfileFacts DEF TypeOK
    <2>3. links' \in [Links -> {"none", "bare", "labelled"}]
      BY <1>6, <2>2 DEF install_smack_plugs, uninstall_smack_plugs, TypeOK
    <2>4. TypeOK'
      BY <2>1, <2>3, Counters DEF Advance, TypeOK, Phases, profile
    <2>5. PhaseOK'
      BY <2>1, <2>2, Counters DEF Advance, TypeOK, PhaseOK, Phases, Cleaning, profile
    <2> QED
      BY <2>4, <2>5
  <1>7. CASE \/ plugs_installed \/ install_status \/ paths_dropped
             \/ plugs_removed \/ Crash
    <2>1. /\ pc # "idle" /\ (Works \/ \E kind : Fault(kind))
          /\ UNCHANGED <<granted, file, loaded, links, xattr>>
      BY <1>7 DEF plugs_installed, install_status, paths_dropped, plugs_removed,
                  Crash, system
    <2>2. TypeOK'
      BY <1>7, <2>1, Counters
      DEF plugs_installed, install_status, paths_dropped, plugs_removed, Crash,
          Enter, Return, TypeOK, Phases, profile
    <2>3. Len(profile.plugs) \in Nat
      BY <2>1, Running, ProfileFacts
    <2>4. PhaseOK'
      BY <1>7, <2>1, <2>3, Counters
      DEF plugs_installed, install_status, paths_dropped, plugs_removed, Crash,
          Enter, Return, PhaseOK, Phases, Cleaning, profile
    <2> QED
      BY <2>2, <2>4
  <1>8. CASE Writes
    <2>1. profile \in Profiles
      BY <1>8, Running DEF Writes
    <2>2. TypeOK'
      BY <1>8, <2>1, WritesFacts DEF TypeOK, Phases, profile
    <2>3. faults' = 0 => ~lost'
      BY <1>8, <2>1, WritesFacts DEF PhaseOK
    <2>4. PhaseOK'
      BY <1>8, <2>1, <2>3, WritesFacts DEF PhaseOK, Phases, Cleaning, profile
    <2> QED
      BY <2>2, <2>4
  <1>9. CASE /\ pc \in {"label", "unlabel"} /\ Fault("stat") /\ Enter("drop", "failed")
             /\ UNCHANGED system
    <2>1. TypeOK'
      BY <1>9, Counters DEF Enter, TypeOK, Phases, profile, system
    <2>2. PhaseOK'
      BY <1>9, Counters DEF Enter, PhaseOK, Phases, Cleaning, profile, system
    <2> QED
      BY <2>1, <2>2
  <1>10. CASE remove_load_rules \/ remove_smack_rules
    <2>1. /\ pc \in {"unload", "remove"} /\ (Works \/ \E kind : Fault(kind))
          /\ UNCHANGED <<granted, links, xattr>> /\ file' \in {file, NoFile}
      BY <1>10 DEF remove_load_rules, remove_smack_rules
    <2>2. loaded' \in SUBSET AllRules
      BY <1>10 DEF remove_load_rules, remove_smack_rules, TypeOK
    <2>3. TypeOK'
      BY <1>10, <2>1, <2>2, Counters
      DEF remove_load_rules, remove_smack_rules, Removed, Enter, Return,
          TypeOK, Phases, profile
    <2>4. PhaseOK'
      BY <1>10, <2>1, Counters
      DEF remove_load_rules, remove_smack_rules, Removed, Enter, Return,
          PhaseOK, Phases, Cleaning, profile
    <2> QED
      BY <2>3, <2>4
  <1>11. CASE UNCHANGED vars
    BY <1>11, Zenon DEF vars, system, control, TypeOK, PhaseOK, profile
  <1> QED
    BY <1>1, <1>2, <1>3, <1>4, <1>5, <1>6, <1>7, <1>8, <1>9, <1>10, <1>11
    DEF Next, Step, label_all_paths, smack_drop_path_labels, Writes

(* cynagora_set_policies commits all or nothing. *)
LEMMA GrantedStep ==
    TypeOK /\ PhaseOK /\ GrantedIsProfile /\ [Next]_vars => GrantedIsProfile'
  <1> SUFFICES ASSUME TypeOK, PhaseOK, GrantedIsProfile, [Next]_vars
               PROVE  GrantedIsProfile'
    OBVIOUS
  <1>1. CASE add_permissions \/ drop_permissions \/ revoke_permissions
    <2>1. profile \in Profiles
      BY <1>1, Running DEF add_permissions, drop_permissions, revoke_permissions
    <2> QED
      BY <1>1, <2>1
      DEF add_permissions, drop_permissions, revoke_permissions,
          cynagora_set_policies, cynagora_leave, GrantedIsProfile
  <1>2. CASE ~(add_permissions \/ drop_permissions \/ revoke_permissions)
    <2>1. granted' = granted
      BY <1>2
      DEF Next, Step, Request, template_process, load_smack_rules, undo_smack_rules,
          install_smack_plugs, plugs_installed, label_all_paths, install_status,
          smack_drop_path_labels, put_xattr, paths_dropped, uninstall_smack_plugs,
          plugs_removed, remove_load_rules, remove_smack_rules, Crash, system, vars
    <2> QED
      BY <2>1 DEF GrantedIsProfile
  <1> QED
    BY <1>1, <1>2

-----------------------------------------------------------------------------
(* The installation, phase after phase. *)
LEMMA InstallStep ==
    TypeOK /\ PhaseOK /\ InstallProgress /\ [Next]_vars => InstallProgress'
  <1> SUFFICES ASSUME TypeOK, PhaseOK, InstallProgress, [Next]_vars,
                      job'.op = "install", ~lost', status' = "ok", rc' = "ok"
               PROVE  InstallProgress'
    BY DEF InstallProgress
  <1>1. ASSUME NEW op \in {"install", "uninstall"}, NEW p \in Profiles, Request(op, p)
        PROVE  InstallProgress'
    <2>1. pc' \in {"permissions", "unlabel"} /\ n' = 0 /\ profile' \in Profiles
      BY <1>1, RequestFacts
    <2>2. Written("unlabel")'
      BY <2>1, WriteStart
    <2> QED
      BY <2>1, <2>2 DEF InstallProgress
  <1>2. CASE add_permissions
    <2>1. granted' = profile.permissions /\ pc' = "template" /\ job' = job
      BY <1>2 DEF add_permissions, cynagora_set_policies, cynagora_leave,
                  Works, Fault, TypeOK, Enter, Return
    <2> QED
      BY <2>1 DEF InstallProgress, profile
  <1>3. CASE template_process
    <2>1. file' = <<Rules(profile)>> /\ pc' = "load" /\ UNCHANGED <<job, granted>>
          /\ pc = "template" /\ status = "ok" /\ rc = "ok"
      BY <1>3, FaultFacts DEF template_process, Enter, Lossy, PhaseOK
    <2>2. ~lost
      BY <1>3, FaultFacts DEF template_process, Works
    <2> QED
      BY <2>1, <2>2 DEF InstallProgress, profile
  <1>4. CASE load_smack_rules
    <2>1. /\ loaded' = loaded \cup file[1] /\ pc' = "plug" /\ n' = 0
          /\ UNCHANGED <<job, granted, file>>
          /\ pc = "load" /\ status = "ok" /\ rc = "ok"
      BY <1>4 DEF load_smack_rules, Enter, PhaseOK
    <2>2. ~lost
      BY <1>4, FaultFacts DEF load_smack_rules, Works
    <2> QED
      BY <2>1, <2>2 DEF InstallProgress, profile, FirstLinks
  <1>5. CASE install_smack_plugs
    <2>1. /\ pc = "plug" /\ UNCHANGED <<job, pc, status, granted, file, loaded>>
          /\ n' = n + 1 /\ rc = "ok" /\ n < Len(profile.plugs) /\ status = "ok"
          /\ links[profile.plugs[n + 1]] = "none"
          /\ links' = [links EXCEPT ![profile.plugs[n + 1]] = "labelled"]
      BY <1>5 DEF install_smack_plugs, Advance, PhaseOK, TypeOK
    <2>2. ~lost
      BY <1>5, FaultFacts DEF install_smack_plugs, Works
    <2>3. /\ Len(profile.plugs) \in Nat
          /\ \A i \in 1..Len(profile.plugs) : profile.plugs[i] \in Links
      BY <2>1, Running, ProfileFacts
    <2>4. FirstLinks("labelled")
      BY <2>1, <2>2 DEF InstallProgress, PhaseOK
    <2>5. FirstLinks("labelled")'
      BY <2>1, <2>3, <2>4 DEF FirstLinks, TypeOK, profile
    <2> QED
      BY <2>1, <2>2, <2>5 DEF InstallProgress, profile, PhaseOK
  <1>6. CASE plugs_installed
    <2>1. /\ pc = "plug" /\ n = Len(profile.plugs) /\ rc = "ok" /\ lost' = lost
          /\ pc' = "label" /\ n' = 0 /\ status = "ok"
          /\ UNCHANGED <<job, granted, file, loaded, links>>
      BY <1>6 DEF plugs_installed, Enter, Works, system, PhaseOK
    <2>2. profile \in Profiles /\ DOMAIN profile.plugs = 1..Len(profile.plugs)
      BY <2>1, Running, ProfileFacts
    <2>3. Written("label")'
      BY <2>1, <2>2, WriteStart DEF profile
    <2>4. AllLinks("labelled")'
      BY <2>1, <2>2 DEF InstallProgress, PhaseOK, FirstLinks, AllLinks, LinksOf, profile
    <2> QED
      BY <2>1, <2>3, <2>4 DEF InstallProgress, profile, PhaseOK
  <1>7. CASE Writes
    <2>1. profile \in Profiles /\ pc # "drop"
      BY <1>7, Running, WritesFacts DEF Writes, PhaseOK, Cleaning
    <2>2. ~lost /\ rc = "ok" /\ Written(pc)
      BY <1>7, <2>1, WritesFacts DEF InstallProgress, PhaseOK, Writes
    <2> QED
      BY <1>7, <2>1, <2>2, WritesFacts DEF InstallProgress, PhaseOK, profile, AllLinks
  <1>8. CASE install_status
    <2>1. /\ pc \in {"label", "unlabel"} /\ LastPath /\ rc = "ok" /\ lost' = lost
          /\ status = "ok" /\ pc' = "idle"
          /\ UNCHANGED <<job, granted, file, loaded, links, xattr>>
      BY <1>8 DEF install_status, PathFailed, Enter, Return, Works, system, PhaseOK
    <2>2. profile \in Profiles /\ (pc = "label" <=> profile.id)
      BY <2>1, Running DEF PhaseOK, Phases
    <2>3. Written(pc)
      BY <2>1, <2>2 DEF InstallProgress, PhaseOK
    <2>4. \A i \in DOMAIN profile.paths :
             xattr[profile.paths[i].path] = Target(pc, profile.paths[i])
      BY <2>1, <2>2, <2>3, WriteEnd
    <2>5. InForce(profile)
      BY <2>1, <2>2, <2>4 DEF InstallProgress, InForce, Target, PhaseOK, AllLinks
    <2>6. InForce(profile)'
      BY <2>1, <2>5 DEF InForce, profile
    <2> QED
      BY <2>1, <2>6 DEF InstallProgress
  <1>9. CASE \/ drop_permissions \/ undo_smack_rules \/ smack_drop_path_labels
             \/ paths_dropped \/ uninstall_smack_plugs \/ plugs_removed
             \/ remove_load_rules \/ remove_smack_rules \/ revoke_permissions \/ Crash
    BY <1>9
    DEF drop_permissions, undo_smack_rules, smack_drop_path_labels, put_xattr,
        paths_dropped, uninstall_smack_plugs, plugs_removed, remove_load_rules,
        remove_smack_rules, Removed, revoke_permissions, Crash, Enter, Return,
        Advance, PhaseOK, Cleaning
  <1>10. CASE UNCHANGED vars
    BY <1>10 DEF vars, system, control, InstallProgress, profile, InForce, Written,
                 AllLinks, FirstLinks
  <1> QED
    BY <1>1, <1>2, <1>3, <1>4, <1>5, <1>6, <1>7, <1>8, <1>9, <1>10
    DEF Next, Step, label_all_paths, smack_drop_path_labels, Writes, Enter

-----------------------------------------------------------------------------
(* Steps that both kinds of requests make in the cleaning. *)

(* The end of the loop over the paths to drop. *)
LEMMA DropEnd ==
    ASSUME TypeOK, PhaseOK, pc = "drop", LastPath, Written("drop")
    PROVE  AllDropped
  <1>1. profile \in Profiles
    BY Running
  <1>2. \A i \in DOMAIN profile.paths : xattr[profile.paths[i].path] = dropped
    <2>1. \A i \in DOMAIN profile.paths :
             xattr[profile.paths[i].path] = Target("drop", profile.paths[i])
      BY <1>1, WriteEnd
    <2> QED
      BY <2>1 DEF Target
  <1> QED
    BY <1>2 DEF AllDropped, PathsOf

(* A plug less. *)
LEMMA UnplugStep ==
    ASSUME TypeOK, PhaseOK, uninstall_smack_plugs
    PROVE  /\ pc = "unplug" /\ n' = n + 1
           /\ UNCHANGED <<job, pc, status, before, retry, granted, file, loaded, xattr>>
           /\ \/ Works /\ rc' = rc
              \/ (\E kind : Fault(kind)) /\ rc' = "failed"
           /\ FirstLinks("none") /\ rc' = "ok" => FirstLinks("none")'
           /\ \A l \in Links \ LinksOf(profile) : links'[l] = links[l]
  <1>1. /\ pc = "unplug" /\ n' = n + 1 /\ n < Len(profile.plugs)
        /\ UNCHANGED <<job, pc, status, before, retry, granted, file, loaded, xattr>>
        /\ \/ Works /\ rc' = rc /\ links' = [links EXCEPT ![profile.plugs[n + 1]] = "none"]
           \/ (\E kind : Fault(kind)) /\ rc' = "failed" /\ links' = links
    BY DEF uninstall_smack_plugs, Advance
  <1>2. /\ Len(profile.plugs) \in Nat /\ DOMAIN profile.plugs = 1..Len(profile.plugs)
        /\ \A i \in 1..Len(profile.plugs) : profile.plugs[i] \in Links
    BY <1>1, Running, ProfileFacts
  <1>3. n + 1 \in DOMAIN profile.plugs /\ profile.plugs[n + 1] \in LinksOf(profile)
    BY <1>1, <1>2 DEF TypeOK, LinksOf
  <1>4. FirstLinks("none") /\ rc' = "ok" => FirstLinks("none")'
    BY <1>1, <1>2 DEF FirstLinks, TypeOK, profile
  <1>5. \A l \in Links \ LinksOf(profile) : links'[l] = links[l]
    BY <1>1, <1>3 DEF TypeOK
  <1> QED
    BY <1>1, <1>4, <1>5

(* The last plug. *)
LEMMA UnplugEnd ==
    ASSUME TypeOK, PhaseOK, pc = "unplug", n = Len(profile.plugs), FirstLinks("none")
    PROVE  AllLinks("none")
  <1>1. DOMAIN profile.plugs = 1..Len(profile.plugs)
    BY Running, ProfileFacts
  <1> QED
    BY <1>1 DEF FirstLinks, AllLinks, LinksOf

-----------------------------------------------------------------------------
(* What an uninstallation leaves alone. *)
LEMMA KeepStep ==
    TypeOK /\ PhaseOK /\ RemovalKeeps /\ [Next]_vars => RemovalKeeps'
  <1> SUFFICES ASSUME TypeOK, PhaseOK, RemovalKeeps, [Next]_vars,
                      job'.op = "uninstall"
               PROVE  RemovalKeeps'
    BY DEF RemovalKeeps
  <1>1. ASSUME NEW op \in {"install", "uninstall"}, NEW p \in Profiles, Request(op, p)
        PROVE  RemovalKeeps'
    <2>1. /\ before' = <<granted, file, loaded, links, xattr>>
          /\ UNCHANGED <<granted, file, loaded, links, xattr>>
      BY <1>1, RequestFacts DEF system
    <2> QED
      BY <2>1 DEF RemovalKeeps
  <1>2. CASE drop_permissions
    <2>1. /\ pc = "permissions" /\ UNCHANGED <<job, before, file, loaded, links, xattr>>
          /\ profile.id
      BY <1>2 DEF drop_permissions, Enter, Return, PhaseOK, Phases
    <2> QED
      BY <2>1 DEF RemovalKeeps, profile
  <1>3. CASE smack_drop_path_labels
    <2>1. Writes /\ pc = "drop"
      BY <1>3 DEF smack_drop_path_labels, Writes
    <2>2. /\ UNCHANGED <<job, pc, before, granted, file, loaded, links>>
          /\ \A path \in Paths \ PathsOf(profile) : xattr'[path] = xattr[path]
      BY <2>1, Running, WritesFacts
    <2> QED
      BY <2>1, <2>2 DEF RemovalKeeps, profile
  <1>4. CASE paths_dropped \/ plugs_removed
    <2>1. /\ pc \in Cleaning /\ pc # "remove"
          /\ UNCHANGED <<job, before, granted, file, loaded, links, xattr>>
      BY <1>4 DEF paths_dropped, plugs_removed, Enter, Return, system, Cleaning
    <2> QED
      BY <2>1 DEF RemovalKeeps, profile
  <1>5. CASE uninstall_smack_plugs
    BY <1>5, UnplugStep DEF RemovalKeeps, profile
  <1>6. CASE remove_load_rules \/ remove_smack_rules
    <2>1. /\ pc' \in {"remove", "idle"} /\ profile.id
          /\ UNCHANGED <<job, before, granted, links, xattr>>
      <3>1. CASE remove_load_rules
        BY <3>1 DEF remove_load_rules, Enter, PhaseOK, Phases
      <3>2. CASE remove_smack_rules
        BY <3>2 DEF remove_smack_rules, Removed, Enter, Return, PhaseOK, Phases
      <3> QED
        BY <1>6, <3>1, <3>2
    <2> QED
      BY <2>1 DEF RemovalKeeps, profile, Cleaning
  <1>7. CASE Crash
    <2>1. pc' = "idle" /\ UNCHANGED <<job, before, granted, file, loaded, links, xattr>>
      BY <1>7 DEF Crash, Return, Enter, system
    <2> QED
      BY <2>1 DEF RemovalKeeps, profile, Cleaning
  <1>8. CASE \/ add_permissions \/ template_process \/ load_smack_rules
             \/ undo_smack_rules \/ install_smack_plugs \/ plugs_installed
             \/ label_all_paths \/ install_status \/ revoke_permissions
    BY <1>8
    DEF add_permissions, template_process, load_smack_rules, undo_smack_rules,
        install_smack_plugs, plugs_installed, label_all_paths, put_xattr,
        install_status, revoke_permissions, Enter, Return, Advance, PhaseOK
  <1>9. CASE UNCHANGED vars
    BY <1>9 DEF vars, system, control, RemovalKeeps, profile
  <1> QED
    BY <1>1, <1>2, <1>3, <1>4, <1>5, <1>6, <1>7, <1>8, <1>9 DEF Next, Step

(* A system after all that a removal does is the one without the profile.  *)
LEMMA RemovalEnd ==
    ASSUME TypeOK', RemovalKeeps', job'.op = "uninstall", profile' \in Profiles,
           AllDropped',
           profile'.id => /\ granted' = {} /\ file' = NoFile
                          /\ loaded' = Unloaded(before') /\ AllLinks("none")'
    PROVE  (system = Without(profile, before))'
  <1>1. links' = [l \in Links |->
                   IF l \in LinksOf(profile') THEN "none" ELSE before'[4][l]]
    <2>1. ~profile'.id => LinksOf(profile') = {}
      BY InstallAssumption DEF LinksOf
    <2>2. \A l \in Links : links'[l] =
             IF l \in LinksOf(profile') THEN "none" ELSE before'[4][l]
      BY <2>1 DEF RemovalKeeps, AllLinks
    <2> QED
      BY <2>2 DEF TypeOK
  <1>2. xattr' = [path \in Paths |->
                   IF path \in PathsOf(profile') THEN dropped ELSE before'[5][path]]
    BY DEF RemovalKeeps, AllDropped, TypeOK
  <1>3. /\ granted' = IF profile'.id THEN {} ELSE before'[1]
        /\ file' = IF profile'.id THEN NoFile ELSE before'[2]
        /\ loaded' = IF profile'.id THEN Unloaded(before') ELSE before'[3]
    BY DEF RemovalKeeps
  <1> QED
    BY <1>1, <1>2, <1>3 DEF system, Without

(* The uninstallation, phase after phase. *)
LEMMA RemovalStep ==
    TypeOK /\ PhaseOK /\ RemovalProgress /\ RemovalKeeps /\ [Next]_vars
        => RemovalProgress'
  <1> SUFFICES ASSUME TypeOK, PhaseOK, RemovalProgress, RemovalKeeps, [Next]_vars,
                      job'.op = "uninstall"
               PROVE  RemovalProgress'
    BY DEF RemovalProgress
  <1>0. TypeOK' /\ RemovalKeeps'
    BY TypeStep, KeepStep
  <1>1. ASSUME NEW op \in {"install", "uninstall"}, NEW p \in Profiles, Request(op, p)
        PROVE  RemovalProgress'
    <2>1. /\ pc' \in {"permissions", "drop"} /\ n' = 0 /\ profile' \in Profiles
          /\ pc' = "drop" => ~profile'.id
          /\ rc' = "ok" /\ status' = "ok"
      BY <1>1, RequestFacts
    <2>2. file' = before'[2]
      <3>1. before' = <<granted, file, loaded, links, xattr>> /\ file' = file
        BY <1>1, RequestFacts DEF system
      <3> QED
        BY <3>1
    <2>3. Written("drop")'
      BY <2>1, WriteStart
    <2> QED
      BY <2>1, <2>2, <2>3 DEF RemovalProgress, Cleaning
  <1>2. CASE drop_permissions
    <2>1. /\ pc = "permissions" /\ UNCHANGED <<job, before, file>> /\ n' = 0 /\ rc' = "ok"
          /\ \/ Works /\ granted' = {} /\ pc' = "drop" /\ status' = "ok"
             \/ (\E kind : Fault(kind)) /\ pc' = "idle" /\ status' = "failed"
      BY <1>2 DEF drop_permissions, cynagora_set_policies, cynagora_leave,
                  Works, Fault, TypeOK, Enter, Return
    <2>2. profile' \in Profiles /\ job.op = "uninstall"
      BY <2>1, Running DEF profile
    <2>3. Written("drop")'
      BY <2>1, <2>2, WriteStart
    <2>4. CASE Works
      <3>1. lost' = lost /\ faults' = faults /\ rc = "ok" /\ status = "ok"
        BY <2>1, <2>4 DEF Works, PhaseOK
      <3>2. ~lost => file = before[2]
        BY <2>1, <2>2, <3>1 DEF RemovalProgress, Cleaning
      <3> QED
        BY <2>1, <2>3, <2>4, <3>1, <3>2, FaultFacts DEF RemovalProgress, Cleaning, profile
    <2>5. CASE \E kind : Fault(kind)
      BY <2>1, <2>5, FaultFacts DEF RemovalProgress, Works, TypeOK
    <2> QED
      BY <2>1, <2>4, <2>5
  <1>3. CASE smack_drop_path_labels
    <2>1. Writes /\ pc = "drop"
      BY <1>3 DEF smack_drop_path_labels, Writes
    <2>2. profile \in Profiles
      BY <2>1, Running
    <2>3. /\ UNCHANGED <<job, pc, status, before, granted, file, loaded, links>>
          /\ faults' = 0 => rc' = rc /\ faults = 0
          /\ lost => lost'
          /\ rc' = "ok" => rc = "ok"
          /\ Written("drop") /\ rc' = "ok" /\ ~lost' => Written("drop")'
      BY <2>1, <2>2, WritesFacts
    <2> QED
      BY <2>1, <2>3 DEF RemovalProgress, Cleaning, profile
  <1>4. CASE paths_dropped
    <2>1. /\ pc = "drop" /\ (LastPath \/ rc = "failed") /\ rc' = "ok" /\ n' = 0
          /\ UNCHANGED <<faults, lost, job, before, granted, file, loaded, links, xattr>>
          /\ pc' = (IF profile.id THEN "unplug" ELSE "idle")
          /\ status' = (IF rc = "ok" THEN status ELSE "failed")
      BY <1>4 DEF paths_dropped, Works, Enter, Return, system, PathFailed
    <2>2. job.op = "uninstall" /\ profile \in Profiles
      BY <2>1, Running
    <2>3. ASSUME ~lost, status' = "ok" \/ faults = 0
          PROVE  /\ rc = "ok" /\ (status = "ok" \/ faults = 0) /\ AllDropped
                 /\ file = before[2] /\ (profile.id => granted = {})
      <3>1. rc = "ok" /\ (status = "ok" \/ faults = 0)
        BY <2>1, <2>2, <2>3 DEF RemovalProgress
      <3>2. LastPath /\ Written("drop")
        BY <2>1, <2>2, <2>3, <3>1 DEF RemovalProgress
      <3> QED
        BY <2>1, <2>2, <2>3, <3>1, <3>2, DropEnd DEF RemovalProgress, Cleaning
    <2>4. faults = 0 => status' = "ok"
      BY <2>1, <2>2 DEF RemovalProgress
    <2>5. FirstLinks("none")'
      BY <2>1 DEF FirstLinks
    <2>6. CASE profile.id
      BY <2>1, <2>3, <2>4, <2>5, <2>6 DEF RemovalProgress, Cleaning, AllDropped, profile
    <2>7. CASE ~profile.id
      <3>1. ASSUME AllDropped PROVE (system = Without(profile, before))'
        <4>1. AllDropped' /\ profile' \in Profiles /\ ~profile'.id
          BY <2>1, <2>2, <2>7, <3>1 DEF AllDropped, profile
        <4> QED
          BY <1>0, <4>1, RemovalEnd
      <3> QED
        BY <2>1, <2>3, <2>7, <3>1 DEF RemovalProgress, Cleaning
    <2> QED
      BY <2>6, <2>7
  <1>5. CASE uninstall_smack_plugs
    <2>1. Works => faults' = faults /\ lost' = lost
      BY DEF Works
    <2>2. job.op = "uninstall"
      BY <1>5, UnplugStep
    <2>3. lost => lost'
      BY <1>5, <2>1, UnplugStep, FaultFacts
    <2>4. faults' = 0 => faults = 0 /\ rc' = rc
      BY <1>5, <2>1, UnplugStep, FaultFacts
    <2>5. rc' = "ok" => rc = "ok" /\ faults' = faults
      BY <1>5, <2>1, UnplugStep, FaultFacts
    <2> QED
      BY <1>5, <2>2, <2>3, <2>4, <2>5, UnplugStep
      DEF RemovalProgress, Cleaning, AllDropped, profile
  <1>6. CASE plugs_removed
    <2>1. /\ pc = "unplug" /\ n = Len(profile.plugs) /\ rc' = "ok"
          /\ UNCHANGED <<faults, lost, job, before, granted, file, loaded, links, xattr>>
          /\ pc' = "unload" /\ status' = (IF rc = "ok" THEN status ELSE "failed")
      BY <1>6 DEF plugs_removed, Works, Enter, system
    <2>2. FirstLinks("none") => AllLinks("none")'
      BY <2>1, UnplugEnd DEF AllLinks, profile
    <2> QED
      BY <2>1, <2>2 DEF RemovalProgress, Cleaning, AllDropped, profile
  <1>7. CASE remove_load_rules
    <2>1. /\ pc = "unload" /\ pc' = "remove" /\ rc = "ok" /\ rc' = "ok" /\ status' = status
          /\ UNCHANGED <<job, before, granted, file, links, xattr>>
          /\ \/ Works /\ loaded' = (IF file = NoFile THEN loaded ELSE loaded \ file[1])
             \/ Fault("clear")
      BY <1>7 DEF remove_load_rules, Enter, PhaseOK
    <2>2. CASE Works
      <3>1. lost' = lost /\ faults' = faults
        BY <2>2 DEF Works
      <3>2. loaded' = IF file = NoFile THEN loaded ELSE loaded \ file[1]
        BY <2>1, <2>2, FaultFacts, <3>1 DEF TypeOK
      <3>3. loaded = before[3]
        BY <2>1 DEF RemovalKeeps, Cleaning
      <3>4. file = before[2] => loaded' = Unloaded(before)
        BY <3>2, <3>3 DEF Unloaded
      <3> QED
        BY <2>1, <3>1, <3>4
        DEF RemovalProgress, Cleaning, AllDropped, AllLinks, profile, Unloaded
    <2>3. CASE Fault("clear")
      BY <2>1, <2>3, FaultFacts DEF RemovalProgress, Lossy
    <2> QED
      BY <2>1, <2>2, <2>3
  <1>8. CASE remove_smack_rules
    <2>1. /\ pc = "remove" /\ rc = "ok" /\ rc' = "ok" /\ pc' = "idle"
          /\ UNCHANGED <<job, before, granted, loaded, links, xattr>>
          /\ \/ Works /\ file' = NoFile /\ (status' = "ok" => status = "ok")
             \/ Fault("remove") /\ status' = "failed"
      BY <1>8 DEF remove_smack_rules, Removed, Enter, Return, PhaseOK
    <2>2. CASE Works /\ file' = NoFile /\ (status' = "ok" => status = "ok")
      <3>1. lost' = lost /\ faults' = faults
        BY <2>2 DEF Works
      <3>2. profile \in Profiles /\ profile' = profile /\ job.op = "uninstall"
        BY <2>1, Running DEF profile
      <3>3. ASSUME ~lost, status = "ok" \/ faults = 0
            PROVE  (system = Without(profile, before))'
        <4>1. granted = {} /\ AllDropped /\ AllLinks("none") /\ loaded = Unloaded(before)
          BY <2>1, <3>2, <3>3 DEF RemovalProgress, Cleaning, PhaseOK, Phases
        <4>2. /\ granted' = {} /\ AllDropped' /\ AllLinks("none")'
              /\ (loaded = Unloaded(before))' /\ file' = NoFile
          BY <2>1, <2>2, <3>2, <4>1 DEF AllDropped, AllLinks, Unloaded
        <4> QED
          BY <1>0, <3>2, <4>2, RemovalEnd
      <3> QED
        BY <2>1, <2>2, <3>1, <3>3 DEF RemovalProgress, Cleaning
    <2>3. CASE Fault("remove") /\ status' = "failed"
      BY <2>1, <2>3, FaultFacts DEF RemovalProgress
    <2> QED
      BY <2>1, <2>2, <2>3
  <1>9. CASE Crash
    <2>1. pc' = "idle" /\ status' = "crashed"
      BY <1>9 DEF Crash, Return, Enter
    <2>2. faults' # 0
      BY <1>9, FaultFacts DEF Crash
    <2> QED
      BY <2>1, <2>2 DEF RemovalProgress
  <1>10. CASE \/ add_permissions \/ template_process \/ load_smack_rules
              \/ undo_smack_rules \/ install_smack_plugs \/ plugs_installed
              \/ label_all_paths \/ install_status \/ revoke_permissions
    BY <1>10
    DEF add_permissions, template_process, load_smack_rules, undo_smack_rules,
        install_smack_plugs, plugs_installed, label_all_paths, put_xattr,
        install_status, revoke_permissions, Enter, Return, Advance, PhaseOK
  <1>11. CASE UNCHANGED vars
    BY <1>11 DEF vars, system, control, RemovalProgress, profile, Without, Unloaded,
                 Written, AllLinks, FirstLinks, AllDropped
  <1> QED
    BY <1>1, <1>2, <1>3, <1>4, <1>5, <1>6, <1>7, <1>8, <1>9, <1>10, <1>11
    DEF Next, Step

-----------------------------------------------------------------------------
(* An installation without failing call, and the one that repeats it. *)
LEMMA RetryStep ==
    TypeOK /\ PhaseOK /\ RetryProgress /\ [Next]_vars => RetryProgress'
  <1> SUFFICES ASSUME TypeOK, PhaseOK, RetryProgress, [Next]_vars
               PROVE  RetryProgress'
    OBVIOUS
  <1>0. /\ Works => faults' = faults
        /\ \A kind : Fault(kind) => faults' # 0
        /\ retry \in BOOLEAN
    BY FaultFacts DEF Works, RetryProgress
  <1>1. ASSUME NEW op \in {"install", "uninstall"}, NEW p \in Profiles, Request(op, p)
        PROVE  RetryProgress'
    <2>1. /\ pc' \in {"permissions", "unlabel", "drop"} /\ rc' = "ok"
          /\ job'.op = "install" => pc' # "drop"
          /\ retry' \in BOOLEAN
      BY <1>1, RequestFacts
    <2>2. ASSUME retry', job'.op = "install" PROVE AllLinks("none")'
      <3>1. job' = job /\ status = "failed" /\ faults = 0 /\ links' = links
        BY <1>1, <2>2, RequestFacts
      <3>2. pc = "idle" /\ AllLinks("none")
        BY <1>1, <2>2, <3>1 DEF Request, RetryProgress
      <3> QED
        BY <3>1, <3>2 DEF AllLinks, profile
    <2> QED
      BY <2>1, <2>2 DEF RetryProgress, Cleaning
  <1>2. CASE add_permissions \/ drop_permissions \/ revoke_permissions
    <2>1. /\ UNCHANGED <<job, retry, links>> /\ rc' = "ok"
          /\ \/ /\ faults' = faults
                /\ \/ pc = "permissions" /\ job.op = "install" /\ pc' = "template"
                   \/ pc = "permissions" /\ job.op = "uninstall"
                   \/ pc = "revoke" /\ pc' = "idle"
             \/ faults' # 0
      BY <1>0, <1>2
      DEF add_permissions, drop_permissions, revoke_permissions,
          cynagora_set_policies, Enter, Return
    <2> QED
      BY <1>0, <2>1 DEF RetryProgress, Cleaning, AllLinks, profile
  <1>3. CASE template_process \/ load_smack_rules \/ undo_smack_rules
    <2>1. /\ UNCHANGED <<job, retry, links>> /\ rc' = "ok" /\ n' = 0
          /\ \/ /\ faults' = faults
                /\ \/ pc = "template" /\ pc' = "load"
                   \/ pc = "load" /\ pc' = "plug"
                   \/ pc = "undo"
             \/ faults' # 0
      BY <1>0, <1>3 DEF template_process, load_smack_rules, undo_smack_rules, Enter
    <2>2. profile \in Profiles /\ DOMAIN profile.plugs = 1..Len(profile.plugs)
      BY <1>3, Running, ProfileFacts
      DEF template_process, load_smack_rules, undo_smack_rules
    <2>3. AllLinks("none") /\ n' = 0 => NextLinks("none")'
      BY <2>1, <2>2 DEF AllLinks, NextLinks, LinksOf, profile
    <2> QED
      BY <1>0, <2>1, <2>3 DEF RetryProgress, Cleaning, AllLinks, profile
  <1>4. CASE install_smack_plugs
    <2>1. /\ pc = "plug" /\ UNCHANGED <<job, retry, pc>> /\ n' = n + 1
          /\ n < Len(profile.plugs)
          /\ \/ /\ faults' = faults
                /\ links[profile.plugs[n + 1]] = "none" => rc' = rc
                /\ \E state : links' = [links EXCEPT ![profile.plugs[n + 1]] = state]
             \/ faults' # 0
      BY <1>0, <1>4 DEF install_smack_plugs, Advance
    <2>2. /\ Len(profile.plugs) \in Nat
          /\ \A i \in 1..Len(profile.plugs) : profile.plugs[i] \in Links
          /\ \A i, j \in 1..Len(profile.plugs) : profile.plugs[i] = profile.plugs[j] => i = j
      BY <2>1, Running, ProfileFacts
    <2>3. NextLinks("none") /\ faults' = 0 =>
             NextLinks("none")' /\ links[profile.plugs[n + 1]] = "none"
      BY <2>1, <2>2 DEF NextLinks, TypeOK, profile
    <2> QED
      BY <1>0, <2>1, <2>3 DEF RetryProgress, Cleaning
  <1>5. CASE plugs_installed
    <2>1. /\ pc = "plug" /\ rc' = "ok" /\ UNCHANGED <<faults, job, retry>>
          /\ \/ rc = "ok" /\ pc' = "label"
             \/ rc # "ok" /\ pc' = "drop"
      BY <1>5 DEF plugs_installed, Enter, Works
    <2> QED
      BY <2>1 DEF RetryProgress, Cleaning
  <1>6. CASE Writes
    <2>1. profile \in Profiles
      BY <1>6, Running DEF Writes
    <2> QED
      BY <1>0, <1>6, <2>1, WritesFacts DEF RetryProgress, Cleaning
  <1>7. CASE /\ pc \in {"label", "unlabel"} /\ Fault("stat") /\ Enter("drop", "failed")
             /\ UNCHANGED system
    BY <1>0, <1>7 DEF Enter, RetryProgress
  <1>8. CASE install_status \/ paths_dropped
    <2>1. /\ UNCHANGED <<faults, job, retry, links>> /\ rc' = "ok" /\ n' = 0
          /\ \/ /\ pc \in {"label", "unlabel"}
                /\ \/ rc = "ok" /\ pc' = "idle" /\ status' = "ok"
                   \/ rc # "ok" /\ pc' = "drop"
             \/ pc = "drop" /\ profile.id /\ pc' = "unplug"
             \/ pc = "drop" /\ ~profile.id /\ pc' = "idle"
      BY <1>8 DEF install_status, paths_dropped, Works, Enter, Return, system
    <2>2. FirstLinks("none")'
      BY <2>1 DEF FirstLinks
    <2>3. ~profile.id => AllLinks("none")'
      BY <2>1, Running, ProfileFacts DEF AllLinks, profile
    <2> QED
      BY <1>0, <2>1, <2>2, <2>3 DEF RetryProgress, Cleaning
  <1>9. CASE uninstall_smack_plugs
    <2>1. /\ pc = "unplug" /\ UNCHANGED <<job, pc, retry>>
          /\ (faults' = faults /\ rc' = rc) \/ faults' # 0
          /\ FirstLinks("none") /\ rc' = "ok" => FirstLinks("none")'
      BY <1>0, <1>9, UnplugStep
    <2> QED
      BY <1>0, <2>1 DEF RetryProgress, Cleaning
  <1>10. CASE plugs_removed
    <2>1. /\ pc = "unplug" /\ n = Len(profile.plugs) /\ rc' = "ok" /\ pc' = "unload"
          /\ UNCHANGED <<faults, job, retry, links>>
      BY <1>10 DEF plugs_removed, Works, Enter, system
    <2>2. FirstLinks("none") => AllLinks("none")'
      BY <2>1, UnplugEnd DEF AllLinks, profile
    <2> QED
      BY <1>0, <2>1, <2>2 DEF RetryProgress, Cleaning
  <1>11. CASE remove_load_rules \/ remove_smack_rules
    <2>1. /\ UNCHANGED <<job, retry, links>> /\ rc' = "ok"
          /\ \/ /\ faults' = faults
                /\ \/ pc = "unload" /\ pc' = "remove"
                   \/ pc = "remove" /\ job.op = "install" /\ pc' = "revoke"
                   \/ job.op # "install"
             \/ faults' # 0
      BY <1>0, <1>11 DEF remove_load_rules, remove_smack_rules, Removed, Enter, Return
    <2> QED
      BY <1>0, <2>1 DEF RetryProgress, Cleaning, AllLinks, profile
  <1>12. CASE Crash
    BY <1>0, <1>12 DEF Crash, Return, Enter, RetryProgress
  <1>13. CASE UNCHANGED vars
    BY <1>13 DEF vars, system, control, RetryProgress, profile, AllLinks, FirstLinks,
                 NextLinks
  <1> QED
    BY <1>1, <1>2, <1>3, <1>4, <1>5, <1>6, <1>7, <1>8, <1>9, <1>10, <1>11, <1>12, <1>13
    DEF Next, Step, label_all_paths, smack_drop_path_labels, Writes

-----------------------------------------------------------------------------
(* The first installation and its cleaning. *)

(* Cleanness, part by part. *)
LEMMA CleanParts ==
    Clean(system) <=> /\ granted = {} /\ file = NoFile /\ loaded = {}
                      /\ \A l \in Links : links[l] = "none"
                      /\ \A path \in Paths : xattr[path] \in {bare, dropped}
  BY DEF Clean, system

(* A step of a first installation was one before it. *)
LEMMA FirstStays ==
    ASSUME TypeOK, PhaseOK, FirstProgress, Step \/ Crash, FirstInstall'
    PROVE  /\ FirstInstall /\ FirstPhases
           /\ faults = 0 \/ faults = 1
           /\ faults = 1 => UNCHANGED <<faults, lost>>
           /\ UNCHANGED <<job, before>> /\ pc # "idle"
  <1>1. UNCHANGED <<job, before>> /\ pc # "idle"
    BY DEF Step, Crash, add_permissions, drop_permissions, template_process,
           load_smack_rules, undo_smack_rules, install_smack_plugs, plugs_installed,
           label_all_paths, put_xattr, install_status, smack_drop_path_labels,
           paths_dropped, uninstall_smack_plugs, plugs_removed, remove_load_rules,
           remove_smack_rules, Removed, revoke_permissions, Enter, Return, Advance
  <1>2. Works \/ \E kind : Fault(kind)
    BY DEF Step, Crash, add_permissions, drop_permissions, cynagora_set_policies,
           template_process, load_smack_rules, undo_smack_rules, install_smack_plugs,
           plugs_installed, label_all_paths, put_xattr, install_status,
           smack_drop_path_labels, paths_dropped, uninstall_smack_plugs,
           plugs_removed, remove_load_rules, remove_smack_rules, revoke_permissions
  <1>3. faults \in Nat /\ faults' <= 1 /\ ~lost'
    BY InstallAssumption DEF TypeOK, FirstInstall
  <1>4. ~lost /\ (faults' = faults \/ faults' = faults + 1)
    BY <1>2, <1>3, Counters
  <1>5. FirstInstall
    BY <1>1, <1>3, <1>4 DEF FirstInstall
  <1>6. faults = 1 => Works
    BY <1>2, <1>3, FaultFacts
  <1>7. faults = 1 => UNCHANGED <<faults, lost>>
    BY <1>6 DEF Works
  <1>8. faults = 0 \/ faults = 1
    BY <1>3, <1>5 DEF FirstInstall
  <1> QED
    BY <1>1, <1>5, <1>7, <1>8 DEF FirstProgress

LEMMA FirstStep ==
    TypeOK /\ PhaseOK /\ FirstProgress /\ [Next]_vars => FirstProgress'
  <1> SUFFICES ASSUME TypeOK, PhaseOK, FirstProgress, [Next]_vars, FirstInstall'
               PROVE  FirstProgress'
    BY DEF FirstProgress
  <1>1. ASSUME NEW op \in {"install", "uninstall"}, NEW p \in Profiles, Request(op, p)
        PROVE  FirstProgress'
    <2>1. /\ pc' \in {"permissions", "unlabel"} /\ rc' = "ok" /\ profile' \in Profiles
          /\ UNCHANGED <<granted, file, loaded, links, xattr>> /\ before' = system
      BY <1>1, RequestFacts DEF FirstInstall
    <2>2. Clean(system)
      BY <2>1 DEF FirstInstall
    <2>3. Clean(system)'
      BY <2>1, <2>2, CleanParts DEF Clean, system
    <2> QED
      BY <2>1, <2>2, <2>3, CleanParts DEF FirstProgress, FirstPhases, Cleaning
  <1> SUFFICES ASSUME Step \/ Crash PROVE FirstProgress'
    <2>1. CASE UNCHANGED vars
      <3>1. FirstInstall /\ UNCHANGED <<pc, status>>
        BY <2>1 DEF FirstInstall, vars, control
      <3>2. FirstPhases => FirstPhases'
        BY <2>1 DEF vars, system, control, FirstPhases, profile, AllLinks, FirstLinks,
                    NextLinks, AllDropped, Written, Clean
      <3>3. Clean(system) => Clean(system)'
        BY <2>1 DEF vars, system, Clean
      <3> QED
        BY <3>1, <3>2, <3>3 DEF FirstProgress
    <2> QED
      BY <1>1, <2>1 DEF Next
  <1>2. /\ FirstInstall /\ FirstPhases /\ UNCHANGED <<job, before>> /\ pc # "idle"
        /\ faults = 0 \/ faults = 1
        /\ faults = 1 => UNCHANGED <<faults, lost>>
        /\ job.op = "install" /\ profile \in Profiles /\ profile' = profile
        /\ \A kind : Fault(kind) => faults = 0
    BY FirstStays, Running, FaultFacts DEF FirstInstall, profile
  <1>3. CASE add_permissions
    <2>1. Clean(system) /\ pc = "permissions"
      BY <1>2, <1>3 DEF FirstPhases, add_permissions
    <2>2. UNCHANGED <<file, loaded, links, xattr>> /\ rc' = "ok"
      BY <1>3 DEF add_permissions, Enter, Return
    <2>3. \/ pc' = "template"
          \/ pc' = "idle" /\ granted' = granted
      BY <1>2, <1>3 DEF add_permissions, cynagora_set_policies, cynagora_leave,
                        Works, Fault, TypeOK, Enter, Return
    <2>4. pc' = "idle" => Clean(system)'
      BY <2>1, <2>2, <2>3 DEF Clean, system
    <2>5. pc' = "template" => FirstPhases'
      <3>1. /\ file = NoFile /\ loaded = {} /\ \A l \in Links : links[l] = "none"
            /\ \A path \in Paths : xattr[path] \in {bare, dropped}
        BY <2>1, CleanParts
      <3>2. LinksOf(profile) \subseteq Links
        BY <1>2, ProfileFacts DEF LinksOf
      <3>3. profile.id
        BY <2>1 DEF PhaseOK, Phases
      <3> QED
        BY <1>2, <2>2, <3>1, <3>2, <3>3 DEF FirstPhases, Cleaning, AllLinks
    <2> QED
      BY <2>3, <2>4, <2>5 DEF FirstProgress
  <1>4. CASE template_process
    <2>1. /\ pc = "template" /\ profile.id /\ file = NoFile /\ loaded = {}
      BY <1>2, <1>4 DEF FirstPhases, template_process, PhaseOK, Phases
    <2>2. /\ UNCHANGED <<loaded, links, xattr>> /\ rc' = "ok" /\ n' = 0
          /\ \/ faults' = faults /\ pc' = "load"
             \/ faults' # 0 /\ pc' = "load"
             \/ faults' # 0 /\ pc' = "drop"
      BY <1>4, FaultFacts DEF template_process, Works, Enter
    <2>3. Written("drop")'
      BY <1>2, <2>2, WriteStart
    <2>4. faults' = 0 => AllLinks("none")'
      BY <1>2, <2>1, <2>2 DEF FirstPhases, AllLinks
    <2> QED
      BY <1>2, <2>1, <2>2, <2>3, <2>4 DEF FirstProgress, FirstPhases, Cleaning
  <1>5. CASE load_smack_rules
    <2>1. /\ pc = "load" /\ profile.id /\ file # NoFile /\ loaded = {}
      BY <1>2, <1>5 DEF FirstPhases, load_smack_rules, PhaseOK, Phases
    <2>2. /\ UNCHANGED <<file, links, xattr>> /\ rc' = "ok" /\ n' = 0
          /\ \/ faults' = faults /\ pc' = "plug" /\ loaded' = loaded \cup file[1]
             \/ faults' # 0 /\ pc' = "undo" /\ loaded' = loaded
      BY <1>5, FaultFacts DEF load_smack_rules, Works, Enter, FirstInstall, Lossy
    <2>3. DOMAIN profile.plugs = 1..Len(profile.plugs)
      BY <1>2, ProfileFacts
    <2>4. AllLinks("none") => NextLinks("none")'
      BY <1>2, <2>2, <2>3 DEF AllLinks, NextLinks, LinksOf
    <2> QED
      BY <1>2, <2>1, <2>2, <2>4 DEF FirstProgress, FirstPhases, Cleaning
  <1>6. CASE undo_smack_rules
    <2>1. /\ pc = "undo" /\ loaded = {} /\ faults = 1 /\ profile.id
      BY <1>2, <1>6 DEF FirstPhases, undo_smack_rules, PhaseOK, Phases
    <2>2. /\ UNCHANGED <<loaded, links, xattr, faults>> /\ rc' = "ok" /\ n' = 0
          /\ pc' = "drop" /\ file' = NoFile
      BY <1>2, <1>6, <2>1 DEF undo_smack_rules, Enter
    <2>3. Written("drop")'
      BY <1>2, <2>2, WriteStart
    <2> QED
      BY <1>2, <2>1, <2>2, <2>3 DEF FirstProgress, FirstPhases, Cleaning
  <1>7. CASE install_smack_plugs
    <2>1. /\ pc = "plug" /\ UNCHANGED <<pc, file, loaded, xattr>> /\ n' = n + 1
          /\ n < Len(profile.plugs)
          /\ \E state : links' = [links EXCEPT ![profile.plugs[n + 1]] = state]
          /\ \/ faults' = faults /\ (links[profile.plugs[n + 1]] = "none" => rc' = rc)
             \/ faults' # 0
      BY <1>7, FaultFacts DEF install_smack_plugs, Advance, Works, TypeOK
    <2>2. /\ Len(profile.plugs) \in Nat /\ DOMAIN profile.plugs = 1..Len(profile.plugs)
          /\ \A i \in 1..Len(profile.plugs) : profile.plugs[i] \in Links
          /\ \A i, j \in 1..Len(profile.plugs) : profile.plugs[i] = profile.plugs[j] => i = j
      BY <1>2, ProfileFacts
    <2>3. n + 1 \in DOMAIN profile.plugs /\ profile.plugs[n + 1] \in LinksOf(profile)
      BY <2>1, <2>2 DEF TypeOK, LinksOf
    <2>4. NextLinks("none") =>
             NextLinks("none")' /\ links[profile.plugs[n + 1]] = "none"
      BY <1>2, <2>1, <2>2 DEF NextLinks, TypeOK
    <2>5. \A l \in Links \ LinksOf(profile) : links'[l] = links[l]
      BY <2>1, <2>3 DEF TypeOK
    <2>6. profile.id
      BY <2>1 DEF PhaseOK, Phases
    <2> QED
      BY <1>2, <2>1, <2>4, <2>5, <2>6 DEF FirstProgress, FirstPhases, Cleaning
  <1>8. CASE plugs_installed
    <2>1. /\ pc = "plug" /\ rc' = "ok" /\ n' = 0
          /\ UNCHANGED <<file, loaded, links, xattr, faults>>
          /\ \/ rc = "ok" /\ pc' = "label"
             \/ rc # "ok" /\ pc' = "drop"
      BY <1>8 DEF plugs_installed, Enter, Works, system
    <2>2. Written("drop")'
      BY <1>2, <2>1, WriteStart
    <2>3. profile.id
      BY <2>1 DEF PhaseOK, Phases
    <2> QED
      BY <1>2, <2>1, <2>2, <2>3 DEF FirstProgress, FirstPhases, Cleaning
  <1>9. CASE Writes
    <2>1. /\ pc \in {"label", "unlabel", "drop"}
          /\ UNCHANGED <<pc, granted, file, loaded, links>>
          /\ \A path \in Paths \ PathsOf(profile) : xattr'[path] = xattr[path]
          /\ faults' = 0 => rc' = rc /\ faults = 0
          /\ faults' = faults => rc' = rc
          /\ Written(pc) /\ rc' = "ok" /\ ~lost' => Written(pc)'
      BY <1>2, <1>9, WritesFacts
    <2>2. pc = "drop" => /\ rc' = rc /\ rc = "ok"
                         /\ Written("drop")'
      BY <1>2, <2>1 DEF FirstPhases, Cleaning, FirstInstall
    <2> QED
      BY <1>2, <2>1, <2>2 DEF FirstProgress, FirstPhases, Cleaning
  <1>10. CASE /\ pc \in {"label", "unlabel"} /\ Fault("stat") /\ Enter("drop", "failed")
              /\ UNCHANGED system
    <2>1. /\ UNCHANGED <<granted, file, loaded, links, xattr>> /\ faults' # 0
          /\ pc' = "drop" /\ rc' = "ok" /\ n' = 0
      BY <1>10, FaultFacts DEF Enter, system
    <2>2. Written("drop")'
      BY <1>2, <2>1, WriteStart
    <2> QED
      BY <1>2, <2>1, <2>2 DEF FirstProgress, FirstPhases, Cleaning
  <1>11. CASE install_status
    <2>1. /\ pc \in {"label", "unlabel"} /\ rc' = "ok" /\ n' = 0
          /\ UNCHANGED <<granted, file, loaded, links, xattr, faults>>
          /\ \/ rc = "ok" /\ pc' = "idle" /\ status' = "ok"
             \/ rc # "ok" /\ pc' = "drop"
      BY <1>11 DEF install_status, Enter, Return, Works, system
    <2>2. Written("drop")'
      BY <1>2, <2>1, WriteStart
    <2> QED
      BY <1>2, <2>1, <2>2 DEF FirstProgress, FirstPhases, Cleaning
  <1>12. CASE paths_dropped
    <2>1. /\ pc = "drop" /\ (LastPath \/ rc = "failed") /\ rc' = "ok" /\ n' = 0
          /\ UNCHANGED <<granted, file, loaded, links, xattr, faults>>
          /\ pc' = (IF profile.id THEN "unplug" ELSE "idle")
      BY <1>12 DEF paths_dropped, Works, Enter, Return, system, PathFailed
    <2>2. AllDropped /\ faults = 1
      BY <1>2, <2>1, DropEnd DEF FirstPhases, Cleaning
    <2>3. AllDropped' /\ FirstLinks("none")'
      BY <1>2, <2>1, <2>2 DEF AllDropped, FirstLinks
    <2>4. CASE profile.id
      BY <1>2, <2>1, <2>2, <2>3, <2>4 DEF FirstProgress, FirstPhases, Cleaning
    <2>5. CASE ~profile.id
      <3>1. /\ granted = {} /\ file = NoFile /\ loaded = {}
            /\ \A l \in Links : links[l] = "none"
        BY <1>2, <2>5, ProfileFacts DEF FirstPhases
      <3>2. \A path \in Paths : xattr[path] \in {bare, dropped}
        BY <1>2, <2>2 DEF FirstPhases, AllDropped
      <3>3. Clean(system)'
        BY <2>1, <3>1, <3>2 DEF Clean, system
      <3> QED
        BY <2>1, <2>5, <3>3 DEF FirstProgress
    <2> QED
      BY <2>4, <2>5
  <1>13. CASE uninstall_smack_plugs
    <2>1. faults = 1
      BY <1>2, <1>13 DEF uninstall_smack_plugs, FirstPhases, Cleaning
    <2>2. ~(\E kind : Fault(kind))
      BY <1>2, <2>1
    <2>3. /\ pc = "unplug" /\ UNCHANGED <<pc, granted, file, loaded, xattr, faults>>
          /\ rc' = rc /\ rc = "ok" /\ FirstLinks("none")'
          /\ \A l \in Links \ LinksOf(profile) : links'[l] = links[l]
      BY <1>2, <1>13, <2>1, <2>2, UnplugStep DEF FirstPhases, Cleaning
    <2> QED
      BY <1>2, <2>1, <2>3 DEF FirstProgress, FirstPhases, Cleaning, AllDropped
  <1>14. CASE plugs_removed
    <2>1. /\ pc = "unplug" /\ n = Len(profile.plugs) /\ rc' = "ok" /\ pc' = "unload"
          /\ UNCHANGED <<faults, granted, file, loaded, links, xattr>>
      BY <1>14 DEF plugs_removed, Works, Enter, system
    <2>2. AllLinks("none")'
      BY <1>2, <2>1, UnplugEnd DEF AllLinks, FirstPhases
    <2> QED
      BY <1>2, <2>1, <2>2 DEF FirstProgress, FirstPhases, Cleaning, AllDropped
  <1>15. CASE remove_load_rules
    <2>1. pc = "unload" /\ faults = 1
      BY <1>2, <1>15 DEF remove_load_rules, FirstPhases, Cleaning
    <2>2. /\ pc' = "remove" /\ rc' = "ok" /\ loaded' = {}
          /\ UNCHANGED <<faults, granted, file, links, xattr>>
      BY <1>2, <1>15, <2>1 DEF remove_load_rules, Enter, FirstPhases
    <2> QED
      BY <1>2, <2>1, <2>2 DEF FirstProgress, FirstPhases, Cleaning, AllDropped, AllLinks
  <1>16. CASE remove_smack_rules
    <2>1. pc = "remove" /\ faults = 1 /\ loaded = {}
      BY <1>2, <1>16 DEF remove_smack_rules, FirstPhases, Cleaning
    <2>2. /\ pc' = "revoke" /\ rc' = "ok" /\ file' = NoFile
          /\ UNCHANGED <<faults, granted, loaded, links, xattr>>
      BY <1>2, <1>16, <2>1 DEF remove_smack_rules, Removed, Enter
    <2> QED
      BY <1>2, <2>1, <2>2 DEF FirstProgress, FirstPhases, Cleaning, AllDropped, AllLinks
  <1>17. CASE revoke_permissions
    <2>1. pc = "revoke" /\ faults = 1 /\ loaded = {} /\ file = NoFile
      BY <1>2, <1>17 DEF revoke_permissions, FirstPhases
    <2>2. /\ pc' = "idle" /\ granted' = {} /\ UNCHANGED <<file, loaded, links, xattr>>
      BY <1>2, <1>17, <2>1
      DEF revoke_permissions, cynagora_set_policies, cynagora_leave, Enter, Return
    <2>3. \A l \in Links : links[l] = "none"
      BY <1>2, <2>1 DEF FirstPhases, AllLinks
    <2>4. \A path \in Paths : xattr[path] \in {bare, dropped}
      BY <1>2, <2>1 DEF FirstPhases, AllDropped
    <2>5. Clean(system)'
      BY <2>1, <2>2, <2>3, <2>4 DEF Clean, system
    <2> QED
      BY <2>2, <2>5 DEF FirstProgress
  <1>18. CASE drop_permissions \/ Crash
    BY <1>2, <1>18 DEF drop_permissions, Crash, Return, Enter, FirstProgress
  <1> QED
    BY <1>3, <1>4, <1>5, <1>6, <1>7, <1>8, <1>9, <1>10, <1>11, <1>12, <1>13, <1>14,
       <1>15, <1>16, <1>17, <1>18
    DEF Step, label_all_paths, smack_drop_path_labels, Writes

-----------------------------------------------------------------------------
(* The theorems. *)

(* The whole is an invariant. *)
LEMMA Invariance == Spec => []IInv
  <1>1. Init => IInv
    <2> SUFFICES ASSUME Init PROVE IInv
      OBVIOUS
    <2>1. TypeOK /\ PhaseOK
      BY TypeInit
    <2>2. pc = "idle" /\ job.op = "none" /\ retry = FALSE /\ granted = {}
      BY DEF Init, None
    <2> QED
      BY <2>1, <2>2 DEF IInv, GrantedIsProfile, InstallProgress, RemovalProgress,
                        RemovalKeeps, RetryProgress, FirstProgress, FirstInstall
  <1>2. IInv /\ [Next]_vars => IInv'
    BY TypeStep, GrantedStep, InstallStep, RemovalStep, KeepStep, RetryStep, FirstStep
    DEF IInv
  <1> QED
    BY <1>1, <1>2, PTL DEF Spec

(* Every request of src/src/action/action.c keeps the system and itself    *)
(* well typed, whatever fails: in particular it only labels paths of its   *)
(* profile and only reads a file of rules that is there.                   *)
THEOREM InstallTypeOK == Spec => []TypeOK
  <1>1. IInv => TypeOK
    BY DEF IInv
  <1> QED
    BY <1>1, Invariance, PTL

(* cynagora_set_policies is atomic: the permissions of the application are *)
(* those of one of its profiles or none.                                   *)
THEOREM InstallGrantedIsProfile == Spec => []GrantedIsProfile
  <1>1. IInv => GrantedIsProfile
    BY DEF IInv
  <1> QED
    BY <1>1, Invariance, PTL

(* A request that returns 0 without a lost failure put the whole profile   *)
(* in force, or removed it and touched nothing else.                       *)
THEOREM InstallSuccessIsComplete == Spec => []SuccessIsComplete
  <1>1. IInv => SuccessIsComplete
    BY DEF IInv, PhaseOK, InstallProgress, RemovalProgress, SuccessIsComplete, Ended
  <1> QED
    BY <1>1, Invariance, PTL

(* A first installation that fails after at most one failure, none lost,   *)
(* leaves nothing: the cleaning of action_install is complete.             *)
THEOREM InstallFailureIsClean == Spec => []FailureIsClean
  <1>1. IInv => FailureIsClean
    BY DEF IInv, FirstProgress, FirstInstall, FailureIsClean, Ended
  <1> QED
    BY <1>1, Invariance, PTL

(* An uninstallation without failing call leaves the system that it found  *)
(* without its profile: the permissions, the file and the rules of that    *)
(* file, the links and the labels that the profile names, and nothing      *)
(* else, even when it reports a failure.                                   *)
THEOREM InstallRemovalIsThorough == Spec => []RemovalIsThorough
  <1>1. IInv => RemovalIsThorough
    BY DEF IInv, PhaseOK, RemovalProgress, RemovalIsThorough
  <1> QED
    BY <1>1, Invariance, PTL

(* A failed installation without failing call succeeds when repeated.      *)
THEOREM InstallRetrySucceeds == Spec => []RetrySucceeds
  <1>1. IInv => RetrySucceeds
    BY DEF IInv, RetryProgress, RetrySucceeds
  <1> QED
    BY <1>1, Invariance, PTL

=============================================================================
