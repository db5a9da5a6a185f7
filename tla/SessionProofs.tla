---------------------------- MODULE SessionProofs ----------------------------
(***************************************************************************)
(* What a session guarantees for any identifiers, permissions, paths and   *)
(* plugs a client may send: need_id is exact, hence no profile without     *)
(* identifier reaches the system unless it has default paths only.         *)
(***************************************************************************)
EXTENDS SessionAbstraction, TLAPS, WellFoundedInduction, SequenceTheorems,
        FiniteSetTheorems

(* A nonempty set of naturals has a smallest element. *)
LEMMA Smallest ==
    ASSUME NEW T \in SUBSET Nat, T # {}
    PROVE  \E m \in T : \A k \in T : m <= k
  <1> DEFINE R == {ss \in Nat \X Nat : ss[1] < ss[2]}
  <1>1. IsWellFoundedOn(R, Nat)
    BY NatLessThanWellFounded DEF OpToRel
  <1> HIDE DEF R
  <1>2. PICK m \in T : \A k \in T : ~(<<k, m>> \in R)
    BY <1>1, WFMin
  <1>3. ASSUME NEW k \in T PROVE m <= k
    <2>1. ~(k < m)
      BY <1>2 DEF R
    <2> QED
      BY <2>1
  <1> QED
    BY <1>3

(* A function over an initial interval is a sequence. *)
LEMMA FunctionIsSeq ==
    ASSUME NEW T, NEW len \in Nat, NEW f \in [1..len -> T]
    PROVE  f \in Seq(T)
  <1>1. [1..len -> T] \in {[1..k -> T] : k \in Nat}
    OBVIOUS
  <1>2. f \in UNION {[1..k -> T] : k \in Nat}
    BY <1>1
  <1> QED
    BY <1>2, SeqDef, Zenon

(* A list of checks passes only when none of them fails. *)
LEMMA ChecksPass ==
    ASSUME NEW checks, DOMAIN checks \in SUBSET Nat,
           \A i \in DOMAIN checks : checks[i][1] => checks[i][2] # "ok",
           FirstFailure(checks) = "ok"
    PROVE  \A i \in DOMAIN checks : ~checks[i][1]
  <1> DEFINE failing == {i \in DOMAIN checks : checks[i][1]}
             first == CHOOSE i \in failing : \A j \in failing : i <= j
  <1>1. SUFFICES ASSUME failing # {} PROVE FALSE
    OBVIOUS
  <1>2. \E i \in failing : \A j \in failing : i <= j
    BY <1>1, Smallest
  <1>3. first \in failing
    BY <1>2
  <1>4. FirstFailure(checks) = checks[first][2]
    BY <1>1 DEF FirstFailure
  <1> QED
    BY <1>3, <1>4

-----------------------------------------------------------------------------
(* The setters of context.c: each refuses and leaves the context alone, or *)
(* takes the setting, which then passed all its checks.                    *)
Refused(outcome, c) == outcome.rc # "ok" /\ outcome.ctx = c
Taken(outcome, updated) == outcome.rc = "ok" /\ outcome.ctx = updated

LEMMA SetUnlessCases ==
    ASSUME NEW checks, NEW c, NEW updated
    PROVE  \/ Refused(SetUnless(checks, c, updated), c)
           \/ Taken(SetUnless(checks, c, updated), updated) /\ FirstFailure(checks) = "ok"
  BY DEF SetUnless, Outcome, Refused, Taken

(* What is added to a context. *)
WithId(c, id) == [c EXCEPT !.id = setids(id, c.id)]
WithPermission(c, p) == [c EXCEPT !.permissions = Append(@, p), !.need_id = TRUE]
WithPath(c, new) ==
    [c EXCEPT !.paths = Append(@, new), !.need_id = @ \/ new.type # "default"]
WithPlug(c, new) == [c EXCEPT !.plugs = <<new>> \o @, !.need_id = TRUE]

LEMMA IdOutcome ==
    ASSUME NEW c \in Contexts, NEW id
    PROVE  \/ Refused(context_set_id(c, id), c)
           \/ /\ Taken(context_set_id(c, id), WithId(c, id))
              /\ ~c.error_flag /\ ~has_id(c) /\ context_is_valid_id(id)
  <1> DEFINE checks == << <<c.error_flag, "ENOTRECOVERABLE">>,
                          <<has_id(c), "EEXIST">>,
                          <<~context_is_valid_id(id), "EINVAL">> >>
  <1>1. context_set_id(c, id) = SetUnless(checks, c, WithId(c, id))
    BY DEF context_set_id, WithId
  <1>2. FirstFailure(checks) = "ok" => ~checks[1][1] /\ ~checks[2][1] /\ ~checks[3][1]
    BY ChecksPass
  <1>3. FirstFailure(checks) = "ok" =>
           ~c.error_flag /\ ~has_id(c) /\ context_is_valid_id(id)
    BY <1>2
  <1> HIDE DEF checks
  <1> QED
    BY <1>1, <1>3, SetUnlessCases, Zenon

LEMMA PermissionOutcome ==
    ASSUME NEW c \in Contexts, NEW p, NEW nomem \in BOOLEAN
    PROVE  \/ Refused(context_add_permission(c, p, nomem), c)
           \/ /\ Taken(context_add_permission(c, p, nomem), WithPermission(c, p))
              /\ ~c.error_flag /\ ~permission_set_has(c, p)
  <1> DEFINE checks == << <<c.error_flag, "ENOTRECOVERABLE">>,
                          <<permission_set_has(c, p), "EEXIST">>,
                          <<p \in ShortPermissions, "EINVAL">>,
                          <<nomem, "ENOMEM">> >>
  <1>1. context_add_permission(c, p, nomem) = SetUnless(checks, c, WithPermission(c, p))
    BY DEF context_add_permission, permission_set_add, WithPermission
  <1>2. FirstFailure(checks) = "ok" => ~checks[1][1] /\ ~checks[2][1]
    BY ChecksPass
  <1>3. FirstFailure(checks) = "ok" => ~c.error_flag /\ ~permission_set_has(c, p)
    BY <1>2
  <1> HIDE DEF checks
  <1> QED
    BY <1>1, <1>3, SetUnlessCases, Zenon

LEMMA PathOutcome ==
    ASSUME NEW c \in Contexts, NEW raw \in RawPaths, NEW type,
           NEW stat, NEW nomem \in BOOLEAN
    PROVE  \/ Refused(context_add_path(c, raw, type, stat, nomem), c)
           \/ /\ Taken(context_add_path(c, raw, type, stat, nomem),
                       WithPath(c, [path |-> StdPath[raw], type |-> type]))
              /\ ~c.error_flag /\ ~path_set_has(c, StdPath[raw])
              /\ [path |-> StdPath[raw], type |-> type] \in PathItems
  <1> DEFINE path == StdPath[raw]
             checks == << <<c.error_flag, "ENOTRECOVERABLE">>,
                          <<type \notin PathTypes, "EINVAL">>,
                          <<path \in {TooLong, Relative}, "EINVAL">>,
                          <<path_set_has(c, path), "EEXIST">>,
                          <<stat # "ok", stat>>,
                          <<path \in LongestPaths, "EINVAL">>,
                          <<nomem, "ENOMEM">> >>
             new == [path |-> path, type |-> type]
  <1>1. context_add_path(c, raw, type, stat, nomem) = SetUnless(checks, c, WithPath(c, new))
    BY DEF context_add_path, path_set_add, WithPath
  <1>2. FirstFailure(checks) = "ok" => \A i \in 1..7 : ~checks[i][1]
    <2>1. DOMAIN checks = 1..7
      OBVIOUS
    <2>2. /\ checks[1][2] # "ok" /\ checks[2][2] # "ok" /\ checks[3][2] # "ok"
          /\ checks[4][2] # "ok" /\ checks[6][2] # "ok" /\ checks[7][2] # "ok"
      OBVIOUS
    <2>3. checks[5][1] => checks[5][2] # "ok"
      OBVIOUS
    <2>4. \A i \in 1..7 : checks[i][1] => checks[i][2] # "ok"
      <3> HIDE DEF checks
      <3> TAKE i \in 1..7
      <3>1. i = 1 \/ i = 2 \/ i = 3 \/ i = 4 \/ i = 5 \/ i = 6 \/ i = 7
        OBVIOUS
      <3> QED
        BY <2>2, <2>3, <3>1
    <2> HIDE DEF checks
    <2> QED
      BY <2>1, <2>4, ChecksPass
  <1>3. FirstFailure(checks) = "ok" =>
           ~checks[1][1] /\ ~checks[2][1] /\ ~checks[3][1] /\ ~checks[4][1]
    <2> HIDE DEF checks
    <2> QED
      BY <1>2
  <1>4. FirstFailure(checks) = "ok" =>
           /\ ~c.error_flag /\ type \in PathTypes /\ path \notin {TooLong, Relative}
           /\ ~path_set_has(c, path)
    BY <1>3
  <1>5. FirstFailure(checks) = "ok" => new \in PathItems
    BY <1>4 DEF Paths, PathItems
  <1> HIDE DEF checks
  <1> QED
    BY <1>1, <1>4, <1>5, SetUnlessCases, Zenon

LEMMA PlugOutcome ==
    ASSUME NEW c \in Contexts, NEW rawexp \in RawPaths, NEW rawimp \in RawPaths,
           NEW impid \in IdStrings, NEW stat, NEW nomem \in BOOLEAN
    PROVE  LET new == [expdir |-> StdPath[rawexp], impid |-> impid, impdir |-> StdPath[rawimp]]
           IN  \/ Refused(context_add_plug(c, rawexp, impid, rawimp, stat, nomem), c)
               \/ /\ Taken(context_add_plug(c, rawexp, impid, rawimp, stat, nomem),
                           WithPlug(c, new))
                  /\ ~c.error_flag /\ ~plugset_has(c, StdPath[rawimp])
                  /\ new \in PlugItems
  <1> DEFINE expdir == StdPath[rawexp]
             impdir == StdPath[rawimp]
             checks == << <<c.error_flag, "ENOTRECOVERABLE">>,
                          <<expdir \in {TooLong, Relative}, "EINVAL">>,
                          <<impdir \in {TooLong, Relative}, "EINVAL">>,
                          <<plugset_has(c, impdir), "EEXIST">>,
                          <<~context_is_valid_id(impid), "EINVAL">>,
                          <<stat # "ok", stat>>,
                          <<nomem, "ENOMEM">> >>
             new == [expdir |-> expdir, impid |-> impid, impdir |-> impdir]
  <1>1. context_add_plug(c, rawexp, impid, rawimp, stat, nomem)
        = SetUnless(checks, c, WithPlug(c, new))
    BY DEF context_add_plug, plugset_add, WithPlug
  <1>2. FirstFailure(checks) = "ok" => \A i \in 1..7 : ~checks[i][1]
    <2>1. DOMAIN checks = 1..7
      OBVIOUS
    <2>2. /\ checks[1][2] # "ok" /\ checks[2][2] # "ok" /\ checks[3][2] # "ok"
          /\ checks[4][2] # "ok" /\ checks[5][2] # "ok" /\ checks[7][2] # "ok"
      OBVIOUS
    <2>3. checks[6][1] => checks[6][2] # "ok"
      OBVIOUS
    <2>4. \A i \in 1..7 : checks[i][1] => checks[i][2] # "ok"
      <3> HIDE DEF checks
      <3> TAKE i \in 1..7
      <3>1. i = 1 \/ i = 2 \/ i = 3 \/ i = 4 \/ i = 5 \/ i = 6 \/ i = 7
        OBVIOUS
      <3> QED
        BY <2>2, <2>3, <3>1
    <2> HIDE DEF checks
    <2> QED
      BY <2>1, <2>4, ChecksPass
  <1>3. FirstFailure(checks) = "ok" =>
           ~checks[1][1] /\ ~checks[2][1] /\ ~checks[3][1] /\ ~checks[4][1] /\ ~checks[5][1]
    <2> HIDE DEF checks
    <2> QED
      BY <1>2
  <1>4. FirstFailure(checks) = "ok" =>
           /\ ~c.error_flag /\ expdir \notin {TooLong, Relative}
           /\ impdir \notin {TooLong, Relative}
           /\ ~plugset_has(c, impdir) /\ context_is_valid_id(impid)
    BY <1>3
  <1>5. context_is_valid_id(impid) => impid \in Seq(IdChars)
    BY DEF context_is_valid_id, IdStrings
  <1>6. FirstFailure(checks) = "ok" => new \in PlugItems
    BY <1>4, <1>5 DEF Paths, PlugItems
  <1> HIDE DEF checks
  <1> QED
    BY <1>1, <1>4, <1>6, SetUnlessCases, Zenon

-----------------------------------------------------------------------------
(* What each change does to the record. *)

LEMMA RaiseFacts ==
    ASSUME NEW c \in Contexts
    PROVE  /\ context_raise_error(c) \in Contexts
           /\ context_raise_error(c).id = c.id /\ context_raise_error(c).paths = c.paths
           /\ context_raise_error(c).permissions = c.permissions
           /\ context_raise_error(c).plugs = c.plugs
           /\ context_raise_error(c).need_id = c.need_id
           /\ context_raise_error(c).error_flag = TRUE
  BY DEF context_raise_error, Contexts

LEMMA WithIdFacts ==
    ASSUME NEW c \in Contexts, NEW id \in IdStrings, context_is_valid_id(id)
    PROVE  /\ WithId(c, id) \in Contexts
           /\ WithId(c, id).id = setids(id, c.id) /\ WithId(c, id).paths = c.paths
           /\ WithId(c, id).permissions = c.permissions /\ WithId(c, id).plugs = c.plugs
           /\ WithId(c, id).need_id = c.need_id
           /\ WithId(c, id).error_flag = c.error_flag
  <1> DEFINE new == setids(id, c.id)
  <1>1. new \in IdBuffers
    BY SizeAssumption
    DEF context_is_valid_id, setids, IdBuffers, IdBytes, IdStrings, Contexts
  <1>2. WithId(c, id) = [c EXCEPT !.id = new]
    BY DEF WithId
  <1> HIDE DEF new
  <1>3. /\ [c EXCEPT !.id = new] \in Contexts
        /\ [c EXCEPT !.id = new].id = new
        /\ [c EXCEPT !.id = new].paths = c.paths
        /\ [c EXCEPT !.id = new].permissions = c.permissions
        /\ [c EXCEPT !.id = new].plugs = c.plugs
        /\ [c EXCEPT !.id = new].need_id = c.need_id
        /\ [c EXCEPT !.id = new].error_flag = c.error_flag
    BY <1>1 DEF Contexts
  <1> QED
    BY <1>2, <1>3 DEF new

LEMMA WithPermissionFacts ==
    ASSUME NEW c \in Contexts, NEW p \in Permissions
    PROVE  /\ WithPermission(c, p) \in Contexts
           /\ WithPermission(c, p).permissions = Append(c.permissions, p)
           /\ WithPermission(c, p).id = c.id /\ WithPermission(c, p).paths = c.paths
           /\ WithPermission(c, p).plugs = c.plugs
           /\ WithPermission(c, p).need_id = TRUE
           /\ WithPermission(c, p).error_flag = c.error_flag
  <1> DEFINE u == Append(c.permissions, p)
  <1>1. u \in Seq(Permissions)
    BY DEF Contexts
  <1>2. WithPermission(c, p) = [c EXCEPT !.permissions = u, !.need_id = TRUE]
    BY DEF WithPermission
  <1> HIDE DEF u
  <1>3. /\ [c EXCEPT !.permissions = u, !.need_id = TRUE] \in Contexts
        /\ [c EXCEPT !.permissions = u, !.need_id = TRUE].permissions = u
        /\ [c EXCEPT !.permissions = u, !.need_id = TRUE].id = c.id
        /\ [c EXCEPT !.permissions = u, !.need_id = TRUE].paths = c.paths
        /\ [c EXCEPT !.permissions = u, !.need_id = TRUE].plugs = c.plugs
        /\ [c EXCEPT !.permissions = u, !.need_id = TRUE].need_id = TRUE
        /\ [c EXCEPT !.permissions = u, !.need_id = TRUE].error_flag = c.error_flag
    BY <1>1 DEF Contexts
  <1> QED
    BY <1>2, <1>3 DEF u

LEMMA WithPathFacts ==
    ASSUME NEW c \in Contexts, NEW new \in PathItems
    PROVE  /\ WithPath(c, new) \in Contexts
           /\ WithPath(c, new).paths = Append(c.paths, new)
           /\ WithPath(c, new).id = c.id
           /\ WithPath(c, new).permissions = c.permissions
           /\ WithPath(c, new).plugs = c.plugs
           /\ WithPath(c, new).need_id = (c.need_id \/ new.type # "default")
           /\ WithPath(c, new).error_flag = c.error_flag
  <1> DEFINE b == c.need_id \/ new.type # "default"
             u == Append(c.paths, new)
  <1>1. u \in Seq(PathItems) /\ b \in BOOLEAN
    BY DEF Contexts
  <1>2. WithPath(c, new) = [c EXCEPT !.paths = u, !.need_id = b]
    BY DEF WithPath
  <1> HIDE DEF b, u
  <1>3. /\ [c EXCEPT !.paths = u, !.need_id = b] \in Contexts
        /\ [c EXCEPT !.paths = u, !.need_id = b].paths = u
        /\ [c EXCEPT !.paths = u, !.need_id = b].id = c.id
        /\ [c EXCEPT !.paths = u, !.need_id = b].permissions = c.permissions
        /\ [c EXCEPT !.paths = u, !.need_id = b].plugs = c.plugs
        /\ [c EXCEPT !.paths = u, !.need_id = b].need_id = b
        /\ [c EXCEPT !.paths = u, !.need_id = b].error_flag = c.error_flag
    BY <1>1 DEF Contexts
  <1> QED
    BY <1>2, <1>3 DEF b, u

LEMMA WithPlugFacts ==
    ASSUME NEW c \in Contexts, NEW new \in PlugItems
    PROVE  /\ WithPlug(c, new) \in Contexts
           /\ WithPlug(c, new).plugs = <<new>> \o c.plugs
           /\ WithPlug(c, new).id = c.id /\ WithPlug(c, new).paths = c.paths
           /\ WithPlug(c, new).permissions = c.permissions
           /\ WithPlug(c, new).need_id = TRUE
           /\ WithPlug(c, new).error_flag = c.error_flag
  <1> DEFINE u == <<new>> \o c.plugs
  <1>1. u \in Seq(PlugItems)
    BY DEF Contexts
  <1>2. WithPlug(c, new) = [c EXCEPT !.plugs = u, !.need_id = TRUE]
    BY DEF WithPlug
  <1> HIDE DEF u
  <1>3. /\ [c EXCEPT !.plugs = u, !.need_id = TRUE] \in Contexts
        /\ [c EXCEPT !.plugs = u, !.need_id = TRUE].plugs = u
        /\ [c EXCEPT !.plugs = u, !.need_id = TRUE].id = c.id
        /\ [c EXCEPT !.plugs = u, !.need_id = TRUE].paths = c.paths
        /\ [c EXCEPT !.plugs = u, !.need_id = TRUE].permissions = c.permissions
        /\ [c EXCEPT !.plugs = u, !.need_id = TRUE].need_id = TRUE
        /\ [c EXCEPT !.plugs = u, !.need_id = TRUE].error_flag = c.error_flag
    BY <1>1 DEF Contexts
  <1> QED
    BY <1>2, <1>3 DEF u

(* One more at the end of a sequence, or at its start. *)
LEMMA Appended ==
    ASSUME NEW T, NEW s \in Seq(T), NEW x \in T
    PROVE  /\ Append(s, x) \in Seq(T) /\ Append(s, x) # <<>>
           /\ DOMAIN s = 1..Len(s) /\ Len(s) \in Nat
           /\ DOMAIN Append(s, x) = DOMAIN s \cup {Len(s) + 1}
           /\ Append(s, x)[Len(s) + 1] = x
           /\ \A i \in DOMAIN s : i # Len(s) + 1 /\ Append(s, x)[i] = s[i]
  OBVIOUS

LEMMA Prepended ==
    ASSUME NEW T, NEW s \in Seq(T), NEW x \in T
    PROVE  /\ <<x>> \o s \in Seq(T) /\ <<x>> \o s # <<>>
           /\ DOMAIN s = 1..Len(s) /\ Len(s) \in Nat
           /\ DOMAIN (<<x>> \o s) = 1..(Len(s) + 1)
           /\ (<<x>> \o s)[1] = x
           /\ \A i \in 2..(Len(s) + 1) : (<<x>> \o s)[i] = s[i - 1]
  OBVIOUS

-----------------------------------------------------------------------------
(* A context that is well typed, whose flag need_id is exact and that has  *)
(* no setting twice.                                                       *)
Unique(c) ==
    /\ \A i, j \in DOMAIN c.permissions :
          FoldCase[c.permissions[i]] = FoldCase[c.permissions[j]] => i = j
    /\ \A i, j \in DOMAIN c.paths : c.paths[i].path = c.paths[j].path => i = j
    /\ \A i, j \in DOMAIN c.plugs : c.plugs[i].impdir = c.plugs[j].impdir => i = j
Exact(c) == c \in Contexts /\ (c.need_id <=> NeedsId(c)) /\ Unique(c)

(* A new context is exact. *)
LEMMA ExactInit == ASSUME NEW last \in IdBytes PROVE Exact(context_init(last))
  BY SizeAssumption DEF Exact, Unique, context_init, Contexts, IdBuffers, IdBytes, NeedsId

(* context_clear gives an exact context. *)
LEMMA ExactClear == ASSUME NEW c, Exact(c) PROVE Exact(context_clear(c))
  BY SizeAssumption DEF Exact, Unique, context_clear, Contexts, IdBuffers, IdBytes, NeedsId

(* context_raise_error keeps a context exact. *)
LEMMA ExactRaise == ASSUME NEW c, Exact(c) PROVE Exact(context_raise_error(c))
  <1> DEFINE w == context_raise_error(c)
  <1>1. /\ w \in Contexts /\ w.paths = c.paths /\ w.permissions = c.permissions
        /\ w.plugs = c.plugs /\ w.need_id = c.need_id
    BY RaiseFacts DEF Exact
  <1> HIDE DEF w
  <1>2. w.need_id <=> NeedsId(w)
    BY <1>1 DEF Exact, NeedsId
  <1>3. Unique(w)
    BY <1>1 DEF Exact, Unique
  <1> QED
    BY <1>1, <1>2, <1>3 DEF Exact, w

(* context_set_id keeps a context exact. *)
LEMMA ExactId ==
    ASSUME NEW c, Exact(c), NEW id \in IdStrings
    PROVE  Exact(context_set_id(c, id).ctx)
  <1>1. CASE context_is_valid_id(id) /\ context_set_id(c, id).ctx = WithId(c, id)
    BY <1>1, WithIdFacts DEF Exact, Unique, NeedsId
  <1> QED
    BY <1>1, IdOutcome DEF Exact, Refused, Taken

(* context_add_permission keeps a context exact: the new permission is not *)
(* there in another case.                                                  *)
LEMMA ExactPermission ==
    ASSUME NEW c, Exact(c), NEW p \in Permissions, NEW nomem \in BOOLEAN
    PROVE  Exact(context_add_permission(c, p, nomem).ctx)
  <1>1. CASE /\ context_add_permission(c, p, nomem).ctx = WithPermission(c, p)
             /\ ~permission_set_has(c, p)
    <2> DEFINE s == c.permissions
               t == Append(s, p)
               k == Len(s) + 1
    <2>1. s \in Seq(Permissions)
      BY DEF Exact, Contexts
    <2>2. /\ t # <<>> /\ DOMAIN t = DOMAIN s \cup {k} /\ t[k] = p
          /\ \A i \in DOMAIN s : t[i] = s[i]
      BY <2>1, Appended
    <2>3. \A i \in DOMAIN s : FoldCase[s[i]] # FoldCase[p]
      BY <1>1 DEF permission_set_has
    <2> HIDE DEF t, k
    <2>4. \A i, j \in DOMAIN t : FoldCase[t[i]] = FoldCase[t[j]] => i = j
      BY <2>2, <2>3 DEF Exact, Unique
    <2> DEFINE w == WithPermission(c, p)
    <2>5. /\ w \in Contexts /\ w.permissions = t /\ w.paths = c.paths
          /\ w.plugs = c.plugs /\ w.need_id = TRUE
      BY WithPermissionFacts DEF Exact, t
    <2> HIDE DEF w
    <2>6. w.need_id <=> NeedsId(w)
      BY <2>2, <2>5 DEF NeedsId
    <2>7. Unique(w)
      BY <2>4, <2>5 DEF Exact, Unique
    <2> QED
      BY <1>1, <2>5, <2>6, <2>7 DEF Exact, w
  <1> QED
    BY <1>1, PermissionOutcome DEF Exact, Refused, Taken

(* context_add_path keeps a context exact: only a type other than default  *)
(* needs an identifier, and the normalised path is not there yet.          *)
LEMMA ExactPath ==
    ASSUME NEW c, Exact(c), NEW raw \in RawPaths, NEW type,
           NEW stat, NEW nomem \in BOOLEAN
    PROVE  Exact(context_add_path(c, raw, type, stat, nomem).ctx)
  <1> DEFINE new == [path |-> StdPath[raw], type |-> type]
  <1>1. CASE /\ context_add_path(c, raw, type, stat, nomem).ctx = WithPath(c, new)
             /\ new \in PathItems /\ ~path_set_has(c, StdPath[raw])
    <2> DEFINE s == c.paths
               t == Append(s, new)
               k == Len(s) + 1
    <2>1. s \in Seq(PathItems)
      BY DEF Exact, Contexts
    <2>2. \A i \in DOMAIN s : s[i].path # new.path
      BY <1>1 DEF path_set_has
    <2> HIDE DEF new
    <2>3. /\ t # <<>> /\ DOMAIN t = DOMAIN s \cup {k} /\ t[k] = new
          /\ \A i \in DOMAIN s : t[i] = s[i]
      BY <1>1, <2>1, Appended
    <2> HIDE DEF t, k
    <2>4. \A i, j \in DOMAIN t : t[i].path = t[j].path => i = j
      BY <2>2, <2>3 DEF Exact, Unique
    <2>5. (\E i \in DOMAIN t : t[i].type # "default")
          <=> (\E i \in DOMAIN s : s[i].type # "default") \/ new.type # "default"
      BY <2>3
    <2>6. c.need_id <=> NeedsId(c)
      BY DEF Exact
    <2> DEFINE w == WithPath(c, new)
    <2>7. /\ w \in Contexts /\ w.paths = t /\ w.permissions = c.permissions
          /\ w.plugs = c.plugs /\ w.need_id = (c.need_id \/ new.type # "default")
      BY <1>1, WithPathFacts DEF Exact, t
    <2> HIDE DEF w
    <2>8. w.need_id <=> NeedsId(w)
      BY <2>5, <2>6, <2>7 DEF NeedsId
    <2>9. Unique(w)
      BY <2>4, <2>7 DEF Exact, Unique
    <2> QED
      BY <1>1, <2>7, <2>8, <2>9 DEF Exact, w
  <1> HIDE DEF new
  <1> QED
    BY <1>1, PathOutcome DEF Exact, Refused, Taken, new

(* context_add_plug keeps a context exact: its import directory is not     *)
(* there yet.                                                              *)
LEMMA ExactPlug ==
    ASSUME NEW c, Exact(c), NEW rawexp \in RawPaths, NEW rawimp \in RawPaths,
           NEW impid \in IdStrings, NEW stat, NEW nomem \in BOOLEAN
    PROVE  Exact(context_add_plug(c, rawexp, impid, rawimp, stat, nomem).ctx)
  <1> DEFINE new == [expdir |-> StdPath[rawexp], impid |-> impid, impdir |-> StdPath[rawimp]]
  <1>1. CASE /\ context_add_plug(c, rawexp, impid, rawimp, stat, nomem).ctx = WithPlug(c, new)
             /\ new \in PlugItems /\ ~plugset_has(c, StdPath[rawimp])
    <2> DEFINE s == c.plugs
               t == <<new>> \o s
    <2>1. s \in Seq(PlugItems)
      BY DEF Exact, Contexts
    <2>2. \A i \in DOMAIN s : s[i].impdir # new.impdir
      BY <1>1 DEF plugset_has
    <2> HIDE DEF new
    <2>3. /\ t # <<>> /\ Len(s) \in Nat /\ DOMAIN s = 1..Len(s)
          /\ DOMAIN t = 1..(Len(s) + 1) /\ t[1] = new
          /\ \A i \in 2..(Len(s) + 1) : t[i] = s[i - 1]
      BY <1>1, <2>1, Prepended
    <2> HIDE DEF t
    <2>4. ASSUME NEW i \in DOMAIN t, NEW j \in DOMAIN t, t[i].impdir = t[j].impdir
          PROVE  i = j
      <3>1. \A k \in DOMAIN t : k # 1 => k - 1 \in DOMAIN s /\ t[k] = s[k - 1]
        BY <2>3
      <3>2. CASE i = 1 \/ j = 1
        BY <2>2, <2>3, <2>4, <3>1, <3>2
      <3>3. CASE i # 1 /\ j # 1
        <4>1. i - 1 = j - 1
          BY <2>4, <3>1, <3>3 DEF Exact, Unique
        <4> QED
          BY <2>3, <4>1
      <3> QED
        BY <3>2, <3>3
    <2> DEFINE w == WithPlug(c, new)
    <2>5. /\ w \in Contexts /\ w.plugs = t /\ w.paths = c.paths
          /\ w.permissions = c.permissions /\ w.need_id = TRUE
      BY <1>1, WithPlugFacts DEF Exact, t
    <2> HIDE DEF w
    <2>6. w.need_id <=> NeedsId(w)
      BY <2>3, <2>5 DEF NeedsId
    <2>7. Unique(w)
      BY <2>4, <2>5 DEF Exact, Unique
    <2> QED
      BY <1>1, <2>5, <2>6, <2>7 DEF Exact, w
  <1> HIDE DEF new
  <1> QED
    BY <1>1, PlugOutcome DEF Exact, Refused, Taken, new

-----------------------------------------------------------------------------
(* The inductive invariant: what is sent is a request, the context is      *)
(* exact.                                                                  *)
ExactInv == inq \in Seq(Requests) /\ Exact(ctx)

(* A new session. *)
LEMMA ExactInvInit == Init => ExactInv
  BY ExactInit DEF Init, ExactInv

(* The end of a setting command keeps what the setter returns, or puts it  *)
(* in error state.                                                         *)
LEMMA ExactConclude ==
    ASSUME NEW cmd, NEW outcome, Exact(outcome.ctx), Conclude(cmd, outcome)
    PROVE  Exact(ctx')
  BY ExactRaise DEF Conclude, send_error

(* The request that a handler takes from the queue. *)
LEMMA HandledRequest ==
    ASSUME ExactInv, NEW cmd, Handling(cmd)
    PROVE  /\ Head(inq) \in Requests /\ Head(inq)[1] = cmd
           /\ inq' \in Seq(Requests)
  BY DEF ExactInv, Handling

(* Every handler, and the end of the connection, keep the context exact.   *)
LEMMA ExactInvStep == ExactInv /\ [Next]_vars => ExactInv'
  <1> SUFFICES ASSUME ExactInv, [Next]_vars PROVE ExactInv'
    OBVIOUS
  <1> USE DEF ExactInv
  <1>1. CASE \E r \in Requests : ClientSend(r)
    BY <1>1 DEF ClientSend
  <1>2. CASE ClientRead \/ ClientClose
    BY <1>2 DEF ClientRead, ClientClose
  <1>3. CASE OnHello
    BY <1>3, HandledRequest, ExactRaise DEF OnHello, invalid_protocol, send_error
  <1>4. CASE OnViolation
    BY <1>4, HandledRequest, ExactRaise
    DEF OnViolation, Command, invalid_protocol, send_error
  <1>5. CASE OnClear
    BY <1>5, HandledRequest, ExactClear DEF OnClear, Command
  <1>6. CASE OnDisplay
    BY <1>6, HandledRequest, ExactRaise DEF OnDisplay, Command, send_error
  <1>7. CASE OnLog
    BY <1>7, HandledRequest, ExactRaise
    DEF OnLog, Command, invalid_protocol, send_error
  <1>8. CASE OnId
    <2>1. inq' \in Seq(Requests) /\ Head(inq) \in Requests /\ Head(inq)[1] = "id"
      BY <1>8, HandledRequest DEF OnId, Command
    <2>2. Head(inq)[2] \in IdStrings
      BY <2>1, RequestAssumption DEF Requests
    <2> QED
      BY <1>8, <2>1, <2>2, ExactId, ExactConclude DEF OnId
  <1>9. CASE OnPermission
    <2>1. /\ inq' \in Seq(Requests) /\ Head(inq) \in Requests
          /\ Head(inq)[1] = "permission"
      BY <1>9, HandledRequest DEF OnPermission, Command
    <2>2. Head(inq)[2] \in Permissions
      BY <2>1 DEF Requests
    <2> QED
      BY <1>9, <2>1, <2>2, ExactPermission, ExactConclude DEF OnPermission
  <1>10. CASE OnPath
    <2>1. /\ inq' \in Seq(Requests) /\ Head(inq) \in Requests
          /\ Head(inq)[1] = "path"
      BY <1>10, HandledRequest DEF OnPath, Command
    <2>2. Head(inq)[2] \in RawPaths
      BY <2>1 DEF Requests
    <2> QED
      BY <1>10, <2>1, <2>2, ExactPath, ExactConclude DEF OnPath
  <1>11. CASE OnPlug
    <2>1. /\ inq' \in Seq(Requests) /\ Head(inq) \in Requests
          /\ Head(inq)[1] = "plug"
      BY <1>11, HandledRequest DEF OnPlug, Command
    <2>2. /\ Head(inq)[2] \in RawPaths /\ Head(inq)[3] \in IdStrings
          /\ Head(inq)[4] \in RawPaths
      BY <2>1, RequestAssumption DEF Requests
    <2> QED
      BY <1>11, <2>1, <2>2, ExactPlug, ExactConclude DEF OnPlug
  <1>12. ASSUME NEW cmd, NEW result, Apply(cmd, result) PROVE Exact(ctx')
    <2>1. \A r : Outcome(r, ctx).ctx = ctx
      BY DEF Outcome
    <2> QED
      BY <1>12, <2>1, ExactConclude DEF Apply
  <1>13. CASE OnInstall \/ OnUninstall
    BY <1>12, <1>13, HandledRequest DEF OnInstall, OnUninstall, Command
  <1>14. CASE client_destroy \/ Inactivity
    <2>1. inq' = <<>> /\ ctx' = context_clear(ctx)
      BY <1>14 DEF client_destroy, Inactivity, Destroy
    <2> QED
      BY <2>1, ExactClear
  <1>15. CASE Finished \/ UNCHANGED vars
    BY <1>15 DEF Finished, vars
  <1> QED
    BY <1>1, <1>2, <1>3, <1>4, <1>5, <1>6, <1>7, <1>8, <1>9, <1>10, <1>11,
       <1>13, <1>14, <1>15 DEF Next, Handle

(* need_id is on exactly when a property of the context needs an           *)
(* identifier, whatever the client sends and whatever is refused.          *)
THEOREM SessionNeedIdExact == Spec => []NeedIdExact
  <1>1. ExactInv => NeedIdExact
    BY DEF ExactInv, Exact, NeedIdExact
  <1> QED
    BY <1>1, ExactInvInit, ExactInvStep, PTL DEF Spec

-----------------------------------------------------------------------------
(* The items that context_visit gives, part by part. *)
Keys == {"id", "path", "permission", "plug", "error"}
Values == Seq(IdBytes) \cup PathItems \cup Permissions \cup PlugItems \cup {"on"}
Entries == Keys \X Values

IdPart(c) == IF has_id(c) THEN << <<"id", StringOf(c.id)>> >> ELSE <<>>
PathPart(c) == [i \in DOMAIN c.paths |-> <<"path", c.paths[i]>>]
PermissionPart(c) == [i \in DOMAIN c.permissions |-> <<"permission", c.permissions[i]>>]
PlugPart(c) == [i \in DOMAIN c.plugs |-> <<"plug", c.plugs[i]>>]

(* The identifier is read from the buffer up to its first NUL. *)
LEMMA StringFacts ==
    ASSUME NEW b \in IdBuffers
    PROVE  /\ StringOf(b) \in Seq(IdBytes)
           /\ \A i \in 1..Len(StringOf(b)) : StringOf(b)[i] = b[i - 1] /\ b[i - 1] # NUL
           /\ Len(StringOf(b)) \in 0..(MAX_SIZE_ID + 1)
           /\ Len(StringOf(b)) \in DOMAIN b => b[Len(StringOf(b))] = NUL
  <1> DEFINE Ends == {i \in DOMAIN b : b[i] = NUL}
             len == IF Ends = {} THEN MAX_SIZE_ID + 1
                    ELSE CHOOSE i \in Ends : \A j \in Ends : i <= j
             f == [i \in 1..len |-> b[i - 1]]
  <1>1. DOMAIN b = 0..MAX_SIZE_ID /\ \A i \in 0..MAX_SIZE_ID : b[i] \in IdBytes
    BY DEF IdBuffers
  <1>2. len \in 0..(MAX_SIZE_ID + 1) /\ (len \in DOMAIN b => b[len] = NUL)
        /\ \A i \in 0..MAX_SIZE_ID : i < len => b[i] # NUL
    <2>1. CASE Ends = {}
      BY <1>1, <2>1, SizeAssumption
    <2>2. CASE Ends # {}
      <3>1. Ends \in SUBSET Nat
        BY <1>1, SizeAssumption
      <3>2. \E i \in Ends : \A j \in Ends : i <= j
        BY <2>2, <3>1, Smallest
      <3> DEFINE m == CHOOSE i \in Ends : \A j \in Ends : i <= j
      <3>3. m \in Ends /\ \A j \in Ends : m <= j
        BY <3>2
      <3>4. len = m
        BY <2>2
      <3> HIDE DEF m, len
      <3>5. m \in 0..MAX_SIZE_ID /\ b[m] = NUL
        BY <1>1, <3>3
      <3>6. ASSUME NEW i \in 0..MAX_SIZE_ID, i < m
            PROVE  b[i] # NUL
        <4>1. ~(m <= i)
          BY <3>5, <3>6, SizeAssumption
        <4> QED
          BY <1>1, <3>3, <4>1
      <3> QED
        BY <3>4, <3>5, <3>6, SizeAssumption
    <2> QED
      BY <2>1, <2>2
  <1>3. StringOf(b) = f
    BY DEF StringOf
  <1> HIDE DEF len
  <1>4. /\ f \in [1..len -> IdBytes] /\ len \in Nat /\ DOMAIN f = 1..len
        /\ \A i \in 1..len : f[i] = b[i - 1] /\ b[i - 1] # NUL
    <2>1. \A i \in 1..len : i - 1 \in 0..MAX_SIZE_ID /\ i - 1 < len
      BY <1>2, SizeAssumption
    <2> QED
      BY <1>1, <1>2, <2>1, SizeAssumption
  <1>5. f \in Seq(IdBytes)
    BY <1>4, FunctionIsSeq
  <1> HIDE DEF f
  <1>6. Len(f) = len
    BY <1>4, <1>5
  <1> QED
    BY <1>2, <1>3, <1>4, <1>5, <1>6

LEMMA VisitParts ==
    ASSUME NEW c \in Contexts
    PROVE  /\ context_visit(c) = IdPart(c) \o PathPart(c) \o PermissionPart(c) \o PlugPart(c)
           /\ IdPart(c) \in Seq(Entries) /\ PathPart(c) \in Seq(Entries)
           /\ PermissionPart(c) \in Seq(Entries) /\ PlugPart(c) \in Seq(Entries)
  <1>1. /\ c.paths \in Seq(PathItems) /\ c.permissions \in Seq(Permissions)
        /\ c.plugs \in Seq(PlugItems) /\ c.id \in IdBuffers
    BY DEF Contexts
  <1>2. StringOf(c.id) \in Seq(IdBytes)
    BY <1>1, StringFacts
  <1>3. <<"id", StringOf(c.id)>> \in Entries
    BY <1>2 DEF Entries, Keys, Values
  <1>4. IdPart(c) \in Seq(Entries)
    BY <1>3 DEF IdPart
  <1>5. /\ \A i \in DOMAIN c.paths : <<"path", c.paths[i]>> \in Entries
        /\ \A i \in DOMAIN c.permissions : <<"permission", c.permissions[i]>> \in Entries
        /\ \A i \in DOMAIN c.plugs : <<"plug", c.plugs[i]>> \in Entries
    BY <1>1 DEF Entries, Keys, Values
  <1>6. /\ Len(c.paths) \in Nat /\ Len(c.permissions) \in Nat /\ Len(c.plugs) \in Nat
        /\ DOMAIN c.paths = 1..Len(c.paths) /\ DOMAIN c.permissions = 1..Len(c.permissions)
        /\ DOMAIN c.plugs = 1..Len(c.plugs)
    BY <1>1
  <1>7. /\ PathPart(c) \in [1..Len(c.paths) -> Entries]
        /\ PermissionPart(c) \in [1..Len(c.permissions) -> Entries]
        /\ PlugPart(c) \in [1..Len(c.plugs) -> Entries]
    BY <1>5, <1>6 DEF PathPart, PermissionPart, PlugPart
  <1>8. /\ PathPart(c) \in Seq(Entries) /\ PermissionPart(c) \in Seq(Entries)
        /\ PlugPart(c) \in Seq(Entries)
    BY <1>6, <1>7, FunctionIsSeq
  <1>9. context_visit(c) = IdPart(c) \o PathPart(c) \o PermissionPart(c) \o PlugPart(c)
    BY DEF context_visit, IdPart, PathPart, PermissionPart, PlugPart
  <1> QED
    BY <1>4, <1>8, <1>9

(* What a concatenation has. *)
LEMMA Joined ==
    ASSUME NEW T, NEW s \in Seq(T), NEW t \in Seq(T)
    PROVE  s \o t \in Seq(T) /\ Items(s \o t) = Items(s) \cup Items(t)
  <1>1. /\ s \o t \in Seq(T) /\ Len(s) \in Nat /\ Len(t) \in Nat
        /\ DOMAIN s = 1..Len(s) /\ DOMAIN t = 1..Len(t)
        /\ DOMAIN (s \o t) = 1..(Len(s) + Len(t))
        /\ \A i \in 1..Len(s) : (s \o t)[i] = s[i]
        /\ \A i \in (Len(s) + 1)..(Len(s) + Len(t)) : (s \o t)[i] = t[i - Len(s)]
    OBVIOUS
  <1>2. ASSUME NEW x \in Items(s \o t)
        PROVE  x \in Items(s) \cup Items(t)
    <2>1. PICK i \in DOMAIN (s \o t) : (s \o t)[i] = x
      BY <1>2 DEF Items
    <2>2. CASE i <= Len(s)
      BY <1>1, <2>1, <2>2 DEF Items
    <2>3. CASE i > Len(s)
      <3>1. i - Len(s) \in DOMAIN t /\ t[i - Len(s)] = x
        BY <1>1, <2>1, <2>3
      <3> QED
        BY <3>1 DEF Items
    <2> QED
      BY <1>1, <2>1, <2>2, <2>3
  <1>3. ASSUME NEW i \in DOMAIN s
        PROVE  s[i] \in Items(s \o t)
    <2>1. i \in DOMAIN (s \o t) /\ (s \o t)[i] = s[i]
      BY <1>1
    <2> QED
      BY <2>1 DEF Items
  <1>4. ASSUME NEW i \in DOMAIN t
        PROVE  t[i] \in Items(s \o t)
    <2>1. Len(s) + i \in DOMAIN (s \o t) /\ (s \o t)[Len(s) + i] = t[i]
      BY <1>1
    <2> QED
      BY <2>1 DEF Items
  <1>5. Items(s) \cup Items(t) \subseteq Items(s \o t)
    BY <1>3, <1>4 DEF Items
  <1> QED
    BY <1>1, <1>2, <1>5

(* The items of a context, as a set. *)
LEMMA VisitItems ==
    ASSUME NEW c \in Contexts
    PROVE  /\ context_visit(c) \in Seq(Entries)
           /\ Items(context_visit(c)) =
                 (IF has_id(c) THEN {<<"id", StringOf(c.id)>>} ELSE {})
                 \cup {<<"path", c.paths[i]>> : i \in DOMAIN c.paths}
                 \cup {<<"permission", c.permissions[i]>> : i \in DOMAIN c.permissions}
                 \cup {<<"plug", c.plugs[i]>> : i \in DOMAIN c.plugs}
  <1> DEFINE I == IdPart(c)
             P == PathPart(c)
             Q == PermissionPart(c)
             R == PlugPart(c)
  <1>1. /\ I \in Seq(Entries) /\ P \in Seq(Entries) /\ Q \in Seq(Entries)
        /\ R \in Seq(Entries) /\ context_visit(c) = I \o P \o Q \o R
    BY VisitParts
  <1>2. Items(I) = IF has_id(c) THEN {<<"id", StringOf(c.id)>>} ELSE {}
    <2>1. CASE has_id(c)
      <3> DEFINE x == <<"id", StringOf(c.id)>>
      <3>1. I = <<x>>
        BY <2>1 DEF IdPart
      <3> HIDE DEF x, I
      <3>2. Items(I) = {x}
        BY <3>1 DEF Items
      <3> QED
        BY <2>1, <3>2 DEF x
    <2>2. CASE ~has_id(c)
      <3>1. I = <<>>
        BY <2>2 DEF IdPart
      <3> QED
        BY <2>2, <3>1 DEF Items
    <2> QED
      BY <2>1, <2>2
  <1>3. /\ Items(P) = {<<"path", c.paths[i]>> : i \in DOMAIN c.paths}
        /\ Items(Q) = {<<"permission", c.permissions[i]>> : i \in DOMAIN c.permissions}
        /\ Items(R) = {<<"plug", c.plugs[i]>> : i \in DOMAIN c.plugs}
    BY DEF Items, PathPart, PermissionPart, PlugPart
  <1> HIDE DEF I, P, Q, R
  <1> DEFINE IP == I \o P
             IPQ == IP \o Q
  <1>4. IP \in Seq(Entries) /\ Items(IP) = Items(I) \cup Items(P)
    BY <1>1, Joined
  <1> HIDE DEF IP
  <1>5. IPQ \in Seq(Entries) /\ Items(IPQ) = Items(IP) \cup Items(Q)
    BY <1>1, <1>4, Joined
  <1> HIDE DEF IPQ
  <1>6. IPQ \o R \in Seq(Entries) /\ Items(IPQ \o R) = Items(IPQ) \cup Items(R)
    BY <1>1, <1>5, Joined
  <1>7. context_visit(c) = IPQ \o R
    BY <1>1 DEF IP, IPQ
  <1>8. Items(context_visit(c)) = Items(I) \cup Items(P) \cup Items(Q) \cup Items(R)
    BY <1>4, <1>5, <1>6, <1>7
  <1> QED
    BY <1>2, <1>3, <1>6, <1>7, <1>8

-----------------------------------------------------------------------------
(* The checks of action.c. *)

(* A checked context has no error, and an identifier if it needs one. *)
LEMMA CheckedHasNoError ==
    ASSUME NEW c, check_context(c) = "ok"
    PROVE  ~c.error_flag /\ (has_id(c) \/ ~c.need_id)
  <1> DEFINE checks == << <<c.error_flag, "ENOTRECOVERABLE">>,
                          <<~has_id(c) /\ c.need_id, "EINVAL">> >>
  <1>1. FirstFailure(checks) = "ok"
    BY DEF check_context
  <1>2. ~checks[1][1] /\ ~checks[2][1]
    BY <1>1, ChecksPass
  <1> QED
    BY <1>2

(* install checks the context first. *)
LEMMA InstallChecks ==
    ASSUME NEW c, NEW grants,
           FirstFailure(<< <<check_context(c) # "ok", check_context(c)>>,
                           <<check_plug_installable(c, grants) # "ok",
                             check_plug_installable(c, grants)>> >>) = "ok"
    PROVE  check_context(c) = "ok"
  <1> DEFINE checks == << <<check_context(c) # "ok", check_context(c)>>,
                          <<check_plug_installable(c, grants) # "ok",
                            check_plug_installable(c, grants)>> >>
  <1>1. DOMAIN checks = {1, 2}
    OBVIOUS
  <1>2. (checks[1][1] => checks[1][2] # "ok") /\ (checks[2][1] => checks[2][2] # "ok")
    OBVIOUS
  <1>3. ~checks[1][1]
    <2>1. FirstFailure(checks) = "ok"
      OBVIOUS
    <2> HIDE DEF checks
    <2> QED
      BY <1>1, <1>2, <2>1, ChecksPass
  <1> QED
    BY <1>3

-----------------------------------------------------------------------------
(* What goes to the system.  An exact context that check_context accepts   *)
(* has an identifier or default paths only.                                *)
Presentable(items) ==
    \/ \E i \in DOMAIN items : items[i][1] = "id"
    \/ \A i \in DOMAIN items : items[i][1] = "path" /\ items[i][2].type = "default"

(* The items that context_visit gives of a checked context are presentable. *)
LEMMA CheckedIsPresentable ==
    ASSUME NEW c, Exact(c), check_context(c) = "ok"
    PROVE  Presentable(context_visit(c))
  <1> DEFINE P == PathPart(c)
             Q == PermissionPart(c)
             R == PlugPart(c)
  <1>1. /\ P \in Seq(Entries) /\ Q \in Seq(Entries) /\ R \in Seq(Entries)
        /\ context_visit(c) = IdPart(c) \o P \o Q \o R
    BY VisitParts DEF Exact
  <1>2. has_id(c) \/ ~c.need_id
    BY CheckedHasNoError
  <1>3. CASE has_id(c)
    <2> DEFINE first == <<"id", StringOf(c.id)>>
               rest == P \o Q \o R
    <2>1. context_visit(c) = <<first>> \o P \o Q \o R
      BY <1>1, <1>3 DEF IdPart
    <2>2. first[1] = "id"
      OBVIOUS
    <2> HIDE DEF P, Q, R, first
    <2>3. 1 \in DOMAIN context_visit(c) /\ context_visit(c)[1] = first
      <3>1. \A T, s, t : s \in Seq(T) /\ t \in Seq(T) /\ s # <<>> =>
               /\ s \o t \in Seq(T) /\ s \o t # <<>>
               /\ 1 \in DOMAIN (s \o t) /\ (s \o t)[1] = s[1]
        OBVIOUS
      <3>2. <<first>> \in Seq(Entries \cup {first}) /\ <<first>> # <<>> /\ <<first>>[1] = first
        OBVIOUS
      <3>3. P \in Seq(Entries \cup {first}) /\ Q \in Seq(Entries \cup {first})
            /\ R \in Seq(Entries \cup {first})
        BY <1>1
      <3> QED
        BY <2>1, <3>1, <3>2, <3>3
    <2> QED
      BY <2>2, <2>3 DEF Presentable
  <1>4. CASE ~has_id(c)
    <2>1. c.permissions = <<>> /\ c.plugs = <<>>
      BY <1>2, <1>4 DEF Exact, NeedsId
    <2>2. \A i \in DOMAIN c.paths : c.paths[i].type = "default"
      BY <1>2, <1>4 DEF Exact, NeedsId
    <2>3. Q = <<>> /\ R = <<>>
      BY <2>1 DEF PermissionPart, PlugPart
    <2>4. context_visit(c) = <<>> \o P \o Q \o R
      BY <1>1, <1>4 DEF IdPart
    <2>5. context_visit(c) = P
      <3> HIDE DEF P, Q, R
      <3> QED
        BY <1>1, <2>3, <2>4
    <2> QED
      BY <2>2, <2>5 DEF Presentable, PathPart
  <1> QED
    BY <1>3, <1>4

(* A step gives nothing to the system, or the context that was checked.    *)
LEMMA IdlessStep ==
    ExactInv /\ IdlessIsDefaultOnly /\ [Next]_vars => IdlessIsDefaultOnly'
  <1> SUFFICES ASSUME ExactInv, IdlessIsDefaultOnly, [Next]_vars
               PROVE  IdlessIsDefaultOnly'
    OBVIOUS
  <1>1. IdlessIsDefaultOnly' <=> Presentable(applied'[2])
    BY DEF IdlessIsDefaultOnly, Presentable
  <1>2. IdlessIsDefaultOnly <=> Presentable(applied[2])
    BY DEF IdlessIsDefaultOnly, Presentable
  <1>3. CASE applied' = applied
    BY <1>1, <1>2, <1>3
  <1>4. CASE applied' = NoAction
    BY <1>1, <1>4 DEF NoAction, Presentable
  <1>5. ASSUME NEW cmd, NEW result, Apply(cmd, result),
               result = "ok" => check_context(ctx) = "ok"
        PROVE  IdlessIsDefaultOnly'
    <2>1. CASE result # "ok"
      BY <1>4, <1>5, <2>1 DEF Apply
    <2>2. CASE result = "ok"
      <3>1. applied' = <<cmd, context_visit(ctx)>>
        BY <1>5, <2>2 DEF Apply
      <3>2. Presentable(context_visit(ctx))
        BY <1>5, <2>2, CheckedIsPresentable DEF ExactInv
      <3> QED
        BY <1>1, <3>1, <3>2
    <2> QED
      BY <2>1, <2>2
  <1>6. CASE OnUninstall
    BY <1>5, <1>6 DEF OnUninstall
  <1>7. CASE OnInstall
    BY <1>5, <1>7, InstallChecks DEF OnInstall
  <1>8. CASE \/ OnHello \/ OnViolation \/ OnClear \/ OnDisplay \/ OnLog
            \/ OnId \/ OnPermission \/ OnPath \/ OnPlug
    BY <1>4, <1>8 DEF OnHello, OnViolation, OnClear, OnDisplay, OnLog,
                      OnId, OnPermission, OnPath, OnPlug, invalid_protocol
  <1>9. CASE \/ \E r \in Requests : ClientSend(r)
            \/ ClientRead \/ ClientClose \/ client_destroy \/ Inactivity
            \/ Finished \/ UNCHANGED vars
    BY <1>3, <1>9 DEF ClientSend, ClientRead, ClientClose, client_destroy,
                      Inactivity, Destroy, Finished, vars
  <1> QED
    BY <1>6, <1>7, <1>8, <1>9 DEF Next, Handle

(* No profile that needs an identifier and has none is ever handed to the  *)
(* permission manager or to the LSM.                                       *)
THEOREM SessionIdlessIsDefaultOnly == Spec => []IdlessIsDefaultOnly
  <1>1. Init => IdlessIsDefaultOnly
    BY DEF Init, NoAction, IdlessIsDefaultOnly
  <1> QED
    BY <1>1, ExactInvInit, ExactInvStep, IdlessStep, PTL DEF Spec

-----------------------------------------------------------------------------
(* No setting is twice in a context. *)

(* Whatever the client sends, spelled however it likes, a context has no   *)
(* permission, path or import directory twice: the checks of the setters   *)
(* of context.c are made on what is recorded.                              *)
THEOREM SessionSettingsUnique == Spec => []SettingsUnique
  <1>1. ExactInv => SettingsUnique
    BY DEF ExactInv, Exact, Unique, SettingsUnique
  <1> QED
    BY <1>1, ExactInvInit, ExactInvStep, PTL DEF Spec

-----------------------------------------------------------------------------
(* Replies.  Every handler answers with a block: one final reply, after    *)
(* strings if the request is display.                                      *)
Texts == {"", "1", "on", "off", "protocol", "internal"}
         \cup {ErrorText[rc] : rc \in DOMAIN ErrorText}
Replies == ({"done", "error"} \X Texts) \cup ({"string"} \X Keys \X Values)

Block(b) ==
    /\ b \in Seq(Replies) /\ Len(b) > 0 /\ IsFinal(b[Len(b)])
    /\ \A i \in 1..(Len(b) - 1) : ~IsFinal(b[i])

Answers(b) ==
    /\ Block(b) /\ (Len(b) > 1 => Head(inq) = <<"display">>)
    /\ outq' = IF peer = "open" THEN outq \o b ELSE outq

LEMMA TextFacts ==
    ASSUME NEW cmd \in {"id", "permission", "path", "plug", "install", "uninstall"}, NEW rc
    PROVE  Text(cmd, rc) \in Texts
  <1>1. KnownErrors[cmd] \subseteq DOMAIN ErrorText
    <2>1. DOMAIN ErrorText = {"ENOTRECOVERABLE", "EINVAL", "EEXIST", "ENOENT", "EACCES",
                              "ENOTDIR", "EPERM"}
      BY DEF ErrorText
    <2>2. KnownErrors[cmd] \subseteq {"ENOTRECOVERABLE", "EINVAL", "EEXIST", "ENOENT",
                                      "EACCES", "ENOTDIR", "EPERM"}
      BY DEF KnownErrors
    <2> QED
      BY <2>1, <2>2
  <1> QED
    BY <1>1 DEF Text, Texts

(* One final reply is a block. *)
LEMMA OneReply ==
    ASSUME NEW kind \in {"done", "error"}, NEW text \in Texts, putx(<< <<kind, text>> >>)
    PROVE  \E b : Answers(b)
  <1> DEFINE r == <<kind, text>>
             b == <<r>>
  <1>1. r \in Replies /\ IsFinal(r)
    BY DEF Replies, IsFinal
  <1>2. outq' = IF peer = "open" THEN outq \o b ELSE outq
    BY DEF putx
  <1> HIDE DEF r
  <1>3. b \in Seq(Replies) /\ Len(b) = 1 /\ b[1] = r
    BY <1>1
  <1>4. Block(b) /\ ~(Len(b) > 1)
    BY <1>1, <1>3 DEF Block
  <1> HIDE DEF b
  <1>5. Answers(b)
    BY <1>2, <1>4, Zenon DEF Answers
  <1> QED
    BY <1>5

LEMMA ConcludeAnswers ==
    ASSUME NEW cmd \in {"id", "permission", "path", "plug", "install", "uninstall"},
           NEW outcome, Conclude(cmd, outcome)
    PROVE  \E b : Answers(b)
  <1>1. "" \in Texts /\ Text(cmd, outcome.rc) \in Texts
    BY TextFacts DEF Texts
  <1>2. CASE send_done("")
    BY <1>1, <1>2, OneReply DEF send_done
  <1>3. CASE send_error(Text(cmd, outcome.rc), outcome.ctx)
    BY <1>1, <1>3, OneReply DEF send_error
  <1> QED
    BY <1>2, <1>3 DEF Conclude

(* Strings, then a final reply. *)
LEMMA ManyReplies ==
    ASSUME NEW n \in Nat, NEW strings \in [1..n -> {"string"} \X Keys \X Values],
           NEW kind \in {"done", "error"}, NEW text \in Texts, Head(inq) = <<"display">>,
           putx(strings \o << <<kind, text>> >>)
    PROVE  \E b : Answers(b)
  <1> DEFINE r == <<kind, text>>
             b == strings \o <<r>>
  <1>1. r \in Replies /\ IsFinal(r)
    BY DEF Replies, IsFinal
  <1>2. outq' = IF peer = "open" THEN outq \o b ELSE outq
    BY DEF putx
  <1>3. \A i \in 1..n : strings[i] \in Replies /\ ~IsFinal(strings[i])
    BY DEF Replies, IsFinal
  <1>4. strings \in [1..n -> Replies]
    BY <1>3
  <1>5. strings \in Seq(Replies)
    BY <1>4, FunctionIsSeq
  <1>6. Len(strings) = n
    BY <1>4, <1>5
  <1> HIDE DEF r
  <1>7. /\ b \in Seq(Replies) /\ Len(b) = n + 1 /\ b[n + 1] = r
        /\ \A i \in 1..n : b[i] = strings[i]
    BY <1>1, <1>5, <1>6
  <1> HIDE DEF b
  <1>8. Block(b)
    BY <1>1, <1>3, <1>7 DEF Block
  <1> QED
    BY <1>2, <1>7, <1>8 DEF Answers

LEMMA DisplayAnswers ==
    ASSUME ExactInv, OnDisplay
    PROVE  \E b : Answers(b)
  <1> DEFINE items == Displayed(ctx)
             Sent(n) == [i \in 1..n |-> <<"string", items[i][1], items[i][2]>>]
             big == {i \in DOMAIN items : items[i] \in BigItems}
  <1>1. Head(inq) = <<"display">>
    <2>1. Head(inq) \in Requests /\ Head(inq)[1] = "display"
      BY HandledRequest DEF OnDisplay, Command
    <2> QED
      BY <2>1 DEF Requests
  <1>2. items \in Seq(Entries)
    <2>1. context_visit(ctx) \in Seq(Entries)
      BY VisitItems DEF ExactInv, Exact
    <2>2. <<"error", "on">> \in Entries
      BY DEF Entries, Keys, Values
    <2> DEFINE e == <<"error", "on">>
    <2> HIDE DEF e
    <2>3. items = (IF ctx.error_flag THEN <<e>> ELSE <<>>) \o context_visit(ctx)
      BY DEF Displayed, e
    <2> HIDE DEF items
    <2>4. e \in Entries
      BY <2>2 DEF e
    <2> QED
      BY <2>1, <2>3, <2>4
  <1>3. ASSUME NEW n \in 0..Len(items)
        PROVE  n \in Nat /\ Sent(n) \in [1..n -> {"string"} \X Keys \X Values]
    <2>1. \A i \in 1..n : items[i] \in Entries
      BY <1>2, <1>3
    <2>2. \A i \in 1..n : items[i][1] \in Keys /\ items[i][2] \in Values
      BY <2>1 DEF Entries
    <2> HIDE DEF items
    <2> QED
      BY <1>2, <1>3, <2>2
  <1>4. /\ Len(items) \in 0..Len(items) /\ DOMAIN items = 1..Len(items)
        /\ \A n \in DOMAIN items : n - 1 \in 0..Len(items)
    BY <1>2
  <1>5. "" \in Texts /\ "internal" \in Texts
    BY DEF Texts
  <1>6. CASE putx(Sent(Len(items)) \o << <<"done", "">> >>)
    <2> DEFINE s == Sent(Len(items))
    <2>1. Len(items) \in Nat /\ s \in [1..Len(items) -> {"string"} \X Keys \X Values]
      BY <1>3, <1>4
    <2>2. putx(s \o << <<"done", "">> >>)
      BY <1>6
    <2> HIDE DEF s, items
    <2> QED
      BY <1>1, <1>5, <2>1, <2>2, ManyReplies
  <1>7. ASSUME NEW n \in big, putx(Sent(n - 1) \o << <<"error", "internal">> >>)
        PROVE  \E b : Answers(b)
    <2> DEFINE s == Sent(n - 1)
    <2>1. n - 1 \in Nat /\ s \in [1..(n - 1) -> {"string"} \X Keys \X Values]
      BY <1>3, <1>4
    <2>2. putx(s \o << <<"error", "internal">> >>)
      BY <1>7
    <2> HIDE DEF s, items
    <2> QED
      BY <1>1, <1>5, <2>1, <2>2, ManyReplies
  <1>8. CASE send_error("internal", ctx)
    BY <1>5, <1>8, OneReply DEF send_error
  <1> QED
    BY <1>6, <1>7, <1>8 DEF OnDisplay

(* Every handler takes one request and answers it once. *)
LEMMA HandleAnswers ==
    ASSUME ExactInv, Handle
    PROVE  /\ conn = "open" /\ inq # <<>> /\ inq' = Tail(inq)
           /\ UNCHANGED <<conn, peer, expect>> /\ \E b : Answers(b)
  <1>1. /\ conn = "open" /\ inq # <<>> /\ inq' = Tail(inq) /\ UNCHANGED <<conn, peer, expect>>
    BY DEF Handle, OnHello, OnViolation, OnClear, OnDisplay, OnLog, OnId, OnPermission,
           OnPath, OnPlug, OnInstall, OnUninstall, Command, Handling, link
  <1> SUFFICES \E b : Answers(b)
    BY <1>1
  <1>2. "" \in Texts /\ "1" \in Texts /\ "protocol" \in Texts
        /\ "on" \in Texts /\ "off" \in Texts
    BY DEF Texts
  <1>3. ASSUME invalid_protocol PROVE \E b : Answers(b)
    BY <1>2, <1>3, OneReply DEF invalid_protocol, send_error
  <1>4. CASE OnHello \/ OnViolation \/ OnClear \/ OnLog
    <2>1. \/ invalid_protocol \/ send_done("1") \/ send_done("")
          \/ \E on \in BOOLEAN : send_done(IF on THEN "on" ELSE "off")
      <3>1. CASE OnHello
        BY <3>1 DEF OnHello
      <3>2. CASE OnViolation
        BY <3>2 DEF OnViolation
      <3>3. CASE OnClear
        BY <3>3 DEF OnClear
      <3>4. CASE OnLog
        <4> DEFINE arg == Head(inq)[2]
                   nextlog == IF arg = "none" THEN log ELSE arg = "on"
                   on == IF nextlog THEN TRUE ELSE FALSE
        <4>1. invalid_protocol \/ send_done(IF nextlog THEN "on" ELSE "off")
          BY <3>4 DEF OnLog
        <4>2. (IF nextlog THEN "on" ELSE "off") = IF on THEN "on" ELSE "off"
          OBVIOUS
        <4>3. on \in BOOLEAN
          OBVIOUS
        <4> HIDE DEF nextlog, on
        <4> QED
          BY <4>1, <4>2, <4>3
      <3> QED
        BY <1>4, <3>1, <3>2, <3>3, <3>4
    <2>2. ASSUME NEW text \in Texts, send_done(text)
          PROVE  \E b : Answers(b)
      BY <2>2, OneReply DEF send_done
    <2> QED
      BY <1>2, <1>3, <2>1, <2>2
  <1>5. CASE OnDisplay
    BY <1>5, DisplayAnswers
  <1>6. CASE OnId \/ OnPermission \/ OnPath \/ OnPlug
    BY <1>6, ConcludeAnswers DEF OnId, OnPermission, OnPath, OnPlug
  <1>7. CASE OnInstall \/ OnUninstall
    BY <1>7, ConcludeAnswers DEF OnInstall, OnUninstall, Apply
  <1> QED
    BY <1>4, <1>5, <1>6, <1>7 DEF Handle


-----------------------------------------------------------------------------
(* Counting the final replies. *)
Finals(s, n) == {i \in 1..n : IsFinal(s[i])}
Count(s, n) == Cardinality(Finals(s, n))

LEMMA CountType ==
    ASSUME NEW s, NEW n \in Nat
    PROVE  IsFiniteSet(Finals(s, n)) /\ Count(s, n) \in Nat
  <1>1. IsFiniteSet(1..n)
    BY FS_Interval
  <1>2. Finals(s, n) \in SUBSET (1..n)
    BY DEF Finals
  <1>3. IsFiniteSet(Finals(s, n))
    BY <1>1, <1>2, FS_Subset
  <1> QED
    BY <1>3, FS_CardinalityType DEF Count

LEMMA CountGrows ==
    ASSUME NEW s, NEW n \in Nat, NEW m \in 0..n
    PROVE  Count(s, m) <= Count(s, n)
  <1>1. Finals(s, m) \in SUBSET Finals(s, n)
    BY DEF Finals
  <1> QED
    BY <1>1, CountType, FS_Subset DEF Count

(* One more reply. *)
LEMMA CountNext ==
    ASSUME NEW s, NEW n \in Nat
    PROVE  Count(s, n + 1) = IF IsFinal(s[n + 1]) THEN Count(s, n) + 1 ELSE Count(s, n)
  <1>1. CASE IsFinal(s[n + 1])
    <2>1. Finals(s, n + 1) = Finals(s, n) \cup {n + 1} /\ n + 1 \notin Finals(s, n)
      BY <1>1 DEF Finals
    <2>2. Cardinality(Finals(s, n) \cup {n + 1}) = Cardinality(Finals(s, n)) + 1
      BY <2>1, CountType, FS_AddElement
    <2> QED
      BY <1>1, <2>1, <2>2 DEF Count
  <1>2. CASE ~IsFinal(s[n + 1])
    <2>1. Finals(s, n + 1) = Finals(s, n)
      BY <1>2 DEF Finals
    <2> QED
      BY <1>2, <2>1 DEF Count
  <1> QED
    BY <1>1, <1>2

(* The first reply is read. *)
LEMMA CountTail ==
    ASSUME NEW T, NEW s \in Seq(T), s # <<>>, NEW n \in 0..(Len(s) - 1)
    PROVE  Count(s, n + 1) = IF IsFinal(s[1]) THEN Count(Tail(s), n) + 1 ELSE Count(Tail(s), n)
  <1> DEFINE t == Tail(s)
             A == Finals(t, n)
             B == Finals(s, n + 1) \ {1}
             f == [i \in A |-> i + 1]
  <1>1. /\ Len(s) \in Nat \ {0} /\ n \in Nat /\ n + 1 \in Nat
        /\ \A i \in 1..n : t[i] = s[i + 1]
    OBVIOUS
  <1> HIDE DEF t
  <1>2. \A i \in A : i \in 1..n /\ i + 1 \in B
    BY <1>1 DEF Finals
  <1>3. \A j \in B : j - 1 \in A /\ (j - 1) + 1 = j
    BY <1>1 DEF Finals
  <1>4. f \in Bijection(A, B)
    <2> HIDE DEF A, B
    <2>1. f \in [A -> B]
      BY <1>2
    <2>2. \A i, j \in A : f[i] = f[j] => i = j
      BY <1>2
    <2>3. \A j \in B : \E i \in A : f[i] = j
      BY <1>3
    <2> QED
      BY <2>1, <2>2, <2>3 DEF Bijection, Injection, Surjection, IsInjective
  <1>5. IsFiniteSet(A) /\ IsFiniteSet(Finals(s, n + 1)) /\ Cardinality(A) \in Nat
    BY <1>1, CountType, FS_CardinalityType
  <1>6. Cardinality(B) = Cardinality(A)
    <2> HIDE DEF A, B, f
    <2>1. ExistsBijection(A, B)
      BY <1>4 DEF ExistsBijection
    <2> QED
      BY <1>5, <2>1, FS_Bijection
  <1>7. Cardinality(B) = IF 1 \in Finals(s, n + 1) THEN Count(s, n + 1) - 1 ELSE Count(s, n + 1)
    BY <1>5, FS_RemoveElement DEF Count
  <1>8. 1 \in Finals(s, n + 1) <=> IsFinal(s[1])
    BY <1>1 DEF Finals
  <1>9. Count(s, n + 1) \in Nat
    BY <1>1, CountType
  <1> HIDE DEF A, B
  <1>10. Count(t, n) = Cardinality(A)
    BY DEF Count, A
  <1> QED
    BY <1>5, <1>6, <1>7, <1>8, <1>9, <1>10 DEF t

(* A block has one final reply, its last. *)
LEMMA CountBlock ==
    ASSUME NEW s \in Seq(Replies), NEW b, Block(b), NEW n \in 0..(Len(b) - 1)
    PROVE  /\ Count(s \o b, Len(s) + n) = Count(s, Len(s))
           /\ Count(s \o b, Len(s) + Len(b)) = Count(s, Len(s)) + 1
           /\ \A i \in 0..Len(s) : Count(s \o b, i) = Count(s, i)
  <1> DEFINE t == s \o b
  <1>1. /\ Len(s) \in Nat /\ Len(b) \in Nat \ {0} /\ Len(b) - 1 \in Nat
        /\ \A i \in 1..Len(s) : t[i] = s[i]
        /\ \A i \in 1..Len(b) : t[Len(s) + i] = b[i]
    BY DEF Block
  <1>2. IsFinal(b[Len(b)]) /\ \A i \in 1..(Len(b) - 1) : ~IsFinal(b[i])
    BY DEF Block
  <1> HIDE DEF t
  <1>3. ASSUME NEW m \in 0..(Len(b) - 1)
        PROVE  Count(t, Len(s) + m) = Count(s, Len(s))
    <2>1. Finals(t, Len(s) + m) = Finals(s, Len(s))
      <3>1. ASSUME NEW i \in 1..(Len(s) + m), IsFinal(t[i])
            PROVE  i \in 1..Len(s)
        <4>1. SUFFICES ASSUME i > Len(s) PROVE FALSE
          BY <1>1, <1>3
        <4>2. i - Len(s) \in 1..(Len(b) - 1) /\ Len(s) + (i - Len(s)) = i
          BY <1>1, <1>3, <4>1
        <4>3. t[i] = b[i - Len(s)]
          BY <1>1, <4>2
        <4> QED
          BY <1>2, <3>1, <4>2, <4>3
      <3>2. \A i \in 1..Len(s) : i \in 1..(Len(s) + m)
        BY <1>1, <1>3
      <3> QED
        BY <1>1, <3>1, <3>2 DEF Finals
    <2> QED
      BY <2>1 DEF Count
  <1>4. Count(t, Len(s) + Len(b)) = Count(s, Len(s)) + 1
    <2> DEFINE k == Len(s) + (Len(b) - 1)
    <2>1. k \in Nat /\ k + 1 = Len(s) + Len(b) /\ Len(b) - 1 \in 0..(Len(b) - 1)
      BY <1>1
    <2>2. Count(t, k) = Count(s, Len(s))
      BY <1>3, <2>1
    <2>3. t[k + 1] = b[Len(b)]
      BY <1>1, <2>1
    <2> HIDE DEF k
    <2>4. Count(t, k + 1) = Count(t, k) + 1
      BY <1>2, <2>1, <2>3, CountNext
    <2> QED
      BY <2>1, <2>2, <2>4
  <1>5. ASSUME NEW i \in 0..Len(s)
        PROVE  Count(t, i) = Count(s, i)
    <2>1. \A j \in 1..i : t[j] = s[j]
      BY <1>1
    <2>2. Finals(t, i) = Finals(s, i)
      BY <2>1 DEF Finals
    <2> QED
      BY <2>2 DEF Count
  <1> QED
    BY <1>3, <1>4, <1>5 DEF t

-----------------------------------------------------------------------------
(* Types.  The replies are typed more precisely than TypeOK says. *)
TypeInv ==
    /\ ExactInv
    /\ version \in {0, 1} /\ invalid \in BOOLEAN /\ log \in BOOLEAN
    /\ conn \in {"open", "gone"} /\ peer \in {"open", "closed"}
    /\ expect \in Seq(Requests) /\ outq \in Seq(Replies) /\ DOMAIN applied = {1, 2}

LEMMA TypeInvInit == Init => TypeInv
  <1> SUFFICES ASSUME Init PROVE TypeInv
    OBVIOUS
  <1>1. DOMAIN applied = {1, 2}
    BY DEF Init, NoAction
  <1>2. invalid \in BOOLEAN /\ log \in BOOLEAN
    BY Zenon DEF Init
  <1>3. /\ version \in {0, 1} /\ conn \in {"open", "gone"} /\ peer \in {"open", "closed"}
        /\ outq \in Seq(Replies) /\ expect \in Seq(Requests)
    <2>1. version = 0 /\ conn = "open" /\ peer = "open" /\ outq = <<>> /\ expect = <<>>
      BY DEF Init
    <2> QED
      BY <2>1
  <1> QED
    BY <1>1, <1>2, <1>3, ExactInvInit DEF TypeInv

(* A handler leaves the flags in their type. *)
LEMMA HandleFlags ==
    ASSUME TypeInv, Handle
    PROVE  /\ version' \in {0, 1} /\ invalid' \in BOOLEAN /\ log' \in BOOLEAN
           /\ DOMAIN applied' = {1, 2}
  <1> USE DEF TypeInv
  <1>1. ASSUME applied' = NoAction PROVE DOMAIN applied' = {1, 2}
    BY <1>1 DEF NoAction
  <1>2. ASSUME NEW cmd, NEW s, applied' = <<cmd, s>> PROVE DOMAIN applied' = {1, 2}
    BY <1>2
  <1>3. CASE OnHello \/ OnViolation \/ OnClear \/ OnDisplay
    BY <1>1, <1>3 DEF OnHello, OnViolation, OnClear, OnDisplay, Command, invalid_protocol
  <1>4. CASE OnLog
    BY <1>1, <1>4 DEF OnLog, Command, invalid_protocol
  <1>5. CASE OnId \/ OnPermission \/ OnPath \/ OnPlug
    BY <1>1, <1>5 DEF OnId, OnPermission, OnPath, OnPlug, Command, Conclude
  <1>6. ASSUME NEW cmd, NEW rc, Apply(cmd, rc), Command(cmd)
        PROVE  /\ version' \in {0, 1} /\ invalid' \in BOOLEAN /\ log' \in BOOLEAN
               /\ DOMAIN applied' = {1, 2}
    BY <1>1, <1>2, <1>6 DEF Apply, Command, Conclude
  <1>7. CASE OnInstall \/ OnUninstall
    BY <1>6, <1>7 DEF OnInstall, OnUninstall
  <1> QED
    BY <1>3, <1>4, <1>5, <1>7 DEF Handle

LEMMA TypeInvStep == TypeInv /\ [Next]_vars => TypeInv'
  <1> SUFFICES ASSUME TypeInv, [Next]_vars PROVE TypeInv'
    OBVIOUS
  <1>1. ExactInv'
    BY ExactInvStep DEF TypeInv
  <1> USE DEF TypeInv
  <1>2. CASE \E r \in Requests : ClientSend(r)
    BY <1>1, <1>2 DEF ClientSend, link
  <1>3. CASE ClientRead
    <2>1. expect # <<>> => Tail(expect) \in Seq(Requests)
      OBVIOUS
    <2>2. expect = <<>> => Tail(expect) = <<>>
      OBVIOUS
    <2>3. expect' = Tail(expect) \/ expect' = expect
      BY <1>3 DEF ClientRead
    <2>4. expect' \in Seq(Requests)
      BY <2>1, <2>2, <2>3
    <2>5. outq' \in Seq(Replies)
      BY <1>3 DEF ClientRead
    <2> QED
      BY <1>1, <1>3, <2>4, <2>5 DEF ClientRead, link
  <1>4. CASE ClientClose
    BY <1>1, <1>4 DEF ClientClose
  <1>5. CASE Handle
    <2>1. /\ UNCHANGED <<conn, peer, expect>> /\ \E b : Answers(b)
      BY <1>5, HandleAnswers
    <2>2. PICK b : Answers(b)
      BY <2>1
    <2>3. outq' \in Seq(Replies)
      BY <2>2 DEF Answers, Block
    <2> QED
      BY <1>1, <1>5, <2>1, <2>3, HandleFlags
  <1>6. CASE client_destroy \/ Inactivity
    BY <1>1, <1>6 DEF client_destroy, Inactivity, Destroy
  <1>7. CASE Finished \/ UNCHANGED vars
    BY <1>1, <1>7 DEF Finished, vars
  <1> QED
    BY <1>2, <1>3, <1>4, <1>5, <1>6, <1>7 DEF Next

(* A session of client.c keeps its types. *)
THEOREM SessionTypeOK == Spec => []TypeOK
  <1>1. TypeInv => TypeOK
    BY DEF TypeInv, ExactInv, Exact, TypeOK
  <1> QED
    BY <1>1, TypeInvInit, TypeInvStep, PTL DEF Spec

-----------------------------------------------------------------------------
(* The order of the replies, element by element: what is not handled is    *)
(* the end of what is expected, and a string belongs to a display.         *)
Awaited(o, e, q) ==
    /\ Len(q) = Len(e) - Count(o, Len(o))
    /\ \A i \in 1..Len(q) : q[i] = e[Count(o, Len(o)) + i]
StringsPlaced(o, e) ==
    \A i \in 1..Len(o) : ~IsFinal(o[i]) =>
        Count(o, i) < Len(e) /\ e[Count(o, i) + 1] = <<"display">>
Ordered(o, e) == Count(o, Len(o)) <= Len(e) /\ StringsPlaced(o, e)

OrderInv ==
    peer = "open" => Ordered(outq, expect) /\ (conn = "open" => Awaited(outq, expect, inq))

(* A suffix, element by element. *)
LEMMA Suffix ==
    ASSUME NEW T, NEW e \in Seq(T), NEW q \in Seq(T), NEW n \in 0..Len(e),
           Len(q) = Len(e) - n, \A i \in 1..Len(q) : q[i] = e[n + i]
    PROVE  SubSeq(e, n + 1, Len(e)) = q
  <1> DEFINE u == SubSeq(e, n + 1, Len(e))
  <1>1. Len(e) \in Nat /\ n \in Nat /\ n + 1 \in 1..(Len(e) + 1)
    OBVIOUS
  <1>2. u \in Seq(T) /\ Len(u) = Len(e) - n
    BY <1>1
  <1>3. \A i \in 1..Len(u) : u[i] = e[n + i]
    BY <1>1, <1>2
  <1> HIDE DEF u
  <1>4. u = q
    BY <1>2, <1>3
  <1> QED
    BY <1>4 DEF u

(* The client sends a request. *)
LEMMA OrderSend ==
    ASSUME NEW o \in Seq(Replies), NEW e \in Seq(Requests), NEW q \in Seq(Requests),
           NEW r \in Requests, Ordered(o, e), Awaited(o, e, q)
    PROVE  Ordered(o, Append(e, r)) /\ Awaited(o, Append(e, r), Append(q, r))
  <1> DEFINE f == Append(e, r)
             t == Append(q, r)
             k == Count(o, Len(o))
  <1>1. /\ Len(f) = Len(e) + 1 /\ f[Len(e) + 1] = r /\ \A i \in 1..Len(e) : f[i] = e[i]
        /\ Len(t) = Len(q) + 1 /\ t[Len(q) + 1] = r /\ \A i \in 1..Len(q) : t[i] = q[i]
        /\ Len(e) \in Nat /\ Len(q) \in Nat /\ Len(o) \in Nat
    OBVIOUS
  <1>2. k \in Nat /\ \A i \in 1..Len(o) : Count(o, i) \in Nat
    BY <1>1, CountType
  <1>3. k <= Len(e) /\ Len(q) = Len(e) - k /\ \A i \in 1..Len(q) : q[i] = e[k + i]
    BY DEF Ordered, Awaited
  <1> HIDE DEF f, t, k
  <1>4. k <= Len(f) /\ Len(t) = Len(f) - k
    BY <1>1, <1>2, <1>3
  <1>5. ASSUME NEW i \in 1..Len(t)
        PROVE  t[i] = f[k + i]
    <2>1. CASE i \in 1..Len(q)
      <3>1. k + i \in 1..Len(e)
        BY <1>1, <1>2, <1>3, <2>1
      <3> QED
        BY <1>1, <1>3, <2>1, <3>1
    <2>2. CASE i = Len(q) + 1
      <3>1. k + i = Len(e) + 1
        BY <1>1, <1>2, <1>3, <2>2
      <3> QED
        BY <1>1, <2>2, <3>1
    <2> QED
      BY <1>1, <2>1, <2>2
  <1>6. StringsPlaced(o, f)
    <2> SUFFICES ASSUME NEW i \in 1..Len(o), ~IsFinal(o[i])
                 PROVE  Count(o, i) < Len(f) /\ f[Count(o, i) + 1] = <<"display">>
      BY DEF StringsPlaced
    <2> DEFINE m == Count(o, i)
    <2>1. m \in Nat /\ m < Len(e) /\ e[m + 1] = <<"display">>
      BY <1>2 DEF Ordered, StringsPlaced
    <2> HIDE DEF m
    <2>2. m < Len(f) /\ m + 1 \in 1..Len(e)
      BY <1>1, <2>1
    <2>3. f[m + 1] = e[m + 1]
      BY <1>1, <2>2
    <2> QED
      BY <2>1, <2>2, <2>3 DEF m
  <1> QED
    BY <1>4, <1>5, <1>6 DEF Ordered, Awaited, f, t, k

(* The client reads a reply: a final one closes the oldest request. *)
LEMMA OrderRead ==
    ASSUME NEW o \in Seq(Replies), o # <<>>, NEW e \in Seq(Requests), Ordered(o, e),
           NEW f, f = IF IsFinal(Head(o)) THEN Tail(e) ELSE e
    PROVE  /\ Ordered(Tail(o), f)
           /\ \A q \in Seq(Requests) : Awaited(o, e, q) => Awaited(Tail(o), f, q)
  <1> DEFINE p == Tail(o)
             k == Count(o, Len(o))
             d == IF IsFinal(o[1]) THEN 1 ELSE 0
  <1>1. /\ Len(o) \in Nat \ {0} /\ Len(p) = Len(o) - 1 /\ Len(p) \in Nat
        /\ Len(e) \in Nat /\ Head(o) = o[1] /\ d \in {0, 1}
        /\ \A i \in 1..Len(p) : p[i] = o[i + 1]
    OBVIOUS
  <1>2. \A n \in 0..Len(p) : Count(o, n + 1) = Count(p, n) + d /\ Count(p, n) \in Nat
    <2> TAKE n \in 0..Len(p)
    <2>1. n \in 0..(Len(o) - 1) /\ n \in Nat
      BY <1>1
    <2>2. Count(p, n) \in Nat
      BY <2>1, CountType
    <2>3. Count(o, n + 1) = IF IsFinal(o[1]) THEN Count(p, n) + 1 ELSE Count(p, n)
      BY <2>1, CountTail
    <2> HIDE DEF p
    <2> QED
      BY <2>2, <2>3
  <1> HIDE DEF p
  <1>3. k = Count(p, Len(p)) + d /\ Count(p, Len(p)) \in Nat /\ k <= Len(e)
    BY <1>1, <1>2 DEF Ordered
  <1>4. /\ Len(f) = Len(e) - d /\ \A j \in 1..Len(f) : f[j] = e[j + d]
        /\ Len(f) \in Nat
    <2>1. CASE IsFinal(o[1])
      <3>1. e # <<>> /\ f = Tail(e) /\ d = 1
        BY <1>1, <1>3, <2>1
      <3> HIDE DEF d
      <3> QED
        BY <3>1
    <2>2. CASE ~IsFinal(o[1])
      BY <1>1, <2>2
    <2> QED
      BY <2>1, <2>2
  <1> HIDE DEF d, k
  <1>5. Count(p, Len(p)) <= Len(f)
    BY <1>1, <1>3, <1>4
  <1>6. StringsPlaced(p, f)
    <2> SUFFICES ASSUME NEW i \in 1..Len(p), ~IsFinal(p[i])
                 PROVE  Count(p, i) < Len(f) /\ f[Count(p, i) + 1] = <<"display">>
      BY DEF StringsPlaced
    <2>1. i + 1 \in 1..Len(o) /\ ~IsFinal(o[i + 1]) /\ i \in 0..Len(p)
      BY <1>1
    <2>2. Count(o, i + 1) < Len(e) /\ e[Count(o, i + 1) + 1] = <<"display">>
      BY <2>1 DEF Ordered, StringsPlaced
    <2>3. Count(o, i + 1) = Count(p, i) + d /\ Count(p, i) \in Nat
      BY <1>2, <2>1
    <2>4. Count(p, i) < Len(f) /\ Count(p, i) + 1 \in 1..Len(f)
      BY <1>1, <1>4, <2>2, <2>3
    <2>5. f[Count(p, i) + 1] = e[(Count(p, i) + 1) + d]
      BY <1>4, <2>4
    <2>6. (Count(p, i) + 1) + d = Count(o, i + 1) + 1
      BY <1>1, <2>3
    <2> QED
      BY <2>2, <2>4, <2>5, <2>6
  <1>7. ASSUME NEW q \in Seq(Requests), Awaited(o, e, q)
        PROVE  Awaited(p, f, q)
    <2> DEFINE m == Count(p, Len(p))
    <2>1. Len(q) = Len(e) - k /\ \A i \in 1..Len(q) : q[i] = e[k + i]
      BY <1>7 DEF Awaited, k
    <2>2. k = m + d /\ m \in Nat
      BY <1>3
    <2> HIDE DEF m
    <2>3. Len(q) = Len(f) - m
      BY <1>1, <1>4, <2>1, <2>2
    <2>4. ASSUME NEW i \in 1..Len(q)
          PROVE  q[i] = f[m + i]
      <3>1. Len(q) \in Nat /\ m + i \in 1..Len(f) /\ (m + i) + d = k + i
        BY <1>1, <1>4, <2>2, <2>3
      <3>2. f[m + i] = e[(m + i) + d]
        BY <1>4, <3>1
      <3> QED
        BY <2>1, <3>1, <3>2
    <2> QED
      BY <2>3, <2>4 DEF Awaited, m
  <1> QED
    BY <1>5, <1>6, <1>7 DEF Ordered, p

(* The daemon answers the oldest request that it has not handled. *)
LEMMA OrderAnswer ==
    ASSUME NEW o \in Seq(Replies), NEW e \in Seq(Requests), NEW q \in Seq(Requests),
           q # <<>>, Ordered(o, e), Awaited(o, e, q), NEW b, Block(b),
           Len(b) > 1 => Head(q) = <<"display">>
    PROVE  Ordered(o \o b, e) /\ Awaited(o \o b, e, Tail(q))
  <1> DEFINE p == o \o b
             k == Count(o, Len(o))
             t == Tail(q)
  <1>1. /\ Len(o) \in Nat /\ Len(b) \in Nat \ {0} /\ Len(p) = Len(o) + Len(b)
        /\ Len(e) \in Nat /\ Len(q) \in Nat \ {0} /\ Len(t) = Len(q) - 1
        /\ \A i \in 1..Len(t) : t[i] = q[i + 1]
        /\ Head(q) = q[1]
        /\ \A i \in 1..Len(o) : p[i] = o[i]
        /\ \A i \in 1..Len(b) : p[Len(o) + i] = b[i]
    BY DEF Block
  <1>2. IsFinal(b[Len(b)])
    BY DEF Block
  <1>3. /\ \A n \in 0..(Len(b) - 1) : Count(p, Len(o) + n) = k
        /\ \A i \in 0..Len(o) : Count(p, i) = Count(o, i)
        /\ Count(p, Len(p)) = k + 1
    <2>1. 0 \in 0..(Len(b) - 1)
      BY <1>1
    <2>2. \A n \in 0..(Len(b) - 1) :
             /\ Count(p, Len(o) + n) = k /\ Count(p, Len(o) + Len(b)) = k + 1
             /\ \A i \in 0..Len(o) : Count(p, i) = Count(o, i)
      BY CountBlock
    <2> HIDE DEF p, k
    <2> QED
      BY <1>1, <2>1, <2>2
  <1>4. k \in Nat
    BY <1>1, CountType
  <1>5. k <= Len(e) /\ Len(q) = Len(e) - k /\ \A i \in 1..Len(q) : q[i] = e[k + i]
    BY DEF Ordered, Awaited
  <1> HIDE DEF p, k, t
  <1>6. k + 1 <= Len(e) /\ e[k + 1] = q[1]
    BY <1>1, <1>4, <1>5
  <1>7. Len(t) = Len(e) - (k + 1) /\ \A i \in 1..Len(t) : t[i] = e[(k + 1) + i]
    <2>1. Len(t) = Len(e) - (k + 1)
      BY <1>1, <1>4, <1>5
    <2>2. ASSUME NEW i \in 1..Len(t)
          PROVE  t[i] = e[(k + 1) + i]
      <3>1. i + 1 \in 1..Len(q) /\ k + (i + 1) = (k + 1) + i
        BY <1>1, <1>4
      <3> QED
        BY <1>1, <1>5, <3>1
    <2> QED
      BY <2>1, <2>2
  <1>8. StringsPlaced(p, e)
    <2> SUFFICES ASSUME NEW i \in 1..Len(p), ~IsFinal(p[i])
                 PROVE  Count(p, i) < Len(e) /\ e[Count(p, i) + 1] = <<"display">>
      BY DEF StringsPlaced
    <2>1. CASE i <= Len(o)
      <3>1. i \in 1..Len(o) /\ i \in 0..Len(o) /\ p[i] = o[i] /\ Count(p, i) = Count(o, i)
        BY <1>1, <1>3, <2>1
      <3> QED
        BY <3>1 DEF Ordered, StringsPlaced
    <2>2. CASE i > Len(o)
      <3> DEFINE n == i - Len(o)
      <3>1. n \in 1..Len(b) /\ Len(o) + n = i
        BY <1>1, <2>2
      <3>2. p[i] = b[n]
        BY <1>1, <3>1
      <3>3. n # Len(b)
        BY <1>2, <3>2
      <3>4. n \in 0..(Len(b) - 1) /\ Len(b) > 1
        BY <1>1, <3>1, <3>3
      <3> HIDE DEF n
      <3>5. Count(p, i) = k
        BY <1>3, <3>1, <3>4
      <3> QED
        BY <1>1, <1>4, <1>6, <3>4, <3>5
    <2> QED
      BY <1>1, <2>1, <2>2
  <1> QED
    BY <1>3, <1>6, <1>7, <1>8 DEF Ordered, Awaited, p, t

LEMMA OrderInvStep == TypeInv /\ OrderInv /\ [Next]_vars => OrderInv'
  <1> SUFFICES ASSUME TypeInv, OrderInv, [Next]_vars, peer' = "open"
               PROVE  /\ Ordered(outq', expect')
                      /\ conn' = "open" => Awaited(outq', expect', inq')
    BY DEF OrderInv
  <1>1. /\ outq \in Seq(Replies) /\ expect \in Seq(Requests) /\ inq \in Seq(Requests)
        /\ peer \in {"open", "closed"} /\ conn \in {"open", "gone"}
    BY DEF TypeInv, ExactInv
  <1>2. ASSUME NEW r \in Requests, ClientSend(r)
        PROVE  Ordered(outq', expect') /\ Awaited(outq', expect', inq')
    <2>1. /\ peer = "open" /\ conn = "open" /\ outq' = outq
          /\ inq' = Append(inq, r) /\ expect' = Append(expect, r)
      BY <1>2 DEF ClientSend
    <2> QED
      BY <1>1, <2>1, OrderSend DEF OrderInv
  <1>3. CASE ClientRead
    <2>1. /\ peer = "open" /\ outq # <<>> /\ outq' = Tail(outq)
          /\ expect' = IF IsFinal(Head(outq)) THEN Tail(expect) ELSE expect
          /\ inq' = inq /\ conn' = conn
      BY <1>3 DEF ClientRead, link
    <2>2. /\ Ordered(Tail(outq), expect')
          /\ \A q \in Seq(Requests) : Awaited(outq, expect, q) => Awaited(Tail(outq), expect', q)
      BY <1>1, <2>1, OrderRead DEF OrderInv
    <2> QED
      BY <1>1, <2>1, <2>2 DEF OrderInv
  <1>4. CASE ClientClose
    BY <1>4 DEF ClientClose
  <1>5. CASE Handle
    <2>1. /\ conn = "open" /\ inq # <<>> /\ inq' = Tail(inq) /\ UNCHANGED <<conn, peer, expect>>
          /\ \E b : Answers(b)
      BY <1>5, HandleAnswers DEF TypeInv
    <2>2. PICK b : Answers(b)
      BY <2>1
    <2>3. /\ Block(b) /\ (Len(b) > 1 => Head(inq) = <<"display">>) /\ outq' = outq \o b
      BY <2>1, <2>2 DEF Answers
    <2> QED
      BY <1>1, <2>1, <2>3, OrderAnswer DEF OrderInv
  <1>6. CASE client_destroy \/ Inactivity
    BY <1>6 DEF client_destroy, Inactivity, Destroy, OrderInv
  <1>7. CASE Finished \/ UNCHANGED vars
    BY <1>7 DEF Finished, vars, OrderInv
  <1> QED
    BY <1>2, <1>3, <1>4, <1>5, <1>6, <1>7 DEF Next

(* However far the client pipelines, each handled request has one final    *)
(* reply, in the order of the requests, and strings come only in the       *)
(* answer to display: onrequest neither skips nor doubles an answer.       *)
THEOREM SessionRepliesInOrder == Spec => []RepliesInOrder
  <1>1. Init => OrderInv
    <2> SUFFICES ASSUME Init PROVE Ordered(outq, expect) /\ Awaited(outq, expect, inq)
      BY DEF OrderInv
    <2>1. outq = <<>> /\ expect = <<>> /\ inq = <<>> /\ Len(<<>>) = 0
      BY DEF Init
    <2>2. Finals(outq, 0) = {}
      BY DEF Finals
    <2>3. Count(outq, Len(outq)) = 0
      BY <2>1, <2>2, FS_EmptySet DEF Count
    <2> QED
      BY <2>1, <2>3 DEF Ordered, StringsPlaced, Awaited
  <1>2. TypeInv /\ OrderInv => RepliesInOrder
    <2> SUFFICES ASSUME TypeInv, OrderInv, peer = "open" PROVE RepliesInOrder
      BY DEF RepliesInOrder
    <2>1. outq \in Seq(Replies) /\ expect \in Seq(Requests) /\ inq \in Seq(Requests)
      BY DEF TypeInv, ExactInv
    <2>2. \A n : Rank(n) = Count(outq, n)
      BY DEF Rank, Count, Finals
    <2> DEFINE k == Count(outq, Len(outq))
    <2>3. Len(outq) \in Nat /\ DOMAIN outq = 1..Len(outq) /\ Len(expect) \in Nat
      BY <2>1
    <2>4. k \in Nat /\ k <= Len(expect) /\ StringsPlaced(outq, expect)
      BY <2>3, CountType DEF OrderInv, Ordered
    <2>5. conn = "open" => SubSeq(expect, k + 1, Len(expect)) = inq
      <3> SUFFICES ASSUME conn = "open" PROVE SubSeq(expect, k + 1, Len(expect)) = inq
        OBVIOUS
      <3>1. Len(inq) = Len(expect) - k /\ \A i \in 1..Len(inq) : inq[i] = expect[k + i]
        BY DEF OrderInv, Awaited
      <3> HIDE DEF k
      <3>2. k \in 0..Len(expect)
        BY <2>3, <2>4
      <3> QED
        BY <2>1, <3>1, <3>2, Suffix
    <2> QED
      BY <2>2, <2>3, <2>4, <2>5 DEF RepliesInOrder, StringsPlaced
  <1> QED
    BY <1>1, <1>2, TypeInvInit, TypeInvStep, OrderInvStep, PTL DEF Spec

-----------------------------------------------------------------------------
(* What no step does. *)

(* A context in error state raises nothing more. *)
LEMMA RaiseAgain ==
    ASSUME NEW c \in Contexts, c.error_flag
    PROVE  context_raise_error(c) = c
  BY DEF context_raise_error, Contexts

(* A failed setting command in error state leaves the context alone. *)
LEMMA ConcludeInError ==
    ASSUME NEW cmd, NEW outcome, Conclude(cmd, outcome), Refused(outcome, ctx),
           ctx \in Contexts, ctx.error_flag
    PROVE  ctx' = ctx
  BY RaiseAgain DEF Conclude, Refused, send_error

(* The settings that a handler may record. *)
LEMMA SettingCases ==
    ASSUME ExactInv
    PROVE  /\ OnId => /\ Conclude("id", context_set_id(ctx, Head(inq)[2]))
                      /\ Head(inq) \in Requests /\ Head(inq)[2] \in Ids
           /\ OnPermission => /\ Head(inq)[2] \in Permissions
                              /\ \E nomem \in BOOLEAN : Conclude("permission",
                                    context_add_permission(ctx, Head(inq)[2], nomem))
           /\ OnPath => /\ Head(inq)[2] \in RawPaths
                        /\ \E stat, nomem : nomem \in BOOLEAN /\ Conclude("path",
                              context_add_path(ctx, Head(inq)[2], Head(inq)[3], stat, nomem))
           /\ OnPlug => /\ Head(inq)[2] \in RawPaths /\ Head(inq)[3] \in ImpIds
                        /\ Head(inq)[4] \in RawPaths
                        /\ \E stat, nomem : nomem \in BOOLEAN /\ Conclude("plug",
                              context_add_plug(ctx, Head(inq)[2], Head(inq)[3],
                                               Head(inq)[4], stat, nomem))
  <1>1. ASSUME NEW cmd, Command(cmd) PROVE Head(inq) \in Requests /\ Head(inq)[1] = cmd
    BY <1>1, HandledRequest DEF Command
  <1>2. ASSUME OnId
        PROVE  /\ Conclude("id", context_set_id(ctx, Head(inq)[2]))
               /\ Head(inq) \in Requests /\ Head(inq)[2] \in Ids
    <2>1. Head(inq) \in Requests /\ Head(inq)[1] = "id"
      BY <1>1, <1>2 DEF OnId
    <2>2. Head(inq)[2] \in Ids
      BY <2>1 DEF Requests
    <2> QED
      BY <1>2, <2>1, <2>2 DEF OnId
  <1>3. ASSUME OnPermission PROVE Head(inq)[2] \in Permissions
    <2>1. Head(inq) \in Requests /\ Head(inq)[1] = "permission"
      BY <1>1, <1>3 DEF OnPermission
    <2> QED
      BY <2>1 DEF Requests
  <1>4. ASSUME OnPath PROVE Head(inq)[2] \in RawPaths
    <2>1. Head(inq) \in Requests /\ Head(inq)[1] = "path"
      BY <1>1, <1>4 DEF OnPath
    <2> QED
      BY <2>1 DEF Requests
  <1>5. ASSUME OnPlug
        PROVE  /\ Head(inq)[2] \in RawPaths /\ Head(inq)[3] \in ImpIds
               /\ Head(inq)[4] \in RawPaths
    <2>1. Head(inq) \in Requests /\ Head(inq)[1] = "plug"
      BY <1>1, <1>5 DEF OnPlug
    <2> QED
      BY <2>1, RequestAssumption DEF Requests
  <1> QED
    BY <1>2, <1>3, <1>4, <1>5 DEF OnPermission, OnPath, OnPlug

(* A step in error state. *)
LEMMA ErrorStep ==
    ASSUME TypeInv, [Next]_vars, ctx.error_flag
    PROVE  /\ ctx' = ctx \/ conn' = "gone" \/ (inq # <<>> /\ Head(inq) = <<"clear">>)
           /\ ctx'.error_flag => ctx' = ctx
           /\ applied' \in {applied, NoAction}
  <1>1. ctx \in Contexts
    BY DEF TypeInv, ExactInv, Exact
  <1>2. context_raise_error(ctx) = ctx
    BY <1>1, RaiseAgain
  <1>3. ~context_clear(ctx).error_flag
    BY DEF context_clear
  <1>4. CASE OnHello \/ OnViolation \/ OnLog
    BY <1>2, <1>4 DEF OnHello, OnViolation, OnLog, invalid_protocol, send_error
  <1>5. CASE OnDisplay
    BY <1>2, <1>5 DEF OnDisplay, send_error
  <1>6. CASE OnClear
    <2>1. Head(inq) \in Requests /\ Head(inq)[1] = "clear" /\ inq # <<>>
      BY <1>6, HandledRequest DEF OnClear, Command, Handling, TypeInv
    <2>2. Head(inq) = <<"clear">>
      BY <2>1 DEF Requests
    <2> QED
      BY <1>3, <1>6, <2>1, <2>2 DEF OnClear
  <1>7. CASE OnId
    <2>1. Conclude("id", context_set_id(ctx, Head(inq)[2]))
      BY <1>7, SettingCases DEF TypeInv
    <2>2. Refused(context_set_id(ctx, Head(inq)[2]), ctx)
      BY <1>1, IdOutcome
    <2>3. ctx' = ctx
      BY <1>1, <2>1, <2>2, ConcludeInError
    <2> QED
      BY <1>7, <2>3 DEF OnId
  <1>8. CASE OnPermission
    <2>1. PICK nomem \in BOOLEAN :
             Conclude("permission", context_add_permission(ctx, Head(inq)[2], nomem))
      BY <1>8, SettingCases DEF TypeInv
    <2>2. Refused(context_add_permission(ctx, Head(inq)[2], nomem), ctx)
      BY <1>1, PermissionOutcome
    <2>3. ctx' = ctx
      BY <1>1, <2>1, <2>2, ConcludeInError
    <2> QED
      BY <1>8, <2>3 DEF OnPermission
  <1>9. CASE OnPath
    <2>1. Head(inq)[2] \in RawPaths
      BY <1>9, SettingCases DEF TypeInv
    <2>2. PICK stat, nomem : nomem \in BOOLEAN /\ Conclude("path",
             context_add_path(ctx, Head(inq)[2], Head(inq)[3], stat, nomem))
      BY <1>9, SettingCases DEF TypeInv
    <2>3. Refused(context_add_path(ctx, Head(inq)[2], Head(inq)[3], stat, nomem), ctx)
      BY <1>1, <2>1, <2>2, PathOutcome
    <2>4. ctx' = ctx
      BY <1>1, <2>2, <2>3, ConcludeInError
    <2> QED
      BY <1>9, <2>4 DEF OnPath
  <1>10. CASE OnPlug
    <2>1. /\ Head(inq)[2] \in RawPaths /\ Head(inq)[3] \in IdStrings
          /\ Head(inq)[4] \in RawPaths
      BY <1>10, SettingCases, RequestAssumption DEF TypeInv
    <2>2. PICK stat, nomem : nomem \in BOOLEAN /\ Conclude("plug",
             context_add_plug(ctx, Head(inq)[2], Head(inq)[3], Head(inq)[4], stat, nomem))
      BY <1>10, SettingCases DEF TypeInv
    <2>3. Refused(context_add_plug(ctx, Head(inq)[2], Head(inq)[3], Head(inq)[4], stat, nomem),
                  ctx)
      BY <1>1, <2>1, <2>2, PlugOutcome
    <2>4. ctx' = ctx
      BY <1>1, <2>2, <2>3, ConcludeInError
    <2> QED
      BY <1>10, <2>4 DEF OnPlug
  <1>11. ASSUME NEW cmd, NEW rc, Apply(cmd, rc), rc = "ok" => check_context(ctx) = "ok"
         PROVE  ctx' = ctx /\ applied' = NoAction
    <2>1. rc # "ok"
      BY <1>11, CheckedHasNoError
    <2>2. Conclude(cmd, Outcome(rc, ctx)) /\ applied' = NoAction
      BY <1>11, <2>1 DEF Apply
    <2>3. Refused(Outcome(rc, ctx), ctx)
      BY <2>1 DEF Refused, Outcome
    <2> QED
      BY <1>1, <2>2, <2>3, ConcludeInError
  <1>12. CASE OnInstall \/ OnUninstall
    BY <1>11, <1>12, InstallChecks DEF OnInstall, OnUninstall
  <1>13. CASE client_destroy \/ Inactivity
    BY <1>3, <1>13 DEF client_destroy, Inactivity, Destroy
  <1>14. CASE \/ \E r \in Requests : ClientSend(r)
              \/ ClientRead \/ ClientClose \/ Finished \/ UNCHANGED vars
    BY <1>14 DEF ClientSend, ClientRead, ClientClose, Finished, vars
  <1> QED
    BY <1>4, <1>5, <1>6, <1>7, <1>8, <1>9, <1>10, <1>12, <1>13, <1>14 DEF Next, Handle

(* The error state lasts until clear or the end of the connection, and     *)
(* meanwhile no setting is taken and nothing reaches the system.           *)
THEOREM SessionErrorUntilClear == Spec => ErrorUntilClear
  <1> DEFINE A == ctx.error_flag =>
                     /\ ~ctx'.error_flag =>
                           conn' = "gone" \/ (inq # <<>> /\ Head(inq) = <<"clear">>)
                     /\ ctx'.error_flag => ctx' = ctx
                     /\ applied' \in {applied, NoAction}
  <1>1. TypeInv /\ [Next]_vars => A
    <2> SUFFICES ASSUME TypeInv, [Next]_vars, ctx.error_flag PROVE A
      OBVIOUS
    <2> QED
      BY ErrorStep
  <1>2. TypeInv /\ [Next]_vars => [A]_vars
    BY <1>1
  <1>3. ErrorUntilClear <=> [][A]_vars
    BY DEF ErrorUntilClear
  <1> QED
    BY <1>2, <1>3, TypeInvInit, TypeInvStep, PTL DEF Spec

(* Requests pipelined after a violation of the protocol are not executed.  *)
THEOREM SessionNothingAfterViolation == Spec => NothingAfterViolation
  <1> DEFINE A == invalid => /\ UNCHANGED <<applied, log, version, invalid>>
                             /\ conn' = "open" => UNCHANGED ctx
  <1>1. [Next]_vars => A
    <2> SUFFICES ASSUME [Next]_vars, invalid PROVE A
      OBVIOUS
    <2>1. ~Handle
      BY DEF Handle, OnHello, OnViolation, OnClear, OnDisplay, OnLog, OnId, OnPermission,
             OnPath, OnPlug, OnInstall, OnUninstall, Command, Handling
    <2> QED
      BY <2>1 DEF Next, ClientSend, ClientRead, ClientClose, client_destroy, Inactivity,
                  Destroy, Finished, vars
  <1>2. [Next]_vars => [A]_vars
    BY <1>1
  <1>3. NothingAfterViolation <=> [][A]_vars
    BY DEF NothingAfterViolation
  <1> QED
    BY <1>2, <1>3, PTL DEF Spec

-----------------------------------------------------------------------------
(* The refinement.  The properties of the abstract session are those that  *)
(* context_visit gives; how each change of a context changes them.         *)
Props(c) == Items(context_visit(c))
IdProps(c) == IF has_id(c) THEN {<<"id", StringOf(c.id)>>} ELSE {}
PathProps(c) == {<<"path", c.paths[i]>> : i \in DOMAIN c.paths}
PermissionProps(c) == {<<"permission", c.permissions[i]>> : i \in DOMAIN c.permissions}
PlugProps(c) == {<<"plug", c.plugs[i]>> : i \in DOMAIN c.plugs}

LEMMA PropsParts ==
    ASSUME NEW c \in Contexts
    PROVE  Props(c) = IdProps(c) \cup PathProps(c) \cup PermissionProps(c) \cup PlugProps(c)
  BY VisitItems DEF Props, IdProps, PathProps, PermissionProps, PlugProps

LEMMA RaiseProps == ASSUME NEW c \in Contexts PROVE Props(context_raise_error(c)) = Props(c)
  BY RaiseFacts DEF Props, context_visit, has_id

(* A context without settings. *)
LEMMA NoProps ==
    ASSUME NEW c \in Contexts, c.id[0] = NUL, c.paths = <<>>, c.permissions = <<>>, c.plugs = <<>>
    PROVE  Props(c) = {}
  BY PropsParts DEF has_id, IdProps, PathProps, PermissionProps, PlugProps

LEMMA InitProps ==
    ASSUME NEW last \in IdBytes
    PROVE  Props(context_init(last)) = {} /\ context_init(last).error_flag = FALSE
  <1> DEFINE c == context_init(last)
  <1>1. c \in Contexts
    BY ExactInit DEF Exact
  <1>2. /\ c.id[0] = NUL /\ c.paths = <<>> /\ c.permissions = <<>> /\ c.plugs = <<>>
        /\ c.error_flag = FALSE
    BY SizeAssumption DEF context_init
  <1> HIDE DEF c
  <1> QED
    BY <1>1, <1>2, NoProps DEF c

LEMMA ClearProps ==
    ASSUME NEW c, Exact(c)
    PROVE  Props(context_clear(c)) = {} /\ context_clear(c).error_flag = FALSE
  <1> DEFINE d == context_clear(c)
  <1>1. d \in Contexts
    BY ExactClear DEF Exact
  <1>2. /\ d.id[0] = NUL /\ d.paths = <<>> /\ d.permissions = <<>> /\ d.plugs = <<>>
        /\ d.error_flag = FALSE
    BY SizeAssumption DEF context_clear, Exact, Contexts, IdBuffers
  <1> HIDE DEF d
  <1> QED
    BY <1>1, <1>2, NoProps DEF d

(* The identifier read back is the one sent, followed by what the buffer   *)
(* had after it.                                                           *)
LEMMA ReadBack ==
    ASSUME NEW id \in Ids, context_is_valid_id(id), NEW b \in IdBuffers
    PROVE  /\ setids(id, b) \in IdBuffers /\ setids(id, b)[0] # NUL
           /\ StringOf(setids(id, b)) \in IdReadings
  <1> DEFINE w == setids(id, b)
             s == StringOf(w)
             n == Len(s)
  <1>1. /\ id \in Seq(IdChars \cup {BadChar}) /\ Len(id) \in 1..MAX_SIZE_ID
        /\ \A i \in 1..Len(id) : id[i] \in IdChars
    BY RequestAssumption, SizeAssumption DEF IdStrings, context_is_valid_id
  <1>2. w \in IdBuffers
    BY <1>1, SizeAssumption DEF setids, IdBuffers, IdBytes
  <1>3. \A i \in 0..(Len(id) - 1) : w[i] = id[i + 1] /\ w[i] # NUL
    BY <1>1, SizeAssumption, ValueAssumption DEF setids
  <1> HIDE DEF w
  <1>4. /\ s \in Seq(IdBytes) /\ \A i \in 1..n : s[i] = w[i - 1] /\ w[i - 1] # NUL
        /\ n \in 0..(MAX_SIZE_ID + 1) /\ (n \in DOMAIN w => w[n] = NUL)
    BY <1>2, StringFacts
  <1> HIDE DEF s
  <1>5. s \in [1..n -> IdChars]
    <2>1. \A i \in 1..n : s[i] \in IdBytes /\ s[i] # NUL
      BY <1>4
    <2>2. \A i \in 1..n : s[i] \in IdChars
      BY <2>1 DEF IdBytes
    <2>3. s \in [1..n -> IdBytes]
      BY <1>4
    <2> QED
      BY <2>2, <2>3
  <1>6. n \in Nat /\ n \in 0..MAX_SIZE_ID + 1
    BY <1>4, SizeAssumption
  <1>7. Len(id) <= n
    <2> SUFFICES ASSUME n < Len(id) PROVE FALSE
      BY <1>1, <1>6, SizeAssumption
    <2>1. n \in 0..(Len(id) - 1) /\ n \in 0..MAX_SIZE_ID
      BY <1>1, <1>6, SizeAssumption
    <2>2. w[n] = NUL
      BY <1>2, <1>4, <2>1 DEF IdBuffers
    <2> QED
      BY <1>3, <2>1, <2>2
  <1>8. SubSeq(s, 1, Len(id)) = id
    <2> DEFINE u == SubSeq(s, 1, Len(id))
               T == IdChars \cup {BadChar, NUL}
    <2>1. u \in Seq(IdBytes) /\ Len(u) = Len(id) /\ \A i \in 1..Len(id) : u[i] = s[i]
      BY <1>1, <1>4, <1>6, <1>7, SizeAssumption
    <2> HIDE DEF u
    <2>2. \A i \in 1..Len(id) : u[i] = id[i]
      <3> TAKE i \in 1..Len(id)
      <3>1. i \in 1..n /\ i - 1 \in 0..(Len(id) - 1) /\ (i - 1) + 1 = i
        BY <1>1, <1>6, <1>7, SizeAssumption
      <3> QED
        BY <1>3, <1>4, <2>1, <3>1
    <2>3. u \in Seq(T) /\ id \in Seq(T)
      BY <1>1, <2>1 DEF IdBytes
    <2>4. u = id
      BY <2>1, <2>2, <2>3
    <2> QED
      BY <2>4 DEF u
  <1>9. s \in UNION {[1..k -> IdChars] : k \in 0..MAX_SIZE_ID + 1}
    <2> HIDE DEF n
    <2> QED
      BY <1>5, <1>6
  <1>10. s \in IdReadings
    BY <1>7, <1>8, <1>9 DEF IdReadings
  <1>11. w[0] # NUL
    BY <1>1, <1>3
  <1> QED
    BY <1>2, <1>10, <1>11 DEF w, s

(* A setting taken adds one property, in conflict with none. *)
Adds(c, d, p) ==
    /\ p \in AllProperties /\ Props(d) = Props(c) \cup {p}
    /\ \A q \in Props(c) : ~InConflict(p, q)
    /\ ~c.error_flag /\ d.error_flag = c.error_flag

LEMMA IdAdds ==
    ASSUME NEW c \in Contexts, NEW id \in Ids, context_is_valid_id(id), ~has_id(c),
           ~c.error_flag
    PROVE  \E p : Adds(c, WithId(c, id), p)
  <1> DEFINE d == WithId(c, id)
             p == <<"id", StringOf(d.id)>>
  <1>1. id \in IdStrings
    BY RequestAssumption
  <1>2. /\ d \in Contexts /\ d.id = setids(id, c.id) /\ d.paths = c.paths
        /\ d.permissions = c.permissions /\ d.plugs = c.plugs
        /\ d.error_flag = c.error_flag
    BY <1>1, WithIdFacts
  <1>3. c.id \in IdBuffers
    BY DEF Contexts
  <1>4. d.id[0] # NUL /\ StringOf(d.id) \in IdReadings
    BY <1>2, <1>3, ReadBack
  <1> HIDE DEF d
  <1>5. p \in AllProperties
    BY <1>4 DEF AllProperties
  <1>6. Props(d) = Props(c) \cup {p}
    <2>1. IdProps(d) = {p} /\ IdProps(c) = {}
      BY <1>4 DEF IdProps, has_id
    <2>2. /\ PathProps(d) = PathProps(c) /\ PermissionProps(d) = PermissionProps(c)
          /\ PlugProps(d) = PlugProps(c)
      BY <1>2 DEF PathProps, PermissionProps, PlugProps
    <2> HIDE DEF p
    <2> QED
      BY <1>2, <2>1, <2>2, PropsParts
  <1>7. \A q \in Props(c) : q[1] # "id"
    <2>1. IdProps(c) = {}
      BY DEF IdProps
    <2> QED
      BY <2>1, PropsParts DEF PathProps, PermissionProps, PlugProps
  <1>8. p[1] = "id"
    OBVIOUS
  <1> HIDE DEF p
  <1>9. \A q \in Props(c) : ~InConflict(p, q)
    BY <1>7, <1>8 DEF InConflict
  <1>10. Adds(c, d, p)
    BY <1>2, <1>5, <1>6, <1>9 DEF Adds
  <1> QED
    BY <1>10 DEF d

LEMMA PermissionAdds ==
    ASSUME NEW c \in Contexts, NEW x \in Permissions, ~permission_set_has(c, x), ~c.error_flag
    PROVE  \E p : Adds(c, WithPermission(c, x), p)
  <1> DEFINE d == WithPermission(c, x)
             p == <<"permission", x>>
             s == c.permissions
  <1>1. /\ d \in Contexts /\ d.id = c.id /\ d.paths = c.paths
        /\ d.permissions = Append(s, x) /\ d.plugs = c.plugs
        /\ d.error_flag = c.error_flag
    BY WithPermissionFacts
  <1> HIDE DEF d
  <1>2. p \in AllProperties
    BY DEF AllProperties
  <1>3. PermissionProps(d) = PermissionProps(c) \cup {p}
    <2> DEFINE t == Append(s, x)
               k == Len(s) + 1
    <2>1. s \in Seq(Permissions)
      BY DEF Contexts
    <2>2. DOMAIN t = DOMAIN s \cup {k} /\ t[k] = x /\ \A i \in DOMAIN s : t[i] = s[i]
      BY <2>1, Appended
    <2> HIDE DEF t, k
    <2>3. PermissionProps(d) = {<<"permission", t[i]>> : i \in DOMAIN t}
      BY <1>1 DEF PermissionProps, t
    <2>4. {<<"permission", t[i]>> : i \in DOMAIN t}
          = {<<"permission", s[i]>> : i \in DOMAIN s} \cup {<<"permission", x>>}
      BY <2>2
    <2> QED
      BY <2>3, <2>4 DEF PermissionProps
  <1>4. /\ IdProps(d) = IdProps(c) /\ PathProps(d) = PathProps(c)
        /\ PlugProps(d) = PlugProps(c)
    BY <1>1 DEF IdProps, PathProps, PlugProps, has_id
  <1>5. Props(d) = Props(c) \cup {p}
    <2> HIDE DEF p
    <2> QED
      BY <1>1, <1>3, <1>4, PropsParts
  <1>6. \A q \in Props(c) : q[1] = "permission" => FoldCase[q[2]] # FoldCase[x]
    <2>1. \A q \in PermissionProps(c) : FoldCase[q[2]] # FoldCase[x]
      BY DEF PermissionProps, permission_set_has
    <2>2. \A q \in IdProps(c) \cup PathProps(c) \cup PlugProps(c) : q[1] # "permission"
      BY DEF IdProps, PathProps, PlugProps
    <2> QED
      BY <2>1, <2>2, PropsParts
  <1>7. p[1] = "permission" /\ p[2] = x
    OBVIOUS
  <1> HIDE DEF p
  <1>8. \A q \in Props(c) : ~InConflict(p, q)
    BY <1>6, <1>7 DEF InConflict
  <1>9. Adds(c, d, p)
    BY <1>1, <1>2, <1>5, <1>8 DEF Adds
  <1> QED
    BY <1>9 DEF d

LEMMA PathAdds ==
    ASSUME NEW c \in Contexts, NEW x \in PathItems, ~path_set_has(c, x.path), ~c.error_flag
    PROVE  \E p : Adds(c, WithPath(c, x), p)
  <1> DEFINE d == WithPath(c, x)
             p == <<"path", x>>
             s == c.paths
  <1>1. /\ d \in Contexts /\ d.id = c.id /\ d.permissions = c.permissions
        /\ d.paths = Append(s, x) /\ d.plugs = c.plugs
        /\ d.error_flag = c.error_flag
    BY WithPathFacts
  <1> HIDE DEF d
  <1>2. p \in AllProperties
    BY DEF AllProperties
  <1>3. PathProps(d) = PathProps(c) \cup {p}
    <2> DEFINE t == Append(s, x)
               k == Len(s) + 1
    <2>1. s \in Seq(PathItems)
      BY DEF Contexts
    <2>2. DOMAIN t = DOMAIN s \cup {k} /\ t[k] = x /\ \A i \in DOMAIN s : t[i] = s[i]
      BY <2>1, Appended
    <2> HIDE DEF t, k
    <2>3. PathProps(d) = {<<"path", t[i]>> : i \in DOMAIN t}
      BY <1>1 DEF PathProps, t
    <2>4. {<<"path", t[i]>> : i \in DOMAIN t}
          = {<<"path", s[i]>> : i \in DOMAIN s} \cup {<<"path", x>>}
      BY <2>2
    <2> QED
      BY <2>3, <2>4 DEF PathProps
  <1>4. /\ IdProps(d) = IdProps(c) /\ PermissionProps(d) = PermissionProps(c)
        /\ PlugProps(d) = PlugProps(c)
    BY <1>1 DEF IdProps, PermissionProps, PlugProps, has_id
  <1>5. Props(d) = Props(c) \cup {p}
    <2> HIDE DEF p
    <2> QED
      BY <1>1, <1>3, <1>4, PropsParts
  <1>6. \A q \in Props(c) : q[1] = "path" => q[2].path # x.path
    <2>1. \A q \in PathProps(c) : q[2].path # x.path
      BY DEF PathProps, path_set_has
    <2>2. \A q \in IdProps(c) \cup PermissionProps(c) \cup PlugProps(c) : q[1] # "path"
      BY DEF IdProps, PermissionProps, PlugProps
    <2> QED
      BY <2>1, <2>2, PropsParts
  <1>7. p[1] = "path" /\ p[2] = x
    OBVIOUS
  <1> HIDE DEF p
  <1>8. \A q \in Props(c) : ~InConflict(p, q)
    BY <1>6, <1>7 DEF InConflict
  <1>9. Adds(c, d, p)
    BY <1>1, <1>2, <1>5, <1>8 DEF Adds
  <1> QED
    BY <1>9 DEF d

LEMMA PlugAdds ==
    ASSUME NEW c \in Contexts, NEW x \in PlugItems, x.impid \in ImpIds,
           ~plugset_has(c, x.impdir), ~c.error_flag
    PROVE  \E p : Adds(c, WithPlug(c, x), p)
  <1> DEFINE d == WithPlug(c, x)
             p == <<"plug", x>>
             s == c.plugs
  <1>1. /\ d \in Contexts /\ d.id = c.id /\ d.permissions = c.permissions
        /\ d.plugs = <<x>> \o s /\ d.paths = c.paths
        /\ d.error_flag = c.error_flag
    BY WithPlugFacts
  <1> HIDE DEF d
  <1>2. p \in AllProperties
    <2>1. x = [expdir |-> x.expdir, impid |-> x.impid, impdir |-> x.impdir]
          /\ x.expdir \in Paths /\ x.impdir \in Paths
      BY DEF PlugItems
    <2> QED
      BY <2>1 DEF AllProperties
  <1>3. PlugProps(d) = PlugProps(c) \cup {p}
    <2> DEFINE t == <<x>> \o s
    <2>1. s \in Seq(PlugItems)
      BY DEF Contexts
    <2>2. /\ DOMAIN s = 1..Len(s) /\ Len(s) \in Nat /\ DOMAIN t = 1..(Len(s) + 1)
          /\ t[1] = x /\ \A i \in 2..(Len(s) + 1) : t[i] = s[i - 1]
      BY <2>1, Prepended
    <2> HIDE DEF t, s
    <2>3. PlugProps(d) = {<<"plug", t[i]>> : i \in DOMAIN t}
      BY <1>1 DEF PlugProps, t
    <2>4. ASSUME NEW i \in DOMAIN t
          PROVE  t[i] = x \/ \E j \in DOMAIN s : t[i] = s[j]
      <3>1. i = 1 \/ (i \in 2..(Len(s) + 1) /\ i - 1 \in DOMAIN s)
        BY <2>2
      <3> QED
        BY <2>2, <3>1
    <2>5. ASSUME NEW j \in DOMAIN s
          PROVE  \E i \in DOMAIN t : t[i] = s[j]
      <3>1. j + 1 \in DOMAIN t /\ j + 1 \in 2..(Len(s) + 1) /\ (j + 1) - 1 = j
        BY <2>2
      <3> QED
        BY <2>2, <3>1
    <2>6. \E i \in DOMAIN t : t[i] = x
      BY <2>2
    <2>7. {<<"plug", t[i]>> : i \in DOMAIN t}
          = {<<"plug", s[i]>> : i \in DOMAIN s} \cup {<<"plug", x>>}
      BY <2>4, <2>5, <2>6
    <2> QED
      BY <2>3, <2>7 DEF PlugProps, s
  <1>4. /\ IdProps(d) = IdProps(c) /\ PermissionProps(d) = PermissionProps(c)
        /\ PathProps(d) = PathProps(c)
    BY <1>1 DEF IdProps, PermissionProps, PathProps, has_id
  <1>5. Props(d) = Props(c) \cup {p}
    <2> HIDE DEF p
    <2> QED
      BY <1>1, <1>3, <1>4, PropsParts
  <1>6. \A q \in Props(c) : q[1] = "plug" => q[2].impdir # x.impdir
    <2>1. \A q \in PlugProps(c) : q[2].impdir # x.impdir
      BY DEF PlugProps, plugset_has
    <2>2. \A q \in IdProps(c) \cup PermissionProps(c) \cup PathProps(c) : q[1] # "plug"
      BY DEF IdProps, PermissionProps, PathProps
    <2> QED
      BY <2>1, <2>2, PropsParts
  <1>7. p[1] = "plug" /\ p[2] = x
    OBVIOUS
  <1> HIDE DEF p
  <1>8. \A q \in Props(c) : ~InConflict(p, q)
    BY <1>6, <1>7 DEF InConflict
  <1>9. Adds(c, d, p)
    BY <1>1, <1>2, <1>5, <1>8 DEF Adds
  <1> QED
    BY <1>9 DEF d

(* Nothing was given to the system. *)
LEMMA NothingDone ==
    ASSUME NEW a, a = NoAction
    PROVE  <<a[1], Items(a[2])>> = <<"none", {}>>
  <1>1. a[1] = "none" /\ a[2] = <<>>
    BY DEF NoAction
  <1>2. Items(a[2]) = {}
    BY <1>1 DEF Items
  <1> QED
    BY <1>1, <1>2

(* A refusal is Fail, a setting taken is Accept. *)
LEMMA FailMaps ==
    ASSUME conn = "open", conn' = conn, applied' = NoAction, ctx \in Contexts,
           ctx' = context_raise_error(ctx)
    PROVE  Abstract!ANext
  <1>1. Props(ctx') = Props(ctx) /\ ctx'.error_flag = TRUE
    BY RaiseProps, RaiseFacts
  <1>2. <<applied'[1], Items(applied'[2])>> = <<"none", {}>>
    BY NothingDone
  <1>3. Abstract!Fail
    BY <1>1, <1>2 DEF Abstract!Fail, Abstract!Nothing, Props
  <1> QED
    BY <1>3 DEF Abstract!ANext

LEMMA AcceptMaps ==
    ASSUME conn = "open", conn' = conn, applied' = NoAction, NEW p, Adds(ctx, ctx', p)
    PROVE  Abstract!ANext
  <1>1. <<applied'[1], Items(applied'[2])>> = <<"none", {}>>
    BY NothingDone
  <1>2. Abstract!Accept(p)
    BY <1>1 DEF Abstract!Accept, Abstract!Nothing, Props, Adds
  <1>3. p \in AllProperties
    BY DEF Adds
  <1> QED
    BY <1>2, <1>3 DEF Abstract!ANext

LEMMA InformMaps ==
    ASSUME conn = "open", conn' = conn, applied' = NoAction, ctx' = ctx
    PROVE  Abstract!ANext
  <1>1. <<applied'[1], Items(applied'[2])>> = <<"none", {}>>
    BY NothingDone
  <1>2. Abstract!Inform
    BY <1>1 DEF Abstract!Inform, Abstract!Nothing
  <1> QED
    BY <1>2 DEF Abstract!ANext

LEMMA ResetMaps ==
    ASSUME conn = "open", conn' = conn, applied' = NoAction, Exact(ctx),
           ctx' = context_clear(ctx)
    PROVE  Abstract!ANext
  <1>1. Props(ctx') = {} /\ ctx'.error_flag = FALSE
    BY ClearProps
  <1>2. <<applied'[1], Items(applied'[2])>> = <<"none", {}>>
    BY NothingDone
  <1>3. Abstract!Reset
    BY <1>1, <1>2 DEF Abstract!Reset, Abstract!Nothing, Props
  <1> QED
    BY <1>3 DEF Abstract!ANext

LEMMA CloseMaps ==
    ASSUME conn = "open", conn' = "gone", applied' = applied, Exact(ctx),
           ctx' = context_clear(ctx)
    PROVE  Abstract!ANext
  <1>1. Props(ctx') = {} /\ ctx'.error_flag = FALSE
    BY ClearProps
  <1>2. Abstract!Close
    BY <1>1 DEF Abstract!Close, Props
  <1> QED
    BY <1>2 DEF Abstract!ANext

(* An action that passed the checks is Act. *)
LEMMA ActMaps ==
    ASSUME conn = "open", conn' = conn, Exact(ctx), check_context(ctx) = "ok",
           NEW cmd \in {"install", "uninstall"}, applied' = <<cmd, context_visit(ctx)>>,
           ctx' = ctx \/ ctx' = context_raise_error(ctx)
    PROVE  Abstract!ANext
  <1>1. ctx \in Contexts /\ ~ctx.error_flag /\ (has_id(ctx) \/ ~ctx.need_id)
    BY CheckedHasNoError DEF Exact
  <1>2. Props(ctx') = Props(ctx) /\ ctx'.error_flag \in BOOLEAN
    <2>1. context_raise_error(ctx) \in Contexts /\ Props(context_raise_error(ctx)) = Props(ctx)
      BY <1>1, RaiseFacts, RaiseProps
    <2>2. \A c \in Contexts : c.error_flag \in BOOLEAN
      BY DEF Contexts
    <2> QED
      BY <1>1, <2>1, <2>2
  <1>3. <<applied'[1], Items(applied'[2])>> = <<cmd, Props(ctx)>>
    BY DEF Props
  <1>4. (\E p \in Props(ctx) : p[1] = "id") \/ \A p \in Props(ctx) : ~WantsId(p)
    <2>1. CASE has_id(ctx)
      <3>1. <<"id", StringOf(ctx.id)>> \in Props(ctx)
        BY <1>1, <2>1, PropsParts DEF IdProps
      <3> QED
        BY <3>1
    <2>2. CASE ~ctx.need_id /\ ~has_id(ctx)
      <3>1. ctx.permissions = <<>> /\ ctx.plugs = <<>>
            /\ \A i \in DOMAIN ctx.paths : ctx.paths[i].type = "default"
        BY <2>2 DEF Exact, NeedsId
      <3>2. IdProps(ctx) = {} /\ PermissionProps(ctx) = {} /\ PlugProps(ctx) = {}
        BY <2>2, <3>1 DEF IdProps, PermissionProps, PlugProps
      <3>3. \A p \in PathProps(ctx) : p[1] = "path" /\ p[2].type = "default"
        BY <3>1 DEF PathProps
      <3>4. Props(ctx) = PathProps(ctx)
        BY <1>1, <3>2, PropsParts
      <3> QED
        BY <3>3, <3>4 DEF WantsId
    <2> QED
      BY <1>1, <2>1, <2>2
  <1>5. Abstract!Act(cmd)
    BY <1>1, <1>2, <1>3, <1>4 DEF Abstract!Act, Abstract!Identified, Props
  <1> QED
    BY <1>5 DEF Abstract!ANext

(* The common end of the setting commands. *)
LEMMA ConcludeMaps ==
    ASSUME conn = "open", conn' = conn, applied' = NoAction, ctx \in Contexts,
           NEW cmd, NEW outcome, Conclude(cmd, outcome),
           Refused(outcome, ctx) \/ \E d : Taken(outcome, d) /\ \E p : Adds(ctx, d, p)
    PROVE  Abstract!ANext
  <1>1. CASE Refused(outcome, ctx)
    <2>1. ctx' = context_raise_error(ctx)
      BY <1>1 DEF Refused, Conclude, send_error
    <2> QED
      BY <2>1, FailMaps
  <1>2. ASSUME NEW d, Taken(outcome, d), NEW p, Adds(ctx, d, p)
        PROVE  Abstract!ANext
    <2>1. ctx' = d
      BY <1>2 DEF Taken, Conclude
    <2> QED
      BY <1>2, <2>1, AcceptMaps
  <1> QED
    BY <1>1, <1>2

(* Every handler is a step of the abstract session. *)
LEMMA HandleMaps == ASSUME ExactInv, Handle PROVE Abstract!ANext
  <1>1. conn = "open" /\ conn' = conn /\ Exact(ctx) /\ ctx \in Contexts
    BY HandleAnswers DEF ExactInv, Exact
  <1>2. CASE ctx' = context_raise_error(ctx) /\ applied' = NoAction
    BY <1>1, <1>2, FailMaps
  <1>3. CASE ctx' = ctx /\ applied' = NoAction
    BY <1>1, <1>3, InformMaps
  <1>4. CASE OnHello \/ OnViolation \/ OnLog
    <2>1. (ctx' = context_raise_error(ctx) \/ ctx' = ctx) /\ applied' = NoAction
      BY <1>4 DEF OnHello, OnViolation, OnLog, invalid_protocol, send_error
    <2> QED
      BY <1>2, <1>3, <2>1
  <1>5. CASE OnDisplay
    <2>1. (ctx' = context_raise_error(ctx) \/ ctx' = ctx) /\ applied' = NoAction
      BY <1>5 DEF OnDisplay, send_error
    <2> QED
      BY <1>2, <1>3, <2>1
  <1>6. CASE OnClear
    <2>1. ctx' = context_clear(ctx) /\ applied' = NoAction
      BY <1>6 DEF OnClear
    <2> QED
      BY <1>1, <2>1, ResetMaps
  <1>7. CASE OnId
    <2> DEFINE id == Head(inq)[2]
               o == context_set_id(ctx, id)
    <2>1. Conclude("id", o) /\ id \in Ids /\ applied' = NoAction
      BY <1>7, SettingCases DEF OnId
    <2>2. Refused(o, ctx) \/ \E d : Taken(o, d) /\ \E p : Adds(ctx, d, p)
      BY <1>1, <2>1, IdOutcome, IdAdds
    <2> HIDE DEF o
    <2> QED
      BY <1>1, <2>1, <2>2, ConcludeMaps
  <1>8. CASE OnPermission
    <2> DEFINE x == Head(inq)[2]
    <2>1. PICK nomem \in BOOLEAN : Conclude("permission", context_add_permission(ctx, x, nomem))
      BY <1>8, SettingCases
    <2> DEFINE o == context_add_permission(ctx, x, nomem)
    <2>2. Conclude("permission", o) /\ x \in Permissions /\ applied' = NoAction
      BY <1>8, <2>1, SettingCases DEF OnPermission
    <2>3. Refused(o, ctx) \/ \E d : Taken(o, d) /\ \E p : Adds(ctx, d, p)
      BY <1>1, <2>2, PermissionOutcome, PermissionAdds
    <2> HIDE DEF o
    <2> QED
      BY <1>1, <2>2, <2>3, ConcludeMaps
  <1>9. CASE OnPath
    <2> DEFINE raw == Head(inq)[2]
               type == Head(inq)[3]
               x == [path |-> StdPath[raw], type |-> type]
    <2>1. PICK stat, nomem : nomem \in BOOLEAN /\
             Conclude("path", context_add_path(ctx, raw, type, stat, nomem))
      BY <1>9, SettingCases
    <2> DEFINE o == context_add_path(ctx, raw, type, stat, nomem)
    <2>2. Conclude("path", o) /\ raw \in RawPaths /\ applied' = NoAction
      BY <1>9, <2>1, SettingCases DEF OnPath
    <2>3. \/ Refused(o, ctx)
          \/ /\ Taken(o, WithPath(ctx, x)) /\ ~ctx.error_flag
             /\ ~path_set_has(ctx, StdPath[raw]) /\ x \in PathItems
      BY <1>1, <2>1, <2>2, PathOutcome
    <2>4. x.path = StdPath[raw]
      OBVIOUS
    <2> HIDE DEF o, x
    <2>5. Refused(o, ctx) \/ \E d : Taken(o, d) /\ \E p : Adds(ctx, d, p)
      BY <1>1, <2>3, <2>4, PathAdds
    <2> QED
      BY <1>1, <2>2, <2>5, ConcludeMaps
  <1>10. CASE OnPlug
    <2> DEFINE e == Head(inq)[2]
               i == Head(inq)[3]
               m == Head(inq)[4]
               x == [expdir |-> StdPath[e], impid |-> i, impdir |-> StdPath[m]]
    <2>1. PICK stat, nomem : nomem \in BOOLEAN /\
             Conclude("plug", context_add_plug(ctx, e, i, m, stat, nomem))
      BY <1>10, SettingCases
    <2> DEFINE o == context_add_plug(ctx, e, i, m, stat, nomem)
    <2>2. /\ Conclude("plug", o) /\ e \in RawPaths /\ m \in RawPaths /\ i \in ImpIds
          /\ applied' = NoAction
      BY <1>10, <2>1, SettingCases DEF OnPlug
    <2>3. \/ Refused(o, ctx)
          \/ /\ Taken(o, WithPlug(ctx, x)) /\ ~ctx.error_flag
             /\ ~plugset_has(ctx, StdPath[m]) /\ x \in PlugItems
      BY <1>1, <2>1, <2>2, PlugOutcome, RequestAssumption
    <2>4. x.impdir = StdPath[m] /\ x.impid = i
      OBVIOUS
    <2> HIDE DEF o, x
    <2>5. Refused(o, ctx) \/ \E d : Taken(o, d) /\ \E p : Adds(ctx, d, p)
      BY <1>1, <2>2, <2>3, <2>4, PlugAdds
    <2> QED
      BY <1>1, <2>2, <2>5, ConcludeMaps
  <1>11. ASSUME NEW cmd \in {"install", "uninstall"}, NEW rc, Apply(cmd, rc),
                rc = "ok" => check_context(ctx) = "ok"
         PROVE  Abstract!ANext
    <2>1. \A r : Outcome(r, ctx).ctx = ctx /\ Outcome(r, ctx).rc = r
      BY DEF Outcome
    <2>2. CASE rc # "ok"
      <3>1. Conclude(cmd, Outcome(rc, ctx)) /\ applied' = NoAction
        BY <1>11, <2>2 DEF Apply
      <3>2. ctx' = context_raise_error(ctx)
        BY <2>1, <2>2, <3>1 DEF Conclude, send_error
      <3> QED
        BY <1>2, <3>1, <3>2
    <2>3. CASE rc = "ok"
      <3>1. /\ applied' = <<cmd, context_visit(ctx)>>
            /\ \E result \in {"ok", "EIO"} : Conclude(cmd, Outcome(result, ctx))
        BY <1>11, <2>3 DEF Apply
      <3>2. ctx' = ctx \/ ctx' = context_raise_error(ctx)
        BY <2>1, <3>1 DEF Conclude, send_error
      <3> QED
        BY <1>1, <1>11, <2>3, <3>1, <3>2, ActMaps
    <2> QED
      BY <2>2, <2>3
  <1>12. CASE OnInstall \/ OnUninstall
    BY <1>11, <1>12, InstallChecks DEF OnInstall, OnUninstall
  <1> QED
    BY <1>4, <1>5, <1>6, <1>7, <1>8, <1>9, <1>10, <1>12 DEF Handle

LEMMA StepMaps == ExactInv /\ [Next]_vars => [Abstract!ANext]_(Abstract!avars)
  <1> SUFFICES ASSUME ExactInv, [Next]_vars PROVE [Abstract!ANext]_(Abstract!avars)
    OBVIOUS
  <1>1. CASE Handle
    BY <1>1, HandleMaps
  <1>2. CASE client_destroy \/ Inactivity
    <2>1. conn = "open" /\ conn' = "gone" /\ ctx' = context_clear(ctx) /\ applied' = applied
      BY <1>2 DEF client_destroy, Inactivity, Destroy
    <2> QED
      BY <2>1, CloseMaps DEF ExactInv
  <1>3. CASE \/ \E r \in Requests : ClientSend(r)
             \/ ClientRead \/ ClientClose \/ Finished \/ UNCHANGED vars
    <2>1. ctx' = ctx /\ conn' = conn /\ applied' = applied
      BY <1>3 DEF ClientSend, ClientRead, ClientClose, Finished, vars, link
    <2> QED
      BY <2>1 DEF Abstract!avars
  <1> QED
    BY <1>1, <1>2, <1>3 DEF Next

(* A session is an abstract session: the context holds exactly the         *)
(* properties acknowledged since the last clear, a refusal changes nothing *)
(* but the error state, and an action applies what was acknowledged.       *)
THEOREM SessionImplementsAbstract == Spec => ImplementsAbstract
  <1>1. Init => Abstract!AInit
    <2> SUFFICES ASSUME Init PROVE Abstract!AInit
      OBVIOUS
    <2>1. PICK last \in IdBytes : ctx = context_init(last)
      BY DEF Init
    <2>2. Props(ctx) = {} /\ ctx.error_flag = FALSE
      BY <2>1, InitProps
    <2>3. conn = "open" /\ applied = NoAction
      BY DEF Init
    <2>4. <<applied[1], Items(applied[2])>> = <<"none", {}>>
      BY <2>3, NothingDone
    <2> QED
      BY <2>2, <2>3, <2>4 DEF Abstract!AInit, Abstract!Nothing, Props
  <1> QED
    BY <1>1, ExactInvInit, ExactInvStep, StepMaps, PTL
    DEF Spec, ImplementsAbstract, Abstract!ASpec

=============================================================================
