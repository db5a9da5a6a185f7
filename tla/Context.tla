------------------------------- MODULE Context -------------------------------
(***************************************************************************)
(* The client context of the daemon: src/src/context/{context,permissions, *)
(* paths,plugs}.c.  A context gathers the properties of one application    *)
(* (its identifier, permissions, paths and plugs) before an action applies *)
(* them.  The C functions update a context in place and return 0 or        *)
(* -errno; here they are operators from a context to an outcome, the       *)
(* record [rc, ctx].                                                       *)
(*                                                                         *)
(* Strings are opaque values except the identifier, whose bytes matter:    *)
(* it lives in a fixed buffer that context_clear and setids only partly    *)
(* overwrite.                                                              *)
(***************************************************************************)
EXTENDS Naturals, Sequences

CONSTANTS
    MIN_SIZE_ID, MAX_SIZE_ID,  \* sizes.h, 2 and 200 in the code
    IdChars,      \* characters accepted in an identifier
    BadChar,      \* some character that is not
    NUL,          \* the byte '\0'
    Permissions,  \* permission names a client may give
    ShortPermissions, \* those whose length is out of the accepted bounds
    FoldCase,     \* [Permissions -> keys], equal keys for strcasecmp() = 0
    RawPaths,     \* paths as a client may spell them
    StdPath,      \* [RawPaths -> Paths \cup {TooLong, Relative}], see path_std
    TooLong, Relative, \* path_std overflows; path_std gives no leading '/'
    LongestPaths, \* normalised paths of exactly MAX_SIZE_PATH characters
    PathTypes     \* the names of type_strings, "default" is one of them

(* The normalised absolute paths. *)
Paths == {StdPath[p] : p \in RawPaths} \ {TooLong, Relative}

(* Bytes of the identifier buffer and identifiers as a client sends them. *)
IdBytes == IdChars \cup {NUL}
IdStrings == Seq(IdChars \cup {BadChar})
IdBuffers == [0..MAX_SIZE_ID -> IdBytes]

ASSUME SizeAssumption ==
    /\ MIN_SIZE_ID \in Nat /\ MAX_SIZE_ID \in Nat
    /\ 1 <= MIN_SIZE_ID /\ MIN_SIZE_ID <= MAX_SIZE_ID

ASSUME ValueAssumption ==
    /\ NUL \notin IdChars /\ BadChar \notin IdChars
    /\ ShortPermissions \subseteq Permissions
    /\ "default" \in PathTypes
    /\ DOMAIN FoldCase = Permissions
    /\ DOMAIN StdPath = RawPaths

PathItems == [path : Paths, type : PathTypes]
PlugItems == [expdir : Paths, impid : Seq(IdChars), impdir : Paths]

Contexts ==
    [id : IdBuffers, permissions : Seq(Permissions), paths : Seq(PathItems),
     plugs : Seq(PlugItems), need_id : BOOLEAN, error_flag : BOOLEAN]

-----------------------------------------------------------------------------
(* A C function that returns at its first failing check: checks lists, in  *)
(* the order of the code, the pairs <<condition, errno>>.                  *)
FirstFailure(checks) ==
    LET failing == {i \in DOMAIN checks : checks[i][1]}
    IN  IF failing = {} THEN "ok"
        ELSE checks[CHOOSE i \in failing : \A j \in failing : i <= j][2]

Outcome(rc, ctx) == [rc |-> rc, ctx |-> ctx]

(* What every setter does with its checks: the context changes only when   *)
(* no check fails.                                                         *)
SetUnless(checks, ctx, updated) ==
    LET rc == FirstFailure(checks)
    IN  Outcome(rc, IF rc = "ok" THEN updated ELSE ctx)

-----------------------------------------------------------------------------
(* The identifier. *)

(* context_init zeroes MAX_SIZE_ID bytes of the MAX_SIZE_ID + 1 of the     *)
(* buffer: last is what malloc left in the final one.                      *)
context_init(last) ==
    [id |-> [i \in 0..MAX_SIZE_ID |-> IF i < MAX_SIZE_ID THEN NUL ELSE last],
     permissions |-> <<>>, paths |-> <<>>, plugs |-> <<>>,
     need_id |-> FALSE, error_flag |-> FALSE]

has_id(ctx) == ctx.id[0] # NUL

(* The string read from an identifier buffer: up to the first NUL.  When   *)
(* there is none the code reads on after the buffer; the bytes of the      *)
(* buffer are then a strict prefix of what it reads.                       *)
StringOf(buffer) ==
    LET Ends == {i \in DOMAIN buffer : buffer[i] = NUL}
        len  == IF Ends = {} THEN MAX_SIZE_ID + 1
                ELSE CHOOSE i \in Ends : \A j \in Ends : i <= j
    IN  [i \in 1..len |-> buffer[i - 1]]

context_is_valid_id(id) ==
    /\ Len(id) \in MIN_SIZE_ID..MAX_SIZE_ID
    /\ \A i \in DOMAIN id : id[i] \in IdChars

(* memcpy of the characters only: no terminating NUL is written. *)
setids(src, id) ==
    [i \in 0..MAX_SIZE_ID |-> IF i < Len(src) THEN src[i + 1] ELSE id[i]]

(* Faulty: the flag of the needed identifier survives clear. *)
context_clear_flagged(ctx) ==
    [id |-> [ctx.id EXCEPT ![0] = NUL],
     permissions |-> <<>>, paths |-> <<>>, plugs |-> <<>>,
     need_id |-> ctx.need_id, error_flag |-> FALSE]

(* Faulty: the plugs survive clear. *)
context_clear_plugged(ctx) ==
    [id |-> [ctx.id EXCEPT ![0] = NUL],
     permissions |-> <<>>, paths |-> <<>>, plugs |-> ctx.plugs,
     need_id |-> ctx.plugs # <<>>, error_flag |-> FALSE]

(* Only the first byte of the identifier is erased. *)
context_clear(ctx) ==
    [id |-> [ctx.id EXCEPT ![0] = NUL],
     permissions |-> <<>>, paths |-> <<>>, plugs |-> <<>>,
     need_id |-> FALSE, error_flag |-> FALSE]

context_raise_error(ctx) == [ctx EXCEPT !.error_flag = TRUE]

(* Faulty: the error state is not looked at. *)
context_set_id_unchecked(ctx, id) ==
    SetUnless(<< <<has_id(ctx), "EEXIST">>,
                 <<~context_is_valid_id(id), "EINVAL">> >>,
              ctx, [ctx EXCEPT !.id = setids(id, ctx.id)])

context_set_id(ctx, id) ==
    SetUnless(<< <<ctx.error_flag, "ENOTRECOVERABLE">>,
                 <<has_id(ctx), "EEXIST">>,
                 <<~context_is_valid_id(id), "EINVAL">> >>,
              ctx, [ctx EXCEPT !.id = setids(id, ctx.id)])

-----------------------------------------------------------------------------
(* Permissions, paths and plugs.  nomem tells whether malloc fails, stat   *)
(* is the errno of the checks of the file system, "ok" if none.            *)

(* Faulty: strcmp in place of strcasecmp. *)
permission_set_has_exactly(ctx, permission) ==
    \E i \in DOMAIN ctx.permissions : ctx.permissions[i] = permission

permission_set_has(ctx, permission) ==
    \E i \in DOMAIN ctx.permissions :
        FoldCase[ctx.permissions[i]] = FoldCase[permission]

permission_set_add(permissions, permission) == Append(permissions, permission)

context_add_permission(ctx, permission, nomem) ==
    SetUnless(<< <<ctx.error_flag, "ENOTRECOVERABLE">>,
                 <<permission_set_has(ctx, permission), "EEXIST">>,
                 <<permission \in ShortPermissions, "EINVAL">>,
                 <<nomem, "ENOMEM">> >>,
              ctx,
              [ctx EXCEPT !.permissions = permission_set_add(@, permission),
                          !.need_id = TRUE])

path_set_has(ctx, path) ==
    \E i \in DOMAIN ctx.paths : ctx.paths[i].path = path

path_set_add(paths, path, type) == Append(paths, [path |-> path, type |-> type])

(* Faulty: the path is recorded as the client spelled it. *)
context_add_raw_path(ctx, raw, type, stat, nomem) ==
    SetUnless(<< <<ctx.error_flag, "ENOTRECOVERABLE">>,
                 <<type \notin PathTypes, "EINVAL">>,
                 <<path_set_has(ctx, StdPath[raw]), "EEXIST">>,
                 <<stat # "ok", stat>>,
                 <<nomem, "ENOMEM">> >>,
              ctx,
              [ctx EXCEPT !.paths = path_set_add(@, raw, type),
                          !.need_id = @ \/ type # "default"])

context_add_path(ctx, raw, type, stat, nomem) ==
    LET path == StdPath[raw]
    IN  SetUnless(<< <<ctx.error_flag, "ENOTRECOVERABLE">>,
                     <<type \notin PathTypes, "EINVAL">>,
                     <<path \in {TooLong, Relative}, "EINVAL">>,
                     <<path_set_has(ctx, path), "EEXIST">>,
                     <<stat # "ok", stat>>,
                     <<path \in LongestPaths, "EINVAL">>,
                     <<nomem, "ENOMEM">> >>,
                  ctx,
                  [ctx EXCEPT !.paths = path_set_add(@, path, type),
                              !.need_id = @ \/ type # "default"])

plugset_has(ctx, impdir) ==
    \E i \in DOMAIN ctx.plugs : ctx.plugs[i].impdir = impdir

(* The new plug is linked before the others. *)
plugset_add(plugs, expdir, impid, impdir) ==
    <<[expdir |-> expdir, impid |-> impid, impdir |-> impdir]>> \o plugs

(* The duplicate check looks at the import directory only. *)
context_add_plug(ctx, rawexp, impid, rawimp, stat, nomem) ==
    LET expdir == StdPath[rawexp]
        impdir == StdPath[rawimp]
    IN  SetUnless(<< <<ctx.error_flag, "ENOTRECOVERABLE">>,
                     <<expdir \in {TooLong, Relative}, "EINVAL">>,
                     <<impdir \in {TooLong, Relative}, "EINVAL">>,
                     <<plugset_has(ctx, impdir), "EEXIST">>,
                     <<~context_is_valid_id(impid), "EINVAL">>,
                     <<stat # "ok", stat>>,
                     <<nomem, "ENOMEM">> >>,
                  ctx,
                  [ctx EXCEPT !.plugs = plugset_add(@, expdir, impid, impdir),
                              !.need_id = TRUE])

-----------------------------------------------------------------------------
(* context_visit as the display visitor uses it: identifier, paths,        *)
(* permissions and plugs, each in the order in which it is stored.         *)
context_visit(ctx) ==
    (IF has_id(ctx) THEN << <<"id", StringOf(ctx.id)>> >> ELSE <<>>)
    \o [i \in DOMAIN ctx.paths |-> <<"path", ctx.paths[i]>>]
    \o [i \in DOMAIN ctx.permissions |-> <<"permission", ctx.permissions[i]>>]
    \o [i \in DOMAIN ctx.plugs |-> <<"plug", ctx.plugs[i]>>]
=============================================================================
