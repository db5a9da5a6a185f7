------------------------------- MODULE Session -------------------------------
(***************************************************************************)
(* One connection as the daemon serves it: src/src/protocol/client.c over  *)
(* the context of module Context, with the checks that src/src/action/     *)
(* action.c makes before it touches the system.  The client pipelines      *)
(* requests; the daemon handles them one by one, in order, and answers on  *)
(* the same stream.  Effects on the system are abstracted here to the      *)
(* variable applied, the profile that the last handled request gave to the *)
(* permission manager and to the LSM; module Install opens that box.       *)
(***************************************************************************)
EXTENDS Context, FiniteSets

CONSTANTS
    Ids,          \* identifiers a client may send, valid or not
    ExpDirs, ImpDirs, ImpIds, \* arguments a client may give to plug
    TypeNames,    \* type names a client may send, known or not
    ExportPermission(_, _), \* urn:redpesk:permission:<impid>:<scope>:export:plug
    BigItems,     \* items that overflow the reply buffer when displayed
    MaxPipeline   \* bound on the requests whose answer the client awaits

VARIABLES
    ctx,          \* client->context
    version,      \* client->version
    invalid,      \* client->invalid
    conn,         \* "open" until client_destroy, then "gone"
    peer,         \* "open" until the client closes its end
    inq,          \* requests sent and not yet handled, in order
    outq,         \* replies sent and not yet read, in order
    expect,       \* requests whose final reply the client has not read
    log,          \* sec_lsm_manager_server_log
    applied       \* <<operation, items>> that the last request gave to the system

vars == <<ctx, version, invalid, conn, peer, inq, outq, expect, log, applied>>
link == <<conn, peer>>

ASSUME PipelineAssumption == MaxPipeline \in Nat \ {0}

ASSUME RequestAssumption ==
    /\ Ids \subseteq IdStrings /\ ImpIds \subseteq IdStrings
    /\ ExpDirs \subseteq RawPaths /\ ImpDirs \subseteq RawPaths

Requests ==
    {<<"hello", known>> : known \in BOOLEAN} \cup {<<"clear">>, <<"display">>}
    \cup {<<"id", i>> : i \in Ids} \cup {<<"install">>, <<"uninstall">>}
    \cup {<<"log", arg>> : arg \in {"none", "on", "off", "bad"}}
    \cup {<<"path", p, t>> : p \in RawPaths, t \in TypeNames}
    \cup {<<"permission", p>> : p \in Permissions}
    \cup {<<"plug", e, i, m>> : e \in ExpDirs, i \in ImpIds, m \in ImpDirs}
    \cup {<<"unknown">>, <<"notutf8">>, <<"oversize">>}

NoAction == <<"none", <<>>>>

(* How an errno is told to the client; each command knows some of them. *)
ErrorText == [ENOTRECOVERABLE |-> "not-recoverable", EINVAL |-> "invalid",
              EEXIST |-> "already-set", ENOENT |-> "not-found",
              EACCES |-> "no-access", ENOTDIR |-> "not-dir",
              EPERM |-> "forbidden"]
KnownErrors ==
    [id |-> {"ENOTRECOVERABLE", "EINVAL", "EEXIST"},
     permission |-> {"ENOTRECOVERABLE", "EINVAL", "EEXIST"},
     path |-> {"ENOTRECOVERABLE", "EINVAL", "EEXIST", "ENOENT", "EACCES"},
     plug |-> {"ENOTRECOVERABLE", "EINVAL", "EEXIST", "ENOENT", "EACCES", "ENOTDIR"},
     install |-> {"ENOTRECOVERABLE", "EINVAL", "EPERM"},
     uninstall |-> {"ENOTRECOVERABLE", "EINVAL"}]
Text(cmd, rc) == IF rc \in KnownErrors[cmd] THEN ErrorText[rc] ELSE "internal"

Init ==
    /\ \E last \in IdBytes : ctx = context_init(last)
    /\ version = 0 /\ invalid = FALSE
    /\ conn = "open" /\ peer = "open"
    /\ inq = <<>> /\ outq = <<>> /\ expect = <<>>
    /\ log = FALSE /\ applied = NoAction

-----------------------------------------------------------------------------
(* The client's end of the connection. *)

ClientSend(r) ==
    /\ conn = "open" /\ peer = "open" /\ Len(expect) < MaxPipeline
    /\ inq' = Append(inq, r) /\ expect' = Append(expect, r)
    /\ UNCHANGED <<ctx, version, invalid, link, outq, log, applied>>

IsFinal(reply) == reply[1] \in {"done", "error"}

ClientRead ==
    /\ peer = "open" /\ outq # <<>>
    /\ outq' = Tail(outq)
    /\ expect' = IF IsFinal(Head(outq)) THEN Tail(expect) ELSE expect
    /\ UNCHANGED <<ctx, version, invalid, link, inq, log, applied>>

ClientClose ==
    /\ peer = "open"
    /\ peer' = "closed" /\ outq' = <<>> /\ expect' = <<>>
    /\ UNCHANGED <<ctx, version, invalid, conn, inq, log, applied>>

-----------------------------------------------------------------------------
(* Replies. *)

(* putx and flushw: what is written after the client left is lost. *)
putx(replies) == outq' = IF peer = "open" THEN outq \o replies ELSE outq

send_done(arg) == putx(<< <<"done", arg>> >>)
send_error(text, c) ==
    /\ ctx' = context_raise_error(c)
    /\ putx(<< <<"error", text>> >>)

(* What send_display emits before the final reply. *)
Displayed(c) ==
    (IF c.error_flag THEN << <<"error", "on">> >> ELSE <<>>) \o context_visit(c)

-----------------------------------------------------------------------------
(* Faulty: requests are taken after a violation of the protocol. *)
Handling_all(cmd) ==
    /\ conn = "open"
    /\ inq # <<>> /\ Head(inq)[1] = cmd
    /\ inq' = Tail(inq)
    /\ UNCHANGED <<link, expect>>

(* onrequest.  client_process_input hands it the next request as long as   *)
(* no violation of the protocol was met.                                   *)
Handling(cmd) ==
    /\ conn = "open" /\ ~invalid
    /\ inq # <<>> /\ Head(inq)[1] = cmd
    /\ inq' = Tail(inq)
    /\ UNCHANGED <<link, expect>>

(* A command other than hello switches to the default version. *)
Command(cmd) == Handling(cmd) /\ version' = 1

(* The common end of the setting commands. *)
Conclude(cmd, outcome) ==
    /\ \/ outcome.rc = "ok" /\ ctx' = outcome.ctx /\ send_done("")
       \/ outcome.rc # "ok" /\ send_error(Text(cmd, outcome.rc), outcome.ctx)
    /\ UNCHANGED <<invalid, log>>

(* Faulty: a violation of the protocol has no answer. *)
invalid_protocol_mute ==
    /\ ctx' = context_raise_error(ctx)
    /\ invalid' = TRUE
    /\ UNCHANGED <<log, outq>> /\ applied' = NoAction

invalid_protocol ==
    /\ send_error("protocol", ctx)
    /\ invalid' = TRUE
    /\ UNCHANGED log /\ applied' = NoAction

OnHello ==
    /\ Handling("hello")
    /\ \/ /\ version = 0 /\ Head(inq)[2]
          /\ version' = 1
          /\ send_done("1")
          /\ UNCHANGED <<ctx, invalid, log>> /\ applied' = NoAction
       \/ /\ version # 0 \/ ~Head(inq)[2]
          /\ invalid_protocol
          /\ UNCHANGED version

(* An unknown keyword, a wrong count of arguments, a field not in UTF-8. *)
OnViolation ==
    /\ Command("unknown") \/ (Handling("notutf8") /\ UNCHANGED version)
    /\ invalid_protocol

OnClear ==
    /\ Command("clear")
    /\ ctx' = context_clear(ctx)
    /\ send_done("")
    /\ UNCHANGED <<invalid, log>> /\ applied' = NoAction

(* Displaying stops at the first item that cannot be emitted: one that     *)
(* overflows the buffer even once flushed, or any when the client left.    *)
OnDisplay ==
    LET items == Displayed(ctx)
        Sent(n) == [i \in 1..n |-> <<"string", items[i][1], items[i][2]>>]
        big == {i \in DOMAIN items : items[i] \in BigItems}
    IN
    /\ Command("display")
    /\ \/ /\ big = {}
          /\ putx(Sent(Len(items)) \o << <<"done", "">> >>)
          /\ UNCHANGED ctx
       \/ \E n \in big :
          /\ \A m \in big : n <= m
          /\ ctx' = context_raise_error(ctx)
          /\ putx(Sent(n - 1) \o << <<"error", "internal">> >>)
       \/ /\ peer = "closed" /\ big = {}
          /\ send_error("internal", ctx)
    /\ UNCHANGED <<invalid, log>> /\ applied' = NoAction

OnLog ==
    LET arg == Head(inq)[2]
        nextlog == IF arg = "none" THEN log ELSE arg = "on"
    IN
    /\ Command("log")
    /\ \/ /\ arg # "bad"
          /\ send_done(IF nextlog THEN "on" ELSE "off")
          /\ log' = nextlog
          /\ UNCHANGED <<ctx, invalid>> /\ applied' = NoAction
       \/ arg = "bad" /\ invalid_protocol

OnId ==
    /\ Command("id")
    /\ Conclude("id", context_set_id(ctx, Head(inq)[2]))
    /\ applied' = NoAction

OnPermission ==
    /\ Command("permission")
    /\ \E nomem \in BOOLEAN :
          Conclude("permission", context_add_permission(ctx, Head(inq)[2], nomem))
    /\ applied' = NoAction

OnPath ==
    /\ Command("path")
    /\ \E stat \in {"ok", "ENOENT", "EACCES", "ENOMEM"}, nomem \in BOOLEAN :
          Conclude("path",
              context_add_path(ctx, Head(inq)[2], Head(inq)[3], stat, nomem))
    /\ applied' = NoAction

OnPlug ==
    /\ Command("plug")
    /\ \E stat \in {"ok", "ENOENT", "EACCES", "ENOTDIR", "ENOMEM"}, nomem \in BOOLEAN :
          Conclude("plug",
              context_add_plug(ctx, Head(inq)[2], Head(inq)[3], Head(inq)[4],
                               stat, nomem))
    /\ applied' = NoAction

-----------------------------------------------------------------------------
(* Actions.  grant tells what the permission manager answers for the       *)
(* importers: "error" or whether they hold ...::public:plugs.              *)
check_plug(c, plug, grant) ==
    FirstFailure(<< <<grant = "error", "EIO">>,
                    <<~permission_set_has(c,
                          ExportPermission(plug.impid,
                              IF grant = "yes" THEN "public" ELSE "partner")),
                      "EPERM">> >>)

(* Every plug is looked at, the first failure is the result. *)
check_plug_installable(c, grants) ==
    FirstFailure([i \in DOMAIN c.plugs |->
        LET rc == check_plug(c, c.plugs[i], grants[i]) IN <<rc # "ok", rc>>])

(* Faulty: the need of an identifier is not checked. *)
check_context_lax(c) == FirstFailure(<< <<c.error_flag, "ENOTRECOVERABLE">> >>)

check_context(c) ==
    FirstFailure(<< <<c.error_flag, "ENOTRECOVERABLE">>,
                    <<~has_id(c) /\ c.need_id, "EINVAL">> >>)

(* Once the checks pass the profile goes to the permission manager and to  *)
(* the LSM; one of them may fail.                                          *)
Apply(cmd, rc) ==
    \/ /\ rc # "ok"
       /\ Conclude(cmd, Outcome(rc, ctx))
       /\ applied' = NoAction
    \/ /\ rc = "ok"
       /\ applied' = <<cmd, context_visit(ctx)>>
       /\ \E result \in {"ok", "EIO"} : Conclude(cmd, Outcome(result, ctx))

OnInstall ==
    /\ Command("install")
    /\ \E grants \in [DOMAIN ctx.plugs -> {"yes", "no", "error"}] :
          Apply("install",
                FirstFailure(<< <<check_context(ctx) # "ok", check_context(ctx)>>,
                                <<check_plug_installable(ctx, grants) # "ok",
                                  check_plug_installable(ctx, grants)>> >>))

OnUninstall ==
    /\ Command("uninstall")
    /\ Apply("uninstall", check_context(ctx))

-----------------------------------------------------------------------------
(* Faulty: a violation of the protocol does not end the connection. *)
Ending_polite == peer = "closed" \/ (inq # <<>> /\ Head(inq)[1] = "oversize")

(* The end of a connection: client_process_input returns an error          *)
(* (protocol violation, oversized message, end of stream), or the server   *)
(* loop finds a hangup or an inactive client.  The context is destroyed.   *)
Ending == \/ invalid
          \/ peer = "closed"
          \/ inq # <<>> /\ Head(inq)[1] = "oversize"

Destroy ==
    /\ conn = "open"
    /\ conn' = "gone"
    /\ inq' = <<>>
    /\ ctx' = context_clear(ctx)
    /\ UNCHANGED <<version, invalid, peer, outq, expect, log, applied>>

client_destroy == Ending /\ Destroy
Inactivity == ~Ending /\ Destroy

Handle ==
    \/ OnHello \/ OnViolation \/ OnClear \/ OnDisplay \/ OnLog
    \/ OnId \/ OnPermission \/ OnPath \/ OnPlug
    \/ OnInstall \/ OnUninstall

(* A finished connection stays as it is: the slot is reused by a new one.  *)
Finished == conn = "gone" /\ peer = "closed" /\ UNCHANGED vars

Next ==
    \/ \E r \in Requests : ClientSend(r)
    \/ ClientRead \/ ClientClose
    \/ Handle \/ client_destroy \/ Inactivity
    \/ Finished

Spec == Init /\ [][Next]_vars

(* The daemon's loop always comes back to a readable connection, so a      *)
(* handled request or an ended connection is not postponed for ever.       *)
FairSpec == Spec /\ WF_vars(Handle \/ client_destroy)

-----------------------------------------------------------------------------
(* Properties. *)

(* Type correctness of the session of client.c. *)
TypeOK ==
    /\ ctx \in Contexts
    /\ version \in {0, 1} /\ invalid \in BOOLEAN /\ log \in BOOLEAN
    /\ conn \in {"open", "gone"} /\ peer \in {"open", "closed"}
    /\ inq \in Seq(Requests) /\ expect \in Seq(Requests)
    /\ DOMAIN outq = 1..Len(outq) /\ DOMAIN applied = {1, 2}

(* need_id, which the setters of context.c raise one by one and clear      *)
(* resets, is on exactly when some property of the context needs an        *)
(* application identifier.                                                 *)
NeedsId(c) ==
    \/ c.permissions # <<>> \/ c.plugs # <<>>
    \/ \E i \in DOMAIN c.paths : c.paths[i].type # "default"
NeedIdExact == ctx.need_id <=> NeedsId(ctx)

(* No sequence of settings puts twice in a context the same permission     *)
(* (whatever its case), path or import directory: the duplicate checks of  *)
(* context.c hold however the client spells them.                          *)
SettingsUnique ==
    /\ \A i, j \in DOMAIN ctx.permissions :
          FoldCase[ctx.permissions[i]] = FoldCase[ctx.permissions[j]] => i = j
    /\ \A i, j \in DOMAIN ctx.paths : ctx.paths[i].path = ctx.paths[j].path => i = j
    /\ \A i, j \in DOMAIN ctx.plugs : ctx.plugs[i].impdir = ctx.plugs[j].impdir => i = j

(* action.c never hands to the system a profile that needs an identifier   *)
(* and has none: a profile without identifier has default paths only.      *)
IdlessIsDefaultOnly ==
    \/ \E i \in DOMAIN applied[2] : applied[2][i][1] = "id"
    \/ \A i \in DOMAIN applied[2] :
          applied[2][i][1] = "path" /\ applied[2][i][2].type = "default"

(* Replies come in the order of the requests, one final reply for each     *)
(* handled request, and strings only within the answer to display, however *)
(* far the client pipelines: onrequest never skips or doubles an answer.   *)
Rank(n) == Cardinality({i \in 1..n : IsFinal(outq[i])})
RepliesInOrder ==
    peer = "open" =>
        LET answered == Rank(Len(outq))
        IN  /\ answered <= Len(expect)
            /\ conn = "open" => SubSeq(expect, answered + 1, Len(expect)) = inq
            /\ \A i \in DOMAIN outq : ~IsFinal(outq[i]) =>
                  /\ Rank(i) < Len(expect)
                  /\ expect[Rank(i) + 1] = <<"display">>

(* The error state of a context lasts until clear (or the end of the       *)
(* connection); meanwhile no property is taken and no action reaches the   *)
(* system.                                                                 *)
ErrorUntilClear ==
    [][ctx.error_flag =>
          /\ ~ctx'.error_flag =>
                conn' = "gone" \/ (inq # <<>> /\ Head(inq) = <<"clear">>)
          /\ ctx'.error_flag => ctx' = ctx
          /\ applied' \in {applied, NoAction}]_vars

(* Requests pipelined after a violation of the protocol are not executed.  *)
NothingAfterViolation ==
    [][invalid => /\ UNCHANGED <<applied, log, version, invalid>>
                  /\ conn' = "open" => UNCHANGED ctx]_vars

(* A violation of the protocol ends the connection (FairSpec). *)
ViolationDisconnects == invalid ~> (conn = "gone")

(* What the documentation says and the code does not do.                   *)

(* QA/SEC-LSM-MGR.PRO.md, PRO-U-VAL-DIS-REP: the values displayed are      *)
(* "queries of previously set properties"; the identifier is one the       *)
(* client sent.                                                            *)
IdWasSet == has_id(ctx) => StringOf(ctx.id) \in Ids

(* QA/SEC-LSM-MGR.HRQ.md, HRQ-R-INS-SEC-POL and HRQ-R-REM-SEC-POL: "On     *)
(* success, the client context shall be cleared."  Until the next request  *)
(* is handled, applied is what the last one did; it succeeded when it did  *)
(* not raise the error state.                                              *)
ClearedOnSuccess ==
    applied # NoAction /\ ~ctx.error_flag => context_visit(ctx) = <<>>
=============================================================================
