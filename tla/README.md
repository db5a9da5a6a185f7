# sec-lsm-manager: a TLA+ verification development

`sec-lsm-manager` is the daemon that gives an application its security policy
when a package is installed and takes it back when the package is removed. A
client (the package framework) opens a connection, describes the application
(identifier, permissions, typed paths, plugs) and asks for `install` or
`uninstall`. The daemon then records permissions in *cynagora* and puts labels,
rules and links in place for the Linux security module (Smack or SELinux).

All paths below are relative to the repository; `context.c` stands for
`src/src/context/context.c` and so on.

## 1. Inventory

| Component | State | Operations | Hard part | What makes it correct |
|---|---|---|---|---|
| context (`context.c`, `permissions.c`, `paths.c`, `plugs.c`) | identifier buffer, three collections, `need_id`, `error_flag` | set id, add permission/path/plug, clear, visit | long sequences of settings; a buffer only partly overwritten | no duplicates, `need_id` exact, clear forgets everything |
| client protocol (`client.c`) | context, `version`, `invalid`, read and write buffers | hand-shake, eleven requests, replies | pipelining, errors in the middle of a reply, violations | one answer per request, in order; error state until clear; nothing after a violation |
| server loop (`sec-lsm-manager-server.c`, `pollitem.c`) | slots, `lasttime`, `deaf`, `stopped` | accept, read, hang up, sweep, stop | a full server, time-outs racing requests, failing system calls | listens exactly when it has room, serves everyone, stops when idle |
| actions (`action.c`) | none of its own | install, uninstall, checks | order of permissions and policy, cleaning after a failure | success is complete, failure leaves nothing |
| permission manager interface (`cynagora-interface.c`) | the transaction | replace or drop the permissions of an application, check one | refusal in the middle | all or nothing |
| Smack backend (`smack.c`, `smack-template.c`, `xattr-utils.c`) | rules file, kernel rules, links, extended attributes | create and remove rules, plugs, labels | each system call may fail, the daemon may die | as for the actions |
| template expansion (`template.c`, vendored `mustach.c`) | the rules file | write rules for a profile | partial writes | the file holds the rules of the profile |
| protocol codec (`prot.c`) | circular output buffer, input buffer, fields | split, escape, put, write | fragments of messages, full buffers | fields come out as they went in |
| client library (`sec-lsm-manager.c`) | descriptor, connection state, lock, last reply | synchronous calls, disconnect | the daemon leaves, with its context, between two calls; callbacks that call again | each call gets its own answer, a lost context is never replaced silently |
| SELinux backend (`lsm-selinux/`) | three sources, the compiled module, the module in the policy, labels of the paths | generate, compile, install, remove, verify | a script whose exit status is lost, errors told by `errno`, a removal that stops half way | what is reported is what was verified; an installation repairs |
| path normalisation (`path-utils.c`) | none | `path_std` | dots, repeated slashes, a full buffer | one spelling per path, nothing written outside |
| daemon entry and sockets (`main-sec-lsm-managerd.c`, `socket.c`, `offline.c`) | options, identity, capabilities, the directory and the name of the socket | start, offline mode, open the socket | the order of privileged calls, a directory and a name shared with other programs and daemons | who serves has the identity it was told; a start that nothing disturbs ends with a daemon that clients reach |
| command line client (`main-sec-lsm-manager-cmd.c`) | the words left, the status of the last command | one command per library call, `reset`, `quit`, keep-going | errors in the middle of a line, a daemon that leaves | an action applies to all that the line said and that was sent; the exit status tells what was done |
| simulations of cynagora, Smack and SELinux | | | | test code, not modelled |

How they interact: the loop of the server calls `client_process_input` for one
ready connection; this decodes what was received and calls `onrequest` for each
message; a setter changes the context, an action checks it and calls the
permission manager then the LSM backend, synchronously. There is one thread:
while a request is handled no other client is served, and this is what couples
clients (time passes for all of them). The only other actors are the clients,
the kernel (epoll, failures), cynagora, and systemd, which owns the listening
socket and starts the daemon again.

`PROJECT.json` lists the hazards of this code, line by line, with the property
that would catch each one.

## 2. Modules

| Module | Models | State and actions |
|---|---|---|
| `Context` | the context and its setters, as operators from a context to an outcome `[rc, ctx]` | `SetUnless` lists the checks of a C function in their order; the first that fails gives the errno and leaves the context alone |
| `Session` | one connection, from decoded requests to replies | `ctx`, `version`, `invalid` are the fields of `client_t`; `inq`, `outq` the two directions of the stream; one action `OnXxx` per keyword of `onrequest`; `client_destroy` and `Inactivity` end it |
| `AbstractSession` | what a connection promises: a set of acknowledged properties, an error state, the last profile applied | one action per kind of step that a client can observe |
| `SessionAbstraction` | the refinement mapping from `Session` to `AbstractSession` | the abstract properties are what `display` would show |
| `Server` | the event loop, its slots, accept, sweep, stop, and systemd's restart | `slot` is `clients[].client`, `age` is now minus `lasttime`, `armed` whether the listening socket is polled; `pc` tells where the loop is, `handle`, `flush` and `reject` being within `client_process_input` |
| `Install` | what an action does to the system, one step per system call | `granted`, `file`, `loaded`, `links`, `xattr` are the system; `pc`, `n`, `rc`, `status` follow the call tree of `action_install` and `action_uninstall`; `Crash` drops the request anywhere |
| `Prot` | one direction of a connection through `prot.c` | `content`, `pos`, `count`, `wrokcnt` are the output buffer, `wire` the socket, `inbuf`, `inpos`, `fields` the input; `putx`, `flushw`, `putx_again` send, `prot_read`, `prot_get`, `prot_next` receive; `sent` records what was accepted |
| `PathStd` | one call of `path_std` | the local variables of the function; one action per branch of its loop; `Standard`, which enters the names of the path one after the other, is the reference |
| `ClientLib` | one handle of the client library, its application, and the daemon as the library meets it | `state`, `fd`, `synclock` are the fields of the handle, `outbuf` the requests in its output buffer; one action per system call of a call in progress; `Failure` are the calls that fail on a live connection, `faults` counts those of the present one; `acked` is what the application was told, `conn` the daemon's side |
| `Selinux` | `mac_install` and `mac_uninstall` of the SELinux backend, one step per system call | `file` (te, if, fc, pp), `policy`, `label` are the system; `pc`, `n`, `status` follow the call tree; `defs` tells whether `trfid` terminated the identifier and `LabelsDefined` whether every label of the profile is defined; `Crash` drops the request anywhere |
| `Cmd` | the command line client over `ClientLib` | `rest` are `ac` and `av` of `do_all`, `quit` its argument, `current` the command that waits for the library, `code` the exit status; `trace` records the commands executed |
| `Daemon` | `main` of the daemon until READY, for several daemons at once | `proc[d]` is a process: its `pc`, options, the identity it wants, its credentials and capabilities; `dir`, `owner`, `sock`, `abstract` are the file system and the names of sockets; `hit` records what disturbed a start |
| `MCSession`, `MCInstall`, `MCSelinux`, `MCCmd`, `MCDaemon`, `MCProt` | small instances | values of the constants |
| `SessionProofs`, `ServerProofs`, `InstallProofs`, `SelinuxProofs`, `CmdProofs`, `DaemonProofs`, `ProtProofs`, `PathStdProofs` | theorems about the module of that name; `CmdProofs` also those about `ClientLib`, on which it rests | the inductive invariants |

`Session` and `Install` meet at one point: `Session` ends at `applied`, the
profile that passed the checks of `action.c`, and `Install` starts from such a
profile (its assumption that a profile without identifier has default paths
only is theorem `SessionIdlessIsDefaultOnly`). `Session` and `Server` meet at
`client_process_input`: in `Server` a request is only something to read, which
takes some time, must be answered, and keeps or ends the connection. `Prot` stands under `Session`
and `ClientLib`, which exchange whole records: `StreamIntact` and `Transparent`
are what entitles them to. `Context` takes `path_std` as a constant map, of
which `PathStd` shows the content. `ClientLib` has a daemon reduced to a context
per connection, as `AbstractSession` promises it, that may leave at any time.
`Cmd` extends `ClientLib`: each of its commands is a call of the library, whose
steps are the library's own, so that `ActionIsWhole` goes from the words of the
line to the context of the daemon. `Selinux` takes the place of the Smack half of
`Install`; what `action.c` does around a backend is in `Install` only. `Daemon`
ends where `Server` begins: its `serving` is the loop of `Server`, and
`server_serve_ends` is its stop.

Operators named `..._something` under a comment "Faulty" are versions of the
definition that follows them with a plausible mistake. They show that each
property can be violated; nothing else uses them.

### What the abstraction keeps and drops

* Strings are values. The identifier is the exception: it is a sequence of
  characters copied in a buffer of `MAX_SIZE_ID + 1` bytes, because
  `context_clear` erases only its first byte and `setids` copies no terminator.
  The byte of the buffer that `context_init` does not reach has any value.
* In `Context`, `path_std` is the constant `StdPath`, a map from the spellings of a client to
  normalised paths or to one of its two failures.
* Results of the file system and of the permission manager are chosen freely
  among those the code tells apart, as is the failure of `malloc`.
* Time in `Server` is measured since `lasttime` and since the entry in
  `epoll_wait`. The code only compares these ages with `shutofftime`, so they
  saturate there and no bound on the clock is needed. `MaxTempo` is the longest
  time-out of `epoll_wait` (`INT_MAX` milliseconds), where `tempo` saturates.
* In `Install` the profiles with an identifier are versions of one application;
  a rules file is the set of its rules; `smack_enabled()` is true. A transaction
  of cynagora whose commit fails is not applied. A failed write leaves any part
  of a file, a failed load any part of the rules in the kernel. `lost` tells that
  a call of `Lossy` failed, whose failure the code does not report or cannot
  clean.
* In `Selinux` a file has the content of a version, or is `Garbled`. The script
  of compilation makes the module of its three sources or fails. The four
  characters that `trfid` copies make the labels of a longer identifier
  `Undefined`, or good by chance; the label of a path of the default type, which
  nothing initialises, is always `Undefined`. File contexts with such a label are
  `Garbled`, which the script may refuse or not.
* In `Cmd` a word is a value; what `SettingOf` gives to a command is the setting
  that it sends. A line of the interactive input is a line with keep-going.
* In `Daemon` the seven capabilities of `cap_vector` are one, beside those to
  change of identity and to give files away; the kernel's rules about them are
  in `become`, `cap_set_proc` and `cap_set_ambient`. A text is a number, a known
  name, an unknown one or empty. `listen` succeeds.

## 3. Runs

### Properties that hold

| Run | Instance | Shows |
|---|---|---|
| `session` | two spellings of a directory and another one, permissions that differ by case and one too short, two path types, plugs, a valid and an invalid identifier, one request at a time | types; `need_id` is exact; no duplicate whatever the spelling; no profile reaches the system without an identifier it needs; an error lasts until `clear`; each step implements `AbstractSession` |
| `session_pipeline` | two pipelined requests, every kind of violation, paths that `path_std` refuses | replies in order and one for one, nothing executed after a violation, which ends the connection |
| `server` | 2 slots, 3 clients, shutoff of 1 s, failing system calls | types; the loop listens exactly when a slot is free, though `deaf` is never reset; no connection is in two places and nothing of a finished one is left; a time-out finds everybody inactive; once failures end, and if the clients read replies and pause, a request is read or its client ended, a connection accepted if slots keep becoming free; an idle daemon stops |
| `install` | three profiles (two versions, one without identifier), every failure, two per request, crashes | permissions are those of one profile; a removal that meets no failure takes away what its profile names and the rules of the file that is there, and touches nothing else, whatever earlier requests left; an installation that failed because of what others left succeeds when tried again; unless a failure was lost, success is complete (or, for a removal, exactly such) and a failed first installation leaves nothing |
| `selinux` | two versions, one with a path of the default type, short and long identifiers, two failures per request, crashes | an installation that returns 0 left a module and its files, of this version if no failure was lost and its labels are defined; an installation repairs what earlier requests left |
| `prot` | buffers of 6 bytes, a socket of 2, 2 fields at most, 2 records in flight; fields of 0 to 2 characters among a letter and the three special ones, one record too big | the bytes in flight are the records accepted, in order; they are decoded as they were put; a record that could be put is never too big to be read; a flush ends |
| `path_std` | every path of up to 7 characters among two names, `/` and `.`; a buffer of 5 bytes | the result is the standard spelling of an absolute path, or a refusal; no path shorter than the buffer is refused |
| `client_lib` | three settings, one that no buffer holds, one descriptor, one failing call on each connection, two messages in flight at most when the application calls | calls return, though the replies of others are in flight; on a connection without failing call nothing is in flight between calls and an action that succeeds was applied to exactly what the application was told of, whatever a former connection left |
| `cmd` | lines of up to three commands that build a profile, then `install`; lines of up to two others, incomplete, unknown, or separators; with and without keep-going | an action that succeeds on a connection without failing call was applied to all that the line said since its last `clear` or `reset`, but the settings that were never sent (refused by the program, too big, no daemon to connect to); a plain line ends, with the status that tells what was done |
| `daemon` | two daemons, nine ways to start (by root, systemd or another user; path, abstract name, systemd socket, offline; user by name, number or not at all; keep-going), two starts, one failing call or kill, one change by another program, a path of two directories in every state | a daemon that serves without keep-going has its identity, its capabilities and its directory; a start that finds what it needs ends with a daemon that clients reach |

Bounds. Two slots and three clients make the server full with one waiting (the
code has three slots; the theorems of section 4 hold for any number). A shutoff
of 1 has ages before and at it. It is below the longest time-out (`MaxTempo`): that
a longer one saturates is in the theorem `ServerTimeoutIsQuiet` only. One unread
request is enough to wait behind the request of another client, and a client may
send again for ever. In `Session` the
collections grow until every value is in them, so every combination is reached;
two pipelined requests put one behind a violation. In `Prot` records are
longer than the socket and as long as the buffer, so that every write is partial,
every buffer wraps and some record is cancelled and put again; two records are
enough for one to follow the other in the same buffer. In `PathStd` paths are
longer than the buffer by more than a component. `ClientLib` bounds only the
failing calls of a connection and what is in flight when the application calls
(`MaxFaults`, `MaxFlight`): with one failure, two messages are the late reply and
the request that it is taken for. A descriptor is used again when both ends
closed it, and the leak noted below exhausts the only one of `client_lib`. `Install` never bounds the
number of requests, only the failures within one, and so does `Selinux`: a state
left by any sequence of failed and interrupted requests is met by the next. In
`Cmd` four commands are a setting, one that fails or forgets, another setting and
the action. In `Daemon` two starts are a restart after a death, or a race; two
directories are one whose parent is missing too; one supplementary group at most
makes a list of two too long.

The refinement lets the identifier of a session be any reading of its buffer
that begins with an identifier that was sent (`IdReadings`): the defect of
`session_stale_id` is a matter of `IdWasSet`, not of the refinement. The abstract
session keeps its properties after a successful action, as the code does; that the
requirements want them cleared is a matter of `session_cleared`.

### Disagreements

Each of these runs ends with a counterexample to a sentence of the repository,
quoted in `PROJECT.json`.

* `session_stale_id`: `id bbb`, `clear`, `id aa` gives the identifier `aab`.
* `session_cleared`: `install` or `uninstall` that succeeds leaves the context as it
  was, where `QA/SEC-LSM-MGR.HRQ.md:83` and `:112` have it cleared. `acked` of
  `ClientLib` survives a successful action for the same reason.

Other things met while reading, which no run is about: a failed request does not
restore the system, as `QA/SEC-LSM-MGR.HRQ.md:101` and `:128` want it (a failed
upgrade removes what the former version had, paths end with `User:Home`, dropped
permissions are not given back; `Install` has all these steps, and `FailureIsClean`
is about first installations); an identifier of
`MAX_SIZE_ID` characters is not terminated if the last byte of the allocated
structure was not zero (`context.c:47`); while one long request is handled, a client whose own request waits becomes inactive and is disconnected
unread (`sec-lsm-manager-server.c:302`, the sweep of `Server` does it, and
`RequestsRead` names it, `Swept`);
`path_std` makes the absolute `/x` of `.//x` (`PathStd` too); a greeting that
fails leaves its descriptor open (`sec-lsm-manager.c:113`, `ClientLib` too);
`sec_lsm_manager_display` returns the number of fields of the last reply, 1,
where its header says 0; `error_message` may give the message of an older call,
since `reply.count` survives one that fails before its reply
(`sec-lsm-manager.c:677`); the cleaning of labels, which `smack.c:291` says does
not stop on failure, stops at the first path that fails; `smack_get_label` cuts
labels at 200 characters, so that long identifiers share one.

In the client library a write, a poll or a read that fails while the daemon has
the connection (`sec-lsm-manager.c:134`, `:290`) ends its call and leaves the handle
connected: what stays in the buffer is sent by the next call, and a reply that was
not read answers it. `NothingInFlight`, `ActionAppliesAcked` and `ActionIsWhole` are
about connections without such a failure (`faults = 0`); without this condition the
runs `client_lib` and `cmd` end with their counterexamples. An uninstallation of a
version leaves the links and labels that only another one had, and rules that were
loaded when their file is gone; `Without` of `Install` says exactly what is removed.

The failure of `fclose` on the rules (`template.c:145`), of the exec label
(`smack.c:130` tests `rc` where `rc2` is meant), of the removal of the transmute
attribute and of clearing the kernel rules (`smack-template.c:276`) is lost, and
0 is returned for a profile that is not in force; `smack_accesses_apply` that
fails removes the file of rules while some are already loaded, and they cannot
be cleared any more. `SuccessIsComplete` and `FailureIsClean` are about requests
that met none of these (`~lost`); without this condition run `install` ends with
their counterexamples.

In the SELinux backend the exit status of the script is lost
(`selinux-compile.c:67`), `-errno` is returned where `errno` may be zero
(`selinux-template.c:358`), `trfid` stops at `sizeof idx`, after four characters
of the identifier (`selinux.c:64`), the label of the default type is never written
(`selinux-template.c:498`), and a removal that stopped half way is
refused ever after, until an installation.

In the command line client separators are skipped but not counted
(`main-sec-lsm-manager-cmd.c:489`): `id x ; install` executes `install` twice, and
with keep-going a separator at the end of a line is skipped for ever; `log`
without argument swallows the next command; an unknown command is no error.
`LineIsDone` is about lines without these. Its reader of lines, which is not
modelled, holds 39 words and 4000 characters and checks the former against
nothing (`:630`).

In the daemon `ensuredir` never ends on a path through a dangling link
(`main-sec-lsm-managerd.c:487`), which `StartServes` excludes; an empty `--user`
is root; supplementary groups beyond `SUPL_GROUPS_MAX` are ignored; the result of
`listen` is not looked at.

### Fairness

`Session` assumes weak fairness of the daemon on a connection: the loop comes
back to every readable one. `Server` assumes that its own steps are taken (one
thread), that time passes, and that systemd starts the daemon when a connection
waits. Strong fairness for each descriptor stands for the ready list of epoll,
which puts a descriptor that was reported behind the others. Nothing is assumed of
the clients, yet one of them can hold the thread in two ways: `flushw` polls without
limit while its client does not read (`client.c:165`), and `client_process_input`
takes requests as long as its client sends (`client.c:607`). So the properties say
what they need of clients: `ClientsRead`, that replies end up read, and
`ClientsPause`, that no client sends for ever while it is served. Without these
conditions `RequestsRead` and `ConnectionsAccepted` are violated. `Prot` assumes that
both ends run, so the peer reads: with it `flushw` ends (`FlushEnds`), which is what
`ClientsRead` stands for. `ClientLib` assumes that the thread of the
application runs, that its callbacks return, and that the daemon answers a
request that it has received unless it closes the connection; no call has to fail;
`Cmd` assumes the
same, with the program as the application. `Server` states its liveness for
behaviours whose failures end (`FailuresEnd`): a call that fails for ever, epoll
for instance, restarts the daemon for ever. `Daemon` assumes that a started
process runs; nobody has to start one.

## 4. Proofs

TLAPS proves these for every value of the constants that satisfies the named
assumptions, which TLC evaluates in the runs. Each proof has the same shape: an
inductive invariant, one lemma per action or group of actions that says it is
kept, and the property from the invariant.

Server (`ServerAssumption`: there is a slot, `None` is no client).

* `ServerTypeOK`, for any number of slots and clients and any shutoff time.
* `ServerListensIffRoom`. The property speaks of the states where the loop waits;
  `ListenInv` adds what holds between an event and its sweep: while it runs, a
  server that listens has room and one that does not is deaf, so that the sweep
  listens again.
* `ServerTimeoutIsQuiet`, for any shutoff time and any longest time-out: a time-out
  finds every client inactive or, when the shutoff is longer than `epoll_wait` can
  wait, silent for the longest time-out. It needs `QuietInv`: while the loop waits,
  every client has been silent at least as long as the wait has lasted.
* `ServerOnePlace` is inductive with the types.

Session (`SizeAssumption`, `ValueAssumption`, `RequestAssumption`,
`PipelineAssumption`).

* `SessionTypeOK`: `TypeInv` adds the shape of the queued requests and of the
  replies.
* `SessionNeedIdExact`: `need_id` is on exactly when some property needs an
  identifier; `ExactInv` adds the shape of the context and of the requests that
  the setters rely on.
* `SessionIdlessIsDefaultOnly` rests on the former and on lemma `ChecksPass`: when
  the first failure of a list of checks is none, every check passes. That lemma
  needs the least element of a set of naturals (`Smallest`), derived from the
  well-foundedness of `<`.
* `SessionSettingsUnique`: a setter that succeeds found no equal property.
* `SessionRepliesInOrder`, for any depth of pipelining. `OrderInv` says it of the
  queue as it is built: the final replies sent so far and the requests still
  queued are together the requests received (`Awaited`), and the strings that are
  not final stand before the answer of a `display` (`Ordered`). The lemmas count the
  final replies of a queue to which a block of strings and an answer is added.
* `SessionErrorUntilClear`, `SessionNothingAfterViolation`: action properties, from
  the types, one lemma for each request.
* `SessionImplementsAbstract`: the initial states map to initial states and each
  step to a step of `AbstractSession` or to a stutter. What each setter adds to the
  items of a context is a lemma (`Adds...`), what each request does under the
  mapping another (`...Maps`).

Actions and backends.

* `InstallTypeOK`, `InstallGrantedIsProfile`, `InstallSuccessIsComplete`,
  `InstallFailureIsClean`, `InstallRemovalIsThorough`, `InstallRetrySucceeds`, for any
  profiles, any number of paths and plugs, and any bound on failures and crashes.
  The invariant says of each place of the call tree what was done before it:
  `InstallProgress` the part of the profile already in force, `RemovalProgress` what
  is already withdrawn, `RetryProgress` that the cleaning of a failed try removes
  what made it fail, `FirstProgress` that the cleaning after a single failure undoes
  exactly what was done. `InstallRemovalIsThorough` states the system that a removal
  leaves as a function of the one it found (`Without`). `InstallAssumption` says that a profile does not have a path
  or the link of a plug twice; this is `SessionSettingsUnique`.
* `SelinuxSuccessIsVerified`, `SelinuxInstallRepairs`: `Seen` is what the verifications
  already found, `Made` and `Undone` the progress of each operation, `Smooth` that one
  without failing call finds everything in order; what they say of an installation, but
  what `Seen` says, is for a profile whose labels are defined. `SelinuxAssumption` says the same of
  the paths.

Client library, command line, daemon.

* `ClientTypeOK`, `ClientNothingInFlight`, `ClientActionAppliesAcked`: `Flight` tells
  for every moment of a call what the connection in use holds (one request, or the
  replies to it, or nothing), `Phases` what a state of the handle says of its
  connection; the context of a connection in use that is not in error is what was
  acknowledged. All this is asked of connections on which no call failed while the
  daemon had them (`faults = 0`), whatever happened on former ones: `connection`
  empties the buffers.
* `CmdActionIsWhole`, for any lines. On the invariant of the library stands `Track`:
  at any time what was acknowledged is what the line said, or no action can succeed
  before the program clears or resets (`Doomed`), or a call failed on the live
  connection. `LineAssumption` says that words are
  strings and that `SettingOf` is defined for every complete command that can be cut
  from the line; the lemmas on `Part`, `av` and `plink` show that what is executed is
  always cut from it, however separators and incomplete commands shift the words.
* `DaemonServesAsConfigured`, for any number of daemons, any depth of the directory and
  any command lines (`DaemonAssumption` gives their types): each process by itself
  satisfies `Good`, what its identity and capabilities are after each call, and who
  owns the directory once it was handed over or which mark in `hit` tells that
  another program interfered.

Protocol codec (`ProtAssumption`: the three special characters differ, are no
letters, and a record is neither without field nor one empty field).

* `CodecRoundTrip`: the bytes put for any record end it once, at the last of them,
  and decode to the record. The inductions over the characters of a field and the
  fields of a record are done on the least counterexample (`NatSet`); `FlattenSeq` and
  `FoldLeft` are first shown to satisfy their recursive equations (`FlattenAppend`,
  `DecAppend`). `Clean` and `Escaping` are the two states in which the decoder can be
  after a part of a record; `Lone` tells that the last character was an escape put
  alone, which is only so before a letter, so that it decodes to itself;
  `OddIsEscaping` says that the parity of escapes that `buf_scan_end_record` counts
  backwards is the state that `buf_get_fields` has going forwards.
* `ProtTypeOK`, `ProtStreamIntact`, `ProtTransparent`, `ProtNeverOversize`, for any size
  of the buffers and of the socket, any characters and any records. `Held` says that
  the circular buffer gives back what was put at any position. The invariant adds
  that all bytes of the output buffer are of whole records, that an accepted record
  fits a buffer, and `Scanned`: before `inpos` no record ends, or the first one ends
  at it.

Path normalisation, for any characters, any path and any size of the buffer but 0
(`PathAssumption`: NUL and what an unwritten byte holds are no characters of a path).

* `PathTypeOK`, `PathFitsWhenShort`: `Short` says that what is written, with the separator
  that is due, is no longer than what was read.
* `PathAbsoluteIsStandard`. While the loop runs `Follows` holds: what was read of an
  absolute path leads to a name in a directory (`LeadsTo`, the state of the fold that
  defines the reference). Between two names the buffer spells the directory after
  that name was entered; within a name, the directory and the part of the name, which
  what follows keeps from being `.` or `..` (`Started`, the look-ahead of the code).
  This is asked only while the length is within the buffer, as the loop goes back
  only there. Names have no slash (`Plain`), so that going back to the last separator
  removes exactly the last one (`Above`).
* `StandardIsCanonical`, about the reference alone: its spelling leads to the same
  names as the path, so that the duplicates that `context_add_path` finds by
  comparing spellings are the paths of one file, symbolic links aside.

Only model-checked: what is temporal (`ViolationDisconnects`, `RequestsRead`,
`ConnectionsAccepted`, `StopsWhenQuiet`, `FlushEnds`, `CallsReturn`, `LineIsDone`,
`StartServes`), since liveness under fairness is out of the prover's reach. Every
invariant and every action property of the passing runs is proved.

## 5. What is not modelled, and the plan

In this order:

1. A composition of `Server`, `Session` and `Install` in which the time of a
   request is that of its steps and a crash loses every connection.
2. Several applications, and the truncation of labels, in both backends.
3. `error_message` of the client library, and `Session` in the place of the
   reduced daemon of `ClientLib`.

Left out for good: TCP sockets, which no default build of the daemon uses;
printing, help and version; reading of the interactive input; the simulations
used by tests; `mustach.c`, which is vendored. Clock jumps (`time` is not
monotonic) are not modelled.
