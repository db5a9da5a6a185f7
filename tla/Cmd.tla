--------------------------------- MODULE Cmd ---------------------------------
(***************************************************************************)
(* The command line client, src/src/main-sec-lsm-manager-cmd.c, composed   *)
(* with the client library (module ClientLib) and the daemon under it.     *)
(* The words of the command line, or of a line of the input, are cut in    *)
(* commands by do_any and do_all; a command is one call of the library,    *)
(* whose steps and failures are those of ClientLib.                        *)
(***************************************************************************)
EXTENDS ClientLib

CONSTANTS
    Inputs,       \* lines of words, each as the commands that its author means
    SettingOf     \* the setting that an id, path, plug or permission command gives

(* How many words each command takes at most; all but log take as many. *)
Argc == [clear |-> 1, display |-> 1, install |-> 1, uninstall |-> 1, reset |-> 1,
         log |-> 2, id |-> 2, permission |-> 2, path |-> 3, plug |-> 4]
Setters == {"id", "permission", "path", "plug"}
Topics == DOMAIN Argc \cup {"quit", "help"}

ASSUME CmdAssumption ==
    /\ \A m \in Inputs : \A i \in DOMAIN m : m[i] # <<>>
    /\ \A words \in DOMAIN SettingOf : SettingOf[words] \in Settings

VARIABLES
    meant,        \* the commands that the author of the line means
    quit,         \* FALSE with --keep-going and for lines of the input
    rest,         \* the words that are left, ac and av of do_all
    current,      \* the words of the command that calls the library, or <<>>
    code,         \* "none" or the exit status
    trace         \* the commands that were executed, [words, rc, profile, faults]

cmdvars == <<meant, quit, rest, current, code, trace>>
allvars == <<vars, cmdvars>>

CmdInit ==
    /\ Init
    /\ meant \in Inputs /\ quit \in BOOLEAN
    /\ rest = FlattenSeq(meant) /\ current = <<>> /\ code = "none" /\ trace = <<>>

(* do_any skips separators, and does not count them in what it returns. *)
ISSEP(word) == word = ";"
av == SubSeq(rest, Min({Len(rest) + 1} \cup {i \in DOMAIN rest : ~ISSEP(rest[i])}),
             Len(rest))

(* The words of a command end at a separator. *)
plink(maxi) ==
    SubSeq(av, 1, Min({maxi, Len(av)} \cup {i - 1 : i \in {j \in DOMAIN av : ISSEP(av[j])}}))

-----------------------------------------------------------------------------
(* Leaving, with the end of the connection. *)
_exit_(status) ==
    /\ sec_lsm_manager_disconnect
    /\ code' = status /\ current' = <<>>
    /\ UNCHANGED <<meant, quit, rest>>

(* Faulty: the status of the last command is not looked at. *)
do_all_blind(used, status) ==
    /\ rest' = SubSeq(rest, used + 1, Len(rest)) /\ current' = <<>>
    /\ UNCHANGED <<vars, meant, quit, code>>

(* The loop of do_all after a command that used some words: without        *)
(* keep-going, an error ends the program.                                  *)
do_all(used, status) ==
    \/ /\ quit /\ (used <= 0 \/ status = "error")
       /\ _exit_("failure")
    \/ /\ ~quit \/ (used > 0 /\ status = "ok")
       /\ rest' = SubSeq(rest, used + 1, Len(rest)) /\ current' = <<>>
       /\ UNCHANGED <<vars, meant, quit, code>>

Log(words, rc, profile) ==
    trace' = Append(trace, [words |-> words, rc |-> rc, profile |-> profile,
                            faults |-> faults])

Running == code = "none" /\ current = <<>> /\ rest # <<>>
Has(words) == Running /\ av # <<>> /\ av[1] \in words

(* All the words are used. *)
main_ends ==
    /\ code = "none" /\ current = <<>> /\ rest = <<>>
    /\ _exit_("success") /\ UNCHANGED trace

(* Only separators are left. *)
do_nothing == Running /\ av = <<>> /\ do_all(0, "ok") /\ UNCHANGED trace

-----------------------------------------------------------------------------
request(words) == IF words[1] \in Setters THEN SettingOf[words] ELSE words[1]

Valid(words) ==
    \/ words[1] = "log" /\ (Len(words) = 2 => words[2] \in {"on", "off"})
    \/ /\ words[1] # "log" /\ Len(words) = Argc[words[1]]
       /\ words[1] \in Setters => words[2] # ""

(* A command is cut from a line; one that sets something has its setting. *)
ASSUME LineAssumption ==
    \A m \in Inputs :
        /\ FlattenSeq(m) \in Seq(STRING)
        /\ \A i \in 1..Len(FlattenSeq(m)) : \A j \in i..Len(FlattenSeq(m)) :
              LET words == SubSeq(FlattenSeq(m), i, j)
              IN  /\ words[1] \in Setters /\ Valid(words)
                  /\ \A k \in DOMAIN words : ~ISSEP(words[k])
                  => words \in DOMAIN SettingOf

Command == plink(Argc[av[1]])

(* do_id, do_path, do_plug, do_permission, do_install, do_uninstall,       *)
(* do_clear, do_display, do_log: the library is called...                  *)
do_call ==
    /\ Has(DOMAIN Argc \ {"reset"}) /\ Valid(Command)
    /\ sync_process(request(Command))
    /\ current' = Command
    /\ UNCHANGED <<meant, quit, rest, code, trace>>

(* ... and it returns. *)
show_status ==
    /\ code = "none" /\ current # <<>> /\ call.pc = "idle"
    /\ Log(current, result.rc, result.profile)
    /\ do_all(Len(current), IF result.rc = "ok" THEN "ok" ELSE "error")

(* Missing or empty arguments. *)
not_enough_arguments ==
    /\ Has(DOMAIN Argc \ {"log"}) /\ ~Valid(Command)
    /\ Log(Command, "EINVAL", {})
    /\ do_all(Len(Command), "error")

(* A bad argument of log is no error. *)
do_log_bad ==
    /\ Has({"log"}) /\ ~Valid(Command)
    /\ do_all(Len(Command), "ok") /\ UNCHANGED trace

(* Faulty: the connection stays. *)
do_reset_kept ==
    /\ Has({"reset"})
    /\ rest' = Tail(rest) /\ Log(Command, "ok", {})
    /\ UNCHANGED <<vars, meant, quit, current, code>>

do_reset ==
    /\ Has({"reset"})
    /\ sec_lsm_manager_disconnect
    /\ rest' = Tail(rest) /\ Log(Command, "ok", {})
    /\ UNCHANGED <<meant, quit, current, code>>

do_quit == Has({"quit"}) /\ _exit_("success") /\ UNCHANGED trace

do_help ==
    /\ Has({"help", "?"})
    /\ do_all(IF Len(av) > 1 /\ av[2] \in Topics THEN 2 ELSE 1, "ok")
    /\ UNCHANGED trace

(* An unknown command is no error either. *)
unknown_command ==
    /\ Running /\ av # <<>> /\ av[1] \notin Topics \cup {"?"}
    /\ do_all(1, "ok") /\ UNCHANGED trace

Program ==
    \/ main_ends \/ do_nothing \/ do_call \/ show_status
    \/ not_enough_arguments \/ do_log_bad
    \/ do_reset \/ do_quit \/ do_help \/ unknown_command

LibraryStep == Library /\ UNCHANGED cmdvars
FailureStep == Failure /\ UNCHANGED cmdvars
DaemonStep(c) == (onrequest(c) \/ daemon_closes(c)) /\ UNCHANGED cmdvars

CmdNext == Program \/ LibraryStep \/ FailureStep \/ \E c \in Fds : DaemonStep(c)

(* The fairness of ClientLib, with the program as its application. *)
CmdSpec ==
    /\ CmdInit /\ [][CmdNext]_allvars
    /\ WF_allvars(Program) /\ WF_allvars(LibraryStep)
    /\ \A c \in Fds : WF_allvars(onrequest(c) /\ UNCHANGED cmdvars)

-----------------------------------------------------------------------------
(* Properties. *)

IsForget(entry) ==
    entry.words[1] = "reset" \/ (entry.words[1] = "clear" /\ entry.rc = "ok")

(* Refused by the program or by the library, or no daemon to connect to. *)
Unsent(entry) == entry.rc \in {"EINVAL", "EMSGSIZE", "errno"}

(* The settings of the commands executed before the i-th one, since the    *)
(* last that forgets them, but those that were never sent.                 *)
SaidBefore(i) ==
    LET forgets == {j \in 1..i - 1 : IsForget(trace[j])}
        said == {j \in Max({0} \cup forgets) + 1..i - 1 :
                   trace[j].words[1] \in Setters /\ ~Unsent(trace[j])}
    IN  {request(trace[j].words) : j \in said}

(* From the command line to the daemon: an install or uninstall command    *)
(* that succeeds is applied to exactly the settings that the line gave     *)
(* since its last clear or reset and that were sent.  Even when the        *)
(* program keeps going after errors, none that was refused by the daemon   *)
(* or lost with a connection is silently left out of the profile; but the  *)
(* program that keeps going after a failure on a live connection reads     *)
(* the status of an earlier command.                                       *)
ActionIsWhole ==
    \A i \in DOMAIN trace :
        trace[i].words[1] \in Actions /\ trace[i].rc = "ok" /\ trace[i].faults = 0
            => trace[i].profile = SaidBefore(i)

(* A line of complete commands, none of which is a separator, a request to *)
(* quit or for help, executed without keep-going.                          *)
Plain ==
    quit /\ \A i \in DOMAIN meant : /\ meant[i][1] \in DOMAIN Argc
                                    /\ Valid(meant[i])
                                    /\ Len(meant[i]) = Argc[meant[i][1]]

(* The outcome of a line: all its commands were executed, in order, each   *)
(* once, with success, or those before the one that failed.                *)
Outcome ==
    LET ok(i) == trace[i].rc = "ok"
        n == Len(trace)
    IN
    /\ n <= Len(meant) /\ \A i \in 1..n : trace[i].words = meant[i]
    /\ \/ code = "success" /\ n = Len(meant) /\ \A i \in 1..n : ok(i)
       \/ code = "failure" /\ n > 0 /\ ~ok(n) /\ \A i \in 1..n - 1 : ok(i)

(* The program ends, even when the daemon leaves or a call of the system   *)
(* fails during any command, and its exit status tells what was done       *)
(* (CmdSpec).                                                              *)
LineIsDone == Plain ~> Outcome
=============================================================================
