------------------------------ MODULE MCDaemon ------------------------------
(***************************************************************************)
(* A small instance of Daemon: every socket, every way to give the user    *)
(* and the group, started by root, by systemd or by someone else.          *)
(***************************************************************************)
EXTENDS Daemon

Options(user, group, groups, socket, makesockdir) ==
    [user |-> user, group |-> group, groups |-> groups, socket |-> socket,
     makesockdir |-> makesockdir, ownsockdir |-> makesockdir,
     keepgoing |-> FALSE, offline |-> FALSE, shutoff |-> Unset]

Service == Options("slm", "slm", <<"cynagora">>, "path", FALSE)
Own == Options("7", Unset, <<"7", "cynagora">>, "path", TRUE)
Named == Options("slm", Unset, NoGroups, "abstract", FALSE)

MCStarts ==
    [as : {"service"}, opt : {Service}]
    \cup [as : {"root"},
          opt : {Own, Named,
                 [Own EXCEPT !.user = "slm", !.keepgoing = TRUE],
                 [Service EXCEPT !.socket = "sd", !.shutoff = "never"],
                 [Options(Unset, Unset, NoGroups, "path", FALSE) EXCEPT !.offline = TRUE],
                 Options("", "nosuch", NoGroups, "path", FALSE)}]
    \cup [as : {"other"}, opt : {Own, [Service EXCEPT !.keepgoing = TRUE]}]
=============================================================================
