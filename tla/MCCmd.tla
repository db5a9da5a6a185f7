-------------------------------- MODULE MCCmd --------------------------------
(***************************************************************************)
(* A small instance of Cmd: every line of up to three commands that build  *)
(* and apply a profile, then install; every line of up to two among the    *)
(* others.                                                                 *)
(***************************************************************************)
EXTENDS Cmd, TLC

Id == <<"id", "a">>
Plug == <<"plug", "/e", "b", "/i">>
Big == <<"permission", "big">>

(* The word that follows an incomplete command is taken for its argument. *)
Swallowed == {"id", "path", "permission", "display", "log", "help", "quit",
              "nosuch", "install", "uninstall"}

MCSettingOf ==
    (Id :> "id_a") @@ (Plug :> "plug_e") @@ (Big :> "perm_big")
    @@ [words \in {"id"} \X Swallowed |-> "id_w"]
    @@ [words \in {"path"} \X {"/d"} \X Swallowed |-> "path_w"]

Building == {Id, Plug, <<"install">>, <<"clear">>, <<"reset">>}
Others == {<<"id">>, <<"id", "">>, <<"path", "/d">>, Big, <<"uninstall">>,
           <<"display">>, <<"log", "on">>, <<"log">>,
           <<"help">>, <<"quit">>, <<"nosuch">>, <<";">>, <<"install">>, Id}

Lines(commands, length) == UNION {[1..n -> commands] : n \in 1..length}

MCInputs ==
    {Append(m, <<"install">>) : m \in Lines(Building, 3)} \cup Lines(Others, 2)
=============================================================================
