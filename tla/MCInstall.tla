------------------------------ MODULE MCInstall ------------------------------
(***************************************************************************)
(* A small instance of Install: two versions of an application, the first  *)
(* with a plug and an executable, and a profile without identifier.        *)
(***************************************************************************)
EXTENDS Install

Path(path, type) == [path |-> path, type |-> type]

first == [id |-> TRUE, permissions |-> {"p", "q"}, plugs |-> <<"l">>,
          paths |-> <<Path("x", "exec")>>]
second == [id |-> TRUE, permissions |-> {"q"}, plugs |-> <<>>,
           paths |-> <<Path("d", "id")>>]
nobody == [id |-> FALSE, permissions |-> {}, plugs |-> <<>>,
           paths |-> <<Path("d", "default")>>]

MCProfiles == {first, second, nobody}
MCPathProperty == [p \in Paths |-> IF p = "d" THEN "dir" ELSE "exec"]
=============================================================================
