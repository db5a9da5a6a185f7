------------------------------ MODULE MCSelinux ------------------------------
(***************************************************************************)
(* A small instance of Selinux: an upgrade drops a path and makes the      *)
(* other one of the default type.                                          *)
(***************************************************************************)
EXTENDS Selinux

Path(path, type) == [path |-> path, type |-> type]

MCPathSet ==
    [v1 |-> <<Path("d", "public"), Path("x", "exec")>>,
     v2 |-> <<Path("d", "default")>>]
=============================================================================
