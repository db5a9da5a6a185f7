------------------------------ MODULE MCSession ------------------------------
(***************************************************************************)
(* Small instances of Session.                                             *)
(***************************************************************************)
EXTENDS SessionAbstraction

(* Identifiers of two and three characters, one with a refused character. *)
aa == <<"a", "a">>
bbb == <<"b", "b", "b">>
a_ == <<"a", BadChar>>
OneId == {aa, a_}
TwoIds == {aa, bbb}

(* "exp" is the permission that a public plug exported to aa requires,     *)
(* "Exp" the same name in another case; "x" is too short.                  *)
MCFoldCase == [p \in Permissions |-> IF p = "x" THEN "x" ELSE "exp"]
MCExportPermission(impid, scope) == IF scope = "public" THEN "exp" ELSE "x"

(* "/d" and "//d" are the same directory. *)
MCStdPath == [p \in RawPaths |->
    CASE p = "//d" -> "/d" [] p = "rel" -> Relative [] p = "/lll" -> TooLong
      [] OTHER -> p]

MCBigItems == {<<"plug", [expdir |-> "/e", impid |-> aa, impdir |-> "/d"]>>}

=============================================================================
