------------------------------- MODULE MCProt --------------------------------
(***************************************************************************)
(* Small instances of Prot: fields over a letter and the three special     *)
(* characters, a record with too many fields and one too big to be sent.   *)
(***************************************************************************)
EXTENDS Prot

Pairs == [1..2 -> {"x", ESC}] \cup {<<ESC, RS>>, <<"x", FS>>}

MCRecords ==
    {<<s>> : s \in Pairs} \cup {<<<<ESC>>, t>> : t \in {<<>>, <<RS>>, <<"x">>}}
    \cup {<<<<FS>>>>, <<<<"x">>, <<>>, <<"x">>>>, <<<<RS, RS>>, <<FS>>>>}
=============================================================================
