------------------------------- MODULE PathStd -------------------------------
(***************************************************************************)
(* One call of path_std of src/src/path-utils.c, the normalisation of the  *)
(* paths that a client gives: an iteration of its loop is a step.  The     *)
(* result is compared with a reference that enters the names of the path   *)
(* one after the other.                                                    *)
(***************************************************************************)
EXTENDS Naturals, Sequences, SequencesExt

CONSTANTS
    Names,        \* ordinary characters
    MaxLength,    \* bound on the length of the paths given
    Size,         \* bytes of the buffer, MAX_SIZE_PATH + 1 for the callers
    NUL,          \* the byte '\0'
    Dead          \* what the buffer holds before it is written

Chars == Names \cup {"/", "."}
Strings == UNION {[1..n -> Chars] : n \in 0..MaxLength}

ASSUME PathAssumption ==
    /\ MaxLength \in Nat /\ Size \in Nat \ {0}
    /\ NUL \notin Chars /\ Dead \notin Chars \cup {NUL}
    /\ Names \cap {"/", "."} = {}

VARIABLES
    input,        \* the argument path of the call
    path,         \* what is left to read of it
    buffer,       \* [0..Size-1 -> bytes]
    len, ps, sd,  \* the local variables of path_std
    pc            \* "loop" or "done", the result is then len

vars == <<input, path, buffer, len, ps, sd, pc>>

(* path[n] in the code, which may look at the terminating NUL. *)
At(n) == IF n < Len(path) THEN path[n + 1] ELSE NUL
Skip(n) == path' = SubSeq(path, n + 1, Len(path))
fps == input # <<>> /\ input[1] = "/"
Ends(c) == c \in {"/", NUL}

Init ==
    /\ input \in Strings /\ path = input
    /\ buffer = [i \in 0..Size - 1 |-> Dead]
    /\ len = 0 /\ ps = FALSE /\ sd = TRUE /\ pc = "loop"

-----------------------------------------------------------------------------
Slash ==
    /\ pc = "loop" /\ At(0) = "/"
    /\ ps' = TRUE /\ sd' = TRUE /\ Skip(1)
    /\ UNCHANGED <<input, buffer, len, pc>>

IsDot == sd /\ At(0) = "." /\ Ends(At(1))
IsDotDot == sd /\ At(0) = "." /\ At(1) = "." /\ Ends(At(2))

(* "./" or a final ".": the slash that follows is skipped with it. *)
Dot ==
    /\ pc = "loop" /\ IsDot
    /\ Skip(IF At(1) = NUL THEN 1 ELSE 2)
    /\ UNCHANGED <<input, buffer, len, ps, sd, pc>>

(* Faulty: the separator is kept. *)
Parent_kept(n) ==
    LET separators == {k \in 0..n - 1 : buffer[k] = "/"}
    IN  IF separators = {} THEN 0
        ELSE 1 + CHOOSE k \in separators : \A j \in separators : j <= k

(* Where the last component written starts, its separator included. *)
Parent(n) ==
    LET separators == {k \in 0..n - 1 : buffer[k] = "/"}
    IN  IF separators = {} THEN 0
        ELSE CHOOSE k \in separators : \A j \in separators : j <= k

DotDot ==
    /\ pc = "loop" /\ IsDotDot
    /\ len' = IF len <= Size THEN Parent(len) ELSE len
    /\ Skip(IF At(2) = NUL THEN 2 ELSE 3)
    /\ ps' = (len' > 0 \/ fps)
    /\ UNCHANGED <<input, buffer, sd, pc>>

(* Faulty: the size is not looked at. *)
Put_past(buf, at, c) == (at :> c) @@ buf

(* A write within the buffer only. *)
Put(buf, at, c) == IF at < Size THEN [buf EXCEPT ![at] = c] ELSE buf
Separator(buf) == IF ps THEN Put(buf, len, "/") ELSE buf

(* Faulty: always after a separator. *)
Start_next == len + 1

Start == IF ps THEN len + 1 ELSE len

Character ==
    /\ pc = "loop" /\ At(0) \notin {"/", NUL} /\ ~IsDot /\ ~IsDotDot
    /\ buffer' = Put(Separator(buffer), Start, At(0))
    /\ len' = Start + 1
    /\ ps' = FALSE /\ sd' = FALSE /\ Skip(1)
    /\ UNCHANGED <<input, pc>>

(* The end of the path: a separator only for the root, "." for nothing. *)
Finish ==
    /\ pc = "loop" /\ At(0) = NUL
    /\ pc' = "done"
    /\ \/ /\ len > 0
          /\ buffer' = Put(buffer, len, NUL) /\ UNCHANGED len
       \/ /\ len = 0
          /\ buffer' = Put(Put(buffer, 0, IF ps THEN "/" ELSE "."), 1, NUL)
          /\ len' = 1
    /\ UNCHANGED <<input, path, ps, sd>>

Done == pc = "done" /\ UNCHANGED vars

Next == Slash \/ Dot \/ DotDot \/ Character \/ Finish \/ Done

Spec == Init /\ [][Next]_vars

-----------------------------------------------------------------------------
(* The reference: the names between the slashes are entered one after the  *)
(* other, an empty one or "." where one is, ".." from the directory above. *)
Enter(dir, name) ==
    CASE name \in {<<>>, <<".">>} -> dir
      [] name = <<".", ".">> -> IF dir = <<>> THEN dir ELSE Front(dir)
      [] OTHER -> Append(dir, name)

(* The names entered so far and the one being read. *)
Read(at, c) ==
    IF c = "/" THEN [dir |-> Enter(at.dir, at.name), name |-> <<>>]
    ELSE [dir |-> at.dir, name |-> Append(at.name, c)]

Walk(p) == FoldLeft(Read, [dir |-> <<>>, name |-> <<>>], p)

Spelling(names) == FlattenSeq([n \in DOMAIN names |-> <<"/">> \o names[n]])

(* The standard spelling of the file that an absolute path names. *)
Standard(p) ==
    LET names == Enter(Walk(p).dir, Walk(p).name)
    IN  IF names = <<>> THEN <<"/">> ELSE Spelling(names)

Result == [i \in 1..len |-> buffer[i - 1]]

-----------------------------------------------------------------------------
(* Properties. *)

(* path_std writes in its buffer only, and reads of it only what it wrote. *)
TypeOK ==
    /\ path \in Seq(Chars) /\ len \in Nat
    /\ buffer \in [0..Size - 1 -> Chars \cup {NUL, Dead}]
    /\ \A i \in 0..Size - 1 : i < len => buffer[i] # Dead

(* What path_std makes of an absolute path is, when it says that it fits   *)
(* the buffer, the standard spelling of the file that the path names,      *)
(* terminated: whatever the dots, the repeated slashes and the lengths     *)
(* that the buffer went through.                                           *)
AbsoluteIsStandard ==
    pc = "done" /\ fps /\ len < Size =>
        Result = Standard(input) /\ buffer[len] = NUL

(* A path that is shorter than the buffer is never refused as too long:    *)
(* the lengths of path_std never exceed what it has read.                  *)
FitsWhenShort == pc = "done" /\ Len(input) < Size /\ Size > 1 => len < Size
=============================================================================
