------------------------- MODULE SessionAbstraction --------------------------
(***************************************************************************)
(* The refinement mapping from Session to AbstractSession: the properties  *)
(* of the abstract session are the items that display would show.          *)
(***************************************************************************)
EXTENDS Session

Items(s) == {s[i] : i \in DOMAIN s}

(* What the identifier buffer can be read as: an identifier that the       *)
(* client sent, followed by what the buffer had after it (setids writes no *)
(* NUL, see IdWasSet).  The refinement takes such a reading for the        *)
(* identifier that was acknowledged, so it says nothing about that tail.   *)
IdReadings ==
    {i \in UNION {[1..n -> IdChars] : n \in 0..MAX_SIZE_ID + 1} :
        \E id \in Ids : Len(id) <= Len(i) /\ SubSeq(i, 1, Len(id)) = id}

AllProperties ==
    {<<"id", i>> : i \in IdReadings} \cup {<<"permission", p>> : p \in Permissions}
    \cup {<<"path", p>> : p \in PathItems}
    \cup {<<"plug", [expdir |-> e, impid |-> i, impdir |-> m]>> :
             e \in Paths, i \in ImpIds, m \in Paths}

InConflict(p, q) ==
    /\ p[1] = q[1]
    /\ \/ p[1] = "id"
       \/ p[1] = "permission" /\ FoldCase[p[2]] = FoldCase[q[2]]
       \/ p[1] = "path" /\ p[2].path = q[2].path
       \/ p[1] = "plug" /\ p[2].impdir = q[2].impdir

WantsId(p) == p[1] \in {"permission", "plug"}
              \/ (p[1] = "path" /\ p[2].type # "default")

Abstract == INSTANCE AbstractSession WITH
    Properties <- AllProperties, Conflict <- InConflict,
    NeedsIdentifier <- WantsId,
    props <- Items(context_visit(ctx)), error <- ctx.error_flag,
    open <- (conn = "open"), done <- <<applied[1], Items(applied[2])>>

(* Every step of the session is a step of the abstract one: settings are   *)
(* recorded when acknowledged and only then, a refusal changes nothing but *)
(* the error state, an action applies what was acknowledged since the last *)
(* clear, and keeps it.                                                    *)
ImplementsAbstract == Abstract!ASpec
=============================================================================
