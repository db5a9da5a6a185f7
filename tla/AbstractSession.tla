--------------------------- MODULE AbstractSession ---------------------------
(***************************************************************************)
(* What a session of the daemon promises to its client, as the rules of    *)
(* QA/SEC-LSM-MGR.PRO.md state it: the context holds exactly the           *)
(* properties that were acknowledged since the last reset, a failure puts  *)
(* it in error state until the next reset, and an action applies the       *)
(* acknowledged properties, all of them and nothing else.  Requests,       *)
(* replies, buffers and flags do not appear.                               *)
(*                                                                         *)
(* Two promises of the documents are not here, since the code breaks them: *)
(* that a successful action clears the context (Session!ClearedOnSuccess)  *)
(* and that an identifier is read as it was set (Session!IdWasSet).        *)
(***************************************************************************)
CONSTANTS
    Properties,       \* the properties a client may set, <<key, value>>
    Conflict(_, _),   \* two properties of which a context holds only one
    NeedsIdentifier(_) \* properties that no anonymous profile may have

VARIABLES
    props,            \* the acknowledged properties
    error,            \* the context is in error state
    open,             \* the session exists
    done              \* <<operation, properties>> applied by the last step

avars == <<props, error, open, done>>

Nothing == <<"none", {}>>

AInit == props = {} /\ error = FALSE /\ open = TRUE /\ done = Nothing

Accept(p) ==
    /\ open /\ ~error
    /\ \A q \in props : ~Conflict(p, q)
    /\ props' = props \cup {p}
    /\ done' = Nothing /\ UNCHANGED <<error, open>>

Fail ==
    /\ open /\ error' = TRUE
    /\ done' = Nothing /\ UNCHANGED <<props, open>>

Reset ==
    /\ open /\ props' = {} /\ error' = FALSE
    /\ done' = Nothing /\ UNCHANGED open

Identified == \E p \in props : p[1] = "id"

(* The properties are kept, whether the action succeeds or fails. *)
Act(op) ==
    /\ open /\ ~error
    /\ Identified \/ \A p \in props : ~NeedsIdentifier(p)
    /\ done' = <<op, props>>
    /\ error' \in BOOLEAN
    /\ UNCHANGED <<props, open>>

Close ==
    /\ open /\ open' = FALSE
    /\ props' = {} /\ error' = FALSE
    /\ UNCHANGED done

(* A request that only asks for information. *)
Inform == open /\ done' = Nothing /\ UNCHANGED <<props, error, open>>

ANext == \/ \E p \in Properties : Accept(p)
         \/ Fail \/ Reset \/ Inform \/ Close
         \/ \E op \in {"install", "uninstall"} : Act(op)

ASpec == AInit /\ [][ANext]_avars
=============================================================================
