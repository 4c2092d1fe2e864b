------------------------------ MODULE Lifecycle ------------------------------
(***************************************************************************)
(* The action lifecycle of AWP, as src/awp/lifecycle.py loads it from the  *)
(* transition table bundled in src/awp/_spec/lifecycle.json.               *)
(***************************************************************************)

\* Class of each state in the table.
PreExecution == {"pending_approval", "queued", "accepted"}
Execution    == {"executing", "cancelling"}
Terminal     == {"rejected", "completed", "failed", "preempted", "cancelled"}

\* The states an action can have; "submitted" is the agent's alone.
ActionState == {"submitted"} \union PreExecution \union Execution \union Terminal

\* The reason a status gives; "" when it gives none.
NoReason == ""

Cancels  == {"cancelled_by_agent", "e_stop", "safe_state", "session_closed",
             "world_reset", "transferred", "superseded"}
Rechecks == {"deadline_exceeded", "stale_intent", "forbidden", "envelope"}
Aborts   == {"cancelled_by_agent", "session_closed", "world_reset"}

\* One row of the table: an empty set of reasons is a row without "reasons",
\* which restricts nothing.
Row(from, to, reasons) == [from |-> from, to |-> to, reasons |-> reasons]

\* The rows a status may report: all but submitted -> rejected, which reaches the
\* agent as an error response ("wire": "error").
Transitions ==
  { Row("submitted", "pending_approval", {}),
    Row("submitted", "queued", {}),
    Row("submitted", "accepted", {}),
    Row("pending_approval", "queued", {}),
    Row("pending_approval", "accepted", {}),
    Row("pending_approval", "rejected",
        Rechecks \union {"approval_denied", "approval_timeout"}),
    Row("queued", "accepted", {}),
    Row("queued", "rejected", Rechecks),
    Row("accepted", "executing", {}),
    Row("accepted", "rejected", {"deadline_exceeded", "stale_intent"}),
    Row("executing", "completed", {}),
    Row("executing", "failed", {"deadline_exceeded", "e_stop", "connection_lost",
                                "envelope", "watchdog", "world_error"}),
    Row("executing", "preempted", {"transferred"}),
    Row("executing", "cancelling", Aborts),
    Row("cancelling", "cancelled", Aborts),
    Row("cancelling", "failed", {"e_stop", "connection_lost", "abort_failed",
                                 "world_error"}) }
  \union { Row(s, "cancelled", Cancels) : s \in PreExecution }

\* Whether a status may move an action from source to target, for that reason.
\* (Vendor reasons, which the code always lets through, are not modelled.)
Permitted(source, target, reason) ==
  \E t \in Transitions :
    /\ t.from = source
    /\ t.to = target
    /\ reason = NoReason \/ t.reasons = {} \/ reason \in t.reasons
=============================================================================
