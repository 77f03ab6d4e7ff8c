--------------------------- MODULE TaskLifecycle ---------------------------
(***************************************************************************)
(* The statuses of a task and the table by which TaskStateMachine          *)
(* (agent/state.py) lets it go from one to another.  Orchestrator refuses  *)
(* the moves that are not in it and shows which of them its loop tries.    *)
(***************************************************************************)
Statuses == {"PENDING", "PLANNING", "AWAITING_AUTHORIZATION", "EXECUTING",
             "VERIFYING", "COMPLETED", "FAILED", "BLOCKED", "RECOVERING",
             "CANCELLED"}

\* Statuses at which transition() stamps completed_at.
Finished == {"COMPLETED", "FAILED", "BLOCKED", "CANCELLED"}

\* The table _ALLOWED_TRANSITIONS, entry by entry.
Allowed ==
    [s \in Statuses |->
        CASE s = "PENDING" ->
                {"PLANNING", "AWAITING_AUTHORIZATION", "EXECUTING", "CANCELLED"}
          [] s = "PLANNING" ->
                {"AWAITING_AUTHORIZATION", "EXECUTING", "BLOCKED", "FAILED", "CANCELLED"}
          [] s = "AWAITING_AUTHORIZATION" ->
                {"AWAITING_AUTHORIZATION", "EXECUTING", "BLOCKED", "FAILED", "CANCELLED"}
          [] s = "EXECUTING" ->
                {"VERIFYING", "FAILED", "CANCELLED", "COMPLETED"}
          [] s = "VERIFYING" ->
                {"COMPLETED", "FAILED", "RECOVERING", "EXECUTING", "AWAITING_AUTHORIZATION"}
          [] s = "FAILED" -> {"RECOVERING", "PLANNING"}
          [] s = "RECOVERING" -> {"EXECUTING", "PLANNING", "FAILED", "COMPLETED"}
          [] OTHER -> {}]
=============================================================================
