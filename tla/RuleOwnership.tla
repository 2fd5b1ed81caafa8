--------------------------- MODULE RuleOwnership ---------------------------
(***************************************************************************)
(* What an activation promises about the rules it makes, without calls,    *)
(* threads or locks: a rule is owned at most once, given up at most once,  *)
(* and what has been given up is cleaned up exactly once.  A rule that was *)
(* built but could not be bound is given up unowned.  Shutting gives up    *)
(* every owned rule in one step, and nothing is built afterwards.          *)
(***************************************************************************)

CONSTANT Rules

VARIABLES
    open,    \* the activation has not been closed
    status   \* what has become of each rule

vars == <<open, status>>

Status == {"unborn", "owned", "leaving", "gone"}

Init == open = TRUE /\ status = [r \in Rules |-> "unborn"]

Move(r, from, to) == status[r] = from /\ status' = [status EXCEPT ![r] = to]

Adopt(r) == open /\ Move(r, "unborn", "owned") /\ UNCHANGED open

Refuse(r) == open /\ Move(r, "unborn", "leaving") /\ UNCHANGED open

GiveUp(r) == open /\ Move(r, "owned", "leaving") /\ UNCHANGED open

Finish(r) == Move(r, "leaving", "gone") /\ UNCHANGED open

Shut ==
    /\ open
    /\ open' = FALSE
    /\ status' = [r \in Rules |-> IF status[r] = "owned" THEN "leaving" ELSE status[r]]

Next ==
    \/ Shut
    \/ \E r \in Rules : Adopt(r) \/ Refuse(r) \/ GiveUp(r) \/ Finish(r)

Spec == Init /\ [][Next]_vars

=============================================================================
