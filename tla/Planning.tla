------------------------------ MODULE Planning ------------------------------
(***************************************************************************)
(* execute_query up to the first RPC, from the text of a query: the parser *)
(* of QueryText, then the validation and the planning of Planner.          *)
(***************************************************************************)
EXTENDS Planner, QueryText

VARIABLE source           \* the text of the query, whatever was sent
vars == <<source, plannerVars>>

Init ==
  /\ source \in Seq(Range(source))
  /\ PlannerInit

\* The walk over a match panics on a number its type cannot hold.
Parse ==
  /\ stage = "received"
  /\ \E m \in {QueryAt(source)} :
     IF ~ Found(m) THEN stage' = "refused" /\ UNCHANGED query
     ELSE IF ~ Fits(m.val, Len(source)) THEN stage' = "panicked" /\ UNCHANGED query
     ELSE stage' = "parsed" /\ query' = m.val
  /\ UNCHANGED <<source, plan>>

Next ==
  \/ Parse
  \/ /\ Validate \/ MakePlan \/ Panic
     /\ UNCHANGED source

Spec == Init /\ [][Next]_vars

----------------------------------------------------------------------------
(* Properties.                                                             *)

\* What the parser hands on is a query, and what follows is what Planner does
\* with any: whatever holds of every query planned holds of every text.
PlansWhatItReads == PlannerSpec

=============================================================================
