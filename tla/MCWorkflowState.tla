-------------------------- MODULE MCWorkflowState --------------------------
(* Small instances of WorkflowState for TLC. *)
EXTENDS WorkflowState, TLC

Ask(target, field, value) == [target |-> target, field |-> field, value |-> value]

CONSTANTS ideate, plan, delegate, f1, f2, v1, v2

\* ideate may move to plan or to delegate, and plan back to ideate.
Phases == {ideate, plan, delegate}
Edges == {<<ideate, plan>>, <<ideate, delegate>>, <<plan, ideate>>}

\* Transitions and updates that race; two of them put two values in one field.
Mixed == {Ask(plan, None, v1), Ask(delegate, f1, v1), Ask(None, f1, v1),
          Ask(None, f1, v2), Ask(None, f2, v1)}
Updates == {Ask(None, f1, v1), Ask(None, f2, v1)}
TwoValues == {Ask(None, f1, v1), Ask(None, f1, v2)}

AnyCall == Permutations(Setter) \cup Permutations(Reconciler)
=============================================================================
