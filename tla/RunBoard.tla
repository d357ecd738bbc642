------------------------------ MODULE RunBoard ------------------------------
(***************************************************************************)
(* What the admin page may show of verification runs, whoever starts and   *)
(* ends them: one run at a time, whose count only grows, which is shown    *)
(* cancelled only after a stop was asked for, and completed only when every *)
(* job was counted.  VerifierRuns implements it by the latest row.         *)
(***************************************************************************)
EXTENDS Naturals

VARIABLES shown, done, of
vars == <<shown, done, of>>

Init == shown = "idle" /\ done = 0 /\ of = 0

Live == shown \in {"running", "cancel_requested"}

\* A new run; one that was still shown live is interrupted by it.
Start == shown' = "running" /\ done' = 0 /\ of' \in Nat \ {0}

AskStop == shown = "running" /\ shown' = "cancel_requested" /\ UNCHANGED <<done, of>>

Progress == Live /\ done' \in done .. of /\ UNCHANGED <<shown, of>>

Cancel ==
    /\ shown = "cancel_requested" /\ shown' = "cancelled"
    /\ done' \in done .. of /\ UNCHANGED of

\* Also after a stop that came too late.
Complete == Live /\ shown' = "completed" /\ done' = of /\ UNCHANGED of

Next == Start \/ AskStop \/ Progress \/ Cancel \/ Complete
Spec == Init /\ [][Next]_vars
=============================================================================
