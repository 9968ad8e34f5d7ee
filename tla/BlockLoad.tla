----------------------------- MODULE BlockLoad -----------------------------
(***************************************************************************)
(* What the concurrent injection of a repository database promises: the    *)
(* rows of a block appear in its table all at once or not at all, and a    *)
(* load that is reported as good has loaded every block.                   *)
(***************************************************************************)
EXTENDS Naturals

CONSTANTS Blocks, Rows

VARIABLES rows, verdict

Init == rows = [b \in Blocks |-> 0] /\ verdict = "none"

\* A load starts from empty tables, as far as it gets in dropping the old ones.
Start ==
  /\ rows' = [b \in Blocks |-> 0]
  /\ verdict' = "none"

StartFails ==
  /\ \E dropped \in SUBSET Blocks :
       rows' = [b \in Blocks |-> IF b \in dropped THEN 0 ELSE rows[b]]
  /\ verdict' = "raised"

Load(b) ==
  /\ verdict = "none" /\ rows[b] = 0
  /\ rows' = [rows EXCEPT ![b] = Rows]
  /\ UNCHANGED verdict

Succeed ==
  /\ verdict = "none" /\ \A b \in Blocks : rows[b] = Rows
  /\ verdict' = "ok" /\ UNCHANGED rows

Fail == verdict = "none" /\ verdict' = "raised" /\ UNCHANGED rows

Next == Start \/ StartFails \/ Succeed \/ Fail \/ \E b \in Blocks : Load(b)

Spec == Init /\ [][Next]_<<rows, verdict>>
=============================================================================
