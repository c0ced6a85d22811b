--------------------------- MODULE SocketLifecycle ---------------------------
(***************************************************************************)
(* What a socket unit promises the rest of the manager: the active state  *)
(* it reports through unit_notify (state_translation_table folds the      *)
(* thirteen socket states into five) and whether a failure is latched in  *)
(* its result.                                                            *)
(*                                                                         *)
(* A start job begins a cycle inactive -> activating -> active ->          *)
(* deactivating that ends in inactive or failed.  Within a cycle the      *)
(* unit may skip phases but never moves back, and a failure once latched  *)
(* stays latched until the cycle ends.  An ended cycle says whether it    *)
(* failed: failed exactly when a failure is latched.  reset-failed        *)
(* forgets the failure at any time.                                       *)
(***************************************************************************)
EXTENDS Naturals

VARIABLES
    phase,     \* the UnitActiveState the unit reports
    failure    \* a failure result is latched

lvars == <<phase, failure>>

Phases == {"inactive", "activating", "active", "deactivating", "failed"}

\* The phases in which a cycle has ended and a start job may begin another.
Ends == {"inactive", "failed"}

\* How far along a start/stop cycle a phase lies.
Rank == [inactive |-> 0, failed |-> 0, activating |-> 1, active |-> 2,
         deactivating |-> 3]

\* An ended cycle reports its outcome: failed exactly when a failure is
\* latched.
Settled(p, f) == p \in Ends => (p = "failed" <=> f)

LifecycleTypeOK ==
    /\ phase \in Phases
    /\ failure \in BOOLEAN

Init ==
    /\ phase = "inactive"
    /\ failure = FALSE

\* A start job begins a new cycle; the previous failure is forgotten and the
\* cycle may end, or fail, within the same step.
Begin ==
    /\ phase \in Ends
    /\ phase' \in Phases
    /\ failure' \in BOOLEAN
    /\ Settled(phase', failure')

\* A cycle in progress advances or ends; a latched failure is kept.
Advance ==
    /\ phase \notin Ends
    /\ phase' \in Phases
    /\ phase' \in Ends \/ Rank[phase'] >= Rank[phase]
    /\ failure => failure'
    /\ Settled(phase', failure')

\* reset-failed: the failure is forgotten, a failed unit becomes inactive.
Reset ==
    /\ failure' = FALSE
    /\ phase' = IF phase = "failed" THEN "inactive" ELSE phase

Next == Begin \/ Advance \/ Reset

Spec == Init /\ [][Next]_lvars
=============================================================================
