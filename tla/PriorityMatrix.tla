--------------------------- MODULE PriorityMatrix ---------------------------
(***************************************************************************)
(* Priorities (requests/priority-matrix.ts).  A priority code P0 .. P4 is   *)
(* represented by its rank in PRIORITY_ORDER: 0 is the most urgent.         *)
(***************************************************************************)
EXTENDS Integers

Priority == 0..4

ImpactValue  == {"BLOCAGE_TOTAL", "BLOCAGE_PARTIEL", "DEGRADATION", "AUCUN_IMPACT"}
UrgencyValue == {"CRITIQUE", "ELEVEE", "MODEREE", "FAIBLE"}

(* The four columns of a line of MATRIX, in the order of UrgencyValue.      *)
Line(critique, elevee, moderee, faible, urgency) ==
    CASE urgency = "CRITIQUE" -> critique
      [] urgency = "ELEVEE"   -> elevee
      [] urgency = "MODEREE"  -> moderee
      [] urgency = "FAIBLE"   -> faible

priorityFromMatrix(impact, urgency) ==
    CASE impact = "BLOCAGE_TOTAL"   -> Line(0, 1, 1, 2, urgency)
      [] impact = "BLOCAGE_PARTIEL" -> Line(1, 2, 2, 3, urgency)
      [] impact = "DEGRADATION"     -> Line(2, 2, 3, 4, urgency)
      [] impact = "AUCUN_IMPACT"    -> Line(3, 3, 4, 4, urgency)

computeSystemPriority(impact, urgency, categoryDefault) ==
    LET fromMatrix == priorityFromMatrix(impact, urgency)
    IN  IF categoryDefault < fromMatrix THEN categoryDefault ELSE fromMatrix

isWithinOneLevel(reference, target) ==
    /\ reference - target <= 1
    /\ target - reference <= 1

(***************************************************************************)
(* The priority of a reopened request (transitions.service.ts): one step    *)
(* up the ladder, capped at P1.  P0 and P1 both give P1.                    *)
(***************************************************************************)
bumpPriorityCapP1(current) ==
    IF current \in {0, 1} THEN 1 ELSE current - 1
=============================================================================
