----------------------------- MODULE Relocation ------------------------------
(* What moving documents between two collections promises: each of them is    *)
(* copied, then archived; one is gone only if a copy of it was lost, and      *)
(* neither an archived nor a lost one changes its place again.                *)
CONSTANT Item

VARIABLES place, excused

relocationVars == <<place, excused>>

RelocationInit ==
    /\ place = [x \in Item |-> "stored"]
    /\ excused = {}

\* Where an item may go in a step that excuses the items of E.
MayGo(from, x, E) ==
    CASE from = "stored"   -> {"stored", "copied"} \union (IF x \in E THEN {"gone"} ELSE {})
      [] from = "copied"   -> {"copied", "archived"}
                                  \union (IF x \in E THEN {"stored", "gone"} ELSE {})
      [] from = "archived" -> {"archived"}
      [] from = "gone"     -> {"gone"}

Relocate ==
    /\ excused \subseteq excused'
    /\ excused' \subseteq Item
    /\ place' \in [Item -> {"stored", "copied", "archived", "gone"}]
    /\ \A x \in Item : place'[x] \in MayGo(place[x], x, excused')

RelocationSpec == RelocationInit /\ [][Relocate]_relocationVars
=============================================================================
