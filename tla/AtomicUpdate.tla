---------------------------- MODULE AtomicUpdate ----------------------------
(***************************************************************************)
(* What an update is promised to be: the active version changes in one     *)
(* step, and only to a version that was vetted beforehand and not dropped  *)
(* since.                                                                  *)
(***************************************************************************)
CONSTANTS Versions, NoVersion

VARIABLES
  active,  \* the version the application starts as
  vetted   \* the version that may replace it, or NoVersion

Init == active \in Versions /\ vetted = NoVersion

Vet == /\ vetted = NoVersion
       /\ vetted' \in Versions
       /\ UNCHANGED active

Drop == vetted' = NoVersion /\ UNCHANGED active

Adopt == /\ vetted # NoVersion
         /\ active' = vetted
         /\ vetted' = NoVersion

Next == Vet \/ Drop \/ Adopt

Spec == Init /\ [][Next]_<<active, vetted>>
=============================================================================
