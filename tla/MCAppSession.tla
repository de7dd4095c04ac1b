---------------------------- MODULE MCAppSession ----------------------------
(* Small instances of AppSession for TLC. *)
EXTENDS AppSession, TLC

CONSTANTS v1, v2

(* Every way the gems of the group can be enabled. *)
AllGemLists == {enabled : enabled \in SUBSET Gems}

(* The gems of the group have ids of their own, or all the same one. *)
OwnGemIds == [g \in Gems |-> g]
OneGemId == [g \in Gems |-> CHOOSE h \in Gems : TRUE]

(* One option edited, and a preset of two entries. *)
EditAndPreset == {<<v1>>, <<v1, v2>>}

(* Handlers do not look at the slot they run in. *)
Symmetry == Permutations(Slots)
=============================================================================
