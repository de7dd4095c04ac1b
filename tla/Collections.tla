---------------------------- MODULE Collections ----------------------------
(***************************************************************************)
(* What JavaScript's Map, object spread and Array.prototype.filter do, as  *)
(* the modules that are proved about use them: the operators @@, :> and    *)
(* SelectSeq of the standard modules are closed to the proof system.       *)
(***************************************************************************)
EXTENDS Integers, Sequences

(* map.set(key, value) *)
Put(map, key, value) ==
  [k \in DOMAIN map \cup {key} |-> IF k = key THEN value ELSE map[k]]

(* {...base, ...over} *)
Spread(base, over) ==
  [k \in DOMAIN base \cup DOMAIN over |-> IF k \in DOMAIN over THEN over[k] ELSE base[k]]

(* The elements of keep among the first i of a list, for every i. *)
KeptUpTo(list, keep) ==
  LET kept[i \in 0 .. Len(list)] ==
        IF i = 0 THEN <<>>
        ELSE IF list[i] \in keep THEN Append(kept[i - 1], list[i]) ELSE kept[i - 1]
  IN kept

Kept(list, keep) == KeptUpTo(list, keep)[Len(list)]

(* list.filter(test) *)
Filter(list, Test(_)) == Kept(list, {x \in {list[i] : i \in DOMAIN list} : Test(x)})

(* The elements at the given places of a list, in their order. *)
Picked(list, places) ==
  LET kept == Kept([i \in DOMAIN list |-> i], places) IN [k \in DOMAIN kept |-> list[kept[k]]]
=============================================================================
