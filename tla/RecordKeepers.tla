---------------------------- MODULE RecordKeepers --------------------------
(***************************************************************************)
(* The components that keep records of their own beside the session: the   *)
(* updater, the dictionary and its review rows, the asset caches, the      *)
(* build tabs.                                                             *)
(***************************************************************************)
EXTENDS Updater, LocalizationPipeline, AssetPipeline, BuildTabs

(* Each of them as it runs by itself: they share no state. *)
RecordKeepersSpec == UpdaterSpec /\ LocSpec /\ AssetSpec /\ TabSpec

(* The types of their records, and what a record promises by itself: the        *)
(* updater's record of the disk, terms under their own ids, indexed files that  *)
(* exist, options of their type.                                                *)
ComponentTypesOK == UpdaterTypeOK /\ LocTypeOK /\ AssetTypeOK /\ TabTypeOK
=============================================================================
