------------------------------ MODULE MCSessions ------------------------------
(***************************************************************************)
(* What a session keeps beside the order of its entries, for TLC:          *)
(* SessionCompaction, SessionMetadata and SessionFiles, side by side in    *)
(* one run.  They share no variable: an initial state picks the one that   *)
(* moves, and the others stay where they begin.                            *)
(***************************************************************************)
EXTENDS SessionCompaction, SessionMetadata, SessionFiles

VARIABLES
    moves           \* "compaction", "metadata" or "files"

(* One model thinks and the settings name the other; one process may lack the first. *)
MCModels == <<"deep", "plain">>
MCLevels == <<"off", "high">>
MCRegistries == {{"deep", "plain"}, {"plain"}}

MCInit ==
    /\ moves \in {"compaction", "metadata", "files"}
    /\ CompactionInit /\ MetadataInit /\ FilesInit
MCNext ==
    \/ moves = "compaction" /\ CompactionNext /\ UNCHANGED <<moves, metaVars, sessionVars>>
    \/ moves = "metadata" /\ MetadataNext /\ UNCHANGED <<moves, compactionVars, sessionVars>>
    \/ moves = "files" /\ FilesNext /\ UNCHANGED <<moves, compactionVars, metaVars>>
MCSpec == MCInit /\ [][MCNext]_<<compactionVars, metaVars, sessionVars, moves>>
=============================================================================
