------------------------ MODULE MCPodPresetMergeLoop ------------------------
(***************************************************************************)
(* PodPresetMergeLoop on all lists of up to three entries over two names   *)
(* and two paths: enough for a key repeated in the list, in what is        *)
(* injected, and in both, and for a conflict on either key alone.          *)
(***************************************************************************)
EXTENDS PodPresetMergeLoop

MCEntries == [name : {"v", "w"}, path : {"/a", "/b"}]
=============================================================================
