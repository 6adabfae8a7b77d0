------------------------ MODULE MCPodAdmissionHistory ------------------------
(***************************************************************************)
(* PodAdmissionHistory on the pods and presets of MCPodAdmission.           *)
(***************************************************************************)
EXTENDS MCPodAdmission, PodAdmissionHistory
=============================================================================
