------------------------------ MODULE MCCalls --------------------------------
(***************************************************************************)
(* The algorithms that map one value to another, on small inputs: every call *)
(* of them, compared with a definition of what it is for.                    *)
(***************************************************************************)
EXTENDS Requests, TreeCalls, SourceOrigins, HostBundle, RepoMetadata, SandboxPlan

Init ==
  /\ \/ input \in RequestCases \/ input \in TreeCases \/ input \in OriginCases \/ input \in BundleCases \/ input \in RepoCases \/ input \in SandboxCases
  /\ Unanswered
Next == RequestCall \/ TreeCall \/ OriginCall \/ BundleCall \/ RepoCall \/ SandboxCall
Spec == Init /\ [][Next]_<<input, output, answered>>
=============================================================================
