------------------------------- MODULE MCLibrary -------------------------------
(***************************************************************************)
(* The documents that TLC imports: one that is complete and allows raw     *)
(* I/O, and one for each section whose members may be missing.             *)
(***************************************************************************)
EXTENDS Library, TLC

MCDocs == {"raw", "noSafety", "noRetry"}
MCRawDocs == {"raw", "noRetry"}
MCLacks == [doc \in MCDocs \cup {"packaged"} |->
              CASE doc = "noSafety" -> "safety" [] doc = "noRetry" -> "policy"
                [] OTHER -> "nothing"]
Symmetry == Permutations(Aliases) \cup Permutations(Resources)
=============================================================================
