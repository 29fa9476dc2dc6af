----------------------------- MODULE MCGitCache -----------------------------
(***************************************************************************)
(* Three changesets in one cache: one with a submodule, a later one with   *)
(* another commit of it, one in which it and a file are gone; and one      *)
(* that does not exist.                                                    *)
(***************************************************************************)
EXTENDS GitCache

CONSTANTS r1, r2

MCCset == {"v1", "v2", "v3", "typo"}
MCExists == {"v1", "v2", "v3"}
MCFile == {"main", "extra"}
MCFiles == [c \in MCCset |->
    CASE c = "v3" -> {"main"}
      [] c = "typo" -> {}
      [] OTHER -> {"main", "extra"}]
MCRev == {r1, r2}
MCSub == [c \in MCCset |-> CASE c = "v1" -> r1 [] c = "v2" -> r2 [] OTHER -> None]

=============================================================================
