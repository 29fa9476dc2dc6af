----------------------------- MODULE MCCheckHash -----------------------------
(***************************************************************************)
(* Every .hash file of up to MaxLines lines over a known, an unknown and a *)
(* comment type, a right and a wrong digest and two file names.            *)
(***************************************************************************)
EXTENDS CheckHashLoop

MCContent == {"good", "cut"}
MCName == {"pkg.tar", "fix.patch"}
MCHashType == {"sha256", "md5", "sha3", "#"}
MCKnownType == {"sha256", "md5"}
MCHash == {"h1", "h2"}
MCDigest == [t \in MCKnownType |-> [x \in MCContent |->
                IF x = "good" THEN "h1" ELSE "h2"]]
MCUnchecked == {"fix.patch"}

=============================================================================
