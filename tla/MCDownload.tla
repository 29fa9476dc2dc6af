----------------------------- MODULE MCDownload -----------------------------
(***************************************************************************)
(* Two requests for one file that has hashes and one for a vendored crate  *)
(* that has no .hash file, in one directory.                               *)
(***************************************************************************)
EXTENDS Download

CONSTANTS host, target, crate

MCRequest == {host, target, crate}
MCName == {"pkg.tar", "crate.tar"}
MCFileOf == [r \in MCRequest |-> IF r = crate THEN "crate.tar" ELSE "pkg.tar"]

MCContent == {"good", "bad", "cut"}
MCHashType == {"sha256", "#"}
MCKnownType == {"sha256"}
MCHash == MCContent
MCDigest == [t \in MCKnownType |-> [x \in MCContent |-> x]]
MCHashes == << [type |-> "#", hash |-> "bad", file |-> "pkg.tar"],
               [type |-> "sha256", hash |-> "good", file |-> "pkg.tar"] >>
MCHashFileOf == [r \in MCRequest |-> IF r = crate THEN NoHashFile ELSE MCHashes]

MCOldDl == [f \in MCName |-> IF f = "pkg.tar" THEN "bad" ELSE "good"]
MCUri == {"site", "backup", "backup/pkg"}
MCPrimarySite == <<>>
MCBackupSite == <<"backup/pkg", "backup">>
MCSite == [r \in MCRequest |-> "site"]
MCServes == [x \in MCUri |->
    CASE x = "site" -> {"good", "bad", NoFile}
      [] x = "backup/pkg" -> {NoFile}
      [] OTHER -> {"good"}]
MCPostProcess == {crate}
MCPost == [c \in MCContent |-> c]

=============================================================================
