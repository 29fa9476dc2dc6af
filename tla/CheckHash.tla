------------------------------ MODULE CheckHash ------------------------------
(***************************************************************************)
(* support/download/check-hash: does a downloaded file match the hashes    *)
(* that a package's .hash file lists for it?                               *)
(*                                                                         *)
(* A .hash file is a sequence of lines "type  hash  file".  The script     *)
(* reads them in order and exits at the first line about the file that it  *)
(* cannot verify, so the exit code depends on the order of the lines.      *)
(* ExitCode says what the script answers; the loop that computes it is in  *)
(* CheckHashLoop.                                                          *)
(***************************************************************************)
EXTENDS Naturals, Sequences

CONSTANTS
    Content,        \* what a file can hold
    Name,           \* base names of files
    HashType,       \* what can stand in the first column of a .hash file
    KnownType,      \* md5, sha1, sha224, ... : those check-hash can compute
    Skip,           \* the first column of a comment or of an empty line
    Digest,         \* [KnownType -> [Content -> Hash]]: the ...sum programs
    Hash,           \* digests
    NoHashFile,     \* no .hash file given, or the one given does not exist
    Unchecked       \* BR_NO_CHECK_HASH_FOR: files that need no hash

ASSUME HashAssumption ==
    /\ KnownType \subseteq HashType
    /\ Skip \in HashType \ KnownType
    /\ Digest \in [KnownType -> [Content -> Hash]]
    /\ Unchecked \subseteq Name
    /\ NoHashFile \notin Seq([type : HashType, hash : Hash, file : Name])

Line == [type : HashType, hash : Hash, file : Name]
HashFile == Seq(Line) \cup {NoHashFile}

(* The lines about the file: comments and other files' lines are read over.*)
About(line, base) == line.type # Skip /\ line.file = base

(* check_one_hash: the code it exits with, or 0 when it returns.           *)
CheckOneHash(line, c) ==
    IF line.type \notin KnownType THEN 4
    ELSE IF Digest[line.type][c] # line.hash THEN 2
    ELSE 0

(* The lines at which the script would stop.                               *)
Refuted(lines, base, c) ==
    {i \in DOMAIN lines : About(lines[i], base) /\ CheckOneHash(lines[i], c) # 0}

First(S) == CHOOSE i \in S : \A j \in S : i <= j

NotVouched(base) == IF base \in Unchecked THEN 0 ELSE 3

(* The exit code of "check-hash h path base" where path holds c.           *)
ExitCode(h, base, c) ==
    IF h = NoHashFile THEN 0
    ELSE IF Refuted(h, base, c) # {}
    THEN CheckOneHash(h[First(Refuted(h, base, c))], c)
    ELSE IF \E i \in DOMAIN h : About(h[i], base) THEN 0
    ELSE NotVouched(base)

=============================================================================
