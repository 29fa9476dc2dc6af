---------------------------- MODULE CheckHashLoop ----------------------------
(***************************************************************************)
(* The control of support/download/check-hash, one iteration of its        *)
(* "while read" loop per step, on an arbitrary .hash file and file.        *)
(***************************************************************************)
EXTENDS CheckHash

CONSTANT MaxLines   \* bound on the length of the .hash files TLC enumerates

VARIABLES
    h,              \* the .hash file, $1
    base,           \* the name the file is to be checked under, $3
    c,              \* the content of the file, $2
    n,              \* lines read so far
    nb_checks,      \* hashes that matched so far
    code            \* the exit code; Running while the script runs

vars == <<h, base, c, n, nb_checks, code>>
input == <<h, base, c>>

Running == 9

Init ==
    /\ h \in {NoHashFile} \cup UNION {[1..k -> Line] : k \in 0..MaxLines}
    /\ base \in Name
    /\ c \in Content
    /\ n = 0
    /\ nb_checks = 0
    /\ code = Running

(* Lines 35-42: nothing to check against.                                  *)
NoFile ==
    /\ code = Running
    /\ h = NoHashFile
    /\ code' = 0
    /\ UNCHANGED <<input, n, nb_checks>>

(* Mutant of ReadLine: every line about the file is counted and the loop   *)
(* goes on; only an unknown type ends it.                                  *)
ReadLineCountsAll ==
    /\ code = Running
    /\ h # NoHashFile
    /\ n < Len(h)
    /\ n' = n + 1
    /\ LET line == h[n + 1] IN
       /\ nb_checks' = IF About(line, base) THEN nb_checks + 1 ELSE nb_checks
       /\ code' = IF About(line, base) /\ line.type \notin KnownType THEN 4 ELSE Running
    /\ UNCHANGED input

(* Mutant of ReadLine: comments and other files' lines are counted too.    *)
ReadLineCountsComments ==
    /\ code = Running
    /\ h # NoHashFile
    /\ n < Len(h)
    /\ n' = n + 1
    /\ LET line == h[n + 1] IN
       IF About(line, base) /\ CheckOneHash(line, c) # 0
       THEN code' = CheckOneHash(line, c) /\ UNCHANGED nb_checks
       ELSE nb_checks' = nb_checks + 1 /\ UNCHANGED code
    /\ UNCHANGED input

(* Lines 83-96: one line; check_one_hash exits the script on a bad one.    *)
ReadLine ==
    /\ code = Running
    /\ h # NoHashFile
    /\ n < Len(h)
    /\ n' = n + 1
    /\ LET line == h[n + 1] IN
       IF ~ About(line, base)
       THEN UNCHANGED <<nb_checks, code>>
       ELSE IF CheckOneHash(line, c) # 0
       THEN code' = CheckOneHash(line, c) /\ UNCHANGED nb_checks
       ELSE nb_checks' = nb_checks + 1 /\ UNCHANGED code
    /\ UNCHANGED input

(* Mutant of EndOfFile: "no hash" is answered like a bad option.           *)
EndOfFileOne ==
    /\ code = Running
    /\ h # NoHashFile
    /\ n = Len(h)
    /\ code' = IF nb_checks = 0 THEN 1 ELSE 0
    /\ UNCHANGED <<input, n, nb_checks>>

(* Lines 98-107: end of the .hash file.                                    *)
EndOfFile ==
    /\ code = Running
    /\ h # NoHashFile
    /\ n = Len(h)
    /\ code' = IF nb_checks = 0 THEN NotVouched(base) ELSE 0
    /\ UNCHANGED <<input, n, nb_checks>>

Next == NoFile \/ ReadLine \/ EndOfFile

Spec == Init /\ [][Next]_vars

-----------------------------------------------------------------------------

TypeOK ==
    /\ h \in HashFile
    /\ base \in Name
    /\ c \in Content
    /\ n \in Nat
    /\ h # NoHashFile => n <= Len(h)
    /\ nb_checks \in Nat
    /\ code \in {0, 2, 3, 4, Running}

(* The script's answer is the one the rest of the project uses: whatever   *)
(* the order of comments, of lines about other files and of good, wrong    *)
(* and unknown hashes, the early exits and the count of matches add up to  *)
(* ExitCode (support/download/check-hash:82-107).                          *)
AnswersExitCode == code # Running => code = ExitCode(h, base, c)

(* What the header of the script promises (lines 13-20) of a success: no   *)
(* .hash file, or the file matches all the hashes listed for it and there  *)
(* is one at least, unless the file is exempt.                             *)
SuccessVouched ==
    code = 0 =>
        \/ h = NoHashFile
        \/ /\ \A i \in DOMAIN h : About(h[i], base) =>
                h[i].type \in KnownType /\ Digest[h[i].type][c] = h[i].hash
           /\ base \in Unchecked \/ \E i \in DOMAIN h : About(h[i], base)

(* Why the loop is right: what it has read so far holds no refuted line,   *)
(* and it has counted a match exactly when it has met a line about the     *)
(* file.                                                                   *)
LoopInv ==
    code = Running /\ h # NoHashFile =>
        /\ \A i \in 1..n : i \notin Refuted(h, base, c)
        /\ nb_checks > 0 <=> \E i \in 1..n : About(h[i], base)

=============================================================================
