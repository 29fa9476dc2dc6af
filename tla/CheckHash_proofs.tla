--------------------------- MODULE CheckHash_proofs ---------------------------
(***************************************************************************)
(* For every .hash file, every file and every table of digests, the loop   *)
(* of check-hash answers ExitCode, and a success is vouched for.           *)
(***************************************************************************)
EXTENDS CheckHashLoop, TLAPS

(* The earliest of some line numbers is what its name says.                *)
LEMMA FirstIs ==
    ASSUME NEW S \in SUBSET Nat, NEW k \in S, \A j \in S : k <= j
    PROVE  First(S) = k
<1>1. First(S) \in S /\ \A j \in S : First(S) <= j
  BY DEF First
<1>2. First(S) <= k /\ k <= First(S)
  BY <1>1
<1>3. First(S) \in Nat /\ k \in Nat
  BY <1>1
<1> QED
  BY <1>2, <1>3

(* check_one_hash answers 0, 2 or 4.                                       *)
LEMMA OneHashCode ==
    ASSUME NEW line, NEW x
    PROVE  CheckOneHash(line, x) \in {0, 2, 4}
BY DEF CheckOneHash

LEMMA VouchedCode ==
    ASSUME NEW f
    PROVE  NotVouched(f) \in {0, 3}
BY DEF NotVouched

(* What the loop keeps true, and what it ends with.                        *)
NothingRefuted == code = 0 /\ h # NoHashFile => Refuted(h, base, c) = {}
IInv == TypeOK /\ LoopInv /\ AnswersExitCode /\ NothingRefuted

LEMMA InitIInv == Init => IInv
<1> SUFFICES ASSUME Init PROVE IInv
  OBVIOUS
<1>1. h \in HashFile
  <2>1. CASE h = NoHashFile
    BY <2>1 DEF HashFile
  <2>2. CASE h # NoHashFile
    <3>1. PICK k \in 0..MaxLines : h \in [1..k -> Line]
      BY <2>2 DEF Init
    <3>2. h \in Seq(Line)
      BY <3>1
    <3> QED
      BY <3>2 DEF HashFile
  <2> QED
    BY <2>1, <2>2
<1>2. TypeOK
  BY <1>1 DEF Init, TypeOK, HashFile
<1>3. LoopInv /\ AnswersExitCode /\ NothingRefuted
  BY DEF Init, LoopInv, AnswersExitCode, NothingRefuted, Running
<1> QED
  BY <1>2, <1>3 DEF IInv

(* One line more: the script goes on exactly when the line is not refuted. *)
LEMMA ReadLineKeeps ==
    ASSUME IInv, ReadLine
    PROVE  IInv'
<1> DEFINE line == h[n + 1]
<1>1. /\ h \in Seq(Line) /\ h # NoHashFile /\ n \in Nat /\ n < Len(h)
      /\ nb_checks \in Nat /\ code = Running
  BY DEF IInv, TypeOK, HashFile, ReadLine
<1>2. n + 1 \in DOMAIN h /\ DOMAIN h = 1..Len(h)
  BY <1>1
<1>3. /\ \A i \in 1..n : i \notin Refuted(h, base, c)
      /\ nb_checks > 0 <=> \E i \in 1..n : About(h[i], base)
  BY <1>1 DEF IInv, LoopInv
<1>4. n + 1 \in Refuted(h, base, c) <=>
        About(line, base) /\ CheckOneHash(line, c) # 0
  BY <1>2 DEF Refuted
<1>5. /\ h' = h /\ base' = base /\ c' = c /\ n' = n + 1
  BY DEF ReadLine, input
<1>6. CASE n + 1 \in Refuted(h, base, c)
  <2>1. code' = CheckOneHash(line, c) /\ nb_checks' = nb_checks
    BY <1>4, <1>6 DEF ReadLine
  <2>2. First(Refuted(h, base, c)) = n + 1
    <3>1. Refuted(h, base, c) \in SUBSET Nat
      BY <1>2 DEF Refuted
    <3>2. \A j \in Refuted(h, base, c) : n + 1 <= j
      <4> SUFFICES ASSUME NEW j \in Refuted(h, base, c) PROVE n + 1 <= j
        OBVIOUS
      <4>1. j \in 1..Len(h) /\ j \notin 1..n
        BY <1>2, <1>3 DEF Refuted
      <4> QED
        BY <4>1, <1>1
    <3> QED
      BY <1>6, <3>1, <3>2, FirstIs
  <2>3. code' \in {2, 4}
    BY <2>1, <1>4, <1>6, OneHashCode
  <2>4. code' = ExitCode(h, base, c)
    BY <2>1, <2>2, <1>1, <1>6 DEF ExitCode
  <2>5. TypeOK'
    BY <1>1, <1>5, <2>1, <2>3 DEF IInv, TypeOK
  <2> QED
    BY <1>5, <2>3, <2>4, <2>5 DEF IInv, LoopInv, AnswersExitCode, NothingRefuted, Running
<1>7. CASE n + 1 \notin Refuted(h, base, c)
  <2>1. /\ code' = code
        /\ nb_checks' = IF About(line, base) THEN nb_checks + 1 ELSE nb_checks
    BY <1>4, <1>7 DEF ReadLine
  <2>2. TypeOK'
    BY <1>1, <1>5, <2>1 DEF IInv, TypeOK
  <2>3. \A i \in 1..(n + 1) : i \in 1..n \/ i = n + 1
    BY <1>1
  <2>4. \A i \in 1..(n + 1) : i \notin Refuted(h, base, c)
    BY <2>3, <1>3, <1>7
  <2>5. nb_checks' > 0 <=> \E i \in 1..(n + 1) : About(h[i], base)
    <3>1. CASE About(line, base)
      BY <3>1, <2>1, <1>1, <1>2
    <3>2. CASE ~ About(line, base)
      BY <3>2, <2>1, <2>3, <1>1, <1>3
    <3> QED
      BY <3>1, <3>2
  <2> QED
    BY <1>1, <1>5, <2>1, <2>2, <2>4, <2>5 DEF IInv, LoopInv, AnswersExitCode, NothingRefuted, Running
<1> QED
  BY <1>6, <1>7

(* The end of the file: no line was refuted, and the count tells whether   *)
(* there was one.                                                          *)
LEMMA EndOfFileKeeps ==
    ASSUME IInv, EndOfFile
    PROVE  IInv'
<1>1. /\ h \in Seq(Line) /\ h # NoHashFile /\ n = Len(h) /\ DOMAIN h = 1..n
      /\ nb_checks \in Nat /\ code = Running
  BY DEF IInv, TypeOK, HashFile, EndOfFile
<1>2. /\ \A i \in 1..n : i \notin Refuted(h, base, c)
      /\ nb_checks > 0 <=> \E i \in 1..n : About(h[i], base)
  BY <1>1 DEF IInv, LoopInv
<1>3. /\ h' = h /\ base' = base /\ c' = c /\ n' = n /\ nb_checks' = nb_checks
      /\ code' = IF nb_checks = 0 THEN NotVouched(base) ELSE 0
  BY DEF EndOfFile, input
<1>4. Refuted(h, base, c) = {}
  BY <1>1, <1>2 DEF Refuted
<1>5. nb_checks = 0 <=> ~ \E i \in DOMAIN h : About(h[i], base)
  BY <1>1, <1>2
<1>6. code' = ExitCode(h, base, c)
  BY <1>1, <1>3, <1>4, <1>5 DEF ExitCode
<1>7. code' \in {0, 3}
  BY <1>3, VouchedCode
<1>8. TypeOK'
  BY <1>3, <1>7 DEF IInv, TypeOK
<1> QED
  BY <1>3, <1>4, <1>6, <1>7, <1>8 DEF IInv, LoopInv, AnswersExitCode, NothingRefuted, Running

LEMMA StepIInv == IInv /\ [Next]_vars => IInv'
<1> SUFFICES ASSUME IInv, [Next]_vars PROVE IInv'
  OBVIOUS
<1>1. CASE NoFile
  <2>1. code' = ExitCode(h, base, c)
    BY <1>1 DEF NoFile, ExitCode
  <2> QED
    BY <1>1, <2>1 DEF NoFile, input, IInv, TypeOK, LoopInv, AnswersExitCode, NothingRefuted, Running
<1>2. CASE ReadLine
  BY <1>2, ReadLineKeeps
<1>3. CASE EndOfFile
  BY <1>3, EndOfFileKeeps
<1>4. CASE UNCHANGED vars
  BY <1>4 DEF vars, IInv, TypeOK, LoopInv, AnswersExitCode, NothingRefuted
<1> QED
  BY <1>1, <1>2, <1>3, <1>4 DEF Next

LEMMA Invariance == Spec => []IInv
BY InitIInv, StepIInv, PTL DEF Spec

(* For every .hash file and every file, the loop of check-hash answers     *)
(* what the declarative ExitCode says (support/download/check-hash:82-107).*)
THEOREM LoopAnswers == Spec => []AnswersExitCode
<1>1. IInv => AnswersExitCode
  BY DEF IInv
<1> QED
  BY <1>1, Invariance, PTL

(* A success means that every hash listed for the file matches it, and     *)
(* that there is one, unless the file is exempt (lines 13-20).             *)
THEOREM SuccessIsVouched == Spec => []SuccessVouched
<1>1. IInv => SuccessVouched
  <2> SUFFICES ASSUME IInv, code = 0, h # NoHashFile
               PROVE  /\ \A i \in DOMAIN h : About(h[i], base) =>
                            h[i].type \in KnownType /\ Digest[h[i].type][c] = h[i].hash
                      /\ base \in Unchecked \/ \E i \in DOMAIN h : About(h[i], base)
    BY DEF SuccessVouched
  <2>1. ExitCode(h, base, c) = 0
    BY DEF IInv, AnswersExitCode, Running
  <2>2. h \in Seq(Line)
    BY DEF IInv, TypeOK, HashFile
  <2>3. Refuted(h, base, c) = {}
    BY DEF IInv, NothingRefuted
  <2>4. \A i \in DOMAIN h : About(h[i], base) => CheckOneHash(h[i], c) = 0
    BY <2>3 DEF Refuted
  <2>5. base \in Unchecked \/ \E i \in DOMAIN h : About(h[i], base)
    BY <2>1, <2>3 DEF ExitCode, NotVouched
  <2>6. ASSUME NEW i \in DOMAIN h, About(h[i], base)
        PROVE  h[i].type \in KnownType /\ Digest[h[i].type][c] = h[i].hash
    <3>1. CheckOneHash(h[i], c) = 0
      BY <2>4, <2>6
    <3> QED
      BY <3>1 DEF CheckOneHash
  <2> QED
    BY <2>5, <2>6
<1> QED
  BY <1>1, Invariance, PTL

=============================================================================
