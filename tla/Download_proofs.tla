--------------------------- MODULE Download_proofs ---------------------------
(***************************************************************************)
(* For any number of requests, files, locations and hashes: the wrapper    *)
(* keeps its types, never takes back a file it has delivered, implements   *)
(* the atomic store of DlStore, leaves nothing behind next to the files,   *)
(* needs one good location only, and ends.                                 *)
(***************************************************************************)
EXTENDS Download, FiniteSetTheorems, TLAPS

-----------------------------------------------------------------------------
(* Types.                                                                  *)

LEMMA UrisType ==
    ASSUME NEW r \in Request
    PROVE  Uris(r) \in Seq(Uri)
<1>1. <<Site[r]>> \in Seq(Uri)
  BY DownloadAssumption
<1>2. <<Site[r]>> \o BackupSite \in Seq(Uri)
  BY <1>1, DownloadAssumption
<1>3. (IF PrimaryOnly THEN <<>> ELSE <<Site[r]>> \o BackupSite) \in Seq(Uri)
  BY <1>2
<1> QED
  BY <1>3, DownloadAssumption DEF Uris

(* A backend is only run on a location of the list.                        *)
IndexInv == \A r \in Request : pc[r] = "backend" => u[r] <= Len(Uris(r))

(* The requests past the check of the existing file are those that hold    *)
(* the lock, and the lock has one holder.                                  *)
LockInv == \A r \in Request : pc[r] \in Inside <=> lock = r

LEMMA ServedType ==
    ASSUME TypeOK, IndexInv, NEW r \in Request, pc[r] = "backend"
    PROVE  Serves[Uris(r)[u[r]]] \subseteq MaybeFile
<1>1. Uris(r) \in Seq(Uri) /\ u[r] \in 1..Len(Uris(r))
  BY UrisType DEF TypeOK, IndexInv
<1>2. Uris(r)[u[r]] \in Uri
  BY <1>1
<1> QED
  BY <1>2, DownloadAssumption DEF MaybeFile

(* What the backend wrote is there until it has been copied.               *)
HandInv == \A r \in Request :
    pc[r] \in {"post", "check", "mktemp", "cat"} => tmpf[r] # NoFile

(* The types of the whole state, with the invariants they rest on.         *)
TypeInv == TypeOK /\ IndexInv /\ LockInv /\ HandInv

LEMMA InitTypeInv == Init => TypeInv
BY DownloadAssumption DEF Init, TypeInv, TypeOK, IndexInv, LockInv, HandInv, MaybeFile, Inside, Label, Killed, Fault, Stuck

LEMMA GotoType ==
    ASSUME TypeOK, NEW r \in Request, NEW l \in Label, Goto(r, l)
    PROVE  pc' \in [Request -> Label]
BY DEF TypeOK, Goto

LEMMA NextUriType ==
    ASSUME TypeOK, NEW r \in Request, NextUri(r), UNCHANGED <<dl, lock, outside>>
    PROVE  TypeOK'
<1>1. pc' \in [Request -> Label]
  <2>1. Goto(r, "uri") /\ "uri" \in Label
    BY DEF NextUri, Label, Inside
  <2> QED
    BY <2>1, GotoType
<1>2. u' \in [Request -> Nat \ {0}]
  BY DEF NextUri, TypeOK
<1>3. tmpd' \in [Request -> BOOLEAN] /\ tmpf' \in [Request -> MaybeFile]
  BY DEF NextUri, TypeOK, MaybeFile
<1> QED
  BY <1>1, <1>2, <1>3 DEF NextUri, TypeOK, outside

(* What the post-process does but for the file.                            *)
LEMMA PostMoves ==
    ASSUME TypeOK, NEW r \in Request, PostProcessStep(r)
    PROVE  /\ pc[r] = "post" /\ pc'[r] \in {"check", "exit"}
           /\ \A s \in Request : s # r => pc'[s] = pc[s]
           /\ UNCHANGED <<u, lock, asks>>
<1>1. Goto(r, "check") \/ Goto(r, "exit")
  BY DEF PostProcessStep, Exit
<1>2. pc'[r] \in {"check", "exit"} /\ \A s \in Request : s # r => pc'[s] = pc[s]
  BY <1>1 DEF Goto, TypeOK
<1> QED
  BY <1>2 DEF PostProcessStep, At, outside

(* Where the check of a hash leads.                                        *)
LEMMA CheckMoves ==
    ASSUME TypeOK, NEW r \in Request, Check(r)
    PROVE  /\ pc[r] = "check" /\ pc'[r] \in {"mktemp", "uri"} /\ UNCHANGED lock
           /\ \A s \in Request : s # r => pc'[s] = pc[s] /\ u'[s] = u[s] /\ tmpf'[s] = tmpf[s]
           /\ pc'[r] = "mktemp" => tmpf'[r] = tmpf[r]
<1>1. pc[r] = "check" /\ UNCHANGED lock
  BY DEF Check, At
<1>2. CASE Code(r, tmpf[r]) \in {0, 3}
  <2>1. Goto(r, "mktemp") /\ UNCHANGED <<u, tmpf>>
    BY <1>2 DEF Check, disk
  <2> QED
    BY <1>1, <2>1 DEF Goto, TypeOK
<1>3. CASE Code(r, tmpf[r]) \notin {0, 3}
  <2>1. NextUri(r)
    BY <1>3 DEF Check
  <2> QED
    BY <1>1, <2>1 DEF NextUri, Goto, TypeOK
<1> QED
  BY <1>2, <1>3

LEMMA StepTypeInv ==
    ASSUME TypeInv, NEW r \in Request, Step(r) \/ Kill(r) \/ Extract(r) \/ Ask(r)
    PROVE  TypeInv'
<1> USE DownloadAssumption DEF TypeInv, At, Goto, Put, Exit, disk, outside, Inside, Label, MaybeFile
<1>1. CASE Flock(r)
  <2>1. TypeOK'
    BY <1>1 DEF Flock, TypeOK
  <2>2. IndexInv'
    BY <1>1 DEF Flock, TypeOK, IndexInv
  <2>3. LockInv'
    BY <1>1 DEF Flock, TypeOK, LockInv
  <2>4. HandInv'
    BY <1>1 DEF Flock, TypeOK, HandInv
  <2> QED
    BY <2>1, <2>2, <2>3, <2>4
<1>2. CASE Legacy(r)
  <2>1. TypeOK'
    <3>1. dl' \in [Name -> MaybeFile]
      <4>1. \/ UNCHANGED dl
            \/ OldDl[FileOf[r]] # NoFile /\ Put(r, OldDl[FileOf[r]])
            \/ Put(r, Cut)
        BY <1>2 DEF Legacy
      <4>2. FileOf[r] \in Name /\ OldDl[FileOf[r]] \in MaybeFile /\ Cut \in MaybeFile
        OBVIOUS
      <4> QED
        BY <4>1, <4>2 DEF TypeOK
    <3>2. Goto(r, "existing") \/ Goto(r, "cp")
      BY <1>2 DEF Legacy
    <3>3. pc' \in [Request -> Label]
      BY <3>2, GotoType
    <3> QED
      BY <1>2, <3>1, <3>3 DEF Legacy, TypeOK
  <2>2. IndexInv'
    BY <1>2 DEF Legacy, TypeOK, IndexInv
  <2>3. LockInv'
    BY <1>2 DEF Legacy, TypeOK, LockInv
  <2>4. HandInv'
    BY <1>2 DEF Legacy, TypeOK, HandInv
  <2> QED
    BY <2>1, <2>2, <2>3, <2>4
<1>3. CASE Copied(r)
  <2>1. TypeOK'
    BY <1>3 DEF Copied, TypeOK
  <2>2. IndexInv'
    BY <1>3 DEF Copied, TypeOK, IndexInv
  <2>3. LockInv'
    BY <1>3 DEF Copied, TypeOK, LockInv
  <2>4. HandInv'
    BY <1>3 DEF Copied, TypeOK, HandInv
  <2> QED
    BY <2>1, <2>2, <2>3, <2>4
<1>4. CASE Existing(r)
  <2>1. TypeOK'
    <3>1. pc' \in [Request -> Label]
      <4>1. Goto(r, "uri") \/ Goto(r, "exit") \/ Goto(r, "unlink")
        BY <1>4 DEF Existing
      <4> QED
        BY <4>1, GotoType
    <3>2. rc' \in [Request -> {0, 1, Fault, Stuck, Killed}]
      BY <1>4 DEF Existing, TypeOK
    <3>3. u' \in [Request -> Nat \ {0}]
      BY <1>4 DEF Existing, TypeOK
    <3> QED
      BY <1>4, <3>1, <3>2, <3>3 DEF Existing, TypeOK
  <2>2. IndexInv'
    BY <1>4 DEF Existing, TypeOK, IndexInv
  <2>3. LockInv'
    BY <1>4 DEF Existing, TypeOK, LockInv
  <2>4. HandInv'
    BY <1>4 DEF Existing, TypeOK, HandInv
  <2> QED
    BY <2>1, <2>2, <2>3, <2>4
<1>5. CASE Unlink(r)
  <2>1. TypeOK'
    BY <1>5 DEF Unlink, TypeOK
  <2>2. IndexInv'
    BY <1>5 DEF Unlink, TypeOK, IndexInv
  <2>3. LockInv'
    BY <1>5 DEF Unlink, TypeOK, LockInv
  <2>4. HandInv'
    BY <1>5 DEF Unlink, TypeOK, HandInv
  <2> QED
    BY <2>1, <2>2, <2>3, <2>4
<1>6. CASE TryUri(r)
  <2>1. TypeOK'
    BY <1>6, UrisType DEF TryUri, TypeOK, Fault
  <2>2. IndexInv'
    BY <1>6, UrisType DEF TryUri, TypeOK, IndexInv, Fault
  <2>3. LockInv'
    BY <1>6 DEF TryUri, TypeOK, LockInv, Fault
  <2>4. HandInv'
    BY <1>6 DEF TryUri, TypeOK, HandInv, Fault
  <2> QED
    BY <2>1, <2>2, <2>3, <2>4
<1>7. CASE Backend(r)
  <2>1. TypeOK'
    <3>1. PICK c \in Serves[Uris(r)[u[r]]] :
             IF c = NoFile THEN NextUri(r)
             ELSE /\ tmpf' = [tmpf EXCEPT ![r] = c]
                  /\ Goto(r, IF r \in PostProcess THEN "post" ELSE "check")
                  /\ UNCHANGED <<u, rc, tmpd, tmpo>>
      BY <1>7 DEF Backend
    <3>2. c \in MaybeFile
      BY <1>7, ServedType DEF Backend
    <3>3. UNCHANGED <<dl, lock, outside>>
      BY <1>7 DEF Backend
    <3>4. CASE c = NoFile
      BY <3>1, <3>3, <3>4, NextUriType
    <3>5. CASE c # NoFile
      <4>1. Goto(r, "post") \/ Goto(r, "check")
        BY <3>1, <3>5
      <4>2. pc' \in [Request -> Label]
        BY <4>1, GotoType
      <4>3. tmpf' \in [Request -> MaybeFile]
        BY <3>1, <3>2, <3>5 DEF TypeOK
      <4> QED
        BY <3>1, <3>3, <3>5, <4>2, <4>3 DEF TypeOK
    <3> QED
      BY <3>4, <3>5
  <2>2. IndexInv'
    BY <1>7, ServedType DEF Backend, TypeOK, IndexInv, NextUri
  <2>3. LockInv'
    BY <1>7 DEF Backend, TypeOK, LockInv, NextUri
  <2>4. HandInv'
    <3>1. PICK c \in Serves[Uris(r)[u[r]]] :
             IF c = NoFile THEN NextUri(r)
             ELSE /\ tmpf' = [tmpf EXCEPT ![r] = c]
                  /\ Goto(r, IF r \in PostProcess THEN "post" ELSE "check")
      BY <1>7 DEF Backend
    <3>2. \A s \in Request : s # r => pc'[s] = pc[s] /\ tmpf'[s] = tmpf[s]
      BY <3>1 DEF NextUri, TypeOK
    <3>3. CASE c = NoFile
      <4>1. pc'[r] = "uri"
        BY <3>1, <3>3 DEF NextUri, TypeOK
      <4> QED
        BY <3>2, <4>1 DEF HandInv
    <3>4. CASE c # NoFile
      <4>1. tmpf'[r] = c
        BY <3>1, <3>4 DEF TypeOK
      <4> QED
        BY <3>2, <3>4, <4>1 DEF HandInv
    <3> QED
      BY <3>3, <3>4
  <2> QED
    BY <2>1, <2>2, <2>3, <2>4
<1>8. CASE PostProcessStep(r)
  <2>1. TypeOK'
    <3>1. tmpf[r] \in Content
      BY <1>8 DEF PostProcessStep, TypeOK, HandInv
    <3>2. tmpf' \in [Request -> MaybeFile]
      <4>1. Post[tmpf[r]] \in MaybeFile
        BY <3>1
      <4>2. tmpf' = [tmpf EXCEPT ![r] = Post[tmpf[r]]] \/ UNCHANGED tmpf
        BY <1>8 DEF PostProcessStep
      <4> QED
        BY <4>1, <4>2 DEF TypeOK
    <3>3. Goto(r, "check") \/ Goto(r, "exit")
      BY <1>8 DEF PostProcessStep
    <3>4. pc' \in [Request -> Label]
      BY <3>3, GotoType
    <3>5. rc' \in [Request -> {0, 1, Fault, Stuck, Killed}]
      BY <1>8 DEF PostProcessStep, TypeOK
    <3> QED
      BY <1>8, <3>2, <3>4, <3>5 DEF PostProcessStep, TypeOK
  <2>2. IndexInv'
    BY <1>8, PostMoves DEF IndexInv
  <2>3. LockInv'
    BY <1>8, PostMoves DEF LockInv
  <2>4. HandInv'
    <3>1. tmpf[r] \in Content /\ NoFile \notin Content
      BY <1>8 DEF PostProcessStep, TypeOK, HandInv
    <3>2. tmpf'[r] = Post[tmpf[r]] \/ tmpf'[r] = tmpf[r]
      BY <1>8 DEF PostProcessStep, TypeOK
    <3>3. tmpf'[r] # NoFile
      BY <3>1, <3>2
    <3>4. \A s \in Request : s # r => tmpf'[s] = tmpf[s]
      BY <1>8 DEF PostProcessStep, TypeOK
    <3> QED
      BY <1>8, <3>3, <3>4, PostMoves DEF HandInv
  <2> QED
    BY <2>1, <2>2, <2>3, <2>4
<1>9. CASE Check(r)
  <2>1. TypeOK'
    <3>1. CASE Code(r, tmpf[r]) \in {0, 3}
      <4>1. rc' \in [Request -> {0, 1, Fault, Stuck, Killed}]
        BY <1>9, <3>1 DEF Check, TypeOK
      <4>2. Goto(r, "mktemp") /\ UNCHANGED <<dl, lock, u, disk, outside>>
        BY <1>9, <3>1 DEF Check
      <4>3. pc' \in [Request -> Label]
        BY <4>2, GotoType
      <4> QED
        BY <4>1, <4>2, <4>3 DEF TypeOK
    <3>2. CASE Code(r, tmpf[r]) \notin {0, 3}
      BY <1>9, <3>2, NextUriType DEF Check
    <3> QED
      BY <3>1, <3>2
  <2>2. IndexInv'
    BY <1>9, CheckMoves DEF IndexInv
  <2>3. LockInv'
    <3>1. \A s \in Request : pc'[s] \in Inside <=> pc[s] \in Inside
      BY <1>9, CheckMoves
    <3>2. UNCHANGED lock
      BY <1>9, CheckMoves
    <3> HIDE DEF Inside
    <3> QED
      BY <3>1, <3>2 DEF LockInv
  <2>4. HandInv'
    BY <1>9, CheckMoves DEF HandInv
  <2> QED
    BY <2>1, <2>2, <2>3, <2>4
<1>10. CASE MkTemp(r)
  <2>1. TypeOK'
    <3>1. tmpo' \in [Request -> MaybeFile]
      <4>1. tmpo' = [tmpo EXCEPT ![r] = Cut] \/ UNCHANGED tmpo
        BY <1>10 DEF MkTemp
      <4>2. tmpo \in [Request -> MaybeFile] /\ Cut \in MaybeFile
        BY DEF TypeOK
      <4> HIDE DEF MaybeFile
      <4> QED
        BY <4>1, <4>2
    <3>2. rc' \in [Request -> {0, 1, Fault, Stuck, Killed}]
      <4>1. rc' = [rc EXCEPT ![r] = Fault] \/ UNCHANGED rc
        BY <1>10 DEF MkTemp
      <4>2. rc \in [Request -> {0, 1, Fault, Stuck, Killed}]
        BY DEF TypeOK
      <4> QED
        BY <4>1, <4>2
    <3>3. Goto(r, "cat") \/ Goto(r, "exit")
      BY <1>10 DEF MkTemp
    <3>4. pc' \in [Request -> Label]
      BY <3>3, GotoType
    <3>5. UNCHANGED <<dl, lock, u, tmpd, tmpf, outside>>
      BY <1>10 DEF MkTemp
    <3> QED
      BY <3>1, <3>2, <3>4, <3>5 DEF TypeOK
  <2>2. IndexInv'
    BY <1>10 DEF MkTemp, TypeOK, IndexInv, Fault
  <2>3. LockInv'
    BY <1>10 DEF MkTemp, TypeOK, LockInv, Fault
  <2>4. HandInv'
    BY <1>10 DEF MkTemp, TypeOK, HandInv, Fault
  <2> QED
    BY <2>1, <2>2, <2>3, <2>4
<1>11. CASE Cat(r)
  <2>1. TypeOK'
    <3>1. /\ tmpd' \in [Request -> BOOLEAN]
          /\ tmpf' \in [Request -> MaybeFile]
          /\ tmpo' \in [Request -> MaybeFile]
      BY <1>11 DEF Cat, TypeOK
    <3>2. Goto(r, "rmtmpd") \/ Goto(r, "exit")
      BY <1>11 DEF Cat
    <3>3. pc' \in [Request -> Label]
      BY <3>2, GotoType
    <3>4. rc' \in [Request -> {0, 1, Fault, Stuck, Killed}]
      BY <1>11 DEF Cat, TypeOK
    <3> QED
      BY <1>11, <3>1, <3>3, <3>4 DEF Cat, TypeOK
  <2>2. IndexInv'
    BY <1>11 DEF Cat, TypeOK, IndexInv, Fault
  <2>3. LockInv'
    BY <1>11 DEF Cat, TypeOK, LockInv, Fault
  <2>4. HandInv'
    BY <1>11 DEF Cat, TypeOK, HandInv, Fault
  <2> QED
    BY <2>1, <2>2, <2>3, <2>4
<1>12. CASE RmTmpd(r)
  <2>1. TypeOK'
    BY <1>12 DEF RmTmpd, TypeOK
  <2>2. IndexInv'
    BY <1>12 DEF RmTmpd, TypeOK, IndexInv
  <2>3. LockInv'
    BY <1>12 DEF RmTmpd, TypeOK, LockInv
  <2>4. HandInv'
    BY <1>12 DEF RmTmpd, TypeOK, HandInv
  <2> QED
    BY <2>1, <2>2, <2>3, <2>4
<1>13. CASE Mv(r)
  <2>1. TypeOK'
    <3>1. /\ tmpo' = [tmpo EXCEPT ![r] = NoFile] /\ UNCHANGED <<lock, u, tmpd, tmpf, outside>>
          /\ dl' = [dl EXCEPT ![FileOf[r]] = tmpo[r]] \/ UNCHANGED dl
          /\ pc' = [pc EXCEPT ![r] = "exit"]
          /\ rc' = [rc EXCEPT ![r] = rc[r]] \/ rc' = [rc EXCEPT ![r] = Fault]
      BY <1>13 DEF Mv
    <3>2. dl' \in [Name -> MaybeFile] /\ tmpo' \in [Request -> MaybeFile]
      <4>1. dl \in [Name -> MaybeFile] /\ tmpo \in [Request -> MaybeFile] /\ NoFile \in MaybeFile
        BY DEF TypeOK
      <4> HIDE DEF MaybeFile
      <4> QED
        BY <3>1, <4>1
    <3>3. rc' \in [Request -> {0, 1, Fault, Stuck, Killed}]
      BY <3>1 DEF TypeOK
    <3>4. pc' \in [Request -> Label]
      BY <3>1 DEF TypeOK
    <3> HIDE DEF Label, MaybeFile
    <3> QED
      BY <3>1, <3>2, <3>3, <3>4 DEF TypeOK
  <2>2. IndexInv'
    BY <1>13 DEF Mv, TypeOK, IndexInv, Fault
  <2>3. LockInv'
    BY <1>13 DEF Mv, TypeOK, LockInv, Fault
  <2>4. HandInv'
    BY <1>13 DEF Mv, TypeOK, HandInv, Fault
  <2> QED
    BY <2>1, <2>2, <2>3, <2>4
<1>14. CASE Release(r)
  <2>1. TypeOK'
    BY <1>14 DEF Release, TypeOK, Leave
  <2>2. IndexInv'
    BY <1>14 DEF Release, TypeOK, IndexInv, Leave
  <2>3. LockInv'
    BY <1>14 DEF Release, TypeOK, LockInv, Leave
  <2>4. HandInv'
    BY <1>14 DEF Release, TypeOK, HandInv, Leave
  <2> QED
    BY <2>1, <2>2, <2>3, <2>4
<1>15. CASE Kill(r)
  <2>1. TypeOK'
    BY <1>15 DEF Kill, TypeOK, Leave, Killed
  <2>2. IndexInv'
    BY <1>15 DEF Kill, TypeOK, IndexInv, Leave, Killed
  <2>3. LockInv'
    BY <1>15 DEF Kill, TypeOK, LockInv, Leave, Killed
  <2>4. HandInv'
    BY <1>15 DEF Kill, TypeOK, HandInv, Leave, Killed
  <2> QED
    BY <2>1, <2>2, <2>3, <2>4
<1>16. CASE Extract(r)
  <2>1. TypeOK'
    BY <1>16 DEF Extract, TypeOK
  <2>2. IndexInv'
    BY <1>16 DEF Extract, TypeOK, IndexInv
  <2>3. LockInv'
    BY <1>16 DEF Extract, TypeOK, LockInv
  <2>4. HandInv'
    BY <1>16 DEF Extract, TypeOK, HandInv
  <2> QED
    BY <2>1, <2>2, <2>3, <2>4
<1>17. CASE Ask(r)
  <2>1. TypeOK'
    BY <1>17 DEF Ask, TypeOK
  <2>2. IndexInv'
    BY <1>17 DEF Ask, TypeOK, IndexInv
  <2>3. LockInv'
    BY <1>17 DEF Ask, TypeOK, LockInv
  <2>4. HandInv'
    BY <1>17 DEF Ask, TypeOK, HandInv
  <2> QED
    BY <2>1, <2>2, <2>3, <2>4
<1>18. CASE Stop(r)
  <2>1. TypeOK'
    BY <1>18 DEF Stop, TypeOK
  <2>2. IndexInv'
    BY <1>18 DEF Stop, TypeOK, IndexInv
  <2>3. LockInv'
    BY <1>18 DEF Stop, TypeOK, LockInv
  <2>4. HandInv'
    BY <1>18 DEF Stop, TypeOK, HandInv
  <2> QED
    BY <2>1, <2>2, <2>3, <2>4
<1> QED
  BY <1>1, <1>2, <1>3, <1>4, <1>5, <1>6, <1>7, <1>8, <1>9, <1>10, <1>11, <1>12,
     <1>13, <1>14, <1>15, <1>16, <1>17, <1>18 DEF Step

(* The wrapper keeps its types: a backend runs on a location of the list,  *)
(* and one request at most is inside the lock (dl-wrapper:22-219).         *)
THEOREM Typing == Spec => []TypeOK
<1>1. TypeInv /\ [Next]_vars => TypeInv'
  <2>1. TypeInv /\ Next => TypeInv'
    BY StepTypeInv DEF Next
  <2>2. TypeInv /\ UNCHANGED vars => TypeInv'
    BY DEF vars, TypeInv, TypeOK, IndexInv, LockInv, HandInv
  <2> QED
    BY <2>1, <2>2
<1>2. TypeInv => TypeOK
  BY DEF TypeInv
<1> QED
  BY InitTypeInv, <1>1, <1>2, PTL DEF Spec


-----------------------------------------------------------------------------
(* Integrity.                                                              *)

(* While a request looks for its file elsewhere, nobody has put one there. *)
AbsentInv == \A r \in Request :
    pc[r] \in {"uri", "backend", "post", "check", "mktemp", "cat", "rmtmpd", "mv"}
        => dl[FileOf[r]] = NoFile

(* The file about to be removed is one that its hashes refute.             *)
RefutedInv == \A r \in Request :
    pc[r] = "unlink" => dl[FileOf[r]] # NoFile /\ Code(r, dl[FileOf[r]]) = 2

(* A file is copied over from the old directory while nobody relies on it. *)
CopyInv == \A r \in Request :
    pc[r] = "cp" =>
        /\ dl[FileOf[r]] = Cut
        /\ OldDl[FileOf[r]] # NoFile
        /\ \A s \in Delivered : FileOf[s] # FileOf[r]

(* A file about to be saved has been checked, and the exit status to come  *)
(* says what the check found.                                              *)
Judged(r, c) ==
    /\ c # NoFile
    /\ \/ Code(r, c) = 0 /\ rc[r] = 0
       \/ Code(r, c) = 3 /\ rc[r] = 1
JudgedInv == \A r \in Request :
    /\ pc[r] \in {"mktemp", "cat"} => Judged(r, tmpf[r])
    /\ pc[r] \in {"rmtmpd", "mv"} => Judged(r, tmpo[r])

IInv == TypeInv /\ AbsentInv /\ RefutedInv /\ CopyInv /\ JudgedInv /\ ExtractSound

LEMMA SameCode ==
    ASSUME SameHashes, NEW r \in Request, NEW s \in Request,
           FileOf[r] = FileOf[s], NEW c
    PROVE  Code(r, c) = Code(s, c)
BY DEF SameHashes, Code

LEMMA InitIInv == Init => IInv
<1> SUFFICES ASSUME Init PROVE IInv
  OBVIOUS
<1>1. TypeInv
  BY InitTypeInv
<1>2. \A r \in Request : pc[r] = "flock"
  BY DEF Init
<1> QED
  BY <1>1, <1>2 DEF IInv, AbsentInv, RefutedInv, CopyInv, JudgedInv, ExtractSound, Delivered

(* Steps that deliver nothing and leave the directory alone.               *)
LEMMA QuietKeepsSound ==
    ASSUME IInv, UNCHANGED <<dl, taken>>, Delivered' \subseteq Delivered,
           \A s \in Request : pc'[s] = "extracted" => pc[s] = "extracted"
    PROVE  ExtractSound'
BY DEF IInv, ExtractSound, Vouched, Code

(* Steps that change one file: those who rely on a file rely on another,   *)
(* or it is theirs and right.                                              *)
LEMMA PutKeepsSound ==
    ASSUME IInv, NEW r \in Request, NEW c, Put(r, c), taken' = taken,
           \A s \in Delivered' :
              \/ s \in Delivered /\ FileOf[s] # FileOf[r]
              \/ s = r /\ Vouched(r, c),
           \A s \in Request : pc'[s] = "extracted" => pc[s] = "extracted"
    PROVE  ExtractSound'
<1>1. dl \in [Name -> MaybeFile] /\ FileOf \in [Request -> Name]
  BY DownloadAssumption DEF IInv, TypeInv, TypeOK
<1>2. ASSUME NEW s \in Delivered' PROVE Vouched(s, dl'[FileOf[s]])
  <2>1. s \in Request
    BY DEF Delivered
  <2>2. CASE s \in Delivered /\ FileOf[s] # FileOf[r]
    <3>1. dl'[FileOf[s]] = dl[FileOf[s]]
      BY <1>1, <2>1, <2>2 DEF Put
    <3> QED
      BY <2>2, <3>1 DEF IInv, ExtractSound
  <2>3. CASE s = r /\ Vouched(r, c)
    <3>1. dl'[FileOf[r]] = c
      BY <1>1 DEF Put
    <3> QED
      BY <2>3, <3>1
  <2> QED
    BY <2>2, <2>3
<1>3. \A s \in Request : pc'[s] = "extracted" => Vouched(s, taken'[s])
  BY DEF IInv, ExtractSound
<1>4. \A s \in Delivered' : Vouched(s, dl[FileOf[s]])'
  BY <1>2 DEF Vouched, Code
<1>5. \A s \in Request : (pc[s] = "extracted" => Vouched(s, taken[s]))'
  BY <1>3 DEF Vouched, Code
<1> QED
  BY <1>4, <1>5 DEF ExtractSound

(* Nobody relies on a file that is not there.                              *)
LEMMA NobodyHasIt ==
    ASSUME IInv, NEW r \in Request, dl[FileOf[r]] = NoFile
    PROVE  \A s \in Delivered : FileOf[s] # FileOf[r]
BY DEF IInv, ExtractSound, Vouched

LEMMA StepIInv ==
    ASSUME SameHashes, IInv, NEW r \in Request, Step(r) \/ Kill(r) \/ Extract(r) \/ Ask(r)
    PROVE  IInv'
<1> USE DownloadAssumption DEF IInv, TypeInv, At, Goto, Put, Exit, disk, outside
<1>0. TypeInv'
  BY StepTypeInv
<1>1. CASE Flock(r)
  <2>1. AbsentInv'
    BY <1>1 DEF Flock, TypeOK, LockInv, AbsentInv, Inside
  <2>2. RefutedInv'
    BY <1>1 DEF Flock, TypeOK, LockInv, RefutedInv, Inside
  <2>3. CopyInv'
    BY <1>1 DEF Flock, TypeOK, LockInv, CopyInv, Delivered, Inside
  <2>4. JudgedInv'
    BY <1>1 DEF Flock, TypeOK, LockInv, JudgedInv, Judged, Inside
  <2>5. ExtractSound'
    BY <1>1 DEF Flock, TypeOK, LockInv, ExtractSound, Delivered, Vouched, Inside
  <2> QED
    BY <1>0, <2>1, <2>2, <2>3, <2>4, <2>5
<1>2. CASE Legacy(r)
  <2>1. CASE UNCHANGED dl
    <3>1. Goto(r, "existing") \/ Goto(r, "cp")
      BY <1>2 DEF Legacy
    <3>2. Delivered' \subseteq Delivered
      BY <1>2 DEF Legacy, TypeOK, Delivered
    <3>3. ExtractSound'
      BY <1>2, <2>1, <3>2, QuietKeepsSound DEF Legacy, TypeOK
    <3>4. AbsentInv' /\ RefutedInv' /\ JudgedInv'
      BY <1>2, <2>1 DEF Legacy, TypeOK, AbsentInv, RefutedInv, JudgedInv, Judged
    <3>5. CopyInv'
      <4>1. CASE Goto(r, "existing")
        BY <1>2, <2>1, <3>2, <4>1 DEF Legacy, TypeOK, CopyInv
      <4>2. CASE Goto(r, "cp")
        <5>1. dl[FileOf[r]] = NoFile /\ OldDl[FileOf[r]] # NoFile /\ Put(r, Cut)
          BY <1>2, <4>2 DEF Legacy, TypeOK
        <5>2. dl'[FileOf[r]] = Cut
          BY <5>1 DEF TypeOK
        <5> QED
          BY <2>1, <5>1, <5>2
      <4> QED
        BY <3>1, <4>1, <4>2
    <3> QED
      BY <1>0, <3>3, <3>4, <3>5
  <2>2. CASE dl' # dl
    <3>1. /\ dl[FileOf[r]] = NoFile /\ OldDl[FileOf[r]] # NoFile
          /\ \/ Put(r, OldDl[FileOf[r]]) /\ Goto(r, "existing")
             \/ Put(r, Cut) /\ Goto(r, "cp")
      BY <1>2, <2>2 DEF Legacy
    <3>2. PICK c \in {OldDl[FileOf[r]], Cut} : Put(r, c)
      BY <3>1
    <3>3. Delivered' \subseteq Delivered
      BY <1>2, <3>1 DEF Legacy, TypeOK, Delivered
    <3>4. \A s \in Delivered : FileOf[s] # FileOf[r]
      BY <3>1, NobodyHasIt
    <3>5. ExtractSound'
      BY <1>2, <3>1, <3>2, <3>3, <3>4, PutKeepsSound DEF Legacy, TypeOK
    <3>6. \A s \in Request : s # r => pc[s] \notin Inside /\ pc'[s] = pc[s]
      BY <1>2, <3>1 DEF Legacy, TypeOK, LockInv, Inside
    <3>7. AbsentInv' /\ RefutedInv' /\ JudgedInv'
      <4>1. pc'[r] \in {"existing", "cp"}
        BY <3>1 DEF TypeOK
      <4>2. AbsentInv' /\ RefutedInv'
        BY <3>6, <4>1 DEF AbsentInv, RefutedInv, Inside
      <4>3. JudgedInv'
        BY <3>6, <4>1 DEF JudgedInv, Inside
      <4> QED
        BY <4>2, <4>3
    <3>8. CopyInv'
      <4>1. CASE Goto(r, "existing")
        BY <3>6, <4>1 DEF TypeOK, CopyInv, Inside
      <4>2. CASE Put(r, Cut) /\ Goto(r, "cp")
        <5>1. dl'[FileOf[r]] = Cut
          BY <4>2 DEF TypeOK
        <5> QED
          BY <3>1, <3>3, <3>4, <3>6, <4>2, <5>1 DEF TypeOK, CopyInv, Inside
      <4> QED
        BY <3>1, <4>1, <4>2
    <3> QED
      BY <1>0, <3>5, <3>7, <3>8
  <2> QED
    BY <2>1, <2>2
<1>3. CASE Copied(r)
  <2>1. AbsentInv'
    BY <1>3 DEF Copied, TypeOK, LockInv, AbsentInv, Inside
  <2>2. RefutedInv'
    BY <1>3 DEF Copied, TypeOK, LockInv, RefutedInv, Inside
  <2>3. CopyInv'
    BY <1>3 DEF Copied, TypeOK, LockInv, CopyInv, Delivered, Inside
  <2>4. JudgedInv'
    BY <1>3 DEF Copied, TypeOK, LockInv, JudgedInv, Judged, Inside
  <2>5. ExtractSound'
    <3>1. Delivered' \subseteq Delivered
      BY <1>3 DEF Copied, TypeOK, Delivered
    <3>2. \A s \in Delivered : FileOf[s] # FileOf[r]
      BY <1>3 DEF Copied, CopyInv
    <3>3. \A s \in Request : pc'[s] = "extracted" => pc[s] = "extracted"
      BY <1>3 DEF Copied, TypeOK
    <3>4. taken' = taken /\ (Put(r, OldDl[FileOf[r]]) \/ UNCHANGED dl)
      BY <1>3 DEF Copied
    <3>5. CASE Put(r, OldDl[FileOf[r]])
      BY <3>1, <3>2, <3>3, <3>4, <3>5, PutKeepsSound
    <3>6. CASE UNCHANGED dl
      BY <3>1, <3>3, <3>4, <3>6, QuietKeepsSound
    <3> QED
      BY <3>4, <3>5, <3>6
  <2> QED
    BY <1>0, <2>1, <2>2, <2>3, <2>4, <2>5
<1>4. CASE Existing(r)
  <2>1. AbsentInv'
    BY <1>4 DEF Existing, TypeOK, LockInv, AbsentInv, Inside
  <2>2. RefutedInv'
    BY <1>4 DEF Existing, TypeOK, LockInv, RefutedInv, Inside
  <2>3. CopyInv'
    BY <1>4 DEF Existing, TypeOK, LockInv, CopyInv, Delivered, Inside
  <2>4. JudgedInv'
    BY <1>4 DEF Existing, TypeOK, LockInv, JudgedInv, Judged, Inside
  <2>5. ExtractSound'
    BY <1>4 DEF Existing, TypeOK, LockInv, ExtractSound, Delivered, Vouched, Inside
  <2> QED
    BY <1>0, <2>1, <2>2, <2>3, <2>4, <2>5
<1>5. CASE Unlink(r)
  <2>1. AbsentInv'
    BY <1>5 DEF Unlink, TypeOK, LockInv, AbsentInv, Inside
  <2>2. RefutedInv'
    BY <1>5 DEF Unlink, TypeOK, LockInv, RefutedInv, Inside
  <2>3. CopyInv'
    BY <1>5 DEF Unlink, TypeOK, LockInv, CopyInv, Delivered, Inside
  <2>4. JudgedInv'
    BY <1>5 DEF Unlink, TypeOK, LockInv, JudgedInv, Judged, Inside
  <2>5. ExtractSound'
    <3>1. Delivered' \subseteq Delivered
      BY <1>5 DEF Unlink, TypeOK, Delivered
    <3>2. Code(r, dl[FileOf[r]]) = 2
      BY <1>5 DEF Unlink, RefutedInv
    <3>3. ASSUME NEW s \in Delivered PROVE FileOf[s] # FileOf[r]
      <4>1. s \in Request /\ Code(s, dl[FileOf[s]]) = 0
        BY DEF Delivered, ExtractSound, Vouched
      <4> QED
        BY <3>2, <4>1, SameCode
    <3>4. \A s \in Request : pc'[s] = "extracted" => pc[s] = "extracted"
      BY <1>5 DEF Unlink, TypeOK
    <3> QED
      BY <1>5, <3>1, <3>3, <3>4, PutKeepsSound DEF Unlink
  <2> QED
    BY <1>0, <2>1, <2>2, <2>3, <2>4, <2>5
<1>6. CASE TryUri(r)
  <2>1. AbsentInv'
    BY <1>6 DEF TryUri, TypeOK, LockInv, AbsentInv, Inside, Fault
  <2>2. RefutedInv'
    BY <1>6 DEF TryUri, TypeOK, LockInv, RefutedInv, Inside, Fault
  <2>3. CopyInv'
    BY <1>6 DEF TryUri, TypeOK, LockInv, CopyInv, Delivered, Inside, Fault
  <2>4. JudgedInv'
    BY <1>6 DEF TryUri, TypeOK, LockInv, JudgedInv, Judged, Inside, Fault
  <2>5. ExtractSound'
    BY <1>6 DEF TryUri, TypeOK, LockInv, ExtractSound, Delivered, Vouched, Inside, Fault
  <2> QED
    BY <1>0, <2>1, <2>2, <2>3, <2>4, <2>5
<1>7. CASE Backend(r)
  <2>1. AbsentInv'
    BY <1>7 DEF Backend, TypeOK, LockInv, AbsentInv, Inside, NextUri
  <2>2. RefutedInv'
    BY <1>7 DEF Backend, TypeOK, LockInv, RefutedInv, Inside, NextUri
  <2>3. CopyInv'
    BY <1>7 DEF Backend, TypeOK, LockInv, CopyInv, Delivered, Inside, NextUri
  <2>4. JudgedInv'
    <3>1. \A s \in Request : s # r => pc[s] \notin Inside /\ pc'[s] = pc[s]
      BY <1>7 DEF Backend, NextUri, TypeOK, LockInv, Inside
    <3>2. pc'[r] \in {"uri", "post", "check"}
      BY <1>7 DEF Backend, NextUri, TypeOK
    <3> QED
      BY <3>1, <3>2 DEF JudgedInv, Inside
  <2>5. ExtractSound'
    BY <1>7 DEF Backend, TypeOK, LockInv, ExtractSound, Delivered, Vouched, Inside, NextUri
  <2> QED
    BY <1>0, <2>1, <2>2, <2>3, <2>4, <2>5
<1>8. CASE PostProcessStep(r)
  <2>1. AbsentInv'
    BY <1>8 DEF PostProcessStep, TypeOK, LockInv, AbsentInv, Inside
  <2>2. RefutedInv'
    BY <1>8 DEF PostProcessStep, TypeOK, LockInv, RefutedInv, Inside
  <2>3. CopyInv'
    BY <1>8 DEF PostProcessStep, TypeOK, LockInv, CopyInv, Delivered, Inside
  <2>4. JudgedInv'
    <3>1. \A s \in Request : s # r => pc[s] \notin Inside /\ pc'[s] = pc[s]
      BY <1>8 DEF PostProcessStep, TypeOK, LockInv, Inside
    <3>2. pc'[r] \in {"check", "exit"}
      BY <1>8 DEF PostProcessStep, TypeOK
    <3> QED
      BY <3>1, <3>2 DEF JudgedInv, Inside
  <2>5. ExtractSound'
    <3>1. Delivered' \subseteq Delivered
      BY <1>8 DEF PostProcessStep, TypeOK, Delivered
    <3> QED
      BY <1>8, <3>1, QuietKeepsSound DEF PostProcessStep, TypeOK
  <2> QED
    BY <1>0, <2>1, <2>2, <2>3, <2>4, <2>5
<1>9. CASE Check(r)
  <2>1. AbsentInv'
    BY <1>9 DEF Check, TypeOK, LockInv, AbsentInv, Inside, NextUri
  <2>2. RefutedInv'
    BY <1>9 DEF Check, TypeOK, LockInv, RefutedInv, Inside, NextUri
  <2>3. CopyInv'
    BY <1>9 DEF Check, TypeOK, LockInv, CopyInv, Delivered, Inside, NextUri
  <2>4. JudgedInv'
    <3>1. \A s \in Request : s # r => pc[s] \notin Inside /\ pc'[s] = pc[s]
      BY <1>9 DEF Check, NextUri, TypeOK, LockInv, Inside
    <3>2. CASE Code(r, tmpf[r]) \in {0, 3}
      <4>1. pc'[r] = "mktemp" /\ tmpf' = tmpf
        BY <1>9, <3>2 DEF Check, TypeOK
      <4>2. rc'[r] = IF Code(r, tmpf[r]) = 0 THEN 0 ELSE 1
        BY <1>9, <3>2 DEF Check, TypeOK
      <4>3. tmpf[r] # NoFile
        BY <1>9 DEF Check, HandInv
      <4>4. Judged(r, tmpf[r])'
        <5>1. CASE Code(r, tmpf[r]) = 0
          BY <4>1, <4>2, <4>3, <5>1 DEF Judged
        <5>2. CASE Code(r, tmpf[r]) = 3
          BY <4>1, <4>2, <4>3, <5>2 DEF Judged
        <5> QED
          BY <3>2, <5>1, <5>2
      <4> QED
        BY <3>1, <4>1, <4>4 DEF JudgedInv, Inside
    <3>3. CASE Code(r, tmpf[r]) \notin {0, 3}
      <4>1. pc'[r] = "uri"
        BY <1>9, <3>3 DEF Check, NextUri, TypeOK
      <4> QED
        BY <3>1, <4>1 DEF JudgedInv, Inside
    <3> QED
      BY <3>2, <3>3
  <2>5. ExtractSound'
    <3>1. Delivered' \subseteq Delivered
      <4>1. \A s \in Request : s # r => pc'[s] = pc[s] /\ rc'[s] = rc[s]
        BY <1>9 DEF Check, NextUri, TypeOK
      <4>2. pc'[r] \in {"mktemp", "uri"}
        BY <1>9 DEF Check, NextUri, TypeOK
      <4> QED
        BY <4>1, <4>2 DEF Delivered
    <3>2. UNCHANGED <<dl, taken>>
      BY <1>9 DEF Check
    <3>3. \A s \in Request : pc'[s] = "extracted" => pc[s] = "extracted"
      BY <1>9 DEF Check, NextUri, TypeOK
    <3> QED
      BY <3>1, <3>2, <3>3, QuietKeepsSound
  <2> QED
    BY <1>0, <2>1, <2>2, <2>3, <2>4, <2>5
<1>10. CASE MkTemp(r)
  <2>1. AbsentInv'
    BY <1>10 DEF MkTemp, TypeOK, LockInv, AbsentInv, Inside, Fault
  <2>2. RefutedInv'
    BY <1>10 DEF MkTemp, TypeOK, LockInv, RefutedInv, Inside, Fault
  <2>3. CopyInv'
    BY <1>10 DEF MkTemp, TypeOK, LockInv, CopyInv, Delivered, Inside, Fault
  <2>4. JudgedInv'
    <3>1. \A s \in Request : s # r => pc[s] \notin Inside /\ pc'[s] = pc[s]
      BY <1>10 DEF MkTemp, TypeOK, LockInv, Inside
    <3>2. (pc'[r] = "cat" /\ UNCHANGED <<rc, tmpf>>) \/ pc'[r] = "exit"
      BY <1>10 DEF MkTemp, TypeOK
    <3>3. Judged(r, tmpf[r])
      BY <1>10 DEF MkTemp, JudgedInv
    <3> QED
      BY <3>1, <3>2, <3>3 DEF JudgedInv, Judged, Code, Inside
  <2>5. ExtractSound'
    <3>1. Delivered' \subseteq Delivered
      BY <1>10 DEF MkTemp, TypeOK, Delivered, Fault
    <3> QED
      BY <1>10, <3>1, QuietKeepsSound DEF MkTemp, TypeOK
  <2> QED
    BY <1>0, <2>1, <2>2, <2>3, <2>4, <2>5
<1>11. CASE Cat(r)
  <2>1. AbsentInv'
    BY <1>11 DEF Cat, TypeOK, LockInv, AbsentInv, Inside, Fault
  <2>2. RefutedInv'
    BY <1>11 DEF Cat, TypeOK, LockInv, RefutedInv, Inside, Fault
  <2>3. CopyInv'
    BY <1>11 DEF Cat, TypeOK, LockInv, CopyInv, Delivered, Inside, Fault
  <2>4. JudgedInv'
    BY <1>11 DEF Cat, TypeOK, LockInv, JudgedInv, Judged, Inside, Fault
  <2>5. ExtractSound'
    <3>1. /\ pc[r] = "cat" /\ UNCHANGED <<dl, taken>>
          /\ pc'[r] \in {"rmtmpd", "exit"} /\ (pc'[r] = "exit" => rc'[r] # 0)
          /\ \A s \in Request : s # r => pc'[s] = pc[s] /\ rc'[s] = rc[s]
      BY <1>11 DEF Cat, TypeOK, Fault
    <3> QED
      BY <3>1 DEF ExtractSound, Delivered, Vouched
  <2> QED
    BY <1>0, <2>1, <2>2, <2>3, <2>4, <2>5
<1>12. CASE RmTmpd(r)
  <2>1. AbsentInv'
    BY <1>12 DEF RmTmpd, TypeOK, LockInv, AbsentInv, Inside
  <2>2. RefutedInv'
    BY <1>12 DEF RmTmpd, TypeOK, LockInv, RefutedInv, Inside
  <2>3. CopyInv'
    BY <1>12 DEF RmTmpd, TypeOK, LockInv, CopyInv, Delivered, Inside
  <2>4. JudgedInv'
    BY <1>12 DEF RmTmpd, TypeOK, LockInv, JudgedInv, Judged, Inside
  <2>5. ExtractSound'
    BY <1>12 DEF RmTmpd, TypeOK, LockInv, ExtractSound, Delivered, Vouched, Inside
  <2> QED
    BY <1>0, <2>1, <2>2, <2>3, <2>4, <2>5
<1>13. CASE Mv(r)
  <2>1. AbsentInv'
    BY <1>13 DEF Mv, TypeOK, LockInv, AbsentInv, Inside, Fault
  <2>2. RefutedInv'
    BY <1>13 DEF Mv, TypeOK, LockInv, RefutedInv, Inside, Fault
  <2>3. CopyInv'
    BY <1>13 DEF Mv, TypeOK, LockInv, CopyInv, Delivered, Inside, Fault
  <2>4. JudgedInv'
    BY <1>13 DEF Mv, TypeOK, LockInv, JudgedInv, Judged, Inside, Fault
  <2>5. ExtractSound'
    <3>1. Judged(r, tmpo[r]) /\ dl[FileOf[r]] = NoFile
      BY <1>13 DEF Mv, JudgedInv, AbsentInv
    <3>2. \A s \in Delivered : FileOf[s] # FileOf[r]
      BY <3>1, NobodyHasIt
    <3>3. \A s \in Request : pc'[s] = "extracted" => pc[s] = "extracted"
      BY <1>13 DEF Mv, TypeOK
    <3>4. CASE Put(r, tmpo[r]) /\ Exit(r, rc[r])
      <4>1. ASSUME NEW s \in Delivered' PROVE s \in Delivered \/ (s = r /\ rc[r] = 0)
        <5>1. s \in Request /\ rc'[s] = 0 /\ pc'[s] \in {"exit", "ended", "extracted"}
          BY DEF Delivered
        <5>2. s # r => pc'[s] = pc[s] /\ rc'[s] = rc[s]
          BY <3>4, <5>1 DEF TypeOK
        <5>3. s = r => rc[r] = 0
          BY <3>4, <5>1 DEF TypeOK
        <5>4. s # r => s \in Delivered
          BY <5>1, <5>2 DEF Delivered
        <5> QED
          BY <5>3, <5>4
      <4>2. rc[r] = 0 => Vouched(r, tmpo[r])
        BY <3>1 DEF Judged, Vouched
      <4> QED
        BY <1>13, <3>2, <3>3, <3>4, <4>1, <4>2, PutKeepsSound DEF Mv
    <3>5. CASE Exit(r, Fault) /\ UNCHANGED dl
      <4>1. Delivered' \subseteq Delivered
        BY <3>5 DEF TypeOK, Delivered, Fault
      <4> QED
        BY <1>13, <3>3, <3>5, <4>1, QuietKeepsSound DEF Mv
    <3> QED
      BY <1>13, <3>4, <3>5 DEF Mv
  <2> QED
    BY <1>0, <2>1, <2>2, <2>3, <2>4, <2>5
<1>14. CASE Release(r)
  <2>1. AbsentInv'
    BY <1>14 DEF Release, TypeOK, LockInv, AbsentInv, Inside, Leave
  <2>2. RefutedInv'
    BY <1>14 DEF Release, TypeOK, LockInv, RefutedInv, Inside, Leave
  <2>3. CopyInv'
    BY <1>14 DEF Release, TypeOK, LockInv, CopyInv, Delivered, Inside, Leave
  <2>4. JudgedInv'
    BY <1>14 DEF Release, TypeOK, LockInv, JudgedInv, Judged, Inside, Leave
  <2>5. ExtractSound'
    BY <1>14 DEF Release, TypeOK, LockInv, ExtractSound, Delivered, Vouched, Inside, Leave
  <2> QED
    BY <1>0, <2>1, <2>2, <2>3, <2>4, <2>5
<1>15. CASE Kill(r)
  <2>1. AbsentInv'
    BY <1>15 DEF Kill, TypeOK, LockInv, AbsentInv, Inside, Leave, Killed
  <2>2. RefutedInv'
    BY <1>15 DEF Kill, TypeOK, LockInv, RefutedInv, Inside, Leave, Killed
  <2>3. CopyInv'
    BY <1>15 DEF Kill, TypeOK, LockInv, CopyInv, Delivered, Inside, Leave, Killed
  <2>4. JudgedInv'
    BY <1>15 DEF Kill, TypeOK, LockInv, JudgedInv, Judged, Inside, Leave, Killed
  <2>5. ExtractSound'
    BY <1>15 DEF Kill, TypeOK, LockInv, ExtractSound, Delivered, Vouched, Inside, Leave, Killed
  <2> QED
    BY <1>0, <2>1, <2>2, <2>3, <2>4, <2>5
<1>16. CASE Extract(r)
  <2>1. AbsentInv'
    BY <1>16 DEF Extract, TypeOK, LockInv, AbsentInv, Inside
  <2>2. RefutedInv'
    BY <1>16 DEF Extract, TypeOK, LockInv, RefutedInv, Inside
  <2>3. CopyInv'
    BY <1>16 DEF Extract, TypeOK, LockInv, CopyInv, Delivered, Inside
  <2>4. JudgedInv'
    BY <1>16 DEF Extract, TypeOK, LockInv, JudgedInv, Judged, Inside
  <2>5. ExtractSound'
    BY <1>16 DEF Extract, TypeOK, LockInv, ExtractSound, Delivered, Vouched, Inside
  <2> QED
    BY <1>0, <2>1, <2>2, <2>3, <2>4, <2>5
<1>17. CASE Ask(r)
  <2>1. AbsentInv'
    BY <1>17 DEF Ask, TypeOK, LockInv, AbsentInv, Inside
  <2>2. RefutedInv'
    BY <1>17 DEF Ask, TypeOK, LockInv, RefutedInv, Inside
  <2>3. CopyInv'
    BY <1>17 DEF Ask, TypeOK, LockInv, CopyInv, Delivered, Inside
  <2>4. JudgedInv'
    BY <1>17 DEF Ask, TypeOK, LockInv, JudgedInv, Judged, Inside
  <2>5. ExtractSound'
    BY <1>17 DEF Ask, TypeOK, LockInv, ExtractSound, Delivered, Vouched, Inside
  <2> QED
    BY <1>0, <2>1, <2>2, <2>3, <2>4, <2>5
<1>18. CASE Stop(r)
  <2>1. AbsentInv'
    BY <1>18 DEF Stop, TypeOK, LockInv, AbsentInv, Inside, Stuck
  <2>2. RefutedInv'
    BY <1>18 DEF Stop, TypeOK, LockInv, RefutedInv, Inside, Stuck
  <2>3. CopyInv'
    BY <1>18 DEF Stop, TypeOK, LockInv, CopyInv, Delivered, Inside, Stuck
  <2>4. JudgedInv'
    BY <1>18 DEF Stop, TypeOK, LockInv, JudgedInv, Judged, Inside, Stuck
  <2>5. ExtractSound'
    BY <1>18 DEF Stop, TypeOK, LockInv, ExtractSound, Delivered, Vouched, Inside, Stuck
  <2> QED
    BY <1>0, <2>1, <2>2, <2>3, <2>4, <2>5
<1> QED
  BY <1>1, <1>2, <1>3, <1>4, <1>5, <1>6, <1>7, <1>8, <1>9, <1>10, <1>11, <1>12,
     <1>13, <1>14, <1>15, <1>16, <1>17, <1>18 DEF Step

LEMMA Invariance ==
    ASSUME SameHashes
    PROVE  Spec => []IInv
<1>1. IInv /\ [Next]_vars => IInv'
  <2>1. IInv /\ Next => IInv'
    BY StepIInv DEF Next
  <2>2. IInv /\ UNCHANGED vars => IInv'
    BY DEF vars, IInv, TypeInv, TypeOK, IndexInv, LockInv, HandInv, AbsentInv,
           RefutedInv, CopyInv, JudgedInv, Judged, ExtractSound, Delivered
  <2> QED
    BY <2>1, <2>2
<1> QED
  BY InitIInv, <1>1, PTL DEF Spec

(* Trees that agree on the hashes never take a file from each other: the   *)
(* file a request has been promised is there and right until its package   *)
(* is extracted (dl-wrapper:72-83, 203-216).                               *)
THEOREM DeliveredStays ==
    ASSUME SameHashes
    PROVE  Spec => []ExtractSound
<1>1. IInv => ExtractSound
  BY DEF IInv
<1> QED
  BY <1>1, Invariance, PTL


-----------------------------------------------------------------------------
(* The wrapper implements the atomic store.                                *)

LEMMA SameAnswer ==
    ASSUME NEW r \in Request, NEW c
    PROVE  AbstractStore!Code(r, c) = Code(r, c)
BY DEF AbstractStore!Code, AbstractStore!ExitCode, AbstractStore!Refuted,
       AbstractStore!First, AbstractStore!CheckOneHash, AbstractStore!About,
       AbstractStore!NotVouched, Code, ExitCode, Refuted, First, CheckOneHash,
       About, NotVouched

LEMMA SameVouched ==
    ASSUME NEW r \in Request, NEW c
    PROVE  AbstractStore!Vouched(r, c) <=> Vouched(r, c)
BY SameAnswer DEF AbstractStore!Vouched, Vouched

(* Steps that change neither the directory nor who has been delivered.     *)
LEMMA InvisibleStep ==
    ASSUME UNCHANGED dl, Delivered' = Delivered
    PROVE  UNCHANGED AbstractStore!storeVars
BY DEF AbstractStore!storeVars

(* A step that moves r between two points where it has not been delivered. *)
LEMMA NotDelivered ==
    ASSUME TypeOK, NEW r \in Request, NEW l \in Label, Goto(r, l),
           r \notin Delivered,
           \/ l \notin {"exit", "ended", "extracted"}
           \/ rc'[r] # 0,
           \A s \in Request : s # r => rc'[s] = rc[s]
    PROVE  Delivered' = Delivered
<1>1. \A s \in Request : s \in Delivered' <=> s \in Delivered
  BY DEF TypeOK, Goto, Delivered
<1> QED
  BY <1>1 DEF Delivered

LEMMA FailedExit ==
    ASSUME TypeOK, NEW r \in Request, NEW code \in {1, Fault, Stuck}, Exit(r, code),
           r \notin Delivered
    PROVE  Delivered' = Delivered
<1>1. rc'[r] # 0 /\ \A s \in Request : s # r => rc'[s] = rc[s]
  BY DEF TypeOK, Exit, Fault, Stuck
<1>2. Goto(r, "exit") /\ "exit" \in Label
  BY DEF Exit, Label, Inside
<1> QED
  BY <1>1, <1>2, NotDelivered

LEMMA ImplementsStep ==
    ASSUME SameHashes, IInv, IInv', NEW r \in Request,
           Step(r) \/ Kill(r) \/ Extract(r) \/ Ask(r)
    PROVE  AbstractStore!StoreNext \/ UNCHANGED AbstractStore!storeVars
<1> DEFINE f == FileOf[r]
<1> USE DownloadAssumption DEF At, Goto, Exit, disk, outside, Inside, Label
<1>0. TypeOK /\ LockInv /\ f \in Name
  BY DEF IInv, TypeInv
<1>1. CASE Flock(r)
  <2>1. Delivered' = Delivered
    BY <1>0, <1>1, NotDelivered DEF Flock, Delivered
  <2> QED
    BY <1>1, <2>1, InvisibleStep DEF Flock
<1>2. CASE Legacy(r)
  <2>1. Goto(r, "existing") \/ Goto(r, "cp")
    BY <1>2 DEF Legacy
  <2>2. Delivered' = Delivered
    BY <1>0, <1>2, <2>1, NotDelivered DEF Legacy, Delivered
  <2>3. CASE UNCHANGED dl
    BY <2>2, <2>3, InvisibleStep
  <2>4. CASE dl' # dl
    <3>1. /\ dl[f] = NoFile /\ OldDl[f] # NoFile
          /\ \E c \in {OldDl[f], Cut} : Put(r, c)
      BY <1>2, <2>4 DEF Legacy
    <3>2. f \notin {FileOf[s] : s \in Delivered}
      BY <3>1, NobodyHasIt
    <3>3. AbstractStore!Adopt(f)
      BY <2>2, <3>1, <3>2 DEF AbstractStore!Adopt, AbstractStore!Put, Put
    <3> QED
      BY <1>0, <3>3 DEF AbstractStore!StoreNext
  <2> QED
    BY <2>3, <2>4
<1>3. CASE Copied(r)
  <2>1. Delivered' = Delivered
    BY <1>0, <1>3, NotDelivered DEF Copied, Delivered
  <2>2. CASE UNCHANGED dl
    BY <2>1, <2>2, InvisibleStep
  <2>3. CASE Put(r, OldDl[f])
    <3>1. dl[f] = Cut /\ OldDl[f] # NoFile /\ f \notin {FileOf[s] : s \in Delivered}
      BY <1>3 DEF Copied, IInv, CopyInv
    <3>2. AbstractStore!Adopt(f)
      BY <2>1, <2>3, <3>1 DEF AbstractStore!Adopt, AbstractStore!Put, Put
    <3> QED
      BY <1>0, <3>2 DEF AbstractStore!StoreNext
  <2> QED
    BY <1>3, <2>2, <2>3 DEF Copied
<1>4. CASE Existing(r)
  <2>1. UNCHANGED dl
    BY <1>4 DEF Existing
  <2>2. CASE dl[f] # NoFile /\ Code(r, dl[f]) = 0
    <3>1. Exit(r, 0)
      BY <1>4, <2>2 DEF Existing
    <3>2. Delivered' = Delivered \cup {r}
      <4>1. \A s \in Request : s \in Delivered' <=> s \in Delivered \/ s = r
        BY <1>0, <3>1 DEF TypeOK, Delivered
      <4> QED
        BY <4>1 DEF Delivered
    <3>3. AbstractStore!Find(r)
      BY <2>1, <2>2, <3>2, SameVouched DEF AbstractStore!Find, Vouched
    <3> QED
      BY <3>3 DEF AbstractStore!StoreNext
  <2>3. CASE ~ (dl[f] # NoFile /\ Code(r, dl[f]) = 0)
    <3>1. \/ Goto(r, "uri") /\ UNCHANGED rc
          \/ Exit(r, 1)
          \/ Goto(r, "unlink") /\ UNCHANGED rc
      BY <1>4, <2>3 DEF Existing
    <3>2. r \notin Delivered
      BY <1>4 DEF Existing, Delivered
    <3>3. Delivered' = Delivered
      <4>1. CASE Exit(r, 1)
        BY <1>0, <3>2, <4>1, FailedExit
      <4>2. CASE Goto(r, "uri") /\ UNCHANGED rc
        BY <1>0, <3>2, <4>2, NotDelivered
      <4>3. CASE Goto(r, "unlink") /\ UNCHANGED rc
        BY <1>0, <3>2, <4>3, NotDelivered
      <4> QED
        BY <3>1, <4>1, <4>2, <4>3
    <3> QED
      BY <2>1, <3>3, InvisibleStep
  <2> QED
    BY <2>2, <2>3
<1>5. CASE Unlink(r)
  <2>1. Delivered' = Delivered
    BY <1>0, <1>5, NotDelivered DEF Unlink, Delivered
  <2>2. dl[f] # NoFile /\ Code(r, dl[f]) = 2
    BY <1>5 DEF Unlink, IInv, RefutedInv
  <2>3. AbstractStore!Discard(r)
    BY <1>5, <2>1, <2>2, SameAnswer DEF Unlink, AbstractStore!Discard, AbstractStore!Put, Put
  <2> QED
    BY <2>3 DEF AbstractStore!StoreNext
<1>6. CASE TryUri(r)
  <2>1. Delivered' = Delivered
    BY <1>0, <1>6, NotDelivered DEF TryUri, Delivered, TypeOK, Fault
  <2> QED
    BY <1>6, <2>1, InvisibleStep DEF TryUri
<1>7. CASE Backend(r)
  <2>1. rc' = rc /\ (Goto(r, "uri") \/ Goto(r, "post") \/ Goto(r, "check"))
    BY <1>7 DEF Backend, NextUri
  <2>2. Delivered' = Delivered
    BY <1>0, <1>7, <2>1, NotDelivered DEF Backend, Delivered
  <2> QED
    BY <1>7, <2>2, InvisibleStep DEF Backend
<1>8. CASE PostProcessStep(r)
  <2>1. Delivered' = Delivered
    BY <1>0, <1>8, NotDelivered DEF PostProcessStep, Delivered, TypeOK
  <2> QED
    BY <1>8, <2>1, InvisibleStep DEF PostProcessStep
<1>9. CASE Check(r)
  <2>1. Goto(r, "mktemp") \/ Goto(r, "uri")
    BY <1>9 DEF Check, NextUri
  <2>2. \A s \in Request : s # r => rc'[s] = rc[s]
    BY <1>0, <1>9 DEF Check, NextUri, TypeOK
  <2>3. Delivered' = Delivered
    BY <1>0, <1>9, <2>1, <2>2, NotDelivered DEF Check, Delivered
  <2> QED
    BY <1>9, <2>3, InvisibleStep DEF Check
<1>10. CASE MkTemp(r)
  <2>1. (Goto(r, "cat") /\ UNCHANGED rc) \/ Exit(r, Fault)
    BY <1>10 DEF MkTemp
  <2>2. Delivered' = Delivered
    BY <1>0, <1>10, <2>1, NotDelivered DEF MkTemp, Delivered, TypeOK, Fault
  <2> QED
    BY <1>10, <2>2, InvisibleStep DEF MkTemp
<1>11. CASE Cat(r)
  <2>1. (Goto(r, "rmtmpd") /\ UNCHANGED rc) \/ Exit(r, Fault)
    BY <1>11 DEF Cat
  <2>2. Delivered' = Delivered
    BY <1>0, <1>11, <2>1, NotDelivered DEF Cat, Delivered, TypeOK, Fault
  <2> QED
    BY <1>11, <2>2, InvisibleStep DEF Cat
<1>12. CASE RmTmpd(r)
  <2>1. Delivered' = Delivered
    BY <1>0, <1>12, NotDelivered DEF RmTmpd, Delivered
  <2> QED
    BY <1>12, <2>1, InvisibleStep DEF RmTmpd
<1>13. CASE Mv(r)
  <2>1. /\ dl[f] = NoFile
        /\ tmpo[r] \in Content
        /\ \/ Code(r, tmpo[r]) = 0 /\ rc[r] = 0
           \/ Code(r, tmpo[r]) = 3 /\ rc[r] = 1
        /\ r \notin Delivered
    BY <1>0, <1>13 DEF Mv, IInv, AbsentInv, JudgedInv, Judged, TypeOK, MaybeFile, Delivered
  <2>2. CASE Exit(r, Fault) /\ UNCHANGED dl
    <3>1. Delivered' = Delivered
      BY <1>0, <2>1, <2>2, FailedExit
    <3> QED
      BY <2>2, <3>1, InvisibleStep
  <2>3. CASE Put(r, tmpo[r]) /\ Exit(r, rc[r]) /\ rc[r] = 0
    <3>1. \A s \in Request : s \in Delivered' <=> s \in Delivered \/ s = r
      BY <1>0, <2>3 DEF TypeOK, Delivered
    <3>2. Delivered' = Delivered \cup {r}
      BY <3>1 DEF Delivered
    <3>3. AbstractStore!Vouched(r, tmpo[r])
      BY <2>1, <2>3, SameVouched DEF Vouched
    <3>4. AbstractStore!Store(r)
      BY <2>1, <2>3, <3>2, <3>3 DEF AbstractStore!Store, AbstractStore!Put, Put
    <3> QED
      BY <3>4 DEF AbstractStore!StoreNext
  <2>4. CASE Put(r, tmpo[r]) /\ Exit(r, rc[r]) /\ rc[r] = 1
    <3>1. Delivered' = Delivered
      BY <1>0, <2>1, <2>4, FailedExit
    <3>2. AbstractStore!Code(r, tmpo[r]) = 3
      BY <2>1, <2>4, SameAnswer
    <3>3. AbstractStore!StoreUnknown(r)
      BY <2>1, <2>4, <3>1, <3>2 DEF AbstractStore!StoreUnknown, AbstractStore!Put, Put
    <3> QED
      BY <3>3 DEF AbstractStore!StoreNext
  <2> QED
    BY <1>13, <2>1, <2>2, <2>3, <2>4 DEF Mv
<1>14. CASE Release(r)
  <2>1. \A s \in Request : s \in Delivered' <=> s \in Delivered
    BY <1>0, <1>14 DEF Release, Leave, TypeOK, Delivered
  <2>2. Delivered' = Delivered
    BY <2>1 DEF Delivered
  <2> QED
    BY <1>14, <2>2, InvisibleStep DEF Release, Leave
<1>15. CASE Kill(r)
  <2>1. \A s \in Request : s \in Delivered' <=> s \in Delivered /\ s # r
    BY <1>0, <1>15 DEF Kill, Leave, TypeOK, Delivered, Killed
  <2>2. Delivered' = Delivered \ {r}
    BY <2>1 DEF Delivered
  <2>3. AbstractStore!Ask(r)
    BY <1>15, <2>2 DEF Kill, Leave, AbstractStore!Ask
  <2> QED
    BY <2>3 DEF AbstractStore!StoreNext
<1>16. CASE Extract(r)
  <2>1. \A s \in Request : s \in Delivered' <=> s \in Delivered
    BY <1>0, <1>16 DEF Extract, TypeOK, Delivered
  <2>2. Delivered' = Delivered
    BY <2>1 DEF Delivered
  <2> QED
    BY <1>16, <2>2, InvisibleStep DEF Extract
<1>17. CASE Ask(r)
  <2>1. \A s \in Request : s \in Delivered' <=> s \in Delivered /\ s # r
    BY <1>0, <1>17 DEF Ask, TypeOK, Delivered
  <2>2. Delivered' = Delivered \ {r}
    BY <2>1 DEF Delivered
  <2>3. AbstractStore!Ask(r)
    BY <1>17, <2>2 DEF Ask, AbstractStore!Ask
  <2> QED
    BY <2>3 DEF AbstractStore!StoreNext
<1>18. CASE Stop(r)
  <2>1. r \notin Delivered
    BY <1>18 DEF Stop, Delivered
  <2>2. Delivered' = Delivered
    BY <1>0, <1>18, <2>1, FailedExit DEF Stop
  <2> QED
    BY <1>18, <2>2, InvisibleStep DEF Stop
<1> QED
  BY <1>1, <1>2, <1>3, <1>4, <1>5, <1>6, <1>7, <1>8, <1>9, <1>10, <1>11, <1>12,
     <1>13, <1>14, <1>15, <1>16, <1>17, <1>18 DEF Step

(* Whatever the requests, the hashes, the servers and the faults, the      *)
(* wrapper is an atomic store of checked files, as long as the trees that  *)
(* share it agree on the hashes (dl-wrapper:3-15).                         *)
THEOREM Refinement ==
    ASSUME SameHashes
    PROVE  Spec => Implements
<1>1. Init => AbstractStore!StoreInit
  BY DEF Init, AbstractStore!StoreInit, MaybeFile, Delivered
<1>2. IInv /\ IInv' /\ [Next]_vars => [AbstractStore!StoreNext]_(AbstractStore!storeVars)
  <2> SUFFICES ASSUME IInv, IInv', [Next]_vars
               PROVE  AbstractStore!StoreNext \/ UNCHANGED AbstractStore!storeVars
    OBVIOUS
  <2>1. CASE Next
    BY <2>1, ImplementsStep DEF Next
  <2>2. CASE UNCHANGED vars
    BY <2>2, InvisibleStep DEF vars, Delivered
  <2> QED
    BY <2>1, <2>2
<1> QED
  BY <1>1, <1>2, Invariance, PTL DEF Spec, Implements, AbstractStore!StoreSpec

-----------------------------------------------------------------------------
(* The type invariant, once for all that follows.                          *)

LEMMA Typed == Spec => []TypeInv
<1>1. TypeInv /\ [Next]_vars => TypeInv'
  <2>1. TypeInv /\ Next => TypeInv'
    BY StepTypeInv DEF Next
  <2>2. TypeInv /\ UNCHANGED vars => TypeInv'
    BY DEF vars, TypeInv, TypeOK, IndexInv, LockInv, HandInv
  <2> QED
    BY <2>1, <2>2
<1> QED
  BY InitTypeInv, <1>1, PTL DEF Spec

-----------------------------------------------------------------------------
(* What is left behind.                                                    *)

(* tmp_output is there between mktemp and mv only, and after a failing     *)
(* chmod or removal.                                                       *)
OutputInv ==
    /\ \A r \in Request : tmpo[r] # NoFile =>
          pc[r] \in {"cat", "rmtmpd", "mv"} \/ (pc[r] = "exit" /\ rc[r] = Stuck)
    /\ DlDirUncluttered

LEMMA StepOutput ==
    ASSUME TypeOK, OutputInv, NEW r \in Request, Step(r) \/ Kill(r) \/ Extract(r) \/ Ask(r)
    PROVE  OutputInv'
<1> USE DEF TypeOK, OutputInv, DlDirUncluttered, At, Goto, Exit, disk, outside, Fault, Stuck, Killed
<1>1. ASSUME NEW l, pc[r] \notin {"cat", "rmtmpd", "mv", "exit"}, Goto(r, l), UNCHANGED <<tmpo, litter>>,
             \A s \in Request : s # r => rc'[s] = rc[s]
      PROVE  OutputInv'
  BY <1>1
<1>2. CASE Flock(r)
  BY <1>1, <1>2 DEF Flock
<1>3. CASE Legacy(r)
  BY <1>1, <1>3 DEF Legacy
<1>4. CASE Copied(r)
  BY <1>1, <1>4 DEF Copied
<1>5. CASE Existing(r)
  BY <1>1, <1>5 DEF Existing
<1>6. CASE Unlink(r)
  BY <1>1, <1>6 DEF Unlink
<1>7. CASE TryUri(r)
  BY <1>1, <1>7 DEF TryUri
<1>8. CASE Backend(r)
  BY <1>1, <1>8 DEF Backend, NextUri
<1>9. CASE PostProcessStep(r)
  BY <1>1, <1>9 DEF PostProcessStep
<1>10. CASE Check(r)
  BY <1>1, <1>10 DEF Check, NextUri
<1>11. CASE MkTemp(r)
  BY <1>11 DEF MkTemp
<1>12. CASE Cat(r)
  BY <1>12 DEF Cat
<1>13. CASE RmTmpd(r)
  BY <1>13 DEF RmTmpd
<1>14. CASE Mv(r)
  BY <1>14 DEF Mv
<1>15. CASE Release(r)
  <2>1. tmpo[r] = NoFile \/ rc[r] = Stuck
    BY <1>15 DEF Release
  <2>2. "exit" \notin litter'
    BY <1>15, <2>1 DEF Release, Leave
  <2> QED
    BY <1>15, <2>2 DEF Release, Leave
<1>16. CASE Kill(r)
  <2>1. "exit" \notin litter'
    BY <1>16 DEF Kill, Leave
  <2> QED
    BY <1>16, <2>1 DEF Kill, Leave
<1>17. CASE Extract(r)
  BY <1>1, <1>17 DEF Extract
<1>18. CASE Ask(r)
  BY <1>1, <1>18 DEF Ask
<1>19. CASE Stop(r)
  BY <1>19 DEF Stop
<1> QED
  BY <1>2, <1>3, <1>4, <1>5, <1>6, <1>7, <1>8, <1>9, <1>10, <1>11, <1>12,
     <1>13, <1>14, <1>15, <1>16, <1>17, <1>18, <1>19 DEF Step

(* No tmp_output stays in the shared directory unless the wrapper was      *)
(* killed, or the chmod after mktemp or an rm failed (DlDirUncluttered).   *)
THEOREM Uncluttered == Spec => []DlDirUncluttered
<1>1. Init => OutputInv
  BY DEF Init, OutputInv, DlDirUncluttered
<1>2. TypeInv /\ OutputInv /\ [Next]_vars => OutputInv'
  <2>1. TypeInv /\ OutputInv /\ Next => OutputInv'
    BY StepOutput DEF Next, TypeInv
  <2>2. OutputInv /\ UNCHANGED vars => OutputInv'
    BY DEF vars, OutputInv, DlDirUncluttered
  <2> QED
    BY <2>1, <2>2
<1>3. OutputInv => DlDirUncluttered
  BY DEF OutputInv
<1> QED
  BY Typed, <1>1, <1>2, <1>3, PTL DEF Spec

-----------------------------------------------------------------------------
(* One good location.                                                      *)

Good(r, i) == i \in DOMAIN Uris(r) /\ \A c \in Serves[Uris(r)[i]] : Vouched(r, c)
Lucky == {r \in Request \ PostProcess : GoodUri(r) /\ Refutable(r)}

(* The search has not gone past the good location; what it has found       *)
(* before is refuted; and what it saves is vouched for.                    *)
SearchInv ==
    \A r \in Lucky :
        /\ pc[r] \in {"unlink", "uri", "backend", "check"} => \E i \in DOMAIN Uris(r) : Good(r, i) /\ u[r] <= i
        /\ pc[r] = "check" => tmpf[r] \in Serves[Uris(r)[u[r]]]
        /\ pc[r] # "post"
        /\ pc[r] \in {"mktemp", "cat", "rmtmpd", "mv"} => rc[r] = 0
        /\ pc[r] \in {"exit", "ended"} => rc[r] # 1

LEMMA GoesOn ==
    ASSUME NEW r \in Lucky, NEW i, Good(r, i), NEW n \in Nat \ {0}, n <= i,
           NEW c \in Serves[Uris(r)[n]], c = NoFile \/ Code(r, c) # 0
    PROVE  n + 1 <= i
<1>1. Uris(r) \in Seq(Uri)
  BY UrisType DEF Lucky
<1>2. i \in Nat
  BY <1>1 DEF Good
<1>3. n # i
  BY DEF Good, Vouched
<1> QED
  BY <1>2, <1>3

LEMMA StepSearch ==
    ASSUME TypeInv, TypeInv', SearchInv, NEW r \in Request, Step(r) \/ Kill(r) \/ Extract(r) \/ Ask(r)
    PROVE  SearchInv'
<1> DEFINE Searching == \E i \in DOMAIN Uris(r) : Good(r, i) /\ u[r] <= i
<1>1. SUFFICES ASSUME r \in Lucky
      PROVE /\ pc'[r] \in {"unlink", "uri", "backend", "check"} => \E i \in DOMAIN Uris(r) : Good(r, i) /\ u'[r] <= i
            /\ pc'[r] = "check" => tmpf'[r] \in Serves[Uris(r)[u'[r]]]
            /\ pc'[r] # "post"
            /\ pc'[r] \in {"mktemp", "cat", "rmtmpd", "mv"} => rc'[r] = 0
            /\ pc'[r] \in {"exit", "ended"} => rc'[r] # 1
  <2>1. \A s \in Request : s # r => pc'[s] = pc[s] /\ u'[s] = u[s] /\ tmpf'[s] = tmpf[s] /\ rc'[s] = rc[s]
    BY DEF TypeInv, TypeOK, Step, Flock, Legacy, Copied, Existing, Unlink, TryUri, Backend, PostProcessStep,
       Check, MkTemp, Cat, RmTmpd, Mv, Stop, Release, Kill, Extract, Ask, NextUri, Leave, Goto, Exit, disk, outside
  <2>2. ASSUME NEW s \in Lucky, s # r
        PROVE  /\ pc'[s] \in {"unlink", "uri", "backend", "check"} => \E i \in DOMAIN Uris(s) : Good(s, i) /\ u'[s] <= i
               /\ pc'[s] = "check" => tmpf'[s] \in Serves[Uris(s)[u'[s]]]
               /\ pc'[s] # "post"
               /\ pc'[s] \in {"mktemp", "cat", "rmtmpd", "mv"} => rc'[s] = 0
               /\ pc'[s] \in {"exit", "ended"} => rc'[s] # 1
    <3>1. s \in Request
      BY DEF Lucky
    <3>2. pc'[s] = pc[s] /\ u'[s] = u[s] /\ tmpf'[s] = tmpf[s] /\ rc'[s] = rc[s]
      BY <2>1, <2>2, <3>1
    <3> QED
      BY <3>2 DEF SearchInv
  <2> QED
    BY <2>2 DEF SearchInv
<1>2. /\ pc[r] \in {"unlink", "uri", "backend", "check"} => Searching
      /\ pc[r] = "check" => tmpf[r] \in Serves[Uris(r)[u[r]]]
      /\ pc[r] # "post"
      /\ pc[r] \in {"mktemp", "cat", "rmtmpd", "mv"} => rc[r] = 0
      /\ pc[r] \in {"exit", "ended"} => rc[r] # 1
  BY <1>1 DEF SearchInv
<1>3. r \in Request \ PostProcess /\ Refutable(r)
  BY <1>1 DEF Lucky
<1>4. pc \in [Request -> Label] /\ rc \in [Request -> {0, 1, Fault, Stuck, Killed}] /\ u[r] \in Nat \ {0}
  BY DEF TypeInv, TypeOK
<1> HIDE DEF Searching
<1>5. ASSUME NextUri(r), pc[r] \in {"backend", "check"}, NEW c \in Serves[Uris(r)[u[r]]], c = NoFile \/ Code(r, c) # 0
      PROVE  pc'[r] = "uri" /\ \E i \in DOMAIN Uris(r) : Good(r, i) /\ u'[r] <= i
  <2>1. PICK i \in DOMAIN Uris(r) : Good(r, i) /\ u[r] <= i
    BY <1>2, <1>5 DEF Searching
  <2>2. u[r] + 1 <= i
    BY <1>1, <1>4, <1>5, <2>1, GoesOn
  <2>3. u'[r] = u[r] + 1 /\ pc'[r] = "uri"
    BY <1>3, <1>4, <1>5 DEF NextUri, Goto, TypeInv, TypeOK
  <2> QED
    BY <2>1, <2>2, <2>3
<1>6. ASSUME UNCHANGED u, Searching
      PROVE  \E i \in DOMAIN Uris(r) : Good(r, i) /\ u'[r] <= i
  BY <1>6 DEF Searching
<1>7. CASE Flock(r) \/ Legacy(r) \/ Copied(r) \/ Ask(r) \/ Extract(r)
  <2>1. pc'[r] \in {"legacy", "cp", "existing", "flock", "extracted"}
    BY <1>3, <1>4, <1>7 DEF Flock, Legacy, Copied, Ask, Extract, Goto
  <2> QED
    BY <2>1
<1>8. CASE Existing(r)
  <2>1. \E i \in DOMAIN Uris(r) : Good(r, i) /\ u'[r] <= i
    <3>1. PICK i \in DOMAIN Uris(r) : Good(r, i)
      BY <1>1 DEF Lucky, GoodUri, Good
    <3>2. i \in Nat \ {0}
      BY <1>3, UrisType
    <3>3. u'[r] = 1
      BY <1>3, <1>8 DEF Existing, TypeInv, TypeOK
    <3> QED
      BY <3>1, <3>2, <3>3
  <2>2. dl[FileOf[r]] # NoFile => Code(r, dl[FileOf[r]]) \in {0, 2}
    BY <1>3, DownloadAssumption DEF Refutable, TypeInv, TypeOK, MaybeFile
  <2>3. pc'[r] \in {"uri", "unlink"} \/ (pc'[r] = "exit" /\ rc'[r] = 0)
    BY <1>3, <1>4, <1>8, <2>2 DEF Existing, Goto, Exit
  <2> QED
    BY <2>1, <2>3
<1>9. CASE Unlink(r)
  <2>1. pc'[r] = "uri" /\ UNCHANGED u /\ Searching
    BY <1>2, <1>3, <1>4, <1>9 DEF Unlink, Goto, At
  <2> QED
    BY <1>6, <2>1
<1>10. CASE TryUri(r)
  <2>1. Searching /\ UNCHANGED u
    BY <1>2, <1>10 DEF TryUri, At
  <2>2. u[r] <= Len(Uris(r))
    BY <1>3, <1>4, <2>1, UrisType DEF Searching
  <2>3. pc'[r] = "backend" \/ (pc'[r] = "exit" /\ rc'[r] = Fault)
    BY <1>3, <1>4, <1>10, <2>2 DEF TryUri, Goto, Exit
  <2> QED
    BY <1>6, <2>1, <2>3 DEF Fault
<1>11. CASE Backend(r)
  <2>1. PICK c \in Serves[Uris(r)[u[r]]] :
            IF c = NoFile THEN NextUri(r)
            ELSE /\ tmpf' = [tmpf EXCEPT ![r] = c]
                 /\ Goto(r, IF r \in PostProcess THEN "post" ELSE "check")
                 /\ UNCHANGED <<u, rc, tmpd, tmpo>>
    BY <1>11 DEF Backend
  <2>2. pc[r] = "backend" /\ Searching
    BY <1>2, <1>11 DEF Backend, At
  <2>3. CASE c = NoFile
    BY <1>5, <2>1, <2>2, <2>3
  <2>4. CASE c # NoFile
    <3>1. pc'[r] = "check" /\ tmpf'[r] = c /\ u' = u
      BY <1>3, <1>4, <2>1, <2>4 DEF Goto, TypeInv, TypeOK
    <3> QED
      BY <1>6, <2>2, <3>1
  <2> QED
    BY <2>3, <2>4
<1>12. CASE PostProcessStep(r)
  BY <1>2, <1>12 DEF PostProcessStep, At
<1>13. CASE Check(r)
  <2>1. pc[r] = "check" /\ tmpf[r] \in Serves[Uris(r)[u[r]]]
    BY <1>2, <1>13 DEF Check, At
  <2>2. Code(r, tmpf[r]) \in {0, 2}
    BY <1>3, <2>1 DEF Refutable, TypeInv, TypeOK, HandInv, MaybeFile
  <2>3. CASE Code(r, tmpf[r]) = 0
    <3>1. pc'[r] = "mktemp" /\ rc'[r] = 0
      BY <1>3, <1>4, <1>13, <2>3 DEF Check, Goto
    <3> QED
      BY <3>1
  <2>4. CASE Code(r, tmpf[r]) = 2
    <3>1. NextUri(r)
      BY <1>13, <2>4 DEF Check
    <3> QED
      BY <1>5, <2>1, <2>4, <3>1
  <2> QED
    BY <2>2, <2>3, <2>4
<1>14. CASE MkTemp(r) \/ Cat(r) \/ RmTmpd(r)
  <2>1. rc[r] = 0
    BY <1>2, <1>14 DEF MkTemp, Cat, RmTmpd, At
  <2>2. (pc'[r] \in {"cat", "rmtmpd", "mv"} /\ rc'[r] = rc[r]) \/ (pc'[r] = "exit" /\ rc'[r] = Fault)
    BY <1>3, <1>4, <1>14 DEF MkTemp, Cat, RmTmpd, Goto, Exit
  <2> QED
    BY <2>1, <2>2 DEF Fault
<1>15. CASE Mv(r)
  <2>1. rc[r] = 0
    BY <1>2, <1>15 DEF Mv, At
  <2>2. pc'[r] = "exit" /\ rc'[r] \in {0, Fault}
    BY <1>3, <1>4, <1>15, <2>1 DEF Mv, Goto, Exit
  <2> QED
    BY <2>2 DEF Fault
<1>16. CASE Release(r)
  <2>1. pc[r] = "exit" /\ pc'[r] = "ended" /\ rc' = rc
    BY <1>3, <1>4, <1>16 DEF Release, Leave, Goto, At
  <2> QED
    BY <1>2, <2>1
<1>17. CASE Kill(r)
  <2>1. pc'[r] = "ended" /\ rc'[r] = Killed
    BY <1>3, <1>4, <1>17 DEF Kill, Leave, Goto
  <2> QED
    BY <2>1 DEF Killed
<1>18. CASE Stop(r)
  <2>1. pc'[r] = "exit" /\ rc'[r] = Stuck
    BY <1>3, <1>4, <1>18 DEF Stop, Exit, Goto
  <2> QED
    BY <2>1 DEF Stuck
<1> QED
  BY <1>7, <1>8, <1>9, <1>10, <1>11, <1>12, <1>13, <1>14, <1>15, <1>16, <1>17, <1>18 DEF Step

(* When one of the locations always serves the right file, and hashes      *)
(* refute any other, no location before it and no file that is there makes *)
(* the download fail (GoodUriSucceeds).                                    *)
THEOREM OneGoodUri == Spec => []GoodUriSucceeds
<1>1. Init => SearchInv
  BY DEF Init, SearchInv, Lucky
<1>2. TypeInv /\ TypeInv' /\ SearchInv /\ [Next]_vars => SearchInv'
  <2>1. TypeInv /\ TypeInv' /\ SearchInv /\ Next => SearchInv'
    BY StepSearch DEF Next
  <2>2. SearchInv /\ UNCHANGED vars => SearchInv'
    BY DEF vars, SearchInv, disk, outside, Lucky, GoodUri, Refutable, Good, Uris, Vouched, Code
  <2> QED
    BY <2>1, <2>2
<1>3. SearchInv => GoodUriSucceeds
  BY DEF SearchInv, GoodUriSucceeds, Lucky
<1> QED
  BY Typed, <1>1, <1>2, <1>3, PTL DEF Spec

-----------------------------------------------------------------------------
(* Every request ends.  The one that holds the lock has a number of        *)
(* commands left, by the locations that it has not tried; every wrapper    *)
(* that ends leaves fewer of them, and of the requests that may yet be     *)
(* asked.                                                                  *)

Working(r) == pc[r] \in Inside \cup {"flock"}
Waiting == {r \in Request : Working(r)}

(* The locations after the one that r tries.                               *)
Later(r) == IF u[r] < Len(Uris(r)) THEN Len(Uris(r)) - u[r] ELSE 0

Commands(r) ==
    CASE pc[r] = "exit" -> 1 [] pc[r] = "mv" -> 2 [] pc[r] = "rmtmpd" -> 3
      [] pc[r] = "cat" -> 4 [] pc[r] = "mktemp" -> 5
      [] pc[r] = "uri" -> 6 + (IF u[r] <= Len(Uris(r)) THEN 4 + 4 * Later(r) ELSE 0)
      [] pc[r] = "check" -> 7 + 4 * Later(r)
      [] pc[r] = "post" -> 8 + 4 * Later(r)
      [] pc[r] = "backend" -> 9 + 4 * Later(r)
      [] pc[r] = "unlink" -> 7 + 4 * Len(Uris(r))
      [] pc[r] = "existing" -> 8 + 4 * Len(Uris(r))
      [] pc[r] = "cp" -> 9 + 4 * Len(Uris(r))
      [] OTHER -> 10 + 4 * Len(Uris(r))

ShortLists == \A r \in Request : Len(Uris(r)) <= 1000

Inner == IF lock = Free THEN 10000 ELSE Commands(lock)
Outer == Cardinality(Waiting) + (MaxAsks - asks)
Left == 20000 * Outer + Inner

(* Some request goes on until none is left: what fairness says of requests *)
(* of which one can always take a step.                                    *)
AnyStep == \E r \in Request : Step(r)
Progress == []<>(Waiting = {}) \/ []<><<AnyStep>>_vars

LEMMA CommandsType ==
    ASSUME TypeOK, ShortLists, NEW r \in Request
    PROVE  Commands(r) \in Nat /\ 1 <= Commands(r) /\ Commands(r) <= 5000
<1>1. Len(Uris(r)) \in Nat /\ Len(Uris(r)) <= 1000 /\ u[r] \in Nat \ {0}
  BY UrisType DEF ShortLists, TypeOK
<1>2. Later(r) \in Nat /\ Later(r) <= 1000
  <2>1. CASE u[r] < Len(Uris(r))
    <3>1. Later(r) = Len(Uris(r)) - u[r]
      BY <2>1 DEF Later
    <3> QED
      BY <1>1, <2>1, <3>1
  <2>2. CASE ~(u[r] < Len(Uris(r)))
    BY <2>2 DEF Later
  <2> QED
    BY <2>1, <2>2
<1>3. CASE pc[r] \in {"exit", "mv", "rmtmpd", "cat", "mktemp"}
  <2>1. Commands(r) \in {1, 2, 3, 4, 5}
    BY <1>3 DEF Commands
  <2> QED
    BY <2>1
<1>4. CASE pc[r] \in {"uri", "check", "post", "backend"}
  <2>1. Commands(r) \in {6, 10 + 4 * Later(r), 7 + 4 * Later(r), 8 + 4 * Later(r), 9 + 4 * Later(r)}
    BY <1>2, <1>4 DEF Commands
  <2> QED
    BY <1>2, <2>1
<1>5. CASE pc[r] \notin {"exit", "mv", "rmtmpd", "cat", "mktemp", "uri", "check", "post", "backend"}
  <2>1. Commands(r) \in {7 + 4 * Len(Uris(r)), 8 + 4 * Len(Uris(r)), 9 + 4 * Len(Uris(r)), 10 + 4 * Len(Uris(r))}
    BY <1>1, <1>5 DEF Commands
  <2> QED
    BY <1>1, <2>1
<1> QED
  BY <1>3, <1>4, <1>5

(* Going on with the next address.                                         *)
LEMMA NextUriLowers ==
    ASSUME TypeOK, NEW r \in Request, pc[r] \in {"backend", "check"}, NextUri(r)
    PROVE  /\ Commands(r)' \in Nat /\ Commands(r)' < Commands(r)
           /\ pc'[r] = "uri"
           /\ \A s \in Request : s # r => pc'[s] = pc[s]
<1> DEFINE n == Len(Uris(r))
           i == u[r]
           left == Later(r)
<1>1. n \in Nat /\ i \in Nat \ {0}
  BY UrisType DEF TypeOK
<1>2. pc'[r] = "uri" /\ u'[r] = i + 1 /\ \A s \in Request : s # r => pc'[s] = pc[s]
  BY DEF NextUri, Goto, TypeOK
<1>3. left = IF i < n THEN n - i ELSE 0
  BY DEF Later
<1>4. Later(r)' = IF i + 1 < n THEN n - (i + 1) ELSE 0
  BY <1>2 DEF Later
<1>5. Commands(r)' = 6 + (IF i + 1 <= n THEN 4 + 4 * Later(r)' ELSE 0)
  BY <1>2 DEF Commands
<1>6. Commands(r) \in {7 + 4 * left, 9 + 4 * left}
  BY DEF Commands
<1> HIDE DEF n, i, left
<1> QED
  BY <1>1, <1>2, <1>3, <1>4, <1>5, <1>6

(* Every command of a wrapper but the last lowers the number of those that *)
(* are left.                                                               *)
LEMMA CommandsLower ==
    ASSUME TypeOK, ShortLists, NEW r \in Request, pc[r] \in Inside,
           Step(r), ~Release(r)
    PROVE  /\ Commands(r)' \in Nat /\ Commands(r)' < Commands(r)
           /\ pc'[r] \in Inside /\ UNCHANGED <<lock, asks>>
           /\ \A s \in Request : s # r => pc'[s] = pc[s]
<1>1. Len(Uris(r)) \in Nat /\ u[r] \in Nat \ {0}
  BY UrisType DEF TypeOK
<1>2. Later(r) \in Nat
  BY <1>1 DEF Later
<1> USE <1>1, <1>2 DEF TypeOK, At, Goto, Exit, disk, outside, Fault, Commands, Inside
<1>3. CASE Legacy(r)
  BY <1>3 DEF Legacy
<1>4. CASE Copied(r)
  BY <1>4 DEF Copied
<1>5. CASE Existing(r)
  BY <1>5 DEF Existing, Later
<1>6. CASE Unlink(r)
  BY <1>6 DEF Unlink, Later
<1>7. CASE TryUri(r)
  <2>1. CASE Exit(r, 1) \/ Exit(r, Fault)
    BY <1>7, <2>1 DEF TryUri, Later
  <2>2. CASE u[r] <= Len(Uris(r)) /\ Goto(r, "backend")
    BY <1>7, <2>2 DEF TryUri, Later
  <2> QED
    BY <1>7, <2>1, <2>2 DEF TryUri
<1>8. CASE Backend(r)
  <2>1. /\ pc[r] = "backend" /\ UNCHANGED <<lock, asks>>
        /\ NextUri(r) \/ ((Goto(r, "post") \/ Goto(r, "check")) /\ UNCHANGED u)
    BY <1>8 DEF Backend
  <2>2. CASE NextUri(r)
    <3>1. /\ Commands(r)' \in Nat /\ Commands(r)' < Commands(r)
          /\ pc'[r] = "uri" /\ \A s \in Request : s # r => pc'[s] = pc[s]
      BY <2>1, <2>2, NextUriLowers
    <3> HIDE DEF Commands
    <3> QED
      BY <2>1, <3>1
  <2>3. CASE (Goto(r, "post") \/ Goto(r, "check")) /\ UNCHANGED u
    BY <2>1, <2>3 DEF Later
  <2> QED
    BY <2>1, <2>2, <2>3
<1>9. CASE PostProcessStep(r)
  <2>1. /\ pc[r] = "post" /\ pc'[r] \in {"check", "exit"} /\ UNCHANGED <<u, lock, asks>>
        /\ \A s \in Request : s # r => pc'[s] = pc[s]
    BY <1>9, PostMoves
  <2>2. Commands(r) = 8 + 4 * Later(r)
    BY <2>1
  <2>3. Later(r)' = Later(r)
    BY <2>1 DEF Later
  <2>4. Commands(r)' = IF pc'[r] = "exit" THEN 1 ELSE 7 + 4 * Later(r)'
    BY <2>1
  <2> HIDE DEF Commands
  <2> QED
    BY <1>2, <2>1, <2>2, <2>3, <2>4
<1>10. CASE Check(r)
  <2>1. /\ pc[r] = "check" /\ UNCHANGED <<lock, asks>>
        /\ NextUri(r) \/ (Goto(r, "mktemp") /\ UNCHANGED u)
    BY <1>10 DEF Check
  <2>2. CASE NextUri(r)
    <3>1. /\ Commands(r)' \in Nat /\ Commands(r)' < Commands(r)
          /\ pc'[r] = "uri" /\ \A s \in Request : s # r => pc'[s] = pc[s]
      BY <2>1, <2>2, NextUriLowers
    <3> HIDE DEF Commands
    <3> QED
      BY <2>1, <3>1
  <2>3. CASE Goto(r, "mktemp") /\ UNCHANGED u
    BY <2>1, <2>3
  <2> QED
    BY <2>1, <2>2, <2>3
<1>11. CASE MkTemp(r)
  BY <1>11 DEF MkTemp
<1>12. CASE Cat(r)
  BY <1>12 DEF Cat
<1>13. CASE RmTmpd(r)
  BY <1>13 DEF RmTmpd
<1>14. CASE Mv(r)
  BY <1>14 DEF Mv
<1>15. CASE Stop(r)
  <2>1. pc[r] \in {"unlink", "cat", "rmtmpd", "mv", "backend", "check"}
    BY <1>15 DEF Stop
  <2>2. Commands(r) \in Nat /\ Commands(r) > 1
    <3>1. Commands(r) \in {2, 3, 4, 7 + 4 * Later(r), 9 + 4 * Later(r), 7 + 4 * Len(Uris(r))}
      BY <2>1
    <3> HIDE DEF Commands
    <3> QED
      BY <1>1, <1>2, <3>1
  <2>3. pc'[r] = "exit" /\ UNCHANGED <<lock, asks>> /\ \A s \in Request : s # r => pc'[s] = pc[s]
    BY <1>15 DEF Stop
  <2>4. Commands(r)' = 1
    BY <2>3
  <2> HIDE DEF Commands
  <2> QED
    BY <2>2, <2>3, <2>4
<1>16. ~Flock(r)
  BY DEF Flock
<1> QED
  BY <1>3, <1>4, <1>5, <1>6, <1>7, <1>8, <1>9, <1>10, <1>11, <1>12, <1>13, <1>14, <1>15, <1>16 DEF Step

(* What the proof asks of the constants and of the state.                  *)
Countable == ShortLists /\ IsFiniteSet(Request)
AsksOK == asks <= MaxAsks
CountInv == TypeInv /\ AsksOK

LEMMA Counted == Spec => []CountInv
<1>1. Init => AsksOK
  BY DownloadAssumption DEF Init, AsksOK
<1>2. TypeInv /\ AsksOK /\ [Next]_vars => AsksOK'
  <2> SUFFICES ASSUME TypeInv, asks <= MaxAsks, Next PROVE asks' <= MaxAsks
    BY DEF vars, AsksOK
  <2>1. PICK r \in Request : Step(r) \/ Kill(r) \/ Extract(r) \/ Ask(r)
    BY DEF Next
  <2>2. CASE Ask(r)
    BY <2>2, DownloadAssumption DEF Ask, TypeInv, TypeOK
  <2>3. CASE Step(r) \/ Kill(r) \/ Extract(r)
    <3>1. asks' = asks
      BY <2>3 DEF Step, Flock, Legacy, Copied, Existing, Unlink, TryUri, Backend, PostProcessStep,
         Check, MkTemp, Cat, RmTmpd, Mv, Stop, Release, Kill, Extract, Leave, outside
    <3> QED
      BY <3>1
  <2> QED
    BY <2>1, <2>2, <2>3
<1> QED
  BY <1>1, <1>2, Typed, PTL DEF Spec, CountInv

LEMMA LeftType ==
    ASSUME CountInv, Countable
    PROVE  /\ Inner \in Nat /\ Inner <= 10000
           /\ IsFiniteSet(Waiting) /\ Outer \in Nat /\ Outer <= Cardinality(Request) + MaxAsks
           /\ Left \in Nat
           /\ \A r \in Request : Working(r) => Left > 0
<1>1. Inner \in Nat /\ 1 <= Inner /\ Inner <= 10000
  <2>1. CASE lock = Free
    BY <2>1 DEF Inner
  <2>2. CASE lock # Free
    <3>1. lock \in Request /\ Inner = Commands(lock)
      BY <2>2 DEF CountInv, TypeInv, TypeOK, Inner
    <3> QED
      BY <3>1, CommandsType DEF CountInv, TypeInv, Countable
  <2> QED
    BY <2>1, <2>2
<1>2. Waiting \in SUBSET Request /\ IsFiniteSet(Request)
  BY DEF Waiting, Countable
<1>3. /\ IsFiniteSet(Waiting) /\ Cardinality(Waiting) \in Nat
      /\ Cardinality(Request) \in Nat /\ Cardinality(Waiting) <= Cardinality(Request)
  BY <1>2, FS_Subset, FS_CardinalityType
<1>4. asks \in Nat /\ asks <= MaxAsks /\ MaxAsks \in Nat
  BY DownloadAssumption DEF CountInv, AsksOK, TypeInv, TypeOK
<1>5. Outer \in Nat /\ Outer <= Cardinality(Request) + MaxAsks
  BY <1>3, <1>4 DEF Outer
<1>6. Left \in Nat /\ Left > 0
  BY <1>1, <1>5 DEF Left
<1> QED
  BY <1>1, <1>3, <1>5, <1>6

(* A request is gone: its place, and perhaps the lock, is another's.       *)
LEMMA LeaveLowers ==
    ASSUME CountInv, Countable, NEW r \in Request, Working(r), NEW how, Leave(r, how)
    PROVE  Left' < Left
<1>1. Waiting' = Waiting \ {r} /\ r \in Waiting /\ asks' = asks
  BY DEF Leave, Goto, Waiting, Working, Inside, CountInv, TypeInv, TypeOK
<1>2. Outer' = Outer - 1
  <2>1. Cardinality(Waiting') = Cardinality(Waiting) - 1
    <3>1. IsFiniteSet(Waiting)
      BY LeftType
    <3> QED
      BY <1>1, <3>1, FS_RemoveElement
  <2>2. Cardinality(Waiting) \in Nat /\ asks \in Nat /\ MaxAsks \in Nat
    BY LeftType, FS_CardinalityType, DownloadAssumption DEF CountInv, TypeInv, TypeOK
  <2> QED
    BY <1>1, <2>1, <2>2 DEF Outer
<1>3. Inner' \in Nat /\ Inner' <= 10000
  <2>1. CASE lock' = Free
    BY <2>1 DEF Inner
  <2>2. CASE lock' # Free
    <3>1. lock' = lock /\ lock # r /\ lock \in Request
      BY <2>2 DEF Leave, CountInv, TypeInv, TypeOK
    <3>2. pc'[lock] = pc[lock] /\ u' = u
      BY <3>1 DEF Leave, Goto, CountInv, TypeInv, TypeOK
    <3>3. Commands(lock)' = Commands(lock)
      BY <3>1, <3>2 DEF Commands, Later
    <3> QED
      BY <2>2, <3>1, <3>3, LeftType DEF Inner
  <2> QED
    BY <2>1, <2>2
<1>4. Inner \in Nat /\ Outer \in Nat
  BY LeftType
<1>5. PICK o \in Nat, i \in Nat, k \in Nat : o = Outer /\ i = Inner /\ k = Inner'
  BY <1>3, <1>4
<1>6. Left' = 20000 * (o - 1) + k /\ Left = 20000 * o + i
  BY <1>2, <1>5 DEF Left
<1>7. 20000 * (o - 1) + k < 20000 * o + i
  <2>1. k <= 10000
    BY <1>3, <1>5
  <2> QED
    BY <2>1
<1> QED
  BY <1>6, <1>7

LEMMA StepLowers ==
    ASSUME CountInv, Countable, NEW r \in Request, Step(r)
    PROVE  Left' < Left
<1>0. Inner \in Nat /\ Outer \in Nat /\ asks \in Nat
  BY LeftType DEF CountInv, TypeInv, TypeOK
<1>1. CASE Flock(r)
  <2>1. lock = Free /\ lock' = r /\ pc' = [pc EXCEPT ![r] = "legacy"] /\ UNCHANGED <<u, asks>>
    BY <1>1 DEF Flock, Goto, outside
  <2>2. Waiting' = Waiting
    BY <1>1, <2>1 DEF Flock, At, Waiting, Working, Inside, CountInv, TypeInv, TypeOK
  <2>3. r # Free
    BY DownloadAssumption
  <2>4. Inner' = 10 + 4 * Len(Uris(r)) /\ Inner = 10000
    <3>1. pc'[r] = "legacy"
      BY <2>1 DEF CountInv, TypeInv, TypeOK
    <3>2. Commands(r)' = 10 + 4 * Len(Uris(r))
      BY <3>1 DEF Commands
    <3> QED
      BY <2>1, <2>3, <3>2 DEF Inner
  <2>5. Len(Uris(r)) \in Nat /\ Len(Uris(r)) <= 1000
    BY UrisType DEF Countable, ShortLists
  <2>6. Outer' = Outer
    BY <2>1, <2>2 DEF Outer
  <2> QED
    BY <1>0, <2>4, <2>5, <2>6 DEF Left
<1>2. CASE Release(r)
  <2>1. Working(r) /\ \E how \in {"exit", "stuck"} : Leave(r, how)
    BY <1>2 DEF Release, At, Working, Inside
  <2> QED
    BY <2>1, LeaveLowers
<1>3. CASE ~Flock(r) /\ ~Release(r)
  <2>1. pc[r] \in Inside
    BY <1>3 DEF Step, Legacy, Copied, Existing, Unlink, TryUri, Backend, PostProcessStep,
       Check, MkTemp, Cat, RmTmpd, Mv, Stop, At, Inside
  <2>2. lock = r /\ r # Free
    BY <2>1, DownloadAssumption DEF CountInv, TypeInv, LockInv
  <2>3. /\ Commands(r)' \in Nat /\ Commands(r)' < Commands(r)
        /\ pc'[r] \in Inside /\ UNCHANGED <<lock, asks>>
        /\ \A s \in Request : s # r => pc'[s] = pc[s]
    BY <1>3, <2>1, CommandsLower DEF CountInv, TypeInv, Countable
  <2>4. Waiting' = Waiting
    <3>1. \A s \in Request : Working(s)' <=> Working(s)
      BY <2>1, <2>3 DEF Working
    <3> QED
      BY <3>1 DEF Waiting
  <2>5. Outer' = Outer
    BY <2>3, <2>4 DEF Outer
  <2>6. Inner = Commands(r) /\ Inner' = Commands(r)'
    BY <2>2, <2>3 DEF Inner
  <2>7. Inner' \in Nat /\ Inner' < Inner
    BY <2>3, <2>6
  <2>8. PICK o \in Nat, i \in Nat, k \in Nat : o = Outer /\ i = Inner /\ k = Inner'
    BY <1>0, <2>7
  <2>9. Left' = 20000 * o + k /\ Left = 20000 * o + i
    BY <2>5, <2>8 DEF Left
  <2>10. 20000 * o + k < 20000 * o + i
    <3>1. k < i
      BY <2>7, <2>8
    <3> QED
      BY <3>1
  <2> QED
    BY <2>9, <2>10
<1> QED
  BY <1>1, <1>2, <1>3

LEMMA NothingRaises ==
    ASSUME CountInv, Countable, [Next]_vars, Left' \in Nat
    PROVE  Left' <= Left
<1>0. Left \in Nat
  BY LeftType
<1>1. CASE UNCHANGED vars
  <2>1. Left' = Left
    BY <1>1 DEF vars, Left, Outer, Inner, Waiting, Working, Commands, Later
  <2> QED
    BY <1>0, <2>1
<1>2. ASSUME NEW r \in Request, Step(r)
      PROVE  Left' <= Left
  BY <1>0, <1>2, StepLowers
<1>3. ASSUME NEW r \in Request, Kill(r)
      PROVE  Left' <= Left
  <2>1. Working(r) /\ Leave(r, "kill")
    BY <1>3 DEF Kill, Working
  <2> QED
    BY <1>0, <2>1, LeaveLowers
<1>4. ASSUME NEW r \in Request, Extract(r) \/ Ask(r)
      PROVE  Left' <= Left
  <2>1. pc[r] \in {"ended", "extracted"} /\ UNCHANGED <<lock, u>>
    BY <1>4 DEF Extract, Ask, At
  <2>2. \A s \in Request : s # r => pc'[s] = pc[s]
    BY <1>4 DEF Extract, Ask, Goto, CountInv, TypeInv, TypeOK
  <2>3. Inner' = Inner
    <3>1. lock # Free => lock \in Request /\ lock # r
      BY <2>1 DEF CountInv, TypeInv, TypeOK, LockInv, Inside
    <3>2. lock # Free => Commands(lock)' = Commands(lock)
      BY <2>1, <2>2, <3>1 DEF Commands, Later
    <3> QED
      BY <2>1, <3>2 DEF Inner
  <2>4. IsFiniteSet(Waiting) /\ Cardinality(Waiting) \in Nat /\ asks \in Nat /\ MaxAsks \in Nat
    BY LeftType, FS_CardinalityType, DownloadAssumption DEF CountInv, TypeInv, TypeOK
  <2>5. Outer' = Outer
    <3>1. CASE Extract(r)
      <4>1. Waiting' = Waiting /\ asks' = asks
        BY <3>1, <2>1, <2>2 DEF Extract, Goto, Waiting, Working, Inside, CountInv, TypeInv, TypeOK
      <4> QED
        BY <4>1 DEF Outer
    <3>2. CASE Ask(r)
      <4>1. Waiting' = Waiting \cup {r} /\ r \notin Waiting /\ asks' = asks + 1
        BY <3>2, <2>1, <2>2 DEF Ask, Goto, Waiting, Working, Inside, CountInv, TypeInv, TypeOK
      <4>2. Cardinality(Waiting') = Cardinality(Waiting) + 1
        BY <2>4, <4>1, FS_AddElement
      <4> QED
        BY <2>4, <4>1, <4>2 DEF Outer
    <3> QED
      BY <1>4, <3>1, <3>2
  <2>6. Left' = Left
    BY <2>3, <2>5 DEF Left
  <2> QED
    BY <1>0, <2>6
<1> QED
  BY <1>1, <1>2, <1>3, <1>4 DEF Next

(* n commands fewer: r ends, or comes to where at most j of all are left.  *)
Lowers(r, j, n) == Working(r) /\ Left <= j + n ~> (Working(r) /\ Left <= j) \/ pc[r] = "ended"

LEMMA OneStage ==
    ASSUME Countable, NEW r \in Request, NEW j \in Nat
    PROVE  Spec /\ Progress => Lowers(r, j, 1)
<1>1. CountInv => Left \in Nat
  BY LeftType
<1>2. CountInv' => (Left \in Nat)'
  BY <1>1, PTL
<1>3. CountInv /\ Working(r) /\ [Next]_vars => Working(r)' \/ (pc[r] = "ended")'
  <2> SUFFICES ASSUME CountInv, Working(r), [Next]_vars PROVE Working(r)' \/ pc'[r] = "ended"
    OBVIOUS
  <2>1. CASE UNCHANGED vars
    BY <2>1 DEF vars, Working
  <2>2. ASSUME NEW s \in Request, Release(s) \/ Kill(s) \/ Flock(s) \/ Ask(s) \/ Extract(s)
        PROVE  Working(r)' \/ pc'[r] = "ended"
    BY <2>2 DEF Release, Kill, Leave, Flock, Ask, Extract, At, Goto, Working, Inside, CountInv, TypeInv, TypeOK
  <2>3. ASSUME NEW s \in Request, Step(s), ~Release(s), ~Flock(s)
        PROVE  Working(r)' \/ pc'[r] = "ended"
    <3>1. pc[s] \in Inside
      BY <2>3 DEF Step, Legacy, Copied, Existing, Unlink, TryUri, Backend, PostProcessStep,
         Check, MkTemp, Cat, RmTmpd, Mv, Stop, At, Inside
    <3>2. pc'[s] \in Inside /\ (r # s => pc'[r] = pc[r])
      BY <2>3, <3>1, CommandsLower DEF CountInv, TypeInv, Countable
    <3> QED
      BY <3>2 DEF Working
  <2> QED
    BY <2>1, <2>2, <2>3 DEF Next, Step
<1>4. CountInv /\ CountInv' /\ Left <= j + 1 /\ [Next]_vars => (Left <= j + 1)'
  BY <1>1, <1>2, NothingRaises
<1>5. CountInv /\ CountInv' /\ Left <= j + 1 /\ <<AnyStep>>_vars => (Left <= j)'
  BY <1>1, <1>2, StepLowers DEF AnyStep
<1>6. Working(r) => ~(Waiting = {})
  BY DEF Waiting
<1> QED
  BY <1>3, <1>4, <1>5, <1>6, Counted, PTL DEF Spec, Progress, Lowers

LEMMA AddStages ==
    ASSUME Countable, NEW r \in Request,
           NEW j \in Nat, NEW a \in Nat, NEW b \in Nat, NEW c \in Nat, c = a + b
    PROVE  Spec /\ Lowers(r, j, a) /\ Lowers(r, j + a, b) => Lowers(r, j, c)
<1>1. CountInv /\ Left <= j + c => Left <= (j + a) + b
  BY LeftType
<1> QED
  BY <1>1, Counted, PTL DEF Lowers

(* Every request comes to its end, when some request goes on as long as    *)
(* there is one: nobody waits for the lock or loops over the locations for *)
(* ever, whatever fails or is killed (support/download/dl-wrapper:23-216,  *)
(* package/pkg-download.mk).                                               *)
THEOREM RequestsEnd ==
    ASSUME IsFiniteSet(Request), \A r \in Request : Len(Uris(r)) <= 1000,
           Cardinality(Request) + MaxAsks <= 1000000
    PROVE  Spec /\ Progress => EveryRequestEnds
<1>0. Countable
  BY DEF Countable, ShortLists
<1>1. ASSUME NEW r \in Request PROVE Spec /\ Progress => RequestEnds(r)
  <2> DEFINE All(n) == \A j \in Nat : Spec /\ Progress => Lowers(r, j, n)
  <2>1. ASSUME NEW a \in Nat, NEW b \in Nat, NEW c \in Nat, c = a + b
        PROVE  All(a) /\ All(b) => All(c)
    <3>1. \A j \in Nat : j + a \in Nat
      OBVIOUS
    <3> QED
      BY <1>0, <2>1, <3>1, AddStages
  <2>2. ASSUME NEW n \in Nat, NEW m \in Nat, m = 10 * n
        PROVE  All(n) => All(m)
    <3>1. /\ 2 * n \in Nat /\ 4 * n \in Nat /\ 5 * n \in Nat
          /\ 2 * n = n + n /\ 4 * n = 2 * n + 2 * n /\ 5 * n = 4 * n + n /\ m = 5 * n + 5 * n
      BY <2>2
    <3>2. All(n) => All(2 * n)
      BY <2>1, <3>1
    <3>3. All(2 * n) => All(4 * n)
      BY <2>1, <3>1
    <3>4. All(4 * n) /\ All(n) => All(5 * n)
      BY <2>1, <3>1
    <3>5. All(5 * n) => All(m)
      BY <2>1, <3>1
    <3> QED
      BY <3>2, <3>3, <3>4, <3>5
  <2>3. All(1)
    BY <1>0, OneStage
  <2>4. All(100000000000)
    <3>1. /\ 10 = 10 * 1 /\ 100 = 10 * 10 /\ 1000 = 10 * 100 /\ 10000 = 10 * 1000
          /\ 100000 = 10 * 10000 /\ 1000000 = 10 * 100000 /\ 10000000 = 10 * 1000000
          /\ 100000000 = 10 * 10000000 /\ 1000000000 = 10 * 100000000
          /\ 10000000000 = 10 * 1000000000 /\ 100000000000 = 10 * 10000000000
          /\ {1, 10, 100, 1000, 10000, 100000, 1000000, 10000000, 100000000, 1000000000,
              10000000000, 100000000000} \subseteq Nat
      BY SMT
    <3>2. All(1000)
      BY <2>2, <2>3, <3>1, SMT
    <3>3. All(1000000)
      BY <2>2, <3>1, <3>2, SMT
    <3>4. All(1000000000)
      BY <2>2, <3>1, <3>3, SMT
    <3> QED
      BY <2>2, <3>1, <3>4, SMT
  <2>5. Spec /\ Progress => Lowers(r, 0, 100000000000)
    BY <2>4, SMT
  <2>6. CountInv => Left <= 0 + 100000000000
    <3> SUFFICES ASSUME CountInv PROVE Left <= 0 + 100000000000
      OBVIOUS
    <3>1. Inner \in Nat /\ Inner <= 10000 /\ Outer \in Nat /\ Outer <= 1000000
      <4>1. Cardinality(Request) \in Nat /\ MaxAsks \in Nat
        BY FS_CardinalityType, DownloadAssumption
      <4> QED
        BY <1>0, <4>1, LeftType
    <3> QED
      BY <3>1, SMT DEF Left
  <2>7. CountInv /\ Working(r) => ~(Left <= 0)
    BY <1>0, LeftType
  <2>8. pc[r] = "flock" => Working(r)
    BY DEF Working
  <2> QED
    BY <2>5, <2>6, <2>7, <2>8, Counted, PTL DEF Lowers, RequestEnds
<1> QED
  BY <1>1 DEF EveryRequestEnds

=============================================================================
