--------------------------- MODULE Patches_proofs ---------------------------
(***************************************************************************)
(* For any layout of directories of patches, nested in any way, and any    *)
(* failures and kills: what is stamped as patched has been given every     *)
(* patch once and in the order of its directory, and none was refused.     *)
(***************************************************************************)
EXTENDS Board, TLAPS

-----------------------------------------------------------------------------
(* Directories within directories.                                         *)

LEMMA Contents ==
    ASSUME NEW l \in Layouts, NEW d \in Dirs
    PROVE  /\ l[d] \in Seq(Entry)
           /\ \A i \in DOMAIN l[d] : l[d][i] \in Entry
           /\ Names(l, d, "dir") \subseteq Dirs
           /\ Names(l, d, "patch") \subseteq STRING
<1>1. l[d] \in Seq(Entry)
  BY PatchesAssumption
<1>2. \A i \in DOMAIN l[d] : l[d][i] \in Entry
  BY <1>1
<1>3. \A e \in Entry : (e.kind = "dir" => e.name \in Dirs) /\ (e.kind = "patch" => e.name \in STRING)
  BY DEF Entry
<1> QED
  BY <1>1, <1>2, <1>3 DEF Names

LEMMA UnderContains ==
    ASSUME NEW l \in Layouts, NEW ds \in SUBSET Dirs
    PROVE  ds \subseteq Under(l, ds) /\ Under(l, ds) \subseteq Dirs
BY DEF Under

LEMMA UnderClosed ==
    ASSUME NEW l \in Layouts, NEW ds \in SUBSET Dirs, NEW d \in Under(l, ds)
    PROVE  Names(l, d, "dir") \subseteq Under(l, ds)
<1>1. d \in Dirs
  BY DEF Under
<1>2. Names(l, d, "dir") \subseteq Dirs
  BY <1>1, Contents
<1> QED
  BY <1>1, <1>2 DEF Under

LEMMA UnderGrows ==
    ASSUME NEW l \in Layouts, NEW ds \in SUBSET Dirs, NEW es \in SUBSET Dirs, ds \subseteq es
    PROVE  Under(l, ds) \subseteq Under(l, es)
BY DEF Under

LEMMA UnderNone ==
    ASSUME NEW l \in Layouts
    PROVE  Under(l, {}) = {}
<1>1. ASSUME NEW d \in Under(l, {}) PROVE FALSE
  <2>1. \A S \in SUBSET Dirs : ({} \subseteq S /\ \A x \in S : Names(l, x, "dir") \subseteq S) => d \in S
    BY DEF Under
  <2>2. {} \in SUBSET Dirs /\ {} \subseteq {} /\ \A x \in {} : Names(l, x, "dir") \subseteq {}
    OBVIOUS
  <2> QED
    BY <2>1, <2>2
<1> QED
  BY <1>1

(* A directory that is opened gives way to those in it.                    *)
LEMMA OpenUnder ==
    ASSUME NEW l \in Layouts, NEW ds \in SUBSET Dirs, NEW d \in Dirs
    PROVE  Under(l, ds \cup {d}) \subseteq {d} \cup Under(l, ds \cup Names(l, d, "dir"))
<1> DEFINE es == ds \cup Names(l, d, "dir")
           T == {d} \cup Under(l, es)
<1>1. es \in SUBSET Dirs
  BY Contents
<1>2. es \subseteq Under(l, es) /\ Under(l, es) \subseteq Dirs
  BY <1>1, UnderContains
<1>3. T \in SUBSET Dirs /\ (ds \cup {d}) \subseteq T
  BY <1>2
<1>4. ASSUME NEW x \in T PROVE Names(l, x, "dir") \subseteq T
  <2>1. CASE x = d
    BY <2>1, <1>2
  <2>2. CASE x \in Under(l, es)
    BY <2>2, <1>1, UnderClosed
  <2> QED
    BY <2>1, <2>2
<1>5. ASSUME NEW x \in Under(l, ds \cup {d}) PROVE x \in T
  BY <1>3, <1>4 DEF Under
<1> QED
  BY <1>5

-----------------------------------------------------------------------------
(* What is still to be looked at.                                          *)

Patch == [dir : Dirs, name : STRING]
Item == [dir : Dirs, entry : Entry]

AllCalls == {Calls[i] : i \in DOMAIN Calls}
CallsAfter(k) == {Calls[i] : i \in {i \in DOMAIN Calls : i > k}}

PatchAt(l, d, i) == [dir |-> d, name |-> l[d][i].name]
IsPatch(l, d, i) == i \in DOMAIN l[d] /\ l[d][i].kind = "patch"
Visit(l, d, i) == [dir |-> d, entry |-> l[d][i]]
Visits(l, d) == [i \in DOMAIN l[d] |-> Visit(l, d, i)]

PatchesOf(t) == {[dir |-> t[k].dir, name |-> t[k].entry.name] : k \in {k \in DOMAIN t : t[k].entry.kind = "patch"}}
DirsOf(t) == {t[k].entry.name : k \in {k \in DOMAIN t : t[k].entry.kind = "dir"}}

(* The patches that the rest of the step comes to, with t to look at in    *)
(* the call k.                                                             *)
Ahead(l, t, k) == PatchesOf(t) \cup PatchesIn(l, DirsOf(t) \cup CallsAfter(k))
Pending == Ahead(contents, todo, call)

LEMMA InPatchesIn ==
    ASSUME NEW l \in Layouts, NEW ds \in SUBSET Dirs
    PROVE  /\ \A p \in PatchesIn(l, ds) :
                 \E d \in Under(l, ds) : \E i \in DOMAIN l[d] : IsPatch(l, d, i) /\ p = PatchAt(l, d, i)
           /\ \A d \in Under(l, ds) : \A i \in DOMAIN l[d] :
                 IsPatch(l, d, i) => PatchAt(l, d, i) \in PatchesIn(l, ds)
           /\ PatchesIn(l, ds) \subseteq Patch
<1>1. ASSUME NEW p \in PatchesIn(l, ds)
      PROVE  \E d \in Under(l, ds) : \E i \in DOMAIN l[d] : IsPatch(l, d, i) /\ p = PatchAt(l, d, i)
  <2>1. PICK d \in Under(l, ds) : \E n \in Names(l, d, "patch") : p = [dir |-> d, name |-> n]
    BY DEF PatchesIn
  <2>2. PICK i \in DOMAIN l[d] : l[d][i].kind = "patch" /\ p = [dir |-> d, name |-> l[d][i].name]
    BY <2>1 DEF Names
  <2> QED
    BY <2>2 DEF IsPatch, PatchAt
<1>2. ASSUME NEW d \in Under(l, ds), NEW i \in DOMAIN l[d], IsPatch(l, d, i)
      PROVE  PatchAt(l, d, i) \in PatchesIn(l, ds)
  <2>1. l[d][i].name \in Names(l, d, "patch")
    BY <1>2 DEF Names, IsPatch
  <2> QED
    BY <2>1 DEF PatchesIn, PatchAt
<1>3. ASSUME NEW p \in PatchesIn(l, ds) PROVE p \in Patch
  <2>1. PICK d \in Under(l, ds) : \E n \in Names(l, d, "patch") : p = [dir |-> d, name |-> n]
    BY DEF PatchesIn
  <2>2. d \in Dirs
    BY UnderContains
  <2> QED
    BY <2>1, <2>2, Contents DEF Patch
<1> QED
  BY <1>1, <1>2, <1>3

LEMMA PatchesGrow ==
    ASSUME NEW l \in Layouts, NEW ds \in SUBSET Dirs, NEW es \in SUBSET Dirs, ds \subseteq es
    PROVE  PatchesIn(l, ds) \subseteq PatchesIn(l, es)
BY UnderGrows DEF PatchesIn

LEMMA CallsAreDirs ==
    AllCalls \in SUBSET Dirs /\ \A k \in Nat : CallsAfter(k) \in SUBSET Dirs
BY PatchesAssumption DEF AllCalls, CallsAfter

LEMMA InPatchesOf ==
    ASSUME NEW t \in Seq(Item)
    PROVE  /\ PatchesOf(t) \subseteq Patch
           /\ DirsOf(t) \subseteq Dirs
<1>1. \A k \in DOMAIN t : t[k] \in Item
  OBVIOUS
<1>2. \A e \in Entry : (e.kind = "dir" => e.name \in Dirs) /\ (e.kind = "patch" => e.name \in STRING)
  BY DEF Entry
<1>3. \A x \in Item : x.dir \in Dirs /\ x.entry \in Entry
  BY DEF Item
<1> QED
  BY <1>1, <1>2, <1>3 DEF PatchesOf, DirsOf, Patch

LEMMA VisitsAre ==
    ASSUME NEW l \in Layouts, NEW d \in Dirs
    PROVE  /\ Visits(l, d) \in Seq(Item)
           /\ Len(Visits(l, d)) = Len(l[d]) /\ DOMAIN Visits(l, d) = DOMAIN l[d]
           /\ \A i \in DOMAIN l[d] : Visits(l, d)[i] = Visit(l, d, i)
           /\ DirsOf(Visits(l, d)) = Names(l, d, "dir")
           /\ \A i \in DOMAIN l[d] : IsPatch(l, d, i) => PatchAt(l, d, i) \in PatchesOf(Visits(l, d))
<1> DEFINE v == Visits(l, d)
<1>1. l[d] \in Seq(Entry) /\ \A i \in DOMAIN l[d] : l[d][i] \in Entry
  BY Contents
<1>2. DOMAIN l[d] = 1 .. Len(l[d]) /\ Len(l[d]) \in Nat
  BY <1>1
<1>3. \A i \in DOMAIN l[d] : Visit(l, d, i) \in Item
  BY <1>1 DEF Visit, Item
<1>4. v \in Seq(Item) /\ Len(v) = Len(l[d]) /\ DOMAIN v = DOMAIN l[d]
  BY <1>2, <1>3 DEF Visits
<1>5. \A i \in DOMAIN l[d] : v[i] = Visit(l, d, i)
  BY DEF Visits
<1> HIDE DEF v
<1>6. ASSUME NEW i \in DOMAIN l[d] PROVE v[i].dir = d /\ v[i].entry = l[d][i]
  <2>1. v[i] = Visit(l, d, i)
    BY <1>5
  <2>2. Visit(l, d, i).dir = d /\ Visit(l, d, i).entry = l[d][i]
    BY DEF Visit
  <2> QED
    BY <2>1, <2>2
<1>7. DirsOf(v) = Names(l, d, "dir")
  BY <1>4, <1>6 DEF DirsOf, Names
<1>8. ASSUME NEW i \in DOMAIN l[d], IsPatch(l, d, i) PROVE PatchAt(l, d, i) \in PatchesOf(v)
  BY <1>4, <1>6, <1>8 DEF PatchesOf, PatchAt, IsPatch
<1> QED
  BY <1>4, <1>5, <1>7, <1>8 DEF v

LEMMA JoinedHas ==
    ASSUME NEW s \in Seq(Item), NEW t \in Seq(Item)
    PROVE  /\ s \o t \in Seq(Item)
           /\ PatchesOf(s) \cup PatchesOf(t) \subseteq PatchesOf(s \o t)
           /\ DirsOf(s \o t) = DirsOf(s) \cup DirsOf(t)
<1> DEFINE u == s \o t
<1>1. /\ u \in Seq(Item) /\ Len(u) = Len(s) + Len(t) /\ Len(s) \in Nat /\ Len(t) \in Nat
      /\ DOMAIN u = 1 .. Len(u) /\ DOMAIN s = 1 .. Len(s) /\ DOMAIN t = 1 .. Len(t)
  OBVIOUS
<1>2. \A k \in DOMAIN s : k \in DOMAIN u /\ u[k] = s[k]
  BY <1>1
<1>3. \A k \in DOMAIN t : Len(s) + k \in DOMAIN u /\ u[Len(s) + k] = t[k]
  BY <1>1
<1>4. \A k \in DOMAIN u : k \in DOMAIN s \/ (k - Len(s) \in DOMAIN t /\ u[k] = t[k - Len(s)])
  BY <1>1
<1> HIDE DEF u
<1>5. PatchesOf(s) \subseteq PatchesOf(u)
  BY <1>2 DEF PatchesOf
<1>6. PatchesOf(t) \subseteq PatchesOf(u)
  BY <1>3 DEF PatchesOf
<1>7. DirsOf(s) \subseteq DirsOf(u)
  BY <1>2 DEF DirsOf
<1>8. DirsOf(t) \subseteq DirsOf(u)
  BY <1>3 DEF DirsOf
<1>9. DirsOf(u) \subseteq DirsOf(s) \cup DirsOf(t)
  BY <1>2, <1>4 DEF DirsOf
<1> QED
  BY <1>1, <1>5, <1>6, <1>7, <1>8, <1>9 DEF u

LEMMA TailHas ==
    ASSUME NEW t \in Seq(Item), t # <<>>
    PROVE  /\ Tail(t) \in Seq(Item) /\ Head(t) \in Item /\ Head(t) = t[1]
           /\ PatchesOf(t) \subseteq {[dir |-> Head(t).dir, name |-> Head(t).entry.name]} \cup PatchesOf(Tail(t))
           /\ Head(t).entry.kind # "patch" => PatchesOf(t) \subseteq PatchesOf(Tail(t))
           /\ DirsOf(t) \subseteq {Head(t).entry.name} \cup DirsOf(Tail(t))
           /\ Head(t).entry.kind # "dir" => DirsOf(t) \subseteq DirsOf(Tail(t))
<1> DEFINE u == Tail(t)
<1>1. /\ u \in Seq(Item) /\ Len(u) = Len(t) - 1 /\ Len(t) \in Nat \ {0} /\ Head(t) = t[1]
      /\ DOMAIN u = 1 .. Len(u) /\ DOMAIN t = 1 .. Len(t)
  OBVIOUS
<1>2. t[1] \in Item
  BY <1>1
<1>3. \A k \in DOMAIN t : k = 1 \/ (k - 1 \in DOMAIN u /\ u[k - 1] = t[k])
  BY <1>1
<1> HIDE DEF u
<1>4. PatchesOf(t) \subseteq {[dir |-> t[1].dir, name |-> t[1].entry.name]} \cup PatchesOf(u)
  BY <1>3 DEF PatchesOf
<1>5. t[1].entry.kind # "patch" => PatchesOf(t) \subseteq PatchesOf(u)
  BY <1>3 DEF PatchesOf
<1>6. DirsOf(t) \subseteq {t[1].entry.name} \cup DirsOf(u)
  BY <1>3 DEF DirsOf
<1>7. t[1].entry.kind # "dir" => DirsOf(t) \subseteq DirsOf(u)
  BY <1>3 DEF DirsOf
<1> QED
  BY <1>1, <1>2, <1>4, <1>5, <1>6, <1>7 DEF u

LEMMA OpenPatches ==
    ASSUME NEW l \in Layouts, NEW ds \in SUBSET Dirs, NEW d \in Dirs
    PROVE  PatchesIn(l, ds \cup {d}) \subseteq PatchesOf(Visits(l, d)) \cup PatchesIn(l, ds \cup Names(l, d, "dir"))
<1> DEFINE es == ds \cup Names(l, d, "dir")
<1>1. es \in SUBSET Dirs /\ ds \cup {d} \in SUBSET Dirs
  BY Contents
<1>2. Under(l, ds \cup {d}) \subseteq {d} \cup Under(l, es)
  BY OpenUnder
<1> HIDE DEF es
<1>3. ASSUME NEW p \in PatchesIn(l, ds \cup {d}) PROVE p \in PatchesOf(Visits(l, d)) \cup PatchesIn(l, es)
  <2>1. PICK x \in Under(l, ds \cup {d}) : \E i \in DOMAIN l[x] : IsPatch(l, x, i) /\ p = PatchAt(l, x, i)
    BY <1>1, InPatchesIn
  <2>2. PICK i \in DOMAIN l[x] : IsPatch(l, x, i) /\ p = PatchAt(l, x, i)
    BY <2>1
  <2>3. CASE x = d
    BY <2>2, <2>3, VisitsAre
  <2>4. CASE x \in Under(l, es)
    BY <2>2, <2>4, <1>1, InPatchesIn
  <2> QED
    BY <2>3, <2>4, <1>2
<1> QED
  BY <1>3 DEF es

LEMMA EmptyAhead ==
    ASSUME NEW l \in Layouts
    PROVE  /\ \A k \in Nat : Ahead(l, <<>>, k) = PatchesIn(l, CallsAfter(k))
           /\ Ahead(l, <<>>, Len(Calls)) = {}
           /\ CallsAfter(0) = AllCalls
<1>1. PatchesOf(<<>>) = {} /\ DirsOf(<<>>) = {}
  BY DEF PatchesOf, DirsOf
<1>2. \A k \in Nat : Ahead(l, <<>>, k) = PatchesIn(l, CallsAfter(k))
  BY <1>1 DEF Ahead
<1>3. DOMAIN Calls = 1 .. Len(Calls) /\ Len(Calls) \in Nat
  BY PatchesAssumption
<1>4. CallsAfter(Len(Calls)) = {} /\ CallsAfter(0) = AllCalls
  BY <1>3 DEF CallsAfter, AllCalls
<1>5. PatchesIn(l, {}) = {}
  BY UnderNone DEF PatchesIn
<1> QED
  BY <1>2, <1>3, <1>4, <1>5

LEMMA CallAhead ==
    ASSUME NEW l \in Layouts, NEW k \in Nat, k + 1 \in DOMAIN Calls
    PROVE  Ahead(l, <<>>, k) \subseteq Ahead(l, Visits(l, Calls[k + 1]), k + 1)
<1> DEFINE d == Calls[k + 1]
<1>1. DOMAIN Calls = 1 .. Len(Calls) /\ Len(Calls) \in Nat /\ d \in Dirs
  BY PatchesAssumption
<1>2. CallsAfter(k) = CallsAfter(k + 1) \cup {d}
  BY <1>1 DEF CallsAfter
<1>3. CallsAfter(k + 1) \in SUBSET Dirs
  BY CallsAreDirs
<1> HIDE DEF d
<1>4. PatchesIn(l, CallsAfter(k + 1) \cup {d}) \subseteq
          PatchesOf(Visits(l, d)) \cup PatchesIn(l, CallsAfter(k + 1) \cup Names(l, d, "dir"))
  BY <1>1, <1>3, OpenPatches
<1>5. DirsOf(Visits(l, d)) \cup CallsAfter(k + 1) = CallsAfter(k + 1) \cup Names(l, d, "dir")
  BY <1>1, VisitsAre
<1>6. Ahead(l, <<>>, k) = PatchesIn(l, CallsAfter(k))
  BY EmptyAhead
<1> QED
  BY <1>2, <1>4, <1>5, <1>6 DEF Ahead, d

LEMMA DescendAhead ==
    ASSUME NEW l \in Layouts, NEW k \in Nat, NEW t \in Seq(Item), t # <<>>, Head(t).entry.kind = "dir"
    PROVE  /\ Head(t).entry.name \in Dirs
           /\ Ahead(l, t, k) \subseteq Ahead(l, Visits(l, Head(t).entry.name) \o Tail(t), k)
<1> DEFINE d == Head(t).entry.name
           u == Tail(t)
           ds == DirsOf(u) \cup CallsAfter(k)
           v == Visits(l, d)
<1>1. /\ u \in Seq(Item) /\ Head(t) \in Item
      /\ PatchesOf(t) \subseteq PatchesOf(u) /\ DirsOf(t) \subseteq {d} \cup DirsOf(u)
  BY TailHas
<1>2. d \in Dirs
  BY <1>1 DEF Item, Entry
<1>3. CallsAfter(k) \in SUBSET Dirs /\ DirsOf(u) \in SUBSET Dirs /\ DirsOf(t) \in SUBSET Dirs
  BY <1>1, CallsAreDirs, InPatchesOf
<1>4. v \in Seq(Item) /\ DirsOf(v) = Names(l, d, "dir")
  BY <1>2, VisitsAre
<1>5. /\ PatchesOf(v) \cup PatchesOf(u) \subseteq PatchesOf(v \o u)
      /\ DirsOf(v \o u) = DirsOf(v) \cup DirsOf(u)
  BY <1>1, <1>4, JoinedHas
<1> HIDE DEF d, u, v
<1>6. PatchesIn(l, DirsOf(t) \cup CallsAfter(k)) \subseteq PatchesIn(l, ds \cup {d})
  <2>1. DirsOf(t) \cup CallsAfter(k) \in SUBSET Dirs /\ ds \cup {d} \in SUBSET Dirs
    BY <1>2, <1>3
  <2>2. DirsOf(t) \cup CallsAfter(k) \subseteq ds \cup {d}
    BY <1>1
  <2> QED
    BY <2>1, <2>2, PatchesGrow
<1>7. PatchesIn(l, ds \cup {d}) \subseteq PatchesOf(v) \cup PatchesIn(l, ds \cup Names(l, d, "dir"))
  <2>1. ds \in SUBSET Dirs
    BY <1>3
  <2> QED
    BY <2>1, <1>2, OpenPatches DEF v
<1>8. ds \cup Names(l, d, "dir") = DirsOf(v \o u) \cup CallsAfter(k)
  BY <1>4, <1>5
<1>9. PatchesIn(l, ds \cup Names(l, d, "dir")) = PatchesIn(l, DirsOf(v \o u) \cup CallsAfter(k))
  BY <1>8
<1>10. Ahead(l, t, k) \subseteq Ahead(l, v \o u, k)
  BY <1>1, <1>5, <1>6, <1>7, <1>9 DEF Ahead
<1> QED
  BY <1>2, <1>10 DEF d, u, v

LEMMA DropAhead ==
    ASSUME NEW l \in Layouts, NEW k \in Nat, NEW t \in Seq(Item), t # <<>>, Head(t).entry.kind # "dir"
    PROVE  /\ Ahead(l, t, k) \subseteq {[dir |-> Head(t).dir, name |-> Head(t).entry.name]} \cup Ahead(l, Tail(t), k)
           /\ Head(t).entry.kind # "patch" => Ahead(l, t, k) \subseteq Ahead(l, Tail(t), k)
<1>1. /\ Tail(t) \in Seq(Item)
      /\ PatchesOf(t) \subseteq {[dir |-> Head(t).dir, name |-> Head(t).entry.name]} \cup PatchesOf(Tail(t))
      /\ Head(t).entry.kind # "patch" => PatchesOf(t) \subseteq PatchesOf(Tail(t))
      /\ DirsOf(t) \subseteq DirsOf(Tail(t))
  BY TailHas
<1>2. PatchesIn(l, DirsOf(t) \cup CallsAfter(k)) \subseteq PatchesIn(l, DirsOf(Tail(t)) \cup CallsAfter(k))
  <2>1. DirsOf(t) \cup CallsAfter(k) \in SUBSET Dirs /\ DirsOf(Tail(t)) \cup CallsAfter(k) \in SUBSET Dirs
    BY <1>1, CallsAreDirs, InPatchesOf
  <2>2. DirsOf(t) \cup CallsAfter(k) \subseteq DirsOf(Tail(t)) \cup CallsAfter(k)
    BY <1>1
  <2> QED
    BY <2>1, <2>2, PatchesGrow
<1> QED
  BY <1>1, <1>2 DEF Ahead

-----------------------------------------------------------------------------
(* The order of the walk: what is to be looked at comes from a directory,  *)
(* the patches before it there are on the list, or to be looked at before  *)
(* it, and those after it there are to be looked at after it.              *)

Met(q, p) == \E i \in DOMAIN q : q[i] = p

Passed(l, q, t, k, d, j) ==
    \A a \in DOMAIN l[d] : a < j /\ IsPatch(l, d, a) =>
        Met(q, PatchAt(l, d, a)) \/ \E m \in DOMAIN t : m < k /\ t[m] = Visit(l, d, a)
Coming(l, t, k, d, j) ==
    \A b \in DOMAIN l[d] : b > j /\ IsPatch(l, d, b) => \E m \in DOMAIN t : m > k /\ t[m] = Visit(l, d, b)

Placed(l, q, t, k) ==
    \E d \in Under(l, AllCalls) : \E j \in DOMAIN l[d] :
        t[k] = Visit(l, d, j) /\ Passed(l, q, t, k, d, j) /\ Coming(l, t, k, d, j)

Walk(l, q, t) == \A k \in DOMAIN t : Placed(l, q, t, k)

LEMMA TailWalk ==
    ASSUME NEW l \in Layouts, NEW q \in Seq(Patch), NEW r \in Seq(Patch),
           NEW t \in Seq(Item), t # <<>>, Walk(l, q, t),
           \A p \in Patch : Met(q, p) => Met(r, p),
           Head(t).entry.kind = "patch" => Met(r, [dir |-> Head(t).dir, name |-> Head(t).entry.name])
    PROVE  Walk(l, r, Tail(t))
<1> DEFINE u == Tail(t)
<1>1. /\ Len(u) = Len(t) - 1 /\ Len(t) \in Nat \ {0} /\ Head(t) = t[1]
      /\ DOMAIN u = 1 .. Len(u) /\ DOMAIN t = 1 .. Len(t)
  OBVIOUS
<1>2. \A k \in DOMAIN t : k = 1 \/ (k - 1 \in DOMAIN u /\ u[k - 1] = t[k])
  BY <1>1
<1>3. \A k \in DOMAIN u : k + 1 \in DOMAIN t /\ u[k] = t[k + 1]
  BY <1>1
<1> HIDE DEF u
<1>4. ASSUME NEW k \in DOMAIN u PROVE Placed(l, r, u, k)
  <2>1. k \in Nat /\ k + 1 \in DOMAIN t /\ u[k] = t[k + 1]
    BY <1>1, <1>3
  <2>0. PICK d \in Under(l, AllCalls) : \E j \in DOMAIN l[d] :
            t[k + 1] = Visit(l, d, j) /\ Passed(l, q, t, k + 1, d, j) /\ Coming(l, t, k + 1, d, j)
    BY <2>1 DEF Walk, Placed
  <2>2. PICK j \in DOMAIN l[d] :
            t[k + 1] = Visit(l, d, j) /\ Passed(l, q, t, k + 1, d, j) /\ Coming(l, t, k + 1, d, j)
    BY <2>0
  <2>3. d \in Dirs
    BY CallsAreDirs, UnderContains
  <2>4. Passed(l, r, u, k, d, j)
    <3>1. SUFFICES ASSUME NEW a \in DOMAIN l[d], a < j, IsPatch(l, d, a),
                          ~Met(r, PatchAt(l, d, a))
                   PROVE  \E m \in DOMAIN u : m < k /\ u[m] = Visit(l, d, a)
      BY DEF Passed
    <3>2. PatchAt(l, d, a) \in Patch
      BY <2>3, <3>1, Contents DEF PatchAt, Patch, IsPatch, Names
    <3>3. PICK m \in DOMAIN t : m < k + 1 /\ t[m] = Visit(l, d, a)
      BY <2>2, <3>1, <3>2 DEF Passed
    <3>4. m # 1
      <4>1. SUFFICES ASSUME m = 1 PROVE FALSE
        OBVIOUS
      <4>2. Head(t) = Visit(l, d, a)
        BY <1>1, <3>3, <4>1
      <4>3. Head(t).dir = d /\ Head(t).entry = l[d][a]
        BY <4>2 DEF Visit
      <4> QED
        BY <3>1, <4>3 DEF IsPatch, PatchAt
    <3>5. m - 1 \in DOMAIN u /\ u[m - 1] = Visit(l, d, a)
      BY <1>2, <3>3, <3>4
    <3>6. m - 1 < k
      BY <1>1, <2>1, <3>3
    <3> QED
      BY <3>5, <3>6
  <2>5. Coming(l, u, k, d, j)
    <3>1. SUFFICES ASSUME NEW b \in DOMAIN l[d], b > j, IsPatch(l, d, b)
                   PROVE  \E m \in DOMAIN u : m > k /\ u[m] = Visit(l, d, b)
      BY DEF Coming
    <3>2. PICK m \in DOMAIN t : m > k + 1 /\ t[m] = Visit(l, d, b)
      BY <2>2, <3>1 DEF Coming
    <3>3. m \in Nat /\ m # 1 /\ m - 1 > k
      BY <1>1, <2>1, <3>2
    <3>4. m - 1 \in DOMAIN u /\ u[m - 1] = Visit(l, d, b)
      BY <1>2, <3>2, <3>3
    <3> QED
      BY <3>3, <3>4
  <2> QED
    BY <2>1, <2>2, <2>4, <2>5 DEF Placed
<1> QED
  BY <1>4 DEF Walk, u

LEMMA VisitsWalk ==
    ASSUME NEW l \in Layouts, NEW q \in Seq(Patch), NEW t \in Seq(Item), Walk(l, q, t),
           NEW d \in Under(l, AllCalls)
    PROVE  Walk(l, q, Visits(l, d) \o t)
<1> DEFINE v == Visits(l, d)
           u == v \o t
           n == Len(v)
<1>1. d \in Dirs
  BY CallsAreDirs, UnderContains
<1>2. v \in Seq(Item) /\ DOMAIN v = DOMAIN l[d] /\ \A i \in DOMAIN l[d] : v[i] = Visit(l, d, i)
  BY <1>1, VisitsAre
<1> HIDE DEF v
<1>3. /\ n \in Nat /\ DOMAIN v = 1 .. n /\ DOMAIN t = 1 .. Len(t) /\ Len(t) \in Nat
      /\ DOMAIN u = 1 .. n + Len(t)
  BY <1>2
<1>4. \A k \in DOMAIN v : k \in DOMAIN u /\ u[k] = v[k]
  BY <1>2
<1>5. \A k \in DOMAIN t : n + k \in DOMAIN u /\ u[n + k] = t[k]
  BY <1>2
<1>6. \A k \in DOMAIN u : k \in DOMAIN v \/ (k - n \in DOMAIN t /\ u[k] = t[k - n])
  BY <1>2
<1> HIDE DEF u, n
<1>7. ASSUME NEW k \in DOMAIN v PROVE Placed(l, q, u, k)
  <2>1. \A i \in DOMAIN l[d] : i \in DOMAIN u /\ u[i] = Visit(l, d, i)
    BY <1>2, <1>4
  <2>2. u[k] = Visit(l, d, k) /\ k \in DOMAIN l[d]
    BY <1>2, <2>1
  <2>3. Passed(l, q, u, k, d, k)
    BY <2>1 DEF Passed
  <2>4. Coming(l, u, k, d, k)
    BY <2>1 DEF Coming
  <2> QED
    BY <2>2, <2>3, <2>4 DEF Placed
<1>8. ASSUME NEW k \in DOMAIN t PROVE Placed(l, q, u, n + k)
  <2>0. PICK x \in Under(l, AllCalls) : \E j \in DOMAIN l[x] :
            t[k] = Visit(l, x, j) /\ Passed(l, q, t, k, x, j) /\ Coming(l, t, k, x, j)
    BY <1>8 DEF Walk, Placed
  <2>1. PICK j \in DOMAIN l[x] :
            t[k] = Visit(l, x, j) /\ Passed(l, q, t, k, x, j) /\ Coming(l, t, k, x, j)
    BY <2>0
  <2>2. Passed(l, q, u, n + k, x, j)
    <3>1. SUFFICES ASSUME NEW a \in DOMAIN l[x], a < j, IsPatch(l, x, a), ~Met(q, PatchAt(l, x, a))
                   PROVE  \E m \in DOMAIN u : m < n + k /\ u[m] = Visit(l, x, a)
      BY DEF Passed
    <3>2. PICK m \in DOMAIN t : m < k /\ t[m] = Visit(l, x, a)
      BY <2>1, <3>1 DEF Passed
    <3>3. n + m \in DOMAIN u /\ u[n + m] = Visit(l, x, a)
      BY <1>5, <3>2
    <3>4. n + m < n + k
      BY <1>3, <3>2
    <3> QED
      BY <3>3, <3>4
  <2>3. Coming(l, u, n + k, x, j)
    <3>1. SUFFICES ASSUME NEW b \in DOMAIN l[x], b > j, IsPatch(l, x, b)
                   PROVE  \E m \in DOMAIN u : m > n + k /\ u[m] = Visit(l, x, b)
      BY DEF Coming
    <3>2. PICK m \in DOMAIN t : m > k /\ t[m] = Visit(l, x, b)
      BY <2>1, <3>1 DEF Coming
    <3>3. n + m \in DOMAIN u /\ u[n + m] = Visit(l, x, b)
      BY <1>5, <3>2
    <3>4. n + m > n + k
      BY <1>3, <3>2
    <3> QED
      BY <3>3, <3>4
  <2>4. u[n + k] = Visit(l, x, j)
    BY <1>5, <2>1
  <2> QED
    BY <2>2, <2>3, <2>4 DEF Placed
<1>9. ASSUME NEW k \in DOMAIN u PROVE Placed(l, q, u, k)
  <2>1. CASE k \in DOMAIN v
    BY <2>1, <1>7
  <2>2. CASE k - n \in DOMAIN t
    <3>1. n + (k - n) = k
      BY <1>3
    <3>2. Placed(l, q, u, n + (k - n))
      BY <1>8, <2>2
    <3> QED
      BY <3>1, <3>2
  <2> QED
    BY <1>6, <2>1, <2>2
<1> QED
  BY <1>9 DEF Walk, u, v

LEMMA CallWalk ==
    ASSUME NEW l \in Layouts, NEW q \in Seq(Patch), NEW d \in AllCalls
    PROVE  Walk(l, q, Visits(l, d))
<1>1. d \in Under(l, AllCalls) /\ d \in Dirs
  BY CallsAreDirs, UnderContains
<1>2. Visits(l, d) \in Seq(Item) /\ <<>> \in Seq(Item) /\ Walk(l, q, <<>>)
  BY <1>1, VisitsAre DEF Walk
<1>3. Visits(l, d) \o <<>> = Visits(l, d)
  BY <1>2
<1>4. Walk(l, q, Visits(l, d) \o <<>>)
  BY <1>1, <1>2, VisitsWalk
<1> QED
  BY <1>3, <1>4

-----------------------------------------------------------------------------
(* The inductive invariant of the patch step.                              *)

Deed == [patch : Patch, how : {"whole", "short", "part"}]

PatchTypes ==
    /\ contents \in Layouts
    /\ sources \in Seq(Deed) /\ list \in Seq(Patch) /\ patched \in BOOLEAN
    /\ call \in 0 .. Len(Calls) /\ todo \in Seq(Item) /\ patching \in Seq(Patch)
    /\ call = 0 => todo = <<>> /\ patching = <<>>
    /\ call # 0 => ~patched

(* Nothing is done to the sources that the list does not tell.             *)
Listed ==
    /\ \A i \in DOMAIN list : list[i] \in Wanted
    /\ \A i, j \in DOMAIN list : list[i].name = list[j].name => i = j
    /\ Len(sources) + Len(patching) <= Len(list)

(* The step comes to a patch that it will refuse, or                       *)
Doomed == \E p \in Pending : Known(p)

(* it is at its first attempt, and all that is done so far is right.       *)
Applied ==
    /\ Len(list) = Len(sources) + Len(patching) /\ Len(patching) <= 1
    /\ patching # <<>> => Head(patching) = list[Len(list)]
    /\ \A i \in DOMAIN sources : sources[i].patch = list[i] /\ sources[i].how # "part"
Covered == \A p \in Wanted : Met(list, p) \/ p \in Pending
InOrder ==
    \A d \in Dirs : \A a, b \in DOMAIN contents[d] :
        a < b /\ IsPatch(contents, d, a) /\ IsPatch(contents, d, b) =>
            \A i \in DOMAIN list : list[i] = PatchAt(contents, d, b) =>
                \/ \E h \in DOMAIN list : h < i /\ list[h] = PatchAt(contents, d, a)
                \/ list[i] \in Pending
Clean == Applied /\ Covered /\ InOrder

Underway == call # 0 => Doomed \/ Clean

PatchInv == PatchTypes /\ Listed /\ Walk(contents, list, todo) /\ Underway /\ PatchedOnce

LEMMA ScanVisits == \A d : Scan(d) = Visits(contents, d)
BY DEF Scan, Visits, Visit

LEMMA WantedIs == Wanted = PatchesIn(contents, AllCalls)
BY DEF Wanted, AllCalls

(* When no more than what is to be looked at changes, and nothing is lost. *)
LEMMA Persists ==
    ASSUME UNCHANGED <<contents, sources, list, patching>>, Pending \subseteq Pending',
           Doomed \/ Clean
    PROVE  (Doomed \/ Clean)'
<1>1. CASE Doomed
  BY <1>1 DEF Doomed, Known
<1>2. CASE Clean
  <2>1. Applied'
    BY <1>2 DEF Clean, Applied
  <2>2. Wanted' = Wanted
    BY DEF Wanted
  <2>3. Covered'
    BY <1>2, <2>2 DEF Clean, Covered
  <2>4. InOrder'
    BY <1>2 DEF Clean, InOrder
  <2> QED
    BY <2>1, <2>3, <2>4 DEF Clean
<1> QED
  BY <1>1, <1>2

(* A call of the script begins.                                            *)
LEMMA CallKeeps ==
    ASSUME PatchInv, Findable, NEW k \in DOMAIN Calls, Call(k),
           \/ k = 1 /\ call = 0 /\ ~patched
           \/ k = call + 1 /\ call # 0 /\ todo = <<>> /\ patching = <<>>
    PROVE  PatchInv'
<1> DEFINE d == Calls[k]
<1>1. DOMAIN Calls = 1 .. Len(Calls) /\ Len(Calls) \in Nat /\ d \in Dirs /\ d \in AllCalls
  BY PatchesAssumption DEF AllCalls
<1>2. /\ call' = k /\ todo' = Visits(contents, d) /\ patching' = <<>>
      /\ UNCHANGED <<contents, sources, list, patched>>
  BY ScanVisits DEF Call, tree
<1> HIDE DEF d
<1>3. contents \in Layouts /\ list \in Seq(Patch) /\ ~patched /\ Wanted' = Wanted
  BY <1>2 DEF PatchInv, PatchTypes, Wanted
<1>4. PatchTypes'
  <2>1. Visits(contents, d) \in Seq(Item)
    BY <1>1, <1>3, VisitsAre
  <2> QED
    BY <1>1, <1>2, <1>3, <2>1 DEF PatchInv, PatchTypes
<1>5. Listed'
  <2>1. Len(sources) + Len(patching) <= Len(list) /\ sources \in Seq(Deed) /\ patching \in Seq(Patch)
    BY DEF PatchInv, PatchTypes, Listed
  <2>2. Len(sources) + 0 <= Len(list)
    BY <1>3, <2>1
  <2> QED
    BY <1>2, <1>3, <2>2 DEF PatchInv, Listed
<1>6. Walk(contents, list, todo)'
  BY <1>1, <1>2, <1>3, CallWalk
<1>7. k - 1 \in Nat /\ (k - 1) + 1 = k /\ (k - 1) + 1 \in DOMAIN Calls
  BY <1>1
<1>8. Ahead(contents, <<>>, k - 1) \subseteq Pending'
  <2>1. Ahead(contents, <<>>, k - 1) \subseteq Ahead(contents, Visits(contents, Calls[(k - 1) + 1]), (k - 1) + 1)
    BY <1>3, <1>7, CallAhead
  <2> QED
    BY <1>2, <1>7, <2>1 DEF Pending, d
<1>9. Underway'
  <2>1. CASE call # 0
    <3>1. k - 1 = call /\ todo = <<>> /\ patching = <<>> /\ (Doomed \/ Clean)
      BY <1>1, <2>1 DEF PatchInv, PatchTypes, Underway
    <3>2. Pending \subseteq Pending'
      BY <1>8, <3>1 DEF Pending
    <3>3. (Doomed \/ Clean)'
      BY <1>2, <3>1, <3>2, Persists
    <3> QED
      BY <3>3 DEF Underway
  <2>2. CASE call = 0
    <3>1. k - 1 = 0
      BY <2>2
    <3>2. Wanted \subseteq Pending'
      <4>1. CallsAfter(0) = AllCalls /\ Ahead(contents, <<>>, 0) = PatchesIn(contents, CallsAfter(0))
        BY <1>3, EmptyAhead
      <4> QED
        BY <1>8, <3>1, <4>1, WantedIs
    <3>3. CASE list = <<>>
      <4>1. sources = <<>>
        BY <3>3 DEF PatchInv, PatchTypes, Listed
      <4>2. Clean'
        BY <1>2, <1>3, <3>2, <3>3, <4>1 DEF Clean, Applied, Covered, InOrder
      <4> QED
        BY <4>2 DEF Underway
    <3>4. CASE list # <<>>
      <4>1. 1 \in DOMAIN list
        BY <1>3, <3>4
      <4>2. list[1] \in Wanted
        BY <4>1 DEF PatchInv, Listed
      <4>3. <<list[1].name, list[1]>> \in Matches
        BY <4>2 DEF Findable
      <4>4. Doomed'
        BY <1>2, <3>2, <4>1, <4>2, <4>3 DEF Doomed, Known
      <4> QED
        BY <4>4 DEF Underway
    <3> QED
      BY <3>3, <3>4
  <2> QED
    BY <2>1, <2>2
<1>10. PatchedOnce'
  BY <1>2, <1>3 DEF PatchedOnce
<1> QED
  BY <1>4, <1>5, <1>6, <1>9, <1>10 DEF PatchInv

(* What the script is at.                                                  *)
LEMMA AtTop ==
    ASSUME PatchInv, Running, todo # <<>>
    PROVE  /\ todo \in Seq(Item) /\ Head(todo) = todo[1] /\ 1 \in DOMAIN todo
           /\ Tail(todo) \in Seq(Item) /\ Head(todo) \in Item
           /\ call # 0 /\ patching = <<>> /\ ~patched /\ call \in Nat
           /\ Doomed \/ Clean
           /\ contents \in Layouts /\ list \in Seq(Patch) /\ sources \in Seq(Deed)
           /\ \E d \in Under(contents, AllCalls) : \E j \in DOMAIN contents[d] :
                 /\ d \in Dirs /\ Head(todo) = Visit(contents, d, j)
                 /\ Passed(contents, list, todo, 1, d, j) /\ Coming(contents, todo, 1, d, j)
<1>1. /\ todo \in Seq(Item) /\ call # 0 /\ patching = <<>> /\ ~patched /\ call \in Nat
      /\ (Doomed \/ Clean)
      /\ contents \in Layouts /\ list \in Seq(Patch) /\ sources \in Seq(Deed)
  BY PatchesAssumption DEF PatchInv, PatchTypes, Underway, Running
<1>2. Head(todo) = todo[1] /\ 1 \in DOMAIN todo /\ Tail(todo) \in Seq(Item)
  BY <1>1
<1>3. Head(todo) \in Item
  BY <1>1, <1>2
<1>4. Placed(contents, list, todo, 1)
  BY <1>2 DEF PatchInv, Walk
<1>5. Under(contents, AllCalls) \subseteq Dirs
  BY <1>1, CallsAreDirs, UnderContains
<1> QED
  BY <1>1, <1>2, <1>3, <1>4, <1>5 DEF Placed

LEMMA DescendKeeps == PatchInv /\ Descend => PatchInv'
<1> SUFFICES ASSUME PatchInv, Descend PROVE PatchInv'
  OBVIOUS
<1> DEFINE n == Head(todo).entry.name
<1>1. /\ Running /\ todo # <<>> /\ Head(todo).entry.kind = "dir"
      /\ todo' = Visits(contents, n) \o Tail(todo)
      /\ UNCHANGED <<contents, sources, list, patched, call, patching>>
  BY ScanVisits DEF Descend, At, Top, tree
<1>2. /\ todo \in Seq(Item) /\ Tail(todo) \in Seq(Item) /\ Head(todo) \in Item
      /\ call # 0 /\ call \in Nat /\ ~patched /\ (Doomed \/ Clean)
      /\ contents \in Layouts /\ list \in Seq(Patch)
  BY <1>1, AtTop
<1>3. n \in Dirs /\ Pending \subseteq Pending'
  BY <1>1, <1>2, DescendAhead DEF Pending
<1>4. n \in Under(contents, AllCalls)
  <2>1. PICK d \in Under(contents, AllCalls) : \E j \in DOMAIN contents[d] :
            d \in Dirs /\ Head(todo) = Visit(contents, d, j)
    BY <1>1, AtTop
  <2>2. PICK j \in DOMAIN contents[d] : Head(todo) = Visit(contents, d, j)
    BY <2>1
  <2>3. contents[d][j].kind = "dir" /\ contents[d][j].name = n
    BY <1>1, <2>2 DEF Visit
  <2>4. n \in Names(contents, d, "dir")
    BY <2>3 DEF Names
  <2> QED
    BY <1>2, <2>4, CallsAreDirs, UnderClosed
<1> HIDE DEF n
<1>5. Visits(contents, n) \in Seq(Item)
  BY <1>2, <1>3, VisitsAre
<1>6. PatchTypes'
  <2>1. todo' \in Seq(Item)
    BY <1>1, <1>2, <1>5, JoinedHas
  <2> QED
    BY <1>1, <1>2, <2>1 DEF PatchInv, PatchTypes
<1>7. Listed'
  BY <1>1 DEF PatchInv, Listed, Wanted
<1>8. Walk(contents, list, todo)'
  <2>1. Walk(contents, list, Tail(todo))
    BY <1>1, <1>2, TailWalk DEF PatchInv
  <2>2. Walk(contents, list, Visits(contents, n) \o Tail(todo))
    BY <1>2, <1>4, <2>1, VisitsWalk
  <2> QED
    BY <1>1, <2>2
<1>9. Underway'
  BY <1>1, <1>2, <1>3, Persists DEF Underway
<1>10. PatchedOnce'
  BY <1>1, <1>2 DEF PatchedOnce
<1> QED
  BY <1>6, <1>7, <1>8, <1>9, <1>10 DEF PatchInv

LEMMA SkipKeeps == PatchInv /\ Skip => PatchInv'
<1> SUFFICES ASSUME PatchInv, Skip PROVE PatchInv'
  OBVIOUS
<1>1. /\ Running /\ todo # <<>> /\ Head(todo).entry.kind = "other"
      /\ todo' = Tail(todo)
      /\ UNCHANGED <<contents, sources, list, patched, call, patching>>
  BY DEF Skip, At, tree
<1>2. /\ todo \in Seq(Item) /\ Tail(todo) \in Seq(Item)
      /\ call # 0 /\ call \in Nat /\ ~patched /\ (Doomed \/ Clean)
      /\ contents \in Layouts /\ list \in Seq(Patch)
  BY <1>1, AtTop
<1>3. Pending \subseteq Pending'
  BY <1>1, <1>2, DropAhead DEF Pending
<1>4. PatchTypes'
  BY <1>1, <1>2 DEF PatchInv, PatchTypes
<1>5. Listed'
  BY <1>1 DEF PatchInv, Listed, Wanted
<1>6. Walk(contents, list, todo)'
  <2>1. Walk(contents, list, Tail(todo))
    BY <1>1, <1>2, TailWalk DEF PatchInv
  <2> QED
    BY <1>1, <2>1
<1>7. Underway'
  BY <1>1, <1>2, <1>3, Persists DEF Underway
<1>8. PatchedOnce'
  BY <1>1, <1>2 DEF PatchedOnce
<1> QED
  BY <1>4, <1>5, <1>6, <1>7, <1>8 DEF PatchInv

(* A patch goes on the list.                                               *)
LEMMA NoteKeeps == PatchInv /\ Findable /\ Note => PatchInv'
<1> SUFFICES ASSUME PatchInv, Findable, Note PROVE PatchInv'
  OBVIOUS
<1>1. /\ Running /\ todo # <<>> /\ Head(todo).entry.kind = "patch" /\ ~Known(Top)
      /\ todo' = Tail(todo) /\ list' = Append(list, Top) /\ patching' = <<Top>>
      /\ UNCHANGED <<contents, sources, patched, call>>
  BY DEF Note, At
<1>2. /\ todo \in Seq(Item) /\ Tail(todo) \in Seq(Item) /\ Head(todo) = todo[1]
      /\ call # 0 /\ call \in Nat /\ patching = <<>> /\ ~patched /\ (Doomed \/ Clean)
      /\ contents \in Layouts /\ list \in Seq(Patch) /\ sources \in Seq(Deed)
  BY <1>1, AtTop
<1>3. PICK d \in Under(contents, AllCalls) : \E j \in DOMAIN contents[d] :
          /\ d \in Dirs /\ Head(todo) = Visit(contents, d, j)
          /\ Passed(contents, list, todo, 1, d, j) /\ Coming(contents, todo, 1, d, j)
  BY <1>1, AtTop
<1>4. PICK j \in DOMAIN contents[d] :
          /\ d \in Dirs /\ Head(todo) = Visit(contents, d, j)
          /\ Passed(contents, list, todo, 1, d, j) /\ Coming(contents, todo, 1, d, j)
  BY <1>3
<1>5. Head(todo).dir = d /\ Head(todo).entry = contents[d][j]
  BY <1>4 DEF Visit
<1>6. Top = PatchAt(contents, d, j) /\ IsPatch(contents, d, j)
  BY <1>1, <1>5 DEF Top, PatchAt, IsPatch
<1>7. Top \in Wanted /\ Top \in Patch
  <2>1. AllCalls \in SUBSET Dirs
    BY CallsAreDirs
  <2>2. PatchAt(contents, d, j) \in PatchesIn(contents, AllCalls)
    BY <1>2, <1>6, <2>1, InPatchesIn
  <2>3. PatchesIn(contents, AllCalls) \subseteq Patch
    BY <1>2, <2>1, InPatchesIn
  <2> QED
    BY <1>6, <2>2, <2>3, WantedIs
<1>8. Wanted' = Wanted
  BY <1>1 DEF Wanted
<1> DEFINE n == Len(list) + 1
<1>9. /\ list' \in Seq(Patch) /\ Len(list') = n /\ n \in Nat
      /\ DOMAIN list' = 1 .. n /\ DOMAIN list = 1 .. Len(list) /\ Len(list) \in Nat
      /\ list'[n] = Top /\ \A i \in DOMAIN list : i \in DOMAIN list' /\ list'[i] = list[i]
  BY <1>1, <1>2, <1>7
<1>10. \A i \in DOMAIN list' : i = n \/ i \in DOMAIN list
  BY <1>9
<1> HIDE DEF n
<1>11. Pending \subseteq {Top} \cup Pending'
  <2>1. Ahead(contents, todo, call) \subseteq
            {[dir |-> Head(todo).dir, name |-> Head(todo).entry.name]} \cup Ahead(contents, Tail(todo), call)
    BY <1>1, <1>2, DropAhead
  <2> QED
    BY <1>1, <2>1 DEF Pending, Top
<1>12. patching' \in Seq(Patch) /\ Len(patching') = 1 /\ patching' # <<>> /\ Head(patching') = Top
  BY <1>1, <1>7
<1>13. PatchTypes'
  BY <1>1, <1>2, <1>9, <1>12 DEF PatchInv, PatchTypes
<1>14. Listed'
  <2>1. \A i \in DOMAIN list' : list'[i] \in Wanted
    BY <1>7, <1>9, <1>10 DEF PatchInv, Listed
  <2>2. \A i, k \in DOMAIN list' : list'[i].name = list'[k].name => i = k
    <3>1. ASSUME NEW i \in DOMAIN list PROVE list[i].name # Top.name
      <4>1. list[i] \in Wanted
        BY DEF PatchInv, Listed
      <4>2. <<Top.name, list[i]>> \notin Matches
        BY <1>1 DEF Known
      <4> QED
        BY <1>7, <4>1, <4>2 DEF Findable
    <3> QED
      BY <1>9, <1>10, <3>1 DEF PatchInv, Listed
  <2>3. Len(sources) + Len(patching') <= Len(list')
    <3>1. Len(sources) + 0 <= Len(list) /\ Len(sources) \in Nat
      BY <1>2 DEF PatchInv, Listed
    <3> QED
      BY <3>1, <1>9, <1>12 DEF n
  <2> QED
    BY <1>1, <1>8, <2>1, <2>2, <2>3 DEF Listed
<1>15. Walk(contents, list, todo)'
  <2>1. \A p \in Patch : Met(list, p) => Met(list', p)
    BY <1>9 DEF Met
  <2>2. Met(list', [dir |-> Head(todo).dir, name |-> Head(todo).entry.name])
    BY <1>9 DEF Met, Top, n
  <2>3. Walk(contents, list', Tail(todo))
    BY <1>1, <1>2, <1>9, <2>1, <2>2, TailWalk DEF PatchInv
  <2> QED
    BY <1>1, <2>3
<1>16. Underway'
  <2>1. CASE Doomed
    <3>1. PICK p \in Pending : Known(p)
      BY <2>1 DEF Doomed
    <3>2. p \in Pending'
      BY <1>1, <1>11, <3>1
    <3>3. \E i \in DOMAIN list' : <<p.name, list'[i]>> \in Matches
      BY <1>9, <3>1 DEF Known
    <3>4. Doomed'
      BY <3>2, <3>3 DEF Doomed, Known
    <3> QED
      BY <3>4 DEF Underway
  <2>2. CASE Clean /\ ~Doomed
    <3>1. Applied'
      <4>1. Len(list) = Len(sources) + 0 /\ Len(sources) \in Nat
        BY <1>2, <2>2 DEF Clean, Applied
      <4>2. Len(list') = Len(sources) + 1
        BY <1>9, <4>1 DEF n
      <4>3. \A i \in DOMAIN sources : i \in DOMAIN list
        BY <1>2, <1>9, <4>1
      <4>4. \A i \in DOMAIN sources : sources[i].patch = list'[i] /\ sources[i].how # "part"
        BY <1>9, <2>2, <4>3 DEF Clean, Applied
      <4>5. sources' = sources /\ Len(list') = Len(sources) + Len(patching') /\ Len(patching') <= 1
        BY <1>1, <1>12, <4>2
      <4>6. Head(patching') = list'[Len(list')]
        BY <1>9, <1>12
      <4> QED
        BY <4>4, <4>5, <4>6 DEF Applied
    <3>2. Covered'
      <4>1. SUFFICES ASSUME NEW p \in Wanted PROVE Met(list', p) \/ p \in Pending'
        BY <1>8 DEF Covered
      <4>2. CASE Met(list, p)
        BY <1>9, <4>2 DEF Met
      <4>3. CASE p = Top
        BY <1>9, <4>3 DEF Met, n
      <4>4. CASE p \in Pending /\ p # Top
        BY <1>11, <4>4
      <4> QED
        BY <2>2, <4>2, <4>3, <4>4 DEF Clean, Covered
    <3>3. ASSUME NEW i \in DOMAIN list PROVE list[i] \notin Pending
      <4>1. list[i] \in Wanted
        BY DEF PatchInv, Listed
      <4>2. <<list[i].name, list[i]>> \in Matches
        BY <4>1 DEF Findable
      <4> QED
        BY <2>2, <4>2 DEF Doomed, Known
    <3>4. InOrder'
      <4>1. SUFFICES ASSUME NEW x \in Dirs, NEW a \in DOMAIN contents[x], NEW b \in DOMAIN contents[x],
                            a < b, IsPatch(contents, x, a), IsPatch(contents, x, b),
                            NEW i \in DOMAIN list', list'[i] = PatchAt(contents, x, b)
                     PROVE  \/ \E h \in DOMAIN list' : h < i /\ list'[h] = PatchAt(contents, x, a)
                            \/ list'[i] \in Pending'
        BY <1>1 DEF InOrder
      <4>2. CASE i \in DOMAIN list
        <5>1. list[i] = PatchAt(contents, x, b)
          BY <1>9, <4>1, <4>2
        <5>2. PICK h \in DOMAIN list : h < i /\ list[h] = PatchAt(contents, x, a)
          BY <2>2, <3>3, <4>1, <4>2, <5>1 DEF Clean, InOrder
        <5> QED
          BY <1>9, <5>2
      <4>3. CASE i = n
        <5>1. x = d /\ contents[d][b].name = contents[d][j].name
          BY <1>6, <1>9, <4>1, <4>3 DEF PatchAt
        <5>2. a \in Nat /\ b \in Nat /\ j \in Nat
          <6>1. contents[d] \in Seq(Entry)
            BY <1>2, <1>4, Contents
          <6> QED
            BY <5>1, <6>1
        <5>3. CASE a < j
          <6>1. \/ Met(list, PatchAt(contents, d, a))
                \/ \E m \in DOMAIN todo : m < 1 /\ todo[m] = Visit(contents, d, a)
            BY <1>4, <4>1, <5>1, <5>3 DEF Passed
          <6>2. \A m \in DOMAIN todo : ~(m < 1)
            BY <1>2
          <6>3. PICK h \in DOMAIN list : list[h] = PatchAt(contents, d, a)
            BY <6>1, <6>2 DEF Met
          <6>4. h < n
            BY <1>9 DEF n
          <6> QED
            BY <1>9, <4>3, <5>1, <6>3, <6>4
        <5>4. CASE b > j
          <6>1. PICK m \in DOMAIN todo : m > 1 /\ todo[m] = Visit(contents, d, b)
            BY <1>4, <4>1, <5>1, <5>4 DEF Coming
          <6>2. m - 1 \in DOMAIN Tail(todo) /\ Tail(todo)[m - 1] = todo[m]
            BY <1>1, <1>2, <6>1
          <6>3. todo[m].dir = d /\ todo[m].entry.kind = "patch" /\ todo[m].entry.name = contents[d][b].name
            BY <4>1, <5>1, <6>1 DEF Visit, IsPatch
          <6>4. PatchAt(contents, d, b) \in PatchesOf(Tail(todo))
            BY <6>2, <6>3 DEF PatchesOf, PatchAt
          <6>5. list'[i] \in Pending'
            BY <1>1, <4>1, <5>1, <6>4 DEF Pending, Ahead
          <6> QED
            BY <6>5
        <5>5. a < j \/ b > j
          BY <4>1, <5>2
        <5> QED
          BY <5>3, <5>4, <5>5
      <4> QED
        BY <1>10, <4>2, <4>3
    <3> QED
      BY <3>1, <3>2, <3>4 DEF Underway, Clean
  <2> QED
    BY <1>2, <2>1, <2>2
<1>17. PatchedOnce'
  BY <1>1, <1>2 DEF PatchedOnce
<1> QED
  BY <1>13, <1>14, <1>15, <1>16, <1>17 DEF PatchInv

(* patch(1) is done with it, or has failed.                                *)
LEMMA DoneIs ==
    ASSUME PatchInv, patching # <<>>, NEW how \in {"whole", "short", "part"}, Done(how)
    PROVE  /\ sources' \in Seq(Deed) /\ Len(sources') = Len(sources) + 1 /\ Len(sources) \in Nat
           /\ Len(sources') <= Len(list) /\ Len(patching) >= 1
           /\ DOMAIN sources' = 1 .. Len(sources') /\ DOMAIN sources = 1 .. Len(sources)
           /\ sources'[Len(sources')] = [patch |-> Head(patching), how |-> how]
           /\ \A i \in DOMAIN sources : sources'[i] = sources[i]
           /\ call # 0 /\ ~patched
<1>1. /\ sources \in Seq(Deed) /\ patching \in Seq(Patch) /\ list \in Seq(Patch)
      /\ call # 0 /\ ~patched /\ Len(sources) + Len(patching) <= Len(list)
  BY DEF PatchInv, PatchTypes, Listed
<1>2. Head(patching) \in Patch /\ Len(patching) \in Nat /\ Len(patching) >= 1 /\ Len(list) \in Nat
  BY <1>1
<1>3. [patch |-> Head(patching), how |-> how] \in Deed
  BY <1>2 DEF Deed
<1> QED
  BY <1>1, <1>2, <1>3 DEF Done

(* patch(1) is content, with the patch or with its beginning.              *)
LEMMA ApplyKeeps ==
    ASSUME PatchInv, Apply \/ Short
    PROVE  PatchInv'
<1>1. PICK how \in {"whole", "short"} :
          /\ patching # <<>> /\ Done(how) /\ patching' = <<>>
          /\ UNCHANGED <<contents, list, patched, call, todo>>
  BY DEF Apply, Short
<1>2. /\ sources' \in Seq(Deed) /\ Len(sources') = Len(sources) + 1 /\ Len(sources) \in Nat
      /\ Len(sources') <= Len(list)
      /\ DOMAIN sources' = 1 .. Len(sources') /\ DOMAIN sources = 1 .. Len(sources)
      /\ sources'[Len(sources')] = [patch |-> Head(patching), how |-> how]
      /\ \A i \in DOMAIN sources : sources'[i] = sources[i]
      /\ call # 0 /\ ~patched
      /\ patching \in Seq(Patch) /\ Len(patching) >= 1
  <2>1. how \in {"whole", "short", "part"}
    OBVIOUS
  <2> QED
    BY <1>1, <2>1, DoneIs DEF PatchInv, PatchTypes
<1>3. Wanted' = Wanted /\ Pending' = Pending
  BY <1>1 DEF Wanted, Pending
<1>4. PatchTypes'
  BY <1>1, <1>2 DEF PatchInv, PatchTypes
<1>5. Listed'
  BY <1>1, <1>2, <1>3 DEF PatchInv, Listed
<1>6. Walk(contents, list, todo)'
  BY <1>1 DEF PatchInv
<1>7. Underway'
  <2>1. CASE Doomed
    <3>1. Doomed'
      BY <1>1, <1>3, <2>1 DEF Doomed, Known
    <3> QED
      BY <3>1 DEF Underway
  <2>2. CASE Clean
    <3>1. /\ Len(list) = Len(sources) + Len(patching) /\ Len(patching) <= 1
          /\ Head(patching) = list[Len(list)]
          /\ \A i \in DOMAIN sources : sources[i].patch = list[i] /\ sources[i].how # "part"
      BY <1>1, <2>2 DEF Clean, Applied
    <3>2. Len(patching) = 1
      <4>1. patching \in Seq(Patch) /\ Len(patching) <= 1 /\ Len(patching) >= 1
        BY <1>2, <3>1
      <4>2. Len(patching) \in Nat
        BY <4>1
      <4>3. \A x \in Nat : x <= 1 /\ x >= 1 => x = 1
        OBVIOUS
      <4> QED
        BY <4>1, <4>2, <4>3
    <3>3. Len(list) = Len(sources')
      BY <1>2, <3>1, <3>2
    <3>4. ASSUME NEW i \in DOMAIN sources' PROVE sources'[i].patch = list[i] /\ sources'[i].how # "part"
      <4>1. i = Len(sources') \/ i \in DOMAIN sources
        BY <1>2
      <4> QED
        BY <1>2, <3>1, <3>3, <4>1
    <3>5. Applied'
      <4>1. Len(patching') = 0
        BY <1>1
      <4> QED
        BY <1>1, <1>2, <3>3, <3>4, <4>1 DEF Applied
    <3>6. Covered' /\ InOrder'
      BY <1>1, <1>3, <2>2 DEF Clean, Covered, InOrder
    <3> QED
      BY <3>5, <3>6 DEF Underway, Clean
  <2> QED
    BY <1>2, <2>1, <2>2 DEF PatchInv, Underway
<1>8. PatchedOnce'
  BY <1>1, <1>2 DEF PatchedOnce
<1> QED
  BY <1>4, <1>5, <1>6, <1>7, <1>8 DEF PatchInv

(* The script stops, with patch(1) or by itself.                           *)
LEMMA QuietKeeps ==
    ASSUME PatchInv, Quiet, UNCHANGED <<contents, list, patched>>,
           UNCHANGED sources \/ (patching # <<>> /\ Done("part"))
    PROVE  PatchInv'
<1>1. call' = 0 /\ todo' = <<>> /\ patching' = <<>> /\ Wanted' = Wanted
  BY DEF Quiet, Wanted
<1>2. /\ sources' \in Seq(Deed) /\ Len(sources') + 0 <= Len(list)
      /\ patched => UNCHANGED sources
  <2>1. CASE UNCHANGED sources
    <3>1. sources \in Seq(Deed) /\ patching \in Seq(Patch) /\ list \in Seq(Patch)
      BY DEF PatchInv, PatchTypes
    <3>2. Len(sources) + Len(patching) <= Len(list)
      BY DEF PatchInv, Listed
    <3> QED
      BY <2>1, <3>1, <3>2
  <2>2. CASE patching # <<>> /\ Done("part")
    <3>1. sources' \in Seq(Deed) /\ Len(sources') <= Len(list) /\ ~patched
      BY <2>2, DoneIs
    <3> QED
      BY <3>1
  <2> QED
    BY <2>1, <2>2
<1>3. PatchTypes'
  <2>1. 0 \in 0 .. Len(Calls)
    BY PatchesAssumption
  <2> QED
    BY <1>1, <1>2, <2>1 DEF PatchInv, PatchTypes
<1>4. Listed'
  BY <1>1, <1>2 DEF PatchInv, Listed
<1>5. Walk(contents, list, todo)'
  BY <1>1 DEF Walk
<1>6. Underway'
  BY <1>1 DEF Underway
<1>7. PatchedOnce'
  <2>1. CASE patched
    <3>1. sources' = sources /\ contents' = contents /\ patched' = patched
      BY <1>2, <2>1
    <3>2. Findable' = Findable
      BY <1>1 DEF Findable
    <3>3. \A p, q : Before(p, q)' = Before(p, q)
      BY <3>1 DEF Before
    <3>4. Findable => PatchedOnce'
      BY <1>1, <2>1, <3>1, <3>3 DEF PatchInv, PatchedOnce
    <3> QED
      BY <3>2, <3>4 DEF PatchedOnce
  <2>2. CASE ~patched
    BY <2>2 DEF PatchedOnce
  <2> QED
    BY <2>1, <2>2
<1> QED
  BY <1>3, <1>4, <1>5, <1>6, <1>7 DEF PatchInv

(* All is looked at, and nothing was refused: the stamp is made.           *)
LEMMA StampKeeps ==
    ASSUME PatchInv, Running, todo = <<>>, call = Len(Calls), patched' = TRUE, Quiet,
           UNCHANGED <<contents, sources, list>>
    PROVE  PatchInv'
<1>1. call' = 0 /\ todo' = <<>> /\ patching' = <<>> /\ Wanted' = Wanted
  BY DEF Quiet, Wanted
<1>2. /\ contents \in Layouts /\ sources \in Seq(Deed) /\ list \in Seq(Patch)
      /\ call # 0 /\ patching = <<>>
  BY DEF PatchInv, PatchTypes, Running
<1>3. Pending = {}
  BY <1>2, EmptyAhead DEF Pending
<1>4. Clean
  BY <1>2, <1>3 DEF PatchInv, Underway, Doomed
<1>5. /\ Len(list) = Len(sources) + 0 /\ DOMAIN sources = 1 .. Len(sources)
      /\ DOMAIN list = 1 .. Len(list) /\ Len(sources) \in Nat
  BY <1>2, <1>4 DEF Clean, Applied
<1>6. DOMAIN sources = DOMAIN list
  BY <1>5
<1>7. \A i \in DOMAIN sources : sources[i].patch = list[i] /\ sources[i].how # "part"
  BY <1>4 DEF Clean, Applied
<1>8. \A p \in Wanted : Met(list, p)
  BY <1>3, <1>4 DEF Clean, Covered
<1>9. \A i, j \in DOMAIN list : list[i].name = list[j].name => i = j
  BY DEF PatchInv, Listed
<1>10. \A i \in DOMAIN list : list[i] \in Wanted /\ list[i] \in Patch
  BY <1>2 DEF PatchInv, Listed
<1>11. ASSUME NEW i \in DOMAIN list, NEW j \in DOMAIN list, i < j
       PROVE  list[i] # list[j] /\ ~Before(list[j], list[i])
  <2>1. i # j /\ i \in Nat /\ j \in Nat
    BY <1>5, <1>11
  <2>2. list[i] # list[j]
    BY <1>9, <2>1
  <2>3. ASSUME Before(list[j], list[i]) PROVE FALSE
    <3> DEFINE d == list[i].dir
    <3>1. PICK a, b \in DOMAIN contents[d] :
              /\ a < b
              /\ contents[d][a] = [kind |-> "patch", name |-> list[j].name]
              /\ contents[d][b] = [kind |-> "patch", name |-> list[i].name]
      BY <2>3 DEF Before
    <3>2. d \in Dirs /\ list[j].dir = d
      BY <1>10, <2>3 DEF Before, Patch
    <3>3. list[i] = [dir |-> d, name |-> list[i].name] /\ list[j] = [dir |-> d, name |-> list[j].name]
      BY <1>10, <3>2 DEF Patch
    <3>4. /\ contents[d][a].kind = "patch" /\ contents[d][a].name = list[j].name
          /\ contents[d][b].kind = "patch" /\ contents[d][b].name = list[i].name
      BY <3>1
    <3> HIDE DEF d
    <3>5. /\ IsPatch(contents, d, a) /\ PatchAt(contents, d, a) = list[j]
          /\ IsPatch(contents, d, b) /\ PatchAt(contents, d, b) = list[i]
      BY <3>3, <3>4 DEF IsPatch, PatchAt
    <3>6. PICK h \in DOMAIN list : h < i /\ list[h] = list[j]
      BY <1>3, <1>4, <3>1, <3>2, <3>5 DEF Clean, InOrder
    <3>7. h = j
      BY <1>9, <3>6
    <3> QED
      BY <1>11, <2>1, <3>6, <3>7
  <2> QED
    BY <2>2, <2>3
<1>12. PatchedOnce'
  <2>1. \A i \in DOMAIN sources : sources[i].how # "part" /\ sources[i].patch \in Wanted
    BY <1>6, <1>7, <1>10
  <2>2. \A p \in Wanted : \E i \in DOMAIN sources : sources[i].patch = p
    BY <1>6, <1>7, <1>8 DEF Met
  <2>3. \A i, j \in DOMAIN sources :
            i < j => sources[i].patch # sources[j].patch /\ ~Before(sources[j].patch, sources[i].patch)
    BY <1>6, <1>7, <1>11
  <2> QED
    BY <1>1, <2>1, <2>2, <2>3 DEF PatchedOnce, Before
<1>13. PatchTypes'
  <2>1. 0 \in 0 .. Len(Calls)
    BY PatchesAssumption
  <2> QED
    BY <1>1, <1>2, <2>1 DEF PatchInv, PatchTypes
<1>14. Listed'
  BY <1>1, <1>2 DEF PatchInv, Listed
<1>15. Walk(contents, list, todo)'
  BY <1>1 DEF Walk
<1>16. Underway'
  BY <1>1 DEF Underway
<1> QED
  BY <1>12, <1>13, <1>14, <1>15, <1>16 DEF PatchInv

LEMMA FinishKeeps == PatchInv /\ Findable /\ Finish => PatchInv'
<1> SUFFICES ASSUME PatchInv, Findable, Finish PROVE PatchInv'
  OBVIOUS
<1>1. Running /\ todo = <<>> /\ patching = <<>> /\ call # 0 /\ call \in 0 .. Len(Calls)
  BY DEF Finish, Running, PatchInv, PatchTypes
<1>2. CASE call < Len(Calls) /\ Call(call + 1)
  <2>1. DOMAIN Calls = 1 .. Len(Calls) /\ Len(Calls) \in Nat
    BY PatchesAssumption
  <2>2. call + 1 \in DOMAIN Calls
    BY <1>1, <1>2, <2>1
  <2> QED
    BY <1>1, <1>2, <2>2, CallKeeps
<1>3. CASE call = Len(Calls) /\ patched' = TRUE /\ Quiet /\ UNCHANGED <<contents, sources, list, faults>>
  BY <1>1, <1>3, StampKeeps
<1> QED
  BY <1>2, <1>3 DEF Finish

LEMMA PatchesKeep == PatchInv /\ Findable /\ ApplyPatches => PatchInv'
<1> SUFFICES ASSUME PatchInv, Findable, ApplyPatches PROVE PatchInv'
  OBVIOUS
<1>1. CASE Missing \/ Duplicate
  BY <1>1, QuietKeeps DEF Missing, Duplicate, Abort, tree
<1>2. CASE Reject
  BY <1>2, QuietKeeps DEF Reject
<1> QED
  BY <1>1, <1>2, DescendKeeps, SkipKeeps, NoteKeeps, ApplyKeeps, FinishKeeps DEF ApplyPatches

LEMMA CutKeeps == PatchInv /\ Cut => PatchInv'
BY QuietKeeps DEF Cut

(* There is nothing but the sources as they were extracted.                *)
LEMMA NothingDone ==
    ASSUME contents \in Layouts, sources = <<>>, list = <<>>, patched = FALSE,
           call = 0, todo = <<>>, patching = <<>>
    PROVE  PatchInv
<1>1. PatchTypes
  <2>1. <<>> \in Seq(Deed) /\ <<>> \in Seq(Patch) /\ <<>> \in Seq(Item)
    OBVIOUS
  <2>2. 0 \in 0 .. Len(Calls)
    BY PatchesAssumption
  <2> QED
    BY <2>1, <2>2 DEF PatchTypes
<1>2. Listed
  BY DEF Listed
<1>3. Walk(contents, list, todo)
  BY DEF Walk
<1>4. Underway /\ PatchedOnce
  BY DEF Underway, PatchedOnce
<1> QED
  BY <1>1, <1>2, <1>3, <1>4 DEF PatchInv

LEMMA NothingDoneNext ==
    ASSUME contents' \in Layouts, sources' = <<>>, list' = <<>>, patched' = FALSE,
           call' = 0, todo' = <<>>, patching' = <<>>
    PROVE  PatchInv'
<1>1. PatchTypes'
  <2>1. <<>> \in Seq(Deed) /\ <<>> \in Seq(Patch) /\ <<>> \in Seq(Item)
    OBVIOUS
  <2>2. 0 \in 0 .. Len(Calls)
    BY PatchesAssumption
  <2> QED
    BY <2>1, <2>2 DEF PatchTypes
<1>2. Listed'
  BY DEF Listed
<1>3. Walk(contents, list, todo)'
  BY DEF Walk
<1>4. Underway' /\ PatchedOnce'
  BY DEF Underway, PatchedOnce
<1> QED
  BY <1>1, <1>2, <1>3, <1>4 DEF PatchInv

(* The package is extracted anew.                                          *)
LEMMA ExtractedKeeps ==
    ASSUME PatchInv, Extracted, UNCHANGED recipe, call = 0
    PROVE  PatchInv'
<1>1. /\ sources' = <<>> /\ list' = <<>> /\ patched' = FALSE /\ contents' = contents
      /\ call' = 0 /\ todo' = <<>> /\ patching' = <<>> /\ contents \in Layouts
  BY DEF Extracted, recipe, PatchInv, PatchTypes
<1> QED
  BY <1>1, NothingDoneNext

LEMMA StaysKept == PatchInv /\ UNCHANGED package => PatchInv'
<1> SUFFICES ASSUME PatchInv, UNCHANGED package PROVE PatchInv'
  OBVIOUS
<1>1. UNCHANGED <<contents, sources, list, patched, call, todo, patching>>
  BY DEF package, tree, recipe
<1>2. Wanted' = Wanted /\ Pending' = Pending
  BY <1>1 DEF Wanted, Pending
<1>3. PatchTypes' /\ Listed' /\ Walk(contents, list, todo)'
  BY <1>1, <1>2 DEF PatchInv, PatchTypes, Listed
<1>4. Underway'
  BY <1>1, <1>2 DEF PatchInv, Underway, Doomed, Known, Clean, Applied, Covered, InOrder
<1>5. PatchedOnce'
  <2>1. Findable' = Findable
    BY <1>2 DEF Findable
  <2>2. \A p, q : Before(p, q)' = Before(p, q)
    BY <1>1 DEF Before
  <2>3. PatchedOnce
    BY DEF PatchInv
  <2> HIDE DEF Findable, Before, Wanted
  <2> QED
    BY <1>1, <1>2, <2>1, <2>2, <2>3 DEF PatchedOnce
<1> QED
  BY <1>3, <1>4, <1>5 DEF PatchInv

-----------------------------------------------------------------------------
(* The patch step runs within make only.                                   *)

Called == call # 0 => job.at = "patch"

LEMMA StepPatch == PatchInv /\ Findable /\ Called /\ [Next]_vars => PatchInv' /\ Called'
<1> SUFFICES ASSUME PatchInv, Findable, Called, [Next]_vars PROVE PatchInv' /\ Called'
  OBVIOUS
<1>1. ASSUME UNCHANGED package, UNCHANGED job \/ call = 0 PROVE PatchInv' /\ Called'
  <2>1. PatchInv'
    BY <1>1, StaysKept
  <2>2. UNCHANGED call
    BY <1>1 DEF package, recipe
  <2> QED
    BY <1>1, <2>1, <2>2 DEF Called
<1>2. job = NoJob => call = 0
  BY DEF Called, NoJob
<1>3. ASSUME NEW s \in {"build", "make", "release"}, Start(s) PROVE PatchInv' /\ Called'
  BY <1>1, <1>2, <1>3 DEF Start
<1>4. CASE Numbers
  BY <1>1, <1>4 DEF Numbers, Count, CountFails, OpenBuild, WriteBuild, BuildFails,
     Reread, OpenMotd, WriteVersion, MotdFails, Fails, FailsBoth, Step, Called
<1>5. CASE Makes
  <2>1. CASE CleanOutput \/ MakeFails \/ Finalize \/ Rootfs \/ Image \/ NoImage
    BY <1>1, <2>1 DEF CleanOutput, MakeFails, Finalize, Rootfs, Image, NoImage, Step, Called
  <2>2. CASE CleanBuild
    <3>1. call = 0 /\ Extracted /\ UNCHANGED recipe
      BY <2>2 DEF CleanBuild, Step, Called
    <3>2. PatchInv'
      BY <3>1, ExtractedKeeps
    <3> QED
      BY <3>1, <3>2 DEF Called, recipe
  <2>3. CASE StartPatching
    <3>1. call = 0 /\ ~patched /\ Call(1) /\ job.at = "patch" /\ job' = job
      BY <2>3 DEF StartPatching
    <3>2. 1 \in DOMAIN Calls
      BY PatchesAssumption
    <3>3. PatchInv'
      BY <3>1, <3>2, CallKeeps
    <3> QED
      BY <3>1, <3>3 DEF Called
  <2>4. CASE GoOnPatching
    <3>1. job.at = "patch" /\ ApplyPatches /\ job' = IF call' = 0 /\ ~patched' THEN NoJob ELSE job
      BY <2>4 DEF GoOnPatching
    <3>2. PatchInv'
      BY <3>1, PatchesKeep
    <3> QED
      BY <3>1, <3>2 DEF Called
  <2>5. CASE HasPatched
    <3>1. patched /\ UNCHANGED package
      BY <2>5 DEF HasPatched
    <3>2. call = 0
      BY <3>1 DEF PatchInv, PatchTypes
    <3> QED
      BY <1>1, <3>1, <3>2
  <2> QED
    BY <1>5, <2>1, <2>2, <2>3, <2>4, <2>5 DEF Makes
<1>6. CASE Releases
  BY <1>1, <1>6 DEF Releases, Name, Archive, ArchiveFails, Move, MoveFails, Fails, Step, Called
<1>7. CASE Kill
  <2>1. CASE call = 0
    BY <1>1, <1>7, <2>1 DEF Kill
  <2>2. CASE call # 0
    <3>1. Cut
      BY <1>7, <2>2 DEF Kill
    <3>2. PatchInv' /\ call' = 0
      BY <3>1, CutKeeps DEF Cut, Quiet
    <3> QED
      BY <3>2 DEF Called
  <2> QED
    BY <2>1, <2>2
<1>8. CASE Burn \/ Boot \/ Reboot \/ PowerCut
  BY <1>1, <1>8 DEF Burn, Boot, Reboot, PowerCut, host
<1>9. CASE Expands
  BY <1>1, <1>9 DEF Expands, StartExpand, Fdisk, Rm, Resize, CommandFails, FailsAt, Works, host
<1>10. CASE UNCHANGED vars
  BY <1>1, <1>10 DEF vars, host
<1> QED
  BY <1>3, <1>4, <1>5, <1>6, <1>7, <1>8, <1>9, <1>10 DEF Next, Scripts

LEMMA InitPatch == Init => PatchInv /\ Called
<1> SUFFICES ASSUME Init PROVE PatchInv /\ Called
  OBVIOUS
<1>1. /\ contents \in Layouts /\ sources = <<>> /\ list = <<>> /\ patched = FALSE
      /\ call = 0 /\ todo = <<>> /\ patching = <<>>
  BY DEF Init
<1>2. PatchInv
  BY <1>1, NothingDone
<1> QED
  BY <1>1, <1>2 DEF Called

(* Which patches there are, and what grep makes of their names, stays.     *)
LEMMA ContentsStay == [Next]_vars => UNCHANGED contents
<1> SUFFICES ASSUME [Next]_vars PROVE UNCHANGED contents
  OBVIOUS
<1>1. ASSUME UNCHANGED package PROVE UNCHANGED contents
  BY <1>1 DEF package, tree
<1>2. CASE Numbers
  BY <1>1, <1>2 DEF Numbers, Count, CountFails, OpenBuild, WriteBuild, BuildFails,
     Reread, OpenMotd, WriteVersion, MotdFails
<1>3. CASE Makes
  <2>1. ASSUME ApplyPatches PROVE UNCHANGED contents
    BY <2>1 DEF ApplyPatches, Descend, Skip, Missing, Duplicate, Note, Apply, Short, Reject, Finish,
       Call, Abort, tree
  <2> QED
    BY <1>1, <1>3, <2>1 DEF Makes, CleanOutput, CleanBuild, Extracted, MakeFails, StartPatching, Call,
       tree, GoOnPatching, HasPatched, Finalize, Rootfs, Image, NoImage
<1>4. CASE Releases \/ \E s \in {"build", "make", "release"} : Start(s)
  BY <1>1, <1>4 DEF Releases, Name, Archive, ArchiveFails, Move, MoveFails, Start
<1>5. CASE Kill
  BY <1>1, <1>5 DEF Kill, Cut
<1>6. CASE Burn \/ Boot \/ Reboot \/ PowerCut
  BY <1>1, <1>6 DEF Burn, Boot, Reboot, PowerCut, host
<1>7. CASE Expands
  BY <1>1, <1>7 DEF Expands, StartExpand, Fdisk, Rm, Resize, CommandFails, FailsAt, Works, host
<1>8. CASE UNCHANGED vars
  BY <1>1, <1>8 DEF vars, host
<1> QED
  BY <1>2, <1>3, <1>4, <1>5, <1>6, <1>7, <1>8 DEF Next, Scripts

(* What is stamped as patched has been given each of the patches of its    *)
(* directories, once and in their order, and none of them was refused or   *)
(* cut off, whatever was before it was extracted anew                      *)
(* (apply-patches.sh:108-117), if grep finds their names.                  *)
THEOREM PatchesApplyOnce == Spec => []PatchedOnce
<1> DEFINE Inv == Findable => PatchInv /\ Called
<1>1. Init => Inv
  BY InitPatch
<1>2. Inv /\ [Next]_vars => Inv'
  BY ContentsStay, StepPatch DEF Findable, Wanted
<1>3. Inv => PatchedOnce
  BY DEF PatchInv, PatchedOnce
<1> QED
  BY <1>1, <1>2, <1>3, PTL DEF Spec
=============================================================================
