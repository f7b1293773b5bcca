---------------------------- MODULE Tools_proof ----------------------------
(***************************************************************************)
(* Proofs about the small tools, for all sizes and tables that Tools       *)
(* leaves open: the three phases of the live verifier, csd-verify.sh, the  *)
(* live harnesses, the judgement of the attempts, and saved files, these   *)
(* by the lemmas of AtomicFile_proof. Each tool has an invariant of its    *)
(* own, lemmas that its steps keep it, and theorems about ToolsSpec, in    *)
(* which the other tools stand still.                                      *)
(***************************************************************************)
EXTENDS Tools, SequenceTheorems, FiniteSetTheorems, TLAPS

-----------------------------------------------------------------------------
(* The absence phase.                                                      *)
Object == Azure \cup XcPath
CheckRecord == [object : Object, uid : Uid \cup {None}, present : BOOLEAN]

(* A list of a manifest is a sequence.                                     *)
LEMMA ListsAreSequences ==
  ASSUME NEW S, NEW s \in Lists(S)
  PROVE  /\ s \in Seq(S) /\ Len(s) \in Nat /\ DOMAIN s = 1..Len(s)
         /\ \A i \in 1..Len(s) : s[i] \in S
         /\ Elements(s) = {s[i] : i \in 1..Len(s)}
  <1>1. PICK n \in 0..MaxOwned : s \in [1..n -> S]
    BY DEF Lists
  <1>2. n \in Nat
    BY NumbersAssumption
  <1>3. s \in Seq(S)
    BY <1>1, <1>2, SeqDef
  <1> QED
    BY <1>3, LenProperties, ElementOfSeq DEF Elements

(* As many elements as entries: no entry is there twice.                   *)
LEMMA DistinctEntries ==
  ASSUME NEW S, NEW s \in Seq(S), Distinct(s)
  PROVE  \A i, j \in 1..Len(s) : s[i] = s[j] => i = j
  <1>1. /\ Len(s) \in Nat /\ DOMAIN s = 1..Len(s) /\ s \in [1..Len(s) -> S]
    BY LenProperties
  <1>2. s \in Surjection(1..Len(s), Elements(s))
    BY <1>1 DEF Elements, Surjection
  <1>3. IsFiniteSet(1..Len(s)) /\ Cardinality(1..Len(s)) = Len(s)
    BY <1>1, FS_Interval
  <1>4. Cardinality(Elements(s)) = Cardinality(1..Len(s))
    BY <1>3 DEF Distinct
  <1>5. s \in Injection(1..Len(s), Elements(s))
    BY <1>2, <1>3, <1>4, FS_Surjection
  <1> QED
    BY <1>5 DEF Injection, IsInjective

(* The three lists of a manifest.                                          *)
LEMMA ManifestLists ==
  ASSUME NEW m \in Manifest
  PROVE  m.azure \in Lists(Azure) /\ m.xc_owned \in Lists(Entry) /\ m.xc_preserved \in Lists(Entry)
  BY DEF Manifest

(* What SequenceTheorems says of a concatenation, for checks.              *)
LEMMA ChecksConcat ==
  \A s, t \in Seq(CheckRecord) :
    /\ s \o t \in Seq(CheckRecord) /\ Len(s \o t) = Len(s) + Len(t)
    /\ \A i \in 1..(Len(s) + Len(t)) :
         (s \o t)[i] = IF i <= Len(s) THEN s[i] ELSE t[i - Len(s)]
  BY ConcatProperties

(* The checks of a manifest: its Azure identities, what it owns, what it   *)
(* preserves.                                                              *)
LEMMA ChecksAre ==
  ASSUME NEW m \in Manifest
  PROVE  LET a == Len(m.azure)
             o == Len(m.xc_owned)
             k == Len(m.xc_preserved) IN
         /\ {a, o, k} \subseteq Nat
         /\ Checks(m) \in Seq(CheckRecord) /\ Len(Checks(m)) = a + o + k
         /\ \A i \in 1..a :
              Checks(m)[i] = [object |-> m.azure[i], uid |-> None, present |-> FALSE]
         /\ \A i \in 1..o :
              Checks(m)[a + i] =
                [object |-> m.xc_owned[i].path, uid |-> m.xc_owned[i].uid, present |-> FALSE]
         /\ \A i \in 1..k :
              Checks(m)[a + o + i] =
                [object |-> m.xc_preserved[i].path, uid |-> m.xc_preserved[i].uid,
                 present |-> TRUE]
  <1> DEFINE a == Len(m.azure)
             o == Len(m.xc_owned)
             k == Len(m.xc_preserved)
             c1 == [i \in DOMAIN m.azure |->
                     [object |-> m.azure[i], uid |-> None, present |-> FALSE]]
             c2 == [i \in DOMAIN m.xc_owned |->
                     [object |-> m.xc_owned[i].path, uid |-> m.xc_owned[i].uid,
                      present |-> FALSE]]
             c3 == [i \in DOMAIN m.xc_preserved |->
                     [object |-> m.xc_preserved[i].path, uid |-> m.xc_preserved[i].uid,
                      present |-> TRUE]]
  <1>1. /\ a \in Nat /\ DOMAIN m.azure = 1..a /\ \A i \in 1..a : m.azure[i] \in Azure
        /\ o \in Nat /\ DOMAIN m.xc_owned = 1..o /\ \A i \in 1..o : m.xc_owned[i] \in Entry
        /\ k \in Nat /\ DOMAIN m.xc_preserved = 1..k
        /\ \A i \in 1..k : m.xc_preserved[i] \in Entry
    BY ManifestLists, ListsAreSequences, Zenon
  <1> HIDE DEF a, o, k
  <1>2. c1 \in [1..a -> CheckRecord] /\ c2 \in [1..o -> CheckRecord] /\ c3 \in [1..k -> CheckRecord]
    BY <1>1 DEF CheckRecord, Object, Entry
  <1>3. /\ c1 \in Seq(CheckRecord) /\ Len(c1) = a
        /\ c2 \in Seq(CheckRecord) /\ Len(c2) = o
        /\ c3 \in Seq(CheckRecord) /\ Len(c3) = k
    <2>1. c1 \in Seq(CheckRecord) /\ c2 \in Seq(CheckRecord) /\ c3 \in Seq(CheckRecord)
      BY <1>1, <1>2, SeqDef
    <2>2. DOMAIN c1 = 1..a /\ DOMAIN c2 = 1..o /\ DOMAIN c3 = 1..k
      BY <1>1
    <2> HIDE DEF c1, c2, c3
    <2> QED
      BY <1>1, <2>1, <2>2, LenProperties
  <1>4. /\ \A i \in 1..a : c1[i] = [object |-> m.azure[i], uid |-> None, present |-> FALSE]
        /\ \A i \in 1..o :
             c2[i] = [object |-> m.xc_owned[i].path, uid |-> m.xc_owned[i].uid, present |-> FALSE]
        /\ \A i \in 1..k :
             c3[i] = [object |-> m.xc_preserved[i].path, uid |-> m.xc_preserved[i].uid,
                      present |-> TRUE]
    BY <1>1
  <1>5. Checks(m) = c1 \o c2 \o c3
    BY DEF Checks
  <1> HIDE DEF c1, c2, c3
  <1>6. /\ c1 \o c2 \in Seq(CheckRecord) /\ Len(c1 \o c2) = a + o
        /\ \A i \in 1..(a + o) : (c1 \o c2)[i] = IF i <= a THEN c1[i] ELSE c2[i - a]
    BY <1>3, ConcatProperties
  <1>7. /\ Checks(m) \in Seq(CheckRecord) /\ Len(Checks(m)) = a + o + k
        /\ \A i \in 1..(a + o + k) :
             Checks(m)[i] = IF i <= a + o THEN (c1 \o c2)[i] ELSE c3[i - (a + o)]
    <2> DEFINE v == c1 \o c2  x == v \o c3
    <2>1. v \in Seq(CheckRecord) /\ Len(v) = a + o
      BY <1>6
    <2> HIDE DEF v
    <2>2. /\ x \in Seq(CheckRecord) /\ Len(x) = Len(v) + Len(c3)
          /\ \A i \in 1..(Len(v) + Len(c3)) :
               x[i] = IF i <= Len(v) THEN v[i] ELSE c3[i - Len(v)]
      BY <1>3, <2>1, ChecksConcat, Zenon
    <2> HIDE DEF x
    <2>3. /\ x \in Seq(CheckRecord) /\ Len(x) = a + o + k
          /\ \A i \in 1..(a + o + k) : x[i] = IF i <= a + o THEN v[i] ELSE c3[i - (a + o)]
      BY <1>1, <1>3, <2>1, <2>2
    <2> QED
      BY <1>5, <2>3 DEF v, x
  <1>8. ASSUME NEW i \in 1..a
        PROVE  Checks(m)[i] = c1[i]
    <2>1. i \in 1..(a + o + k) /\ i \in 1..(a + o) /\ i <= a /\ i <= a + o
      BY <1>1
    <2>2. Checks(m)[i] = (c1 \o c2)[i]
      BY <1>7, <2>1
    <2> QED
      BY <1>6, <2>1, <2>2
  <1>9. ASSUME NEW i \in 1..o
        PROVE  Checks(m)[a + i] = c2[i]
    <2>1. /\ a + i \in 1..(a + o + k) /\ a + i \in 1..(a + o) /\ ~(a + i <= a)
          /\ a + i <= a + o /\ (a + i) - a = i
      BY <1>1
    <2> QED
      BY <1>6, <1>7, <2>1
  <1>10. ASSUME NEW i \in 1..k
         PROVE  Checks(m)[a + o + i] = c3[i]
    <2>1. /\ a + o + i \in 1..(a + o + k) /\ ~(a + o + i <= a + o)
          /\ (a + o + i) - (a + o) = i
      BY <1>1
    <2> QED
      BY <1>7, <2>1
  <1> QED
    BY <1>1, <1>4, <1>7, <1>8, <1>9, <1>10 DEF a, o, k

(* The three parts of a schedule, and where an entry is.                   *)
LEMMA ScheduleParts ==
  ASSUME NEW m \in Manifest
  PROVE  LET c == Checks(m) IN
         /\ c \in Seq(CheckRecord) /\ Len(c) \in Nat
         /\ Len(c) = Len(m.azure) + Len(m.xc_owned) + Len(m.xc_preserved)
         /\ \A i \in 1..Len(c) : c[i] \in CheckRecord
         /\ \A i \in 1..Len(c) : c[i].object \in Azure <=> i <= Len(m.azure)
         /\ \A i \in 1..Len(c) : i <= Len(m.azure) => ~c[i].present
         /\ \A i \in 1..Len(c) : ~c[i].present => c[i].object \in Owned(m)
         /\ \A i \in 1..Len(c) :
              c[i].present =>
                [path |-> c[i].object, uid |-> c[i].uid] \in Elements(m.xc_preserved)
         /\ \A o \in Owned(m) : \E i \in 1..Len(c) : c[i].object = o /\ ~c[i].present
         /\ \A e \in Elements(m.xc_preserved) :
              \E i \in 1..Len(c) : c[i].object = e.path /\ c[i].uid = e.uid /\ c[i].present
  <1> DEFINE a == Len(m.azure)
             o == Len(m.xc_owned)
             k == Len(m.xc_preserved)
             c == Checks(m)
  <1>1. /\ a \in Nat /\ (\A i \in 1..a : m.azure[i] \in Azure)
        /\ Elements(m.azure) = {m.azure[i] : i \in 1..a}
    BY ManifestLists, ListsAreSequences, Zenon
  <1>2. /\ o \in Nat /\ (\A i \in 1..o : m.xc_owned[i] \in Entry)
        /\ Elements(m.xc_owned) = {m.xc_owned[i] : i \in 1..o}
    BY ManifestLists, ListsAreSequences, Zenon
  <1>3. /\ k \in Nat /\ (\A i \in 1..k : m.xc_preserved[i] \in Entry)
        /\ Elements(m.xc_preserved) = {m.xc_preserved[i] : i \in 1..k}
    BY ManifestLists, ListsAreSequences, Zenon
  <1>4. /\ c \in Seq(CheckRecord) /\ Len(c) = a + o + k
        /\ \A i \in 1..a : c[i] = [object |-> m.azure[i], uid |-> None, present |-> FALSE]
        /\ \A i \in 1..o :
             c[a + i] =
               [object |-> m.xc_owned[i].path, uid |-> m.xc_owned[i].uid, present |-> FALSE]
        /\ \A i \in 1..k :
             c[a + o + i] =
               [object |-> m.xc_preserved[i].path, uid |-> m.xc_preserved[i].uid,
                present |-> TRUE]
    BY ChecksAre
  <1> HIDE DEF a, o, k, c
  <1>5. \A i \in 1..Len(c) : c[i] \in CheckRecord
    BY <1>4, ElementOfSeq
  <1>6. \A i \in 1..Len(c) :
          \/ i \in 1..a
          \/ \E j \in 1..o : i = a + j
          \/ \E j \in 1..k : i = a + o + j
    <2> SUFFICES ASSUME NEW i \in 1..Len(c), ~(i \in 1..a)
                 PROVE  \/ \E j \in 1..o : i = a + j
                        \/ \E j \in 1..k : i = a + o + j
      OBVIOUS
    <2>1. CASE i <= a + o
      <3>1. i - a \in 1..o /\ i = a + (i - a)
        BY <1>1, <1>2, <1>3, <1>4, <2>1
      <3> QED
        BY <3>1
    <2>2. CASE ~(i <= a + o)
      <3>1. i - (a + o) \in 1..k /\ i = a + o + (i - (a + o))
        BY <1>1, <1>2, <1>3, <1>4, <2>2
      <3> QED
        BY <3>1
    <2> QED
      BY <2>1, <2>2
  <1>7. ASSUME NEW i \in 1..a
        PROVE  /\ i \in 1..Len(c) /\ i <= a /\ c[i].object \in Azure
               /\ c[i].object = m.azure[i] /\ ~c[i].present /\ c[i].object \in Owned(m)
    <2>1. i \in 1..Len(c) /\ i <= a
      BY <1>1, <1>2, <1>3, <1>4
    <2>2. c[i] = [object |-> m.azure[i], uid |-> None, present |-> FALSE]
      BY <1>4
    <2>3. c[i].object = m.azure[i] /\ ~c[i].present
      BY <2>2
    <2>4. m.azure[i] \in Azure /\ m.azure[i] \in Owned(m)
      BY <1>1 DEF Owned
    <2> QED
      BY <2>1, <2>3, <2>4
  <1>8. ASSUME NEW j \in 1..o
        PROVE  /\ a + j \in 1..Len(c) /\ ~(a + j <= a) /\ c[a + j].object \notin Azure
               /\ c[a + j].object = m.xc_owned[j].path
               /\ ~c[a + j].present /\ c[a + j].object \in Owned(m)
    <2>1. a + j \in 1..Len(c) /\ ~(a + j <= a)
      BY <1>1, <1>2, <1>3, <1>4
    <2>2. c[a + j].object = m.xc_owned[j].path /\ ~c[a + j].present
      <3>1. c[a + j] = [object |-> m.xc_owned[j].path, uid |-> m.xc_owned[j].uid,
                        present |-> FALSE]
        BY <1>4
      <3> QED
        BY <3>1
    <2>3. m.xc_owned[j].path \in XcPath /\ m.xc_owned[j].path \in Owned(m)
      BY <1>2 DEF Entry, Owned
    <2> QED
      BY <2>1, <2>2, <2>3, NamesAssumption DEF XcPath
  <1>9. ASSUME NEW j \in 1..k
        PROVE  /\ a + o + j \in 1..Len(c) /\ ~(a + o + j <= a) /\ c[a + o + j].object \notin Azure
               /\ c[a + o + j].object = m.xc_preserved[j].path
               /\ c[a + o + j].uid = m.xc_preserved[j].uid
               /\ c[a + o + j].present
               /\ [path |-> c[a + o + j].object, uid |-> c[a + o + j].uid]
                    \in Elements(m.xc_preserved)
    <2>1. a + o + j \in 1..Len(c) /\ ~(a + o + j <= a)
      BY <1>1, <1>2, <1>3, <1>4
    <2>2. /\ c[a + o + j].object = m.xc_preserved[j].path
          /\ c[a + o + j].uid = m.xc_preserved[j].uid
          /\ c[a + o + j].present
      <3>1. c[a + o + j] = [object |-> m.xc_preserved[j].path, uid |-> m.xc_preserved[j].uid,
                            present |-> TRUE]
        BY <1>4
      <3> QED
        BY <3>1
    <2>3. m.xc_preserved[j] \in Entry
      BY <1>3
    <2>4. [path |-> m.xc_preserved[j].path, uid |-> m.xc_preserved[j].uid] = m.xc_preserved[j]
      BY <2>3 DEF Entry
    <2>5. m.xc_preserved[j].path \in XcPath /\ m.xc_preserved[j] \in Elements(m.xc_preserved)
      BY <1>3 DEF Entry
    <2> QED
      BY <2>1, <2>2, <2>4, <2>5, NamesAssumption DEF XcPath
  <1>10. \A x \in Owned(m) : \E i \in 1..Len(c) : c[i].object = x /\ ~c[i].present
    <2> SUFFICES ASSUME NEW x \in Owned(m)
                 PROVE  \E i \in 1..Len(c) : c[i].object = x /\ ~c[i].present
      OBVIOUS
    <2>1. (\E i \in 1..a : x = m.azure[i]) \/ \E j \in 1..o : x = m.xc_owned[j].path
      BY <1>1, <1>2 DEF Owned
    <2> QED
      BY <1>7, <1>8, <2>1
  <1>11. \A e \in Elements(m.xc_preserved) :
           \E i \in 1..Len(c) : c[i].object = e.path /\ c[i].uid = e.uid /\ c[i].present
    <2> SUFFICES ASSUME NEW e \in Elements(m.xc_preserved)
                 PROVE  \E i \in 1..Len(c) :
                          c[i].object = e.path /\ c[i].uid = e.uid /\ c[i].present
      OBVIOUS
    <2>1. PICK j \in 1..k : e = m.xc_preserved[j]
      BY <1>3
    <2>2. /\ a + o + j \in 1..Len(c) /\ c[a + o + j].object = e.path
          /\ c[a + o + j].uid = e.uid /\ c[a + o + j].present
      BY <1>9, <2>1
    <2> QED
      BY <2>2
  <1>12. ASSUME NEW i \in 1..Len(c)
         PROVE  /\ (c[i].object \in Azure) <=> (i <= a)
                /\ i <= a => ~c[i].present
                /\ ~c[i].present => c[i].object \in Owned(m)
                /\ c[i].present =>
                     [path |-> c[i].object, uid |-> c[i].uid] \in Elements(m.xc_preserved)
    <2>1. CASE i \in 1..a
      BY <1>7, <2>1
    <2>2. ASSUME NEW j \in 1..o, i = a + j
          PROVE  /\ c[i].object \notin Azure /\ ~(i <= a)
                 /\ ~c[i].present /\ c[i].object \in Owned(m)
      BY <1>8, <2>2
    <2>3. ASSUME NEW j \in 1..k, i = a + o + j
          PROVE  /\ c[i].object \notin Azure /\ ~(i <= a) /\ c[i].present
                 /\ [path |-> c[i].object, uid |-> c[i].uid] \in Elements(m.xc_preserved)
      BY <1>9, <2>3
    <2> QED
      BY <1>6, <2>1, <2>2, <2>3
  <1>13. Len(c) \in Nat
    BY <1>1, <1>2, <1>3, <1>4
  <1> QED
    BY <1>4, <1>5, <1>10, <1>11, <1>12, <1>13 DEF a, o, k, c

(* What SequenceTheorems says of a concatenation, for paths.               *)
LEMMA PathsConcat ==
  \A s, t \in Seq(XcPath) :
    /\ s \o t \in Seq(XcPath) /\ Len(s \o t) = Len(s) + Len(t)
    /\ \A i \in 1..(Len(s) + Len(t)) :
         (s \o t)[i] = IF i <= Len(s) THEN s[i] ELSE t[i - Len(s)]
  BY ConcatProperties

(* The paths of a list.                                                    *)
LEMMA PathsAre ==
  ASSUME NEW s \in Lists(Entry)
  PROVE  /\ PathsOf(s) \in Seq(XcPath) /\ Len(PathsOf(s)) = Len(s)
         /\ \A i \in 1..Len(s) : PathsOf(s)[i] = s[i].path
  <1>1. Len(s) \in Nat /\ DOMAIN s = 1..Len(s) /\ \A i \in 1..Len(s) : s[i] \in Entry
    BY ListsAreSequences, Zenon
  <1>2. \A i \in 1..Len(s) : s[i].path \in XcPath
    BY <1>1 DEF Entry
  <1>3. PathsOf(s) \in [1..Len(s) -> XcPath]
    BY <1>1, <1>2 DEF PathsOf
  <1>4. PathsOf(s) \in Seq(XcPath) /\ DOMAIN PathsOf(s) = 1..Len(s)
    BY <1>1, <1>3, SeqDef
  <1>5. Len(PathsOf(s)) = Len(s)
    BY <1>1, <1>4, LenProperties
  <1> QED
    BY <1>1, <1>4, <1>5 DEF PathsOf

(* In a schedule that passed the validation no object is checked twice,    *)
(* nothing is both owned and preserved, and the namespace is preserved.    *)
LEMMA ValidSchedule ==
  ASSUME NEW m \in Manifest, validate_manifest(m)
  PROVE  /\ \A i, j \in 1..Len(Checks(m)) :
              Checks(m)[i].object = Checks(m)[j].object => i = j
         /\ Owned(m) \cap Preserved(m) = {}
         /\ Namespace \in Preserved(m)
  <1> DEFINE a == Len(m.azure)
             o == Len(m.xc_owned)
             k == Len(m.xc_preserved)
             c == Checks(m)
             p == PathsOf(m.xc_owned)
             q == PathsOf(m.xc_preserved)
             s == p \o q
  <1>1. /\ a \in Nat /\ m.azure \in Seq(Azure) /\ (\A i \in 1..a : m.azure[i] \in Azure)
        /\ Elements(m.azure) = {m.azure[i] : i \in 1..a}
    BY ManifestLists, ListsAreSequences, Zenon
  <1>2. /\ o \in Nat /\ (\A i \in 1..o : m.xc_owned[i] \in Entry)
        /\ Elements(m.xc_owned) = {m.xc_owned[i] : i \in 1..o}
    BY ManifestLists, ListsAreSequences, Zenon
  <1>3. /\ k \in Nat /\ (\A i \in 1..k : m.xc_preserved[i] \in Entry)
        /\ Elements(m.xc_preserved) = {m.xc_preserved[i] : i \in 1..k}
        /\ DOMAIN m.xc_preserved = 1..k
    BY ManifestLists, ListsAreSequences, Zenon
  <1>4. /\ Len(c) = a + o + k
        /\ \A i \in 1..a : c[i] = [object |-> m.azure[i], uid |-> None, present |-> FALSE]
        /\ \A i \in 1..o :
             c[a + i] =
               [object |-> m.xc_owned[i].path, uid |-> m.xc_owned[i].uid, present |-> FALSE]
        /\ \A i \in 1..k :
             c[a + o + i] =
               [object |-> m.xc_preserved[i].path, uid |-> m.xc_preserved[i].uid,
                present |-> TRUE]
    BY ChecksAre
  <1>5. \A i \in 1..Len(c) : (c[i].object \in Azure) <=> (i <= a)
    BY ScheduleParts
  <1>6. /\ p \in Seq(XcPath) /\ Len(p) = o /\ (\A i \in 1..o : p[i] = m.xc_owned[i].path)
        /\ q \in Seq(XcPath) /\ Len(q) = k /\ (\A i \in 1..k : q[i] = m.xc_preserved[i].path)
    BY ManifestLists, PathsAre, Zenon
  <1>7. Distinct(m.azure) /\ Distinct(s)
    BY DEF validate_manifest
  <1>8. Cardinality({i \in DOMAIN m.xc_preserved : m.xc_preserved[i].path = Namespace}) = 1
    BY DEF validate_manifest
  <1> HIDE DEF a, o, k, c, p, q
  <1>9. /\ s \in Seq(XcPath) /\ Len(s) = Len(p) + Len(q)
        /\ \A i \in 1..(Len(p) + Len(q)) : s[i] = IF i <= Len(p) THEN p[i] ELSE q[i - Len(p)]
    BY <1>6, PathsConcat, Zenon
  <1> HIDE DEF s
  <1>10. \A i, j \in 1..a : m.azure[i] = m.azure[j] => i = j
    BY <1>1, <1>7, DistinctEntries DEF a
  <1>11. \A i, j \in 1..(o + k) : s[i] = s[j] => i = j
    <2>1. \A i, j \in 1..Len(s) : s[i] = s[j] => i = j
      BY <1>7, <1>9, DistinctEntries
    <2> QED
      BY <1>6, <1>9, <2>1
  <1>12. \A i \in 1..o : i \in 1..(o + k) /\ s[i] = m.xc_owned[i].path
    BY <1>2, <1>3, <1>6, <1>9
  <1>13. \A i \in 1..k : o + i \in 1..(o + k) /\ s[o + i] = m.xc_preserved[i].path
    <2> SUFFICES ASSUME NEW i \in 1..k
                 PROVE  o + i \in 1..(o + k) /\ s[o + i] = m.xc_preserved[i].path
      OBVIOUS
    <2>1. o + i \in 1..(o + k) /\ ~(o + i <= o) /\ (o + i) - o = i
      BY <1>2, <1>3
    <2>2. s[o + i] = q[i]
      BY <1>6, <1>9, <2>1
    <2> QED
      BY <1>6, <2>1, <2>2
  <1>14. ASSUME NEW i \in 1..Len(c), ~(i <= a)
         PROVE  i - a \in 1..(o + k) /\ c[i].object = s[i - a]
    <2>1. i - a \in 1..(o + k)
      BY <1>1, <1>2, <1>3, <1>4, <1>14
    <2>2. CASE i - a <= o
      <3>1. i - a \in 1..o /\ i = a + (i - a)
        BY <1>1, <1>2, <2>1, <2>2
      <3> DEFINE n == i - a
      <3>2. n \in 1..o /\ i = a + n
        BY <3>1
      <3> HIDE DEF n
      <3>3. c[i] = [object |-> m.xc_owned[n].path, uid |-> m.xc_owned[n].uid, present |-> FALSE]
        BY <1>4, <3>2
      <3>4. c[i].object = s[n]
        BY <1>12, <3>2, <3>3
      <3> QED
        BY <2>1, <3>4 DEF n
    <2>3. CASE ~(i - a <= o)
      <3> DEFINE n == i - (a + o)
      <3>1. n \in 1..k /\ i = a + o + n /\ i - a = o + n
        BY <1>1, <1>2, <1>3, <2>1, <2>3
      <3> HIDE DEF n
      <3>2. c[i] = [object |-> m.xc_preserved[n].path, uid |-> m.xc_preserved[n].uid,
                    present |-> TRUE]
        BY <1>4, <3>1
      <3> QED
        BY <1>13, <2>1, <3>1, <3>2
    <2> QED
      BY <2>2, <2>3
  <1>15. \A i, j \in 1..Len(c) : c[i].object = c[j].object => i = j
    <2> SUFFICES ASSUME NEW i \in 1..Len(c), NEW j \in 1..Len(c), c[i].object = c[j].object
                 PROVE  i = j
      OBVIOUS
    <2>1. CASE i <= a
      <3>1. i \in 1..a /\ j \in 1..a
        BY <1>1, <1>5, <2>1
      <3>2. \A n \in 1..a : c[n].object = m.azure[n]
        <4> SUFFICES ASSUME NEW n \in 1..a
                     PROVE  c[n].object = m.azure[n]
          OBVIOUS
        <4>1. c[n] = [object |-> m.azure[n], uid |-> None, present |-> FALSE]
          BY <1>4
        <4> QED
          BY <4>1
      <3> QED
        BY <1>10, <3>1, <3>2
    <2>2. CASE ~(i <= a)
      <3>1. ~(j <= a)
        BY <1>5, <2>2
      <3>2. /\ i - a \in 1..(o + k) /\ c[i].object = s[i - a]
            /\ j - a \in 1..(o + k) /\ c[j].object = s[j - a]
        BY <1>14, <2>2, <3>1
      <3>3. i - a = j - a
        BY <1>11, <3>2
      <3> QED
        BY <1>1, <3>3
    <2> QED
      BY <2>1, <2>2
  <1>16. Preserved(m) = {m.xc_preserved[i].path : i \in 1..k}
    BY <1>3 DEF Preserved
  <1>17. Owned(m) \cap Preserved(m) = {}
    <2> SUFFICES ASSUME NEW x \in Owned(m), x \in Preserved(m)
                 PROVE  FALSE
      OBVIOUS
    <2>1. PICK j \in 1..k : x = m.xc_preserved[j].path
      BY <1>16
    <2>2. x \in XcPath
      BY <1>3, <2>1 DEF Entry
    <2>3. x \notin Azure
      BY <2>2, NamesAssumption DEF XcPath
    <2>4. PICK i \in 1..o : x = m.xc_owned[i].path
      BY <1>1, <1>2, <2>3 DEF Owned
    <2>5. i \in 1..(o + k) /\ o + j \in 1..(o + k) /\ s[i] = s[o + j]
      BY <1>12, <1>13, <2>1, <2>4
    <2>6. i = o + j
      BY <1>11, <2>5
    <2> QED
      BY <1>2, <1>3, <2>6
  <1>18. Namespace \in Preserved(m)
    <2>1. {i \in DOMAIN m.xc_preserved : m.xc_preserved[i].path = Namespace} # {}
      BY <1>8, FS_EmptySet
    <2>2. PICK i \in 1..k : m.xc_preserved[i].path = Namespace
      BY <1>3, <2>1
    <2> QED
      BY <1>16, <2>2
  <1> QED
    BY <1>15, <1>17, <1>18 DEF c

-----------------------------------------------------------------------------
(* The invariant. The checks that are left are the end of the schedule;    *)
(* each of the others is settled, and the outcome says whether all of them *)
(* were met when their objects were read.                                  *)
Schedule == Checks(manifest)
Total == Len(Schedule)
Named == Len(manifest.azure)
Done == Total - Len(todo)
Met(c) == witness[c.object] = IF c.present THEN c.uid ELSE None
Settled(i) == witness[Schedule[i].object] # "unread"

AbsenceTypes ==
  /\ manifest \in Manifest
  /\ azure \subseteq Azure /\ xc \in [XcPath -> Uid \cup {None}]
  /\ witness \in [Object -> Uid \cup {None, "present", "unread"}]
  /\ outcome \in BOOLEAN

Scheduled ==
  /\ validate_manifest(manifest)
  /\ todo \in Seq(CheckRecord) /\ Len(todo) <= Total
  /\ \A i \in 1..Len(todo) : todo[i] = Schedule[Done + i]
  /\ \A i \in 1..Done : Settled(i)
  /\ outcome <=> \A i \in 1..Done : Met(Schedule[i])

AbsenceInv ==
  /\ AbsenceTypes
  /\ pc = "validate" => outcome
  /\ pc \in {"read", "verified", "pending"} => Scheduled
  /\ pc = "verified" => todo = <<>> /\ outcome
  /\ pc = "pending" => todo = <<>> /\ ~outcome

(* The requests: two for each Azure identity, one for every other object.  *)
Spent(n) == IF n <= Named THEN 2 * n ELSE Named + n

ReadsInv ==
  /\ reads \in Nat /\ attempt \in {0, 1}
  /\ pc = "validate" => reads = 0 /\ attempt = 0
  /\ pc = "read" => reads <= Spent(Done) + attempt /\ (attempt = 1 => Done < Named)
  /\ reads > 0 => validate_manifest(manifest)
  /\ reads <= Named + Total

(* What the invariant of the schedule says of its numbers.                 *)
LEMMA Numbers ==
  ASSUME manifest \in Manifest, todo \in Seq(CheckRecord), Len(todo) <= Total
  PROVE  /\ Total \in Nat /\ Named \in Nat /\ Named <= Total
         /\ Len(todo) \in Nat /\ Done \in 0..Total
         /\ todo = <<>> => Done = Total
         /\ todo # <<>> => Done + 1 \in 1..Total
  <1>1. /\ Total \in Nat
        /\ Total = Named + Len(manifest.xc_owned) + Len(manifest.xc_preserved)
    BY ScheduleParts DEF Total, Schedule, Named
  <1>2. {Named, Len(manifest.xc_owned), Len(manifest.xc_preserved)} \subseteq Nat
    BY ChecksAre DEF Named
  <1>3. Len(todo) \in Nat /\ (todo = <<>> => Len(todo) = 0) /\ (todo # <<>> => Len(todo) >= 1)
    BY LenProperties, EmptySeq
  <1> HIDE DEF Total, Named
  <1> QED
    BY <1>1, <1>2, <1>3 DEF Done

(* The check that is at the head of those left.                            *)
LEMMA HeadCheck ==
  ASSUME AbsenceInv, pc = "read", todo # <<>>
  PROVE  /\ Check = Schedule[Done + 1] /\ Check \in CheckRecord
         /\ (Check.object \in Azure) <=> (Done + 1 <= Named)
         /\ Check.object \in Azure => ~Check.present
         /\ \A i \in 1..Done : Schedule[i] \in CheckRecord /\ Schedule[i].object # Check.object
         /\ Tail(todo) \in Seq(CheckRecord) /\ Len(Tail(todo)) = Len(todo) - 1
         /\ \A i \in 1..(Len(todo) - 1) : Tail(todo)[i] = todo[i + 1]
  <1>1. manifest \in Manifest /\ Scheduled
    BY DEF AbsenceInv, AbsenceTypes
  <1>2. /\ Total \in Nat /\ Named \in Nat /\ Len(todo) \in Nat /\ Done \in 0..Total
        /\ Done + 1 \in 1..Total
    BY <1>1, Numbers DEF Scheduled
  <1>3. todo \in Seq(CheckRecord) /\ Len(todo) \in Nat \ {0}
    BY <1>1, <1>2, LenProperties, EmptySeq DEF Scheduled
  <1>4. /\ Check = todo[1] /\ Tail(todo) \in Seq(CheckRecord) /\ Len(Tail(todo)) = Len(todo) - 1
        /\ \A i \in 1..(Len(todo) - 1) : Tail(todo)[i] = todo[i + 1]
    BY <1>3, HeadTailProperties DEF Check
  <1>5. Check = Schedule[Done + 1]
    BY <1>1, <1>3, <1>4 DEF Scheduled
  <1>6. /\ \A i \in 1..Total : Schedule[i] \in CheckRecord
        /\ \A i \in 1..Total : (Schedule[i].object \in Azure) <=> (i <= Named)
        /\ \A i \in 1..Total : i <= Named => ~Schedule[i].present
    BY <1>1, ScheduleParts DEF Schedule, Total, Named
  <1>7. \A i, j \in 1..Total : Schedule[i].object = Schedule[j].object => i = j
    BY <1>1, ValidSchedule DEF Schedule, Total, Scheduled
  <1>8. \A i \in 1..Done : i \in 1..Total /\ i # Done + 1
    BY <1>2
  <1> HIDE DEF Schedule, Total, Named, Done, Check
  <1> QED
    BY <1>2, <1>4, <1>5, <1>6, <1>7, <1>8

(* A settled check is one more that is done.                               *)
LEMMA SettledCheck ==
  ASSUME AbsenceInv, pc = "read", todo # <<>>, NEW result \in BOOLEAN, Settle(result),
         There(Check.object) \in Uid \cup {None, "present"},
         result <=> There(Check.object) = IF Check.present THEN Check.uid ELSE None
  PROVE  AbsenceInv' /\ Done' = Done + 1 /\ UNCHANGED <<manifest, pc>> /\ attempt' = 0
  <1>1. /\ Total \in Nat /\ Named \in Nat /\ Len(todo) \in Nat /\ Done \in 0..Total
        /\ Done + 1 \in 1..Total
    BY Numbers DEF Scheduled, AbsenceInv, AbsenceTypes
  <1>2. /\ Check = Schedule[Done + 1] /\ Check \in CheckRecord
        /\ \A i \in 1..Done : Schedule[i] \in CheckRecord /\ Schedule[i].object # Check.object
        /\ Tail(todo) \in Seq(CheckRecord) /\ Len(Tail(todo)) = Len(todo) - 1
        /\ \A i \in 1..(Len(todo) - 1) : Tail(todo)[i] = todo[i + 1]
    BY HeadCheck
  <1>3. /\ outcome' = (outcome /\ result)
        /\ witness' = [witness EXCEPT ![Check.object] = There(Check.object)]
        /\ todo' = Tail(todo) /\ attempt' = 0
        /\ manifest' = manifest /\ azure' = azure /\ xc' = xc /\ pc' = pc
    BY DEF Settle, world
  <1>4. Schedule' = Schedule /\ Total' = Total /\ Named' = Named
    BY <1>3 DEF Schedule, Total, Named
  <1>5. Len(todo') = Len(todo) - 1 /\ Done' = Done + 1
    BY <1>1, <1>2, <1>3, <1>4 DEF Done
  <1> DEFINE x == Check.object
             there == There(Check.object)
  <1>6. x \in Object
    BY <1>2 DEF CheckRecord
  <1>7. there \in Uid \cup {None, "present"} /\ there # "unread"
    BY NamesAssumption
  <1>8. AbsenceTypes /\ Scheduled
    BY DEF AbsenceInv
  <1> HIDE DEF x, there
  <1>9. /\ witness' \in [Object -> Uid \cup {None, "present", "unread"}] /\ witness'[x] = there
        /\ \A y \in Object : y # x => witness'[y] = witness[y]
    BY <1>3, <1>6, <1>7, <1>8 DEF AbsenceTypes, x, there
  <1>10. AbsenceTypes'
    <2>1. outcome' \in BOOLEAN
      BY <1>3
    <2> QED
      BY <1>3, <1>8, <1>9, <2>1 DEF AbsenceTypes
  <1>11. \A i \in 1..Done :
           /\ Schedule'[i] = Schedule[i] /\ Schedule[i] \in CheckRecord
           /\ witness'[Schedule[i].object] = witness[Schedule[i].object]
    BY <1>2, <1>4, <1>9 DEF CheckRecord, x
  <1>12. \A i \in 1..(Done + 1) : i \in 1..Done \/ i = Done + 1
    BY <1>1
  <1>13. /\ Schedule'[Done + 1].object = x /\ witness'[Schedule'[Done + 1].object] = there
         /\ Schedule'[Done + 1] = Check
    BY <1>2, <1>4, <1>9 DEF x
  <1>14. \A i \in 1..Done' : Settled(i)'
    BY <1>5, <1>7, <1>8, <1>11, <1>12, <1>13 DEF Settled, Scheduled
  <1>15. \A i \in {Done + 1} : result <=> Met(Schedule[i])'
    <2> SUFFICES ASSUME NEW i \in {Done + 1}
                 PROVE  result <=> Met(Schedule[i])'
      OBVIOUS
    <2>1. Schedule'[i] = Check /\ witness'[Schedule'[i].object] = there
      BY <1>13
    <2>2. Met(Schedule[i])' <=> witness'[Schedule'[i].object]
                                  = IF Schedule'[i].present THEN Schedule'[i].uid ELSE None
      BY DEF Met
    <2>3. result <=> there = IF Check.present THEN Check.uid ELSE None
      BY DEF there
    <2> QED
      BY <2>1, <2>2, <2>3
  <1>16. \A i \in 1..Done : Met(Schedule[i]) <=> Met(Schedule[i])'
    BY <1>4, <1>11 DEF Met
  <1>17. outcome' <=> \A i \in 1..Done' : Met(Schedule[i])'
    <2>1. outcome <=> \A i \in 1..Done : Met(Schedule[i])
      BY <1>8 DEF Scheduled
    <2>2. Done + 1 \in 1..(Done + 1) /\ \A i \in 1..Done : i \in 1..(Done + 1)
      BY <1>1
    <2>3. (\A i \in 1..(Done + 1) : Met(Schedule[i])')
            <=> result /\ \A i \in 1..Done : Met(Schedule[i])
      BY <1>12, <1>15, <1>16, <2>2
    <2>4. outcome' <=> outcome /\ result
      BY <1>3
    <2> QED
      BY <1>5, <2>1, <2>3, <2>4
  <1>18. \A i \in 1..Len(todo') : todo'[i] = Schedule'[Done' + i]
    <2> SUFFICES ASSUME NEW i \in 1..Len(todo')
                 PROVE  todo'[i] = Schedule'[Done' + i]
      OBVIOUS
    <2>1. i \in 1..(Len(todo) - 1) /\ i + 1 \in 1..Len(todo) /\ Done' + i = Done + (i + 1)
      BY <1>1, <1>5
    <2>2. todo'[i] = todo[i + 1]
      BY <1>2, <1>3, <2>1
    <2> QED
      BY <1>4, <1>8, <2>1, <2>2 DEF Scheduled
  <1>19. Scheduled'
    <2>1. validate_manifest(manifest)'
      BY <1>3, <1>8 DEF Scheduled
    <2>2. todo' \in Seq(CheckRecord) /\ Len(todo') <= Total'
      BY <1>1, <1>2, <1>3, <1>4, <1>5, <1>8 DEF Scheduled
    <2> QED
      BY <1>14, <1>17, <1>18, <2>1, <2>2 DEF Scheduled
  <1> QED
    BY <1>3, <1>5, <1>10, <1>19 DEF AbsenceInv

-----------------------------------------------------------------------------
(* The beginning of the phase.                                             *)
LEMMA AbsenceInit ==
  ASSUME Init
  PROVE  AbsenceInv /\ ReadsInv
  <1>1. AbsenceInv
    <2>1. witness \in [Object -> Uid \cup {None, "present", "unread"}]
      BY DEF Init, Object
    <2> QED
      BY <2>1 DEF Init, AbsenceInv, AbsenceTypes
  <1>2. manifest \in Manifest /\ reads = 0 /\ attempt = 0 /\ pc = "validate"
    BY DEF Init
  <1>3. Total \in Nat /\ Named \in Nat
    <2>1. Total \in Nat
      BY <1>2, ScheduleParts DEF Total, Schedule
    <2>2. Named \in Nat
      BY <1>2, ChecksAre DEF Named
    <2> QED
      BY <2>1, <2>2
  <1> HIDE DEF Total, Named
  <1>4. ReadsInv
    BY <1>2, <1>3 DEF ReadsInv
  <1> QED
    BY <1>1, <1>4

(* The whole manifest is validated before anything is read.                *)
LEMMA AbsenceValidate ==
  ASSUME AbsenceInv, ReadsInv, validate
  PROVE  AbsenceInv' /\ ReadsInv'
  <1>1. /\ pc = "validate" /\ outcome /\ AbsenceTypes /\ reads = 0 /\ attempt = 0
        /\ manifest \in Manifest
    BY DEF AbsenceInv, ReadsInv, validate, AbsenceTypes
  <1>2. /\ manifest' = manifest /\ azure' = azure /\ xc' = xc /\ attempt' = attempt
        /\ outcome' = outcome /\ witness' = witness /\ reads' = reads
    BY DEF validate, world
  <1>3. Schedule' = Schedule /\ Total' = Total /\ Named' = Named
    BY <1>2 DEF Schedule, Total, Named
  <1>4. AbsenceTypes' /\ outcome'
    BY <1>1, <1>2 DEF AbsenceTypes
  <1>5. Schedule \in Seq(CheckRecord) /\ Total \in Nat /\ Named \in Nat
    <2>1. Schedule \in Seq(CheckRecord) /\ Total \in Nat
      BY <1>1, ScheduleParts DEF Schedule, Total
    <2>2. Named \in Nat
      BY <1>1, ChecksAre DEF Named
    <2> QED
      BY <2>1, <2>2
  <1>6. CASE validate_manifest(manifest)
    <2>1. pc' = "read" /\ todo' = Schedule
      BY <1>6 DEF validate, Schedule
    <2>2. Len(todo') = Total
      BY <2>1 DEF Total
    <2>3. Done' = 0
      BY <1>3, <1>5, <2>2 DEF Done
    <2> HIDE DEF Schedule, Total, Named, Done
    <2>4. Scheduled'
      <3>1. \A i \in 1..Done' : FALSE
        BY <2>3
      <3>2. validate_manifest(manifest)'
        BY <1>2, <1>6
      <3>3. \A i \in 1..Len(todo') : todo'[i] = Schedule'[Done' + i]
        BY <1>3, <1>5, <2>1, <2>2, <2>3
      <3>4. todo' \in Seq(CheckRecord) /\ Len(todo') <= Total'
        BY <1>3, <1>5, <2>1, <2>2
      <3> QED
        BY <1>4, <3>1, <3>2, <3>3, <3>4 DEF Scheduled
    <2>5. Spent(Done)' = 0
      BY <1>3, <1>5, <2>3 DEF Spent
    <2>6. ReadsInv'
      BY <1>1, <1>2, <1>3, <1>5, <1>6, <2>1, <2>5 DEF ReadsInv
    <2> QED
      BY <1>4, <2>1, <2>4, <2>6 DEF AbsenceInv
  <1>7. CASE ~validate_manifest(manifest)
    <2>1. pc' = "failure"
      BY <1>7 DEF validate
    <2> HIDE DEF Schedule, Total, Named
    <2>2. ReadsInv'
      BY <1>1, <1>2, <1>3, <1>5, <2>1 DEF ReadsInv
    <2> QED
      BY <1>4, <2>1, <2>2 DEF AbsenceInv
  <1> QED
    BY <1>6, <1>7

(* The numbers of a read: one more request, and where it may lead.         *)
LEMMA AbsenceRequests ==
  ASSUME AbsenceInv, ReadsInv, pc = "read", todo # <<>>, UNCHANGED manifest
  PROVE  /\ validate_manifest(manifest)'
         /\ Named' = Named /\ Total' = Total
         /\ reads + 1 \in Nat /\ reads <= Named + Total
         /\ reads + 1 <= Spent(Done + 1) /\ reads + 1 <= Named + Total
         /\ attempt = 0 => reads + 1 <= Spent(Done) + 1
         /\ Check.object \in Azure => Done < Named
         /\ Check.object \notin Azure => attempt = 0
         /\ Done \in Nat
  <1>1. /\ Total \in Nat /\ Named \in Nat /\ Named <= Total /\ Done \in 0..Total
        /\ Done + 1 \in 1..Total
    BY Numbers DEF Scheduled, AbsenceInv, AbsenceTypes
  <1>2. (Check.object \in Azure) <=> (Done + 1 <= Named)
    BY HeadCheck
  <1>3. Named' = Named /\ Total' = Total
    BY DEF Named, Total, Schedule
  <1>4. validate_manifest(manifest)'
    BY DEF AbsenceInv, Scheduled
  <1> HIDE DEF Named, Total, Done, Check
  <1>5. /\ reads \in Nat /\ attempt \in {0, 1} /\ reads <= Spent(Done) + attempt
        /\ attempt = 1 => Done < Named
        /\ reads <= Named + Total
    BY DEF ReadsInv
  <1>6. Spent(Done) = IF Done <= Named THEN 2 * Done ELSE Named + Done
    BY DEF Spent
  <1>7. Spent(Done + 1) = IF Done + 1 <= Named THEN 2 * (Done + 1) ELSE Named + (Done + 1)
    BY DEF Spent
  <1>8. Check.object \notin Azure => attempt = 0
    BY <1>1, <1>2, <1>5
  <1>9. reads + 1 <= Spent(Done + 1)
    BY <1>1, <1>5, <1>6, <1>7
  <1>10. Spent(Done + 1) <= Named + Total
    BY <1>1, <1>7
  <1> QED
    BY <1>1, <1>2, <1>3, <1>4, <1>5, <1>6, <1>7, <1>8, <1>9, <1>10

(* A request that settles its check.                                       *)
LEMMA AbsenceSettles ==
  ASSUME AbsenceInv, ReadsInv, pc = "read", todo # <<>>, NEW result \in BOOLEAN, Settle(result),
         There(Check.object) \in Uid \cup {None, "present"},
         result <=> There(Check.object) = IF Check.present THEN Check.uid ELSE None,
         reads' = reads + 1
  PROVE  AbsenceInv' /\ ReadsInv'
  <1>1. AbsenceInv' /\ Done' = Done + 1 /\ UNCHANGED <<manifest, pc>> /\ attempt' = 0
    BY SettledCheck
  <1>2. /\ validate_manifest(manifest)' /\ Named' = Named /\ Total' = Total
        /\ reads + 1 \in Nat /\ reads + 1 <= Spent(Done + 1) /\ reads + 1 <= Named + Total
    BY <1>1, AbsenceRequests
  <1>3. Spent(Done)' = Spent(Done + 1)
    BY <1>1, <1>2 DEF Spent
  <1> HIDE DEF Named, Total, Done
  <1>4. reads' <= Spent(Done)' + attempt'
    <2>1. Spent(Done)' = Spent(Done + 1) /\ Spent(Done + 1) \in Int
      <3>1. Done \in Nat /\ Named \in Nat
        BY Numbers DEF AbsenceInv, AbsenceTypes, Scheduled
      <3> QED
        BY <1>3, <3>1 DEF Spent
    <2> QED
      BY <1>1, <1>2, <2>1
  <1>5. ReadsInv'
    BY <1>1, <1>2, <1>4 DEF ReadsInv
  <1> QED
    BY <1>1, <1>5

(* A step after which the phase has failed.                                *)
LEMMA AbsenceFails ==
  ASSUME AbsenceInv, ReadsInv, pc = "read", todo # <<>>, Fails, reads' \in {reads, reads + 1}
  PROVE  AbsenceInv' /\ ReadsInv'
  <1>1. /\ pc' = "failure" /\ manifest' = manifest /\ azure' = azure /\ xc' = xc
        /\ attempt' = attempt /\ outcome' = outcome /\ witness' = witness
    BY DEF Fails, world
  <1>2. /\ validate_manifest(manifest)' /\ Named' = Named /\ Total' = Total
        /\ reads + 1 \in Nat /\ reads + 1 <= Named + Total /\ reads <= Named + Total
    BY <1>1, AbsenceRequests
  <1>3. AbsenceInv'
    BY <1>1 DEF AbsenceInv, AbsenceTypes
  <1> HIDE DEF Named, Total
  <1>4. ReadsInv'
    BY <1>1, <1>2 DEF ReadsInv
  <1> QED
    BY <1>3, <1>4

(* azure_exists: only an answer that names the identity settles its check. *)
LEMMA AbsenceAzure ==
  ASSUME AbsenceInv, ReadsInv, azure_exists
  PROVE  AbsenceInv' /\ ReadsInv'
  <1>1. pc = "read" /\ todo # <<>> /\ Check.object \in Azure
    BY DEF azure_exists, Reading
  <1>2. ~Check.present
    BY <1>1, HeadCheck
  <1>3. Check.present \in BOOLEAN
    BY <1>1, HeadCheck DEF CheckRecord
  <1>4. There(Check.object) = IF Check.object \in azure THEN "present" ELSE None
    BY <1>1 DEF There
  <1>5. "present" # None
    BY NamesAssumption
  <1>6. PICK answer \in Answers(Check.object) :
          \/ answer = "present" /\ Request /\ Settle(Check.present)
          \/ arm_absent(answer) /\ Request /\ Settle(~Check.present)
          \/ /\ answer = "transient" /\ reads' = reads + 1
             /\ \E after \in {left, left - 1} :
                  IF may_retry(after)
                  THEN attempt' = attempt + 1 /\ left' = after - 1
                       /\ UNCHANGED <<manifest, world, pc, todo, outcome, witness, changes>>
                  ELSE left' = after /\ Fails
          \/ /\ answer \notin {"present", "transient"} /\ ~arm_absent(answer)
             /\ Request /\ Fails
    BY DEF azure_exists
  <1>7. CASE answer = "present" /\ Request /\ Settle(Check.present)
    <2>1. Check.object \in azure
      BY <1>6, <1>7 DEF Answers
    <2>2. /\ There(Check.object) \in Uid \cup {None, "present"}
          /\ Check.present
               <=> There(Check.object) = IF Check.present THEN Check.uid ELSE None
      BY <1>2, <1>4, <1>5, <2>1
    <2>3. reads' = reads + 1
      BY <1>7 DEF Request
    <2> QED
      BY <1>1, <1>3, <1>7, <2>2, <2>3, AbsenceSettles
  <1>8. CASE arm_absent(answer) /\ Request /\ Settle(~Check.present)
    <2>1. Check.object \notin azure
      BY <1>6, <1>8 DEF Answers, arm_absent
    <2>2. /\ There(Check.object) \in Uid \cup {None, "present"}
          /\ (~Check.present)
               <=> There(Check.object) = IF Check.present THEN Check.uid ELSE None
      BY <1>2, <1>4, <2>1
    <2>3. reads' = reads + 1
      BY <1>8 DEF Request
    <2>4. (~Check.present) \in BOOLEAN
      OBVIOUS
    <2> QED
      BY <1>1, <1>8, <2>2, <2>3, <2>4, AbsenceSettles
  <1>9. ASSUME reads' = reads + 1, NEW after \in {left, left - 1}, may_retry(after),
               attempt' = attempt + 1,
               UNCHANGED <<manifest, world, pc, todo, outcome, witness, changes>>
        PROVE  AbsenceInv' /\ ReadsInv'
    <2>1. /\ manifest' = manifest /\ azure' = azure /\ xc' = xc /\ pc' = pc /\ todo' = todo
          /\ outcome' = outcome /\ witness' = witness /\ attempt = 0 /\ attempt' = 1
      BY <1>9 DEF world, may_retry
    <2>2. Schedule' = Schedule /\ Total' = Total /\ Named' = Named /\ Done' = Done
      BY <2>1 DEF Schedule, Total, Named, Done
    <2>3. AbsenceInv'
      BY <2>1, <2>2 DEF AbsenceInv, AbsenceTypes, Scheduled, Settled, Met
    <2>4. /\ validate_manifest(manifest)'
          /\ reads + 1 \in Nat /\ reads + 1 <= Named + Total
          /\ reads + 1 <= Spent(Done) + 1 /\ Done < Named
      BY <1>1, <2>1, AbsenceRequests
    <2>5. Spent(Done)' = Spent(Done)
      BY <2>2 DEF Spent
    <2> HIDE DEF Named, Total, Done, Schedule
    <2>6. ReadsInv'
      BY <1>1, <1>9, <2>1, <2>2, <2>4, <2>5 DEF ReadsInv
    <2> QED
      BY <2>3, <2>6
  <1>10. CASE /\ answer = "transient" /\ reads' = reads + 1
              /\ \E after \in {left, left - 1} :
                   IF may_retry(after)
                   THEN attempt' = attempt + 1 /\ left' = after - 1
                        /\ UNCHANGED <<manifest, world, pc, todo, outcome, witness, changes>>
                   ELSE left' = after /\ Fails
    <2>1. PICK after \in {left, left - 1} :
            IF may_retry(after)
            THEN attempt' = attempt + 1 /\ left' = after - 1
                 /\ UNCHANGED <<manifest, world, pc, todo, outcome, witness, changes>>
            ELSE left' = after /\ Fails
      BY <1>10
    <2>2. CASE may_retry(after)
      BY <1>9, <1>10, <2>1, <2>2
    <2>3. CASE ~may_retry(after)
      BY <1>1, <1>10, <2>1, <2>3, AbsenceFails
    <2> QED
      BY <2>2, <2>3
  <1>11. CASE /\ answer \notin {"present", "transient"} /\ ~arm_absent(answer)
              /\ Request /\ Fails
    BY <1>1, <1>11, AbsenceFails DEF Request
  <1> QED
    BY <1>6, <1>7, <1>8, <1>10, <1>11

(* _xc_outcome: the check is settled by the uid that is there.             *)
LEMMA AbsenceXc ==
  ASSUME AbsenceInv, ReadsInv, xc_outcome
  PROVE  AbsenceInv' /\ ReadsInv'
  <1>1. pc = "read" /\ todo # <<>> /\ Check.object \in XcPath /\ reads' = reads + 1
    BY DEF xc_outcome, Reading, Request
  <1>2. There(Check.object) = xc[Check.object] /\ xc[Check.object] \in Uid \cup {None}
    BY <1>1, NamesAssumption DEF There, XcPath, AbsenceInv, AbsenceTypes
  <1> DEFINE result == IF Check.present THEN xc[Check.object] = Check.uid
                       ELSE xc[Check.object] = None
  <1>3. Settle(result) \/ Fails
    BY DEF xc_outcome
  <1>4. result \in BOOLEAN
    OBVIOUS
  <1>5. result <=> There(Check.object) = IF Check.present THEN Check.uid ELSE None
    BY <1>2
  <1> HIDE DEF result
  <1>6. CASE Settle(result)
    BY <1>1, <1>2, <1>4, <1>5, <1>6, AbsenceSettles
  <1>7. CASE Fails
    BY <1>1, <1>7, AbsenceFails
  <1> QED
    BY <1>3, <1>6, <1>7

(* The time is over before a request.                                      *)
LEMMA AbsenceDeadline ==
  ASSUME AbsenceInv, ReadsInv, deadline
  PROVE  AbsenceInv' /\ ReadsInv'
  BY AbsenceFails DEF deadline

(* The verdict is the outcome of a whole schedule.                         *)
LEMMA AbsenceVerdict ==
  ASSUME AbsenceInv, ReadsInv, verdict
  PROVE  AbsenceInv' /\ ReadsInv'
  <1>1. /\ pc = "read" /\ todo = <<>> /\ manifest' = manifest /\ azure' = azure /\ xc' = xc
        /\ todo' = todo /\ attempt' = attempt /\ outcome' = outcome /\ witness' = witness
        /\ reads' = reads /\ pc' = IF outcome THEN "verified" ELSE "pending"
    BY DEF verdict, world
  <1>2. Schedule' = Schedule /\ Total' = Total /\ Named' = Named /\ Done' = Done
    BY <1>1 DEF Schedule, Total, Named, Done
  <1>3. AbsenceTypes' /\ Scheduled'
    BY <1>1, <1>2 DEF AbsenceInv, AbsenceTypes, Scheduled, Settled, Met
  <1>4. AbsenceInv'
    BY <1>1, <1>3 DEF AbsenceInv
  <1> HIDE DEF Named, Total
  <1>5. ReadsInv'
    BY <1>1, <1>2 DEF ReadsInv
  <1> QED
    BY <1>4, <1>5

(* Objects that come and go change nothing that was recorded.              *)
LEMMA AbsenceChanged ==
  ASSUME AbsenceInv, ReadsInv, Changed
  PROVE  AbsenceInv' /\ ReadsInv'
  <1>1. /\ manifest' = manifest /\ todo' = todo /\ attempt' = attempt /\ outcome' = outcome
        /\ witness' = witness /\ reads' = reads /\ pc' = pc
    BY DEF Changed
  <1>2. azure' \subseteq Azure /\ xc' \in [XcPath -> Uid \cup {None}]
    BY DEF Changed, AbsenceInv, AbsenceTypes
  <1>3. Schedule' = Schedule /\ Total' = Total /\ Named' = Named /\ Done' = Done
    BY <1>1 DEF Schedule, Total, Named, Done
  <1>4. Spent(Done)' = Spent(Done)
    BY <1>3 DEF Spent
  <1>5. AbsenceInv'
    BY <1>1, <1>2, <1>3 DEF AbsenceInv, AbsenceTypes, Scheduled, Settled, Met
  <1> HIDE DEF Named, Total, Done
  <1>6. ReadsInv'
    BY <1>1, <1>3, <1>4 DEF ReadsInv
  <1> QED
    BY <1>5, <1>6

(* Nothing of the phase changes.                                           *)
LEMMA AbsenceIdle ==
  ASSUME AbsenceInv, ReadsInv, UNCHANGED vars
  PROVE  AbsenceInv' /\ ReadsInv'
  <1>1. Schedule' = Schedule /\ Total' = Total /\ Named' = Named /\ Done' = Done
    BY DEF Schedule, Total, Named, Done, vars
  <1>2. Spent(Done)' = Spent(Done)
    BY <1>1 DEF Spent
  <1>3. AbsenceInv'
    BY <1>1 DEF AbsenceInv, AbsenceTypes, Scheduled, Settled, Met, vars
  <1> HIDE DEF Named, Total, Done
  <1>4. ReadsInv'
    BY <1>1, <1>2 DEF ReadsInv, vars
  <1> QED
    BY <1>3, <1>4

(* Where the absence phase is the tool, its steps are the only ones.       *)
ToolsInv == tool = "absence" => AbsenceInv /\ ReadsInv

(* Where absence is run, its steps are the only ones.                      *)
LEMMA ToolsInvariant == ToolsSpec => []ToolsInv
  <1>1. ToolsInit => ToolsInv
    BY AbsenceInit DEF ToolsInit, ToolsInv
  <1>2. ToolsInv /\ [ToolsNext]_allvars => ToolsInv'
    <2> SUFFICES ASSUME ToolsInv, [ToolsNext]_allvars, tool' = "absence"
                 PROVE  AbsenceInv' /\ ReadsInv'
      BY DEF ToolsInv
    <2>1. tool = "absence"
      BY DEF ToolsNext, allvars
    <2>2. AbsenceInv /\ ReadsInv
      BY <2>1 DEF ToolsInv
    <2>3. Next \/ UNCHANGED vars
      BY <2>1 DEF ToolsNext, allvars, absences
    <2> QED
      BY <2>2, <2>3, AbsenceValidate, AbsenceAzure, AbsenceXc, AbsenceDeadline, AbsenceVerdict,
         AbsenceChanged, AbsenceIdle DEF Next, absence
  <1> QED
    BY <1>1, <1>2, PTL DEF ToolsSpec

(* A verified absence was proved object by object, and a pending one rests *)
(* on an object that was seen: absence of demo_verify_scope.py, for every  *)
(* manifest however long, any number of reads, and whatever comes and goes *)
(* between them.                                                           *)
THEOREM AbsenceIsHonest == ToolsSpec => []AbsenceHonest
  <1>1. ToolsInv => AbsenceHonest
    <2> SUFFICES ASSUME AbsenceInv
                 PROVE  VerifiedProved /\ PendingProved
      BY DEF ToolsInv, AbsenceHonest
    <2>1. manifest \in Manifest
      BY DEF AbsenceInv, AbsenceTypes
    <2>2. ASSUME pc \in {"verified", "pending"}
          PROVE  /\ Scheduled /\ Done = Total /\ Total \in Nat
                 /\ \A i \in 1..Total : Settled(i)
                 /\ outcome <=> \A i \in 1..Total : Met(Schedule[i])
      <3>1. Scheduled /\ todo = <<>>
        BY <2>2 DEF AbsenceInv
      <3>2. Done = Total /\ Total \in Nat
        BY <2>1, <3>1, Numbers DEF Scheduled
      <3> QED
        BY <3>1, <3>2 DEF Scheduled
    <2>3. /\ \A i \in 1..Total : ~Schedule[i].present => Schedule[i].object \in Owned(manifest)
          /\ \A i \in 1..Total :
               Schedule[i].present =>
                 [path |-> Schedule[i].object, uid |-> Schedule[i].uid]
                   \in Elements(manifest.xc_preserved)
          /\ \A o \in Owned(manifest) :
               \E i \in 1..Total : Schedule[i].object = o /\ ~Schedule[i].present
          /\ \A e \in Elements(manifest.xc_preserved) :
               \E i \in 1..Total :
                 Schedule[i].object = e.path /\ Schedule[i].uid = e.uid /\ Schedule[i].present
      BY <2>1, ScheduleParts DEF Schedule, Total
    <2>4. VerifiedProved
      <3> SUFFICES ASSUME pc = "verified"
                   PROVE  /\ \A o \in Owned(manifest) : witness[o] = None
                          /\ \A e \in Elements(manifest.xc_preserved) : witness[e.path] = e.uid
                          /\ Namespace \in Preserved(manifest)
        BY DEF VerifiedProved
      <3>1. \A i \in 1..Total : Met(Schedule[i])
        BY <2>2 DEF AbsenceInv
      <3>2. \A o \in Owned(manifest) : witness[o] = None
        BY <2>3, <3>1 DEF Met
      <3>3. \A e \in Elements(manifest.xc_preserved) : witness[e.path] = e.uid
        BY <2>3, <3>1 DEF Met
      <3>4. Namespace \in Preserved(manifest)
        BY <2>1, <2>2, ValidSchedule DEF Scheduled
      <3> QED
        BY <3>2, <3>3, <3>4
    <2>5. PendingProved
      <3> SUFFICES ASSUME pc = "pending"
                   PROVE  \/ \E o \in Owned(manifest) : witness[o] \notin {None, "unread"}
                          \/ \E e \in Elements(manifest.xc_preserved) :
                               witness[e.path] \notin {e.uid, "unread"}
        BY DEF PendingProved
      <3>1. PICK i \in 1..Total : ~Met(Schedule[i])
        BY <2>2 DEF AbsenceInv
      <3>2. Settled(i)
        BY <2>2
      <3>3. CASE Schedule[i].present
        <4> DEFINE e == [path |-> Schedule[i].object, uid |-> Schedule[i].uid]
        <4>1. e \in Elements(manifest.xc_preserved)
          BY <2>3, <3>3
        <4>2. witness[e.path] \notin {e.uid, "unread"}
          BY <3>1, <3>2, <3>3 DEF Met, Settled
        <4> QED
          BY <4>1, <4>2
      <3>4. CASE ~Schedule[i].present
        <4>1. Schedule[i].object \in Owned(manifest)
          BY <2>3, <3>4
        <4>2. witness[Schedule[i].object] \notin {None, "unread"}
          BY <3>1, <3>2, <3>4 DEF Met, Settled
        <4> QED
          BY <4>1, <4>2
      <3> QED
        BY <3>3, <3>4
    <2> QED
      BY <2>4, <2>5
  <1> QED
    BY <1>1, ToolsInvariant, PTL

(* Nothing is read for a manifest whose scopes overlap, and the phase asks *)
(* for an Azure identity at most twice and for any other object once       *)
(* (validate_manifest, azure_exists and _xc_outcome): the first part of    *)
(* BudgetsKept, for every manifest.                                        *)
THEOREM AbsenceReadsAreBounded == ToolsSpec => [](tool = "absence" => ReadsBounded)
  <1>1. ToolsInv => (tool = "absence" => ReadsBounded)
    <2> SUFFICES ASSUME AbsenceInv, ReadsInv
                 PROVE  ReadsBounded
      BY DEF ToolsInv
    <2>1. manifest \in Manifest
      BY DEF AbsenceInv, AbsenceTypes
    <2>2. reads > 0 => Owned(manifest) \cap Preserved(manifest) = {}
      BY <2>1, ValidSchedule DEF ReadsInv
    <2>3. Total = Named + Len(manifest.xc_owned) + Len(manifest.xc_preserved)
      BY <2>1, ScheduleParts DEF Total, Schedule, Named
    <2>4. {Named, Len(manifest.xc_owned), Len(manifest.xc_preserved)} \subseteq Nat
      BY <2>1, ChecksAre DEF Named
    <2>5. reads \in Nat /\ reads <= Named + Total
      BY DEF ReadsInv
    <2>6. reads <= 2 * Named + Len(manifest.xc_owned) + Len(manifest.xc_preserved)
      <3> HIDE DEF Total, Named
      <3> QED
        BY <2>3, <2>4, <2>5
    <2> QED
      BY <2>2, <2>6 DEF ReadsBounded, Named
  <1> QED
    BY <1>1, ToolsInvariant, PTL

-----------------------------------------------------------------------------
(* The readiness phase.                                                    *)
Checked == Readiness!Items \cup Readiness!Guests

(* The library's least number of two.                                      *)
LEMMA LeastOfTwo ==
  ASSUME NEW a \in Int, NEW b \in Int
  PROVE  /\ Readiness!Min({a, b}) \in Int
         /\ Readiness!Min({a, b}) \in {a, b}
         /\ Readiness!Min({a, b}) <= a /\ Readiness!Min({a, b}) <= b
  <1>1. \E x \in {a, b} : \A y \in {a, b} : x =< y
    OBVIOUS
  <1>2. Readiness!Min({a, b}) \in {a, b} /\ \A y \in {a, b} : Readiness!Min({a, b}) =< y
    BY <1>1 DEF Readiness!Min
  <1> QED
    BY <1>2

(* Every application is in the list that is made of the set.               *)
LEMMA ApplicationsListed ==
  /\ Readiness!DomainList \in Seq(Applications)
  /\ \A d \in Applications : \E i \in 1..Len(Readiness!DomainList) : Readiness!DomainList[i] = d
  <1> DEFINE n == Cardinality(Applications)
             list == Readiness!DomainList
  <1>1. n \in Nat /\ IsFiniteSet(Applications)
    BY ReadinessAssumption, FS_CardinalityType
  <1>2. \E f \in [1..n -> Applications] : Readiness!IsInjective(f)
    <2>1. PICK f : f \in Bijection(1..n, Applications)
      BY <1>1, FS_CardinalityType DEF ExistsBijection
    <2> QED
      BY <2>1 DEF Bijection, Injection, Surjection, IsInjective, Readiness!IsInjective
  <1>0. Readiness!Cardinality(Applications) = n
    BY DEF Cardinality, Readiness!Cardinality
  <1>3. list \in [1..n -> Applications] /\ Readiness!IsInjective(list)
    BY <1>0, <1>2 DEF Readiness!DomainList, Readiness!SetToSeq
  <1> HIDE DEF list
  <1>4. list \in Seq(Applications) /\ Len(list) = n
    BY <1>1, <1>3, SeqDef, LenProperties
  <1>5. list \in Surjection(1..n, Applications)
    <2>1. list \in Injection(1..n, Applications)
      BY <1>3 DEF Injection, IsInjective, Readiness!IsInjective
    <2>2. IsFiniteSet(1..n) /\ Cardinality(1..n) = n
      BY <1>1, FS_Interval
    <2> QED
      BY <1>1, <2>1, <2>2, FS_Injection
  <1> QED
    BY <1>4, <1>5 DEF Surjection, list

(* What is in one of two sequences is in their concatenation.              *)
Joined(u, s, t) ==
  /\ u \in Seq(Checked) /\ Len(u) = Len(s) + Len(t)
  /\ \A i \in 1..Len(s) : \E j \in 1..Len(u) : u[j] = s[i]
  /\ \A i \in 1..Len(t) : \E j \in 1..Len(u) : u[j] = t[i]

(* SequenceTheorems says so of the entries.                                *)
LEMMA ConcatHas == \A s, t \in Seq(Checked) : Joined(s \o t, s, t)
  <1> SUFFICES ASSUME NEW s \in Seq(Checked), NEW t \in Seq(Checked), NEW u, u = s \o t
               PROVE  Joined(u, s, t)
    OBVIOUS
  <1>1. /\ Len(s) \in Nat /\ Len(t) \in Nat /\ u \in Seq(Checked) /\ Len(u) = Len(s) + Len(t)
        /\ \A i \in 1..(Len(s) + Len(t)) : u[i] = IF i <= Len(s) THEN s[i] ELSE t[i - Len(s)]
    BY ConcatProperties, LenProperties
  <1>2. ASSUME NEW i \in 1..Len(s)
        PROVE  \E j \in 1..Len(u) : u[j] = s[i]
    <2>1. i \in 1..Len(u) /\ i \in 1..(Len(s) + Len(t)) /\ i <= Len(s)
      BY <1>1
    <2> QED
      BY <1>1, <2>1
  <1>3. ASSUME NEW i \in 1..Len(t)
        PROVE  \E j \in 1..Len(u) : u[j] = t[i]
    <2>1. /\ Len(s) + i \in 1..Len(u) /\ Len(s) + i \in 1..(Len(s) + Len(t))
          /\ ~(Len(s) + i <= Len(s)) /\ (Len(s) + i) - Len(s) = i
      BY <1>1
    <2> QED
      BY <1>1, <2>1
  <1> QED
    BY <1>1, <1>2, <1>3 DEF Joined

(* The checks: everything that there is to check is one of them.           *)
LEMMA ReadinessChecks ==
  /\ Readiness!Checks \in Seq(Checked) /\ Len(Readiness!Checks) \in Nat \ {0}
  /\ DOMAIN Readiness!Checks = 1..Len(Readiness!Checks)
  /\ \A i \in 1..Len(Readiness!Checks) : Readiness!Checks[i] \in Checked
  /\ \A x \in Checked : \E i \in 1..Len(Readiness!Checks) : Readiness!Checks[i] = x
  <1> DEFINE p == <<"http_loadbalancer", "app_firewall", "user_identification",
                    "malicious_user_mitigation", "origin", "generator", "origin-services">>
             d == Readiness!DomainList
             c == <<"catalog">>
  <1>1. /\ Readiness!Controls = {"http_loadbalancer", "app_firewall", "user_identification",
                                 "malicious_user_mitigation"}
        /\ Readiness!Guests = {"origin", "generator"}
        /\ Checked = Readiness!Controls \cup Readiness!Guests \cup Applications
                        \cup {"origin-services", "catalog"}
    BY DEF Checked, Readiness!Items, Readiness!Controls, Readiness!Guests
  <1>2. p \in Seq(Checked) /\ Len(p) = 7 /\ c \in Seq(Checked) /\ Len(c) = 1
    BY <1>1
  <1>3. d \in Seq(Checked) /\ \A x \in Applications : \E i \in 1..Len(d) : d[i] = x
    <2>1. Applications \subseteq Checked
      BY <1>1
    <2> HIDE DEF d
    <2>2. d \in Seq(Applications) /\ \A x \in Applications : \E i \in 1..Len(d) : d[i] = x
      BY ApplicationsListed DEF d
    <2> QED
      BY <2>1, <2>2, SeqMonotonic
  <1>4. /\ \A x \in Readiness!Controls \cup Readiness!Guests \cup {"origin-services"} :
             \E i \in 1..Len(p) : p[i] = x
        /\ \E i \in 1..Len(c) : c[i] = "catalog"
    <2>1. /\ p[1] = "http_loadbalancer" /\ p[2] = "app_firewall" /\ p[3] = "user_identification"
          /\ p[4] = "malicious_user_mitigation" /\ p[5] = "origin" /\ p[6] = "generator"
          /\ p[7] = "origin-services" /\ c[1] = "catalog"
      OBVIOUS
    <2> HIDE DEF p, c
    <2> QED
      BY <1>1, <1>2, <2>1
  <1>5. Readiness!Checks = p \o d \o c
    BY DEF Readiness!Checks
  <1> HIDE DEF p, d, c
  <1>6. PICK q : q = p \o d
    OBVIOUS
  <1>7. /\ q \in Seq(Checked)
        /\ \A x \in Checked \ {"catalog"} : \E i \in 1..Len(q) : q[i] = x
    <2>1. Joined(q, p, d)
      BY <1>2, <1>3, <1>6, ConcatHas, Zenon
    <2>2. ASSUME NEW x \in Checked \ {"catalog"}
          PROVE  \E i \in 1..Len(q) : q[i] = x
      <3>1. (\E i \in 1..Len(p) : p[i] = x) \/ (\E i \in 1..Len(d) : d[i] = x)
        BY <1>1, <1>3, <1>4, <2>2
      <3> QED
        BY <2>1, <3>1 DEF Joined
    <2> QED
      BY <2>1, <2>2 DEF Joined
  <1>8. PICK z : z = q \o c
    OBVIOUS
  <1>9. /\ z \in Seq(Checked) /\ Len(z) = Len(q) + 1 /\ Len(q) \in Nat
        /\ \A x \in Checked : \E i \in 1..Len(z) : z[i] = x
    <2>1. Joined(z, q, c)
      BY <1>2, <1>7, <1>8, ConcatHas, Zenon
    <2>2. Len(q) \in Nat
      BY <1>7, LenProperties
    <2>3. ASSUME NEW x \in Checked
          PROVE  \E i \in 1..Len(z) : z[i] = x
      <3>1. (\E i \in 1..Len(q) : q[i] = x) \/ (\E i \in 1..Len(c) : c[i] = x)
        BY <1>4, <1>7, <2>3
      <3> QED
        BY <2>1, <3>1 DEF Joined
    <2> QED
      BY <1>2, <2>1, <2>2, <2>3 DEF Joined
  <1>10. Readiness!Checks = z
    BY <1>5, <1>6, <1>8
  <1>11. Len(z) \in Nat \ {0} /\ DOMAIN z = 1..Len(z) /\ \A i \in 1..Len(z) : z[i] \in Checked
    BY <1>9, LenProperties, ElementOfSeq
  <1> QED
    BY <1>9, <1>10, <1>11

(* A guest whose cloud-init has ended as it should.                        *)
Booted(g) ==
  /\ boot[g] = 4 /\ broken[g] = 0
  /\ \/ \A s \in 1..4 : warned[g][s] = "none"
     \/ \A s \in 1..4 : warned[g][s] = "azure"

(* What a check that was passed has shown.                                 *)
Okay(x) ==
  /\ x \in Readiness!Items => x \in seen
  /\ x \in Readiness!Guests => Booted(x) /\ unit[x] = "success"

ClockKept == rclock \in Nat /\ rclock <= ReadyTimeout + ReadTime

GuestTypes ==
  /\ boot \in [Readiness!Guests -> 0..4] /\ broken \in [Readiness!Guests -> 0..4]
  /\ warned \in [Readiness!Guests -> [1..4 -> {"none", "azure", "other"}]]
  /\ unit \in [Readiness!Guests -> {"success", "failed"}]

ItemTypes ==
  /\ up \subseteq seen /\ seen \subseteq Readiness!Items /\ flips \in 0..MaxFlips

CheckTypes ==
  /\ rcheck \in (1..Len(Readiness!Checks)) \X {"look", "unit", "sleep"}
  /\ rverdict \in {"none", "verified", "deadline", "unavailable", "cloud-init", "final-unit"}
                      \cup Readiness!Items

ReadinessInv ==
  /\ GuestTypes /\ ItemTypes /\ CheckTypes /\ ClockKept
  /\ \A i \in 1..Len(Readiness!Checks) : i < rcheck[1] => Okay(Readiness!Checks[i])
  /\ rcheck[2] = "unit" => Readiness!Current \in Readiness!Guests /\ Booted(Readiness!Current)
  /\ rverdict = "verified" => \A x \in Checked : Okay(x)
  /\ rverdict \in {"cloud-init", "final-unit"} => ~Readiness!Sound(Readiness!Current)

(* cloud-init has four stages.                                             *)
LEMMA StagesAre == Readiness!Stages = 1..4 /\ Len(Readiness!CloudStages) = 4
  BY DEF Readiness!Stages, Readiness!CloudStages

(* Nothing has been checked yet.                                           *)
LEMMA ReadinessInit ==
  ASSUME Readiness!Init
  PROVE  ReadinessInv
  <1>1. PICK of \in [Readiness!Guests -> Readiness!Boots] :
          /\ warned = [g \in Readiness!Guests |-> of[g].warned]
          /\ broken = [g \in Readiness!Guests |-> of[g].broken]
          /\ unit = [g \in Readiness!Guests |-> of[g].unit]
    BY DEF Readiness!Init
  <1>2. \A b \in Readiness!Boots :
          /\ b.warned \in [1..4 -> {"none", "azure", "other"}] /\ b.broken \in 0..4
          /\ b.unit \in {"success", "failed"}
    BY StagesAre, ReadinessAssumption DEF Readiness!Boots
  <1>3. GuestTypes
    <2>1. boot \in [Readiness!Guests -> 0..4]
      BY DEF Readiness!Init
    <2> QED
      BY <1>1, <1>2, <2>1 DEF GuestTypes
  <1>4. ItemTypes
    BY ReadinessAssumption DEF Readiness!Init, ItemTypes
  <1>5. CheckTypes /\ rcheck[1] = 1 /\ rcheck[2] = "look" /\ rverdict = "none"
    BY ReadinessChecks DEF Readiness!Init, CheckTypes
  <1>6. ClockKept
    BY ReadinessAssumption DEF Readiness!Init, ClockKept
  <1>7. \A i \in 1..Len(Readiness!Checks) : ~(i < 1)
    BY ReadinessChecks
  <1> QED
    BY <1>3, <1>4, <1>5, <1>6, <1>7 DEF ReadinessInv

(* A read that was begun in time ends within the longest time of a read.   *)
LEMMA ReadTakes ==
  ASSUME ClockKept, Readiness!Remaining > 0, NEW killed \in BOOLEAN, NEW d \in 0..ReadTime,
         Readiness!Takes(killed, d)
  PROVE  ClockKept'
  <1>1. /\ rclock \in Nat /\ rclock < ReadyTimeout /\ ReadyTimeout \in Nat /\ ReadTime \in Nat
        /\ d \in Nat /\ d <= ReadTime /\ rclock + d \in Int /\ ReadyTimeout \in Int
    BY ReadinessAssumption DEF ClockKept, Readiness!Remaining
  <1>2. CASE killed
    <2>1. /\ rclock' = Readiness!Min({rclock + d, ReadyTimeout})
          /\ Readiness!Min({rclock + d, ReadyTimeout}) \in {rclock + d, ReadyTimeout}
      BY <1>1, <1>2, LeastOfTwo DEF Readiness!Takes
    <2> QED
      BY <1>1, <2>1 DEF ClockKept
  <1>3. CASE ~killed
    BY <1>1, <1>3 DEF Readiness!Takes, ClockKept
  <1> QED
    BY <1>2, <1>3

(* The verifier is at one of the checks.                                   *)
LEMMA CurrentIsChecked ==
  ASSUME CheckTypes
  PROVE  /\ rcheck[1] \in 1..Len(Readiness!Checks) /\ rcheck = <<rcheck[1], rcheck[2]>>
         /\ rcheck[2] \in {"look", "unit", "sleep"}
         /\ Readiness!Current \in Checked
  <1>1. /\ rcheck[1] \in 1..Len(Readiness!Checks) /\ rcheck = <<rcheck[1], rcheck[2]>>
        /\ rcheck[2] \in {"look", "unit", "sleep"}
    BY DEF CheckTypes
  <1> QED
    BY <1>1, ReadinessChecks DEF Readiness!Current

(* What was shown stays shown while the guests and what was seen stay.     *)
LEMMA OkayStays ==
  ASSUME UNCHANGED <<Readiness!guests, seen>>
  PROVE  /\ \A x : Booted(x)' = Booted(x) /\ Okay(x)' = Okay(x)
         /\ \A x : Readiness!Sound(x)' = Readiness!Sound(x)
         /\ GuestTypes => GuestTypes'
  BY DEF Readiness!guests, Booted, Okay, Readiness!Sound, GuestTypes

(* The verifier fails: the check at hand is the one it fails at.           *)
LEMMA ReadinessEnds ==
  ASSUME ReadinessInv, rverdict = "none", ClockKept',
         UNCHANGED <<Readiness!guests, up, flips, seen>>,
         NEW v \in {"deadline", "unavailable", "cloud-init", "final-unit"} \cup Readiness!Items,
         v \in {"cloud-init", "final-unit"} => ~Readiness!Sound(Readiness!Current),
         Readiness!Ends(v)
  PROVE  ReadinessInv'
  <1>1. rcheck' = rcheck /\ rverdict' = v /\ v # "verified"
    <2>1. "verified" \notin Readiness!Items
      BY ReadinessAssumption DEF Readiness!Items, Readiness!Controls
    <2> QED
      BY <2>1 DEF Readiness!Ends
  <1>2. Readiness!Current' = Readiness!Current
    BY <1>1 DEF Readiness!Current
  <1>3. CheckTypes' /\ ItemTypes' /\ GuestTypes'
    BY <1>1, OkayStays DEF ReadinessInv, CheckTypes, ItemTypes
  <1> QED
    BY <1>1, <1>2, <1>3, OkayStays DEF ReadinessInv

(* The verifier passes a check: what the check shows holds, and after the  *)
(* last one so does what every check shows.                                *)
LEMMA ReadinessPasses ==
  ASSUME ReadinessInv, rverdict = "none", ClockKept',
         UNCHANGED <<Readiness!guests, up, flips, seen>>,
         Okay(Readiness!Current), Readiness!Passed
  PROVE  ReadinessInv'
  <1> DEFINE n == Len(Readiness!Checks)
  <1>1. /\ n \in Nat /\ rcheck[1] \in 1..n
        /\ \A i \in 1..n : i < rcheck[1] => Okay(Readiness!Checks[i])
        /\ Okay(Readiness!Checks[rcheck[1]])
    BY CurrentIsChecked, ReadinessChecks DEF ReadinessInv, Readiness!Current
  <1>2. ItemTypes' /\ GuestTypes'
    BY OkayStays DEF ReadinessInv, ItemTypes
  <1>3. CASE rcheck[1] = n
    <2>1. rcheck' = rcheck /\ rverdict' = "verified"
      BY <1>3 DEF Readiness!Passed, Readiness!Ends
    <2>2. \A i \in 1..n : Okay(Readiness!Checks[i])
      BY <1>1, <1>3
    <2>3. \A x \in Checked : Okay(x)
      BY <2>2, ReadinessChecks
    <2>4. Readiness!Current' = Readiness!Current
      BY <2>1 DEF Readiness!Current
    <2>5. CheckTypes'
      BY <2>1 DEF ReadinessInv, CheckTypes
    <2> QED
      BY <1>2, <2>1, <2>3, <2>4, <2>5, OkayStays DEF ReadinessInv
  <1>4. CASE rcheck[1] # n
    <2>1. rcheck' = <<rcheck[1] + 1, "look">> /\ rverdict' = "none"
      BY <1>4 DEF Readiness!Passed
    <2>2. rcheck[1] + 1 \in 1..n /\ \A i \in 1..n : i < rcheck[1] + 1 => Okay(Readiness!Checks[i])
      BY <1>1, <1>4
    <2>3. CheckTypes' /\ rcheck'[1] = rcheck[1] + 1 /\ rcheck'[2] = "look"
      BY <2>1, <2>2 DEF CheckTypes
    <2> QED
      BY <1>2, <2>1, <2>2, <2>3, OkayStays DEF ReadinessInv
  <1> QED
    BY <1>3, <1>4

(* A read of an item that is up passes, of one that is not fails.          *)
LEMMA ItemLooked ==
  ASSUME ReadinessInv, rverdict = "none", ClockKept',
         UNCHANGED <<Readiness!guests, up, flips, seen>>,
         Readiness!Current \in Readiness!Items, Readiness!Current \notin Readiness!Guests,
         Readiness!ItemIsUp
  PROVE  ReadinessInv'
  <1>1. CASE Readiness!Current \in up
    <2>1. Okay(Readiness!Current) /\ Readiness!Passed
      BY <1>1 DEF Okay, ReadinessInv, ItemTypes, Readiness!ItemIsUp
    <2> QED
      BY <2>1, ReadinessPasses
  <1>2. CASE Readiness!Current \notin up
    <2>1. Readiness!Ends(Readiness!Current)
      BY <1>2 DEF Readiness!ItemIsUp
    <2>2. Readiness!Current \notin {"cloud-init", "final-unit"}
      BY ReadinessAssumption DEF Readiness!Items, Readiness!Controls
    <2> QED
      BY <2>1, <2>2, ReadinessEnds
  <1> QED
    BY <1>1, <1>2

(* What is looked at is an item or a guest, never both.                    *)
LEMMA ControlsAreItems ==
  /\ Readiness!Controls \subseteq Readiness!Items /\ Applications \subseteq Readiness!Items
  /\ {"origin-services", "catalog"} \subseteq Readiness!Items
  /\ Readiness!Items \cap Readiness!Guests = {}
  BY ReadinessAssumption DEF Readiness!Items, Readiness!Controls, Readiness!Guests

(* An item is asked for, with or without the deadline as the timeout.      *)
LEMMA ReadinessItem ==
  ASSUME ReadinessInv, NEW killed \in BOOLEAN,
         Readiness!Current \in Readiness!Items,
         Readiness!Read(killed, Readiness!ItemIsUp)
  PROVE  ReadinessInv'
  <1>1. /\ rverdict = "none" /\ UNCHANGED <<Readiness!guests, up, flips, seen>>
        /\ Readiness!Current \notin Readiness!Guests
    BY ControlsAreItems DEF Readiness!Read
  <1>2. CASE Readiness!Remaining <= 0
    <2>1. Readiness!Ends("deadline") /\ ClockKept'
      BY <1>2 DEF Readiness!Read, ReadinessInv, ClockKept
    <2> QED
      BY <1>1, <2>1, ReadinessEnds
  <1>3. CASE ~(Readiness!Remaining <= 0)
    <2>1. /\ ClockKept'
          /\ \/ Readiness!Ends("deadline") \/ Readiness!Ends("unavailable") \/ Readiness!ItemIsUp
      <3>1. PICK d \in 0..ReadTime :
              /\ Readiness!Takes(killed, d)
              /\ \/ Readiness!Ends("deadline") \/ Readiness!Ends("unavailable") \/ Readiness!ItemIsUp
        BY <1>3 DEF Readiness!Read
      <3>2. Readiness!Remaining > 0 /\ ClockKept
        BY <1>3, ReadinessAssumption DEF ReadinessInv, ClockKept, Readiness!Remaining
      <3> QED
        BY <3>1, <3>2, ReadTakes
    <2> QED
      BY <1>1, <2>1, ItemLooked, ReadinessEnds
  <1> QED
    BY <1>2, <1>3

(* The controls, the applications, the services and the catalog are asked  *)
(* for in this way.                                                        *)
LEMMA ReadinessItems ==
  ASSUME ReadinessInv,
         \/ Readiness!ReadControl \/ Readiness!ReadApplication
         \/ Readiness!ReadOriginServices \/ Readiness!ReadCatalog
  PROVE  ReadinessInv'
  <1>1. /\ Readiness!Current \in Readiness!Items
        /\ \/ Readiness!Read(TRUE, Readiness!ItemIsUp)
           \/ Readiness!Read(FALSE, Readiness!ItemIsUp)
    BY ControlsAreItems
    DEF Readiness!ReadControl, Readiness!ReadApplication, Readiness!ReadOriginServices,
        Readiness!ReadCatalog
  <1> QED
    BY <1>1, ReadinessItem

(* cloud-init that is done has settled; one that is rejected did not boot  *)
(* as it should.                                                           *)
LEMMA CloudInitStates ==
  ASSUME GuestTypes, NEW g \in Readiness!Guests
  PROVE  /\ Readiness!cloud_init_state(g) = "done" => Booted(g)
         /\ Readiness!cloud_init_state(g) = "rejected" => ~Readiness!Sound(g)
  <1>1. /\ boot[g] \in 0..4 /\ broken[g] \in 0..4 /\ Readiness!Stages = 1..4
        /\ Len(Readiness!CloudStages) = 4 /\ Readiness!Reported(g) = 1..boot[g]
        /\ \A s \in 1..4 : warned[g][s] \in {"none", "azure", "other"}
    BY StagesAre DEF GuestTypes, Readiness!Reported
  <1>2. CASE Readiness!Errors(g)
    <2>1. broken[g] # 0
      BY <1>1, <1>2 DEF Readiness!Errors
    <2> QED
      BY <1>2, <2>1 DEF Readiness!cloud_init_state, Readiness!Sound
  <1>3. CASE ~Readiness!Errors(g) /\ boot[g] # 4
    <2>1. Readiness!Status(g) \in {"running", "not run"}
      BY <1>1, <1>3 DEF Readiness!Status
    <2> QED
      BY <1>3, <2>1 DEF Readiness!cloud_init_state
  <1>4. CASE ~Readiness!Errors(g) /\ boot[g] = 4
    <2>1. broken[g] = 0 /\ Readiness!Status(g) = "done" /\ Readiness!Reported(g) = 1..4
      BY <1>1, <1>4 DEF Readiness!Status, Readiness!Errors
    <2>2. Readiness!WarningsOf(g) = {} <=> \A s \in 1..4 : warned[g][s] = "none"
      BY <2>1 DEF Readiness!WarningsOf
    <2>3. Readiness!RecoveredAzure(g) <=> \A s \in 1..4 : warned[g][s] = "azure"
      BY <1>1, <2>1 DEF Readiness!RecoveredAzure
    <2>4. Readiness!cloud_init_state(g) =
            IF Readiness!WarningsOf(g) = {} \/ Readiness!RecoveredAzure(g) THEN "done" ELSE "rejected"
      BY <1>4, <2>1 DEF Readiness!cloud_init_state
    <2> QED
      BY <1>1, <1>4, <2>1, <2>2, <2>3, <2>4 DEF Booted, Readiness!Sound
  <1> QED
    BY <1>2, <1>3, <1>4

(* cloud-init is read: it is rejected, waited for, or has settled.         *)
LEMMA ReadinessCloudInit ==
  ASSUME ReadinessInv, Readiness!ReadCloudInit
  PROVE  ReadinessInv'
  <1> DEFINE state == Readiness!cloud_init_state(Readiness!Current)
             answer == IF state = "rejected" THEN Readiness!Ends("cloud-init")
                       ELSE /\ rcheck' = <<rcheck[1], IF state = "done" THEN "unit" ELSE "sleep">>
                            /\ UNCHANGED rverdict
  <1>1. /\ rverdict = "none" /\ UNCHANGED <<Readiness!guests, up, flips, seen>>
        /\ Readiness!Current \in Readiness!Guests
    BY DEF Readiness!ReadCloudInit, Readiness!Read
  <1>2. CASE Readiness!Remaining <= 0
    <2>1. Readiness!Ends("deadline") /\ ClockKept'
      BY <1>2 DEF Readiness!ReadCloudInit, Readiness!Read, ReadinessInv, ClockKept
    <2> QED
      BY <1>1, <2>1, ReadinessEnds
  <1>3. CASE ~(Readiness!Remaining <= 0)
    <2>1. ClockKept' /\ (Readiness!Ends("deadline") \/ Readiness!Ends("unavailable") \/ answer)
      <3>1. PICK d \in 0..ReadTime :
              /\ Readiness!Takes(TRUE, d)
              /\ Readiness!Ends("deadline") \/ Readiness!Ends("unavailable") \/ answer
        BY <1>3 DEF Readiness!ReadCloudInit, Readiness!Read
      <3>2. Readiness!Remaining > 0 /\ ClockKept
        BY <1>3, ReadinessAssumption DEF ReadinessInv, ClockKept, Readiness!Remaining
      <3> QED
        BY <3>1, <3>2, ReadTakes
    <2>2. CASE answer /\ state = "rejected"
      <3>1. Readiness!Ends("cloud-init") /\ ~Readiness!Sound(Readiness!Current)
        BY <1>1, <2>2, CloudInitStates DEF ReadinessInv
      <3> QED
        BY <1>1, <2>1, <3>1, ReadinessEnds
    <2>3. CASE answer /\ state # "rejected"
      <3>1. /\ rverdict' = "none" /\ rcheck'[1] = rcheck[1]
            /\ rcheck' \in (1..Len(Readiness!Checks)) \X {"look", "unit", "sleep"}
            /\ rcheck'[2] = "unit" => state = "done"
        BY <1>1, <2>3, CurrentIsChecked DEF ReadinessInv
      <3>2. Readiness!Current' = Readiness!Current
        BY <3>1 DEF Readiness!Current
      <3>3. state = "done" => Booted(Readiness!Current)
        BY <1>1, CloudInitStates DEF ReadinessInv
      <3>4. CheckTypes' /\ ItemTypes' /\ GuestTypes'
        BY <1>1, <3>1, OkayStays DEF ReadinessInv, CheckTypes, ItemTypes
      <3> HIDE DEF state
      <3> QED
        BY <1>1, <2>1, <3>1, <3>2, <3>3, <3>4, OkayStays DEF ReadinessInv
    <2> QED
      BY <1>1, <2>1, <2>2, <2>3, ReadinessEnds
  <1> QED
    BY <1>2, <1>3

(* The final unit is read of a guest that has settled, and stays settled.  *)
LEMMA ReadinessUnit ==
  ASSUME ReadinessInv, Readiness!ReadUnit
  PROVE  ReadinessInv'
  <1> DEFINE good == unit[Readiness!Current] = "success"
             answer == IF good THEN Readiness!Passed ELSE Readiness!Ends("final-unit")
  <1>1. /\ rverdict = "none" /\ UNCHANGED <<Readiness!guests, up, flips, seen>>
        /\ Readiness!Current \in Readiness!Guests /\ Readiness!Current \notin Readiness!Items
        /\ Booted(Readiness!Current)
    BY ControlsAreItems DEF Readiness!ReadUnit, Readiness!Read, ReadinessInv
  <1>2. CASE Readiness!Remaining <= 0
    <2>1. Readiness!Ends("deadline") /\ ClockKept'
      BY <1>2 DEF Readiness!ReadUnit, Readiness!Read, ReadinessInv, ClockKept
    <2> QED
      BY <1>1, <2>1, ReadinessEnds
  <1>3. CASE ~(Readiness!Remaining <= 0)
    <2>1. ClockKept' /\ (Readiness!Ends("deadline") \/ Readiness!Ends("unavailable") \/ answer)
      <3>1. PICK d \in 0..ReadTime :
              /\ Readiness!Takes(TRUE, d)
              /\ Readiness!Ends("deadline") \/ Readiness!Ends("unavailable") \/ answer
        BY <1>3 DEF Readiness!ReadUnit, Readiness!Read
      <3>2. Readiness!Remaining > 0 /\ ClockKept
        BY <1>3, ReadinessAssumption DEF ReadinessInv, ClockKept, Readiness!Remaining
      <3> QED
        BY <3>1, <3>2, ReadTakes
    <2>2. CASE answer /\ good
      <3>1. Readiness!Passed /\ Okay(Readiness!Current)
        BY <1>1, <2>2 DEF Okay
      <3> QED
        BY <1>1, <2>1, <3>1, ReadinessPasses
    <2>3. CASE answer /\ ~good
      <3>1. Readiness!Ends("final-unit") /\ ~Readiness!Sound(Readiness!Current)
        BY <2>3 DEF Readiness!Sound
      <3> QED
        BY <1>1, <2>1, <3>1, ReadinessEnds
    <2> QED
      BY <1>1, <2>1, <2>2, <2>3, ReadinessEnds
  <1> QED
    BY <1>2, <1>3

(* The verifier sleeps no longer than the time that remains.               *)
LEMMA ReadinessSleeps ==
  ASSUME ReadinessInv, Readiness!Sleep
  PROVE  ReadinessInv'
  <1>1. /\ rverdict = "none" /\ UNCHANGED <<Readiness!guests, up, flips, seen>>
        /\ ClockKept /\ ReadyTimeout \in Nat /\ ReadyPoll \in Nat /\ ReadTime \in Nat
    BY ReadinessAssumption DEF Readiness!Sleep, ReadinessInv
  <1>2. CASE Readiness!Remaining <= 0
    <2>1. Readiness!Ends("deadline") /\ ClockKept'
      BY <1>1, <1>2 DEF Readiness!Sleep, ClockKept
    <2> QED
      BY <1>1, <2>1, ReadinessEnds
  <1>3. CASE ~(Readiness!Remaining <= 0)
    <2>1. /\ rclock' = rclock + Readiness!SleepTime
          /\ rcheck' = <<rcheck[1], "look">> /\ rverdict' = "none"
      BY <1>1, <1>3 DEF Readiness!Sleep
    <2>2. ClockKept'
      <3>1. /\ Readiness!Remaining \in Int /\ Readiness!Remaining = ReadyTimeout - rclock
            /\ Readiness!Remaining > 0
        BY <1>1, <1>3 DEF ClockKept, Readiness!Remaining
      <3>2. /\ Readiness!SleepTime \in {ReadyPoll, Readiness!Remaining}
            /\ Readiness!SleepTime <= Readiness!Remaining
        BY <1>1, <3>1, LeastOfTwo DEF Readiness!SleepTime
      <3> QED
        BY <1>1, <2>1, <3>1, <3>2 DEF ClockKept
    <2>3. /\ rcheck'[1] = rcheck[1] /\ rcheck'[2] = "look"
          /\ rcheck' \in (1..Len(Readiness!Checks)) \X {"look", "unit", "sleep"}
      BY <2>1, CurrentIsChecked DEF ReadinessInv
    <2>4. CheckTypes' /\ ItemTypes' /\ GuestTypes'
      BY <1>1, <2>1, <2>3, OkayStays DEF ReadinessInv, CheckTypes, ItemTypes
    <2> QED
      BY <1>1, <2>1, <2>2, <2>3, <2>4, OkayStays DEF ReadinessInv
  <1> QED
    BY <1>2, <1>3

(* A guest that goes on booting has not been passed.                       *)
LEMMA ReadinessBoots ==
  ASSUME ReadinessInv, NEW g \in Readiness!Guests, Readiness!BootStage(g)
  PROVE  ReadinessInv'
  <1>1. /\ boot[g] < 4 /\ boot' = [boot EXCEPT ![g] = @ + 1]
        /\ boot \in [Readiness!Guests -> 0..4]
        /\ UNCHANGED <<warned, broken, unit, up, flips, seen, rcheck, rclock, rverdict>>
    BY StagesAre DEF Readiness!BootStage, ReadinessInv, GuestTypes
  <1>2. boot' \in [Readiness!Guests -> 0..4] /\ \A h \in Readiness!Guests : boot[h] = 4 => boot'[h] = 4
    BY <1>1
  <1>3. \A h \in Readiness!Guests : Booted(h) => Booted(h)'
    BY <1>1, <1>2 DEF Booted
  <1>4. /\ \A x : Okay(x) => Okay(x)'
        /\ \A x : Readiness!Sound(x)' = Readiness!Sound(x)
    BY <1>1, <1>3 DEF Okay, Readiness!Sound
  <1>5. Readiness!Current' = Readiness!Current
    BY <1>1 DEF Readiness!Current
  <1>6. GuestTypes' /\ ItemTypes' /\ CheckTypes' /\ ClockKept'
    BY <1>1, <1>2 DEF ReadinessInv, GuestTypes, ItemTypes, CheckTypes, ClockKept
  <1> QED
    BY <1>1, <1>3, <1>4, <1>5, <1>6 DEF ReadinessInv

(* What comes up or goes down was seen if it had been seen.                *)
LEMMA ReadinessFlips ==
  ASSUME ReadinessInv, NEW item \in Readiness!Items, Readiness!Flip(item)
  PROVE  ReadinessInv'
  <1>1. /\ UNCHANGED <<Readiness!guests, rcheck, rclock, rverdict>>
        /\ flips < MaxFlips /\ flips' = flips + 1 /\ seen' = seen \cup up'
        /\ up' \subseteq up \cup {item}
    BY DEF Readiness!Flip, Readiness!SymDiff
  <1>2. GuestTypes' /\ ItemTypes' /\ CheckTypes' /\ ClockKept'
    <2>1. ItemTypes'
      BY <1>1, ReadinessAssumption DEF ReadinessInv, ItemTypes
    <2> QED
      BY <1>1, <2>1 DEF ReadinessInv, GuestTypes, CheckTypes, ClockKept, Readiness!guests
  <1>3. /\ \A x : Okay(x) => Okay(x)'
        /\ \A x : Booted(x)' = Booted(x) /\ Readiness!Sound(x)' = Readiness!Sound(x)
    BY <1>1 DEF Okay, Booted, Readiness!Sound, Readiness!guests
  <1>4. Readiness!Current' = Readiness!Current
    BY <1>1 DEF Readiness!Current
  <1>5. /\ rcheck' = rcheck /\ rverdict' = rverdict
        /\ \A i \in 1..Len(Readiness!Checks) : i < rcheck[1] => Okay(Readiness!Checks[i])'
    BY <1>1, <1>3 DEF ReadinessInv
  <1>6. /\ rcheck[2] = "unit" => Readiness!Current \in Readiness!Guests /\ Booted(Readiness!Current)
        /\ rverdict = "verified" => \A x \in Checked : Okay(x)
        /\ rverdict \in {"cloud-init", "final-unit"} => ~Readiness!Sound(Readiness!Current)
    BY DEF ReadinessInv
  <1>7. (rcheck[2] = "unit" => Readiness!Current \in Readiness!Guests /\ Booted(Readiness!Current))'
    BY <1>3, <1>4, <1>5, <1>6
  <1>8. (rverdict = "verified" => \A x \in Checked : Okay(x))'
    BY <1>3, <1>5, <1>6
  <1>9. (rverdict \in {"cloud-init", "final-unit"} => ~Readiness!Sound(Readiness!Current))'
    BY <1>3, <1>4, <1>5, <1>6
  <1> QED
    BY <1>2, <1>5, <1>7, <1>8, <1>9 DEF ReadinessInv

(* Every step of readiness keeps its invariant.                            *)
LEMMA ReadinessStep ==
  ASSUME ReadinessInv, Readiness!Next
  PROVE  ReadinessInv'
  BY ReadinessItems, ReadinessCloudInit, ReadinessUnit, ReadinessSleeps,
     ReadinessBoots, ReadinessFlips
  DEF Readiness!Next, Readiness!Verify

(* What the invariant says of the verifier.                                *)
LEMMA ReadinessProven ==
  ASSUME ReadinessInv
  PROVE  /\ Readiness!TypeOK /\ Readiness!VerifiedObserved /\ Readiness!BootNeverRejected
         /\ Readiness!ReadinessBounded
  <1>1. Readiness!TypeOK
    BY StagesAre, ReadinessChecks
    DEF ReadinessInv, GuestTypes, ItemTypes, CheckTypes, ClockKept, Readiness!TypeOK
  <1>2. Readiness!VerifiedObserved
    <2>1. SUFFICES ASSUME rverdict = "verified"
                   PROVE  /\ \A g \in Readiness!Guests : boot[g] = 4 /\ Readiness!Sound(g)
                          /\ Readiness!Items \subseteq seen
      BY StagesAre DEF Readiness!VerifiedObserved
    <2>2. \A x \in Checked : Okay(x)
      BY <2>1 DEF ReadinessInv
    <2> QED
      BY <2>2, StagesAre DEF Checked, Okay, Booted, Readiness!Sound
  <1> QED
    BY <1>1, <1>2 DEF ReadinessInv, ClockKept, Readiness!BootNeverRejected, Readiness!ReadinessBounded

(* Nothing of readiness changes.                                           *)
LEMMA ReadinessIdle ==
  ASSUME ReadinessInv, UNCHANGED readinesses
  PROVE  ReadinessInv'
  <1>1. UNCHANGED <<Readiness!guests, up, flips, seen, rcheck, rclock, rverdict>>
    BY DEF readinesses, Readiness!guests
  <1>2. GuestTypes' /\ ItemTypes' /\ CheckTypes' /\ ClockKept'
    BY <1>1, OkayStays DEF ReadinessInv, ItemTypes, CheckTypes, ClockKept
  <1>3. Readiness!Current' = Readiness!Current
    BY <1>1 DEF Readiness!Current
  <1> QED
    BY <1>1, <1>2, <1>3, OkayStays DEF ReadinessInv

(* Where readiness is run, its steps are the only ones.                    *)
LEMMA ReadinessInvariant == ToolsSpec => [](tool = "readiness" => ReadinessInv)
  <1>1. ToolsInit => (tool = "readiness" => ReadinessInv)
    BY ReadinessInit DEF ToolsInit
  <1>2. (tool = "readiness" => ReadinessInv) /\ [ToolsNext]_allvars
          => (tool = "readiness" => ReadinessInv)'
    <2>1. [ToolsNext]_allvars =>
            tool' = tool /\ (tool = "readiness" => Readiness!Next \/ UNCHANGED readinesses)
      BY DEF ToolsNext, allvars
    <2> QED
      BY <2>1, ReadinessStep, ReadinessIdle
  <1> QED
    BY <1>1, <1>2, PTL DEF ToolsSpec

(* A verified readiness rests on what was seen in this run, and a sound    *)
(* boot is not rejected halfway (_readiness and cloud_init_state of        *)
(* demo_verify.py): for any applications and polling, and whatever goes up *)
(* and down between the checks.                                            *)
THEOREM ReadinessIsHonest == ToolsSpec => []ReadinessHonest
  <1>1. (tool = "readiness" => ReadinessInv) => ReadinessHonest
    BY ReadinessProven DEF ReadinessHonest
  <1> QED
    BY <1>1, ReadinessInvariant, PTL

-----------------------------------------------------------------------------
(* The acceptance phase, for any domains D and ordinary controls S.        *)
GateNames == {"mud_detection", "mud_mitigation", "controls_attributed", "scheduled_traffic"}

AcceptanceTypes(D) ==
  /\ now \in Nat
  /\ detected \in [Elements(D) -> Nat \cup {None}]
  /\ mitigation \in [Elements(D) -> [sent_at : Nat \cup {None}, blocked : BOOLEAN]]
  /\ read.readable \subseteq events
  /\ DOMAIN gates = GateNames
  /\ \A h \in Elements(D) : detected[h] # None => detected[h] <= now
  /\ apc = "mitigate" => /\ atodo \in Seq(Elements(D)) /\ atodo # <<>>
                         /\ \A h \in Elements(D) : detected[h] # None

(* A user is probed for its mitigation only after its detection.           *)
ProbedLater(D) ==
  \A h \in Elements(D) :
    mitigation[h].sent_at # None =>
      detected[h] # None /\ detected[h] <= mitigation[h].sent_at

Stopped(h, user, by) == \E e \in events : e.host = h /\ e.user = user /\ e.by = by

(* What a gate stands for, in events that there are.                       *)
GatesEarned(D, S) ==
  /\ gates.mud_detection =>
       \A h \in Elements(D) : detected[h] # None /\ Stopped(h, "mud", "waf")
  /\ gates.mud_mitigation =>
       \A h \in Elements(D) :
         /\ mitigation[h].sent_at # None
         /\ \E e \in events : /\ e.host = h /\ e.user = "mud" /\ e.by = "mud"
                              /\ e.time >= mitigation[h].sent_at
  /\ gates.controls_attributed =>
       \A h \in Elements(D), k \in (S \cup {"rate-limit"}) \ {"mud"} : Stopped(h, k, k)

AcceptanceInv(D, S) ==
  /\ AcceptanceTypes(D)
  /\ ProbedLater(D)
  /\ GatesEarned(D, S)
  /\ apc = "verified" => \A g \in GateNames : gates[g]

(* No gate is open yet.                                                    *)
LEMMA AcceptanceInit ==
  ASSUME NEW D, NEW S, NEW M, Acceptance(D, S, M)!Init
  PROVE  AcceptanceInv(D, S)
  <1>1. /\ now = 0 /\ apc = "probe" /\ events = {}
        /\ detected = [h \in Elements(D) |-> None]
        /\ mitigation = [h \in Elements(D) |-> [sent_at |-> None, blocked |-> FALSE]]
        /\ read = [readable |-> {}, end |-> 0]
        /\ gates = [mud_detection |-> FALSE, mud_mitigation |-> FALSE,
                    controls_attributed |-> FALSE, scheduled_traffic |-> FALSE]
    BY DEF Acceptance!Init, Acceptance!Domain, Acceptance!Nothing, Acceptance!NoGates, Elements
  <1>2. AcceptanceTypes(D)
    BY <1>1 DEF AcceptanceTypes, GateNames
  <1>3. ProbedLater(D)
    BY <1>1 DEF ProbedLater
  <1> QED
    BY <1>1, <1>2, <1>3 DEF GatesEarned, AcceptanceInv

(* Events, detections and first probes stay, so what earned a gate stays.  *)
Kept(D) ==
  /\ events \subseteq events' /\ gates' = gates
  /\ \A h \in Elements(D) :
       /\ detected[h] # None => detected'[h] = detected[h]
       /\ mitigation[h].sent_at # None => mitigation'[h].sent_at = mitigation[h].sent_at

(* A gate that was earned stays earned: events and detections are never    *)
(* taken back.                                                             *)
LEMMA GatesKept ==
  ASSUME NEW D, NEW S, GatesEarned(D, S), Kept(D)
  PROVE  GatesEarned(D, S)'
  <1>1. \A h, u, b : Stopped(h, u, b) => Stopped(h, u, b)'
    BY DEF Stopped, Kept
  <1>2. \A h \in Elements(D) :
          /\ detected[h] # None => detected'[h] # None
          /\ mitigation[h].sent_at # None => mitigation'[h].sent_at = mitigation[h].sent_at
    BY DEF Kept
  <1>3. events \subseteq events' /\ gates' = gates
    BY DEF Kept
  <1> QED
    BY <1>1, <1>2, <1>3 DEF GatesEarned

(* The steps that leave detections, probes, gates and what was read.       *)
LEMMA AcceptanceRests ==
  ASSUME NEW D, NEW S, AcceptanceInv(D, S),
         UNCHANGED <<detected, mitigation, gates>>,
         read' = read \/ read'.readable \subseteq events',
         events \subseteq events', now' \in Nat, now <= now',
         apc' = "mitigate" => apc = "mitigate" /\ UNCHANGED atodo,
         apc' = "verified" => apc = "verified"
  PROVE  AcceptanceInv(D, S)'
  <1>1. GatesEarned(D, S)'
    BY GatesKept DEF AcceptanceInv, Kept
  <1>2. AcceptanceTypes(D)'
    <2>1. \A h \in Elements(D) : detected'[h] # None => detected'[h] <= now'
      BY DEF AcceptanceInv, AcceptanceTypes
    <2> QED
      BY <2>1 DEF AcceptanceInv, AcceptanceTypes
  <1>3. ProbedLater(D)'
    BY DEF AcceptanceInv, ProbedLater
  <1> QED
    BY <1>1, <1>2, <1>3 DEF AcceptanceInv

(* The requests, the reads and the tenant.                                 *)
LEMMA AcceptanceWaits ==
  ASSUME NEW D, NEW S, NEW M, AcceptanceInv(D, S),
         \/ Acceptance(D, S, M)!send \/ Acceptance(D, S, M)!next_domain
         \/ Acceptance(D, S, M)!status \/ Acceptance(D, S, M)!ordinary
         \/ Acceptance(D, S, M)!evidence_error \/ Acceptance(D, S, M)!Stranger
         \/ Acceptance(D, S, M)!TrafficTurns
  PROVE  AcceptanceInv(D, S)'
  <1>0. now \in Nat
    BY DEF AcceptanceInv, AcceptanceTypes
  <1>1. CASE Acceptance(D, S, M)!send
    <2>1. /\ apc = "probe" /\ UNCHANGED <<apc, mitigation, detected, read, gates>>
          /\ now' \in {now, now + 1}
          /\ events \subseteq events'
      BY <1>1 DEF Acceptance!send, Acceptance!tenant
    <2> QED
      BY <1>0, <2>1, AcceptanceRests
  <1>2. CASE Acceptance(D, S, M)!next_domain
    <2>1. /\ apc' \in {"probe", "status"} /\ UNCHANGED <<events, mitigation, detected, read, gates>>
          /\ now' \in {now, now + 1}
      BY <1>2 DEF Acceptance!next_domain, Acceptance!tenant, Acceptance!known
    <2> QED
      BY <1>0, <2>1, AcceptanceRests
  <1>3. CASE Acceptance(D, S, M)!status
    <2>1. /\ apc' \in {"failure", "events"}
          /\ UNCHANGED <<now, events, mitigation, detected, read, gates>>
      BY <1>3 DEF Acceptance!status, Acceptance!tenant, Acceptance!known
    <2> QED
      BY <1>0, <2>1, AcceptanceRests
  <1>4. CASE Acceptance(D, S, M)!ordinary
    <2>1. /\ apc' = "mud" /\ read'.readable \subseteq events
          /\ UNCHANGED <<now, events, mitigation, detected, gates>>
      BY <1>4 DEF Acceptance!ordinary, Acceptance!tenant, Acceptance!known
    <2> QED
      BY <1>0, <2>1, AcceptanceRests
  <1>5. CASE Acceptance(D, S, M)!evidence_error
    <2>1. /\ apc' = "failure" /\ UNCHANGED <<now, events, mitigation, detected, read, gates>>
      BY <1>5 DEF Acceptance!evidence_error, Acceptance!tenant, Acceptance!known
    <2> QED
      BY <1>0, <2>1, AcceptanceRests
  <1>6. CASE Acceptance(D, S, M)!Stranger
    <2>1. /\ apc' = apc /\ events \subseteq events' /\ UNCHANGED atodo
          /\ UNCHANGED <<now, mitigation, detected, read, gates>>
      BY <1>6 DEF Acceptance!Stranger, Acceptance!known
    <2> QED
      BY <1>0, <2>1, AcceptanceRests
  <1>7. CASE Acceptance(D, S, M)!TrafficTurns
    <2>1. /\ apc' = apc /\ UNCHANGED <<atodo, now, events, mitigation, detected, read, gates>>
      BY <1>7 DEF Acceptance!TrafficTurns, Acceptance!known, Acceptance!tenant
    <2> QED
      BY <1>0, <2>1, AcceptanceRests
  <1> QED
    BY <1>1, <1>2, <1>3, <1>4, <1>5, <1>6, <1>7

(* What is attributed is an event that there is.                           *)
LEMMA TelemetryThere ==
  ASSUME NEW D, NEW S, NEW M, AcceptanceTypes(D), NEW h, NEW user, NEW by, NEW start,
         Acceptance(D, S, M)!Telemetry(<<h, user>>, by, start)
  PROVE  \E e \in events : e.host = h /\ e.user = user /\ e.by = by /\ e.time >= start
  BY DEF AcceptanceTypes, Acceptance!Telemetry, Acceptance!read_events, Acceptance!attributed

(* _mud_evidence opens a gate only over events that it has read.           *)
LEMMA AcceptanceMud ==
  ASSUME NEW D, NEW S, NEW M, AcceptanceInv(D, S), D # <<>>, D \in Seq(Elements(D)),
         Acceptance(D, S, M)!mud_evidence
  PROVE  AcceptanceInv(D, S)'
  <1> DEFINE ready == Acceptance(D, S, M)!detection_ready
             stopped == Acceptance(D, S, M)!mitigated
             others == Acceptance(D, S, M)!controls
  <1>1. ready => \A h \in Elements(D) : detected[h] # None /\ Stopped(h, "mud", "waf")
    BY DEF AcceptanceInv, AcceptanceTypes, Acceptance!detection_ready,
           Acceptance!detection_attributed, Acceptance!read_events, Acceptance!attributed,
           Acceptance!Domain, Elements, Stopped
  <1>2. stopped =>
          \A h \in Elements(D) :
            /\ mitigation[h].sent_at # None
            /\ \E e \in events : /\ e.host = h /\ e.user = "mud" /\ e.by = "mud"
                                 /\ e.time >= mitigation[h].sent_at
    <2> SUFFICES ASSUME stopped, NEW h \in Elements(D)
                 PROVE  /\ mitigation[h].sent_at # None
                        /\ \E e \in events : /\ e.host = h /\ e.user = "mud" /\ e.by = "mud"
                                             /\ e.time >= mitigation[h].sent_at
      OBVIOUS
    <2>1. /\ mitigation[h].sent_at # None
          /\ Acceptance(D, S, M)!Telemetry(<<h, "mud">>, "mud", mitigation[h].sent_at)
      BY DEF Acceptance!mitigated, Acceptance!Domain, Elements
    <2> QED
      BY <2>1, TelemetryThere DEF AcceptanceInv
  <1>3. others => \A h \in Elements(D), k \in (S \cup {"rate-limit"}) \ {"mud"} : Stopped(h, k, k)
    <2> SUFFICES ASSUME others, NEW h \in Elements(D), NEW k \in (S \cup {"rate-limit"}) \ {"mud"}
                 PROVE  Stopped(h, k, k)
      OBVIOUS
    <2>1. <<h, k>> \in Acceptance(D, S, M)!Domain \X (Acceptance(D, S, M)!Control \ {"mud"})
      BY DEF Acceptance!Domain, Acceptance!Control, Elements
    <2>2. Acceptance(D, S, M)!Telemetry(<<h, k>>, k, probe[<<h, k>>])
      BY <2>1 DEF Acceptance!controls
    <2> QED
      BY <2>2, TelemetryThere DEF AcceptanceInv, Stopped
  <1>4. /\ gates' = [gates EXCEPT !.mud_detection = ready, !.mud_mitigation = stopped,
                                  !.controls_attributed = others /\ stopped]
        /\ apc' = IF ready /\ ~stopped THEN "mitigate" ELSE "ready"
        /\ atodo' = IF ready /\ ~stopped THEN D ELSE <<>>
        /\ UNCHANGED <<now, mitigation, events, detected, read>>
    BY DEF Acceptance!mud_evidence, Acceptance!known, Acceptance!tenant
  <1> HIDE DEF ready, stopped, others
  <1>5. /\ DOMAIN gates' = GateNames
        /\ gates'.mud_detection => ready
        /\ gates'.mud_mitigation => stopped
        /\ gates'.controls_attributed => others
    BY <1>4 DEF AcceptanceInv, AcceptanceTypes, GateNames
  <1>6. GatesEarned(D, S)'
    <2>1. \A h, u, b : Stopped(h, u, b)' <=> Stopped(h, u, b)
      BY <1>4 DEF Stopped
    <2>2. UNCHANGED <<mitigation, events, detected>>
      BY <1>4
    <2> QED
      BY <1>1, <1>2, <1>3, <1>5, <2>1, <2>2 DEF GatesEarned
  <1>7. AcceptanceTypes(D)'
    BY <1>1, <1>4, <1>5 DEF AcceptanceInv, AcceptanceTypes
  <1>8. ProbedLater(D)'
    BY <1>4 DEF AcceptanceInv, ProbedLater
  <1> QED
    BY <1>4, <1>6, <1>7, <1>8 DEF AcceptanceInv

(* mitigation_probe probes a user that was detected.                       *)
LEMMA AcceptanceProbes ==
  ASSUME NEW D, NEW S, NEW M, AcceptanceInv(D, S), Acceptance(D, S, M)!mitigation_probe
  PROVE  AcceptanceInv(D, S)'
  <1> DEFINE h0 == Head(atodo)
  <1>1. /\ apc = "mitigate" /\ atodo \in Seq(Elements(D)) /\ atodo # <<>>
        /\ now \in Nat
        /\ \A h \in Elements(D) : detected[h] # None /\ detected[h] <= now
        /\ detected \in [Elements(D) -> Nat \cup {None}]
        /\ mitigation \in [Elements(D) -> [sent_at : Nat \cup {None}, blocked : BOOLEAN]]
    BY DEF AcceptanceInv, AcceptanceTypes, Acceptance!mitigation_probe
  <1>2. h0 \in Elements(D) /\ Tail(atodo) \in Seq(Elements(D))
    BY <1>1, HeadTailProperties
  <1>3. PICK by \in {None, "mud", "other"} :
          /\ mitigation' = [mitigation EXCEPT
               ![h0].sent_at = IF @ = None THEN now ELSE @, ![h0].blocked = (by # None)]
          /\ events \subseteq events'
    BY DEF Acceptance!mitigation_probe, Acceptance!Probed
  <1>4. /\ atodo' = Tail(atodo) /\ apc' = IF atodo' = <<>> THEN "ready" ELSE apc
        /\ UNCHANGED <<now, detected, read, gates>>
    BY DEF Acceptance!mitigation_probe, Acceptance!tenant
  <1> HIDE DEF h0
  <1>5. /\ mitigation' \in [Elements(D) -> [sent_at : Nat \cup {None}, blocked : BOOLEAN]]
        /\ \A h \in Elements(D) \ {h0} : mitigation'[h] = mitigation[h]
        /\ mitigation'[h0].sent_at =
             IF mitigation[h0].sent_at = None THEN now ELSE mitigation[h0].sent_at
    <2> DEFINE new == [sent_at |-> IF mitigation[h0].sent_at = None THEN now
                                   ELSE mitigation[h0].sent_at,
                       blocked |-> (by # None)]
             once == [mitigation[h0] EXCEPT !.sent_at = new.sent_at]
    <2>1. mitigation[h0] \in [sent_at : Nat \cup {None}, blocked : BOOLEAN]
      BY <1>1, <1>2
    <2>2. /\ new \in [sent_at : Nat \cup {None}, blocked : BOOLEAN]
          /\ new.sent_at = IF mitigation[h0].sent_at = None THEN now ELSE mitigation[h0].sent_at
          /\ new.blocked = (by # None)
      BY <1>1, <2>1
    <2> HIDE DEF new
    <2>3. mitigation' = [[mitigation EXCEPT ![h0] = once] EXCEPT ![h0].blocked = new.blocked]
      BY <1>1, <1>2, <1>3, <2>2
    <2>4. /\ once \in [sent_at : Nat \cup {None}, blocked : BOOLEAN]
          /\ once.sent_at = new.sent_at
      BY <2>1, <2>2
    <2> HIDE DEF once
    <2>5. [mitigation EXCEPT ![h0] = once]
            \in [Elements(D) -> [sent_at : Nat \cup {None}, blocked : BOOLEAN]]
      BY <1>1, <1>2, <2>4
    <2>6. [mitigation EXCEPT ![h0] = once][h0] = once
      BY <1>1, <1>2
    <2>7. mitigation' = [mitigation EXCEPT ![h0] = [once EXCEPT !.blocked = new.blocked]]
      BY <1>1, <1>2, <2>3, <2>6
    <2>8. /\ [once EXCEPT !.blocked = new.blocked] \in [sent_at : Nat \cup {None}, blocked : BOOLEAN]
          /\ [once EXCEPT !.blocked = new.blocked].sent_at = new.sent_at
      BY <2>2, <2>4
    <2> QED
      BY <1>1, <1>2, <2>2, <2>7, <2>8
  <1>6. Kept(D)
    BY <1>2, <1>3, <1>4, <1>5 DEF Kept
  <1>7. ProbedLater(D)'
    BY <1>1, <1>2, <1>4, <1>5 DEF AcceptanceInv, ProbedLater
  <1>8. AcceptanceTypes(D)'
    BY <1>1, <1>2, <1>3, <1>4, <1>5 DEF AcceptanceInv, AcceptanceTypes
  <1> QED
    BY <1>1, <1>4, <1>6, <1>7, <1>8, GatesKept DEF AcceptanceInv

(* The verdict is verified when every gate is open.                        *)
LEMMA AcceptanceVerdict ==
  ASSUME NEW D, NEW S, NEW M, AcceptanceInv(D, S), Acceptance(D, S, M)!verdict
  PROVE  AcceptanceInv(D, S)'
  <1> DEFINE found == [gates EXCEPT !.scheduled_traffic = (traffic = "ready")]
  <1>1. /\ apc = "ready" /\ UNCHANGED <<mitigation, events, detected>>
        /\ \/ (\A g \in DOMAIN found : found[g]) /\ apc' = "verified" /\ now' = now
           \/ apc' = "pending" /\ now' = now
           \/ apc' = "status" /\ now' = now + AcceptPoll
        /\ gates' = IF apc' = "status" THEN Acceptance(D, S, M)!NoGates ELSE found
        /\ read' = IF apc' = "status" THEN Acceptance(D, S, M)!Nothing ELSE read
    BY DEF Acceptance!verdict, Acceptance!known, Acceptance!tenant
  <1>2. /\ DOMAIN found = GateNames
        /\ found.mud_detection = gates.mud_detection
        /\ found.mud_mitigation = gates.mud_mitigation
        /\ found.controls_attributed = gates.controls_attributed
    BY DEF AcceptanceInv, AcceptanceTypes, GateNames
  <1> HIDE DEF found
  <1>3. now \in Nat /\ now' \in Nat /\ now <= now'
    BY <1>1, AcceptanceAssumption DEF AcceptanceInv, AcceptanceTypes
  <1>4. GatesEarned(D, S)'
    <2>1. CASE apc' = "status"
      BY <1>1, <2>1 DEF GatesEarned, Acceptance!NoGates
    <2>2. CASE apc' # "status"
      BY <1>1, <1>2, <2>2 DEF AcceptanceInv, GatesEarned, Stopped
    <2> QED
      BY <2>1, <2>2
  <1>5. AcceptanceTypes(D)'
    <2>1. DOMAIN gates' = GateNames /\ read'.readable \subseteq events'
      BY <1>1, <1>2 DEF AcceptanceInv, AcceptanceTypes, GateNames, Acceptance!NoGates,
         Acceptance!Nothing
    <2>2. \A h \in Elements(D) : detected'[h] # None => detected'[h] <= now'
      BY <1>1, <1>3 DEF AcceptanceInv, AcceptanceTypes
    <2> QED
      BY <1>1, <1>3, <2>1, <2>2 DEF AcceptanceInv, AcceptanceTypes
  <1>6. ProbedLater(D)'
    BY <1>1 DEF AcceptanceInv, ProbedLater
  <1>7. apc' = "verified" => \A g \in GateNames : gates'[g]
    BY <1>1, <1>2
  <1> QED
    BY <1>4, <1>5, <1>6, <1>7 DEF AcceptanceInv

(* A detection is stamped with its time.                                   *)
LEMMA AcceptanceDetected ==
  ASSUME NEW D, NEW S, NEW M, AcceptanceInv(D, S), Acceptance(D, S, M)!Detected
  PROVE  AcceptanceInv(D, S)'
  <1>1. PICK h0 \in Elements(D) :
          detected[h0] = None /\ detected' = [detected EXCEPT ![h0] = now]
    BY DEF Acceptance!Detected, Acceptance!Domain, Elements
  <1>2. apc = "mud" /\ UNCHANGED <<apc, now, mitigation, events, read, gates>>
    BY DEF Acceptance!Detected, Acceptance!known
  <1>3. /\ now \in Nat /\ detected \in [Elements(D) -> Nat \cup {None}]
        /\ detected' \in [Elements(D) -> Nat \cup {None}] /\ detected'[h0] = now
        /\ \A h \in Elements(D) \ {h0} : detected'[h] = detected[h]
    BY <1>1 DEF AcceptanceInv, AcceptanceTypes
  <1>4. Kept(D)
    BY <1>1, <1>2, <1>3 DEF Kept
  <1>5. AcceptanceTypes(D)'
    BY <1>1, <1>2, <1>3 DEF AcceptanceInv, AcceptanceTypes
  <1>6. ProbedLater(D)'
    BY <1>1, <1>2, <1>3 DEF AcceptanceInv, ProbedLater
  <1> QED
    BY <1>2, <1>4, <1>5, <1>6, GatesKept DEF AcceptanceInv

(* Every step of acceptance keeps its invariant.                           *)
LEMMA AcceptanceStep ==
  ASSUME NEW D, NEW S, NEW M, AcceptanceInv(D, S), D # <<>>, D \in Seq(Elements(D)),
         Acceptance(D, S, M)!Next
  PROVE  AcceptanceInv(D, S)'
  BY AcceptanceWaits, AcceptanceMud, AcceptanceProbes, AcceptanceVerdict, AcceptanceDetected
     DEF Acceptance!Next, Acceptance!verifier

(* What the open gates of a verified acceptance stand for.                 *)
LEMMA AcceptanceEnforces ==
  ASSUME NEW D, NEW S, NEW M, AcceptanceInv(D, S)
  PROVE  /\ Acceptance(D, S, M)!VerifiedControlsEnforced
         /\ Acceptance(D, S, M)!MitigationFollowsDetection
  <1> SUFFICES ASSUME apc = "verified"
               PROVE  /\ Acceptance(D, S, M)!VerifiedControlsEnforced
                      /\ Acceptance(D, S, M)!MitigationFollowsDetection
    BY DEF Acceptance!VerifiedControlsEnforced, Acceptance!MitigationFollowsDetection
  <1>1. gates.mud_detection /\ gates.mud_mitigation /\ gates.controls_attributed
    BY DEF AcceptanceInv, GateNames
  <1>2. Elements(D) = Acceptance(D, S, M)!Domain
    BY DEF Elements, Acceptance!Domain
  <1>3. Acceptance(D, S, M)!VerifiedControlsEnforced
    BY <1>1, <1>2 DEF AcceptanceInv, GatesEarned, Stopped, Acceptance!Control,
       Acceptance!VerifiedControlsEnforced
  <1>4. Acceptance(D, S, M)!MitigationFollowsDetection
    BY <1>1, <1>2 DEF AcceptanceInv, GatesEarned, ProbedLater,
       Acceptance!MitigationFollowsDetection
  <1> QED
    BY <1>3, <1>4

(* Nothing of acceptance changes.                                          *)
LEMMA AcceptanceIdle ==
  ASSUME NEW D, NEW S, AcceptanceInv(D, S), UNCHANGED acceptances
  PROVE  AcceptanceInv(D, S)'
  <1>1. AcceptanceTypes(D)' /\ ProbedLater(D)' /\ GatesEarned(D, S)'
    BY DEF acceptances, AcceptanceInv, AcceptanceTypes, ProbedLater, GatesEarned, Stopped
  <1> QED
    BY <1>1 DEF acceptances, AcceptanceInv

(* Of one domain or more, with all controls or two of them.                *)
AcceptancesInv ==
  /\ tool = "acceptance" => AcceptanceInv(Hosts, Ordinary)
  /\ tool = "acceptance of two" => AcceptanceInv(TwoHosts, {})

(* Where acceptance is run, its steps are the only ones.                   *)
LEMMA AcceptanceInvariant == ToolsSpec => []AcceptancesInv
  <1>1. ToolsInit => AcceptancesInv
    BY AcceptanceInit DEF ToolsInit, AcceptancesInv
  <1>2. AcceptancesInv /\ [ToolsNext]_allvars => AcceptancesInv'
    <2> SUFFICES ASSUME AcceptancesInv, [ToolsNext]_allvars
                 PROVE  AcceptancesInv'
      OBVIOUS
    <2>1. /\ tool' = tool
          /\ tool = "acceptance" =>
               Acceptance(Hosts, Ordinary, MaxStrangers)!Next \/ UNCHANGED acceptances
          /\ tool = "acceptance of two" =>
               Acceptance(TwoHosts, {}, 0)!Next \/ UNCHANGED acceptances
      BY DEF ToolsNext, allvars
    <2>2. CASE tool = "acceptance"
      <3>1. AcceptanceInv(Hosts, Ordinary)'
        BY <2>1, <2>2, AcceptanceStep, AcceptanceIdle, AcceptanceAssumption DEF AcceptancesInv
      <3> QED
        BY <2>1, <2>2, <3>1 DEF AcceptancesInv
    <2>3. CASE tool = "acceptance of two"
      <3>1. AcceptanceInv(TwoHosts, {})'
        BY <2>1, <2>3, AcceptanceStep, AcceptanceIdle, AcceptanceAssumption DEF AcceptancesInv
      <3> QED
        BY <2>1, <2>3, <3>1 DEF AcceptancesInv
    <2> QED
      BY <2>1, <2>2, <2>3 DEF AcceptancesInv
  <1> QED
    BY <1>1, <1>2, PTL DEF ToolsSpec

(* A verified acceptance had every control stop a request of this run, on  *)
(* every domain: acceptance of demo_verify.py, for any number of domains,  *)
(* any set of ordinary controls, any timing, and whatever strangers send.  *)
THEOREM ControlsAreEnforced == ToolsSpec => []ControlsEnforced
  <1>1. AcceptancesInv => ControlsEnforced
    BY AcceptanceEnforces DEF AcceptancesInv, ControlsEnforced
  <1> QED
    BY <1>1, AcceptanceInvariant, PTL

(* The mitigation that a verified acceptance accepts for a domain came     *)
(* after the detection of the same user there.                             *)
THEOREM MitigationFollows == ToolsSpec => []MitigationFollowsDetection
  <1>1. AcceptancesInv => MitigationFollowsDetection
    BY AcceptanceEnforces DEF AcceptancesInv, MitigationFollowsDetection
  <1> QED
    BY <1>1, AcceptanceInvariant, PTL

-----------------------------------------------------------------------------
(* csd-verify.sh.                                                          *)
ScriptState == [Scripts -> [seen : {-2, -1} \cup Nat, high : BOOLEAN, users : BOOLEAN,
                            blocked : BOOLEAN]]
Snapshots == [config : BOOLEAN, status : BOOLEAN, detected_domains : BOOLEAN,
              scripts : ScriptState, summary : BOOLEAN, mitigated_domains : BOOLEAN]

(* What a snapshot has shows what is still there: but for the defense      *)
(* itself, nothing of the telemetry is taken back.                         *)
Shows(older, newer) ==
  /\ older.detected_domains => newer.detected_domains
  /\ older.summary => newer.summary
  /\ older.mitigated_domains => newer.mitigated_domains
  /\ \A s \in Scripts :
       /\ older.scripts[s].seen >= 0 => newer.scripts[s].seen >= 0
       /\ older.scripts[s].seen # -2 => newer.scripts[s].seen # -2
       /\ older.scripts[s].high => newer.scripts[s].high
       /\ older.scripts[s].users => newer.scripts[s].users

(* The evidence of the phase is in a snapshot.                             *)
Evident(snap) ==
  /\ snap.detected_domains
  /\ \E s \in Scripts :
       snap.scripts[s].seen >= 0 /\ snap.scripts[s].high /\ snap.scripts[s].users
  /\ phase = "mitigation" => snap.mitigated_domains /\ snap.summary

CsdTypes == Csd!TypeOK /\ snapshot \in Snapshots
CsdInv ==
  /\ CsdTypes
  /\ Shows(snapshot, Csd!Live)
  /\ complete => Evident(snapshot)
  /\ Csd!OneScriptProves
  /\ Csd!PendingHonest
  /\ Csd!PollsBounded

(* A snapshot made at once shows what is there.                            *)
LEMMA CsdLive ==
  ASSUME Csd!TypeOK
  PROVE  /\ Csd!Live \in Snapshots
         /\ Shows(Csd!Live, Csd!Live)
         /\ Csd!Complete => Evident(Csd!Live)
  BY DEF Csd!TypeOK, Csd!Live, Snapshots, ScriptState, Csd!Never, Shows, Evident, Csd!Complete

(* What is shown stays: the evidence is not lost by reading more.          *)
LEMMA ShowsEvident ==
  ASSUME NEW older, NEW newer, Shows(older, newer), Evident(older)
  PROVE  Evident(newer)
  BY DEF Shows, Evident

(* What is shown stays shown, from snapshot to snapshot.                   *)
LEMMA ShowsOn ==
  ASSUME NEW a, NEW b, NEW c, Shows(a, b), Shows(b, c)
  PROVE  Shows(a, c)
  BY DEF Shows

(* Nothing has been read yet.                                              *)
LEMMA CsdInit == Csd!Init => CsdInv
  <1> SUFFICES ASSUME Csd!Init PROVE CsdInv
    OBVIOUS
  <1>1. Csd!TypeOK
    <2>1. scripts \in ScriptState
      <3> DEFINE first == {[seen |-> -2, high |-> FALSE, users |-> FALSE, blocked |-> FALSE],
                           [seen |-> -1, high |-> TRUE, users |-> TRUE, blocked |-> FALSE]}
      <3>1. first \subseteq [seen : {-2, -1} \cup Nat, high : BOOLEAN, users : BOOLEAN,
                             blocked : BOOLEAN]
        OBVIOUS
      <3>2. scripts \in [Scripts -> first]
        BY DEF Csd!Init, Csd!Never
      <3> HIDE DEF first
      <3> QED
        BY <3>1, <3>2 DEF ScriptState
    <2>3. phase \in {"detection", "mitigation"} /\ cchanges \in 0..MaxTelemetry
      BY CsdAssumption DEF Csd!Init
    <2>2. complete \in BOOLEAN
      BY DEF Csd!Init, Csd!Complete
    <2> QED
      BY <2>1, <2>2, <2>3 DEF Csd!Init, Csd!TypeOK, Csd!Never, Csd!Running, ScriptState
  <1>2. Csd!OneScriptProves /\ Csd!PendingHonest /\ Csd!PollsBounded
    BY CsdAssumption DEF Csd!Init, Csd!OneScriptProves, Csd!PendingHonest, Csd!PollsBounded, Csd!VERIFIED,
       Csd!PENDING, Csd!Running
  <1> QED
    BY <1>1, <1>2, CsdLive DEF Csd!Init, CsdInv, CsdTypes


(* A snapshot between two others: every part is as it is in one of them.   *)
LEMMA ShowsBetween ==
  ASSUME NEW a \in Snapshots, NEW b \in Snapshots, NEW x \in Snapshots, Shows(a, b),
         x.detected_domains \in {a.detected_domains, b.detected_domains},
         x.scripts \in {a.scripts, b.scripts}, x.summary \in {a.summary, b.summary},
         x.mitigated_domains \in {a.mitigated_domains, b.mitigated_domains}
  PROVE  Shows(a, x) /\ Shows(x, b)
  BY DEF Shows

(* A part of the snapshot is read: it shows what is there now.             *)
LEMMA CsdReadPart ==
  ASSUME CsdInv, Csd!ReadPart
  PROVE  CsdInv'
  <1>1. /\ cverdict = -1 /\ part \in 1..6 /\ part' = part + 1
        /\ UNCHANGED <<phase, enabled, cdetected, scripts, blocked, mitigated, cchanges,
                       cclock, polled, complete, cverdict>>
    BY DEF Csd!ReadPart, Csd!Running, Csd!telemetry, CsdInv, CsdTypes, Csd!TypeOK
  <1>2. Csd!Live' = Csd!Live
    BY <1>1 DEF Csd!Live
  <1>3. /\ snapshot' \in Snapshots
        /\ snapshot'.detected_domains \in {snapshot.detected_domains, Csd!Live.detected_domains}
        /\ snapshot'.scripts \in {snapshot.scripts, Csd!Live.scripts}
        /\ snapshot'.summary \in {snapshot.summary, Csd!Live.summary}
        /\ snapshot'.mitigated_domains \in {snapshot.mitigated_domains, Csd!Live.mitigated_domains}
    <2> DEFINE p == Csd!Parts[part]
    <2>1. /\ snapshot \in Snapshots /\ Csd!Live \in Snapshots
          /\ snapshot' = [snapshot EXCEPT ![p] = Csd!Live[p]]
      BY CsdLive DEF CsdInv, CsdTypes, Csd!ReadPart
    <2>2. p \in {"config", "status", "detected_domains", "scripts", "summary", "mitigated_domains"}
      BY <1>1 DEF Csd!Parts
    <2> HIDE DEF p
    <2> QED
      BY <2>1, <2>2 DEF Snapshots
  <1>4. Shows(snapshot, snapshot') /\ Shows(snapshot', Csd!Live')
    BY <1>2, <1>3, CsdLive, ShowsBetween DEF CsdInv, CsdTypes
  <1>5. complete' => Evident(snapshot)'
    <2>1. complete => Evident(snapshot')
      BY <1>4, ShowsEvident DEF CsdInv
    <2> QED
      BY <1>1, <2>1 DEF Evident
  <1>6. CsdTypes'
    BY <1>1, <1>3 DEF CsdInv, CsdTypes, Csd!TypeOK
  <1>7. Csd!OneScriptProves' /\ Csd!PendingHonest' /\ Csd!PollsBounded'
    BY <1>1 DEF CsdInv, Csd!OneScriptProves, Csd!PendingHonest, Csd!PollsBounded
  <1> QED
    BY <1>4, <1>5, <1>6, <1>7 DEF CsdInv

(* A read that fails ends the verifier with an error, not with a verdict.  *)
LEMMA CsdReadFails ==
  ASSUME CsdInv, Csd!ReadFails
  PROVE  CsdInv'
  <1>1. /\ cverdict' = 2
        /\ UNCHANGED <<phase, enabled, cdetected, scripts, blocked, mitigated, cchanges,
                       cclock, part, snapshot, polled, complete>>
    BY DEF Csd!ReadFails, Csd!telemetry, Csd!CONFIG_FAILURE
  <1>2. Shows(snapshot, Csd!Live)' /\ (complete => Evident(snapshot))'
    BY <1>1 DEF CsdInv, Csd!Live, Shows, Evident
  <1>3. CsdTypes'
    BY <1>1 DEF CsdInv, CsdTypes, Csd!TypeOK
  <1>4. Csd!OneScriptProves' /\ Csd!PendingHonest' /\ Csd!PollsBounded'
    BY <1>1 DEF CsdInv, Csd!OneScriptProves, Csd!PendingHonest, Csd!PollsBounded, Csd!VERIFIED,
       Csd!PENDING
  <1> QED
    BY <1>2, <1>3, <1>4 DEF CsdInv

(* What the judgement of a snapshot says of what is there.                 *)
LEMMA CsdEvaluates ==
  ASSUME CsdInv
  PROVE  /\ Csd!evaluate(snapshot) \in {0, 2, 3}
         /\ Csd!evaluate(snapshot) = 0 =>
              \E s \in Scripts : scripts[s].seen >= 0 /\ scripts[s].high /\ scripts[s].users
         /\ Csd!evaluate(snapshot) = 3 => ~complete
  <1>1. Csd!evaluate(snapshot) \in {0, 2, 3}
    BY DEF Csd!evaluate, Csd!VERIFIED, Csd!CONFIG_FAILURE, Csd!PENDING
  <1>2. Csd!Affected(snapshot) <=>
          \E s \in Scripts : /\ snapshot.scripts[s].seen # -2 /\ snapshot.scripts[s].seen >= 0
                             /\ snapshot.scripts[s].high /\ snapshot.scripts[s].users
    BY DEF Csd!Affected, Csd!HighRisk, Csd!Hits, Csd!Fresh, Csd!Never
  <1>3. ASSUME Csd!Affected(snapshot)
        PROVE  \E s \in Scripts : scripts[s].seen >= 0 /\ scripts[s].high /\ scripts[s].users
    BY <1>2, <1>3 DEF CsdInv, Shows, Csd!Live
  <1>4. ASSUME complete
        PROVE  Csd!evaluate(snapshot) # 3
    <2>1. Evident(snapshot)
      BY <1>4 DEF CsdInv
    <2>2. Csd!Affected(snapshot) /\ snapshot.detected_domains
      <3>1. \A s \in Scripts : snapshot.scripts[s].seen >= 0 => snapshot.scripts[s].seen # -2
        BY DEF CsdInv, CsdTypes, Snapshots, ScriptState
      <3> QED
        BY <1>2, <2>1, <3>1 DEF Evident
    <2>3. phase = "mitigation" => snapshot.mitigated_domains /\ Csd!BlockedIn(snapshot)
      BY <2>1 DEF Evident, Csd!BlockedIn
    <2> QED
      BY <2>2, <2>3 DEF Csd!evaluate, Csd!VERIFIED, Csd!CONFIG_FAILURE, Csd!PENDING
  <1>5. Csd!evaluate(snapshot) = 0 => Csd!Affected(snapshot)
    BY DEF Csd!evaluate, Csd!VERIFIED, Csd!CONFIG_FAILURE, Csd!PENDING
  <1> QED
    BY <1>1, <1>3, <1>4, <1>5

(* A snapshot is judged: proved, pending at the end of the time, or to be  *)
(* read again.                                                             *)
LEMMA CsdJudge ==
  ASSUME CsdInv, Csd!Judge
  PROVE  CsdInv'
  <1> DEFINE code == Csd!evaluate(snapshot)
  <1>0. /\ code \in {0, 2, 3} /\ (code = 3 => ~complete)
        /\ code = 0 =>
             \E s \in Scripts : scripts[s].seen >= 0 /\ scripts[s].high /\ scripts[s].users
    BY CsdEvaluates
  <1>1. /\ cverdict = -1 /\ part = 7
        /\ UNCHANGED <<phase, enabled, cdetected, scripts, blocked, mitigated, cchanges>>
        /\ \/ /\ code # 3 \/ cclock >= PollMin
              /\ cverdict' = code /\ UNCHANGED <<cclock, part, snapshot, polled, complete>>
           \/ /\ ~(cclock >= PollMin) /\ cclock' = cclock + Pause /\ polled' = cclock + Pause
              /\ part' = 1 /\ snapshot' = Csd!Live /\ complete' = Csd!Complete
              /\ UNCHANGED cverdict
    BY DEF Csd!Judge, Csd!Running, Csd!telemetry, Csd!PENDING, Csd!Over, Csd!Woken
  <1> HIDE DEF code
  <1>2. CASE /\ code # 3 \/ cclock >= PollMin
             /\ cverdict' = code /\ UNCHANGED <<cclock, part, snapshot, polled, complete>>
    <2>1. Shows(snapshot, Csd!Live)' /\ (complete => Evident(snapshot))'
      BY <1>1, <1>2 DEF CsdInv, Csd!Live, Shows, Evident
    <2>2. CsdTypes'
      BY <1>0, <1>1, <1>2 DEF CsdInv, CsdTypes, Csd!TypeOK
    <2>3. Csd!OneScriptProves'
      BY <1>0, <1>1, <1>2 DEF Csd!OneScriptProves, Csd!VERIFIED
    <2>4. Csd!PendingHonest' /\ Csd!PollsBounded'
      BY <1>0, <1>1, <1>2 DEF CsdInv, Csd!PendingHonest, Csd!PollsBounded, Csd!PENDING
    <2> QED
      BY <2>1, <2>2, <2>3, <2>4 DEF CsdInv
  <1>3. CASE /\ ~(cclock >= PollMin) /\ cclock' = cclock + Pause /\ polled' = cclock + Pause
             /\ part' = 1 /\ snapshot' = Csd!Live /\ complete' = Csd!Complete
             /\ UNCHANGED cverdict
    <2>1. Csd!Live' = Csd!Live /\ Csd!TypeOK
      BY <1>1 DEF Csd!Live, CsdInv, CsdTypes
    <2>2. CsdTypes'
      <3>1. snapshot' \in Snapshots /\ complete' \in BOOLEAN
        BY <1>3, <2>1, CsdLive DEF Csd!Complete
      <3>2. cclock' \in Nat /\ polled' \in 0..cclock'
        BY <1>3, <2>1, CsdAssumption DEF Csd!TypeOK
      <3> QED
        BY <1>1, <1>3, <2>1, <3>1, <3>2 DEF CsdTypes, Csd!TypeOK
    <2>3. Shows(snapshot, Csd!Live)' /\ (complete => Evident(snapshot))'
      BY <1>1, <1>3, <2>1, CsdLive DEF Evident
    <2>4. Csd!OneScriptProves' /\ Csd!PendingHonest'
      BY <1>1, <1>3 DEF Csd!OneScriptProves, Csd!PendingHonest, Csd!VERIFIED, Csd!PENDING
    <2>5. Csd!PollsBounded'
      BY <1>3, <2>1, CsdAssumption DEF Csd!PollsBounded, Csd!TypeOK
    <2> QED
      BY <2>2, <2>3, <2>4, <2>5 DEF CsdInv
  <1> QED
    BY <1>1, <1>2, <1>3

(* Time passes within a read.                                              *)
LEMMA CsdTick ==
  ASSUME CsdInv, Csd!Tick
  PROVE  CsdInv'
  <1>1. /\ cverdict = -1 /\ cclock' = cclock + 1
        /\ UNCHANGED <<phase, enabled, cdetected, scripts, blocked, mitigated, cchanges,
                       part, snapshot, polled, complete, cverdict>>
    BY DEF Csd!Tick, Csd!telemetry, Csd!Running
  <1>2. Shows(snapshot, Csd!Live)' /\ (complete => Evident(snapshot))'
    BY <1>1 DEF CsdInv, Csd!Live, Shows, Evident
  <1>3. CsdTypes'
    <2>1. cclock' \in Nat /\ polled' \in 0..cclock'
      BY <1>1 DEF CsdInv, CsdTypes, Csd!TypeOK
    <2> QED
      BY <1>1, <2>1 DEF CsdInv, CsdTypes, Csd!TypeOK
  <1>4. Csd!OneScriptProves' /\ Csd!PendingHonest' /\ Csd!PollsBounded'
    BY <1>1 DEF CsdInv, Csd!OneScriptProves, Csd!PendingHonest, Csd!PollsBounded, Csd!VERIFIED,
       Csd!PENDING
  <1> QED
    BY <1>2, <1>3, <1>4 DEF CsdInv

(* The telemetry grows, but for the defense itself.                        *)
Grows ==
  /\ enabled' \in BOOLEAN /\ cdetected' \in BOOLEAN /\ blocked' \in BOOLEAN
  /\ mitigated' \in BOOLEAN /\ scripts' \in ScriptState
  /\ cdetected => cdetected'
  /\ blocked => blocked'
  /\ mitigated => mitigated'
  /\ \A s \in Scripts :
       /\ scripts[s].seen >= 0 => scripts'[s].seen >= 0
       /\ scripts[s].seen # -2 => scripts'[s].seen # -2
       /\ scripts[s].high => scripts'[s].high
       /\ scripts[s].users => scripts'[s].users

(* One field of a script is set, to what it may be.                        *)
LEMMA ScriptGrows ==
  ASSUME NEW s \in Scripts, NEW f \in {"seen", "high", "users", "blocked"}, NEW v,
         scripts \in ScriptState, v \in IF f = "seen" THEN Nat ELSE {TRUE}
  PROVE  LET new == [scripts EXCEPT ![s][f] = v] IN
         /\ new \in ScriptState
         /\ \A r \in Scripts :
              /\ scripts[r].seen >= 0 => new[r].seen >= 0
              /\ scripts[r].seen # -2 => new[r].seen # -2
              /\ scripts[r].high => new[r].high
              /\ scripts[r].users => new[r].users
  <1> DEFINE State == [seen : {-2, -1} \cup Nat, high : BOOLEAN, users : BOOLEAN,
                       blocked : BOOLEAN]
             one == [scripts[s] EXCEPT ![f] = v]
             new == [scripts EXCEPT ![s][f] = v]
  <1>1. scripts \in [Scripts -> State] /\ ScriptState = [Scripts -> State]
    BY DEF ScriptState
  <1>2. /\ one \in State
        /\ scripts[s].seen >= 0 => one.seen >= 0
        /\ scripts[s].seen # -2 => one.seen # -2
        /\ scripts[s].high => one.high
        /\ scripts[s].users => one.users
    <2>1. scripts[s] \in State
      BY <1>1
    <2>2. CASE f = "seen"
      BY <2>1, <2>2
    <2>3. CASE f # "seen"
      BY <2>1, <2>3
    <2> QED
      BY <2>2, <2>3
  <1>3. new = [scripts EXCEPT ![s] = one]
    OBVIOUS
  <1>4. new \in [Scripts -> State] /\ new[s] = one /\ \A r \in Scripts \ {s} : new[r] = scripts[r]
    <2> HIDE DEF State, one
    <2> QED
      BY <1>1, <1>2, <1>3
  <1> HIDE DEF one, new, State
  <1> QED
    BY <1>1, <1>2, <1>4 DEF new

(* Telemetry arrives: nothing that was shown is lost.                      *)
LEMMA CsdTelemetry ==
  ASSUME CsdInv, Csd!Telemetry
  PROVE  CsdInv'
  <1>1. /\ cverdict = -1 /\ cchanges < MaxTelemetry /\ cchanges' = cchanges + 1
        /\ UNCHANGED <<phase, cclock, part, snapshot, polled, complete, cverdict>>
    BY DEF Csd!Telemetry, Csd!Running
  <1>2. Grows
    <2>0. /\ enabled \in BOOLEAN /\ cdetected \in BOOLEAN /\ blocked \in BOOLEAN
          /\ mitigated \in BOOLEAN /\ scripts \in ScriptState /\ cclock \in Nat
      BY DEF CsdInv, CsdTypes, Csd!TypeOK, ScriptState, Csd!Never
    <2>1. CASE enabled' = ~enabled /\ UNCHANGED <<cdetected, scripts, blocked, mitigated>>
      BY <2>0, <2>1 DEF Grows
    <2>2. ASSUME NEW s \in Scripts, scripts' = [scripts EXCEPT ![s].seen = cclock],
                 cdetected' = TRUE, UNCHANGED <<enabled, blocked, mitigated>>
          PROVE  Grows
      BY <2>0, <2>2, ScriptGrows DEF Grows
    <2>3. ASSUME NEW s \in Scripts, NEW f \in {"high", "users"},
                 scripts' = [scripts EXCEPT ![s][f] = TRUE],
                 UNCHANGED <<enabled, cdetected, blocked, mitigated>>
          PROVE  Grows
      BY <2>0, <2>3, ScriptGrows DEF Grows
    <2>4. CASE mitigated' = TRUE /\ UNCHANGED <<enabled, cdetected, scripts, blocked>>
      BY <2>0, <2>4 DEF Grows
    <2>5. ASSUME NEW s \in Scripts, scripts' = [scripts EXCEPT ![s].blocked = TRUE],
                 blocked' = TRUE, UNCHANGED <<enabled, cdetected, mitigated>>
          PROVE  Grows
      BY <2>0, <2>5, ScriptGrows DEF Grows
    <2>6. CASE blocked' = TRUE /\ UNCHANGED <<enabled, cdetected, scripts, mitigated>>
      BY <2>0, <2>6 DEF Grows
    <2> QED
      BY <2>1, <2>2, <2>3, <2>4, <2>5, <2>6 DEF Csd!Telemetry
  <1>3. Shows(Csd!Live, Csd!Live')
    BY <1>2 DEF Grows, Shows, Csd!Live
  <1>4. Shows(snapshot, Csd!Live)' /\ (complete => Evident(snapshot))'
    <2>1. Shows(snapshot, Csd!Live')
      BY <1>3, ShowsOn DEF CsdInv
    <2> QED
      BY <1>1, <2>1 DEF CsdInv, Shows, Evident
  <1>5. CsdTypes'
    <2>1. cchanges' \in 0..MaxTelemetry
      BY <1>1, CsdAssumption DEF CsdInv, CsdTypes, Csd!TypeOK
    <2> QED
      BY <1>1, <1>2, <2>1 DEF CsdInv, CsdTypes, Csd!TypeOK, Grows, ScriptState, Csd!Never
  <1>6. Csd!OneScriptProves' /\ Csd!PendingHonest' /\ Csd!PollsBounded'
    BY <1>1 DEF CsdInv, Csd!OneScriptProves, Csd!PendingHonest, Csd!PollsBounded, Csd!VERIFIED,
       Csd!PENDING
  <1> QED
    BY <1>4, <1>5, <1>6 DEF CsdInv

(* Nothing of csd-verify.sh changes.                                       *)
LEMMA CsdIdle ==
  ASSUME CsdInv, UNCHANGED csds
  PROVE  CsdInv'
  <1>1. Csd!Live' = Csd!Live
    BY DEF csds, Csd!Live
  <1>2. CsdTypes' /\ Shows(snapshot, Csd!Live)' /\ (complete => Evident(snapshot))'
    <2>1. CsdTypes'
      BY DEF csds, CsdInv, CsdTypes, Csd!TypeOK
    <2> QED
      BY <1>1, <2>1 DEF csds, CsdInv, Shows, Evident
  <1>3. Csd!OneScriptProves' /\ Csd!PendingHonest' /\ Csd!PollsBounded'
    BY DEF csds, CsdInv, Csd!OneScriptProves, Csd!PendingHonest, Csd!PollsBounded
  <1> QED
    BY <1>2, <1>3 DEF CsdInv

(* Where csd-verify.sh is run, its steps are the only ones.                *)
LEMMA CsdInvariant == ToolsSpec => [](tool = "csd" => CsdInv)
  <1>1. ToolsInit => (tool = "csd" => CsdInv)
    BY CsdInit DEF ToolsInit
  <1>2. (tool = "csd" => CsdInv) /\ [ToolsNext]_allvars => (tool = "csd" => CsdInv)'
    <2>1. [ToolsNext]_allvars => tool' = tool /\ (tool = "csd" => Csd!Next \/ UNCHANGED csds)
      BY DEF ToolsNext, allvars
    <2> QED
      BY <2>1, CsdReadPart, CsdReadFails, CsdJudge, CsdTick, CsdTelemetry, CsdIdle
      DEF Csd!Next, Csd!Verify
  <1> QED
    BY <1>1, <1>2, PTL DEF ToolsSpec

(* csd-verify.sh proves a detection by one fresh script, and gives up      *)
(* neither early nor over complete evidence: for any scripts, any timing,  *)
(* and telemetry that arrives between the parts of a snapshot.             *)
THEOREM CsdIsHonest == ToolsSpec => []CsdHonest
  <1>1. (tool = "csd" => CsdInv) => CsdHonest
    BY DEF CsdInv, CsdHonest
  <1> QED
    BY <1>1, CsdInvariant, PTL

(* Readiness ends by its deadline but for the read that it is in, and the  *)
(* last snapshot of csd-verify.sh begins after its own by less than the    *)
(* sleep (Client.remaining, main of csd_verify.py): these parts of         *)
(* BudgetsKept, for any timeouts.                                          *)
THEOREM DeadlinesAreKept ==
  ToolsSpec => [](/\ tool = "readiness" => Readiness!ReadinessBounded
                  /\ tool = "csd" => Csd!PollsBounded)
  <1>1. (tool = "readiness" => ReadinessInv) /\ (tool = "csd" => CsdInv)
          => /\ tool = "readiness" => Readiness!ReadinessBounded
             /\ tool = "csd" => Csd!PollsBounded
    BY ReadinessProven DEF CsdInv
  <1> QED
    BY <1>1, ReadinessInvariant, CsdInvariant, PTL

-----------------------------------------------------------------------------
(* The live harnesses.                                                     *)
Line == [variant : Nat, verdict : {"PASS", "FAIL", "SKIP"}, imported : SUBSET Live!Address,
         skipped : SUBSET Live!Address]
Pending == {addrs[i] : i \in DOMAIN addrs}

(* All of a variant is imported, or left out by what may fail silently.    *)
Accounted(v, i, s) ==
  /\ Live!Wanted(v) \subseteq i \cup s
  /\ "lb" \in s => RmFailures[harness]["lb"] = "pass"

HarnessTypes ==
  /\ Live!TypeOK
  /\ report \in Seq(Line)
  /\ addrs \in {<<>>, <<"lb">>, <<"ref">>, <<"lb", "ref">>}
  /\ hpc \notin {"off", "next"} => hat <= last
  /\ hpc # "off" => last >= 1

(* What is imported, what is still to be and what a failure left out: all  *)
(* of the variant.                                                         *)
HarnessImports ==
  /\ hpc \in {"off", "next", "apply", "plan"} => imported = {} /\ addrs = <<>> /\ skipped = {}
  /\ hpc = "import" => addrs # <<>>
  /\ hpc \in {"remove", "import"} => Accounted(Live!Now, imported \cup Pending, skipped)
  /\ hpc \in {"again", "plan again"} => Accounted(Live!Now, imported, skipped)

Lost == "lb" \in objects \ recorded
Failed == \E line \in Live!Mine : line.verdict = "FAIL"

(* A load balancer that a run lost is reported, but for the time between   *)
(* taking it out and importing it.                                         *)
HarnessLosses ==
  /\ touched /\ Lost /\ (hpc # "off" \/ hat > last)
  /\ ~(hpc = "import" /\ addrs # <<>> /\ Head(addrs) = "lb")
  => Failed

HarnessInv ==
  /\ HarnessTypes
  /\ HarnessImports
  /\ HarnessLosses
  /\ Live!PassManaged
  /\ Live!PassImported

(* The manifest of the harness lists variants.                             *)
LEMMA HarnessManifest ==
  ASSUME Live!TypeOK
  PROVE  /\ Manifests[harness] \in Seq(Live!Variant) /\ Len(Manifests[harness]) \in Nat \ {0}
         /\ DOMAIN Manifests[harness] = 1..Len(Manifests[harness])
         /\ \A i \in 1..Len(Manifests[harness]) : Manifests[harness][i] \in Live!Variant
         /\ \A i \in 1..Len(Manifests[harness]) : Manifests[harness][i].refs \subseteq {"ref"}
         /\ RmFailures[harness] \in [Live!Address -> {"fail", "import", "pass"}]
  <1>1. harness \in DOMAIN Manifests
    BY DEF Live!TypeOK
  <1>2. /\ Manifests[harness] \in Seq(Live!Variant) /\ Manifests[harness] # <<>>
        /\ RmFailures[harness] \in [Live!Address -> {"fail", "import", "pass"}]
    BY <1>1, HarnessAssumption
  <1>3. /\ Len(Manifests[harness]) \in Nat \ {0}
        /\ DOMAIN Manifests[harness] = 1..Len(Manifests[harness])
    BY <1>2, LenProperties, EmptySeq
  <1>4. \A i \in 1..Len(Manifests[harness]) : Manifests[harness][i] \in Live!Variant
    BY <1>2, <1>3, ElementOfSeq
  <1>5. \A i \in 1..Len(Manifests[harness]) : Manifests[harness][i].refs \subseteq {"ref"}
    BY <1>4 DEF Live!Variant
  <1> QED
    BY <1>2, <1>3, <1>4, <1>5

(* The positions in the manifest and in the report are numbers.            *)
LEMMA HarnessNumbers ==
  ASSUME HarnessTypes
  PROVE  /\ Len(Manifests[harness]) \in Nat /\ Len(report) \in Nat
         /\ hat \in Nat /\ 1 <= hat /\ hat <= Len(Manifests[harness]) + 1
         /\ last \in Nat /\ last <= Len(Manifests[harness])
         /\ since \in Nat /\ since <= Len(report)
  <1>1. Len(Manifests[harness]) \in Nat /\ Len(report) \in Nat
    <2>1. Len(Manifests[harness]) \in Nat
      BY HarnessManifest DEF HarnessTypes
    <2>2. Len(report) \in Nat
      BY LenProperties DEF HarnessTypes
    <2> QED
      BY <2>1, <2>2
  <1>2. /\ hat \in 1..(Len(Manifests[harness]) + 1) /\ last \in 0..Len(Manifests[harness])
        /\ since \in 0..Len(report)
    BY DEF HarnessTypes, Live!TypeOK
  <1> QED
    BY <1>1, <1>2

(* No harness has been run: the load balancer is healthy and managed.      *)
LEMMA HarnessInit == Live!Init => HarnessInv
  <1> SUFFICES ASSUME Live!Init PROVE HarnessInv
    OBVIOUS
  <1>1. harness \in DOMAIN Manifests /\ lb = Manifests[harness][Len(Manifests[harness])].name
    BY DEF Live!Init, Live!Canonical
  <1>2. /\ Len(Manifests[harness]) \in Nat \ {0}
        /\ DOMAIN Manifests[harness] = 1..Len(Manifests[harness])
    BY <1>1, HarnessAssumption, LenProperties, EmptySeq
  <1>3. lb \in {Manifests[harness][i].name : i \in DOMAIN Manifests[harness]}
    BY <1>1, <1>2
  <1>4. Live!TypeOK
    <2>1. runs \in 0..MaxRuns /\ kills \in 0..MaxKills
      BY HarnessAssumption DEF Live!Init
    <2>2. /\ hat \in 1..(Len(Manifests[harness]) + 1) /\ last \in 0..Len(Manifests[harness])
          /\ since \in 0..Len(report)
      BY <1>2, EmptySeq DEF Live!Init
    <2>3. (\A i \in DOMAIN addrs : addrs[i] \in Live!Address)
          /\ \A i \in DOMAIN report : report[i].verdict \in {"PASS", "FAIL", "SKIP"}
      BY DEF Live!Init
    <2> QED
      BY <1>1, <1>3, <2>1, <2>2, <2>3 DEF Live!Init, Live!TypeOK, Live!Address
  <1>5. HarnessTypes /\ HarnessImports
    BY <1>4, EmptySeq DEF Live!Init, HarnessTypes, HarnessImports
  <1>6. HarnessLosses /\ Live!PassManaged /\ Live!PassImported
    BY DEF Live!Init, HarnessLosses, Live!PassManaged, Live!PassImported
  <1> QED
    BY <1>5, <1>6 DEF HarnessInv

(* A line is added to the report: nothing but a PASS has to be earned.     *)
LEMMA HarnessReports ==
  ASSUME HarnessInv, NEW v \in {"PASS", "FAIL", "SKIP"}, Live!Report(v),
         UNCHANGED <<harness, last, since>>, hat <= last
  PROVE  /\ hpc' = "next" /\ hat' = hat + 1 /\ addrs' = <<>> /\ imported' = {} /\ skipped' = {}
         /\ hat' \in 1..(Len(Manifests[harness]) + 1)
         /\ report' \in Seq(Line) /\ Len(report') = Len(report) + 1
         /\ \A i \in 1..Len(report) : report'[i] = report[i]
         /\ report'[Len(report')] = [variant |-> hat, verdict |-> v, imported |-> imported,
                                       skipped |-> skipped]
         /\ \A i \in DOMAIN report' : report'[i].verdict \in {"PASS", "FAIL", "SKIP"}
         /\ since' \in 0..Len(report')
         /\ HarnessImports'
         /\ Failed \/ v = "FAIL" => Failed'
         /\ v # "PASS" => Live!PassManaged' /\ Live!PassImported'
  <1> DEFINE line == [variant |-> hat, verdict |-> v, imported |-> imported, skipped |-> skipped]
  <1>1. /\ hpc' = "next" /\ hat' = hat + 1 /\ addrs' = <<>> /\ imported' = {} /\ skipped' = {}
        /\ report' = Append(report, line)
    BY DEF Live!Report
  <1>2. /\ hat \in Nat /\ hat >= 1 /\ last <= Len(Manifests[harness]) /\ last \in Nat
        /\ Len(Manifests[harness]) \in Nat
        /\ imported \subseteq Live!Address /\ skipped \subseteq Live!Address
        /\ report \in Seq(Line) /\ Len(report) \in Nat /\ since \in 0..Len(report)
    BY HarnessNumbers DEF HarnessInv, HarnessTypes, Live!TypeOK
  <1>3. line \in Line
    BY <1>2 DEF Line
  <1> HIDE DEF line
  <1>4. /\ report' \in Seq(Line) /\ Len(report') = Len(report) + 1
        /\ \A i \in 1..Len(report) : report'[i] = report[i]
        /\ report'[Len(report) + 1] = line
    BY <1>1, <1>2, <1>3, AppendProperties
  <1>5. DOMAIN report' = 1..(Len(report) + 1) /\ DOMAIN report = 1..Len(report)
    BY <1>2, <1>4, LenProperties
  <1>6. line.verdict = v /\ line.variant = hat /\ line.imported = imported
        /\ line.skipped = skipped
    BY DEF line
  <1>7. HarnessImports'
    BY <1>1 DEF HarnessImports
  <1>8. Failed \/ v = "FAIL" => Failed'
    <2>1. ASSUME v = "FAIL" PROVE Failed'
      <3>1. Len(report') \in (since' + 1)..Len(report')
        BY <1>2, <1>4
      <3> QED
        BY <1>4, <1>6, <2>1, <3>1 DEF Failed, Live!Mine
    <2>2. ASSUME Failed PROVE Failed'
      <3>1. PICK i \in (since + 1)..Len(report) : report[i].verdict = "FAIL"
        BY <2>2 DEF Failed, Live!Mine
      <3>2. i \in (since' + 1)..Len(report') /\ i \in 1..Len(report)
        BY <1>2, <1>4, <3>1
      <3>3. report'[i].verdict = "FAIL"
        BY <1>4, <3>1, <3>2
      <3> QED
        BY <3>2, <3>3 DEF Failed, Live!Mine
    <2> QED
      BY <2>1, <2>2
  <1>9. v # "PASS" => Live!PassManaged'
    BY <1>4, <1>6 DEF Live!PassManaged
  <1>10. v # "PASS" => Live!PassImported'
    <2> SUFFICES ASSUME v # "PASS", NEW i \in DOMAIN report', report'[i].verdict = "PASS"
                 PROVE  Accounted(Manifests[harness][report'[i].variant], report'[i].imported,
                                  report'[i].skipped)
      BY DEF Accounted, Live!PassImported, Live!Wanted
    <2>1. i \in 1..Len(report)
      BY <1>2, <1>4, <1>5, <1>6
    <2> QED
      BY <1>4, <1>5, <2>1 DEF HarnessInv, Accounted, Live!PassImported
  <1>11. \A i \in DOMAIN report' : report'[i].verdict \in {"PASS", "FAIL", "SKIP"}
    <2>1. \A i \in 1..Len(report') : report'[i] \in Line
      BY <1>4, ElementOfSeq
    <2> QED
      BY <1>4, <1>5, <2>1 DEF Line
  <1> QED
    BY <1>1, <1>2, <1>4, <1>7, <1>8, <1>9, <1>10, <1>11 DEF line

(* The variant at work.                                                    *)
LEMMA HarnessNow ==
  ASSUME HarnessTypes, hat <= last
  PROVE  /\ hat \in 1..Len(Manifests[harness]) /\ Live!Now = Manifests[harness][hat]
         /\ Live!Now \in Live!Variant
         /\ Live!Now.name \in {Manifests[harness][i].name : i \in DOMAIN Manifests[harness]}
         /\ Live!Now.secret \in BOOLEAN /\ Live!Now.refs \subseteq {"ref"}
         /\ "lb" \in Live!Wanted(Live!Now) /\ Live!Wanted(Live!Now) \subseteq Live!Address
  <1>1. hat \in 1..Len(Manifests[harness])
    BY HarnessNumbers
  <1>2. Live!Now = Manifests[harness][hat] /\ Live!Now \in Live!Variant
    BY <1>1, HarnessManifest DEF HarnessTypes, Live!Now
  <1>3. Live!Now.name \in {Manifests[harness][i].name : i \in DOMAIN Manifests[harness]}
    BY <1>1, <1>2, HarnessManifest DEF HarnessTypes
  <1>4. Live!Now.secret \in BOOLEAN /\ Live!Now.refs \subseteq {"ref"}
    BY <1>2 DEF Live!Variant
  <1> QED
    BY <1>1, <1>2, <1>3, <1>4 DEF Live!Wanted, Live!Address

(* What an apply leaves is recorded: it loses nothing that was not lost,   *)
(* and where it succeeds nothing is.                                       *)
LEMMA HarnessApplies ==
  ASSUME HarnessTypes, hat <= last, Live!Applies \/ Live!ApplyFails
  PROVE  /\ objects' \subseteq Live!Address /\ recorded' \subseteq Live!Address
         /\ lb' \in {Manifests[harness][i].name : i \in DOMAIN Manifests[harness]}
         /\ kept' \in BOOLEAN
         /\ Lost' => Lost
         /\ Live!Applies => ~Lost'
  <1>1. /\ objects \subseteq Live!Address /\ recorded \subseteq Live!Address /\ kept \in BOOLEAN
        /\ lb \in {Manifests[harness][i].name : i \in DOMAIN Manifests[harness]}
    BY DEF HarnessTypes, Live!TypeOK
  <1>2. CASE Live!Applies
    BY <1>1, <1>2, HarnessNow DEF Live!Applies, Lost
  <1>3. ASSUME NEW A \in SUBSET Live!Wanted(Live!Now), Live!Reaches(A)
        PROVE  /\ objects' \subseteq Live!Address /\ recorded' \subseteq Live!Address
               /\ lb' \in {Manifests[harness][i].name : i \in DOMAIN Manifests[harness]}
               /\ kept' \in BOOLEAN
               /\ Lost' => Lost
    <2>1. /\ objects' = objects \cup A /\ recorded' = recorded \cup A
          /\ lb' = Live!Now.name \/ lb' = lb
          /\ kept' = Live!Now.secret \/ kept' = kept
      BY <1>3 DEF Live!Reaches
    <2>2. objects' \subseteq Live!Address /\ recorded' \subseteq Live!Address /\ (Lost' => Lost)
      BY <1>1, <1>3, <2>1, HarnessNow DEF Lost
    <2>3. lb' \in {Manifests[harness][i].name : i \in DOMAIN Manifests[harness]}
      BY <1>1, <2>1, HarnessNow
    <2>4. kept' \in BOOLEAN
      BY <1>1, <2>1, HarnessNow, Zenon
    <2> QED
      BY <2>2, <2>3, <2>4
  <1>4. CASE Live!ApplyFails /\ ~Live!Applies
    BY <1>3, <1>4 DEF Live!ApplyFails
  <1> QED
    BY <1>2, <1>4

(* A run starts, over what earlier ones left.                              *)
LEMMA HarnessStart ==
  ASSUME HarnessInv, Live!start
  PROVE  HarnessInv'
  <1>1. PICK i, j \in 1..Len(Manifests[harness]), range \in BOOLEAN :
          /\ i <= j /\ hat' = i /\ last' = j
          /\ report' = IF ~range /\ harness \in Truncates THEN <<>> ELSE report
          /\ since' = Len(report')
    BY DEF Live!start
  <1>2. /\ hpc = "off" /\ hpc' = "next" /\ runs < MaxRuns /\ runs' = runs + 1 /\ touched' = FALSE
        /\ UNCHANGED <<harness, addrs, imported, skipped, objects, lb, recorded, kept, kills>>
    BY DEF Live!start, Live!tenant
  <1>3. Len(Manifests[harness]) \in Nat
    BY HarnessManifest DEF HarnessInv, HarnessTypes
  <1>4. /\ report' \in Seq(Line) /\ Len(report') \in Nat
        /\ \A k \in DOMAIN report' : report'[k].verdict \in {"PASS", "FAIL", "SKIP"}
    <2>1. report' = report \/ report' = <<>>
      BY <1>1
    <2>2. <<>> \in Seq(Line) /\ Len(<<>>) = 0 /\ DOMAIN <<>> = {}
      BY EmptySeq
    <2> QED
      BY <2>1, <2>2, LenProperties DEF HarnessInv, HarnessTypes, Live!TypeOK
  <1>5. HarnessTypes'
    <2>1. runs' \in 0..MaxRuns
      BY <1>2, HarnessAssumption DEF HarnessInv, HarnessTypes, Live!TypeOK
    <2>2. /\ hat' \in 1..(Len(Manifests[harness]) + 1) /\ last' \in 0..Len(Manifests[harness])
          /\ last' >= 1 /\ since' \in 0..Len(report')
      BY <1>1, <1>3, <1>4
    <2> QED
      BY <1>2, <1>4, <2>1, <2>2 DEF HarnessInv, HarnessTypes, Live!TypeOK
  <1>6. HarnessImports' /\ HarnessLosses'
    BY <1>2 DEF HarnessInv, HarnessImports, HarnessLosses
  <1>7. Live!PassManaged'
    BY <1>1, <1>4 DEF Live!PassManaged
  <1>8. Live!PassImported'
    <2>1. report' = report \/ report' = <<>>
      BY <1>1
    <2>2. report' = <<>> => DOMAIN report' = {}
      OBVIOUS
    <2> QED
      BY <1>2, <2>1, <2>2 DEF HarnessInv, Live!PassImported, Live!Wanted
  <1> QED
    BY <1>5, <1>6, <1>7, <1>8 DEF HarnessInv

(* The next command of the same variant: nothing is reported yet.          *)
LEMMA HarnessGoes ==
  ASSUME HarnessInv, UNCHANGED <<harness, last, report, since>>, hpc' # "next"
  PROVE  /\ Live!PassManaged' /\ Live!PassImported'
         /\ Failed' <=> Failed
  BY DEF HarnessInv, Live!PassManaged, Live!PassImported, Live!Wanted, Failed, Live!Mine

(* A verdict but PASS, where nothing is lost that was not lost.            *)
LEMMA HarnessFails ==
  ASSUME HarnessInv, NEW v \in {"FAIL", "SKIP"}, Live!Report(v), hat <= last, hpc # "off",
         UNCHANGED <<harness, last, since, runs, kills>>,
         objects' \subseteq Live!Address, recorded' \subseteq Live!Address,
         lb' \in {Manifests[harness][i].name : i \in DOMAIN Manifests[harness]},
         kept' \in BOOLEAN, touched' \in BOOLEAN,
         v = "FAIL" \/ ~Lost' \/ Failed \/ touched' = FALSE
  PROVE  HarnessInv'
  <1>1. HarnessTypes'
    <2>1. /\ hpc' = "next" /\ addrs' = <<>> /\ imported' = {} /\ skipped' = {}
          /\ hat' \in 1..(Len(Manifests[harness]) + 1)
          /\ report' \in Seq(Line) /\ since' \in 0..Len(report')
          /\ \A i \in DOMAIN report' : report'[i].verdict \in {"PASS", "FAIL", "SKIP"}
      BY HarnessReports
    <2>2. last' >= 1
      BY DEF HarnessInv, HarnessTypes
    <2>3. Live!TypeOK'
      <3>1. {} \subseteq Live!Address /\ \A i \in DOMAIN <<>> : <<>>[i] \in Live!Address
        OBVIOUS
      <3> QED
        BY <2>1, <3>1 DEF HarnessInv, HarnessTypes, Live!TypeOK
    <2> QED
      BY <2>1, <2>2, <2>3 DEF HarnessTypes
  <1>2. HarnessLosses'
    BY HarnessReports DEF HarnessLosses
  <1> QED
    BY <1>1, <1>2, HarnessReports DEF HarnessInv

(* A variant is skipped, cannot be prepared, or goes on to its apply.      *)
LEMMA HarnessPrepare ==
  ASSUME HarnessInv, Live!prepare
  PROVE  HarnessInv'
  <1>1. /\ hpc = "next" /\ hat <= last
        /\ UNCHANGED <<harness, last, since, objects, lb, recorded, kept, touched, runs, kills>>
    BY DEF Live!prepare, Live!place, Live!tenant, Live!bounds
  <1>2. /\ objects' \subseteq Live!Address /\ recorded' \subseteq Live!Address
        /\ lb' \in {Manifests[harness][i].name : i \in DOMAIN Manifests[harness]}
        /\ kept' \in BOOLEAN /\ touched' \in BOOLEAN
    BY <1>1 DEF HarnessInv, HarnessTypes, Live!TypeOK
  <1>3. ASSUME NEW v \in {"FAIL", "SKIP"}, Live!Report(v)
        PROVE  HarnessInv'
    <2>1. ~Lost' \/ Failed \/ touched' = FALSE
      BY <1>1, <1>2 DEF HarnessInv, HarnessLosses, Lost
    <2> QED
      BY <1>1, <1>2, <1>3, <2>1, HarnessFails
  <1>4. CASE Live!Go("apply")
    <2>1. hpc' = "apply" /\ UNCHANGED <<hat, addrs, imported, skipped, report>>
      BY <1>4 DEF Live!Go
    <2>2. HarnessTypes'
      BY <1>1, <2>1 DEF HarnessInv, HarnessTypes, Live!TypeOK
    <2>3. HarnessImports'
      BY <1>1, <2>1 DEF HarnessInv, HarnessImports
    <2>4. HarnessLosses'
      BY <1>1, <2>1, HarnessGoes DEF HarnessInv, HarnessLosses, Lost
    <2> QED
      BY <1>1, <2>1, <2>2, <2>3, <2>4, HarnessGoes DEF HarnessInv
  <1> QED
    BY <1>3, <1>4 DEF Live!prepare

(* The first apply: what exists and is not recorded makes it fail.         *)
LEMMA HarnessApply ==
  ASSUME HarnessInv, Live!apply
  PROVE  HarnessInv'
  <1>1. /\ hpc = "apply" /\ hat <= last /\ touched' = TRUE
        /\ UNCHANGED <<harness, last, since, runs, kills>>
    BY DEF Live!apply, Live!place, Live!bounds, HarnessInv, HarnessTypes
  <1>2. CASE Live!Applies /\ Live!Go("plan")
    <2>1. hpc' = "plan" /\ UNCHANGED <<hat, addrs, imported, skipped, report>>
      BY <1>2 DEF Live!Go
    <2>2. HarnessTypes'
      BY <1>1, <1>2, <2>1, HarnessApplies DEF HarnessInv, HarnessTypes, Live!TypeOK
    <2>3. HarnessImports'
      BY <1>1, <2>1 DEF HarnessInv, HarnessImports
    <2>4. HarnessLosses'
      BY <1>1, <1>2, HarnessApplies DEF HarnessInv, HarnessLosses
    <2> QED
      BY <1>1, <2>1, <2>2, <2>3, <2>4, HarnessGoes DEF HarnessInv
  <1>3. CASE Live!ApplyFails /\ Live!Report("FAIL")
    BY <1>1, <1>3, HarnessApplies, HarnessFails DEF HarnessInv
  <1>4. CASE Live!ApplyFails /\ ~Live!Conflicts(Live!Wanted(Live!Now)) /\ Live!Report("SKIP")
    <2>1. ~Lost
      BY <1>1, <1>4, HarnessNow DEF HarnessInv, Live!Conflicts, Lost
    <2>2. ~Lost'
      BY <1>1, <1>4, <2>1, HarnessApplies DEF HarnessInv
    <2> QED
      BY <1>1, <1>4, <2>2, HarnessApplies, HarnessFails DEF HarnessInv
  <1> QED
    BY <1>2, <1>3, <1>4 DEF Live!apply

(* A plan without changes: everything of the variant is recorded.          *)
LEMMA HarnessPlanned ==
  ASSUME HarnessInv, hat <= last
  PROVE  /\ \A code \in Live!PlanCodes : code = 0 => Live!Clean(Live!Now)
         /\ Live!Clean(Live!Now) => /\ recorded = Live!Wanted(Live!Now) /\ ~Lost
  <1>1. \A code \in Live!PlanCodes : code = 0 => Live!Clean(Live!Now)
    BY DEF Live!PlanCodes
  <1> QED
    BY <1>1, HarnessNow DEF HarnessInv, Live!Clean, Lost

(* The plan after the apply has to be empty.                               *)
LEMMA HarnessPlan ==
  ASSUME HarnessInv, Live!plan
  PROVE  HarnessInv'
  <1>1. /\ hpc = "plan" /\ hat <= last
        /\ UNCHANGED <<harness, last, since, objects, lb, recorded, kept, touched, runs, kills>>
    BY DEF Live!plan, Live!place, Live!tenant, Live!bounds, HarnessInv, HarnessTypes
  <1>2. CASE Live!Report("FAIL")
    BY <1>1, <1>2, HarnessFails DEF HarnessInv, HarnessTypes, Live!TypeOK
  <1>3. ASSUME NEW list \in Live!StateLists, Live!Clean(Live!Now), hpc' = "remove",
               addrs' = IF "ref" \in list THEN <<"lb", "ref">> ELSE <<"lb">>,
               skipped' = (recorded \ list) \cap {"ref"},
               UNCHANGED <<hat, imported, report>>
        PROVE  HarnessInv'
    <2>1. recorded = Live!Wanted(Live!Now) /\ ~Lost /\ Live!Now.refs \subseteq {"ref"}
      BY <1>1, <1>3, HarnessPlanned, HarnessNow DEF HarnessInv
    <2>2. Pending' = IF "ref" \in list THEN {"lb", "ref"} ELSE {"lb"}
      BY <1>3 DEF Pending
    <2>3. /\ addrs' \in {<<"lb">>, <<"lb", "ref">>} /\ skipped' \subseteq {"ref"}
          /\ \A i \in DOMAIN addrs' : addrs'[i] \in Live!Address
      BY <1>3 DEF Live!Address
    <2>4. HarnessTypes'
      BY <1>1, <1>3, <2>3 DEF HarnessInv, HarnessTypes, Live!TypeOK, Live!Address
    <2>5. /\ imported' = {} /\ Live!Wanted(Live!Now)' = recorded /\ recorded \subseteq {"lb", "ref"}
      BY <1>1, <1>3, <2>1 DEF HarnessInv, HarnessImports, Live!Wanted, Live!Now
    <2>6. Accounted(Live!Now, imported \cup Pending, skipped)'
      BY <1>3, <2>2, <2>3, <2>5 DEF Accounted, Live!StateLists
    <2>7. HarnessImports' /\ HarnessLosses'
      BY <1>1, <1>3, <2>1, <2>3, <2>6 DEF HarnessImports, HarnessLosses, Lost
    <2> QED
      BY <1>1, <1>3, <2>4, <2>7, HarnessGoes DEF HarnessInv
  <1> QED
    BY <1>1, <1>2, <1>3, HarnessPlanned DEF Live!plan

(* The addresses that are left, and the first of them.                     *)
LEMMA HarnessAddresses ==
  ASSUME HarnessTypes, addrs # <<>>
  PROVE  /\ Head(addrs) \in Live!Address
         /\ Tail(addrs) \in {<<>>, <<"ref">>}
         /\ Pending = {Head(addrs)} \cup {Tail(addrs)[i] : i \in DOMAIN Tail(addrs)}
         /\ \A i \in DOMAIN Tail(addrs) : Tail(addrs)[i] \in Live!Address
  <1>1. ASSUME NEW a \in Live!Address, addrs = <<a>>
        PROVE  /\ Head(addrs) = a /\ Tail(addrs) = <<>>
               /\ Pending = {a} /\ DOMAIN Tail(addrs) = {}
    BY <1>1 DEF Pending
  <1>2. ASSUME addrs = <<"lb", "ref">>
        PROVE  /\ Head(addrs) = "lb" /\ Tail(addrs) = <<"ref">>
               /\ Pending = {"lb", "ref"} /\ DOMAIN Tail(addrs) = {1} /\ Tail(addrs)[1] = "ref"
    BY <1>2 DEF Pending
  <1>3. CASE addrs = <<"lb">> \/ addrs = <<"ref">>
    <2>1. PICK a \in Live!Address : addrs = <<a>>
      BY <1>3 DEF Live!Address
    <2>2. {Tail(addrs)[i] : i \in DOMAIN Tail(addrs)} = {}
      BY <1>1, <2>1
    <2> QED
      BY <1>1, <2>1, <2>2
  <1>4. CASE addrs = <<"lb", "ref">>
    <2>1. {Tail(addrs)[i] : i \in DOMAIN Tail(addrs)} = {"ref"}
      BY <1>2, <1>4
    <2> QED
      BY <1>2, <1>4, <2>1 DEF Live!Address
  <1> QED
    BY <1>3, <1>4 DEF HarnessTypes

(* An address is taken out of the state, or reported as a failure.         *)
LEMMA HarnessStateRm ==
  ASSUME HarnessInv, Live!state_rm
  PROVE  HarnessInv'
  <1>1. /\ hpc = "remove" /\ hat <= last /\ addrs # <<>>
        /\ UNCHANGED <<harness, last, since, objects, lb, kept, touched, runs, kills>>
        /\ recorded' = recorded \ {Head(addrs)} \/ recorded' = recorded
    BY DEF Live!state_rm, Live!place, Live!bounds, HarnessInv, HarnessTypes
  <1>2. /\ recorded' \subseteq Live!Address
        /\ Lost' => Lost \/ Head(addrs) = "lb"
    BY <1>1 DEF HarnessInv, HarnessTypes, Live!TypeOK, Lost
  <1>3. CASE Live!Go("import")
    <2>1. hpc' = "import" /\ UNCHANGED <<hat, addrs, imported, skipped, report>>
      BY <1>3 DEF Live!Go
    <2>2. HarnessTypes'
      BY <1>1, <1>2, <2>1 DEF HarnessInv, HarnessTypes, Live!TypeOK
    <2>3. HarnessImports'
      BY <1>1, <2>1 DEF HarnessInv, HarnessImports, Accounted, Pending, Live!Wanted, Live!Now
    <2>4. HarnessLosses'
      BY <1>1, <1>2, <2>1, HarnessGoes DEF HarnessInv, HarnessLosses
    <2> QED
      BY <1>1, <2>1, <2>2, <2>3, <2>4, HarnessGoes DEF HarnessInv
  <1>4. CASE Live!Report("FAIL")
    BY <1>1, <1>2, <1>4, HarnessFails DEF HarnessInv, HarnessTypes, Live!TypeOK
  <1>5. CASE /\ RmFailures[harness][Head(addrs)] \notin {"fail", "import"}
             /\ recorded' = recorded /\ addrs' = Tail(addrs)
             /\ skipped' = skipped \cup {Head(addrs)}
             /\ UNCHANGED <<hpc, hat, imported, report>>
    <2>1. /\ Head(addrs) \in Live!Address /\ RmFailures[harness][Head(addrs)] = "pass"
          /\ Pending = {Head(addrs)} \cup Pending'
      <3>1. Head(addrs) \in Live!Address
        BY <1>1, HarnessAddresses DEF HarnessInv
      <3>2. RmFailures[harness][Head(addrs)] \in {"fail", "import", "pass"}
        BY <3>1, HarnessManifest DEF HarnessInv, HarnessTypes
      <3>3. Pending = {Head(addrs)} \cup Pending'
        BY <1>1, <1>5, HarnessAddresses DEF HarnessInv, Pending
      <3> QED
        BY <1>5, <3>1, <3>2, <3>3
    <2>2. HarnessTypes'
      BY <1>1, <1>2, <1>5, <2>1, HarnessAddresses DEF HarnessInv, HarnessTypes, Live!TypeOK
    <2>3. HarnessImports'
      <3>1. Accounted(Live!Now, imported \cup Pending, skipped)'
        BY <1>1, <1>5, <2>1 DEF HarnessInv, HarnessImports, Accounted, Live!Wanted, Live!Now
      <3> QED
        BY <1>1, <1>5, <3>1 DEF HarnessImports
    <2>4. HarnessLosses'
      BY <1>1, <1>5, HarnessGoes DEF HarnessInv, HarnessLosses, Lost
    <2> QED
      BY <1>1, <1>5, <2>2, <2>3, <2>4, HarnessGoes DEF HarnessInv
  <1> QED
    BY <1>1, <1>3, <1>4, <1>5 DEF Live!state_rm

(* An address is imported, or its failure reported.                        *)
LEMMA HarnessImport ==
  ASSUME HarnessInv, Live!import
  PROVE  HarnessInv'
  <1>1. /\ hpc = "import" /\ hat <= last /\ addrs # <<>>
        /\ UNCHANGED <<harness, last, since, objects, lb, touched, runs, kills>>
    BY DEF Live!import, Live!place, Live!bounds, HarnessInv, HarnessTypes, HarnessImports
  <1>2. CASE Live!Report("FAIL") /\ UNCHANGED <<recorded, kept>>
    BY <1>1, <1>2, HarnessFails DEF HarnessInv, HarnessTypes, Live!TypeOK
  <1>3. CASE /\ Head(addrs) \in objects \ recorded
             /\ recorded' = recorded \cup {Head(addrs)} /\ kept' = (kept /\ Head(addrs) # "ref")
             /\ imported' = imported \cup {Head(addrs)} /\ addrs' = Tail(addrs)
             /\ hpc' = "remove" /\ UNCHANGED <<hat, skipped, report>>
    <2>1. /\ Head(addrs) \in Live!Address /\ Tail(addrs) \in {<<>>, <<"ref">>}
          /\ Pending = {Head(addrs)} \cup Pending'
          /\ \A i \in DOMAIN addrs' : addrs'[i] \in Live!Address
      BY <1>1, <1>3, HarnessAddresses DEF HarnessInv, Pending
    <2>2. recorded' \subseteq Live!Address /\ imported' \subseteq Live!Address
      BY <1>3, <2>1 DEF HarnessInv, HarnessTypes, Live!TypeOK
    <2>3. kept' \in BOOLEAN
      BY <1>3, Zenon
    <2>4. HarnessTypes'
      BY <1>1, <1>3, <2>1, <2>2, <2>3 DEF HarnessInv, HarnessTypes, Live!TypeOK
    <2>5. HarnessImports'
      <3>1. imported' \cup Pending' = imported \cup Pending
        BY <1>3, <2>1
      <3>2. Live!Wanted(Live!Now)' = Live!Wanted(Live!Now)
        BY <1>1, <1>3 DEF Live!Wanted, Live!Now
      <3> QED
        BY <1>1, <1>3, <3>1, <3>2 DEF HarnessInv, HarnessImports, Accounted
    <2>6. HarnessLosses'
      <3>1. Lost' => Lost /\ Head(addrs) # "lb"
        BY <1>1, <1>3 DEF Lost
      <3> QED
        BY <1>1, <1>3, <3>1, HarnessGoes DEF HarnessInv, HarnessLosses
    <2> QED
      BY <1>1, <1>3, <2>4, <2>5, <2>6, HarnessGoes DEF HarnessInv
  <1> QED
    BY <1>2, <1>3 DEF Live!import

(* A PASS, where the plan had no changes and all was imported.             *)
LEMMA HarnessPasses ==
  ASSUME HarnessInv, Live!Report("PASS"), Live!Clean(Live!Now), hat <= last, hpc # "off",
         Accounted(Live!Now, imported, skipped),
         UNCHANGED <<harness, last, since, objects, lb, recorded, kept, touched, runs, kills>>
  PROVE  HarnessInv'
  <1>1. /\ hpc' = "next" /\ addrs' = <<>> /\ imported' = {} /\ skipped' = {}
        /\ hat' \in 1..(Len(Manifests[harness]) + 1)
        /\ report' \in Seq(Line) /\ since' \in 0..Len(report') /\ Len(report') = Len(report) + 1
        /\ report'[Len(report')] = [variant |-> hat, verdict |-> "PASS", imported |-> imported,
                                    skipped |-> skipped]
        /\ \A i \in 1..Len(report) : report'[i] = report[i]
        /\ \A i \in DOMAIN report' : report'[i].verdict \in {"PASS", "FAIL", "SKIP"}
        /\ HarnessImports'
    BY HarnessReports
  <1>2. HarnessTypes'
    <2>1. {} \subseteq Live!Address /\ \A i \in DOMAIN <<>> : <<>>[i] \in Live!Address
      OBVIOUS
    <2>2. Live!TypeOK'
      BY <1>1, <2>1 DEF HarnessInv, HarnessTypes, Live!TypeOK
    <2> QED
      BY <1>1, <2>2 DEF HarnessInv, HarnessTypes
  <1>3. HarnessLosses'
    <2>1. ~Lost /\ Lost' = Lost
      BY HarnessPlanned DEF Lost
    <2> QED
      BY <2>1 DEF HarnessLosses
  <1>4. Live!PassManaged'
    <2>1. report'[Len(report')].variant = hat
      BY <1>1
    <2>2. Manifests[harness][hat] = Live!Now
      BY DEF Live!Now
    <2>3. Live!Clean(Manifests[harness][hat])
      BY <2>2
    <2> QED
      BY <2>1, <2>3 DEF Live!PassManaged, Live!Clean, Live!Wanted
  <1>5. Live!PassImported'
    <2> SUFFICES ASSUME NEW i \in DOMAIN report', report'[i].verdict = "PASS"
                 PROVE  Accounted(Manifests[harness][report'[i].variant], report'[i].imported,
                                  report'[i].skipped)
      BY DEF Accounted, Live!PassImported, Live!Wanted
    <2>1. Len(report) \in Nat /\ DOMAIN report = 1..Len(report)
      BY LenProperties DEF HarnessInv, HarnessTypes
    <2>2. DOMAIN report' = 1..Len(report')
      BY <1>1, LenProperties
    <2>3. CASE i = Len(report')
      BY <1>1, <2>3 DEF Live!Now
    <2>4. CASE i # Len(report')
      <3>1. i \in 1..Len(report)
        BY <1>1, <2>1, <2>2, <2>4
      <3> QED
        BY <1>1, <2>1, <3>1 DEF HarnessInv, Accounted, Live!PassImported
    <2> QED
      BY <2>3, <2>4
  <1> QED
    BY <1>1, <1>2, <1>3, <1>4, <1>5 DEF HarnessInv

(* The plan after the import: a PASS has imported all of the variant.      *)
LEMMA HarnessRoundTrip ==
  ASSUME HarnessInv, Live!round_trip
  PROVE  HarnessInv'
  <1>1. /\ hpc = "remove" /\ hat <= last /\ addrs = <<>>
        /\ UNCHANGED <<harness, last, since, objects, lb, recorded, kept, touched, runs, kills>>
    BY DEF Live!round_trip, Live!place, Live!tenant, Live!bounds, HarnessInv, HarnessTypes
  <1>2. Accounted(Live!Now, imported, skipped)
    <2>1. Pending = {}
      BY <1>1 DEF Pending
    <2> QED
      BY <1>1, <2>1 DEF HarnessInv, HarnessImports, Accounted
  <1>3. CASE Live!Clean(Live!Now) /\ Live!Report("PASS")
    BY <1>1, <1>2, <1>3, HarnessPasses
  <1>4. CASE Live!Report("FAIL")
    BY <1>1, <1>4, HarnessFails DEF HarnessInv, HarnessTypes, Live!TypeOK
  <1>5. CASE Live!Go("again")
    <2>1. hpc' = "again" /\ UNCHANGED <<hat, addrs, imported, skipped, report>>
      BY <1>5 DEF Live!Go
    <2>2. HarnessTypes'
      BY <1>1, <2>1 DEF HarnessInv, HarnessTypes, Live!TypeOK
    <2>3. HarnessImports'
      BY <1>1, <1>2, <2>1 DEF HarnessImports, Accounted, Live!Wanted, Live!Now
    <2>4. HarnessLosses'
      BY <1>1, <2>1, HarnessGoes DEF HarnessInv, HarnessLosses, Lost
    <2> QED
      BY <1>1, <2>1, <2>2, <2>3, <2>4, HarnessGoes DEF HarnessInv
  <1> QED
    BY <1>1, <1>3, <1>4, <1>5, HarnessPlanned DEF Live!round_trip

(* The second apply of a write-only secret, whose end is not looked at.    *)
LEMMA HarnessApplyAgain ==
  ASSUME HarnessInv, Live!apply_again
  PROVE  HarnessInv'
  <1>1. /\ hpc = "again" /\ hat <= last /\ (Live!Applies \/ Live!ApplyFails)
        /\ hpc' = "plan again"
        /\ UNCHANGED <<hat, addrs, imported, skipped, report, harness, last, since, touched, runs, kills>>
    BY DEF Live!apply_again, Live!Go, Live!place, Live!bounds, HarnessInv, HarnessTypes
  <1>2. HarnessTypes'
    BY <1>1, HarnessApplies DEF HarnessInv, HarnessTypes, Live!TypeOK
  <1>3. HarnessImports'
    BY <1>1 DEF HarnessInv, HarnessImports, Accounted, Live!Wanted, Live!Now
  <1>4. HarnessLosses'
    BY <1>1, HarnessApplies, HarnessGoes DEF HarnessInv, HarnessLosses
  <1> QED
    BY <1>1, <1>2, <1>3, <1>4, HarnessGoes DEF HarnessInv

(* The plan after the second apply.                                        *)
LEMMA HarnessPlanAgain ==
  ASSUME HarnessInv, Live!plan_again
  PROVE  HarnessInv'
  <1>1. /\ hpc = "plan again" /\ hat <= last
        /\ UNCHANGED <<harness, last, since, objects, lb, recorded, kept, touched, runs, kills>>
    BY DEF Live!plan_again, Live!place, Live!tenant, Live!bounds, HarnessInv, HarnessTypes
  <1>2. Accounted(Live!Now, imported, skipped)
    BY <1>1 DEF HarnessInv, HarnessImports
  <1>3. CASE Live!Clean(Live!Now) /\ Live!Report("PASS")
    BY <1>1, <1>2, <1>3, HarnessPasses
  <1>4. CASE Live!Report("FAIL")
    BY <1>1, <1>4, HarnessFails DEF HarnessInv, HarnessTypes, Live!TypeOK
  <1> QED
    BY <1>1, <1>3, <1>4, HarnessPlanned DEF Live!plan_again

(* The run ends after its last variant.                                    *)
LEMMA HarnessFinish ==
  ASSUME HarnessInv, Live!finish
  PROVE  HarnessInv'
  <1>1. /\ hpc = "next" /\ hpc' = "off"
        /\ UNCHANGED <<harness, last, since, hat, addrs, imported, skipped, objects, lb, recorded,
                       kept, report, touched, runs, kills>>
    BY DEF Live!finish, Live!place, Live!tenant, Live!bounds
  <1>2. HarnessTypes'
    BY <1>1 DEF HarnessInv, HarnessTypes, Live!TypeOK
  <1>3. HarnessImports'
    BY <1>1 DEF HarnessInv, HarnessImports
  <1>4. HarnessLosses'
    BY <1>1, HarnessGoes DEF HarnessInv, HarnessLosses, Lost
  <1> QED
    BY <1>1, <1>2, <1>3, <1>4, HarnessGoes DEF HarnessInv

(* A kill lets at most the apply at hand end, and reports nothing.         *)
LEMMA HarnessKilled ==
  ASSUME HarnessInv, Live!kill
  PROVE  HarnessInv'
  <1>1. /\ hpc \notin {"off", "next"} /\ hat <= last /\ last >= 1 /\ kills < MaxKills
        /\ kills' = kills + 1 /\ hpc' = "off" /\ hat' = 1 /\ addrs' = <<>> /\ imported' = {}
        /\ skipped' = {}
        /\ UNCHANGED <<harness, last, since, report, touched, runs>>
    BY DEF Live!kill, Live!place, HarnessInv, HarnessTypes
  <1>2. /\ objects' \subseteq Live!Address /\ recorded' \subseteq Live!Address
        /\ lb' \in {Manifests[harness][i].name : i \in DOMAIN Manifests[harness]}
        /\ kept' \in BOOLEAN
    <2>1. CASE Live!Applies \/ Live!ApplyFails
      BY <1>1, <2>1, HarnessApplies DEF HarnessInv
    <2>2. CASE UNCHANGED <<objects, lb, recorded, kept>>
      BY <2>2 DEF HarnessInv, HarnessTypes, Live!TypeOK
    <2> QED
      BY <2>1, <2>2 DEF Live!kill, Live!tenant
  <1>3. HarnessTypes'
    <2>1. kills' \in 0..MaxKills
      <3>1. kills \in 0..MaxKills /\ MaxKills \in Nat
        BY HarnessAssumption DEF HarnessInv, HarnessTypes, Live!TypeOK
      <3> QED
        BY <1>1, <3>1
    <2>2. hat' \in 1..(Len(Manifests[harness]) + 1)
      BY <1>1, HarnessNumbers DEF HarnessInv
    <2>3. {} \subseteq Live!Address /\ \A i \in DOMAIN <<>> : <<>>[i] \in Live!Address
      OBVIOUS
    <2> QED
      BY <1>1, <1>2, <2>1, <2>2, <2>3 DEF HarnessInv, HarnessTypes, Live!TypeOK
  <1>4. HarnessImports'
    BY <1>1 DEF HarnessImports
  <1>5. HarnessLosses'
    <2>1. ~(hat' > last')
      BY <1>1, HarnessNumbers DEF HarnessInv
    <2> QED
      BY <1>1, <2>1 DEF HarnessLosses
  <1> QED
    BY <1>1, <1>3, <1>4, <1>5, HarnessGoes DEF HarnessInv

(* What the invariant says of the reports.                                 *)
LEMMA HarnessProven ==
  ASSUME HarnessInv
  PROVE  Live!PassManaged /\ Live!PassImported /\ Live!LostReported
  BY DEF HarnessInv, HarnessLosses, Failed, Lost, Live!LostReported

(* Nothing of the harness changes.                                         *)
LEMMA HarnessIdle ==
  ASSUME HarnessInv, UNCHANGED harnesses
  PROVE  HarnessInv'
  <1>1. HarnessTypes'
    BY DEF harnesses, HarnessInv, HarnessTypes, Live!TypeOK
  <1>2. Live!Now' = Live!Now /\ Live!Mine' = Live!Mine
    BY DEF harnesses, Live!Now, Live!Mine
  <1>3. HarnessImports'
    BY <1>2 DEF harnesses, HarnessInv, HarnessImports, Accounted, Pending
  <1>4. HarnessLosses'
    BY <1>2 DEF harnesses, HarnessInv, HarnessLosses, Lost, Failed
  <1>5. Live!PassManaged'
    BY DEF harnesses, HarnessInv, Live!PassManaged, Live!Clean
  <1>6. Live!PassImported'
    BY DEF harnesses, HarnessInv, Live!PassImported
  <1> QED
    BY <1>1, <1>3, <1>4, <1>5, <1>6 DEF HarnessInv

(* Where a harness is run, its steps are the only ones.                    *)
LEMMA HarnessInvariant == ToolsSpec => [](tool = "harness" => HarnessInv)
  <1>1. ToolsInit => (tool = "harness" => HarnessInv)
    BY HarnessInit DEF ToolsInit
  <1>2. (tool = "harness" => HarnessInv) /\ [ToolsNext]_allvars => (tool = "harness" => HarnessInv)'
    <2>1. [ToolsNext]_allvars =>
            tool' = tool /\ (tool = "harness" => Live!Next \/ UNCHANGED harnesses)
      BY DEF ToolsNext, allvars
    <2>2. HarnessInv /\ Live!Next => HarnessInv'
      BY HarnessStart, HarnessPrepare, HarnessApply, HarnessPlan, HarnessStateRm, HarnessImport,
         HarnessRoundTrip, HarnessApplyAgain, HarnessPlanAgain, HarnessFinish, HarnessKilled
      DEF Live!Next
    <2> QED
      BY <2>1, <2>2, HarnessIdle
  <1> QED
    BY <1>1, <1>2, PTL DEF ToolsSpec

(* A PASS of a live harness was earned by its own import, but for what a   *)
(* failed `state list` or `state rm` leaves out silently, and a load       *)
(* balancer that a run took out of the state and did not bring back is     *)
(* reported: for any harnesses, manifests and reactions to a failed        *)
(* `state rm`, any number of runs, and a kill at every command.            *)
THEOREM HarnessIsHonest == ToolsSpec => []HarnessHonest
  <1>1. (tool = "harness" => HarnessInv) => HarnessHonest
    BY HarnessProven DEF HarnessHonest
  <1> QED
    BY <1>1, HarnessInvariant, PTL

-----------------------------------------------------------------------------
(* The attempts of the traffic generator.                                  *)

(* The summary is of the records, and the verdict of the summary.          *)
TrafficInv ==
  /\ at \in {"attack", "evaluate", "verify", "end"}
  /\ deviation \in Deviations
  /\ at # "attack" => records \in Seq({records[i] : i \in DOMAIN records})
  /\ at \in {"verify", "end"} => summary = Traffic!Summary(deviation, records)
  /\ at = "end" => failures = Traffic!evaluate_summary(summary)

(* The responses of an attempt are a sequence.                             *)
LEMMA AttackIsSequence ==
  ASSUME NEW seq, NEW d \in Deviations
  PROVE  LET rs == Traffic!Attack(seq, d) IN rs \in Seq({rs[i] : i \in DOMAIN rs})
  <1> DEFINE rs == Traffic!Attack(seq, d)
             n == Traffic!TARGET_COUNT + d.extra
             S == {rs[i] : i \in DOMAIN rs}
  <1>1. n \in Nat
    BY TrafficAssumption
  <1>2. rs = [i \in 1..n |-> rs[i]]
    BY DEF Traffic!Attack
  <1> HIDE DEF rs, n
  <1>3. rs \in [1..n -> S]
    BY <1>2
  <1>4. rs \in Seq(S)
    BY <1>1, <1>3, SeqDef
  <1> QED
    BY <1>4 DEF rs

(* Every step of an attempt keeps its invariant.                           *)
LEMMA TrafficStep ==
  ASSUME TrafficInv, Traffic!Next
  PROVE  TrafficInv'
  <1>1. CASE Traffic!Send
    <2>1. records' \in Seq({records'[i] : i \in DOMAIN records'})
      BY <1>1, AttackIsSequence DEF TrafficInv, Traffic!Send
    <2> QED
      BY <1>1, <2>1 DEF TrafficInv, Traffic!Send
  <1>2. CASE Traffic!Evaluate
    BY <1>2 DEF TrafficInv, Traffic!Evaluate
  <1>3. CASE Traffic!Verify
    BY <1>3 DEF TrafficInv, Traffic!Verify
  <1> QED
    BY <1>1, <1>2, <1>3 DEF Traffic!Next

(* The guest verifies no response that was not as expected.                *)
LEMMA GuestMeasures ==
  ASSUME NEW d, NEW rs, Traffic!evaluate(d, rs) = {}, NEW i \in DOMAIN rs
  PROVE  /\ rs[i].code # 0
         /\ rs[i].class \in Traffic!Denied => rs[i].code \in {400, 403}
         /\ rs[i].class = "benign" => Traffic!Success(rs[i].code)
         /\ Traffic!RateLimit(rs[i]) => rs[i].code = 429 \/ (rs[i].code = 200 /\ rs[i].echo)
  <1>1. \A f \in {"domains", "mix", "benign_success", "transport", "unexpected_response",
                  "classes", "rate_origin_response_unconfirmed"} :
          /\ ~(f = "unexpected_response" /\ \E j \in DOMAIN rs : Traffic!response_failure(rs[j]))
          /\ ~(f = "classes" /\ {rs[j].class : j \in DOMAIN rs} # Traffic!CLASSES \cup {"benign"})
          /\ ~(f = "rate_origin_response_unconfirmed"
                /\ \E j \in DOMAIN rs : Traffic!RateLimit(rs[j]) /\ rs[j].code = 200 /\ ~rs[j].echo)
    BY DEF Traffic!evaluate
  <1>2. /\ ~Traffic!response_failure(rs[i])
        /\ rs[i].class \in {"benign", "waf", "schema", "endpoint-denial", "rate-limit", "mud"}
        /\ ~(Traffic!RateLimit(rs[i]) /\ rs[i].code = 200 /\ ~rs[i].echo)
    BY <1>1 DEF Traffic!CLASSES
  <1>3. ~Traffic!Success(0)
    BY DEF Traffic!Success
  <1> QED
    BY <1>2, <1>3 DEF Traffic!response_failure, Traffic!Denied, Traffic!RateLimit

(* The rotation is the same again after fifteen attempts: every attempt    *)
(* sends what one of the fifteen offsets that TLC checks sends, and the    *)
(* parts of BudgetsKept and JudgementsAgree about attempts hold at every   *)
(* sequence number if they hold at those (class and targets of             *)
(* demo_traffic.py).                                                       *)
THEOREM RotationRepeats ==
  ASSUME NEW seq \in Nat
  PROVE  /\ seq % 15 \in 0..14
         /\ Traffic!targets(seq) = Traffic!targets(seq % 15)
         /\ \A d : Traffic!Attack(seq, d) = Traffic!Attack(seq % 15, d)
  <1>1. seq % 15 \in 0..14
    OBVIOUS
  <1>2. ASSUME NEW i \in 1..Traffic!TARGET_COUNT
        PROVE  Traffic!slot(i - 1, seq) = Traffic!slot(i - 1, seq % 15)
    <2>1. Len(Traffic!ATTACK_ROTATION) = 15
      BY DEF Traffic!ATTACK_ROTATION
    <2>2. \A a \in Nat : (a + seq) % 15 = (a + (seq % 15)) % 15
      OBVIOUS
    <2>3. ((i - 1) \div 20) * 2 + (((i - 1) % 20) \div 10) \in Nat
      BY DEF Traffic!TARGET_COUNT
    <2>4. Traffic!class(i - 1, seq) = Traffic!class(i - 1, seq % 15)
      BY <2>1, <2>2, <2>3 DEF Traffic!class
    <2> QED
      BY <2>4 DEF Traffic!slot
  <1>3. [i \in 1..Traffic!TARGET_COUNT |-> Traffic!slot(i - 1, seq)]
          = [i \in 1..Traffic!TARGET_COUNT |-> Traffic!slot(i - 1, seq % 15)]
    BY <1>2
  <1>4. Traffic!targets(seq) = Traffic!targets(seq % 15)
    BY <1>3, Zenon DEF Traffic!targets
  <1>5. \A d : Traffic!Attack(seq, d) = Traffic!Attack(seq % 15, d)
    BY <1>4 DEF Traffic!Attack
  <1> QED
    BY <1>1, <1>4, <1>5

(* Where attempts are judged, their steps are the only ones.               *)
LEMMA TrafficInvariant == ToolsSpec => [](tool = "traffic" => TrafficInv)
  <1>1. ToolsInit => (tool = "traffic" => TrafficInv)
    BY DEF ToolsInit, TrafficInv, Traffic!Init
  <1>2. (tool = "traffic" => TrafficInv) /\ [ToolsNext]_allvars => (tool = "traffic" => TrafficInv)'
    <2>1. [ToolsNext]_allvars =>
            tool' = tool /\ (tool = "traffic" => Traffic!Next \/ UNCHANGED attempts)
      BY DEF ToolsNext, allvars
    <2>2. TrafficInv /\ UNCHANGED attempts => TrafficInv'
      BY DEF TrafficInv, attempts
    <2> QED
      BY <2>1, <2>2, TrafficStep
  <1> QED
    BY <1>1, <1>2, PTL DEF ToolsSpec

(* What the verifier accepts the guest had verified, and no response of a  *)
(* verified attempt was other than expected (evaluate and evaluate_summary *)
(* of demo_traffic.py): of JudgementsAgree the direction in which a wrong  *)
(* verdict would do harm, for any responses at any sequence number.        *)
THEOREM AcceptedIsMeasured ==
  ToolsSpec => [](tool = "traffic" =>
                    /\ Traffic!VerifiedMeasured
                    /\ at = "end" /\ failures = {} => summary.failures = {})
  <1>1. TrafficInv => /\ Traffic!VerifiedMeasured
                      /\ at = "end" /\ failures = {} => summary.failures = {}
    <2> SUFFICES ASSUME TrafficInv
                 PROVE  /\ Traffic!VerifiedMeasured
                        /\ at = "end" /\ failures = {} => summary.failures = {}
      OBVIOUS
    <2>1. at = "end" /\ failures = {} => summary.failures = {}
      BY DEF TrafficInv, Traffic!evaluate_summary
    <2>2. at \in {"verify", "end"} => summary.failures = Traffic!evaluate(deviation, records)
      BY DEF TrafficInv, Traffic!Summary
    <2> QED
      BY <2>1, <2>2, GuestMeasures DEF Traffic!VerifiedMeasured
  <1> QED
    BY <1>1, TrafficInvariant, PTL

(* The module of the attempts counts as this one does.                     *)
LEMMA SameCount == \A S : Traffic!Cardinality(S) = Cardinality(S)
  BY DEF Traffic!Cardinality, Cardinality

(* The responses that pass a test, and their number.                       *)
LEMMA CountIs ==
  ASSUME NEW T, NEW rs \in Seq(T)
  PROVE  /\ DOMAIN rs = 1..Len(rs) /\ Len(rs) \in Nat
         /\ IsFiniteSet(DOMAIN rs) /\ Cardinality(DOMAIN rs) = Len(rs)
         /\ \A S \in SUBSET DOMAIN rs : IsFiniteSet(S) /\ Cardinality(S) \in Nat
  <1>1. DOMAIN rs = 1..Len(rs) /\ Len(rs) \in Nat
    BY LenProperties
  <1>2. IsFiniteSet(DOMAIN rs) /\ Cardinality(DOMAIN rs) = Len(rs)
    BY <1>1, FS_Interval
  <1>3. ASSUME NEW S \in SUBSET DOMAIN rs
        PROVE  IsFiniteSet(S) /\ Cardinality(S) \in Nat
    BY <1>2, FS_Subset, FS_CardinalityType
  <1> QED
    BY <1>1, <1>2, <1>3

(* Disjoint sets are counted apart.                                        *)
LEMMA Apart ==
  ASSUME NEW S, NEW T, IsFiniteSet(S), IsFiniteSet(T), S \cap T = {}
  PROVE  IsFiniteSet(S \cup T) /\ Cardinality(S \cup T) = Cardinality(S) + Cardinality(T)
  <1>1. Cardinality(S) \in Nat /\ Cardinality(T) \in Nat
    BY FS_CardinalityType
  <1> QED
    BY <1>1, FS_Union, FS_EmptySet

(* The classes of the requests of an attempt.                              *)
SixClasses == {"benign", "waf", "schema", "endpoint-denial", "rate-limit", "mud"}

(* What the verifier will look for: every class, responses of both domains *)
(* only, as they may be, and numbers within the tolerances.                *)
Proper(d, rs) ==
  /\ Traffic!metric_failures(Len(rs), d.rate, d.duration, d.latencies) = {}
  /\ \A i \in DOMAIN rs : rs[i].domain \in {Sites[1], Sites[2]} /\ rs[i].class \in SixClasses
  /\ \A c \in SixClasses : \E i \in DOMAIN rs : rs[i].class = c
  /\ Traffic!Share(Traffic!Benign(rs), Len(rs), 89, 91)
  /\ Traffic!Share(Traffic!Answered(rs), Traffic!Benign(rs), 99, 100)
  /\ ~(Traffic!TransportErrors(rs) > 0)
  /\ \A i \in DOMAIN rs : Traffic!RateLimit(rs[i]) => rs[i].code \in {200, 429}

(* The guest verifies nothing else.                                        *)
LEMMA GuestVerified ==
  ASSUME NEW d, NEW rs, Traffic!evaluate(d, rs) = {}
  PROVE  Proper(d, rs)
  <1>1. Traffic!Range(Sites) = {Sites[1], Sites[2]}
    <2>1. DOMAIN Sites = 1..2
      BY TrafficAssumption
    <2> QED
      BY <2>1 DEF Traffic!Range
  <1>2. \A f \in {"domains", "mix", "benign_success", "transport", "unexpected_response",
                  "classes", "rate_origin_response_unconfirmed"} :
          /\ ~(f = "domains" /\ {rs[i].domain : i \in DOMAIN rs} # Traffic!Range(Sites))
          /\ ~(f = "mix" /\ ~Traffic!Share(Traffic!Benign(rs), Len(rs), 89, 91))
          /\ ~(f = "benign_success"
                /\ ~Traffic!Share(Traffic!Answered(rs), Traffic!Benign(rs), 99, 100))
          /\ ~(f = "transport" /\ Traffic!TransportErrors(rs) > 0)
          /\ ~(f = "unexpected_response" /\ \E j \in DOMAIN rs : Traffic!response_failure(rs[j]))
          /\ ~(f = "classes" /\ {rs[j].class : j \in DOMAIN rs} # Traffic!CLASSES \cup {"benign"})
    BY DEF Traffic!evaluate
  <1>3. Traffic!metric_failures(Len(rs), d.rate, d.duration, d.latencies) = {}
    BY DEF Traffic!evaluate
  <1>4. /\ {rs[i].domain : i \in DOMAIN rs} = Traffic!Range(Sites)
        /\ Traffic!Share(Traffic!Benign(rs), Len(rs), 89, 91)
        /\ Traffic!Share(Traffic!Answered(rs), Traffic!Benign(rs), 99, 100)
        /\ ~(Traffic!TransportErrors(rs) > 0)
    BY <1>2
  <1>5. \A i \in DOMAIN rs : Traffic!RateLimit(rs[i]) => rs[i].code \in {200, 429}
    BY <1>2 DEF Traffic!response_failure
  <1>6. {rs[i].class : i \in DOMAIN rs} = SixClasses
    BY <1>2 DEF Traffic!CLASSES, SixClasses
  <1>7. \A i \in DOMAIN rs : rs[i].domain \in {Sites[1], Sites[2]} /\ rs[i].class \in SixClasses
    <2> TAKE i \in DOMAIN rs
    <2>1. /\ rs[i].domain \in {rs[j].domain : j \in DOMAIN rs}
          /\ rs[i].class \in {rs[j].class : j \in DOMAIN rs}
      OBVIOUS
    <2> QED
      BY <2>1, <1>1, <1>4, <1>6, Zenon
  <1>8. ASSUME NEW c \in SixClasses
        PROVE  \E i \in DOMAIN rs : rs[i].class = c
    <2>1. c \in {rs[j].class : j \in DOMAIN rs}
      BY <1>6, Zenon
    <2> QED
      BY <2>1
  <1> QED
    BY <1>3, <1>4, <1>5, <1>7, <1>8 DEF Proper

(* The responses of a class, and those to the rate probes of a domain.     *)
Of(rs, c) == {i \in DOMAIN rs : rs[i].class = c}
RateAt(rs, x, code) ==
  {i \in DOMAIN rs : Traffic!RateLimit(rs[i]) /\ rs[i].domain = x /\ rs[i].code = code}

(* The six classes make up a verified attempt.                             *)
LEMMA ClassesMakeUp ==
  ASSUME NEW T, NEW rs \in Seq(T), NEW d, Proper(d, rs)
  PROVE  /\ \A c \in SixClasses :
              Traffic!InClass(rs, c) \in Nat /\ Traffic!InClass(rs, c) # 0
         /\ Traffic!InClass(rs, "benign") + Traffic!InClass(rs, "waf")
              + Traffic!InClass(rs, "schema") + Traffic!InClass(rs, "endpoint-denial")
              + Traffic!InClass(rs, "rate-limit") + Traffic!InClass(rs, "mud") = Len(rs)
  <1>1. \A c : Traffic!InClass(rs, c) = Cardinality(Of(rs, c))
    BY SameCount DEF Traffic!InClass, Traffic!Count, Of
  <1>2. \A c : IsFiniteSet(Of(rs, c)) /\ Cardinality(Of(rs, c)) \in Nat
    <2>1. \A c : Of(rs, c) \in SUBSET DOMAIN rs
      BY DEF Of
    <2> QED
      BY <2>1, CountIs, Zenon
  <1>3. ASSUME NEW c \in SixClasses
        PROVE  Cardinality(Of(rs, c)) # 0
    <2>1. PICK i \in DOMAIN rs : rs[i].class = c
      BY DEF Proper
    <2>2. i \in Of(rs, c)
      BY <2>1 DEF Of
    <2> QED
      BY <2>2, <1>2, FS_EmptySet
  <1>4. \A c, e : c # e => Of(rs, c) \cap Of(rs, e) = {}
    BY DEF Of
  <1> DEFINE A == Of(rs, "benign")
             B == A \cup Of(rs, "waf")
             C == B \cup Of(rs, "schema")
             D == C \cup Of(rs, "endpoint-denial")
             E == D \cup Of(rs, "rate-limit")
             F == E \cup Of(rs, "mud")
  <1>5. IsFiniteSet(B) /\ Cardinality(B) = Cardinality(A) + Cardinality(Of(rs, "waf"))
    <2>1. A \cap Of(rs, "waf") = {}
      BY <1>4
    <2> QED
      BY <2>1, <1>2, Apart
  <1>6. IsFiniteSet(C) /\ Cardinality(C) = Cardinality(B) + Cardinality(Of(rs, "schema"))
    <2>1. B \cap Of(rs, "schema") = {}
      BY <1>4
    <2> QED
      BY <2>1, <1>2, <1>5, Apart
  <1>7. IsFiniteSet(D) /\ Cardinality(D) = Cardinality(C) + Cardinality(Of(rs, "endpoint-denial"))
    <2>1. C \cap Of(rs, "endpoint-denial") = {}
      BY <1>4
    <2> QED
      BY <2>1, <1>2, <1>6, Apart
  <1>8. IsFiniteSet(E) /\ Cardinality(E) = Cardinality(D) + Cardinality(Of(rs, "rate-limit"))
    <2>1. D \cap Of(rs, "rate-limit") = {}
      BY <1>4
    <2> QED
      BY <2>1, <1>2, <1>7, Apart
  <1>9. IsFiniteSet(F) /\ Cardinality(F) = Cardinality(E) + Cardinality(Of(rs, "mud"))
    <2>1. E \cap Of(rs, "mud") = {}
      BY <1>4
    <2> QED
      BY <2>1, <1>2, <1>8, Apart
  <1>10. F = DOMAIN rs
    <2>1. \A i \in DOMAIN rs : rs[i].class \in SixClasses
      BY DEF Proper
    <2> QED
      BY <2>1 DEF Of, SixClasses
  <1>11. Cardinality(F) = Len(rs)
    BY <1>10, CountIs
  <1> HIDE DEF A, B, C, D, E, F
  <1>12. Cardinality(A) = Cardinality(Of(rs, "benign"))
    BY DEF A
  <1> QED
    BY <1>1, <1>2, <1>3, <1>5, <1>6, <1>7, <1>8, <1>9, <1>11, <1>12 DEF SixClasses

(* The rate probes are those that the origin answered and those denied, at *)
(* either domain.                                                          *)
LEMMA RatesMakeUp ==
  ASSUME NEW T, NEW rs \in Seq(T), NEW d, Proper(d, rs)
  PROVE  /\ \A x, code : Traffic!At(rs, x, code) \in Nat
         /\ Traffic!OtherRate(rs) = 0
         /\ Traffic!At(rs, Sites[1], 200) + Traffic!At(rs, Sites[1], 429)
              + (Traffic!At(rs, Sites[2], 200) + Traffic!At(rs, Sites[2], 429))
              = Traffic!InClass(rs, "rate-limit")
         /\ \A x \in {Sites[1], Sites[2]} :
              Traffic!At(rs, x, 200) + Traffic!At(rs, x, 429) = 0
                => ~\E i \in DOMAIN rs : Traffic!RateLimit(rs[i]) /\ rs[i].domain = x
  <1>1. \A x, code : Traffic!At(rs, x, code) = Cardinality(RateAt(rs, x, code))
    BY SameCount DEF Traffic!At, Traffic!Count, RateAt
  <1>2. \A x, code : IsFiniteSet(RateAt(rs, x, code)) /\ Cardinality(RateAt(rs, x, code)) \in Nat
    <2>1. \A x, code : RateAt(rs, x, code) \in SUBSET DOMAIN rs
      BY DEF RateAt
    <2> QED
      BY <2>1, CountIs, Zenon
  <1>3. Traffic!OtherRate(rs) = 0
    <2>1. {i \in DOMAIN rs : Traffic!RateLimit(rs[i]) /\ rs[i].code \notin {200, 429}} = {}
      BY DEF Proper
    <2> QED
      BY <2>1, SameCount, FS_EmptySet DEF Traffic!OtherRate, Traffic!Count
  <1> DEFINE Probes(x) == RateAt(rs, x, 200) \cup RateAt(rs, x, 429)
  <1>4. ASSUME NEW x
        PROVE  /\ IsFiniteSet(Probes(x))
               /\ Cardinality(Probes(x)) = Traffic!At(rs, x, 200) + Traffic!At(rs, x, 429)
    <2>1. RateAt(rs, x, 200) \cap RateAt(rs, x, 429) = {}
      BY DEF RateAt
    <2> DEFINE P == RateAt(rs, x, 200)
               Q == RateAt(rs, x, 429)
    <2>2. IsFiniteSet(P) /\ IsFiniteSet(Q) /\ P \cap Q = {}
      BY <2>1, <1>2
    <2>3. Probes(x) = P \cup Q
      OBVIOUS
    <2>4. Cardinality(P) = Traffic!At(rs, x, 200) /\ Cardinality(Q) = Traffic!At(rs, x, 429)
      BY <1>1
    <2> HIDE DEF P, Q, Probes
    <2> QED
      BY <2>2, <2>3, <2>4, Apart
  <1>5. Probes(Sites[1]) \cup Probes(Sites[2]) = {i \in DOMAIN rs : rs[i].class = "rate-limit"}
    BY DEF RateAt, Traffic!RateLimit, Proper
  <1>6. Probes(Sites[1]) \cap Probes(Sites[2]) = {}
    BY TrafficAssumption DEF RateAt
  <1>7. Traffic!InClass(rs, "rate-limit") = Cardinality(Probes(Sites[1]) \cup Probes(Sites[2]))
    BY <1>5, SameCount DEF Traffic!InClass, Traffic!Count
  <1>8. ASSUME NEW x, Traffic!At(rs, x, 200) + Traffic!At(rs, x, 429) = 0, NEW i \in DOMAIN rs,
               Traffic!RateLimit(rs[i]), rs[i].domain = x
        PROVE  FALSE
    <2>1. i \in Probes(x)
      BY <1>8 DEF RateAt, Proper
    <2> HIDE DEF Probes
    <2>2. IsFiniteSet(Probes(x)) /\ Cardinality(Probes(x)) = 0
      BY <1>4, <1>8
    <2> QED
      BY <2>1, <2>2, FS_EmptySet
  <1> HIDE DEF Probes
  <1>9. Cardinality(Probes(Sites[1]) \cup Probes(Sites[2])) = Cardinality(Probes(Sites[1])) + Cardinality(Probes(Sites[2]))
    BY <1>4, <1>6, Apart
  <1> QED
    BY <1>1, <1>2, <1>3, <1>4, <1>7, <1>8, <1>9

(* The verifier finds nothing in the summary of what the guest verified,   *)
(* unless no rate probe went to one of the domains (evaluate and           *)
(* evaluate_summary of demo_traffic.py).                                   *)
LEMMA VerifiedIsAccepted ==
  ASSUME NEW T, NEW rs \in Seq(T), NEW d, Traffic!evaluate(d, rs) = {}
  PROVE  /\ Traffic!SummaryFailures(Traffic!Summary(d, rs)) \subseteq {"malformed_metrics"}
         /\ Traffic!SummaryFailures(Traffic!Summary(d, rs)) # {} =>
              \E x \in {Sites[1], Sites[2]} :
                ~\E i \in DOMAIN rs : Traffic!RateLimit(rs[i]) /\ rs[i].domain = x
  <1> DEFINE s == Traffic!Summary(d, rs)
             Outcomes(x) == s.rates[x].allowed + s.rates[x].denied
  <1>0. Proper(d, rs)
    BY GuestVerified
  <1>1. Traffic!Range(Sites) = {Sites[1], Sites[2]}
    <2>1. DOMAIN Sites = 1..2
      BY TrafficAssumption
    <2> QED
      BY <2>1 DEF Traffic!Range
  <1>2. /\ s.count = Len(rs) /\ s.rate = d.rate /\ s.duration = d.duration
        /\ s.latencies = d.latencies /\ s.transport = Traffic!TransportErrors(rs)
        /\ s.answered = Traffic!Answered(rs) /\ s.other = Traffic!OtherRate(rs)
    BY DEF Traffic!Summary
  <1>3. DOMAIN s.classes = SixClasses /\ \A c \in SixClasses : s.classes[c] = Traffic!InClass(rs, c)
    BY DEF Traffic!Summary, Traffic!CLASSES, SixClasses
  <1>4. /\ DOMAIN s.rates = {Sites[1], Sites[2]}
        /\ \A x \in {Sites[1], Sites[2]} :
             Outcomes(x) = Traffic!At(rs, x, 200) + Traffic!At(rs, x, 429)
    BY <1>1 DEF Traffic!Summary
  <1>5. Traffic!InClass(rs, "benign") = Traffic!Benign(rs)
    BY DEF Traffic!InClass, Traffic!Benign
  <1>6. Traffic!TransportErrors(rs) = 0
    <2>1. Traffic!TransportErrors(rs) \in Nat
      <3>1. {i \in DOMAIN rs : Traffic!transport_error(rs[i])} \in SUBSET DOMAIN rs
        OBVIOUS
      <3> QED
        BY <3>1, CountIs, SameCount DEF Traffic!TransportErrors, Traffic!Count
    <2> QED
      BY <2>1, <1>0 DEF Proper
  <1> HIDE DEF s
  <1>7. Traffic!metric_failures(s.count, s.rate, s.duration, s.latencies) = {}
    BY <1>2, <1>0 DEF Proper
  <1>8. /\ ~\E c \in DOMAIN s.classes : s.classes[c] = 0
        /\ s.classes["benign"] + s.classes["waf"] + s.classes["schema"]
             + s.classes["endpoint-denial"] + s.classes["rate-limit"] + s.classes["mud"] = s.count
    BY <1>2, <1>3, <1>0, ClassesMakeUp DEF SixClasses
  <1>9. /\ Traffic!Share(s.classes["benign"], s.count, 89, 91)
        /\ Traffic!Share(s.answered, s.classes["benign"], 99, 100)
        /\ s.transport = 0
    BY <1>2, <1>3, <1>5, <1>6, <1>0 DEF Proper, SixClasses
  <1>10. /\ s.other = 0
         /\ Outcomes(Sites[1]) + Outcomes(Sites[2]) = s.classes["rate-limit"]
         /\ \A x \in DOMAIN s.rates : Outcomes(x) = 0 =>
              ~\E i \in DOMAIN rs : Traffic!RateLimit(rs[i]) /\ rs[i].domain = x
    BY <1>2, <1>3, <1>4, <1>0, RatesMakeUp DEF SixClasses
  <1>11. \A f \in Traffic!SummaryFailures(s) :
           f = "malformed_metrics" /\ (s.other > 0 \/ \E x \in DOMAIN s.rates : Outcomes(x) = 0)
    BY <1>7, <1>8, <1>9, <1>10 DEF Traffic!SummaryFailures
  <1> QED
    BY <1>4, <1>10, <1>11 DEF s

(* Guest and verifier judge alike: of any responses to an attempt that     *)
(* sent a rate probe to either domain, as every attempt does, one has no   *)
(* complaint exactly when the other has none (evaluate and                 *)
(* evaluate_summary of demo_traffic.py).                                   *)
THEOREM JudgesAgree ==
  ToolsSpec =>
    [](/\ tool = "traffic"
       /\ \A x \in {Sites[1], Sites[2]} : \E i \in DOMAIN records :
            Traffic!RateLimit(records[i]) /\ records[i].domain = x
       => Traffic!VerifierAgrees)
  <1>1. ASSUME TrafficInv,
               \A x \in {Sites[1], Sites[2]} : \E i \in DOMAIN records :
                 Traffic!RateLimit(records[i]) /\ records[i].domain = x
        PROVE  Traffic!VerifierAgrees
    <2> SUFFICES ASSUME at = "end"
                 PROVE  failures = {} <=> summary.failures = {}
      BY DEF Traffic!VerifierAgrees
    <2>1. /\ failures = Traffic!evaluate_summary(summary)
          /\ summary = Traffic!Summary(deviation, records)
          /\ records \in Seq({records[i] : i \in DOMAIN records})
      BY <1>1 DEF TrafficInv
    <2>2. failures = {} => summary.failures = {}
      BY <2>1 DEF Traffic!evaluate_summary
    <2>3. ASSUME summary.failures = {}
          PROVE  failures = {}
      <3>1. Traffic!evaluate(deviation, records) = {}
        BY <2>1, <2>3 DEF Traffic!Summary
      <3>2. Traffic!SummaryFailures(summary) = {}
        BY <1>1, <2>1, <3>1, VerifiedIsAccepted
      <3> QED
        BY <2>1, <2>3, <3>2 DEF Traffic!evaluate_summary
    <2> QED
      BY <2>2, <2>3
  <1> QED
    BY <1>1, TrafficInvariant, PTL

-----------------------------------------------------------------------------
(* A saved file: AtomicFile_proof for the two ways of saving. save_json    *)
(* creates its temporary file exclusively, atomic opens what is there.     *)
Save == INSTANCE AtomicFile_proof WITH
  Writer <- Writers, Value <- Documents, Exclusive <- TRUE, Locked <- TRUE

Publish == INSTANCE AtomicFile_proof WITH
  Writer <- Writers, Value <- Documents, Exclusive <- FALSE, Locked <- TRUE

(* A step of save_json.                                                    *)
LEMMA SaveStep ==
  ASSUME Save!FileInv, Save!Cleans, File!Next
  PROVE  Save!FileInv' /\ Save!Cleans'
  <1>1. Save!BoundsAreNumbers /\ Save!NoneIsNothing
    BY FileAssumption
       DEF Save!BoundsAreNumbers, Save!NoneIsNothing, File!BoundsAreNumbers, File!NoneIsNothing
  <1>2. PICK w \in Writers :
          \/ File!open(w) \/ File!write(w) \/ File!rename(w) \/ File!write_fails(w)
          \/ File!cleanup(w) \/ File!crash(w)
    BY DEF File!Next
  <1>3. File!open(w) => Save!open(w)
    BY DEF File!open, File!Begins, File!Creates, File!Opens, File!Partial, Save!open,
           Save!Begins, Save!Creates, Save!Opens, Save!Partial
  <1>4. File!write(w) => Save!write(w)
    BY DEF File!write, File!Goto, File!names, Save!write, Save!Goto, Save!names
  <1>5. File!rename(w) => Save!rename(w)
    BY DEF File!rename, File!After, File!Goto, File!Leave, File!Idle, File!names, File!disk,
           Save!rename, Save!After, Save!Goto, Save!Leave, Save!Idle, Save!names, Save!disk
  <1>6. File!write_fails(w) => Save!write_fails(w)
    BY DEF File!write_fails, File!After, File!Goto, File!Leave, File!Idle, File!names, File!disk,
           Save!write_fails, Save!After, Save!Goto, Save!Leave, Save!Idle, Save!names, Save!disk
  <1>7. File!cleanup(w) => Save!cleanup(w)
    BY DEF File!cleanup, File!Leave, File!Idle, File!disk, Save!cleanup, Save!Leave, Save!Idle,
           Save!disk
  <1>8. File!crash(w) => Save!crash(w)
    BY DEF File!crash, File!names, File!disk, File!Idle, Save!crash, Save!names, Save!disk,
           Save!Idle
  <1> QED
    BY <1>1, <1>2, <1>3, <1>4, <1>5, <1>6, <1>7, <1>8, Save!FileOpens, Save!FileWrites,
       Save!FileRenames, Save!FileWriteFails, Save!FileCleans, Save!FileCrashes

(* A step of atomic.                                                       *)
LEMMA PublishStep ==
  ASSUME Publish!FileInv, Publish!Cleans, Publication!Next
  PROVE  Publish!FileInv' /\ Publish!Cleans'
  <1>1. Publish!BoundsAreNumbers /\ Publish!NoneIsNothing
    BY FileAssumption
       DEF Publish!BoundsAreNumbers, Publish!NoneIsNothing, File!BoundsAreNumbers, File!NoneIsNothing
  <1>2. PICK w \in Writers :
          \/ Publication!open(w) \/ Publication!write(w) \/ Publication!rename(w) \/ Publication!write_fails(w)
          \/ Publication!cleanup(w) \/ Publication!crash(w)
    BY DEF Publication!Next
  <1>3. Publication!open(w) => Publish!open(w)
    BY DEF Publication!open, Publication!Begins, Publication!Creates, Publication!Opens,
           Publication!Partial, Publish!open, Publish!Begins, Publish!Creates, Publish!Opens,
           Publish!Partial
  <1>4. Publication!write(w) => Publish!write(w)
    BY DEF Publication!write, Publication!Goto, Publication!names, Publish!write, Publish!Goto,
           Publish!names
  <1>5. Publication!rename(w) => Publish!rename(w)
    BY DEF Publication!rename, Publication!After, Publication!Goto, Publication!Leave,
           Publication!Idle, Publication!names, Publication!disk, Publish!rename, Publish!After,
           Publish!Goto, Publish!Leave, Publish!Idle, Publish!names, Publish!disk
  <1>6. Publication!write_fails(w) => Publish!write_fails(w)
    BY DEF Publication!write_fails, Publication!After, Publication!Goto, Publication!Leave,
           Publication!Idle, Publication!names, Publication!disk, Publish!write_fails,
           Publish!After, Publish!Goto, Publish!Leave, Publish!Idle, Publish!names, Publish!disk
  <1>7. Publication!cleanup(w) => Publish!cleanup(w)
    BY DEF Publication!cleanup, Publication!Leave, Publication!Idle, Publication!disk,
           Publish!cleanup, Publish!Leave, Publish!Idle, Publish!disk
  <1>8. Publication!crash(w) => Publish!crash(w)
    BY DEF Publication!crash, Publication!names, Publication!disk, Publication!Idle,
           Publish!crash, Publish!names, Publish!disk, Publish!Idle
  <1> QED
    BY <1>1, <1>2, <1>3, <1>4, <1>5, <1>6, <1>7, <1>8, Publish!FileOpens, Publish!FileWrites,
       Publish!FileRenames, Publish!FileWriteFails, Publish!FileCleans, Publish!FileCrashes

(* The invariant of the files, of the tool that saves one.                 *)
FilesInv ==
  /\ tool = "file" => Save!FileInv /\ Save!Cleans
  /\ tool = "publication" => Publish!FileInv /\ Publish!Cleans

(* No file has been saved yet.                                             *)
LEMMA FilesInit == ToolsInit => FilesInv
  <1>1. /\ Save!BoundsAreNumbers /\ Save!NoneIsNothing
        /\ Publish!BoundsAreNumbers /\ Publish!NoneIsNothing
    BY FileAssumption
       DEF Save!BoundsAreNumbers, Save!NoneIsNothing, Publish!BoundsAreNumbers,
           Publish!NoneIsNothing, File!BoundsAreNumbers, File!NoneIsNothing
  <1>2. File!Init => Save!Init /\ Publish!Init
    BY DEF File!Init, Save!Init, Publish!Init, File!Idle, Save!Idle, Publish!Idle, File!Inode,
           Save!Inode, Publish!Inode
  <1>3. ToolsInit /\ tool \in {"file", "publication"} => File!Init
    BY DEF ToolsInit
  <1> QED
    BY <1>1, <1>2, <1>3, Save!FileInit, Publish!FileInit DEF FilesInv

(* Nothing of the file changes.                                            *)
LEMMA FilesIdle ==
  ASSUME UNCHANGED files
  PROVE  /\ Save!FileInv /\ Save!Cleans => Save!FileInv' /\ Save!Cleans'
         /\ Publish!FileInv /\ Publish!Cleans => Publish!FileInv' /\ Publish!Cleans'
  BY DEF files, Save!FileInv, Save!TypeOK, Save!LockKept, Save!OpenIsTmp, Save!NamesApart,
         Save!FileWhole, Save!Cleans, Publish!FileInv, Publish!TypeOK, Publish!LockKept,
         Publish!OpenIsTmp, Publish!NamesApart, Publish!FileWhole, Publish!Cleans

(* Where a file is saved, the steps of the saves are the only ones.        *)
LEMMA FilesInvariant == ToolsSpec => []FilesInv
  <1>1. FilesInv /\ [ToolsNext]_allvars => FilesInv'
    <2> SUFFICES ASSUME FilesInv, [ToolsNext]_allvars
                 PROVE  FilesInv'
      OBVIOUS
    <2>1. tool' = tool
      BY DEF ToolsNext, allvars
    <2>2. tool = "file" => File!Next \/ UNCHANGED files
      BY DEF ToolsNext, allvars
    <2>3. tool = "publication" => Publication!Next \/ UNCHANGED files
      BY DEF ToolsNext, allvars
    <2> QED
      BY <2>1, <2>2, <2>3, SaveStep, PublishStep, FilesIdle DEF FilesInv
  <1> QED
    BY <1>1, FilesInit, PTL DEF ToolsSpec

(* A state file and a published file hold a whole document at every        *)
(* moment, and where nothing was killed no temporary file of the state     *)
(* outlives the saves (save_json of demo_lifecycle_state.py, atomic of     *)
(* demo_traffic.py).                                                       *)
THEOREM FilesAreSafe == ToolsSpec => []FileSafe
  <1>1. FilesInv => FileSafe
    <2>1. Save!FileInv => File!FileWhole
      BY DEF Save!FileInv, Save!FileWhole, File!FileWhole
    <2>2. Publish!FileInv => File!FileWhole
      BY DEF Publish!FileInv, Publish!FileWhole, File!FileWhole
    <2>3. Save!FileInv /\ Save!Cleans => File!NothingLeftBehind
      BY DEF Save!FileInv, Save!Cleans, Save!LockKept, File!NothingLeftBehind
    <2> QED
      BY <2>1, <2>2, <2>3 DEF FilesInv, FileSafe
  <1> QED
    BY <1>1, FilesInvariant, PTL

-----------------------------------------------------------------------------
(* The types of the tools.                                                 *)

(* What the type invariant of the absence phase says beside AbsenceInv.    *)
AbsenceRest ==
  /\ pc \in {"validate", "read", "verified", "pending", "failure"}
  /\ todo \in Seq(CheckRecord)
  /\ left \in 0..Budget /\ changes \in 0..MaxChanges

(* Every step of absence keeps them.                                       *)
LEMMA AbsenceRestKept ==
  ASSUME AbsenceInv, AbsenceRest, Next
  PROVE  AbsenceRest'
  <1>1. Budget \in Nat /\ MaxChanges \in Nat /\ manifest \in Manifest
    BY NumbersAssumption DEF AbsenceInv, AbsenceTypes
  <1>2. CASE validate
    <2>1. Checks(manifest) \in Seq(CheckRecord)
      BY <1>1, ChecksAre
    <2> QED
      BY <1>2, <2>1 DEF validate, AbsenceRest
  <1>3. CASE azure_exists \/ xc_outcome
    <2>1. left > 0 /\ todo # <<>> /\ pc = "read"
      BY <1>3 DEF azure_exists, xc_outcome, Reading
    <2>2. left' \in 0..Budget
      <3>1. left' \in {left, left - 1} \/ \E after \in {left, left - 1} : left' = after - 1 /\ after > 1
        BY <1>3 DEF azure_exists, xc_outcome, Request, may_retry
      <3> QED
        BY <1>1, <2>1, <3>1 DEF AbsenceRest
    <2>3. changes' = changes /\ pc' \in {"read", "failure"} /\ (todo' = todo \/ todo' = Tail(todo))
      BY <1>3, <2>1 DEF azure_exists, xc_outcome, Settle, Fails
    <2>4. Tail(todo) \in Seq(CheckRecord)
      BY <2>1, HeadTailProperties DEF AbsenceRest
    <2> QED
      BY <2>2, <2>3, <2>4 DEF AbsenceRest
  <1>4. CASE deadline \/ verdict
    BY <1>4 DEF deadline, verdict, Fails, AbsenceRest
  <1>5. CASE Changed
    BY <1>1, <1>5 DEF Changed, AbsenceRest
  <1> QED
    BY <1>2, <1>3, <1>4, <1>5 DEF Next, absence

(* The same in the specification of the tools.                             *)
LEMMA AbsenceRestInvariant == ToolsSpec => [](tool = "absence" => AbsenceRest)
  <1>1. ToolsInit => (tool = "absence" => AbsenceRest)
    <2>1. Init => AbsenceRest
      BY NumbersAssumption DEF Init, AbsenceRest
    <2> QED
      BY <2>1 DEF ToolsInit
  <1>2. ToolsInv /\ (tool = "absence" => AbsenceRest) /\ [ToolsNext]_allvars
          => (tool = "absence" => AbsenceRest)'
    <2>1. [ToolsNext]_allvars => tool' = tool /\ (tool = "absence" => Next \/ UNCHANGED vars)
      BY DEF ToolsNext, allvars, absences
    <2>2. AbsenceRest /\ UNCHANGED vars => AbsenceRest'
      BY DEF vars, AbsenceRest
    <2> QED
      BY <2>1, <2>2, AbsenceRestKept DEF ToolsInv
  <1> QED
    BY <1>1, <1>2, ToolsInvariant, PTL DEF ToolsSpec

(* The tools keep the types of their variables: Types, but for the two     *)
(* tools whose requests and rows are computed by recursion.                *)
THEOREM TypesAreKept ==
  ToolsSpec => [](/\ tool = "absence" => TypeOK
                  /\ tool = "readiness" => Readiness!TypeOK
                  /\ tool = "csd" => Csd!TypeOK
                  /\ tool = "harness" => Live!TypeOK
                  /\ tool \in {"file", "publication"} => File!TypeOK)
  <1>1. AbsenceInv /\ ReadsInv /\ AbsenceRest => TypeOK
    <2> SUFFICES ASSUME AbsenceInv, ReadsInv, AbsenceRest
                 PROVE  TypeOK
      OBVIOUS
    <2>1. \A i \in DOMAIN todo : todo[i].object \in Azure \cup XcPath
      <3>1. DOMAIN todo = 1..Len(todo) /\ \A i \in 1..Len(todo) : todo[i] \in CheckRecord
        BY LenProperties, ElementOfSeq DEF AbsenceRest
      <3> QED
        BY <3>1 DEF CheckRecord, Object
    <2> QED
      BY <2>1 DEF AbsenceInv, AbsenceTypes, ReadsInv, AbsenceRest, Object, TypeOK
  <1>2. Save!FileInv => File!TypeOK
    BY DEF Save!FileInv, Save!TypeOK, File!TypeOK, Save!Inode, File!Inode, Save!Writing,
           File!Writing, Save!Partial, File!Partial
  <1>3. Publish!FileInv => File!TypeOK
    BY DEF Publish!FileInv, Publish!TypeOK, File!TypeOK, Publish!Inode, File!Inode,
           Publish!Writing, File!Writing, Publish!Partial, File!Partial
  <1>4. HarnessInv => Live!TypeOK
    BY DEF HarnessInv, HarnessTypes
  <1>5. CsdInv => Csd!TypeOK
    BY DEF CsdInv, CsdTypes
  <1>6. ReadinessInv => Readiness!TypeOK
    BY ReadinessProven
  <1>7. /\ ToolsInv /\ FilesInv
        /\ tool = "absence" => AbsenceRest
        /\ tool = "readiness" => ReadinessInv
        /\ tool = "csd" => CsdInv
        /\ tool = "harness" => HarnessInv
        => /\ tool = "absence" => TypeOK
           /\ tool = "readiness" => Readiness!TypeOK
           /\ tool = "csd" => Csd!TypeOK
           /\ tool = "harness" => Live!TypeOK
           /\ tool \in {"file", "publication"} => File!TypeOK
    BY <1>1, <1>2, <1>3, <1>4, <1>5, <1>6, Zenon DEF ToolsInv, FilesInv
  <1> QED
    BY <1>7, ToolsInvariant, FilesInvariant, AbsenceRestInvariant, ReadinessInvariant,
       CsdInvariant, HarnessInvariant, PTL
=============================================================================
