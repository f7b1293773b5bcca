------------------------ MODULE TelemetryPages_proof ------------------------
(* Proofs about TelemetryPages: its types, that splitting loses no window,    *)
(* and that it implements CompleteRead.                                       *)
EXTENDS TelemetryPages, SequenceTheorems, FiniteSetTheorems, TLAPS

(* A listing names every record of its set once.                              *)
LEMMA ListingComplete ==
  ASSUME NEW S \in SUBSET Record
  PROVE  /\ Cardinality(S) \in Nat
         /\ Listing(S) \in Seq(Record) /\ Len(Listing(S)) = Cardinality(S)
         /\ {Listing(S)[i] : i \in 1..Cardinality(S)} = S
  <1> DEFINE Before(r) == {s \in S : <<s, r>> \in Newer}
             Rank(r) == Cardinality(Before(r))
             n == Cardinality(S)
             place == [r \in S |-> Rank(r) + 1]
  <1>1. IsFiniteSet(S) /\ n \in Nat
    BY RecordAssumption, FS_Subset, FS_CardinalityType
  <1>2. \A r \in S : IsFiniteSet(Before(r)) /\ Rank(r) \in 0..(n - 1)
    <2> SUFFICES ASSUME NEW r \in S
                 PROVE  IsFiniteSet(Before(r)) /\ Rank(r) \in 0..(n - 1)
      OBVIOUS
    <2>1. Before(r) \in SUBSET (S \ {r})
      BY OrderAssumption
    <2>2. IsFiniteSet(S \ {r}) /\ Cardinality(S \ {r}) = n - 1
      BY <1>1, FS_RemoveElement
    <2>3. IsFiniteSet(Before(r)) /\ Rank(r) <= n - 1
      BY <2>1, <2>2, FS_Subset
    <2>4. Rank(r) \in Nat
      BY <2>3, FS_CardinalityType
    <2> QED
      BY <1>1, <2>3, <2>4
  <1>3. \A r, t \in S : <<r, t>> \in Newer => Rank(r) < Rank(t)
    <2> SUFFICES ASSUME NEW r \in S, NEW t \in S, <<r, t>> \in Newer
                 PROVE  Rank(r) < Rank(t)
      OBVIOUS
    <2>1. Before(r) \in SUBSET Before(t) /\ r \in Before(t) /\ r \notin Before(r)
      BY OrderAssumption
    <2>2. Rank(r) <= Rank(t) /\ (Rank(t) = Rank(r) => Before(t) = Before(r))
      BY <1>2, <2>1, FS_Subset
    <2> HIDE DEF Before
    <2>3. Rank(r) # Rank(t)
      BY <2>1, <2>2
    <2>4. Rank(r) \in Int /\ Rank(t) \in Int
      BY <1>2
    <2> QED
      BY <2>2, <2>3, <2>4
  <1> HIDE DEF Before
  <1>4. \A r, t \in S : Rank(r) = Rank(t) => r = t
    <2> SUFFICES ASSUME NEW r \in S, NEW t \in S, Rank(r) = Rank(t), r # t PROVE FALSE
      OBVIOUS
    <2>1. <<r, t>> \in Newer \/ <<t, r>> \in Newer
      BY OrderAssumption
    <2>2. Rank(r) \in Int /\ Rank(t) \in Int
      BY <1>2
    <2> HIDE DEF Rank
    <2> QED
      BY <1>3, <2>1, <2>2
  <1>5. place \in Injection(S, 1..n)
    <2>1. \A r \in S : Rank(r) + 1 \in 1..n
      BY <1>1, <1>2
    <2>2. \A r, t \in S : Rank(r) + 1 = Rank(t) + 1 => r = t
      BY <1>2, <1>4
    <2> HIDE DEF Rank, n
    <2> QED
      BY <2>1, <2>2 DEF Injection, IsInjective
  <1>6. place \in Surjection(S, 1..n)
    <2>1. IsFiniteSet(1..n) /\ Cardinality(1..n) = n
      BY <1>1, FS_Interval
    <2> HIDE DEF place
    <2> QED
      BY <1>1, <1>5, <2>1, FS_Injection
  <1> HIDE DEF n
  <1>7. \A i \in 1..n : \E r \in S : Rank(r) = i - 1
    <2> SUFFICES ASSUME NEW i \in 1..n PROVE \E r \in S : Rank(r) = i - 1
      OBVIOUS
    <2>1. PICK r \in S : place[r] = i
      BY <1>6 DEF Surjection
    <2>2. Rank(r) + 1 = i /\ Rank(r) \in Int
      BY <1>2, <2>1
    <2> QED
      BY <2>2
  <1>8. Listing(S) = [i \in 1..n |-> CHOOSE r \in S : Rank(r) = i - 1]
    BY DEF Listing, n, Before
  <1>9. \A i \in 1..n : Listing(S)[i] \in S /\ Rank(Listing(S)[i]) = i - 1
    BY <1>7, <1>8
  <1>10. Listing(S) \in [1..n -> Record]
    BY <1>8, <1>9
  <1>11. Listing(S) \in Seq(Record)
    BY <1>1, <1>10, SeqDef DEF n
  <1>12. Len(Listing(S)) = n
    <2>1. 1..Len(Listing(S)) = 1..n /\ Len(Listing(S)) \in Nat /\ n \in Nat
      BY <1>1, <1>10, <1>11, LenProperties DEF n
    <2> QED
      BY <2>1
  <1>13. \A r \in S : \E i \in 1..n : Listing(S)[i] = r
    <2> SUFFICES ASSUME NEW r \in S PROVE \E i \in 1..n : Listing(S)[i] = r
      OBVIOUS
    <2> HIDE DEF Rank
    <2>1. Rank(r) + 1 \in 1..n /\ Rank(r) \in Int
      BY <1>1, <1>2 DEF n
    <2>2. /\ Listing(S)[Rank(r) + 1] \in S
          /\ Rank(Listing(S)[Rank(r) + 1]) = Rank(r)
      <3> DEFINE j == Rank(r) + 1
      <3>1. j \in 1..n /\ j - 1 = Rank(r)
        BY <2>1
      <3> HIDE DEF j
      <3>2. Listing(S)[j] \in S /\ Rank(Listing(S)[j]) = j - 1
        BY <1>9, <3>1
      <3> QED
        BY <3>1, <3>2 DEF j
    <2> QED
      BY <1>4, <2>1, <2>2
  <1> QED
    BY <1>1, <1>9, <1>11, <1>12, <1>13 DEF n

(* The two halves of a window are windows, and together they ask for all that *)
(* the window asked for.                                                      *)
LEMMA HalvesCover ==
  ASSUME NEW w \in Window
  PROVE  \E a, b \in Window :
           /\ Halves(w) = <<a, b>>
           /\ Query(w) \subseteq Query(a) \cup Query(b)
  <1> DEFINE mid == (w[1] + w[2]) \div 2
             a == <<w[1], mid>>
             b == <<mid, w[2]>>
  <1>1. /\ w = <<w[1], w[2]>> /\ w[1] \in Nat /\ w[2] \in Nat
        /\ w[1] <= w[2] /\ w[2] <= MaxTime /\ MaxTime \in Nat /\ MinWindow \in Nat
    BY NumbersAssumption DEF Window
  <1>2. mid \in Nat /\ w[1] <= mid /\ mid <= w[2]
    BY <1>1
  <1> HIDE DEF mid
  <1>3. a \in Window /\ b \in Window
    BY <1>1, <1>2 DEF Window
  <1>4. Query(w) \subseteq Query(a) \cup Query(b)
    <2> SUFFICES ASSUME NEW r \in Query(w) PROVE r \in Query(a) \cup Query(b)
      OBVIOUS
    <2>1. r \in Record /\ TimeOf[r] \in Nat
      BY TimeAssumption DEF Query
    <2>2. /\ (IF w[1] < w[2] - MinWindow THEN w[1] ELSE w[2] - MinWindow) <= TimeOf[r]
          /\ TimeOf[r] <= w[2] + 1
      BY DEF Query
    <2>3. CASE TimeOf[r] <= mid
      <3>1. /\ (IF w[1] < mid - MinWindow THEN w[1] ELSE mid - MinWindow) <= TimeOf[r]
            /\ TimeOf[r] <= mid + 1
        BY <1>1, <1>2, <2>1, <2>2, <2>3
      <3> QED
        BY <2>1, <3>1 DEF Query
    <2>4. CASE TimeOf[r] > mid
      <3>1. /\ (IF mid < w[2] - MinWindow THEN mid ELSE w[2] - MinWindow) <= TimeOf[r]
            /\ TimeOf[r] <= w[2] + 1
        BY <1>1, <1>2, <2>1, <2>2, <2>4
      <3> QED
        BY <2>1, <3>1 DEF Query
    <2> QED
      BY <1>2, <2>1, <2>3, <2>4
  <1>5. Halves(w) = <<a, b>>
    BY DEF Halves, mid
  <1> QED
    BY <1>3, <1>4, <1>5

-----------------------------------------------------------------------------
(* What the page being read promises: a scroll shows the records of a set     *)
(* that holds all that is wanted of its window, and the pages so far are the  *)
(* beginning of its listing.                                                  *)
Covers(S) ==
  /\ S \subseteq index \cap Query(scroll.window)
  /\ wanted \cap Query(scroll.window) \subseteq S
Begins(S) ==
  /\ Len(records) <= Cardinality(S)
  /\ \A i \in 1..Len(records) : records[i] = Listing(S)[i]

ScrollOK ==
  /\ scroll.window \in Window
  /\ scroll.kept = None \/ \E S : Covers(S) /\ scroll.kept = Listing(S)
PrefixOK ==
  \/ total = None /\ records = <<>>
  \/ \E S : /\ Covers(S) /\ Begins(S) /\ total = Cardinality(S)
            /\ scroll.kept = None \/ scroll.kept = Listing(S)

TypesOK ==
  /\ index \subseteq Record
  /\ wanted \in (SUBSET Record) \cup {None} /\ result \in (SUBSET Record) \cup {None}
  /\ pc \in {"idle", "open", "page", "failed"}
  /\ stack \in Seq(Window) /\ (scroll = None \/ scroll.window \in Window)
  /\ records \in Seq(Record)
  /\ total \in Nat \cup {None} /\ pages \in 0..(MaxPages - 1)
  /\ gathered \subseteq index /\ repeated \in BOOLEAN /\ inserts \in 0..MaxInserts
  /\ \A b \in seen : b \in Seq(Record) /\ \A i \in 1..Len(b) : b[i] \in index
CourseOK ==
  /\ wanted = None => result = None /\ pc = "idle"
  /\ pc \in {"open", "page"} => wanted # None /\ result = None
  /\ wanted # None => wanted \subseteq index
Pending(r) == \E i \in DOMAIN stack : r \in Query(stack[i])
CoverOK ==
  ~repeated /\ pc \in {"open", "page"} =>
    \A r \in wanted : r \in gathered \/ Pending(r) \/ (pc = "page" /\ r \in Query(scroll.window))

ReadInv == TypesOK /\ CourseOK /\ CoverOK /\ (pc = "page" => ScrollOK /\ PrefixOK)

LEMMA ReadTypes == ReadInv => Inv
  <1> SUFFICES ASSUME ReadInv PROVE Inv
    OBVIOUS
  <1>1. TypeOK
    <2>1. \A i \in DOMAIN stack : stack[i] \in Window
      <3>1. stack \in Seq(Window)
        BY DEF ReadInv, TypesOK
      <3> QED
        BY <3>1, LenProperties, ElementOfSeq
    <2>2. \A i \in DOMAIN records : records[i] \in Record
      <3>1. records \in Seq(Record)
        BY DEF ReadInv, TypesOK
      <3> QED
        BY <3>1, LenProperties, ElementOfSeq
    <2> QED
      BY <2>1, <2>2 DEF ReadInv, TypesOK, TypeOK
  <1>2. StackCovers
    BY DEF ReadInv, CoverOK, StackCovers, Pending
  <1> QED
    BY <1>1, <1>2 DEF Inv

(* The listing that the scroll shows is one the pages so far began, because a *)
(* total that has not changed means a growing index that has not.             *)
LEMMA ShownListing ==
  ASSUME ReadInv, pc = "page", total \in {None, Len(Shown)}
  PROVE  \E S \in SUBSET Record : Covers(S) /\ Begins(S) /\ Shown = Listing(S)
  <1> DEFINE now == index \cap Query(scroll.window)
  <1>1. Covers(now) /\ now \in SUBSET Record
    BY DEF ReadInv, TypesOK, CourseOK, Covers
  <1>2. \A S : Covers(S) => S \in SUBSET Record
    BY DEF ReadInv, TypesOK, Covers
  <1>3. scroll.kept = None => Shown = Listing(now)
    BY DEF Shown
  <1>4. scroll.kept # None => Shown = scroll.kept
    BY DEF Shown
  <1>5. CASE total = None /\ records = <<>>
    <2>1. \A S \in SUBSET Record : Begins(S)
      BY <1>5, EmptySeq, ListingComplete DEF Begins
    <2>2. CASE scroll.kept = None
      BY <1>1, <1>3, <2>1, <2>2
    <2>3. CASE scroll.kept # None
      <3>1. PICK S : Covers(S) /\ scroll.kept = Listing(S)
        BY <2>3 DEF ReadInv, ScrollOK
      <3> QED
        BY <1>2, <1>4, <2>1, <2>3, <3>1
    <2> QED
      BY <2>2, <2>3
  <1>6. CASE \E S : /\ Covers(S) /\ Begins(S) /\ total = Cardinality(S)
                    /\ scroll.kept = None \/ scroll.kept = Listing(S)
    <2>1. PICK S : /\ Covers(S) /\ Begins(S) /\ total = Cardinality(S)
                   /\ scroll.kept = None \/ scroll.kept = Listing(S)
      BY <1>6
    <2>2. S \in SUBSET Record
      BY <1>2, <2>1
    <2>3. CASE scroll.kept # None
      BY <1>4, <2>1, <2>2, <2>3
    <2>4. CASE scroll.kept = None
      <3>1. Cardinality(S) = Cardinality(now)
        <4>1. total # None
          BY <2>1, <2>2, ListingComplete, RecordAssumption
        <4> QED
          BY <1>1, <1>3, <2>1, <2>4, <4>1, ListingComplete
      <3>2. S \in SUBSET now /\ IsFiniteSet(now)
        BY <1>1, <2>1, FS_Subset, RecordAssumption DEF Covers
      <3>3. S = now
        BY <3>1, <3>2, FS_Subset
      <3> QED
        BY <1>3, <2>1, <2>2, <2>4, <3>3
    <2> QED
      BY <2>3, <2>4
  <1> QED
    BY <1>5, <1>6 DEF ReadInv, PrefixOK

(* A page that does not repeat continues the listing.                         *)
LEMMA PageContinues ==
  ASSUME ReadInv, NEW S \in SUBSET Record, Begins(S), Shown = Listing(S),
         NEW batch \in Following
  PROVE  /\ batch \in Seq(Record) /\ \A i \in 1..Len(batch) : batch[i] \in S
         /\ records \o batch \in Seq(Record)
         /\ Len(records \o batch) <= Cardinality(S)
         /\ \A i \in 1..Len(records \o batch) : (records \o batch)[i] = Listing(S)[i]
  <1> DEFINE done == Len(records)
             all == Cardinality(S)
  <1>1. /\ Listing(S) \in Seq(Record) /\ Len(Listing(S)) = all /\ all \in Nat
        /\ \A i \in 1..all : Listing(S)[i] \in Record
    BY ListingComplete, ElementOfSeq
  <1>2. records \in Seq(Record) /\ done \in Nat /\ done <= all
    BY LenProperties DEF ReadInv, TypesOK, Begins
  <1>3. PICK n \in 0..Min2(PageLimit, all - done) : batch = SubSeq(Listing(S), done + 1, done + n)
    BY <1>1 DEF Following
  <1> HIDE DEF done, all
  <1>4. n \in Nat /\ done + n <= all
    BY <1>1, <1>2, <1>3, NumbersAssumption DEF Min2
  <1>5. \A i \in (done + 1)..(done + n) : Listing(S)[i] \in Record
    BY <1>1, <1>2, <1>4
  <1>6. /\ batch \in Seq(Record) /\ Len(batch) = n
        /\ \A i \in 1..n : batch[i] = Listing(S)[done + i]
    <2> DEFINE low == done + 1
               high == done + n
               shown == Listing(S)
    <2>1. low \in Int /\ high \in Int /\ \A i \in low..high : shown[i] \in Record
      BY <1>2, <1>4, <1>5
    <2>0. batch = SubSeq(shown, low, high)
      BY <1>3
    <2> HIDE DEF low, high, shown
    <2>5. /\ batch \in Seq(Record)
          /\ Len(batch) = IF low <= high THEN high - low + 1 ELSE 0
          /\ \A i \in 1..(high - low + 1) : batch[i] = shown[low + i - 1]
      BY <2>0, <2>1, SubSeqProperties
    <2>2. high - low + 1 = n /\ (low <= high \/ n = 0) /\ \A i \in 1..n : low + i - 1 = done + i
      BY <1>2, <1>4 DEF low, high
    <2>3. Len(batch) = n
      BY <1>2, <1>4, <2>2, <2>5 DEF low, high
    <2>4. \A i \in 1..n : batch[i] = shown[done + i]
      BY <2>2, <2>5
    <2> QED
      BY <2>3, <2>4, <2>5 DEF shown
  <1>7. /\ records \o batch \in Seq(Record) /\ Len(records \o batch) = done + n
        /\ \A i \in 1..(done + n) :
             (records \o batch)[i] = IF i <= done THEN records[i] ELSE batch[i - done]
    BY <1>2, <1>6, ConcatProperties DEF done
  <1>8. \A i \in 1..(done + n) : (records \o batch)[i] = Listing(S)[i]
    <2> SUFFICES ASSUME NEW i \in 1..(done + n)
                 PROVE  (records \o batch)[i] = Listing(S)[i]
      OBVIOUS
    <2>1. CASE i <= done
      <3>1. i \in 1..Len(records)
        BY <1>2, <2>1 DEF done
      <3>2. records[i] = Listing(S)[i]
        BY <3>1 DEF Begins
      <3> QED
        BY <1>7, <2>1, <3>2
    <2>2. CASE i > done
      <3>1. i - done \in 1..n /\ done + (i - done) = i /\ ~(i <= done)
        BY <1>2, <1>4, <2>2
      <3> QED
        BY <1>6, <1>7, <3>1
    <2>3. i <= done \/ i > done
      BY <1>2, <1>4
    <2> QED
      BY <2>1, <2>2, <2>3
  <1>9. \A i \in 1..n : batch[i] \in S
    <2>1. \A i \in 1..n : done + i \in 1..all
      BY <1>1, <1>2, <1>4
    <2>2. \A k \in 1..all : Listing(S)[k] \in S
      BY ListingComplete DEF all
    <2> QED
      BY <1>6, <2>1, <2>2
  <1> QED
    BY <1>4, <1>6, <1>7, <1>8, <1>9 DEF all

-----------------------------------------------------------------------------
(* The stack of windows: what is pushed on it, and what is left of it.        *)
LEMMA PushHalves ==
  ASSUME NEW w \in Window, NEW s \in Seq(Window)
  PROVE  /\ Halves(w) \o s \in Seq(Window)
         /\ \A r \in Query(w) : \E i \in DOMAIN (Halves(w) \o s) : r \in Query((Halves(w) \o s)[i])
         /\ \A i \in DOMAIN s : \E j \in DOMAIN (Halves(w) \o s) : (Halves(w) \o s)[j] = s[i]
  <1>1. PICK a \in Window, b \in Window :
          Halves(w) = <<a, b>> /\ Query(w) \subseteq Query(a) \cup Query(b)
    BY HalvesCover
  <1> DEFINE new == <<a, b>> \o s
  <1>2. <<a, b>> \in Seq(Window) /\ Len(<<a, b>>) = 2
    OBVIOUS
  <1>3. Len(s) \in Nat /\ DOMAIN s = 1..Len(s)
    BY LenProperties
  <1>4. /\ new \in Seq(Window) /\ Len(new) = 2 + Len(s)
        /\ \A i \in 1..(2 + Len(s)) : new[i] = IF i <= 2 THEN <<a, b>>[i] ELSE s[i - 2]
    BY <1>2, ConcatProperties
  <1> HIDE DEF new
  <1>5. DOMAIN new = 1..(2 + Len(s))
    BY <1>4, LenProperties
  <1>6. new[1] = a /\ new[2] = b /\ 1 \in DOMAIN new /\ 2 \in DOMAIN new
    BY <1>3, <1>4, <1>5
  <1>7. \A i \in DOMAIN s : i + 2 \in DOMAIN new /\ new[i + 2] = s[i]
    BY <1>3, <1>4, <1>5
  <1>8. Halves(w) \o s = new
    BY <1>1 DEF new
  <1> QED
    BY <1>1, <1>4, <1>6, <1>7, <1>8

LEMMA PopWindow ==
  ASSUME NEW s \in Seq(Window), s # <<>>
  PROVE  /\ Head(s) \in Window /\ Tail(s) \in Seq(Window)
         /\ \A i \in DOMAIN s : s[i] = Head(s) \/ \E j \in DOMAIN Tail(s) : Tail(s)[j] = s[i]
  <1>1. /\ Head(s) \in Window /\ Tail(s) \in Seq(Window) /\ Len(Tail(s)) = Len(s) - 1
        /\ \A i \in 1..Len(Tail(s)) : Tail(s)[i] = s[i + 1]
    BY HeadTailProperties
  <1>2. Len(s) \in Nat \ {0} /\ DOMAIN s = 1..Len(s) /\ DOMAIN Tail(s) = 1..(Len(s) - 1)
    BY <1>1, LenProperties, EmptySeq
  <1>3. Head(s) = s[1]
    OBVIOUS
  <1>4. ASSUME NEW i \in 1..Len(s), i # 1
        PROVE  i - 1 \in DOMAIN Tail(s) /\ Tail(s)[i - 1] = s[i]
    <2>1. i - 1 \in 1..(Len(s) - 1) /\ (i - 1) + 1 = i
      BY <1>2, <1>4
    <2> QED
      BY <1>1, <1>2, <2>1
  <1> QED
    BY <1>1, <1>2, <1>3, <1>4

LEMMA InitRead == Init => ReadInv
  <1> SUFFICES ASSUME Init PROVE ReadInv
    OBVIOUS
  <1>1. stack \in Seq(Window) /\ records \in Seq(Record)
    BY EmptySeq DEF Init
  <1>2. 0 \in 0..(MaxPages - 1) /\ 0 \in 0..MaxInserts
    BY NumbersAssumption
  <1>3. TypesOK
    BY <1>1, <1>2 DEF Init, TypesOK
  <1> QED
    BY <1>3 DEF Init, ReadInv, CourseOK, CoverOK

LEMMA AskRead ==
  ASSUME ReadInv, ask
  PROVE  ReadInv'
  <1>1. PICK w \in Window :
          /\ wanted' = {r \in index : w[1] <= TimeOf[r] /\ TimeOf[r] <= w[2]}
          /\ stack' = <<w>>
    BY DEF ask
  <1>2. wanted' \in SUBSET index /\ wanted' # None /\ pc' = "open" /\ result = None
    BY <1>1, RecordAssumption DEF ask, ReadInv, TypesOK, CourseOK
  <1>3. stack' \in Seq(Window)
    BY <1>1
  <1>4. TypesOK'
    BY <1>2, <1>3 DEF ask, local, taken, ReadInv, TypesOK
  <1>5. CourseOK'
    BY <1>2 DEF ask, CourseOK
  <1>6. CoverOK'
    <2> SUFFICES ASSUME NEW r \in wanted' PROVE Pending(r)'
      BY DEF CoverOK
    <2>1. /\ r \in Record /\ TimeOf[r] \in Nat /\ w[1] <= TimeOf[r] /\ TimeOf[r] <= w[2]
          /\ w[1] \in Nat /\ w[2] \in Nat /\ MinWindow \in Nat
      BY <1>1, TimeAssumption, NumbersAssumption DEF Window, ReadInv, TypesOK
    <2>2. r \in Query(w)
      BY <2>1 DEF Query
    <2>3. 1 \in DOMAIN stack' /\ stack'[1] = w
      BY <1>1
    <2> QED
      BY <2>2, <2>3 DEF Pending
  <1> QED
    BY <1>2, <1>4, <1>5, <1>6 DEF ReadInv

LEMMA OpenRead ==
  ASSUME ReadInv, open
  PROVE  ReadInv'
  <1>0. /\ pc = "open" /\ wanted # None /\ result = None /\ wanted \subseteq index
        /\ UNCHANGED <<index, wanted, gathered, repeated, inserts>> /\ stack \in Seq(Window)
    BY DEF open, taken, ReadInv, CourseOK, TypesOK
  <1>1. CASE stack = <<>>
    BY <1>0, <1>1 DEF open, local, ReadInv, TypesOK, CourseOK, CoverOK
  <1>2. CASE stack # <<>> /\ Long(Head(stack))
    <2>1. /\ stack' = Halves(Head(stack)) \o Tail(stack)
          /\ UNCHANGED <<result, pc, scroll, records, total, seen, pages>>
      BY <1>2 DEF open, local
    <2>2. Head(stack) \in Window /\ Tail(stack) \in Seq(Window)
      BY <1>0, <1>2, PopWindow
    <2>3. stack' \in Seq(Window)
      BY <2>1, <2>2, PushHalves
    <2>4. \A r : Pending(r) => Pending(r)'
      <3> SUFFICES ASSUME NEW r, NEW i \in DOMAIN stack, r \in Query(stack[i]) PROVE Pending(r)'
        BY DEF Pending
      <3>1. CASE stack[i] = Head(stack)
        BY <2>1, <2>2, <3>1, PushHalves DEF Pending
      <3>2. CASE \E j \in DOMAIN Tail(stack) : Tail(stack)[j] = stack[i]
        <4>1. PICK j \in DOMAIN Tail(stack) : Tail(stack)[j] = stack[i]
          BY <3>2
        <4>2. \E k \in DOMAIN stack' : stack'[k] = Tail(stack)[j]
          BY <2>1, <2>2, <4>1, PushHalves
        <4> QED
          BY <4>1, <4>2 DEF Pending
      <3> QED
        BY <1>0, <1>2, <3>1, <3>2, PopWindow
    <2>5. TypesOK' /\ CourseOK'
      BY <1>0, <2>1, <2>3 DEF ReadInv, TypesOK, CourseOK
    <2>6. CoverOK'
      BY <1>0, <2>1, <2>4 DEF ReadInv, CoverOK
    <2> QED
      BY <1>0, <2>1, <2>5, <2>6 DEF ReadInv
  <1>3. CASE stack # <<>> /\ ~Long(Head(stack))
    <2>1. PICK kept \in {None, Listing(index \cap Query(Head(stack)))} :
            scroll' = [window |-> Head(stack), kept |-> kept]
      BY <1>3 DEF open
    <2>2. /\ stack' = Tail(stack) /\ records' = <<>> /\ total' = None /\ seen' = {} /\ pages' = 0
          /\ pc' = "page" /\ UNCHANGED result
      BY <1>3 DEF open
    <2>3. /\ Head(stack) \in Window /\ Tail(stack) \in Seq(Window)
          /\ \A i \in DOMAIN stack :
               stack[i] = Head(stack) \/ \E j \in DOMAIN Tail(stack) : Tail(stack)[j] = stack[i]
      BY <1>0, <1>3, PopWindow
    <2>4. scroll'.window = Head(stack) /\ scroll'.kept = kept
      BY <2>1
    <2>5. TypesOK' /\ CourseOK'
      BY <1>0, <2>2, <2>3, <2>4, EmptySeq, NumbersAssumption DEF ReadInv, TypesOK, CourseOK
    <2>6. CoverOK'
      <3> SUFFICES ASSUME ~repeated, NEW r \in wanted, r \notin gathered
                   PROVE  Pending(r)' \/ r \in Query(scroll'.window)
        BY <1>0, <2>2 DEF CoverOK
      <3>1. PICK i \in DOMAIN stack : r \in Query(stack[i])
        BY <1>0 DEF ReadInv, CoverOK, Pending
      <3> QED
        BY <2>2, <2>3, <2>4, <3>1 DEF Pending
    <2>7. ScrollOK'
      <3>1. PICK S : S = index \cap Query(Head(stack))
        OBVIOUS
      <3>2. Covers(S)'
        BY <1>0, <2>4, <3>1 DEF Covers
      <3>3. kept = None \/ kept = Listing(S)
        BY <2>1, <3>1
      <3> QED
        BY <2>3, <2>4, <3>2, <3>3 DEF ScrollOK
    <2>8. PrefixOK'
      BY <2>2 DEF PrefixOK
    <2> QED
      BY <2>5, <2>6, <2>7, <2>8 DEF ReadInv
  <1> QED
    BY <1>1, <1>2, <1>3

LEMMA PageRead ==
  ASSUME ReadInv, page
  PROVE  ReadInv'
  <1>0. /\ pc = "page" /\ wanted # None /\ result = None /\ wanted \subseteq index
        /\ UNCHANGED <<index, wanted, result, scroll, inserts>>
        /\ stack \in Seq(Window) /\ scroll.window \in Window /\ ScrollOK /\ total \in {None, Len(Shown)}
    BY DEF page, ReadInv, CourseOK, TypesOK, ScrollOK
  <1>1. PICK batch \in Batches :
          LET found == records \o batch IN
            /\ Len(found) <= Len(Shown)
            /\ \/ Len(found) = Len(Shown) /\ Whole(batch, found)
               \/ /\ Len(found) < Len(Shown)
                  /\ batch \notin seen
                  /\ More(batch, found) \/ Split
    BY DEF page
  <1> DEFINE found == records \o batch
  <1>2. PICK S \in SUBSET Record : Covers(S) /\ Begins(S) /\ Shown = Listing(S)
    BY <1>0, ShownListing
  <1>3. ASSUME batch \in Following
        PROVE  /\ batch \in Seq(Record) /\ \A i \in 1..Len(batch) : batch[i] \in index
               /\ found \in Seq(Record) /\ Len(found) <= Cardinality(S)
               /\ \A i \in 1..Len(found) : found[i] = Listing(S)[i]
    BY <1>2, <1>3, PageContinues DEF Covers
  <1>4. /\ Cardinality(S) \in Nat /\ Len(Shown) = Cardinality(S)
        /\ {Listing(S)[i] : i \in 1..Cardinality(S)} = S
    BY <1>2, ListingComplete
  <1>9. batch \notin seen => batch \in Following
    BY DEF Batches
  <1>8. CASE Len(found) = Len(Shown) /\ Whole(batch, found) /\ batch \in seen
    <2>1. /\ batch \in Seq(Record) /\ \A i \in 1..Len(batch) : batch[i] \in index
          /\ records \in Seq(Record) /\ \A i \in 1..Len(records) : records[i] \in index
      <3>1. batch \in Seq(Record) /\ \A i \in 1..Len(batch) : batch[i] \in index
        BY <1>8 DEF ReadInv, TypesOK
      <3>2. records \in Seq(Record)
        BY DEF ReadInv, TypesOK
      <3>3. \A i \in 1..Len(records) : records[i] \in S
        <4>1. \A i \in 1..Len(records) : i \in 1..Cardinality(S) /\ records[i] = Listing(S)[i]
          BY <1>2, <1>4, <3>2, LenProperties DEF Begins
        <4> QED
          BY <1>4, <4>1
      <3> QED
        BY <1>2, <3>1, <3>2, <3>3 DEF Covers
    <2>2. {found[i] : i \in DOMAIN found} \subseteq index
      <3>1. /\ found \in Seq(Record) /\ Len(found) = Len(records) + Len(batch)
            /\ \A i \in 1..Len(found) :
                 found[i] = IF i <= Len(records) THEN records[i] ELSE batch[i - Len(records)]
        BY <2>1, ConcatProperties
      <3>2. Len(records) \in Nat /\ Len(batch) \in Nat /\ DOMAIN found = 1..Len(found)
        BY <2>1, <3>1, LenProperties
      <3> HIDE DEF found
      <3>3. \A i \in 1..Len(found) : found[i] \in index
        BY <2>1, <3>1, <3>2
      <3> QED
        BY <3>2, <3>3
    <2>3. /\ gathered' \subseteq index /\ repeated' = TRUE /\ pc' = "open"
          /\ UNCHANGED <<stack, records, total, seen, pages>>
      BY <1>8, <2>2 DEF Whole, local, ReadInv, TypesOK
    <2>4. TypesOK' /\ CourseOK' /\ CoverOK'
      BY <1>0, <2>3 DEF ReadInv, TypesOK, CourseOK, CoverOK
    <2> QED
      BY <2>3, <2>4 DEF ReadInv
  <1> HIDE DEF found
  <1>5. CASE Len(found) = Len(Shown) /\ Whole(batch, found) /\ batch \notin seen
    <2>1. gathered' = gathered \cup S /\ pc' = "open" /\ repeated' = repeated
          /\ UNCHANGED <<stack, records, total, seen, pages>>
      <3>1. DOMAIN found = 1..Cardinality(S)
        BY <1>3, <1>4, <1>5, <1>9, LenProperties
      <3>2. {found[i] : i \in DOMAIN found} = S
        BY <1>3, <1>4, <1>5, <1>9, <3>1
      <3> QED
        BY <1>5, <3>2 DEF Whole, local, ReadInv, TypesOK
    <2>2. S \subseteq index /\ wanted \cap Query(scroll.window) \subseteq S
      BY <1>2 DEF Covers
    <2>3. TypesOK' /\ CourseOK'
      BY <1>0, <2>1, <2>2 DEF ReadInv, TypesOK, CourseOK
    <2>4. CoverOK'
      BY <1>0, <2>1, <2>2 DEF ReadInv, CoverOK, Pending
    <2> QED
      BY <2>1, <2>3, <2>4 DEF ReadInv
  <1>6. CASE More(batch, found) /\ batch \notin seen
    <2>1. /\ pages + 1 < MaxPages /\ records' = found /\ total' = Cardinality(S)
          /\ seen' = seen \cup {batch}
          /\ pages' = pages + 1 /\ UNCHANGED <<pc, stack, gathered, repeated>>
      BY <1>4, <1>6 DEF More, taken
    <2>2. pages' \in 0..(MaxPages - 1)
      BY <2>1, NumbersAssumption DEF ReadInv, TypesOK
    <2>3. TypesOK' /\ CourseOK' /\ CoverOK'
      BY <1>0, <1>3, <1>4, <1>6, <1>9, <2>1, <2>2 DEF ReadInv, TypesOK, CourseOK, CoverOK, Pending
    <2>4. \A T : Covers(T) => Covers(T)'
      BY <1>0 DEF Covers
    <2>5. ScrollOK'
      BY <1>0, <2>4 DEF ScrollOK
    <2>6. Begins(S)'
      BY <1>3, <1>6, <1>9, <2>1 DEF Begins
    <2>7. scroll.kept = None \/ scroll.kept = Listing(S)
      BY <1>2 DEF Shown
    <2>8. PrefixOK'
      BY <1>0, <1>2, <2>1, <2>4, <2>6, <2>7 DEF PrefixOK
    <2> QED
      BY <2>3, <2>5, <2>8 DEF ReadInv
  <1>7. CASE Split
    <2>1. /\ stack' = Halves(scroll.window) \o stack /\ pc' = "open"
          /\ UNCHANGED <<gathered, repeated, records, total, seen, pages>>
      BY <1>7 DEF Split, local, taken
    <2>2. /\ stack' \in Seq(Window)
          /\ \A r \in Query(scroll.window) : \E i \in DOMAIN stack' : r \in Query(stack'[i])
          /\ \A i \in DOMAIN stack : \E j \in DOMAIN stack' : stack'[j] = stack[i]
      BY <1>0, <2>1, PushHalves
    <2>3. TypesOK' /\ CourseOK'
      BY <1>0, <2>1, <2>2 DEF ReadInv, TypesOK, CourseOK
    <2>4. CoverOK'
      <3> SUFFICES ASSUME ~repeated, NEW r \in wanted, r \notin gathered PROVE Pending(r)'
        BY <1>0, <2>1 DEF CoverOK
      <3>1. Pending(r) \/ r \in Query(scroll.window)
        BY <1>0 DEF ReadInv, CoverOK
      <3> QED
        BY <2>2, <3>1 DEF Pending
    <2> QED
      BY <2>1, <2>3, <2>4 DEF ReadInv
  <1> QED
    BY <1>1, <1>5, <1>6, <1>7, <1>8 DEF found

LEMMA InsertRead ==
  ASSUME ReadInv, Insert
  PROVE  ReadInv'
  <1>1. /\ index \subseteq index' /\ index' \subseteq Record
        /\ inserts < MaxInserts /\ inserts' = inserts + 1 /\ pc \in {"open", "page"}
        /\ UNCHANGED <<wanted, result, pc, stack, scroll, records, total, seen, pages, gathered,
                      repeated>>
    BY DEF Insert, local, taken, ReadInv, TypesOK
  <1>2. inserts' \in 0..MaxInserts
    BY <1>1, NumbersAssumption DEF ReadInv, TypesOK
  <1>3. TypesOK' /\ CourseOK'
    BY <1>1, <1>2 DEF ReadInv, TypesOK, CourseOK
  <1>4. CoverOK'
    BY <1>1 DEF ReadInv, CoverOK, Pending
  <1>5. \A S : Covers(S) => Covers(S)'
    BY <1>1 DEF Covers
  <1>6. \A S : Begins(S) <=> Begins(S)'
    BY <1>1 DEF Begins
  <1>7. (pc = "page" => ScrollOK /\ PrefixOK)'
    BY <1>1, <1>5, <1>6 DEF ReadInv, ScrollOK, PrefixOK
  <1> QED
    BY <1>3, <1>4, <1>7 DEF ReadInv

LEMMA NextRead ==
  ASSUME ReadInv, [Next]_vars
  PROVE  ReadInv'
  <1>1. CASE fail
    BY <1>1 DEF fail, local, taken, ReadInv, TypesOK, CourseOK, CoverOK
  <1>2. CASE UNCHANGED vars
    <2>1. UNCHANGED <<index, wanted, result, pc, stack, scroll, records, total, seen, pages,
                      gathered, repeated, inserts>>
      BY <1>2 DEF vars
    <2>2. TypesOK' /\ CourseOK' /\ CoverOK'
      BY <2>1 DEF ReadInv, TypesOK, CourseOK, CoverOK, Pending
    <2>3. (pc = "page" => ScrollOK /\ PrefixOK)'
      BY <2>1 DEF ReadInv, ScrollOK, PrefixOK, Covers, Begins
    <2> QED
      BY <2>2, <2>3 DEF ReadInv
  <1> QED
    BY <1>1, <1>2, AskRead, OpenRead, PageRead, InsertRead DEF Next, client

LEMMA AlwaysRead == Spec => []ReadInv
  BY InitRead, NextRead, PTL DEF Spec

(* The windows that were read and those still on the stack always cover what  *)
(* the read was asked for, however often windows are split, for any records,  *)
(* window sizes and page limits (_split_pages, and the bound of pages()).     *)
THEOREM NothingFallsBetween == Spec => []Inv
  BY AlwaysRead, ReadTypes, PTL

(* Whatever is indexed during the read, and whether the scroll is a snapshot  *)
(* or live, pages() returns all that its window held at the start and nothing *)
(* that is not in the index, or it returns nothing. The scroll may repeat any *)
(* page at any moment: only a repeated page that makes the count of total_hits*)
(* is an exception, and then what is returned is still in the index.          *)
THEOREM ReadIsComplete == Spec => ImplementsCompleteRead
  <1>1. Init => Read!Init
    BY DEF Init, Read!Init
  <1>2. ReadInv /\ [Next]_vars => [Read!Next]_(Read!readVars)
    <2> SUFFICES ASSUME ReadInv, [Next]_vars PROVE [Read!Next]_(Read!readVars)
      OBVIOUS
    <2>1. CASE ask
      <3>1. wanted' \in SUBSET index
        BY <2>1 DEF ask
      <3> QED
        BY <2>1, <3>1 DEF ask, taken, Read!Next, Read!Ask
    <2>2. CASE open
      <3>1. CASE stack = <<>>
        <4>1. /\ ~repeated => wanted \subseteq gathered
              /\ gathered \subseteq index /\ wanted # None /\ result = None
          BY <2>2, <3>1 DEF open, ReadInv, TypesOK, CourseOK, CoverOK, Pending
        <4> QED
          BY <2>2, <3>1, <4>1 DEF open, taken, Read!Next, Read!Return
      <3>2. CASE stack # <<>>
        BY <2>2, <3>2 DEF open, taken, Read!readVars
      <3> QED
        BY <3>1, <3>2
    <2>3. CASE fail \/ UNCHANGED vars
      BY <2>3 DEF fail, taken, vars, Read!readVars
    <2>4. CASE Insert
      BY <2>4 DEF Insert, taken, ReadInv, TypesOK, Read!Next, Read!Insert
    <2>5. CASE page
      <3>1. /\ UNCHANGED <<index, wanted, result>> /\ pc = "page"
            /\ repeated' = repeated \/ \E b : repeated' = (repeated \/ b \in seen)
        BY <2>5 DEF page, Whole, More, Split, taken
      <3>2. wanted # None /\ result = None /\ repeated \in BOOLEAN
        BY <3>1 DEF ReadInv, CourseOK, TypesOK
      <3>3. repeated' = repeated \/ repeated' = TRUE
        BY <3>1, <3>2
      <3> QED
        BY <3>1, <3>2, <3>3 DEF Read!Next, Read!Repeat, Read!readVars
    <2> QED
      BY <2>1, <2>2, <2>3, <2>4, <2>5 DEF Next, client
  <1> QED
    BY <1>1, <1>2, AlwaysRead, PTL DEF Spec, ImplementsCompleteRead, Read!Spec
==============================================================================
