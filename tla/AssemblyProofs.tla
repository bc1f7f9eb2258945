--------------------------- MODULE AssemblyProofs ---------------------------
(***************************************************************************)
(* Proofs about Assembly, for any documentation, any edits beside a run    *)
(* and any number of runs: validation in steps accepts exactly the sound   *)
(* documents, what stands in pages/docs is whole unless a replacement was  *)
(* cut short, and every step of a run brings it nearer to its end.         *)
(***************************************************************************)
EXTENDS Assembly, WellFoundedInduction, TLAPS

-----------------------------------------------------------------------------
(* The index. *)

\* Induction over numbers: a nonempty set of them has a least one.
LEMMA Least ==
    ASSUME NEW T \in SUBSET Nat, T # {}
    PROVE  \E x \in T : \A y \in T : x <= y
<1> DEFINE R == OpToRel(<, Nat)
<1>1. IsWellFoundedOn(R, Nat) BY NatLessThanWellFounded
<1>2. \A x, y \in Nat : y < x => <<y, x>> \in R BY DEF OpToRel
<1> HIDE DEF R
<1>3. \E x \in T : \A y \in T : ~(<<y, x>> \in R) BY <1>1, WFMin, Zenon
<1>4. PICK x \in T : \A y \in T : ~(<<y, x>> \in R) BY <1>3
<1>5. \A y \in T : ~(y < x) BY <1>2, <1>4
<1>6. \A y \in T : x <= y BY <1>5
<1> QED BY <1>6

\* Ranks that ascend from each position to the next ascend.
LEMMA Ascends ==
    ASSUME NEW P \in SUBSET Nat, NEW rank, \A k \in P : rank[k] \in Nat,
           \A j, k \in P : j < k /\ (\A n \in P : n <= j \/ k <= n) => rank[j] < rank[k]
    PROVE  \A j, k \in P : j < k => rank[j] < rank[k]
<1> DEFINE T == {d \in Nat : \E j, k \in P : j < k /\ ~(rank[j] < rank[k]) /\ k - j = d}
<1>1. CASE T = {}
  <2> SUFFICES ASSUME NEW j \in P, NEW k \in P, j < k, ~(rank[j] < rank[k]) PROVE FALSE
    OBVIOUS
  <2>1. k - j \in Nat OBVIOUS
  <2>2. k - j \in T BY <2>1
  <2> QED BY <1>1, <2>2
<1>2. CASE T # {}
  <2>1. PICK d \in T : \A e \in T : d <= e
    <3>1. T \in SUBSET Nat OBVIOUS
    <3> HIDE DEF T
    <3> QED BY <1>2, <3>1, Least
  <2>2. PICK j \in P, k \in P : j < k /\ ~(rank[j] < rank[k]) /\ k - j = d BY <2>1
  <2>3. PICK n \in P : ~(n <= j) /\ ~(k <= n) BY <2>2
  <2>4. n \in Nat /\ j \in Nat /\ k \in Nat /\ j < n /\ n < k BY <2>3
  <2>5. ~(n - j \in T) /\ ~(k - n \in T)
    <3>1. n - j < d /\ k - n < d /\ n - j \in Nat /\ k - n \in Nat /\ d \in Nat BY <2>2, <2>4
    <3> HIDE DEF T
    <3> QED BY <2>1, <3>1
  <2>6. rank[j] < rank[n] BY <2>4, <2>5
  <2>7. rank[n] < rank[k] BY <2>4, <2>5
  <2>8. rank[j] \in Nat /\ rank[n] \in Nat /\ rank[k] \in Nat OBVIOUS
  <2> QED BY <2>2, <2>6, <2>7, <2>8
<1> QED BY <1>1, <1>2

\* Pages as they are read.
Pages(ps) == DOMAIN ps \subseteq Files /\ \A f \in DOMAIN ps : ps[f] \in Content

LEMMA Contents ==
    ASSUME NEW c \in Content
    PROVE  /\ c.id \in Ids /\ c.position \in Nat /\ c.supersededBy \in Ids \union {None}
           /\ DOMAIN c.index \subseteq Nat
           /\ \A k \in DOMAIN c.index : c.index[k] \in Row
<1>1. c.id \in Ids /\ c.position \in Nat /\ c.supersededBy \in Ids \union {None} /\ c.index \in Seq(Row)
  BY DEF Content
<1> QED BY <1>1

LEMMA Ranks ==
    ASSUME NEW ps, Pages(ps), NEW f \in DOMAIN ps
    PROVE  Rank(ps, f) \in Nat
BY Contents, DocumentationAssumption DEF Pages, Rank

\* Every row is right by itself.
RowsOK(ps) == \A k \in DOMAIN ps[Overview].index : RowOK(ps, ps[Overview].index[k])

LEMMA Rows ==
    ASSUME NEW ps, Pages(ps), Overview \in DOMAIN ps, RowsOK(ps), NEW c \in Names
    PROVE  /\ Section(ps, c) \in SUBSET Nat
           /\ \A k \in Section(ps, c) :
                 /\ Entry(ps, k) \in DOMAIN ps /\ Collection[Entry(ps, k)] = c
                 /\ Rank(ps, Entry(ps, k)) \in Nat
<1>1. ps[Overview] \in Content BY DEF Pages
<1>2. DOMAIN ps[Overview].index \subseteq Nat BY <1>1, Contents
<1>3. Section(ps, c) \in SUBSET Nat BY <1>2 DEF Section
<1>4. ASSUME NEW k \in Section(ps, c)
      PROVE  Entry(ps, k) \in DOMAIN ps /\ Collection[Entry(ps, k)] = c
  BY DEF RowsOK, RowOK, Section, Entry
<1> QED BY <1>3, <1>4, Ranks

\* validateIndex, which compares neighbours, accepts exactly an index that lists every page
\* once and in order.
LEMMA IndexExact ==
    ASSUME NEW ps, Pages(ps), Overview \in DOMAIN ps
    PROVE  IndexOK(ps) <=> RowsOK(ps) /\ \A c \in Names : IndexSound(ps, c)
<1>1. ASSUME IndexOK(ps) PROVE RowsOK(ps) /\ \A c \in Names : IndexSound(ps, c)
  <2>1. RowsOK(ps) BY <1>1 DEF IndexOK, RowsOK
  <2>2. ASSUME NEW c \in Names PROVE IndexSound(ps, c)
    <3>1. PICK P : P = Section(ps, c) OBVIOUS
    <3>2. PICK rank : rank = [k \in P |-> Rank(ps, Entry(ps, k))] OBVIOUS
    <3>3. P \in SUBSET Nat /\ \A k \in P : rank[k] = Rank(ps, Entry(ps, k)) /\ rank[k] \in Nat
      BY <2>1, <3>1, <3>2, Rows
    <3>4. \A j, k \in P : j # k => Entry(ps, j) # Entry(ps, k) BY <1>1, <3>1 DEF IndexOK
    <3>5. \A f \in DOMAIN ps : Collection[f] = c => \E k \in P : Entry(ps, k) = f
      BY <1>1, <3>1 DEF IndexOK
    <3>6. ASSUME c # "templates" PROVE \A j, k \in P : j < k => rank[j] < rank[k]
      <4>1. \A j, k \in P : j < k /\ (\A n \in P : n <= j \/ k <= n) => rank[j] < rank[k]
        BY <1>1, <3>1, <3>3, <3>6 DEF IndexOK, Ascending
      <4> QED BY <3>3, <4>1, Ascends
    <3>7. \A f \in {g \in DOMAIN ps : Collection[g] = c} :
             \E k \in P : \A j \in P : Entry(ps, j) = f <=> j = k
      <4> SUFFICES ASSUME NEW f \in DOMAIN ps, Collection[f] = c
                   PROVE  \E k \in P : \A j \in P : Entry(ps, j) = f <=> j = k
        OBVIOUS
      <4>1. PICK k \in P : Entry(ps, k) = f BY <3>5
      <4>2. \A j \in P : Entry(ps, j) = f <=> j = k BY <3>4, <4>1
      <4> QED BY <4>2
    <3> QED BY <3>1, <3>3, <3>6, <3>7 DEF IndexSound
  <2> QED BY <2>1, <2>2
<1>2. ASSUME RowsOK(ps), \A c \in Names : IndexSound(ps, c) PROVE IndexOK(ps)
  <2>1. ASSUME NEW c \in Names
        PROVE  LET rows == Section(ps, c)
               IN  /\ \A j, k \in rows : j # k => Entry(ps, j) # Entry(ps, k)
                   /\ \A f \in DOMAIN ps : Collection[f] = c => \E k \in rows : Entry(ps, k) = f
                   /\ c # "templates" =>
                         \A j, k \in rows :
                             j < k /\ (\A n \in rows : n <= j \/ k <= n) => Ascending(ps, j, k)
    <3>1. PICK P : P = Section(ps, c) OBVIOUS
    <3>2. \A k \in P : Entry(ps, k) \in DOMAIN ps /\ Collection[Entry(ps, k)] = c
      BY <1>2, <3>1, Rows
    <3>3. \A f \in DOMAIN ps : Collection[f] = c =>
             \E k \in P : \A j \in P : Entry(ps, j) = f <=> j = k
      BY <1>2, <3>1 DEF IndexSound
    <3>4. c # "templates" => \A j, k \in P : j < k => Ascending(ps, j, k)
      BY <1>2, <3>1 DEF IndexSound, Ascending
    <3>5. \A j, k \in P : j # k => Entry(ps, j) # Entry(ps, k) BY <3>2, <3>3
    <3>6. \A f \in DOMAIN ps : Collection[f] = c => \E k \in P : Entry(ps, k) = f BY <3>3
    <3> QED BY <3>1, <3>4, <3>5, <3>6
  <2>2. ASSUME NEW f \in DOMAIN ps, NEW g \in DOMAIN ps, f # g,
               Collection[f] = "handbook", Collection[g] = "handbook"
        PROVE  ps[f].position # ps[g].position
    <3>1. "handbook" \in Names BY DEF Names, collections
    <3>2. PICK P : P = Section(ps, "handbook") OBVIOUS
    <3>3. PICK j \in P : Entry(ps, j) = f BY <1>2, <2>2, <3>1, <3>2 DEF IndexSound
    <3>4. PICK k \in P : Entry(ps, k) = g BY <1>2, <2>2, <3>1, <3>2 DEF IndexSound
    <3>5. P \in SUBSET Nat BY <1>2, <3>1, <3>2, Rows
    <3>6. j < k \/ k < j BY <2>2, <3>3, <3>4, <3>5
    <3>7. \A m, n \in P : m < n => Rank(ps, Entry(ps, m)) < Rank(ps, Entry(ps, n))
      BY <1>2, <3>1, <3>2 DEF IndexSound
    <3>8. Rank(ps, f) < Rank(ps, g) \/ Rank(ps, g) < Rank(ps, f) BY <3>3, <3>4, <3>6, <3>7
    <3>9. Rank(ps, f) = ps[f].position /\ Rank(ps, g) = ps[g].position BY <2>2 DEF Rank
    <3>10. Rank(ps, f) \in Nat /\ Rank(ps, g) \in Nat BY Ranks
    <3> QED BY <3>8, <3>9, <3>10
  <2> QED BY <1>2, <2>1, <2>2 DEF IndexOK, RowsOK
<1> QED BY <1>1, <1>2

-----------------------------------------------------------------------------
(* Metadata and references; ps are the pages read and is the map of their IDs. *)

\* The pages in S passed validateMetadata and the check of their links.
Checked(ps, is, S) ==
    /\ DOMAIN is = {ps[f].id : f \in S}
    /\ \A f \in S : /\ MetadataOK(f, ps[f], {}) /\ Outside \notin Mentioned(ps[f])
                    /\ is[ps[f].id] = f

\* The pages in S passed validateReferences.
Referred(ps, is, S) ==
    \A f \in S : ps[f].related \subseteq DOMAIN is /\ ReplacedSoundly(ps, f)

\* The walk along superseded_by from page start has reached page cur by the IDs in sn: no set
\* that is closed under replacement can hold the start without them, and all but the last
\* have their replacement among them.
Walk(ps, is, start, cur, sn) ==
    /\ start \in DOMAIN ps /\ cur \in DOMAIN ps /\ sn \subseteq DOMAIN is
    /\ ps[start].id \in sn /\ ps[cur].id \in sn
    /\ \A S \in SUBSET Ids : ps[start].id \in S /\ Closed(ps, S) => sn \subseteq S
    /\ \A i \in sn : i # ps[cur].id => ps[is[i]].supersededBy \in sn
    /\ cur # start =>
          /\ Replaces(cur, ps[cur])
          /\ \E g \in DOMAIN ps : ps[g].id = ps[start].supersededBy /\ Replaces(g, ps[g])

\* One page more is checked.
LEMMA CheckedMore ==
    ASSUME NEW ps, NEW is, NEW S, Checked(ps, is, S), NEW f,
           MetadataOK(f, ps[f], DOMAIN is), Outside \notin Mentioned(ps[f]),
           NEW js, js = [i \in DOMAIN is \union {ps[f].id} |-> IF i = ps[f].id THEN f ELSE is[i]]
    PROVE  Checked(ps, js, S \union {f})
<1>1. MetadataOK(f, ps[f], {}) /\ ps[f].id \notin DOMAIN is BY DEF MetadataOK
<1>2. DOMAIN js = {ps[g].id : g \in S \union {f}} BY DEF Checked
<1>3. ASSUME NEW g \in S PROVE js[ps[g].id] = g
  BY <1>1 DEF Checked
<1>4. js[ps[f].id] = f OBVIOUS
<1>5. \A g \in S \union {f} : /\ MetadataOK(g, ps[g], {}) /\ Outside \notin Mentioned(ps[g])
                              /\ js[ps[g].id] = g
  BY <1>1, <1>3, <1>4 DEF Checked
<1> QED BY <1>2, <1>5 DEF Checked

\* A page that fails is a reason to refuse the whole.
LEMMA CheckedFails ==
    ASSUME NEW ps, NEW is, NEW S \in SUBSET DOMAIN ps, Checked(ps, is, S), NEW f \in DOMAIN ps \ S,
           ~MetadataOK(f, ps[f], DOMAIN is) \/ Outside \in Mentioned(ps[f])
    PROVE  ~Coherent(ps)
<1> SUFFICES ASSUME Coherent(ps) PROVE FALSE
  OBVIOUS
<1>1. MetadataOK(f, ps[f], {}) /\ Outside \notin Mentioned(ps[f]) BY DEF Coherent
<1>2. ps[f].id \in DOMAIN is BY <1>1 DEF MetadataOK
<1>3. PICK g \in S : ps[g].id = ps[f].id BY <1>2 DEF Checked
<1>4. g = f BY <1>3 DEF Coherent
<1> QED BY <1>4

\* All pages checked and referred: the set is coherent.
LEMMA CoherentAtLast ==
    ASSUME NEW ps, NEW is, Checked(ps, is, DOMAIN ps), Referred(ps, is, DOMAIN ps)
    PROVE  Coherent(ps)
<1>1. \A f \in DOMAIN ps : MetadataOK(f, ps[f], {}) /\ Outside \notin Mentioned(ps[f])
  BY DEF Checked
<1>2. \A f, g \in DOMAIN ps : ps[f].id = ps[g].id => f = g BY DEF Checked
<1>3. \A f \in DOMAIN ps : ps[f].related \subseteq {ps[g].id : g \in DOMAIN ps}
  BY DEF Checked, Referred
<1>4. \A f \in DOMAIN ps : ReplacedSoundly(ps, f) BY DEF Referred
<1> QED BY <1>1, <1>2, <1>3, <1>4 DEF Coherent

LEMMA UnrelatedFails ==
    ASSUME NEW ps, NEW is, Checked(ps, is, DOMAIN ps), NEW f \in DOMAIN ps,
           ~(ps[f].related \subseteq DOMAIN is)
    PROVE  ~Coherent(ps)
BY DEF Checked, Coherent

-----------------------------------------------------------------------------
(* The walk. *)

LEMMA WalkStart ==
    ASSUME NEW ps, NEW is, Checked(ps, is, DOMAIN ps), NEW f \in DOMAIN ps
    PROVE  Walk(ps, is, f, f, {ps[f].id})
BY DEF Walk, Checked

LEMMA WalkStep ==
    ASSUME NEW ps, NEW is, Pages(ps), Checked(ps, is, DOMAIN ps),
           NEW start, NEW cur, NEW sn, Walk(ps, is, start, cur, sn),
           NEW id, id = ps[cur].supersededBy, id # None, id \in DOMAIN is,
           Replaces(is[id], ps[is[id]])
    PROVE  Walk(ps, is, start, is[id], sn \union {id})
<1>1. PICK g \in DOMAIN ps : ps[g].id = id /\ is[id] = g BY DEF Checked
<1>2. \A S \in SUBSET Ids : ps[start].id \in S /\ Closed(ps, S) => sn \union {id} \subseteq S
  BY DEF Walk, Closed
<1>3. ASSUME NEW i \in sn \union {id}, i # ps[g].id
      PROVE  ps[is[i]].supersededBy \in sn \union {id}
  <2>1. i \in sn BY <1>1, <1>3
  <2>2. CASE i = ps[cur].id
    <3>1. is[i] = cur BY <2>2 DEF Checked, Walk
    <3> QED BY <3>1
  <2>3. CASE i # ps[cur].id BY <2>1, <2>3 DEF Walk
  <2> QED BY <2>2, <2>3
<1>4. \E h \in DOMAIN ps : ps[h].id = ps[start].supersededBy /\ Replaces(h, ps[h])
  <2>1. CASE cur = start BY <1>1, <2>1
  <2>2. CASE cur # start BY <2>2 DEF Walk
  <2> QED BY <2>1, <2>2
<1>5. sn \union {id} \subseteq DOMAIN is /\ ps[start].id \in sn /\ start \in DOMAIN ps BY DEF Walk
<1> QED BY <1>1, <1>2, <1>3, <1>4, <1>5 DEF Walk

\* The end of a walk is an accepted decision.
LEMMA WalkEnd ==
    ASSUME NEW ps, NEW is, Pages(ps), Checked(ps, is, DOMAIN ps),
           NEW start, NEW cur, NEW sn, Walk(ps, is, start, cur, sn), ps[cur].supersededBy = None
    PROVE  ReplacedSoundly(ps, start)
<1> SUFFICES ASSUME ps[start].supersededBy # None PROVE ReplacedSoundly(ps, start)
  BY DEF ReplacedSoundly
<1>1. cur # start OBVIOUS
<1>2. Replaces(cur, ps[cur]) /\ \E g \in DOMAIN ps : ps[g].id = ps[start].supersededBy /\ Replaces(g, ps[g])
  BY <1>1 DEF Walk
<1>3. cur \in DOMAIN ps /\ \A S \in SUBSET Ids : ps[start].id \in S /\ Closed(ps, S) => ps[cur].id \in S
  BY DEF Walk
<1>4. MetadataOK(cur, ps[cur], {}) BY <1>3 DEF Checked
<1>5. Collection[cur] = "decisions" /\ ps[cur].status = "accepted"
  BY <1>2, <1>4 DEF MetadataOK, Replaces
<1> QED BY <1>2, <1>3, <1>5 DEF ReplacedSoundly

\* A replacement that may not replace is a reason to refuse the whole.
LEMMA WalkStuck ==
    ASSUME NEW ps, NEW is, Checked(ps, is, DOMAIN ps), NEW cur \in DOMAIN ps,
           NEW id, id = ps[cur].supersededBy, id # None,
           ~(id \in DOMAIN is /\ Replaces(is[id], ps[is[id]]))
    PROVE  ~Coherent(ps)
<1> SUFFICES ASSUME Coherent(ps) PROVE FALSE
  OBVIOUS
<1>1. PICK g \in DOMAIN ps : ps[g].id = id /\ Replaces(g, ps[g])
  BY DEF Coherent, ReplacedSoundly
<1>2. id \in DOMAIN is /\ is[id] = g BY <1>1 DEF Checked
<1> QED BY <1>1, <1>2

\* And so is a circle: it is closed under replacement, and none of its members is accepted.
LEMMA WalkCircle ==
    ASSUME NEW ps, NEW is, Pages(ps), Checked(ps, is, DOMAIN ps),
           NEW start, NEW cur, NEW sn, Walk(ps, is, start, cur, sn),
           ps[cur].supersededBy # None, ps[cur].supersededBy \in sn
    PROVE  ~Coherent(ps)
<1> SUFFICES ASSUME Coherent(ps) PROVE FALSE
  OBVIOUS
<1>1. sn \subseteq DOMAIN is /\ ps[start].id \in sn /\ start \in DOMAIN ps /\ cur \in DOMAIN ps
  BY DEF Walk
<1>2. \A f \in DOMAIN ps : ps[f].id \in Ids BY Contents DEF Pages
<1>3. sn \in SUBSET Ids BY <1>1, <1>2 DEF Checked
<1>4. None \notin sn BY <1>3, DocumentationAssumption
<1>5. ASSUME NEW f \in DOMAIN ps, ps[f].id \in sn PROVE ps[f].supersededBy \in sn
  <2>1. is[ps[f].id] = f BY DEF Checked
  <2>2. CASE ps[f].id = ps[cur].id
    <3>1. f = cur BY <1>1, <2>2 DEF Coherent
    <3> QED BY <3>1
  <2>3. CASE ps[f].id # ps[cur].id BY <1>5, <2>1, <2>3 DEF Walk
  <2> QED BY <2>2, <2>3
<1>6. Closed(ps, sn) BY <1>5 DEF Closed
<1>7. ps[start].supersededBy # None BY <1>1, <1>4, <1>5
<1>8. PICK g \in DOMAIN ps : /\ Collection[g] = "decisions" /\ ps[g].status = "accepted"
                            /\ \A S \in SUBSET Ids : ps[start].id \in S /\ Closed(ps, S) => ps[g].id \in S
  BY <1>1, <1>7 DEF Coherent, ReplacedSoundly
<1>9. ps[g].id \in sn BY <1>1, <1>3, <1>6, <1>8
<1>10. ps[g].supersededBy # None BY <1>4, <1>5, <1>9
<1>11. MetadataOK(g, ps[g], {}) BY DEF Coherent
<1> QED BY <1>8, <1>10, <1>11 DEF MetadataOK

-----------------------------------------------------------------------------
(* The run.  The loops over the pages keep their promise for the first at - 1 of them. *)

First(l, n) == {l[k] : k \in 1..n}

Accepted == {"render", "remove", "write", "categories", "done"}

\* What has been read, and what is still to be read.
ReadInv ==
    /\ tree \in [Files -> Content \union {Absent, Garbled}]
    /\ listed \in Seq(Files) /\ \A j, k \in 1..Len(listed) : listed[j] = listed[k] => j = k
    /\ Pages(pages) /\ pages = [f \in DOMAIN pages |-> pages[f]]
    /\ DOMAIN pages = First(listed, Len(listed))
    /\ phase \in {"idle", "overview"} => listed = <<>> /\ section = 0 /\ queue = {}
    /\ phase = "glob" =>
          /\ section \in Nat /\ section <= Len(collections)
          /\ \A f \in queue : /\ f \in Files \ DOMAIN pages
                              /\ section >= 1 /\ Collection[f] = collections[section]
          /\ \A f \in DOMAIN pages : f # Overview =>
                \E n \in 1..section : Collection[f] = collections[n]
    /\ phase \in {"idle", "overview", "glob"} => ids = Empty /\ at = 1
    /\ phase \notin {"idle", "overview", "failed"} => Overview \in DOMAIN pages

\* validateMetadata.
CheckInv ==
    /\ phase \in {"metadata", "related", "replaced", "render", "write"} => at \in 1..Len(listed)
    /\ phase \in {"index", "remove"} => at = 1
    /\ phase = "metadata" => Checked(pages, ids, First(listed, at - 1))
    /\ phase \in {"related", "replaced", "index"} \union Accepted => Checked(pages, ids, DOMAIN pages)

\* validateReferences.
RefInv ==
    /\ phase \in {"related", "replaced"} => Referred(pages, ids, First(listed, at - 1))
    /\ phase = "replaced" => /\ Walk(pages, ids, listed[at], current, seen)
                             /\ pages[listed[at]].related \subseteq DOMAIN ids
    /\ phase \in {"index"} \union Accepted => Referred(pages, ids, DOMAIN pages)

\* The verdict.
VerdictInv ==
    /\ phase \in Accepted => Sound(pages)
    /\ why = "content" => phase = "failed" /\ ~Sound(pages)

ValidationInv == ReadInv /\ CheckInv /\ RefInv /\ VerdictInv

LEMMA FirstNone == \A l : First(l, 0) = {}
BY DEF First

LEMMA FirstMore ==
    ASSUME NEW l \in Seq(Files), NEW n \in 1..Len(l)
    PROVE  First(l, n) = First(l, n - 1) \union {l[n]}
<1>1. 1..n = (1..(n - 1)) \union {n} OBVIOUS
<1> QED BY <1>1 DEF First

LEMMA FirstAppend ==
    ASSUME NEW l \in Seq(Files), NEW f \in Files
    PROVE  /\ Append(l, f) \in Seq(Files) /\ Len(Append(l, f)) = Len(l) + 1
           /\ First(Append(l, f), Len(l) + 1) = First(l, Len(l)) \union {f}
<1>1. Append(l, f) \in Seq(Files) /\ Len(Append(l, f)) = Len(l) + 1 OBVIOUS
<1>2. \A k \in 1..Len(l) : Append(l, f)[k] = l[k] OBVIOUS
<1>3. Append(l, f)[Len(l) + 1] = f OBVIOUS
<1>4. 1..(Len(l) + 1) = (1..Len(l)) \union {Len(l) + 1} OBVIOUS
<1> QED BY <1>1, <1>2, <1>3, <1>4 DEF First

\* Nothing checked is checked.
LEMMA CheckedNone == \A ps : Checked(ps, Empty, {})
BY DEF Checked, Empty

LEMMA NothingListed ==
    ASSUME NEW l, l = <<>>
    PROVE  /\ l \in Seq(Files) /\ Len(l) = 0 /\ First(l, Len(l)) = {}
           /\ \A j, k \in 1..Len(l) : l[j] = l[k] => j = k
<1>1. <<>> \in Seq(Files) OBVIOUS
<1>2. Len(l) = 0 OBVIOUS
<1>3. 1..0 = {} OBVIOUS
<1>4. 1..Len(l) = {} BY <1>2, <1>3
<1> QED BY <1>1, <1>2, <1>4, FirstNone

LEMMA ReadStart == ASSUME Init PROVE ValidationInv
<1>1. tree \in [Files -> Content \union {Absent, Garbled}] BY AssemblyAssumption DEF Init
<1>2. /\ listed \in Seq(Files) /\ Len(listed) = 0 /\ First(listed, Len(listed)) = {}
      /\ \A j, k \in 1..Len(listed) : listed[j] = listed[k] => j = k
  BY NothingListed DEF Init
<1>3. DOMAIN pages = {} BY DEF Init, Empty
<1>4. Pages(pages) /\ pages = [f \in DOMAIN pages |-> pages[f]] BY <1>3 DEF Init, Empty, Pages
<1>5. ReadInv BY <1>1, <1>2, <1>3, <1>4 DEF ReadInv, Init
<1>6. CheckInv /\ RefInv /\ VerdictInv BY DEF Init, CheckInv, RefInv, VerdictInv, Accepted
<1> QED BY <1>5, <1>6 DEF ValidationInv

\* An edit changes what may be read, not what was.
LEMMA EditKeeps ==
    ASSUME ValidationInv, tree' \in [Files -> Content \union {Absent, Garbled}],
           UNCHANGED <<phase, section, queue, listed, pages, ids, at, current, seen, why>>
    PROVE  ValidationInv'
<1>1. ReadInv' BY DEF ValidationInv, ReadInv
<1>2. CheckInv' BY DEF ValidationInv, CheckInv
<1>3. RefInv' BY DEF ValidationInv, RefInv
<1>4. VerdictInv' BY DEF ValidationInv, VerdictInv
<1> QED BY <1>1, <1>2, <1>3, <1>4 DEF ValidationInv

\* A run that ends, and the next one's start.
LEMMA ResetKeeps == ASSUME ValidationInv, Reset PROVE ValidationInv'
<1>1. tree' \in [Files -> Content \union {Absent, Garbled}] BY DEF Reset, world, ValidationInv, ReadInv
<1>2. /\ listed' \in Seq(Files) /\ Len(listed') = 0 /\ First(listed', Len(listed')) = {}
      /\ \A j, k \in 1..Len(listed') : listed'[j] = listed'[k] => j = k
  BY NothingListed DEF Reset
<1>3. DOMAIN pages' = {} BY DEF Reset, Empty
<1>4. Pages(pages') /\ pages' = [f \in DOMAIN pages' |-> pages'[f]] BY <1>3 DEF Reset, Empty, Pages
<1>5. ReadInv' BY <1>1, <1>2, <1>3, <1>4 DEF ReadInv, Reset
<1>6. CheckInv' /\ RefInv' /\ VerdictInv' BY DEF Reset, CheckInv, RefInv, VerdictInv, Accepted
<1> QED BY <1>5, <1>6 DEF ValidationInv

\* A failure for any reason but the content, and one for the content, with cause.
LEMMA FailKeeps ==
    ASSUME ValidationInv, NEW reason, Fail(reason), UNCHANGED <<world, listed, pages>>,
           reason = "content" => ~Sound(pages)
    PROVE  ValidationInv'
<1>1. ReadInv' BY DEF ValidationInv, ReadInv, Fail, world
<1>2. CheckInv' /\ RefInv' BY DEF CheckInv, RefInv, Accepted, Fail
<1>3. VerdictInv' BY DEF VerdictInv, Accepted, Fail
<1> QED BY <1>1, <1>2, <1>3 DEF ValidationInv

\* readPage: one page more, which was not read before.
LEMMA ReadMore ==
    ASSUME ReadInv, NEW f \in Files, f \notin DOMAIN pages, Readable(f), Read(f)
    PROVE  /\ listed' \in Seq(Files)
           /\ \A j, k \in 1..Len(listed') : listed'[j] = listed'[k] => j = k
           /\ Pages(pages') /\ pages' = [g \in DOMAIN pages' |-> pages'[g]]
           /\ DOMAIN pages' = First(listed', Len(listed')) /\ DOMAIN pages' = DOMAIN pages \union {f}
<1>1. listed' = Append(listed, f) BY DEF Read
<1>2. pages' = [g \in DOMAIN pages \union {f} |-> IF g = f THEN tree[f] ELSE pages[g]] BY DEF Read
<1>3. listed \in Seq(Files) /\ DOMAIN pages = First(listed, Len(listed)) BY DEF ReadInv
<1>4. /\ listed' \in Seq(Files) /\ Len(listed') = Len(listed) + 1
      /\ First(listed', Len(listed')) = First(listed, Len(listed)) \union {f}
  BY <1>1, <1>3, FirstAppend
<1>5. DOMAIN pages' = DOMAIN pages \union {f} /\ pages' = [g \in DOMAIN pages' |-> pages'[g]]
  <2>1. DOMAIN pages' = DOMAIN pages \union {f} BY <1>2
  <2>2. pages' = [g \in DOMAIN pages' |-> pages'[g]] BY <1>2
  <2> QED BY <2>1, <2>2
<1>6. Pages(pages')
  <2>1. tree[f] \in Content BY DEF ReadInv, Readable
  <2> QED BY <1>2, <2>1 DEF ReadInv, Pages
<1>7. ASSUME NEW j \in 1..Len(listed'), NEW k \in 1..Len(listed'), listed'[j] = listed'[k] PROVE j = k
  <2>1. \A n \in 1..Len(listed) : listed'[n] = listed[n] /\ listed[n] # f
    <3>1. \A n \in 1..Len(listed) : listed[n] \in DOMAIN pages BY <1>3 DEF First
    <3> QED BY <1>1, <1>3, <3>1
  <2>2. listed'[Len(listed) + 1] = f BY <1>1, <1>3
  <2>3. \A n \in 1..Len(listed') : n \in 1..Len(listed) \/ n = Len(listed) + 1 BY <1>3, <1>4
  <2> QED BY <1>7, <2>1, <2>2, <2>3 DEF ReadInv
<1> QED BY <1>3, <1>4, <1>5, <1>6, <1>7

LEMMA ReadOverviewKeeps == ASSUME ValidationInv, ReadOverview PROVE ValidationInv'
<1>1. CASE ~Readable(Overview) /\ Fail("unreadable") /\ UNCHANGED loaded
  BY <1>1, FailKeeps DEF ReadOverview, loaded
<1>2. CASE Readable(Overview) /\ Read(Overview) /\ phase' = "glob" /\ UNCHANGED <<section, queue>>
  <2>1. ReadInv /\ phase = "overview" /\ listed = <<>> /\ queue = {} /\ section = 0 /\ ids = Empty /\ at = 1
    BY DEF ValidationInv, ReadInv, ReadOverview
  <2>2. DOMAIN pages = {} BY <2>1, NothingListed DEF ReadInv
  <2>3. Overview \in Files BY DocumentationAssumption
  <2>4. /\ listed' \in Seq(Files)
        /\ \A j, k \in 1..Len(listed') : listed'[j] = listed'[k] => j = k
        /\ Pages(pages') /\ pages' = [g \in DOMAIN pages' |-> pages'[g]]
        /\ DOMAIN pages' = First(listed', Len(listed')) /\ DOMAIN pages' = {Overview}
    BY <1>2, <2>1, <2>2, <2>3, ReadMore
  <2>5. tree' \in [Files -> Content \union {Absent, Garbled}] BY <2>1 DEF ReadInv, ReadOverview, world
  <2>6. ids' = Empty /\ at' = 1 /\ section' = 0 /\ queue' = {} /\ phase' = "glob" /\ why' = why
    BY <1>2, <2>1 DEF Read
  <2>7. ReadInv' BY <2>4, <2>5, <2>6 DEF ReadInv, collections
  <2>8. CheckInv' /\ RefInv' BY <2>6 DEF CheckInv, RefInv, Accepted
  <2>9. VerdictInv' BY <2>1, <2>6 DEF ValidationInv, VerdictInv, Accepted
  <2> QED BY <2>7, <2>8, <2>9 DEF ValidationInv
<1> QED BY <1>1, <1>2 DEF ReadOverview

LEMMA GlobKeeps == ASSUME ValidationInv, Glob PROVE ValidationInv'
<1>1. ReadInv /\ phase = "glob" /\ queue = {} /\ ids = Empty /\ at = 1 /\ why # "content"
  BY DEF ValidationInv, VerdictInv, ReadInv, Glob
<1>2. UNCHANGED <<tree, listed, pages, ids, at, why>> BY DEF Glob, world, loaded
<1>3. Len(collections) = 4 BY DEF collections
<1>4. section \in Nat /\ section <= 4 BY <1>1, <1>3 DEF ReadInv
<1>5. CASE /\ section < Len(collections) /\ section' = section + 1
           /\ queue' = {f \in Files : Collection[f] = collections[section + 1] /\ tree[f] # Absent}
           /\ UNCHANGED phase
  <2>1. section' \in Nat /\ section' <= Len(collections) /\ section' >= 1 BY <1>3, <1>4, <1>5
  <2>2. \A f \in queue' : f \in Files /\ Collection[f] = collections[section'] BY <1>5
  <2>3. ASSUME NEW f \in queue' PROVE f \notin DOMAIN pages
    <3>1. ASSUME f \in DOMAIN pages PROVE FALSE
      <4>1. section' \in 1..4 /\ Collection[f] = collections[section'] BY <1>3, <2>1, <2>2
      <4>2. \A n \in 1..4 : collections[n] # "overview" BY DEF collections
      <4>3. f # Overview BY <4>1, <4>2, <2>2, DocumentationAssumption
      <4>4. PICK n \in 1..section : Collection[f] = collections[n] BY <1>1, <3>1, <4>3 DEF ReadInv
      <4>5. \A i, j \in 1..4 : collections[i] = collections[j] => i = j BY DEF collections
      <4>6. n \in 1..4 /\ n # section' BY <1>4, <1>5
      <4> QED BY <4>1, <4>4, <4>5, <4>6
    <3> QED BY <3>1
  <2>4. \A f \in DOMAIN pages : f # Overview => \E n \in 1..section' : Collection[f] = collections[n]
    <3>1. \A n \in 1..section : n \in 1..section' BY <1>4, <1>5
    <3> QED BY <1>1, <3>1 DEF ReadInv
  <2>5. phase' = "glob" BY <1>1, <1>5
  <2>6. ReadInv' BY <1>1, <1>2, <2>1, <2>2, <2>3, <2>4, <2>5 DEF ReadInv
  <2>7. CheckInv' /\ RefInv' BY <2>5 DEF CheckInv, RefInv, Accepted
  <2>8. VerdictInv' BY <1>1, <1>2, <2>5 DEF VerdictInv, Accepted
  <2> QED BY <2>6, <2>7, <2>8 DEF ValidationInv
<1>6. CASE section = Len(collections) /\ phase' = "metadata" /\ UNCHANGED <<section, queue>>
  <2>1. Overview \in DOMAIN pages BY <1>1 DEF ReadInv
  <2>2. ReadInv' BY <1>1, <1>2, <1>6, <2>1 DEF ReadInv
  <2>3. Len(listed) \in Nat /\ Len(listed) # 0 BY <1>1, <2>1, FirstNone DEF ReadInv
  <2>4. Checked(pages, ids, First(listed, at - 1))
    <3>1. at - 1 = 0 BY <1>1
    <3> QED BY <1>1, <3>1, FirstNone, CheckedNone
  <2>5. CheckInv' BY <1>1, <1>2, <1>6, <2>3, <2>4 DEF CheckInv, Accepted
  <2>6. RefInv' BY <1>6 DEF RefInv, Accepted
  <2>7. VerdictInv' BY <1>1, <1>2, <1>6 DEF VerdictInv, Accepted
  <2> QED BY <2>2, <2>5, <2>6, <2>7 DEF ValidationInv
<1> QED BY <1>5, <1>6 DEF Glob

LEMMA ReadPageKeeps == ASSUME ValidationInv, ReadPage PROVE ValidationInv'
<1>1. ReadInv /\ phase = "glob" /\ ids = Empty /\ at = 1 /\ why # "content"
  BY DEF ValidationInv, VerdictInv, ReadInv, ReadPage
<1>2. PICK f \in queue :
         \/ ~Readable(f) /\ Fail("unreadable") /\ UNCHANGED loaded
         \/ Readable(f) /\ Read(f) /\ queue' = queue \ {f} /\ UNCHANGED <<phase, section>>
  BY DEF ReadPage
<1>3. CASE ~Readable(f) /\ Fail("unreadable") /\ UNCHANGED loaded
  BY <1>3, FailKeeps DEF ReadPage, loaded
<1>4. CASE Readable(f) /\ Read(f) /\ queue' = queue \ {f} /\ UNCHANGED <<phase, section>>
  <2>1. f \in Files /\ f \notin DOMAIN pages /\ section >= 1 /\ Collection[f] = collections[section]
    BY <1>1 DEF ReadInv
  <2>2. /\ listed' \in Seq(Files)
        /\ \A j, k \in 1..Len(listed') : listed'[j] = listed'[k] => j = k
        /\ Pages(pages') /\ pages' = [g \in DOMAIN pages' |-> pages'[g]]
        /\ DOMAIN pages' = First(listed', Len(listed')) /\ DOMAIN pages' = DOMAIN pages \union {f}
    BY <1>1, <1>4, <2>1, ReadMore
  <2>3. UNCHANGED <<tree, ids, at, why, phase, section>> BY <1>4 DEF ReadPage, Read, world
  <2>4. section \in Nat /\ section <= Len(collections) BY <1>1 DEF ReadInv
  <2>5. \A g \in queue' : /\ g \in Files \ DOMAIN pages'
                          /\ section >= 1 /\ Collection[g] = collections[section]
    BY <1>1, <1>4, <2>2 DEF ReadInv
  <2>6. \A g \in DOMAIN pages' : g # Overview => \E n \in 1..section : Collection[g] = collections[n]
    <3>1. section \in 1..section BY <2>1, <2>4
    <3> QED BY <1>1, <2>1, <2>2, <3>1 DEF ReadInv
  <2>7. Overview \in DOMAIN pages' BY <1>1, <2>2 DEF ReadInv
  <2>8. ReadInv' BY <1>1, <2>2, <2>3, <2>4, <2>5, <2>6, <2>7 DEF ReadInv
  <2>9. CheckInv' /\ RefInv' BY <1>1, <2>3 DEF CheckInv, RefInv, Accepted
  <2>10. VerdictInv' BY <1>1, <2>3 DEF VerdictInv, Accepted
  <2> QED BY <2>8, <2>9, <2>10 DEF ValidationInv
<1> QED BY <1>2, <1>3, <1>4

\* Where a loop over the pages stands: at a page it has not passed, and past its last page
\* when it has passed all.
LEMMA Position ==
    ASSUME ReadInv, at \in 1..Len(listed)
    PROVE  /\ listed[at] \in DOMAIN pages
           /\ First(listed, at - 1) \in SUBSET DOMAIN pages /\ listed[at] \notin First(listed, at - 1)
           /\ First(listed, at) = First(listed, at - 1) \union {listed[at]}
           /\ at < Len(listed) => at + 1 \in 1..Len(listed) /\ (at + 1) - 1 = at
           /\ ~(at < Len(listed)) => First(listed, at) = DOMAIN pages
           /\ 1 \in 1..Len(listed)
<1>1. listed \in Seq(Files) /\ Len(listed) \in Nat /\ DOMAIN pages = First(listed, Len(listed))
  BY DEF ReadInv
<1>2. listed[at] \in DOMAIN pages BY <1>1 DEF First
<1>3. First(listed, at - 1) \in SUBSET DOMAIN pages
  <2>1. \A k \in 1..(at - 1) : k \in 1..Len(listed) BY <1>1
  <2> QED BY <1>1, <2>1 DEF First
<1>4. ASSUME listed[at] \in First(listed, at - 1) PROVE FALSE
  <2>1. PICK k \in 1..(at - 1) : listed[k] = listed[at] BY <1>4 DEF First
  <2>2. k \in 1..Len(listed) /\ k # at BY <1>1
  <2> QED BY <2>1, <2>2 DEF ReadInv
<1>5. First(listed, at) = First(listed, at - 1) \union {listed[at]} BY <1>1, FirstMore
<1>6. at < Len(listed) => at + 1 \in 1..Len(listed) /\ (at + 1) - 1 = at BY <1>1
<1>7. ~(at < Len(listed)) => at = Len(listed) BY <1>1
<1>8. 1 \in 1..Len(listed) BY <1>1
<1> QED BY <1>1, <1>2, <1>3, <1>4, <1>5, <1>6, <1>7, <1>8

LEMMA SoundMeans ==
    ASSUME NEW ps
    PROVE  Sound(ps) <=> Coherent(ps) /\ RowsOK(ps) /\ \A c \in Names : IndexSound(ps, c)
BY DEF Sound, RowsOK

LEMMA CheckPageKeeps == ASSUME ValidationInv, CheckPage PROVE ValidationInv'
<1>1. /\ ReadInv /\ phase = "metadata" /\ at \in 1..Len(listed) /\ why # "content"
      /\ Checked(pages, ids, First(listed, at - 1))
  BY DEF ValidationInv, VerdictInv, CheckInv, CheckPage
<1>2. UNCHANGED <<tree, listed, pages>> /\ UNCHANGED world BY DEF CheckPage, world, loaded
<1>3. PICK f : f = listed[at] OBVIOUS
<1>4. f \in DOMAIN pages \ First(listed, at - 1) /\ First(listed, at - 1) \in SUBSET DOMAIN pages
  BY <1>1, <1>3, Position
<1>5. CASE ~MetadataOK(f, pages[f], DOMAIN ids) /\ Fail("content")
  <2>1. ~Sound(pages) BY <1>1, <1>4, <1>5, CheckedFails, SoundMeans
  <2> QED BY <1>2, <1>5, <2>1, FailKeeps
<1>6. CASE MetadataOK(f, pages[f], DOMAIN ids) /\ Outside \in Mentioned(pages[f]) /\ Fail("content")
  <2>1. ~Sound(pages) BY <1>1, <1>4, <1>6, CheckedFails, SoundMeans
  <2> QED BY <1>2, <1>6, <2>1, FailKeeps
<1>7. CASE Fail("files") BY <1>2, <1>7, FailKeeps
<1>8. CASE /\ MetadataOK(f, pages[f], DOMAIN ids) /\ Outside \notin Mentioned(pages[f])
           /\ ids' = [i \in DOMAIN ids \union {pages[f].id} |-> IF i = pages[f].id THEN f ELSE ids[i]]
           /\ Advance("related")
           /\ UNCHANGED <<section, queue, current, seen, rendered, why>>
  <2>1. Checked(pages, ids', First(listed, at))
    <3>1. Checked(pages, ids', First(listed, at - 1) \union {f}) BY <1>1, <1>8, CheckedMore
    <3> QED BY <1>1, <1>3, <3>1, Position
  <2>2. CASE at < Len(listed)
    <3>1. at' = at + 1 /\ phase' = "metadata" BY <1>1, <1>8, <2>2 DEF Advance
    <3>2. ReadInv' BY <1>1, <1>2, <3>1 DEF ReadInv
    <3>3. CheckInv' BY <1>1, <1>2, <2>1, <2>2, <3>1, Position DEF CheckInv, Accepted
    <3>4. RefInv' BY <3>1 DEF RefInv, Accepted
    <3>5. VerdictInv' BY <1>1, <1>8, <3>1 DEF VerdictInv, Accepted
    <3> QED BY <3>2, <3>3, <3>4, <3>5 DEF ValidationInv
  <2>3. CASE ~(at < Len(listed))
    <3>1. at' = 1 /\ phase' = "related" BY <1>8, <2>3 DEF Advance
    <3>2. ReadInv' BY <1>1, <1>2, <3>1 DEF ReadInv
    <3>3. CheckInv' BY <1>1, <1>2, <2>1, <2>3, <3>1, Position DEF CheckInv, Accepted
    <3>4. RefInv'
      <4>1. at' - 1 = 0 BY <3>1
      <4>2. Referred(pages, ids', {}) BY DEF Referred
      <4> QED BY <3>1, <4>1, <4>2, <1>2, FirstNone DEF RefInv, Accepted
    <3>5. VerdictInv' BY <1>1, <1>8, <3>1 DEF VerdictInv, Accepted
    <3> QED BY <3>2, <3>3, <3>4, <3>5 DEF ValidationInv
  <2> QED BY <2>2, <2>3
<1> QED BY <1>3, <1>5, <1>6, <1>7, <1>8 DEF CheckPage

LEMMA CheckRelatedKeeps == ASSUME ValidationInv, CheckRelated PROVE ValidationInv'
<1>1. /\ ReadInv /\ phase = "related" /\ at \in 1..Len(listed) /\ why # "content"
      /\ Checked(pages, ids, DOMAIN pages) /\ Referred(pages, ids, First(listed, at - 1))
  BY DEF ValidationInv, VerdictInv, CheckInv, RefInv, CheckRelated
<1>2. UNCHANGED <<tree, listed, pages>> /\ UNCHANGED world BY DEF CheckRelated, world, loaded
<1>3. PICK f : f = listed[at] OBVIOUS
<1>4. f \in DOMAIN pages BY <1>1, <1>3, Position
<1>5. CASE ~(pages[f].related \subseteq DOMAIN ids) /\ Fail("content")
  <2>1. ~Sound(pages) BY <1>1, <1>4, <1>5, UnrelatedFails, SoundMeans
  <2> QED BY <1>2, <1>5, <2>1, FailKeeps
<1>6. CASE /\ pages[f].related \subseteq DOMAIN ids
           /\ current' = f /\ seen' = {pages[f].id} /\ phase' = "replaced"
           /\ UNCHANGED <<section, queue, ids, at, rendered, why>>
  <2>1. ReadInv' BY <1>1, <1>2, <1>6 DEF ReadInv
  <2>2. CheckInv' BY <1>1, <1>2, <1>6 DEF CheckInv, Accepted
  <2>3. Walk(pages, ids, f, f, {pages[f].id}) BY <1>1, <1>4, WalkStart
  <2>4. RefInv' BY <1>1, <1>2, <1>3, <1>6, <2>3 DEF RefInv, Accepted
  <2>5. VerdictInv' BY <1>1, <1>6 DEF VerdictInv, Accepted
  <2> QED BY <2>1, <2>2, <2>4, <2>5 DEF ValidationInv
<1> QED BY <1>3, <1>5, <1>6 DEF CheckRelated

LEMMA FollowReplacementKeeps == ASSUME ValidationInv, FollowReplacement PROVE ValidationInv'
<1>1. /\ ReadInv /\ phase = "replaced" /\ at \in 1..Len(listed) /\ why # "content"
      /\ Checked(pages, ids, DOMAIN pages) /\ Referred(pages, ids, First(listed, at - 1))
      /\ Walk(pages, ids, listed[at], current, seen) /\ pages[listed[at]].related \subseteq DOMAIN ids
  BY DEF ValidationInv, VerdictInv, CheckInv, RefInv, FollowReplacement
<1>2. UNCHANGED <<tree, listed, pages>> /\ UNCHANGED world BY DEF FollowReplacement, world, loaded
<1>3. PICK id : id = pages[current].supersededBy OBVIOUS
<1>4. Pages(pages) /\ current \in DOMAIN pages BY <1>1 DEF ReadInv, Walk
<1>5. CASE /\ id = None
           /\ IF at < Len(listed) THEN at' = at + 1 /\ phase' = "related"
                                  ELSE at' = 1 /\ phase' = "index"
           /\ UNCHANGED <<section, queue, ids, current, seen, rendered, why>>
  <2>1. ReplacedSoundly(pages, listed[at]) BY <1>1, <1>3, <1>4, <1>5, WalkEnd
  <2>2. Referred(pages, ids, First(listed, at)) BY <1>1, <2>1, Position DEF Referred
  <2>3. CASE at < Len(listed)
    <3>1. at' = at + 1 /\ phase' = "related" BY <1>5, <2>3
    <3>2. ReadInv' BY <1>1, <1>2, <3>1 DEF ReadInv
    <3>3. CheckInv' BY <1>1, <1>2, <1>5, <2>3, <3>1, Position DEF CheckInv, Accepted
    <3>4. RefInv' BY <1>1, <1>2, <1>5, <2>2, <2>3, <3>1, Position DEF RefInv, Accepted
    <3>5. VerdictInv' BY <1>1, <1>5, <3>1 DEF VerdictInv, Accepted
    <3> QED BY <3>2, <3>3, <3>4, <3>5 DEF ValidationInv
  <2>4. CASE ~(at < Len(listed))
    <3>1. at' = 1 /\ phase' = "index" BY <1>5, <2>4
    <3>2. ReadInv' BY <1>1, <1>2, <3>1 DEF ReadInv
    <3>3. CheckInv' BY <1>1, <1>2, <1>5, <3>1 DEF CheckInv, Accepted
    <3>4. RefInv' BY <1>1, <1>2, <1>5, <2>2, <2>4, <3>1, Position DEF RefInv, Accepted
    <3>5. VerdictInv' BY <1>1, <1>5, <3>1 DEF VerdictInv, Accepted
    <3> QED BY <3>2, <3>3, <3>4, <3>5 DEF ValidationInv
  <2> QED BY <2>3, <2>4
<1>6. CASE id # None /\ (~MayReplace(id) \/ id \in seen) /\ Fail("content")
  <2>1. CASE ~MayReplace(id)
    <3>1. ~Sound(pages) BY <1>1, <1>3, <1>4, <1>6, <2>1, WalkStuck, SoundMeans DEF MayReplace
    <3> QED BY <1>2, <1>6, <3>1, FailKeeps
  <2>2. CASE id \in seen
    <3>1. ~Sound(pages) BY <1>1, <1>3, <1>4, <1>6, <2>2, WalkCircle, SoundMeans
    <3> QED BY <1>2, <1>6, <3>1, FailKeeps
  <2> QED BY <1>6, <2>1, <2>2
<1>7. CASE /\ id # None /\ MayReplace(id) /\ id \notin seen
           /\ current' = ids[id] /\ seen' = seen \union {id}
           /\ UNCHANGED <<phase, section, queue, ids, at, rendered, why>>
  <2>1. Walk(pages, ids, listed[at], ids[id], seen \union {id})
    BY <1>1, <1>3, <1>4, <1>7, WalkStep DEF MayReplace
  <2>2. ReadInv' BY <1>1, <1>2, <1>7 DEF ReadInv
  <2>3. CheckInv' BY <1>1, <1>2, <1>7 DEF CheckInv, Accepted
  <2>4. RefInv' BY <1>1, <1>2, <1>7, <2>1 DEF RefInv, Accepted
  <2>5. VerdictInv' BY <1>1, <1>7 DEF VerdictInv, Accepted
  <2> QED BY <2>2, <2>3, <2>4, <2>5 DEF ValidationInv
<1> QED BY <1>3, <1>5, <1>6, <1>7 DEF FollowReplacement

LEMMA CheckIndexKeeps == ASSUME ValidationInv, CheckIndex PROVE ValidationInv'
<1>1. /\ ReadInv /\ phase = "index" /\ at = 1 /\ why # "content" /\ Overview \in DOMAIN pages
      /\ Checked(pages, ids, DOMAIN pages) /\ Referred(pages, ids, DOMAIN pages)
  BY DEF ValidationInv, VerdictInv, CheckInv, RefInv, ReadInv, CheckIndex, Accepted
<1>2. UNCHANGED <<tree, listed, pages>> /\ UNCHANGED world BY DEF CheckIndex, world, loaded
<1>3. IndexOK(pages) <=> RowsOK(pages) /\ \A c \in Names : IndexSound(pages, c)
  BY <1>1, IndexExact DEF ReadInv
<1>4. CASE Fail("files") BY <1>2, <1>4, FailKeeps
<1>5. CASE ~IndexOK(pages) /\ Fail("content")
  <2>1. ~Sound(pages) BY <1>3, <1>5, SoundMeans
  <2> QED BY <1>2, <1>5, <2>1, FailKeeps
<1>6. CASE /\ IndexOK(pages)
           /\ phase' = IF mode = "check" THEN "done" ELSE "render"
           /\ UNCHANGED <<section, queue, ids, at, current, seen, rendered, why>>
  <2>1. Sound(pages) BY <1>1, <1>3, <1>6, CoherentAtLast, SoundMeans
  <2>2. phase' \in {"done", "render"} BY <1>6
  <2>3. ReadInv' BY <1>1, <1>2, <1>6, <2>2 DEF ReadInv
  <2>4. 1 \in 1..Len(listed)
    <3>1. Len(listed) \in Nat /\ Len(listed) # 0 BY <1>1, FirstNone DEF ReadInv
    <3> QED BY <3>1
  <2>5. CheckInv' BY <1>1, <1>2, <1>6, <2>2, <2>4 DEF CheckInv, Accepted
  <2>6. RefInv' BY <1>1, <1>2, <1>6, <2>2 DEF RefInv, Accepted
  <2>7. VerdictInv' BY <1>1, <1>2, <1>6, <2>1, <2>2 DEF VerdictInv, Accepted
  <2> QED BY <2>3, <2>5, <2>6, <2>7 DEF ValidationInv
<1> QED BY <1>4, <1>5, <1>6 DEF CheckIndex

\* Rendering and writing leave the verdict alone.
LEMMA AcceptedKeeps ==
    ASSUME ValidationInv, phase \in Accepted, phase' \in Accepted,
           UNCHANGED <<tree, listed, pages, ids, why>>,
           phase' \in {"render", "write"} => at' \in 1..Len(listed),
           phase' = "remove" => at' = 1
    PROVE  ValidationInv'
<1>1. ReadInv' BY DEF ValidationInv, ReadInv, Accepted
<1>2. CheckInv' BY DEF ValidationInv, CheckInv, Accepted
<1>3. RefInv' BY DEF ValidationInv, RefInv, Accepted
<1>4. VerdictInv' BY DEF ValidationInv, VerdictInv, Accepted
<1> QED BY <1>1, <1>2, <1>3, <1>4 DEF ValidationInv

LEMMA RenderingKeeps ==
    ASSUME ValidationInv, RenderPage \/ RemoveOutput \/ WritePage \/ WriteCategory
    PROVE  ValidationInv'
<1>1. ReadInv /\ CheckInv BY DEF ValidationInv
<1>2. CASE RenderPage
  <2>1. phase = "render" /\ UNCHANGED <<world, listed, pages>> BY <1>2 DEF RenderPage, loaded
  <2>2. at \in 1..Len(listed) BY <1>1, <2>1 DEF CheckInv
  <2>3. \/ \E r \in {"files", "image", "repository"} : Fail(r)
        \/ Advance("remove") /\ UNCHANGED <<section, queue, ids, current, seen, why>>
    BY <1>2 DEF RenderPage
  <2>4. CASE \E r \in {"files", "image", "repository"} : Fail(r) BY <2>1, <2>4, FailKeeps
  <2>5. CASE Advance("remove") /\ UNCHANGED <<section, queue, ids, current, seen, why>>
    <3>1. \/ at' = at + 1 /\ phase' = "render" /\ at' \in 1..Len(listed)
          \/ at' = 1 /\ phase' = "remove"
      BY <1>1, <2>1, <2>2, <2>5, Position DEF Advance
    <3> QED BY <2>1, <2>5, <3>1, AcceptedKeeps DEF Accepted, world
  <2> QED BY <2>3, <2>4, <2>5
<1>3. CASE RemoveOutput
  <2>1. /\ phase = "remove" /\ phase' = "write" /\ at' = at
        /\ UNCHANGED <<tree, listed, pages, ids, why>>
    BY <1>3 DEF RemoveOutput, world, loaded
  <2>2. at = 1 /\ Overview \in DOMAIN pages BY <1>1, <2>1 DEF CheckInv, ReadInv
  <2>3. Len(listed) \in Nat /\ Len(listed) # 0 BY <1>1, <2>2, FirstNone DEF ReadInv
  <2>4. at \in 1..Len(listed) BY <2>2, <2>3
  <2> QED BY <2>1, <2>4, AcceptedKeeps DEF Accepted
<1>4. CASE WritePage
  <2>1. phase = "write" /\ UNCHANGED <<tree, listed, pages, ids, why>> /\ Advance("categories")
    BY <1>4 DEF WritePage, world, loaded
  <2>2. at \in 1..Len(listed) BY <1>1, <2>1 DEF CheckInv
  <2>3. \/ at' = at + 1 /\ phase' = "write" /\ at' \in 1..Len(listed)
        \/ at' = 1 /\ phase' = "categories"
    BY <1>1, <2>1, <2>2, Position DEF Advance
  <2> QED BY <2>1, <2>3, AcceptedKeeps DEF Accepted
<1>5. CASE WriteCategory
  <2>1. /\ phase = "categories" /\ phase' \in {"categories", "done"}
        /\ UNCHANGED <<tree, listed, pages, ids, why>>
    BY <1>5 DEF WriteCategory, world, loaded
  <2> QED BY <2>1, AcceptedKeeps DEF Accepted
<1> QED BY <1>2, <1>3, <1>4, <1>5

LEMMA StartKeeps ==
    ASSUME ValidationInv, StartCheck \/ \E env \in Envs : StartAssemble(env)
    PROVE  ValidationInv'
<1>1. CASE \E env \in Envs : StartAssemble(env) /\ Fail("repository")
  BY <1>1, FailKeeps DEF StartAssemble
<1>2. CASE phase = "idle" /\ phase' = "overview"
           /\ UNCHANGED <<world, listed, pages, section, queue, ids, at, why>>
  <2>1. ReadInv' BY <1>2 DEF ValidationInv, ReadInv, world
  <2>2. CheckInv' /\ RefInv' BY <1>2 DEF CheckInv, RefInv, Accepted
  <2>3. VerdictInv' BY <1>2 DEF ValidationInv, VerdictInv, Accepted
  <2> QED BY <2>1, <2>2, <2>3 DEF ValidationInv
<1> QED BY <1>1, <1>2 DEF StartCheck, StartAssemble

LEMMA ValidationStep == ASSUME ValidationInv, [Next]_vars PROVE ValidationInv'
<1>1. tree \in [Files -> Content \union {Absent, Garbled}] BY DEF ValidationInv, ReadInv
<1>2. CASE \E f \in Files : Write(f)
  <2>1. PICK f \in Files : Write(f) BY <1>2
  <2>2. PICK c \in Drafts[f] : tree' = [tree EXCEPT ![f] = c] BY <2>1 DEF Write
  <2>3. c \in Content \union {Absent, Garbled} BY AssemblyAssumption
  <2>4. tree' \in [Files -> Content \union {Absent, Garbled}] BY <1>1, <2>2, <2>3
  <2> QED BY <2>1, <2>4, EditKeeps DEF Write, loaded
<1>3. CASE \E p \in Others : Touch(p) BY <1>1, <1>3, EditKeeps DEF Touch, loaded
<1>4. CASE StartCheck \/ \E env \in Envs : StartAssemble(env) BY <1>4, StartKeeps
<1>5. CASE ReadOverview \/ Glob \/ ReadPage BY <1>5, ReadOverviewKeeps, GlobKeeps, ReadPageKeeps
<1>6. CASE CheckPage \/ CheckRelated \/ FollowReplacement \/ CheckIndex
  BY <1>6, CheckPageKeeps, CheckRelatedKeeps, FollowReplacementKeeps, CheckIndexKeeps
<1>7. CASE RenderPage \/ RemoveOutput \/ WritePage \/ WriteCategory BY <1>7, RenderingKeeps
<1>8. CASE Exit \/ Die \/ DieRemoving BY <1>8, ResetKeeps DEF Exit, Die, DieRemoving
<1>9. CASE UNCHANGED vars BY <1>1, <1>9, EditKeeps DEF vars
<1> QED BY <1>2, <1>3, <1>4, <1>5, <1>6, <1>7, <1>8, <1>9 DEF Next, Run

\* What a run has read, checked and decided is consistent at every step.
THEOREM ValidationSafe == Spec => []ValidationInv
BY ReadStart, ValidationStep, PTL DEF Spec

\* validateMetadata, validateReferences and validateIndex together decide exactly whether the
\* pages read are sound: for any documentation, whatever is edited beside the run, a run that
\* goes on has sound pages and a run that blames the content has unsound ones.
THEOREM ValidationIsExact == Spec => []ValidationExact
<1>1. ValidationInv => ValidationExact BY DEF ValidationInv, VerdictInv, ValidationExact, Accepted
<1> QED BY <1>1, ValidationSafe, PTL

-----------------------------------------------------------------------------
(* The site. *)

\* What is published for the pages in S: each as it was read, leading only to pages, under a
\* web address without credentials.
Published(ps, h, S) ==
    /\ DOMAIN h = S
    /\ \A f \in S : /\ h[f].content = ps[f] /\ h[f].leads \subseteq DOMAIN ps
                    /\ h[f].repository.kind = "web" /\ ~h[f].repository.credentials

\* The category files and the landing pages of the collections in C are as the pages want them.
Filed(ps, s, C) ==
    /\ DOMAIN s.categories = C
    /\ \A c \in C : s.categories[c] = "doc" <=> c \in s.landings
    /\ \A c : c \in s.landings <=> c \in C /\ c \in Recorded /\ \A f \in DOMAIN ps : Collection[f] # c

Early == {"idle", "overview", "glob", "metadata", "related", "replaced", "index"}

\* Rendering.
RenderInv ==
    /\ repository # None => repository.kind = "web" /\ ~repository.credentials
    /\ phase \in Early => rendered = Empty
    /\ phase = "render" => Published(pages, rendered, First(listed, at - 1))
    /\ phase \in {"remove", "write", "categories"} => Published(pages, rendered, DOMAIN pages)

\* Replacing pages/docs.
SiteInv ==
    /\ DOMAIN site = {"pages", "categories", "landings"}
    /\ phase = "write" => /\ Published(pages, site.pages, First(listed, at - 1))
                          /\ DOMAIN site.categories = {} /\ site.landings = {}
    /\ phase = "categories" => /\ at \in 1..Len(collections)
                               /\ Published(pages, site.pages, DOMAIN pages)
                               /\ Filed(pages, site, First(collections, at - 1))
    /\ phase \notin {"write", "categories"} => torn \/ site = NoSite \/ Whole(site)

LEMMA PublishedMore ==
    ASSUME NEW ps, NEW h, NEW S, Published(ps, h, S), NEW f, NEW v,
           v.content = ps[f], v.leads \subseteq DOMAIN ps,
           v.repository.kind = "web", ~v.repository.credentials
    PROVE  Published(ps, [g \in DOMAIN h \union {f} |-> IF g = f THEN v ELSE h[g]], S \union {f})
BY DEF Published

\* A page leads only to pages that were read.
LEMMA LeadsToPages ==
    ASSUME NEW ps, NEW is, Checked(ps, is, DOMAIN ps), Referred(ps, is, DOMAIN ps), NEW f \in DOMAIN ps
    PROVE  Leads(ps, is, f) \subseteq DOMAIN ps
<1>1. \A i \in DOMAIN is : is[i] \in DOMAIN ps BY DEF Checked
<1>2. \A p : Destinations(ps, p) \subseteq DOMAIN ps BY DEF Destinations
<1>3. \A r \in ps[f].related : is[r] \in DOMAIN ps BY <1>1 DEF Referred
<1>4. ps[f].supersededBy # None => is[ps[f].supersededBy] \in DOMAIN ps
  BY <1>1 DEF Referred, ReplacedSoundly, Checked
<1>5. ASSUME NEW x \in Leads(ps, is, f)
      PROVE  \/ \E p \in Local(ps[f]) : x \in Destinations(ps, p)
             \/ \E r \in ps[f].related : x = is[r]
             \/ ps[f].supersededBy # None /\ x = is[ps[f].supersededBy]
  <2>1. CASE Collection[f] \in Recorded /\ ps[f].supersededBy # None BY <1>5, <2>1 DEF Leads
  <2>2. CASE ~(Collection[f] \in Recorded /\ ps[f].supersededBy # None) BY <1>5, <2>2 DEF Leads
  <2> QED BY <2>1, <2>2
<1> QED BY <1>2, <1>3, <1>4, <1>5

\* All pages and all collections written: the site is whole.
LEMMA WholeAtLast ==
    ASSUME NEW ps, ps = [f \in DOMAIN ps |-> ps[f]], Overview \in DOMAIN ps, Coherent(ps),
           NEW s, Published(ps, s.pages, DOMAIN ps), Filed(ps, s, Names)
    PROVE  Whole(s)
<1>1. DOMAIN s.pages = DOMAIN ps BY DEF Published
<1>2. [f \in DOMAIN s.pages |-> s.pages[f].content] = ps BY <1>1 DEF Published
<1>3. Coherent([f \in DOMAIN s.pages |-> s.pages[f].content]) BY <1>2
<1>4. Recorded \subseteq Names BY DEF Recorded, Names, collections
<1>5. s.landings = {c \in Recorded : \A f \in DOMAIN s.pages : Collection[f] # c} BY <1>1, <1>4 DEF Filed
<1>6. /\ \A f \in DOMAIN s.pages : s.pages[f].leads \subseteq DOMAIN s.pages
      /\ \A f \in DOMAIN s.pages : s.pages[f].repository.kind = "web" /\ ~s.pages[f].repository.credentials
  BY <1>1 DEF Published
<1>7. DOMAIN s.categories = Names /\ \A c \in Names : s.categories[c] = "doc" <=> c \in s.landings
  BY DEF Filed
<1> HIDE DEF Recorded, Names
<1> QED BY <1>1, <1>3, <1>5, <1>6, <1>7 DEF Whole

LEMMA Collections ==
    /\ Len(collections) = 4 /\ First(collections, 4) = Names
    /\ \A n \in 1..4 : /\ collections[n] \notin First(collections, n - 1)
                       /\ First(collections, n) = First(collections, n - 1) \union {collections[n]}
<1>1. Len(collections) = 4 /\ DOMAIN collections = 1..4 BY DEF collections
<1>2. First(collections, 4) = Names BY <1>1 DEF First, Names
<1>3. \A m, n \in 1..4 : collections[m] = collections[n] => m = n BY DEF collections
<1>4. ASSUME NEW n \in 1..4 PROVE collections[n] \notin First(collections, n - 1)
  <2>1. \A k \in 1..(n - 1) : k \in 1..4 /\ k # n OBVIOUS
  <2> QED BY <1>3, <2>1 DEF First
<1>5. ASSUME NEW n \in 1..4
      PROVE  First(collections, n) = First(collections, n - 1) \union {collections[n]}
  <2>1. 1..n = (1..(n - 1)) \union {n} OBVIOUS
  <2> QED BY <2>1 DEF First
<1> QED BY <1>1, <1>2, <1>4, <1>5

LEMMA SiteStart == ASSUME Init PROVE RenderInv /\ SiteInv
<1>1. RenderInv BY DEF Init, RenderInv, Early
<1>2. DOMAIN site = {"pages", "categories", "landings"} BY DEF Init, NoSite
<1> QED BY <1>1, <1>2 DEF Init, SiteInv

\* Steps that render and write nothing.
LEMMA QuietKeeps ==
    ASSUME RenderInv, SiteInv, UNCHANGED <<rendered, site, torn>>,
           phase \notin {"write", "categories"}, phase' \in Early \union {"done", "failed"},
           phase' \in Early => phase \in Early,
           repository' # None => repository'.kind = "web" /\ ~repository'.credentials
    PROVE  RenderInv' /\ SiteInv'
<1>1. RenderInv' BY DEF RenderInv, Early
<1>2. SiteInv' BY DEF SiteInv, Early
<1> QED BY <1>1, <1>2

\* Steps beside the run.
LEMMA AsideKeeps ==
    ASSUME RenderInv, SiteInv,
           UNCHANGED <<repository, listed, pages, at, rendered, phase, site, torn>>
    PROVE  RenderInv' /\ SiteInv'
BY DEF RenderInv, SiteInv

LEMMA RefusedKeeps ==
    ASSUME RenderInv, SiteInv, NEW reason, Fail(reason), UNCHANGED <<repository, site, torn>>,
           phase \notin {"write", "categories"}
    PROVE  RenderInv' /\ SiteInv'
BY QuietKeeps DEF Fail, Early, RenderInv

LEMMA StartSite ==
    ASSUME RenderInv, SiteInv, StartCheck \/ \E env \in Envs : StartAssemble(env)
    PROVE  RenderInv' /\ SiteInv'
<1>1. phase = "idle" /\ UNCHANGED <<rendered, site, torn>> /\ phase' \in {"overview", "failed"}
  BY DEF StartCheck, StartAssemble, Fail, output
<1>2. repository' # None => repository'.kind = "web" /\ ~repository'.credentials
  <2>1. CASE UNCHANGED repository BY <2>1 DEF RenderInv
  <2>2. CASE \E env \in Envs : ~RefusedURL(env) /\ repository' = Candidate(env)
    BY <2>2 DEF RefusedURL
  <2> QED BY <2>1, <2>2 DEF StartCheck, StartAssemble
<1> QED BY <1>1, <1>2, QuietKeeps DEF Early

LEMMA ReadingSite ==
    ASSUME RenderInv, SiteInv, ReadOverview \/ Glob \/ ReadPage
    PROVE  RenderInv' /\ SiteInv'
<1>1. phase \in {"overview", "glob"} /\ phase' \in {"glob", "metadata", "failed"}
  BY DEF ReadOverview, Glob, ReadPage, Fail
<1>2. UNCHANGED <<rendered, site, torn, repository>>
  BY DEF ReadOverview, Glob, ReadPage, Read, Fail, output, loaded
<1>3. repository' # None => repository'.kind = "web" /\ ~repository'.credentials BY <1>2 DEF RenderInv
<1> QED BY <1>1, <1>2, <1>3, QuietKeeps DEF Early

LEMMA ValidatingSite ==
    ASSUME ValidationInv, RenderInv, SiteInv, CheckPage \/ CheckRelated \/ FollowReplacement \/ CheckIndex
    PROVE  RenderInv' /\ SiteInv'
<1>1. phase \in {"metadata", "related", "replaced", "index"} /\ UNCHANGED <<rendered, site, torn, repository>>
  BY DEF CheckPage, CheckRelated, FollowReplacement, CheckIndex, Fail, output, loaded
<1>2. repository' # None => repository'.kind = "web" /\ ~repository'.credentials BY <1>1 DEF RenderInv
<1>3. CASE CheckIndex /\ phase' = "render"
  <2>1. phase = "index" /\ at' = at BY <1>3 DEF CheckIndex, Fail
  <2>2. at' - 1 = 0 /\ rendered' = Empty BY <1>1, <2>1 DEF ValidationInv, CheckInv, RenderInv, Early
  <2>3. Published(pages', rendered', First(listed', at' - 1))
    <3>1. Published(pages', Empty, {}) BY DEF Published, Empty
    <3> QED BY <2>2, <3>1, FirstNone
  <2>4. RenderInv' BY <1>2, <1>3, <2>3 DEF RenderInv, Early
  <2>5. SiteInv' BY <1>1, <1>3 DEF SiteInv
  <2> QED BY <2>4, <2>5
<1>4. CASE ~(CheckIndex /\ phase' = "render")
  <2>1. phase' \in {"metadata", "related", "replaced", "index", "failed", "done"}
    BY <1>4 DEF CheckPage, CheckRelated, FollowReplacement, CheckIndex, Fail, Advance
  <2> QED BY <1>1, <1>2, <2>1, QuietKeeps DEF Early
<1> QED BY <1>3, <1>4

LEMMA RenderPageSite ==
    ASSUME ValidationInv, RenderInv, SiteInv, RenderPage
    PROVE  RenderInv' /\ SiteInv'
<1>1. phase = "render" /\ UNCHANGED <<repository, listed, pages, site, torn>> BY DEF RenderPage, loaded, output
<1>2. ReadInv /\ at \in 1..Len(listed) /\ Checked(pages, ids, DOMAIN pages) /\ Referred(pages, ids, DOMAIN pages)
  BY <1>1 DEF ValidationInv, CheckInv, RefInv, Accepted
<1>3. PICK f : f = listed[at] OBVIOUS
<1>4. f \in DOMAIN pages BY <1>2, <1>3, Position
<1>5. CASE \E r \in {"files", "image", "repository"} : Fail(r) BY <1>1, <1>5, RefusedKeeps
<1>6. CASE /\ repository # None
           /\ rendered' = [g \in DOMAIN rendered \union {f} |->
                 IF g = f THEN [content |-> pages[f], leads |-> Leads(pages, ids, f), repository |-> repository]
                          ELSE rendered[g]]
           /\ Advance("remove")
  <2>1. PICK v : v = [content |-> pages[f], leads |-> Leads(pages, ids, f), repository |-> repository] OBVIOUS
  <2>2. v.content = pages[f] /\ v.leads = Leads(pages, ids, f) /\ v.repository = repository BY <2>1
  <2>3. v.leads \subseteq DOMAIN pages BY <1>2, <1>4, <2>2, LeadsToPages
  <2>4. v.repository.kind = "web" /\ ~v.repository.credentials BY <1>6, <2>2 DEF RenderInv
  <2>5. Published(pages, rendered, First(listed, at - 1)) BY <1>1 DEF RenderInv
  <2>6. rendered' = [g \in DOMAIN rendered \union {f} |-> IF g = f THEN v ELSE rendered[g]] BY <1>6, <2>1
  <2>7. Published(pages, rendered', First(listed, at - 1) \union {f})
    BY <2>2, <2>3, <2>4, <2>5, <2>6, PublishedMore
  <2>8. Published(pages, rendered', First(listed, at)) BY <1>2, <1>3, <2>7, Position
  <2>9. SiteInv' /\ (repository' # None => repository'.kind = "web" /\ ~repository'.credentials)
    BY <1>1, <1>6 DEF SiteInv, RenderInv, Advance
  <2>10. CASE at < Len(listed)
    <3>1. at' = at + 1 /\ phase' = "render" /\ at' - 1 = at BY <1>1, <1>2, <1>6, <2>10, Position DEF Advance
    <3>2. RenderInv' BY <1>1, <2>8, <2>9, <3>1 DEF RenderInv, Early
    <3> QED BY <2>9, <3>2
  <2>11. CASE ~(at < Len(listed))
    <3>1. phase' = "remove" BY <1>6, <2>11 DEF Advance
    <3>2. Published(pages, rendered', DOMAIN pages) BY <1>2, <2>8, <2>11, Position
    <3>3. RenderInv' BY <1>1, <2>9, <3>1, <3>2 DEF RenderInv, Early
    <3> QED BY <2>9, <3>3
  <2> QED BY <2>10, <2>11
<1> QED BY <1>3, <1>5, <1>6 DEF RenderPage

LEMMA RemoveOutputSite ==
    ASSUME ValidationInv, RenderInv, SiteInv, RemoveOutput
    PROVE  RenderInv' /\ SiteInv'
<1>1. /\ phase = "remove" /\ phase' = "write" /\ site' = NoSite
      /\ UNCHANGED <<repository, listed, pages, at, rendered>>
  BY DEF RemoveOutput, loaded
<1>2. at' - 1 = 0 BY <1>1 DEF ValidationInv, CheckInv
<1>3. /\ DOMAIN site' = {"pages", "categories", "landings"}
      /\ site'.pages = Empty /\ DOMAIN site'.categories = {} /\ site'.landings = {}
  BY <1>1 DEF NoSite, Empty
<1>4. Published(pages', site'.pages, First(listed', at' - 1))
  <2>1. Published(pages', Empty, {}) BY DEF Published, Empty
  <2> QED BY <1>2, <1>3, <2>1, FirstNone
<1>5. RenderInv' BY <1>1 DEF RenderInv, Early
<1>6. SiteInv' BY <1>1, <1>3, <1>4 DEF SiteInv
<1> QED BY <1>5, <1>6

LEMMA WritePageSite ==
    ASSUME ValidationInv, RenderInv, SiteInv, WritePage
    PROVE  RenderInv' /\ SiteInv'
<1>1. phase = "write" /\ UNCHANGED <<repository, listed, pages, rendered>> /\ Advance("categories")
  BY DEF WritePage, loaded
<1>2. ReadInv /\ at \in 1..Len(listed) BY <1>1 DEF ValidationInv, CheckInv
<1>3. PICK f : f = listed[at] OBVIOUS
<1>4. f \in DOMAIN pages BY <1>2, <1>3, Position
<1>5. /\ DOMAIN site = {"pages", "categories", "landings"}
      /\ Published(pages, site.pages, First(listed, at - 1))
      /\ DOMAIN site.categories = {} /\ site.landings = {}
      /\ Published(pages, rendered, DOMAIN pages)
  BY <1>1 DEF SiteInv, RenderInv
<1>6. /\ DOMAIN site' = {"pages", "categories", "landings"}
      /\ site'.pages = [g \in DOMAIN site.pages \union {f} |-> IF g = f THEN rendered[f] ELSE site.pages[g]]
      /\ site'.categories = site.categories /\ site'.landings = site.landings
  BY <1>3, <1>5 DEF WritePage
<1>7. Published(pages, site'.pages, First(listed, at))
  <2>1. /\ rendered[f].content = pages[f] /\ rendered[f].leads \subseteq DOMAIN pages
        /\ rendered[f].repository.kind = "web" /\ ~rendered[f].repository.credentials
    BY <1>4, <1>5 DEF Published
  <2>2. Published(pages, site'.pages, First(listed, at - 1) \union {f}) BY <1>5, <1>6, <2>1, PublishedMore
  <2> QED BY <1>2, <1>3, <2>2, Position
<1>8. CASE at < Len(listed)
  <2>1. at' = at + 1 /\ phase' = "write" /\ at' - 1 = at BY <1>1, <1>2, <1>8, Position DEF Advance
  <2>2. RenderInv' BY <1>1, <2>1 DEF RenderInv, Early
  <2>3. SiteInv' BY <1>1, <1>5, <1>6, <1>7, <2>1 DEF SiteInv
  <2> QED BY <2>2, <2>3
<1>9. CASE ~(at < Len(listed))
  <2>1. at' = 1 /\ phase' = "categories" /\ at' - 1 = 0 BY <1>1, <1>9 DEF Advance
  <2>2. Published(pages', site'.pages, DOMAIN pages') BY <1>1, <1>2, <1>7, <1>9, Position
  <2>3. Filed(pages', site', First(collections, at' - 1)) BY <1>5, <1>6, <2>1, FirstNone DEF Filed
  <2>4. at' \in 1..Len(collections) BY <2>1, Collections
  <2>5. RenderInv' BY <1>1, <2>1 DEF RenderInv, Early
  <2>6. SiteInv' BY <1>6, <2>1, <2>2, <2>3, <2>4 DEF SiteInv
  <2> QED BY <2>5, <2>6
<1> QED BY <1>8, <1>9

LEMMA WriteCategorySite ==
    ASSUME ValidationInv, RenderInv, SiteInv, WriteCategory
    PROVE  RenderInv' /\ SiteInv'
<1>1. phase = "categories" /\ UNCHANGED <<repository, listed, pages, rendered>>
  BY DEF WriteCategory, loaded
<1>2. /\ DOMAIN site = {"pages", "categories", "landings"} /\ at \in 1..4
      /\ Published(pages, site.pages, DOMAIN pages) /\ Filed(pages, site, First(collections, at - 1))
  BY <1>1, Collections DEF SiteInv
<1>3. PICK c : c = collections[at] OBVIOUS
<1>4. PICK empty \in BOOLEAN : empty <=> c \in Recorded /\ \A f \in DOMAIN pages : Collection[f] # c
  OBVIOUS
<1>5. /\ DOMAIN site' = {"pages", "categories", "landings"} /\ site'.pages = site.pages
      /\ site'.landings = IF empty THEN site.landings \union {c} ELSE site.landings
      /\ site'.categories = [d \in DOMAIN site.categories \union {c} |->
            IF d # c THEN site.categories[d] ELSE IF empty THEN "doc" ELSE "generated-index"]
  BY <1>2, <1>3, <1>4 DEF WriteCategory
<1>6. Filed(pages', site', First(collections, at))
  <2>1. PICK C : C = First(collections, at - 1) OBVIOUS
  <2>2. c \notin C /\ First(collections, at) = C \union {c} BY <1>2, <1>3, <2>1, Collections
  <2>3. /\ DOMAIN site.categories = C
        /\ \A d \in C : site.categories[d] = "doc" <=> d \in site.landings
        /\ \A d : d \in site.landings <=> d \in C /\ d \in Recorded /\ \A f \in DOMAIN pages : Collection[f] # d
    BY <1>2, <2>1 DEF Filed
  <2>4. c \notin site.landings BY <2>2, <2>3
  <2>5. DOMAIN site'.categories = C \union {c} BY <1>5, <2>3
  <2>6. \A d : d \in site'.landings <=> d \in site.landings \/ (d = c /\ empty) BY <1>5
  <2>7. \A d : d \in site'.landings <=>
           d \in C \union {c} /\ d \in Recorded /\ \A f \in DOMAIN pages : Collection[f] # d
    BY <1>4, <2>2, <2>3, <2>6
  <2>8. ASSUME NEW d \in C PROVE site'.categories[d] = "doc" <=> d \in site'.landings
    BY <1>5, <2>2, <2>3, <2>6
  <2>9. site'.categories[c] = "doc" <=> c \in site'.landings BY <1>5, <2>3, <2>4, <2>6
  <2> QED BY <1>1, <2>2, <2>5, <2>7, <2>8, <2>9 DEF Filed
<1>7. CASE at < Len(collections)
  <2>1. at' = at + 1 /\ phase' = "categories" BY <1>1, <1>7 DEF WriteCategory
  <2>2. at' - 1 = at /\ at' \in 1..Len(collections) BY <1>2, <1>7, <2>1, Collections
  <2>3. RenderInv' BY <1>1, <2>1 DEF RenderInv, Early
  <2>4. SiteInv' BY <1>1, <1>2, <1>5, <1>6, <2>1, <2>2 DEF SiteInv
  <2> QED BY <2>3, <2>4
<1>8. CASE ~(at < Len(collections))
  <2>1. phase' = "done" BY <1>8 DEF WriteCategory
  <2>2. at = 4 BY <1>2, <1>8, Collections
  <2>3. Filed(pages, site', Names) BY <1>1, <1>6, <2>2, Collections
  <2>4. Published(pages, site'.pages, DOMAIN pages) BY <1>2, <1>5
  <2>5. Overview \in DOMAIN pages /\ pages = [f \in DOMAIN pages |-> pages[f]] BY <1>1 DEF ValidationInv, ReadInv
  <2>6. Coherent(pages) BY <1>1, SoundMeans DEF ValidationInv, VerdictInv, Accepted
  <2>7. Whole(site') BY <2>3, <2>4, <2>5, <2>6, WholeAtLast
  <2>8. RenderInv' BY <1>1, <2>1 DEF RenderInv, Early
  <2>9. SiteInv' BY <1>5, <2>1, <2>7 DEF SiteInv
  <2> QED BY <2>8, <2>9
<1> QED BY <1>7, <1>8

\* The end of a run: at its end, between two steps, or with part of the old site removed.
LEMMA ResetSite ==
    ASSUME RenderInv, SiteInv, Exit \/ Die \/ DieRemoving
    PROVE  RenderInv' /\ SiteInv'
<1>1. phase' = "idle" /\ repository' = None /\ rendered' = Empty BY DEF Exit, Die, DieRemoving, Reset
<1>2. RenderInv' BY <1>1 DEF RenderInv, Early
<1>3. CASE Exit
  <2>1. phase \in {"done", "failed"} /\ UNCHANGED <<site, torn>> BY <1>3 DEF Exit, output
  <2>2. SiteInv' BY <1>1, <2>1 DEF SiteInv
  <2> QED BY <1>2, <2>2
<1>4. CASE Die
  <2>1. site' = site /\ (torn' <=> torn \/ phase \in {"write", "categories"}) BY <1>4 DEF Die
  <2>2. SiteInv' BY <1>1, <2>1 DEF SiteInv
  <2> QED BY <1>2, <2>2
<1>5. CASE DieRemoving
  <2>1. torn' /\ DOMAIN site' = {"pages", "categories", "landings"} BY <1>5 DEF DieRemoving
  <2>2. SiteInv' BY <1>1, <2>1 DEF SiteInv
  <2> QED BY <1>2, <2>2
<1> QED BY <1>3, <1>4, <1>5

LEMMA SiteStep ==
    ASSUME ValidationInv, RenderInv, SiteInv, [Next]_vars
    PROVE  RenderInv' /\ SiteInv'
<1>1. CASE \E f \in Files : Write(f) BY <1>1, AsideKeeps DEF Write, loaded, output
<1>2. CASE \E p \in Others : Touch(p) BY <1>2, AsideKeeps DEF Touch, loaded, output
<1>3. CASE StartCheck \/ \E env \in Envs : StartAssemble(env) BY <1>3, StartSite
<1>4. CASE ReadOverview \/ Glob \/ ReadPage BY <1>4, ReadingSite
<1>5. CASE CheckPage \/ CheckRelated \/ FollowReplacement \/ CheckIndex BY <1>5, ValidatingSite
<1>6. CASE RenderPage \/ RemoveOutput \/ WritePage \/ WriteCategory
  BY <1>6, RenderPageSite, RemoveOutputSite, WritePageSite, WriteCategorySite
<1>7. CASE Exit \/ Die \/ DieRemoving BY <1>7, ResetSite
<1>8. CASE UNCHANGED vars BY <1>8, AsideKeeps DEF vars
<1> QED BY <1>1, <1>2, <1>3, <1>4, <1>5, <1>6, <1>7, <1>8 DEF Next, Run

\* "Validate all sources before replacing the generated directory": for any documentation, any
\* edits and any number of runs, stopped anywhere, what stands in pages/docs is one whole site
\* unless it is being replaced or a replacement was cut short and not redone.
THEOREM SiteIsWhole == Spec => []SiteWhole
<1>1. Init => ValidationInv /\ RenderInv /\ SiteInv BY ReadStart, SiteStart
<1>2. ValidationInv /\ RenderInv /\ SiteInv /\ [Next]_vars => (ValidationInv /\ RenderInv /\ SiteInv)'
  BY ValidationStep, SiteStep
<1>3. SiteInv => SiteWhole BY DEF SiteInv, SiteWhole, Replacing
<1> QED BY <1>1, <1>2, <1>3, PTL DEF Spec

-----------------------------------------------------------------------------
(* Progress: the safety half of RunsEnd. *)

Stage(p) ==
    CASE p = "overview" -> 1
      [] p = "glob" -> 2
      [] p = "metadata" -> 3
      [] p \in {"related", "replaced"} -> 4
      [] p = "index" -> 5
      [] p = "render" -> 6
      [] p = "remove" -> 7
      [] p = "write" -> 8
      [] p = "categories" -> 9
      [] p \in {"done", "failed"} -> 10

\* A later stage; or, in the same one, a later collection or a shorter queue, a later page of
\* those listed, or a longer walk among the IDs the pages have.
Forward ==
    \/ Stage(phase) < Stage(phase')
    \/ phase = "glob" /\ phase' = "glob"
       /\ \/ section < section' /\ section' <= Len(collections)
          \/ section' = section /\ queue' \subseteq queue /\ queue' # queue
    \/ Stage(phase) = Stage(phase') /\ phase \in {"metadata", "replaced", "render", "write"}
       /\ at < at' /\ at' <= Len(listed) /\ listed' = listed
    \/ phase = "categories" /\ phase' = "categories" /\ at < at' /\ at' <= Len(collections)
    \/ phase = "related" /\ phase' = "replaced" /\ at' = at
    \/ phase = "replaced" /\ phase' = "replaced" /\ at' = at
       /\ seen \subseteq seen' /\ seen' # seen /\ seen' \subseteq DOMAIN ids /\ ids' = ids

process == <<phase, mode, repository, section, queue, listed, pages, ids, at, current, seen, rendered, why, site>>

\* A run goes forward or ends with each of its steps, and nothing else moves it.
RunsAdvance == [][phase # "idle" /\ phase' # "idle" => UNCHANGED process \/ Forward]_vars

LEMMA Stages ==
    /\ Stage("overview") = 1 /\ Stage("glob") = 2 /\ Stage("metadata") = 3
    /\ Stage("related") = 4 /\ Stage("replaced") = 4 /\ Stage("index") = 5
    /\ Stage("render") = 6 /\ Stage("remove") = 7 /\ Stage("write") = 8
    /\ Stage("categories") = 9 /\ Stage("done") = 10 /\ Stage("failed") = 10
BY DEF Stage

LEMMA FailAdvances ==
    ASSUME NEW reason, Fail(reason),
           phase \in {"overview", "glob", "metadata", "related", "replaced", "index", "render"}
    PROVE  Forward
<1>1. phase' = "failed" BY DEF Fail
<1>2. Stage(phase) < Stage(phase') BY <1>1, Stages
<1> QED BY <1>2 DEF Forward

LEMMA ReadingAdvances ==
    ASSUME ValidationInv, ReadOverview \/ Glob \/ ReadPage
    PROVE  Forward
<1>1. CASE \E r \in {"unreadable"} : Fail(r)
  <2>1. phase \in {"overview", "glob"} BY DEF ReadOverview, Glob, ReadPage
  <2> QED BY <1>1, <2>1, FailAdvances
<1>2. CASE ReadOverview /\ phase' = "glob"
  <2>1. Stage(phase) < Stage(phase') BY <1>2, Stages DEF ReadOverview
  <2> QED BY <2>1 DEF Forward
<1>3. CASE Glob
  <2>1. phase = "glob" /\ section \in Nat BY <1>3 DEF Glob, ValidationInv, ReadInv
  <2>2. CASE section < Len(collections) /\ section' = section + 1 /\ phase' = phase
    <3>1. section < section' /\ section' <= Len(collections) BY <2>1, <2>2, Collections
    <3> QED BY <2>1, <2>2, <3>1 DEF Forward
  <2>3. CASE phase' = "metadata"
    <3>1. Stage(phase) < Stage(phase') BY <2>1, <2>3, Stages
    <3> QED BY <3>1 DEF Forward
  <2> QED BY <1>3, <2>2, <2>3 DEF Glob
<1>4. CASE ReadPage /\ \E f \in queue : queue' = queue \ {f} /\ UNCHANGED <<phase, section>>
  <2>1. phase = "glob" /\ phase' = "glob" /\ section' = section BY <1>4 DEF ReadPage
  <2>2. queue' \subseteq queue /\ queue' # queue BY <1>4
  <2> QED BY <2>1, <2>2 DEF Forward
<1> QED BY <1>1, <1>2, <1>3, <1>4 DEF ReadOverview, ReadPage

\* The loops over the pages.
LEMMA LoopAdvances ==
    ASSUME ValidationInv, phase \in {"metadata", "render", "write"}, NEW next, Advance(next),
           listed' = listed, Stage(phase) < Stage(next)
    PROVE  Forward
<1>1. at \in 1..Len(listed) /\ Len(listed) \in Nat BY DEF ValidationInv, CheckInv, ReadInv
<1>2. CASE at < Len(listed)
  <2>1. at' = at + 1 /\ phase' = phase BY <1>2 DEF Advance
  <2>2. at < at' /\ at' <= Len(listed) BY <1>1, <1>2, <2>1
  <2> QED BY <2>1, <2>2 DEF Forward
<1>3. CASE ~(at < Len(listed))
  <2>1. phase' = next BY <1>3 DEF Advance
  <2> QED BY <2>1 DEF Forward
<1> QED BY <1>2, <1>3

LEMMA ValidatingAdvances ==
    ASSUME ValidationInv, CheckPage \/ CheckRelated \/ FollowReplacement \/ CheckIndex
    PROVE  Forward
<1>0. phase \in {"metadata", "related", "replaced", "index"} /\ listed' = listed
  BY DEF CheckPage, CheckRelated, FollowReplacement, CheckIndex, loaded
<1>1. CASE \E r \in {"content", "files"} : Fail(r) BY <1>0, <1>1, FailAdvances
<1>2. CASE CheckPage /\ Advance("related")
  <2>1. phase = "metadata" /\ Stage(phase) < Stage("related") BY <1>2, Stages DEF CheckPage
  <2> QED BY <1>0, <1>2, <2>1, LoopAdvances
<1>3. CASE CheckRelated /\ phase' = "replaced" /\ at' = at
  BY <1>3 DEF CheckRelated, Forward
<1>4. CASE FollowReplacement /\ ~\E r \in {"content", "files"} : Fail(r)
  <2>1. /\ phase = "replaced" /\ at \in 1..Len(listed) /\ Len(listed) \in Nat
        /\ seen \subseteq DOMAIN ids
    BY <1>4 DEF FollowReplacement, ValidationInv, CheckInv, RefInv, ReadInv, Walk
  <2>2. CASE at < Len(listed) /\ at' = at + 1 /\ phase' = "related"
    <3>1. at < at' /\ at' <= Len(listed) /\ Stage(phase) = Stage(phase') BY <2>1, <2>2, Stages
    <3> QED BY <1>0, <2>1, <3>1 DEF Forward
  <2>3. CASE phase' = "index"
    <3>1. Stage(phase) < Stage(phase') BY <2>1, <2>3, Stages
    <3> QED BY <3>1 DEF Forward
  <2>4. CASE \E id : /\ MayReplace(id) /\ id \notin seen /\ seen' = seen \union {id}
                     /\ UNCHANGED <<phase, ids, at>>
    <3>1. seen \subseteq seen' /\ seen' # seen /\ seen' \subseteq DOMAIN ids
      BY <2>1, <2>4 DEF MayReplace
    <3> QED BY <2>1, <2>4, <3>1 DEF Forward
  <2> QED BY <1>4, <2>2, <2>3, <2>4 DEF FollowReplacement
<1>5. CASE CheckIndex /\ phase' = IF mode = "check" THEN "done" ELSE "render"
  <2>1. phase = "index" /\ phase' \in {"done", "render"} BY <1>5 DEF CheckIndex
  <2>2. Stage(phase) < Stage(phase') BY <2>1, Stages
  <2> QED BY <2>2 DEF Forward
<1>6. CASE CheckPage BY <1>1, <1>2, <1>6 DEF CheckPage
<1>7. CASE CheckRelated BY <1>1, <1>3, <1>7 DEF CheckRelated
<1>8. CASE FollowReplacement BY <1>1, <1>4, <1>8
<1>9. CASE CheckIndex BY <1>1, <1>5, <1>9 DEF CheckIndex
<1> QED BY <1>6, <1>7, <1>8, <1>9

LEMMA WritingAdvances ==
    ASSUME ValidationInv, SiteInv, RenderPage \/ RemoveOutput \/ WritePage \/ WriteCategory
    PROVE  Forward
<1>1. CASE RenderPage
  <2>1. phase = "render" /\ listed' = listed /\ Stage(phase) < Stage("remove")
    BY <1>1, Stages DEF RenderPage, loaded
  <2>2. CASE \E r \in {"files", "image", "repository"} : Fail(r) BY <2>1, <2>2, FailAdvances
  <2>3. CASE Advance("remove") BY <2>1, <2>3, LoopAdvances
  <2> QED BY <1>1, <2>2, <2>3 DEF RenderPage
<1>2. CASE RemoveOutput
  <2>1. Stage(phase) < Stage(phase') BY <1>2, Stages DEF RemoveOutput
  <2> QED BY <2>1 DEF Forward
<1>3. CASE WritePage
  <2>1. /\ phase = "write" /\ listed' = listed /\ Stage(phase) < Stage("categories")
        /\ Advance("categories")
    BY <1>3, Stages DEF WritePage, loaded
  <2> QED BY <2>1, LoopAdvances
<1>4. CASE WriteCategory
  <2>1. phase = "categories" /\ at \in 1..4 BY <1>4, Collections DEF WriteCategory, SiteInv
  <2>2. CASE at < Len(collections)
    <3>1. at' = at + 1 /\ phase' = phase BY <1>4, <2>2 DEF WriteCategory
    <3>2. at < at' /\ at' <= Len(collections) BY <2>1, <2>2, <3>1, Collections
    <3> QED BY <2>1, <3>1, <3>2 DEF Forward
  <2>3. CASE ~(at < Len(collections))
    <3>1. phase' = "done" BY <1>4, <2>3 DEF WriteCategory
    <3>2. Stage(phase) < Stage(phase') BY <2>1, <3>1, Stages
    <3> QED BY <3>2 DEF Forward
  <2> QED BY <2>2, <2>3
<1> QED BY <1>1, <1>2, <1>3, <1>4

\* A run of assemble.mjs cannot go round in a circle, whatever authors edit: each step goes on
\* to a later stage, page or collection, or visits one more of the finitely many IDs.
THEOREM RunsGoForward == Spec => RunsAdvance
<1>1. Init => ValidationInv /\ RenderInv /\ SiteInv BY ReadStart, SiteStart
<1>2. ValidationInv /\ RenderInv /\ SiteInv /\ [Next]_vars => (ValidationInv /\ RenderInv /\ SiteInv)'
  BY ValidationStep, SiteStep
<1>3. ValidationInv /\ SiteInv /\ [Next]_vars =>
        [phase # "idle" /\ phase' # "idle" => UNCHANGED process \/ Forward]_vars
  <2> SUFFICES ASSUME ValidationInv, SiteInv, Next, phase # "idle", phase' # "idle", ~Forward
               PROVE  UNCHANGED process
    OBVIOUS
  <2>1. CASE \E f \in Files : Write(f) BY <2>1 DEF Write, loaded, output, process
  <2>2. CASE \E p \in Others : Touch(p) BY <2>2 DEF Touch, loaded, output, process
  <2>3. CASE StartCheck \/ \E env \in Envs : StartAssemble(env) BY <2>3 DEF StartCheck, StartAssemble
  <2>4. CASE Exit \/ Die \/ DieRemoving BY <2>4 DEF Exit, Die, DieRemoving, Reset
  <2>5. CASE ReadOverview \/ Glob \/ ReadPage BY <2>5, ReadingAdvances
  <2>6. CASE CheckPage \/ CheckRelated \/ FollowReplacement \/ CheckIndex BY <2>6, ValidatingAdvances
  <2>7. CASE RenderPage \/ RemoveOutput \/ WritePage \/ WriteCategory BY <2>7, WritingAdvances
  <2> QED BY <2>1, <2>2, <2>3, <2>4, <2>5, <2>6, <2>7 DEF Next, Run
<1> QED BY <1>1, <1>2, <1>3, PTL DEF Spec, RunsAdvance

-----------------------------------------------------------------------------
(* Types. *)

Phases == {"idle", "overview", "glob", "metadata", "related", "replaced", "index", "render",
           "remove", "write", "categories", "done", "failed"}
Reasons == {"", "unreadable", "content", "files", "image", "repository"}

\* The checkout, the process and its output.
WorldTypes == tree \in [Files -> Content \union {Absent, Garbled}] /\ disk \subseteq Others /\ edits \in 0..MaxEdits
ControlTypes ==
    /\ phase \in Phases /\ mode \in {"check", "assemble"} /\ repository \in URL \union {None}
    /\ section \in 0..Len(collections) /\ queue \subseteq Files /\ at \in Nat \ {0} /\ why \in Reasons
BundleTypes ==
    /\ listed \in Seq(Files) /\ Partial(pages, Files, Content) /\ Partial(ids, Ids, Files)
    /\ current \in Files \union {None} /\ seen \subseteq Ids
SiteTypes ==
    /\ Partial(rendered, Files, Output)
    /\ site = [pages |-> site.pages, categories |-> site.categories, landings |-> site.landings]
    /\ Partial(site.pages, Files, Output) /\ Partial(site.categories, Names, {"doc", "generated-index"})
    /\ site.landings \subseteq Recorded
    /\ torn \in BOOLEAN

LEMMA TypesTogether == TypeOK <=> WorldTypes /\ ControlTypes /\ BundleTypes /\ SiteTypes
BY DEF TypeOK, WorldTypes, ControlTypes, BundleTypes, SiteTypes, Phases, Reasons

LEMMA FirstSection == 0 \in 0..Len(collections)
<1>1. Len(collections) = 4 BY Collections
<1>2. 0 \in 0..4 OBVIOUS
<1> QED BY <1>1, <1>2

LEMMA NoneListed == ASSUME NEW D, NEW R PROVE Partial(Empty, D, R)
BY DEF Partial, Empty

\* One more entry.
LEMMA PartialMore ==
    ASSUME NEW D, NEW R, NEW h, Partial(h, D, R), NEW d \in D, NEW v \in R
    PROVE  Partial([e \in DOMAIN h \union {d} |-> IF e = d THEN v ELSE h[e]], D, R)
BY DEF Partial

LEMMA TypesStart == ASSUME Init PROVE TypeOK
<1>1. WorldTypes
  <2>1. tree \in Seeds /\ disk = Others /\ edits = 0 BY DEF Init
  <2>2. Seeds \subseteq [Files -> Content \union {Absent, Garbled}] /\ MaxEdits \in Nat BY AssemblyAssumption
  <2>3. tree \in [Files -> Content \union {Absent, Garbled}] BY <2>1, <2>2
  <2>4. edits \in 0..MaxEdits BY <2>1, <2>2
  <2> QED BY <2>1, <2>3, <2>4 DEF WorldTypes
<1>2. ControlTypes
  <2>1. phase = "idle" /\ mode = "check" /\ repository = None /\ section = 0 /\ queue = {} /\ at = 1 /\ why = ""
    BY DEF Init
  <2>2. section \in 0..Len(collections) /\ at \in Nat \ {0}
    <3>1. 1 \in Nat \ {0} OBVIOUS
    <3> QED BY <2>1, <3>1, FirstSection, Zenon
  <2> QED BY <2>1, <2>2 DEF ControlTypes, Phases, Reasons
<1>3. BundleTypes
  <2>1. listed = <<>> /\ pages = Empty /\ ids = Empty /\ current = None /\ seen = {} BY DEF Init
  <2>2. listed \in Seq(Files) BY <2>1, NothingListed
  <2>3. Partial(pages, Files, Content) /\ Partial(ids, Ids, Files) BY <2>1, NoneListed
  <2> QED BY <2>1, <2>2, <2>3 DEF BundleTypes
<1>4. site.pages = Empty /\ site.categories = Empty /\ site.landings = {} BY DEF Init, NoSite
<1>5. SiteTypes
  <2>1. site = [pages |-> site.pages, categories |-> site.categories, landings |-> site.landings]
    BY DEF Init, NoSite
  <2> QED BY <1>4, <2>1, NoneListed DEF Init, SiteTypes
<1> QED BY <1>1, <1>2, <1>3, <1>5, TypesTogether

LEMMA WorldStep == ASSUME WorldTypes, ReadInv', [Next]_vars PROVE WorldTypes'
<1>1. tree' \in [Files -> Content \union {Absent, Garbled}] BY DEF ReadInv
<1>2. ASSUME NEW f \in Files, Write(f) PROVE WorldTypes'
  BY <1>1, <1>2, AssemblyAssumption DEF Write, WorldTypes
<1>3. ASSUME NEW p \in Others, Touch(p) PROVE WorldTypes'
  BY <1>1, <1>3, AssemblyAssumption DEF Touch, WorldTypes
<1>4. CASE UNCHANGED world BY <1>4 DEF WorldTypes, world
<1>5. CASE UNCHANGED vars BY <1>5 DEF WorldTypes, vars
<1>6. StartCheck \/ (\E env \in Envs : StartAssemble(env)) \/ Run \/ Die \/ DieRemoving => UNCHANGED world
  BY DEF StartCheck, StartAssemble, Run, ReadOverview, Glob, ReadPage, CheckPage, CheckRelated,
         FollowReplacement, CheckIndex, RenderPage, RemoveOutput, WritePage, WriteCategory,
         Exit, Die, DieRemoving, Reset
<1> QED BY <1>2, <1>3, <1>4, <1>5, <1>6 DEF Next

\* The repository buildContext settles on.
LEMMA CandidateType == ASSUME NEW env \in Env PROVE Candidate(env) \in URL \union {None}
<1>1. /\ env.explicit \in URL \union {None} /\ env.ci \in URL \union {None}
      /\ env.origin \in URL \union {None}
  BY DEF Env
<1>2. [kind |-> "web", credentials |-> FALSE] \in URL BY DEF URL
<1>3. env.origin # None => env.origin.kind \in {"web", "ssh", "scp", "path"} BY <1>1 DEF URL
<1>4. CASE env.explicit # None \/ env.ci # None \/ env.origin = None BY <1>1, <1>4 DEF Candidate
<1>5. CASE env.explicit = None /\ env.ci = None /\ env.origin # None
  <2>1. CASE env.origin.kind = "web" BY <1>1, <1>5, <2>1 DEF Candidate
  <2>2. CASE env.origin.kind \in {"ssh", "scp"} BY <1>2, <1>5, <2>2 DEF Candidate
  <2>3. CASE env.origin.kind = "path" BY <1>5, <2>3 DEF Candidate
  <2> QED BY <1>3, <1>5, <2>1, <2>2, <2>3
<1> QED BY <1>4, <1>5

LEMMA FailControl ==
    ASSUME ControlTypes, NEW reason \in Reasons, Fail(reason), mode' \in {"check", "assemble"},
           repository' = repository
    PROVE  ControlTypes'
BY DEF ControlTypes, Fail, Phases

LEMMA ControlStep ==
    ASSUME ControlTypes, ValidationInv, SiteInv, [Next]_vars
    PROVE  ControlTypes'
<1>1. CASE UNCHANGED <<phase, mode, repository, section, queue, at, why>> BY <1>1 DEF ControlTypes
<1>2. CASE Exit \/ Die \/ DieRemoving
  <2>1. Reset BY <1>2 DEF Exit, Die, DieRemoving
  <2>2. /\ phase' = "idle" /\ mode' = "check" /\ repository' = None /\ section' = 0 /\ queue' = {}
        /\ at' = 1 /\ why' = ""
    BY <2>1 DEF Reset
  <2>3. section' \in 0..Len(collections) /\ at' \in Nat \ {0}
    <3>1. 1 \in Nat \ {0} OBVIOUS
    <3> QED BY <2>2, <3>1, FirstSection, Zenon
  <2> QED BY <2>2, <2>3 DEF ControlTypes, Phases, Reasons
<1>3. CASE StartCheck BY <1>3 DEF StartCheck, ControlTypes, Phases
<1>4. ASSUME NEW env \in Envs, StartAssemble(env) PROVE ControlTypes'
  <2>1. Candidate(env) \in URL \union {None} BY CandidateType, AssemblyAssumption
  <2>2. CASE Fail("repository") /\ UNCHANGED repository
    BY <1>4, <2>2, FailControl DEF StartAssemble, Reasons
  <2>3. CASE repository' = Candidate(env) /\ phase' = "overview" /\ UNCHANGED <<section, queue, at, why>>
    BY <1>4, <2>1, <2>3 DEF StartAssemble, ControlTypes, Phases
  <2> QED BY <1>4, <2>2, <2>3 DEF StartAssemble
<1>5. CASE \E reason \in Reasons : Fail(reason) /\ UNCHANGED <<mode, repository>>
  BY <1>5, FailControl DEF ControlTypes
<1>6. CASE ReadOverview
  <2>1. CASE phase' = "glob" /\ UNCHANGED <<mode, repository, section, queue, at, why>>
    BY <2>1 DEF ControlTypes, Phases
  <2> QED BY <1>5, <1>6, <2>1 DEF ReadOverview, Read, loaded, Reasons
<1>7. CASE Glob
  <2>1. UNCHANGED <<mode, repository, at, why>> BY <1>7 DEF Glob, loaded
  <2>2. section \in 0..4 BY Collections DEF ControlTypes
  <2>3. phase' \in Phases /\ section' \in 0..4 /\ queue' \subseteq Files
    BY <1>7, <2>2, Collections DEF Glob, ControlTypes, Phases
  <2> QED BY <2>1, <2>3, Collections DEF ControlTypes
<1>8. CASE ReadPage
  <2>1. CASE queue' \subseteq queue /\ UNCHANGED <<phase, mode, repository, section, at, why>>
    BY <2>1 DEF ControlTypes
  <2> QED BY <1>5, <1>8, <2>1 DEF ReadPage, Read, loaded, Reasons
<1>9. ASSUME NEW next \in Phases, Advance(next), UNCHANGED <<mode, repository, section, queue, why>>
      PROVE  ControlTypes'
  <2>1. phase' \in Phases /\ at' \in Nat \ {0} BY <1>9 DEF Advance, ControlTypes
  <2> QED BY <1>9, <2>1 DEF ControlTypes
<1>10. CASE CheckPage
  BY <1>5, <1>9, <1>10 DEF CheckPage, loaded, Reasons, Phases
<1>11. CASE CheckRelated
  <2>1. CASE phase' = "replaced" /\ UNCHANGED <<mode, repository, section, queue, at, why>>
    BY <2>1 DEF ControlTypes, Phases
  <2> QED BY <1>5, <1>11, <2>1 DEF CheckRelated, loaded, Reasons
<1>12. CASE FollowReplacement
  <2>0. UNCHANGED <<mode, repository>> BY <1>12 DEF FollowReplacement, loaded
  <2>1. CASE phase' \in Phases /\ at' \in Nat \ {0} /\ UNCHANGED <<section, queue, why>>
    BY <2>0, <2>1 DEF ControlTypes
  <2>2. CASE Fail("content") BY <1>5, <2>0, <2>2 DEF Reasons
  <2>3. CASE UNCHANGED <<phase, section, queue, at, why>> BY <1>1, <2>0, <2>3
  <2>4. at + 1 \in Nat \ {0} /\ 1 \in Nat \ {0} BY DEF ControlTypes
  <2>5. "related" \in Phases /\ "index" \in Phases BY DEF Phases
  <2> QED BY <1>12, <2>1, <2>2, <2>3, <2>4, <2>5 DEF FollowReplacement
<1>13. CASE CheckIndex
  <2>1. CASE phase' \in {"done", "render"} /\ UNCHANGED <<mode, repository, section, queue, at, why>>
    BY <2>1 DEF ControlTypes, Phases
  <2> QED BY <1>5, <1>13, <2>1 DEF CheckIndex, loaded, Reasons
<1>14. CASE RenderPage
  BY <1>5, <1>9, <1>14 DEF RenderPage, loaded, Reasons, Phases
<1>15. CASE RemoveOutput BY <1>15 DEF RemoveOutput, loaded, ControlTypes, Phases
<1>16. CASE WritePage BY <1>9, <1>16 DEF WritePage, loaded, Phases
<1>17. CASE WriteCategory
  <2>1. UNCHANGED <<mode, repository, section, queue, why>> BY <1>17 DEF WriteCategory, loaded
  <2>2. phase' \in Phases /\ at' \in Nat \ {0} BY <1>17 DEF WriteCategory, ControlTypes, Phases
  <2> QED BY <2>1, <2>2 DEF ControlTypes
<1>18. CASE (\E f \in Files : Write(f)) \/ (\E p \in Others : Touch(p)) \/ UNCHANGED vars
  BY <1>1, <1>18 DEF Write, Touch, vars, loaded
<1> QED BY <1>2, <1>3, <1>4, <1>6, <1>7, <1>8, <1>10, <1>11, <1>12, <1>13, <1>14, <1>15, <1>16, <1>17, <1>18
  DEF Next, Run

LEMMA BundleStep ==
    ASSUME BundleTypes, ValidationInv, ReadInv', [Next]_vars
    PROVE  BundleTypes'
<1>1. listed' \in Seq(Files) /\ Partial(pages', Files, Content) BY DEF ReadInv, Pages, Partial
<1>2. Partial(ids, Ids, Files) /\ current \in Files \union {None} /\ seen \subseteq Ids BY DEF BundleTypes
<1>3. CASE UNCHANGED <<ids, current, seen>> BY <1>1, <1>2, <1>3 DEF BundleTypes
<1>4. CASE Exit \/ Die \/ DieRemoving
  <2>1. Reset BY <1>4 DEF Exit, Die, DieRemoving
  <2>2. ids' = Empty /\ current' = None /\ seen' = {} BY <2>1 DEF Reset
  <2>3. Partial(ids', Ids, Files) BY <2>2, NoneListed
  <2> QED BY <1>1, <2>2, <2>3 DEF BundleTypes
<1>5. CASE CheckPage
  <2>1. CASE \E r \in Reasons : Fail(r) BY <1>3, <2>1 DEF Fail
  <2>2. CASE /\ ids' = [i \in DOMAIN ids \union {pages[listed[at]].id} |->
                           IF i = pages[listed[at]].id THEN listed[at] ELSE ids[i]]
             /\ UNCHANGED <<current, seen>>
    <3>1. ReadInv /\ at \in 1..Len(listed) BY <1>5 DEF ValidationInv, CheckInv, CheckPage
    <3>2. listed[at] \in DOMAIN pages BY <3>1, Position
    <3>3. listed[at] \in Files /\ pages[listed[at]].id \in Ids BY <3>1, <3>2, Contents DEF ReadInv, Pages
    <3>4. PICK f \in Files, i \in Ids : f = listed[at] /\ i = pages[listed[at]].id BY <3>3
    <3>5. ids' = [j \in DOMAIN ids \union {i} |-> IF j = i THEN f ELSE ids[j]] BY <2>2, <3>4
    <3>6. Partial(ids', Ids, Files) BY <1>2, <3>5, PartialMore
    <3> QED BY <1>1, <1>2, <2>2, <3>6 DEF BundleTypes
  <2> QED BY <1>5, <2>1, <2>2 DEF CheckPage, Reasons
<1>6. CASE CheckRelated
  <2>1. CASE \E r \in Reasons : Fail(r) BY <1>3, <2>1 DEF Fail
  <2>2. CASE current' = listed[at] /\ seen' = {pages[listed[at]].id} /\ ids' = ids
    <3>1. ReadInv /\ at \in 1..Len(listed) BY <1>6 DEF ValidationInv, CheckInv, CheckRelated
    <3>2. listed[at] \in DOMAIN pages BY <3>1, Position
    <3>3. listed[at] \in Files /\ pages[listed[at]].id \in Ids BY <3>1, <3>2, Contents DEF ReadInv, Pages
    <3> QED BY <1>1, <1>2, <2>2, <3>3 DEF BundleTypes
  <2> QED BY <1>6, <2>1, <2>2 DEF CheckRelated, Reasons
<1>7. CASE FollowReplacement
  <2>1. CASE \E r \in Reasons : Fail(r) BY <1>3, <2>1 DEF Fail
  <2>2. CASE UNCHANGED <<ids, current, seen>> BY <1>3, <2>2
  <2>3. CASE \E id : MayReplace(id) /\ current' = ids[id] /\ seen' = seen \union {id} /\ ids' = ids
    <3>1. PICK id : MayReplace(id) /\ current' = ids[id] /\ seen' = seen \union {id} /\ ids' = ids BY <2>3
    <3>2. id \in Ids /\ ids[id] \in Files BY <1>2, <3>1 DEF MayReplace, Partial
    <3> QED BY <1>1, <1>2, <3>1, <3>2 DEF BundleTypes
  <2> QED BY <1>7, <2>1, <2>2, <2>3 DEF FollowReplacement, Reasons
<1>8. CASE \/ \E f \in Files : Write(f)
           \/ \E p \in Others : Touch(p)
           \/ StartCheck \/ (\E env \in Envs : StartAssemble(env))
           \/ ReadOverview \/ Glob \/ ReadPage \/ CheckIndex
           \/ RenderPage \/ RemoveOutput \/ WritePage \/ WriteCategory
           \/ UNCHANGED vars
  <2>1. UNCHANGED <<ids, current, seen>>
    BY <1>8 DEF Write, Touch, StartCheck, StartAssemble, ReadOverview, Glob, ReadPage, Read, Fail,
                CheckIndex, RenderPage, RemoveOutput, WritePage, WriteCategory, vars
  <2> QED BY <1>3, <2>1
<1> QED BY <1>4, <1>5, <1>6, <1>7, <1>8 DEF Next, Run

LEMMA SiteTypesStep ==
    ASSUME SiteTypes, ControlTypes, ValidationInv, RenderInv, SiteInv, [Next]_vars
    PROVE  SiteTypes'
<1>1. CASE UNCHANGED <<rendered, site, torn>> BY <1>1 DEF SiteTypes
<1>2. CASE Exit \/ Die
  <2>1. rendered' = Empty /\ site' = site /\ torn' \in BOOLEAN
    BY <1>2 DEF Exit, Die, Reset, output, SiteTypes
  <2> QED BY <2>1, NoneListed DEF SiteTypes
<1>3. CASE DieRemoving
  <2>1. rendered' = Empty /\ torn' = TRUE BY <1>3 DEF DieRemoving, Reset
  <2>2. PICK gone : site' = [pages |-> [f \in {g \in DOMAIN site.pages : Collection[g] \notin gone} |-> site.pages[f]],
                             categories |-> [c \in DOMAIN site.categories \ gone |-> site.categories[c]],
                             landings |-> site.landings \ gone]
    BY <1>3 DEF DieRemoving
  <2>3. /\ site'.pages = [f \in {g \in DOMAIN site.pages : Collection[g] \notin gone} |-> site.pages[f]]
        /\ site'.categories = [c \in DOMAIN site.categories \ gone |-> site.categories[c]]
        /\ site'.landings = site.landings \ gone
        /\ site' = [pages |-> site'.pages, categories |-> site'.categories, landings |-> site'.landings]
    BY <2>2
  <2>4. Partial(site'.pages, Files, Output) BY <2>3 DEF SiteTypes, Partial
  <2>5. Partial(site'.categories, Names, {"doc", "generated-index"}) BY <2>3 DEF SiteTypes, Partial
  <2>6. site'.landings \subseteq Recorded BY <2>3 DEF SiteTypes
  <2>7. Partial(rendered', Files, Output) BY <2>1, NoneListed
  <2> QED BY <2>1, <2>3, <2>4, <2>5, <2>6, <2>7 DEF SiteTypes
<1>4. CASE RenderPage
  <2>1. CASE \E r \in Reasons : Fail(r) BY <1>1, <1>4, <2>1 DEF Fail, RenderPage, output
  <2>2. ReadInv /\ at \in 1..Len(listed) /\ Checked(pages, ids, DOMAIN pages) /\ Referred(pages, ids, DOMAIN pages)
    BY <1>4 DEF RenderPage, ValidationInv, CheckInv, RefInv, Accepted
  <2>3. PICK f : f = listed[at] OBVIOUS
  <2>4. f \in DOMAIN pages BY <2>2, <2>3, Position
  <2>5. f \in Files /\ pages[f] \in Content /\ Leads(pages, ids, f) \subseteq Files
    BY <2>2, <2>4, LeadsToPages DEF ReadInv, Pages
  <2>6. PICK v : v = [content |-> pages[f], leads |-> Leads(pages, ids, f), repository |-> repository] OBVIOUS
  <2>7. CASE /\ repository # None
             /\ rendered' = [g \in DOMAIN rendered \union {f} |-> IF g = f THEN v ELSE rendered[g]]
    <3>1. repository \in URL BY <2>7 DEF ControlTypes
    <3>2. v \in Output BY <2>5, <2>6, <3>1 DEF Output
    <3>3. Partial(rendered', Files, Output) BY <2>5, <2>7, <3>2, PartialMore DEF SiteTypes
    <3> QED BY <1>4, <3>3 DEF SiteTypes, RenderPage, output
  <2> QED BY <1>4, <2>1, <2>3, <2>6, <2>7 DEF RenderPage, Reasons
<1>5. CASE RemoveOutput
  <2>1. rendered' = rendered /\ torn' = torn /\ site' = NoSite BY <1>5 DEF RemoveOutput
  <2>2. /\ site'.pages = Empty /\ site'.categories = Empty /\ site'.landings = {}
        /\ site' = [pages |-> site'.pages, categories |-> site'.categories, landings |-> site'.landings]
    BY <2>1 DEF NoSite
  <2> QED BY <2>1, <2>2, NoneListed DEF SiteTypes
<1>6. CASE WritePage
  <2>1. ReadInv /\ at \in 1..Len(listed) /\ Published(pages, rendered, DOMAIN pages)
    BY <1>6 DEF WritePage, ValidationInv, CheckInv, RenderInv
  <2>2. PICK f : f = listed[at] OBVIOUS
  <2>3. f \in DOMAIN rendered BY <2>1, <2>2, Position DEF Published
  <2>4. f \in Files /\ rendered[f] \in Output BY <2>3 DEF SiteTypes, Partial
  <2>5. site = [pages |-> site.pages, categories |-> site.categories, landings |-> site.landings]
    BY DEF SiteTypes
  <2>6. site' = [site EXCEPT !.pages = [g \in DOMAIN @ \union {f} |-> IF g = f THEN rendered[f] ELSE @[g]]]
    BY <1>6, <2>2 DEF WritePage
  <2>7. /\ site'.pages = [g \in DOMAIN site.pages \union {f} |-> IF g = f THEN rendered[f] ELSE site.pages[g]]
        /\ site'.categories = site.categories /\ site'.landings = site.landings
        /\ site' = [pages |-> site'.pages, categories |-> site'.categories, landings |-> site'.landings]
    BY <2>5, <2>6
  <2>8. Partial(site'.pages, Files, Output) BY <2>4, <2>7, PartialMore DEF SiteTypes
  <2>9. rendered' = rendered /\ torn' = torn BY <1>6 DEF WritePage
  <2> QED BY <2>7, <2>8, <2>9 DEF SiteTypes
<1>7. CASE WriteCategory
  <2>1. at \in 1..4 BY <1>7, Collections DEF WriteCategory, SiteInv
  <2>2. PICK c : c = collections[at] OBVIOUS
  <2>3. c \in Names
    <3>1. DOMAIN collections = 1..4 BY DEF collections
    <3> QED BY <2>1, <2>2, <3>1 DEF Names
  <2>4. PICK empty \in BOOLEAN : empty <=> c \in Recorded /\ \A f \in DOMAIN pages : Collection[f] # c
    OBVIOUS
  <2>5. PICK v \in {"doc", "generated-index"} : v = IF empty THEN "doc" ELSE "generated-index" OBVIOUS
  <2>6. site = [pages |-> site.pages, categories |-> site.categories, landings |-> site.landings]
    BY DEF SiteTypes
  <2>7. site' = [site EXCEPT !.landings = IF empty THEN @ \union {c} ELSE @,
                             !.categories = [d \in DOMAIN @ \union {c} |->
                                IF d # c THEN @[d] ELSE IF empty THEN "doc" ELSE "generated-index"]]
    BY <1>7, <2>2, <2>4 DEF WriteCategory
  <2>8. /\ site'.pages = site.pages
        /\ site'.categories = [d \in DOMAIN site.categories \union {c} |->
              IF d # c THEN site.categories[d] ELSE IF empty THEN "doc" ELSE "generated-index"]
        /\ site'.landings = IF empty THEN site.landings \union {c} ELSE site.landings
        /\ site' = [pages |-> site'.pages, categories |-> site'.categories, landings |-> site'.landings]
    BY <2>6, <2>7
  <2>9. site'.categories = [d \in DOMAIN site.categories \union {c} |-> IF d = c THEN v ELSE site.categories[d]]
    BY <2>5, <2>8
  <2>10. Partial(site'.categories, Names, {"doc", "generated-index"})
    BY <2>3, <2>9, PartialMore DEF SiteTypes
  <2>11. site'.landings \subseteq Recorded BY <2>4, <2>8 DEF SiteTypes
  <2>12. rendered' = rendered /\ torn' \in BOOLEAN BY <1>7 DEF WriteCategory, SiteTypes
  <2> QED BY <2>8, <2>10, <2>11, <2>12 DEF SiteTypes
<1>8. CASE \/ \E f \in Files : Write(f)
           \/ \E p \in Others : Touch(p)
           \/ StartCheck \/ (\E env \in Envs : StartAssemble(env))
           \/ ReadOverview \/ Glob \/ ReadPage
           \/ CheckPage \/ CheckRelated \/ FollowReplacement \/ CheckIndex
           \/ UNCHANGED vars
  <2>1. UNCHANGED <<rendered, site, torn>>
    BY <1>8 DEF Write, Touch, StartCheck, StartAssemble, ReadOverview, Glob, ReadPage, Read, Fail,
                CheckPage, CheckRelated, FollowReplacement, CheckIndex, vars, output
  <2> QED BY <1>1, <2>1
<1> QED BY <1>2, <1>3, <1>4, <1>5, <1>6, <1>7, <1>8 DEF Next, Run

\* The assembler never leaves its types: among others, the IDs it walks along lead to files it
\* has read, and what it writes is the rendering of a page.
THEOREM AssemblyTypes == Spec => []TypeOK
<1>1. Init => TypeOK /\ ValidationInv /\ RenderInv /\ SiteInv BY ReadStart, SiteStart, TypesStart
<1>2. TypeOK /\ ValidationInv /\ RenderInv /\ SiteInv /\ [Next]_vars
        => (TypeOK /\ ValidationInv /\ RenderInv /\ SiteInv)'
  <2> SUFFICES ASSUME TypeOK, ValidationInv, RenderInv, SiteInv, [Next]_vars
               PROVE  (TypeOK /\ ValidationInv /\ RenderInv /\ SiteInv)'
    OBVIOUS
  <2>1. ValidationInv' /\ RenderInv' /\ SiteInv' BY ValidationStep, SiteStep
  <2>2. WorldTypes /\ ControlTypes /\ BundleTypes /\ SiteTypes BY TypesTogether
  <2>3. WorldTypes' /\ ControlTypes' /\ BundleTypes' /\ SiteTypes'
    BY <2>1, <2>2, WorldStep, ControlStep, BundleStep, SiteTypesStep DEF ValidationInv
  <2>4. TypeOK' BY <2>3 DEF TypeOK, WorldTypes, ControlTypes, BundleTypes, SiteTypes, Phases, Reasons
  <2> QED BY <2>1, <2>4
<1> QED BY <1>1, <1>2, PTL DEF Spec
=============================================================================
