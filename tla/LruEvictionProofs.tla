-------------------------- MODULE LruEvictionProofs --------------------------
(***************************************************************************)
(* What runLRU keeps and what it deletes, for any narinfos, NARs, sizes,   *)
(* references and pins, next to any uploads.                               *)
(***************************************************************************)
EXTENDS LruEviction, FiniteSetTheorems, TLAPS

\* A narinfo has its link and its NAR's record.
InfosLinked == \A h \in infos : <<h, NarOf[h]>> \in links /\ NarOf[h] \in rows

\* The inductive invariant of an eviction: FilesAccounted needs that narinfos are linked.
LruInv == TypeOK /\ InfosLinked /\ FilesAccounted

\* The transaction of runLRU, told by the narinfos D that it deletes: none of those
\* that were pinned when it began is among them.
LEMMA CommitDeletes ==
    ASSUME LruCommit
    PROVE  \E D : /\ D \cap protected = {}
                  /\ infos' = infos \ D /\ older' = Among(infos \ D)
                  /\ links' = {l \in links : l[1] \notin D}
                  /\ rows' = rows \ Orphans(D) /\ doomed' = Orphans(D)
                  /\ lru = "pinned" /\ lru' = "deleting" /\ protected' = {}
                  /\ UNCHANGED <<pins, files, left, puts, crashes, putting, pinning>>
<1>1. PICK c \in SetToSeqs(Eligible) :
         /\ infos' = infos \ Evicted(c) /\ older' = Among(infos \ Evicted(c))
         /\ links' = {l \in links : l[1] \notin Evicted(c)}
         /\ rows' = rows \ Orphans(Evicted(c)) /\ doomed' = Orphans(Evicted(c))
  BY DEF LruCommit
<1>2. \A i \in DOMAIN c : c[i] \notin protected
  BY DEF SetToSeqs, Eligible
<1>3. Evicted(c) \cap protected = {}
  BY <1>2 DEF Evicted
<1> QED
  BY <1>1, <1>3 DEF LruCommit, storeVars, bounds

\* A NAR that a narinfo outside D is linked to is no orphan.
LEMMA SharedIsNoOrphan ==
    ASSUME NEW D, NEW h \in infos \ D, <<h, NarOf[h]>> \in links
    PROVE  NarOf[h] \notin Orphans(D)
<1>1. NarOf[h] \in NarsOf(infos \ D)
  <2> DEFINE l == <<h, NarOf[h]>>
  <2>1. l \in {k \in links : k[1] \in infos \ D} /\ l[2] = NarOf[h]
    OBVIOUS
  <2> QED
    BY <2>1 DEF NarsOf
<1> QED
  BY <1>1 DEF Orphans

\* The transaction keeps LruInv: the files whose records go are on the list to be
\* deleted, and the narinfos that stay keep their NARs' records.
LEMMA CommitStep == LruInv /\ LruCommit => LruInv'
<1> SUFFICES ASSUME LruInv, LruCommit PROVE LruInv'
  OBVIOUS
<1>1. PICK D : /\ infos' = infos \ D /\ older' = Among(infos \ D)
               /\ links' = {l \in links : l[1] \notin D}
               /\ rows' = rows \ Orphans(D) /\ doomed' = Orphans(D)
               /\ lru = "pinned" /\ lru' = "deleting"
               /\ UNCHANGED <<pins, files, left, puts, crashes, putting, pinning>>
  BY CommitDeletes
<1>2. Orphans(D) \subseteq rows
  BY DEF Orphans
<1>3. infos' \subseteq Hashes /\ older' \subseteq infos' \X infos'
  BY <1>1 DEF LruInv, TypeOK, Among
<1>4. \A g, h \in infos' : <<g, h>> \in older' <=> g # h /\ <<h, g>> \notin older'
  <2> SUFFICES ASSUME NEW g \in infos', NEW h \in infos'
               PROVE  <<g, h>> \in older' <=> g # h /\ <<h, g>> \notin older'
    OBVIOUS
  <2>1. g \in infos \ D /\ h \in infos \ D
    BY <1>1
  <2>2. /\ <<g, h>> \in older' <=> <<g, h>> \in older
        /\ <<h, g>> \in older' <=> <<h, g>> \in older
    BY <1>1, <2>1 DEF Among
  <2> QED
    BY <2>1, <2>2 DEF LruInv, TypeOK
<1>5. links' \subseteq infos' \X Nars
  <2> SUFFICES ASSUME NEW l \in links, l[1] \notin D PROVE l \in infos' \X Nars
    BY <1>1
  <2>1. l \in infos \X Nars
    BY DEF LruInv, TypeOK
  <2> QED
    BY <1>1, <2>1
<1>6. TypeOK'
  BY <1>1, <1>2, <1>3, <1>4, <1>5 DEF LruInv, TypeOK
<1>7. InfosLinked'
  <2> SUFFICES ASSUME NEW h \in infos' PROVE <<h, NarOf[h]>> \in links' /\ NarOf[h] \in rows'
    BY DEF InfosLinked
  <2>1. h \in infos \ D /\ <<h, NarOf[h]>> \in links /\ NarOf[h] \in rows
    BY <1>1 DEF LruInv, InfosLinked
  <2> QED
    BY <1>1, <2>1, SharedIsNoOrphan
<1>8. FilesAccounted'
  BY <1>1, <1>2 DEF LruInv, TypeOK, FilesAccounted
<1> QED
  BY <1>6, <1>7, <1>8 DEF LruInv

\* Every other step keeps LruInv as well.
LEMMA LruInvStep == LruInv /\ [Next]_vars => LruInv'
<1> SUFFICES ASSUME LruInv, [Next]_vars PROVE LruInv'
  OBVIOUS
<1> USE LruEvictionAssumption
    DEF LruInv, TypeOK, InfosLinked, FilesAccounted, Abandoned, Own, Zst,
        dbVars, storeVars, bounds, lruVars
<1>1. ASSUME NEW n \in Nars,
             StoreFile(n) \/ StoreRecompressed(n) \/ RecordFile(n) \/ RecordFails(n)
      PROVE  LruInv'
  <2>1. ASSUME NEW f \in {Own(n), Zst(n)}, Store(n, f) PROVE LruInv'
    <3>1. f \in Nars \X {"own", "zst"} /\ (\A m \in Nars : f = Own(m) => m = n)
      OBVIOUS
    <3>2. /\ puts > 0 /\ puts' = puts - 1
          /\ files' = files \cup {f} /\ putting' = putting \cup {n}
          /\ UNCHANGED <<infos, older, rows, links, pins, left, crashes, pinning, lru, protected,
                         doomed>>
      BY <2>1 DEF Store
    <3>3. TypeOK'
      BY <3>1, <3>2
    <3>4. FilesAccounted' /\ InfosLinked'
      BY <3>1, <3>2
    <3> QED
      BY <3>3, <3>4
  <2>2. CASE StoreFile(n) \/ StoreRecompressed(n)
    BY <2>1, <2>2 DEF StoreFile, StoreRecompressed
  <2>3. CASE RecordFile(n)
    BY <2>3 DEF RecordFile
  <2>4. CASE RecordFails(n)
    BY <2>4 DEF RecordFails
  <2> QED
    BY <1>1, <2>2, <2>3, <2>4
<1>2. ASSUME NEW h \in Hashes, PutNarInfo(h) PROVE LruInv'
  <2>1. NarOf[h] \in Nars
    OBVIOUS
  <2>2. /\ infos' = infos \cup {h} /\ rows' = rows \cup {NarOf[h]}
        /\ links' = links \cup {<<h, NarOf[h]>>}
        /\ older' = IF h \in infos THEN older ELSE older \cup (infos \X {h})
        /\ left' = left \ {NarOf[h]} /\ puts' = puts - 1 /\ puts > 0
        /\ UNCHANGED <<pins, files, crashes, putting, pinning, lru, protected, doomed>>
    BY <1>2 DEF PutNarInfo
  <2>3. older' \subseteq infos' \X infos'
    BY <2>2
  <2>4. \A g, f \in infos' : <<g, f>> \in older' <=> g # f /\ <<f, g>> \notin older'
    <3>1. CASE h \in infos
      BY <2>2, <3>1
    <3>2. CASE h \notin infos
      <4>1. ASSUME NEW g \in infos', NEW f \in infos'
            PROVE  <<g, f>> \in older' <=>
                      (g # h /\ f # h /\ <<g, f>> \in older) \/ (g # h /\ f = h)
        <5>1. older' = older \cup (infos \X {h})
          BY <2>2, <3>2
        <5>2. <<g, f>> \in older => g # h /\ f # h
          BY <3>2
        <5>3. <<g, f>> \in infos \X {h} <=> g # h /\ f = h
          BY <2>2, <3>2
        <5> QED
          BY <5>1, <5>2, <5>3
      <4> QED
        BY <2>2, <3>2, <4>1, ZenonT(40)
    <3> QED
      BY <3>1, <3>2
  <2>5. links' \subseteq infos' \X Nars
    BY <2>1, <2>2
  <2>6. TypeOK'
    BY <2>1, <2>2, <2>3, <2>4, <2>5
  <2>7. InfosLinked' /\ FilesAccounted'
    BY <2>2
  <2> QED
    BY <2>6, <2>7
<1>3. ASSUME NEW h \in Hashes, Touch(h) PROVE LruInv'
  <2>1. h \in infos /\ older' = Among(infos \ {h}) \cup ((infos \ {h}) \X {h})
        /\ UNCHANGED <<infos, rows, links, pins, files, left, puts, crashes, putting, pinning,
                       lru, protected, doomed>>
    BY <1>3 DEF Touch
  <2>2. older' \subseteq infos' \X infos'
    BY <2>1 DEF Among
  <2>3. \A g, f \in infos : <<g, f>> \in older' <=>
           \/ g # h /\ f # h /\ <<g, f>> \in older
           \/ g # h /\ f = h
    BY <2>1 DEF Among
  <2>4. \A g, f \in infos' : <<g, f>> \in older' <=> g # f /\ <<f, g>> \notin older'
    BY <2>1, <2>3
  <2> QED
    BY <2>1, <2>2, <2>4
<1>4. ASSUME NEW h \in Hashes, CheckPin(h) \/ InsertPin(h) \/ UnpinClosure(h) PROVE LruInv'
  BY <1>4 DEF CheckPin, InsertPin, UnpinClosure
<1>5. CASE LruStart \/ LruNothing \/ LruEnd
  BY <1>5 DEF LruStart, LruNothing, LruEnd
<1>6. ASSUME NEW n \in Nars, DeleteFile(n) \/ DeleteFails(n) PROVE LruInv'
  BY <1>6 DEF DeleteFile, DeleteFails
<1>7. CASE Crash
  BY <1>7 DEF Crash
<1>8. CASE UNCHANGED vars
  BY <1>8 DEF vars
<1> QED
  BY <1>1, <1>2, <1>3, <1>4, <1>5, <1>6, <1>7, <1>8, CommitStep DEF Next, LruStep

\* The invariant holds in every state.
LEMMA LruInductive == Spec => []LruInv
<1>1. Init => LruInv
  BY LruEvictionAssumption DEF Init, LruInv, TypeOK, InfosLinked, FilesAccounted
<1> QED
  BY <1>1, LruInvStep, PTL DEF Spec

\* TypeOK: among the rest, last_accessed_at and id order the narinfos totally, links
\* join narinfos to NARs, and files are on the list only while they are deleted.
THEOREM LruTypes == Spec => []TypeOK
<1>1. LruInv => TypeOK
  BY DEF LruInv
<1> QED
  BY <1>1, LruInductive, PTL

\* FilesAccounted: the file that a row names is, when the row goes, on the list of the
\* run that takes the row away, and stays behind only when the store or the database
\* fails or the server dies; nothing is claimed of .nar.zst files, which no row names.
THEOREM NoFileLeftBehind == Spec => []FilesAccounted
<1>1. LruInv => FilesAccounted
  BY DEF LruInv
<1> QED
  BY <1>1, LruInductive, PTL

\* PinnedRootsKept: runLRU deletes no narinfo whose pin it has read, whichever
\* candidates the query returns and in whichever order.
THEOREM PinnedKept == Spec => PinnedRootsKept
<1>1. [Next]_vars =>
         [\A h \in infos \cap pins : h \in infos' \/ (lru = "pinned" /\ h \notin protected)]_vars
  <2> SUFFICES ASSUME Next, NEW h \in infos
               PROVE  h \in infos' \/ (lru = "pinned" /\ h \notin protected)
    OBVIOUS
  <2>1. CASE LruCommit
    BY <2>1, CommitDeletes
  <2>2. CASE ~LruCommit
    BY <2>2 DEF Next, LruStep, StoreFile, StoreRecompressed, Store, RecordFile, RecordFails,
           PutNarInfo, Touch, CheckPin, InsertPin,
                UnpinClosure, LruStart, LruNothing, LruEnd, DeleteFile, DeleteFails, Crash,
           dbVars, storeVars, bounds, lruVars
  <2> QED
    BY <2>1, <2>2
<1> QED
  BY <1>1, PTL DEF Spec, PinnedRootsKept

\* SharedNarsKept: a NAR that a surviving narinfo names keeps its record, and its
\* file is not among those deleted after the commit.
THEOREM SharedKept == Spec => SharedNarsKept
<1>1. LruInv /\ [Next]_vars =>
         [lru = "pinned" /\ lru' = "deleting" =>
             \A h \in infos' : NarOf[h] \in rows' /\ NarOf[h] \notin doomed']_vars
  <2> SUFFICES ASSUME LruInv, Next, lru = "pinned", lru' = "deleting", NEW h \in infos'
               PROVE  NarOf[h] \in rows' /\ NarOf[h] \notin doomed'
    OBVIOUS
  <2>1. LruCommit
    BY DEF Next, LruStep, StoreFile, StoreRecompressed, Store, RecordFile, RecordFails,
           PutNarInfo, Touch, CheckPin, InsertPin,
           UnpinClosure, LruStart, LruNothing, LruEnd, DeleteFile, DeleteFails, Crash,
           dbVars, storeVars, bounds, lruVars
  <2>2. PICK D : infos' = infos \ D /\ rows' = rows \ Orphans(D) /\ doomed' = Orphans(D)
    BY <2>1, CommitDeletes
  <2>3. h \in infos \ D /\ <<h, NarOf[h]>> \in links /\ NarOf[h] \in rows
    BY <2>2 DEF LruInv, InfosLinked
  <2> QED
    BY <2>2, <2>3, SharedIsNoOrphan
<1> QED
  BY <1>1, LruInductive, PTL DEF Spec, SharedNarsKept

-----------------------------------------------------------------------------
(* Every transaction that commits gets somewhere.                          *)

\* There are finitely many narinfos at any time: an upload adds one.
LEMMA InfosFinite == Spec => []IsFiniteSet(infos)
<1>1. Init => IsFiniteSet(infos)
  BY FS_EmptySet DEF Init
<1>2. IsFiniteSet(infos) /\ [Next]_vars => IsFiniteSet(infos)'
  <2> SUFFICES ASSUME IsFiniteSet(infos), [Next]_vars PROVE IsFiniteSet(infos')
    OBVIOUS
  <2>1. ASSUME NEW h \in Hashes, PutNarInfo(h) PROVE IsFiniteSet(infos')
    <3>1. infos' = infos \cup {h}
      BY <2>1 DEF PutNarInfo
    <3> QED
      BY <3>1, FS_AddElement
  <2>2. CASE LruCommit
    <3>1. infos' \in SUBSET infos
      BY <2>2, CommitDeletes
    <3> QED
      BY <3>1, FS_Subset
  <2>3. CASE ~ LruCommit /\ ~ \E h \in Hashes : PutNarInfo(h)
    <3>1. infos' = infos
      BY <2>3 DEF Next, LruStep, StoreFile, StoreRecompressed, Store, RecordFile, RecordFails,
                  Touch, CheckPin, InsertPin,
                  UnpinClosure, LruStart, LruNothing, LruEnd, DeleteFile, DeleteFails, Crash,
           dbVars, storeVars, bounds, lruVars,
                  vars
    <3> QED
      BY <3>1
  <2> QED
    BY <2>1, <2>2, <2>3
<1> QED
  BY <1>1, <1>2, PTL DEF Spec

\* The search ends with no candidate, or with one that is not pinned.
LEMMA SearchFinds == Candidates = {} \/ Eligible # {}
<1> DEFINE Fetched(k) == GetLeastUsedNarInfos(fetchSize * 2^k)
           last == {k \in 0..MaxDoublings : Fetched(k) = {} \/ ~(Fetched(k) \subseteq protected)}
<1>1. Candidates = IF last = {} THEN {} ELSE Fetched(Min(last))
  BY DEF Candidates
<1>2. ASSUME last # {} PROVE Min(last) \in last
  <2>1. last \subseteq {0, 1, 2, 3, 4}
    BY DEF MaxDoublings
  <2> HIDE DEF last
  <2>2. \E x \in last : \A y \in last : x <= y
    <3>1. CASE 0 \in last
      BY <2>1, <3>1
    <3>2. CASE 0 \notin last /\ 1 \in last
      BY <2>1, <3>2
    <3>3. CASE last \subseteq {2, 3, 4} /\ 2 \in last
      BY <3>3
    <3>4. CASE last \subseteq {3, 4} /\ 3 \in last
      BY <3>4
    <3>5. CASE last \subseteq {4}
      <4>1. last = {4}
        BY <1>2, <3>5
      <4> QED
        BY <4>1
    <3> QED
      BY <2>1, <3>1, <3>2, <3>3, <3>4, <3>5
  <2> QED
    BY <2>2 DEF Min
<1>3. ASSUME NEW k \in last PROVE Fetched(k) = {} \/ ~(Fetched(k) \subseteq protected)
  OBVIOUS
<1> HIDE DEF last, Fetched
<1> QED
  BY <1>1, <1>2, <1>3 DEF Eligible

\* The loop deletes the first narinfo it comes to.
LEMMA FirstIsEvicted ==
    ASSUME NEW S, IsFiniteSet(S), S # {}, NEW c \in SetToSeqs(S)
    PROVE  \E h \in S : h \in Evicted(c)
<1>1. Cardinality(S) \in Nat /\ Cardinality(S) # 0
  BY FS_CardinalityType, FS_EmptySet
<1>2. c \in [1..Cardinality(S) -> S]
  BY DEF SetToSeqs
<1>3. DOMAIN c = 1..Cardinality(S) /\ 1 \in DOMAIN c /\ c[1] \in S
  BY <1>1, <1>2
<1>4. \A k \in DOMAIN c : 1 <= k
  BY <1>1, <1>3
<1>5. c[1] \in Evicted(c)
  BY <1>3, <1>4 DEF Evicted
<1> QED
  BY <1>3, <1>5

\* A run of runLRU that commits deletes a narinfo that was not pinned when the run
\* began: pinned narinfos at the cold end of the cache do not use up a run.
EvictionFrees ==
    [][lru = "pinned" /\ lru' = "deleting" => \E h \in infos \ protected : h \notin infos']_vars

\* EvictionFrees: the window is doubled until it has a narinfo that is not pinned, and
\* the loop stops after a deletion, never before.
THEOREM CommitsFree == Spec => EvictionFrees
<1>1. IsFiniteSet(infos) /\ [Next]_vars =>
         [lru = "pinned" /\ lru' = "deleting" =>
             \E h \in infos \ protected : h \notin infos']_vars
  <2> SUFFICES ASSUME IsFiniteSet(infos), Next, lru = "pinned", lru' = "deleting"
               PROVE  \E h \in infos \ protected : h \notin infos'
    OBVIOUS
  <2>1. LruCommit
    BY DEF Next, LruStep, StoreFile, StoreRecompressed, Store, RecordFile, RecordFails,
           PutNarInfo, Touch, CheckPin, InsertPin,
           UnpinClosure, LruStart, LruNothing, LruEnd, DeleteFile, DeleteFails, Crash,
           dbVars, storeVars, bounds, lruVars
  <2>2. PICK c \in SetToSeqs(Eligible) : infos' = infos \ Evicted(c)
    BY <2>1 DEF LruCommit
  <2>3. Eligible # {}
    BY <2>1, SearchFinds DEF LruCommit
  <2>4. Candidates \subseteq infos
    BY DEF Candidates, GetLeastUsedNarInfos
  <2>5. Eligible \in SUBSET infos /\ Eligible \cap protected = {}
    BY <2>4 DEF Eligible
  <2>6. \E h \in Eligible : h \in Evicted(c)
    BY <2>3, <2>5, FS_Subset, FirstIsEvicted
  <2> QED
    BY <2>2, <2>5, <2>6
<1> QED
  BY <1>1, InfosFinite, PTL DEF Spec, EvictionFrees

=============================================================================
