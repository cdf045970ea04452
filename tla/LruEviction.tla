---------------------------- MODULE LruEviction ----------------------------
(***************************************************************************)
(* Eviction of the least recently used narinfos and their NARs (runLRU of  *)
(* pkg/cache/cache.go) next to the uploads that fill the cache and the     *)
(* closure pins that protect it, over the narinfos, nar_files,             *)
(* narinfo_nar_files and pinned_closures tables and the NarStore, CDC off. *)
(*                                                                         *)
(* A transaction is one step; the files are deleted after the commit.  One *)
(* server, that may die and start again.                                   *)
(***************************************************************************)
EXTENDS Integers, FiniteSetsExt, SequencesExt

CONSTANTS
    Hashes,     \* narinfo hashes
    Nars,       \* NARs
    NarOf,      \* NarOf[h]: the NAR the URL of narinfo h names
    Size,       \* Size[n]: file_size of NAR n
    Refs,       \* Refs[h]: the narinfos of the references of h
    Uncompressed, \* the NARs whose compression is none
    maxSize,    \* the configured size of the cache
    Faults,     \* what may fail: "store", "database", "crash"
    MaxPuts,    \* bound on the uploads and downloads
    MaxCrashes  \* bound on the crashes

ASSUME LruEvictionAssumption ==
    /\ NarOf \in [Hashes -> Nars]
    /\ Size \in [Nars -> Nat \ {0}]
    /\ Refs \in [Hashes -> SUBSET Hashes]
    /\ maxSize \in Nat
    /\ Uncompressed \subseteq Nars
    /\ MaxPuts \in Nat
    /\ MaxCrashes \in Nat

VARIABLES
    infos,      \* narinfos
    older,      \* <<g, h>>: g comes before h by last_accessed_at, then id
    rows,       \* nar_files
    links,      \* narinfo_nar_files
    files,      \* the NarStore: a NAR and the extension of its file
    left,       \* NARs without a record whose own file a failure has left behind
    puts,       \* uploads and downloads that may still come
    crashes,    \* crashes that may still come
    putting,    \* NARs whose file is stored and that are not yet recorded
    pins,       \* pinned_closures
    pinning,    \* hashes PinClosure has seen in narinfos and not yet inserted
    lru,        \* runLRU: "idle", "pinned" (the pins are read), "deleting"
    protected,  \* the pinned hashes runLRU has read
    doomed      \* the NARs whose files runLRU will delete

dbVars    == <<infos, older, rows, links, pins>>
storeVars == <<files, left>>
bounds    == <<puts, crashes>>
lruVars   == <<lru, protected, doomed>>
vars      == <<dbVars, storeVars, bounds, putting, pinning, lruVars>>

\* The file of NAR n under the name its row gives it, and the file of an uncompressed
\* NAR that was recompressed: <hash>.nar and <hash>.nar.zst.
Own(n) == <<n, "own">>
Zst(n) == <<n, "zst">>

TypeOK ==
    /\ infos \subseteq Hashes
    /\ older \subseteq infos \X infos
    /\ \A g, h \in infos : <<g, h>> \in older <=> g # h /\ <<h, g>> \notin older
    /\ rows \subseteq Nars
    /\ links \subseteq infos \X Nars
    /\ files \subseteq Nars \X {"own", "zst"}
    /\ left \subseteq Nars
    /\ puts \in 0..MaxPuts
    /\ crashes \in 0..MaxCrashes
    /\ putting \subseteq Nars
    /\ pins \subseteq Hashes
    /\ pinning \subseteq Hashes
    /\ lru \in {"idle", "pinned", "deleting"}
    /\ doomed \subseteq Nars
    /\ lru # "deleting" => doomed = {}

Init ==
    /\ infos = {}
    /\ older = {}
    /\ rows = {}
    /\ links = {}
    /\ files = {}
    /\ left = {}
    /\ puts = MaxPuts
    /\ crashes = MaxCrashes
    /\ putting = {}
    /\ pins = {}
    /\ pinning = {}
    /\ lru = "idle"
    /\ protected = {}
    /\ doomed = {}

-----------------------------------------------------------------------------
(* Uploads and reads.                                                      *)

\* The file of NAR n is written under name f; one that exists is fine.
Store(n, f) ==
    /\ puts > 0
    /\ n \notin putting
    /\ puts' = puts - 1
    /\ files' = files \cup {f}
    /\ putting' = putting \cup {n}
    /\ UNCHANGED <<dbVars, left, crashes, pinning, lruVars>>

\* PutNar, and storeNarFromTempFile for a compressed NAR, first half: the file.
StoreFile(n) == Store(n, Own(n))

\* storeNarFromTempFile recompresses a NAR downloaded without compression.
StoreRecompressed(n) == n \in Uncompressed /\ Store(n, Zst(n))

\* Second half of both: ensureNarFileRecord, under the compression of the NAR.
RecordFile(n) ==
    /\ n \in putting
    /\ rows' = rows \cup {n}
    /\ left' = left \ {n}
    /\ putting' = putting \ {n}
    /\ UNCHANGED <<infos, older, links, pins, files, bounds, pinning, lruVars>>

\* NARs of N whose own file is there and that have neither a record nor, any more,
\* somebody who was going to give them one or to delete the file.
Abandoned(N) == {n \in N \ rows : Own(n) \in files}

\* The record cannot be written; the file stays.
RecordFails(n) ==
    /\ "database" \in Faults
    /\ n \in putting
    /\ left' = left \cup Abandoned({n})
    /\ putting' = putting \ {n}
    /\ UNCHANGED <<dbVars, files, bounds, pinning, lruVars>>

\* What older says of the narinfos H.
Among(H) == {e \in older : e[1] \in H /\ e[2] \in H}

\* PutNarInfo: storeInDatabase creates what is missing and links it.
PutNarInfo(h) ==
    /\ puts > 0
    /\ puts' = puts - 1
    /\ infos' = infos \cup {h}
    /\ older' = IF h \in infos THEN older ELSE older \cup (infos \X {h})
    /\ rows' = rows \cup {NarOf[h]}
    /\ links' = links \cup {<<h, NarOf[h]>>}
    /\ left' = left \ {NarOf[h]}
    /\ UNCHANGED <<pins, files, crashes, putting, pinning, lruVars>>

\* GetNarInfo touches the narinfo it serves.
Touch(h) ==
    /\ h \in infos
    /\ older' = Among(infos \ {h}) \cup ((infos \ {h}) \X {h})
    /\ UNCHANGED <<infos, rows, links, pins, storeVars, bounds, putting, pinning, lruVars>>

-----------------------------------------------------------------------------
(* Pins.                                                                   *)

\* PinClosure verifies that the narinfo exists ...
CheckPin(h) ==
    /\ h \in infos
    /\ h \notin pinning
    /\ pinning' = pinning \cup {h}
    /\ UNCHANGED <<dbVars, storeVars, bounds, putting, lruVars>>

\* ... and then inserts the pin, in a query of its own.
InsertPin(h) ==
    /\ h \in pinning
    /\ pinning' = pinning \ {h}
    /\ pins' = pins \cup {h}
    /\ UNCHANGED <<infos, older, rows, links, storeVars, bounds, putting, lruVars>>

UnpinClosure(h) ==
    /\ h \in pins
    /\ pins' = pins \ {h}
    /\ UNCHANGED <<infos, older, rows, links, storeVars, bounds, putting, pinning, lruVars>>

\* The narinfos the roots R and their references lead to, when the reference to
\* narinfo h is looked up as key[h]; narinfos that are not there lead nowhere.
Reached(R, key) ==
    LET level[k \in 0..Cardinality(Hashes)] ==
          IF k = 0 THEN R
          ELSE level[k - 1] \cup {key[r] : r \in UNION {Refs[h] : h \in level[k - 1] \cap infos}}
    IN level[Cardinality(Hashes)]

hashLength        == 32
narInfoHashLength == 52

\* The first narInfoHashLength characters of "<hash>-<name>", the reference to
\* narinfo h: its hash only if hashes are that long, else no narinfo's hash.
RefHash ==
    [h \in Hashes |-> IF narInfoHashLength = hashLength THEN h ELSE <<h, narInfoHashLength>>]

\* GetPinnedClosureHashes.
GetPinnedClosureHashes == Reached(pins, RefHash)

-----------------------------------------------------------------------------
(* runLRU.                                                                 *)

\* GetNarTotalSize: the sum of file_size over a set of NARs.
TotalSize == [N \in SUBSET Nars |-> MapThenSumSet(LAMBDA n : Size[n], N)]

\* calculateCleanupSize.
cleanupSize == IF TotalSize[rows] <= maxSize THEN 0 ELSE TotalSize[rows] - maxSize

maxFetchSize == 10000
fetchSize    == IF 2 * cleanupSize > maxFetchSize THEN maxFetchSize ELSE 2 * cleanupSize

\* The NARs of the narinfos H.
NarsOf(H) == {l[2] : l \in {k \in links : k[1] \in H}}

\* GetLeastUsedNarInfos: narinfos whose NARs, together with those of all the
\* narinfos used less recently, take at most size bytes.
GetLeastUsedNarInfos(size) ==
    {h \in infos : TotalSize[NarsOf({h} \cup {g \in infos : <<g, h>> \in older})] <= size}

\* Bound on the doublings of fetchSize: enough to reach the size of the cache.
MaxDoublings == 4

\* Mutant of Candidates: pinned narinfos do not widen the search.
CandidatesOnce == GetLeastUsedNarInfos(fetchSize)

\* The narinfos runLRU considers: fetchSize is doubled until one of them is not
\* pinned.  No candidate at all ends the run.
Candidates ==
    LET Fetched(k) == GetLeastUsedNarInfos(fetchSize * 2^k)
        last == {k \in 0..MaxDoublings : Fetched(k) = {} \/ ~(Fetched(k) \subseteq protected)}
    IN IF last = {} THEN {} ELSE Fetched(Min(last))

\* Mutant of Eligible: pins are not looked at.
EligiblePinned == Candidates

\* The loop skips the pinned narinfos.
Eligible == Candidates \ protected

\* The narinfos deleted when the eligible ones come as the sequence c: until
\* enough is freed.  A NAR counts for each narinfo it has, and the loop does not
\* stop when all but one candidate, pinned ones included, have been deleted.
Evicted(c) ==
    LET Freed(k) == MapThenSumSet(LAMBDA i : TotalSize[NarsOf({c[i]})], 1..k)
        enough == {k \in DOMAIN c : Freed(k) >= cleanupSize /\ k < Cardinality(Candidates) - 1}
    IN {c[i] : i \in {j \in DOMAIN c : \A k \in enough : j <= k}}

\* withTryLock, and GetPinnedClosureHashes before the transaction begins.
LruStart ==
    /\ lru = "idle"
    /\ lru' = "pinned"
    /\ protected' = GetPinnedClosureHashes
    /\ UNCHANGED <<dbVars, storeVars, bounds, putting, pinning, doomed>>

\* Mutant of Orphans: the NARs of the narinfos D, shared or not.
OrphansOfEvicted(D) == NarsOf(D)

\* GetOrphanedNarFiles once the narinfos D are gone: every NAR that has no
\* narinfo, whether it has had one or not.
Orphans(D) == rows \ NarsOf(infos \ D)

\* Mutant of LruCommit: only files of evicted narinfos are deleted.
LruCommitEvictedOnly ==
    /\ lru = "pinned"
    /\ cleanupSize > 0
    /\ Candidates # {}
    /\ \E c \in SetToSeqs(Eligible) :
         LET D == Evicted(c)
         IN /\ infos' = infos \ D
            /\ older' = Among(infos \ D)
            /\ links' = {l \in links : l[1] \notin D}
            /\ rows' = rows \ Orphans(D)
            /\ doomed' = Orphans(D) \cap NarsOf(D)
    /\ lru' = "deleting"
    /\ protected' = {}
    /\ UNCHANGED <<pins, storeVars, bounds, putting, pinning>>

\* Mutant of LruCommit: the links of a narinfo outlive it (no cascade).
LruCommitLeavesLinks ==
    /\ lru = "pinned"
    /\ cleanupSize > 0
    /\ Candidates # {}
    /\ \E c \in SetToSeqs(Eligible) :
         LET D == Evicted(c)
         IN /\ infos' = infos \ D
            /\ older' = Among(infos \ D)
            /\ links' = links
            /\ rows' = rows \ Orphans(D)
            /\ doomed' = Orphans(D)
    /\ lru' = "deleting"
    /\ protected' = {}
    /\ UNCHANGED <<pins, storeVars, bounds, putting, pinning>>

\* The transaction.  GetLeastUsedNarInfos has no ORDER BY, so the candidates
\* come in any order.
LruCommit ==
    /\ lru = "pinned"
    /\ cleanupSize > 0
    /\ Candidates # {}
    /\ \E c \in SetToSeqs(Eligible) :
         LET D == Evicted(c)
         IN /\ infos' = infos \ D
            /\ older' = Among(infos \ D)
            /\ links' = {l \in links : l[1] \notin D}
            /\ rows' = rows \ Orphans(D)
            /\ doomed' = Orphans(D)
    /\ lru' = "deleting"
    /\ protected' = {}
    /\ UNCHANGED <<pins, storeVars, bounds, putting, pinning>>

\* The cache is small enough, or no candidate is found: rollback.
LruNothing ==
    /\ lru = "pinned"
    /\ cleanupSize = 0 \/ Candidates = {}
    /\ lru' = "idle"
    /\ protected' = {}
    /\ UNCHANGED <<dbVars, storeVars, bounds, putting, pinning, doomed>>

\* parallelDeleteFromStores: the file a row named is deleted.  An uncompressed NAR
\* that was recompressed has no such file; the error is only logged.
DeleteFile(n) ==
    /\ lru = "deleting"
    /\ n \in doomed
    /\ files' = files \ {Own(n)}
    /\ left' = left \ {n}
    /\ doomed' = doomed \ {n}
    /\ UNCHANGED <<dbVars, bounds, putting, pinning, lru, protected>>

\* The store does not delete it, which is only logged as well.
DeleteFails(n) ==
    /\ "store" \in Faults
    /\ lru = "deleting"
    /\ n \in doomed
    /\ left' = left \cup Abandoned({n})
    /\ doomed' = doomed \ {n}
    /\ UNCHANGED <<dbVars, files, bounds, putting, pinning, lru, protected>>

LruEnd ==
    /\ lru = "deleting"
    /\ doomed = {}
    /\ lru' = "idle"
    /\ UNCHANGED <<dbVars, storeVars, bounds, putting, pinning, protected, doomed>>

LruStep ==
    \/ LruStart \/ LruCommit \/ LruNothing \/ LruEnd
    \/ \E n \in Nars : DeleteFile(n) \/ DeleteFails(n)

-----------------------------------------------------------------------------
\* The server dies and starts again: what it was storing, pinning and deleting is
\* forgotten, a transaction that has not committed is rolled back.
Crash ==
    /\ "crash" \in Faults
    /\ crashes > 0
    /\ crashes' = crashes - 1
    /\ left' = left \cup Abandoned(putting \cup doomed)
    /\ putting' = {}
    /\ pinning' = {}
    /\ lru' = "idle"
    /\ protected' = {}
    /\ doomed' = {}
    /\ UNCHANGED <<dbVars, files, puts>>

Next ==
    \/ \E n \in Nars : StoreFile(n) \/ StoreRecompressed(n) \/ RecordFile(n) \/ RecordFails(n)
    \/ \E h \in Hashes : PutNarInfo(h) \/ Touch(h)
    \/ \E h \in Hashes : CheckPin(h) \/ InsertPin(h) \/ UnpinClosure(h)
    \/ LruStep
    \/ Crash

Spec == Init /\ [][Next]_vars

\* The cron runs runLRU again and again: a LruStep is always possible, and only a
\* LruStep and finitely many crashes change lruVars, so this is WF_vars(LruStep).
FairSpec == Spec /\ []<><<lruVars' # lruVars>>_vars

-----------------------------------------------------------------------------
(* Properties.                                                             *)

\* No step takes away a narinfo that is pinned, unless the pin came after the
\* run had read the pins.
PinnedRootsKept ==
    [][\A h \in infos \cap pins : h \in infos' \/ (lru = "pinned" /\ h \notin protected)]_vars

\* No step takes away a narinfo that a pinned root the run knows of refers to,
\* directly or not.
PinnedClosureKept ==
    [][\A h \in infos \cap Reached(pins \cap protected, [r \in Hashes |-> r]) : h \in infos']_vars

\* When the records are gone, the files that are going to be deleted are those
\* of NARs no narinfo refers to: a NAR shared with a narinfo that stays is kept.
SharedNarsKept ==
    [][lru = "pinned" /\ lru' = "deleting" =>
          \A h \in infos' : NarOf[h] \in rows' /\ NarOf[h] \notin doomed']_vars

\* The file a NAR has under its own name has a record, is being recorded or is about
\* to be deleted, but for what a failing store or database or a crash in between has
\* left behind: an eviction forgets none.  The .nar.zst files of uncompressed NARs
\* are not in this claim, every eviction of such a NAR leaves its file behind.
FilesAccounted == \A n \in Nars : Own(n) \in files => n \in rows \cup putting \cup doomed \cup left

\* If no NAR is larger than the smallest window of candidates, a cache that is
\* too large shrinks to its size, or until only pinned narinfos are left.
SpaceReclaimed ==
    (\A n \in Nars : Size[n] <= 2) =>
        (cleanupSize > 0 ~> cleanupSize = 0 \/ infos \subseteq pins)

=============================================================================
