----------------------------- MODULE ChunkStore -----------------------------
(***************************************************************************)
(* The chunk stores of pkg/storage/chunk, local and S3, for one chunk.     *)
(*                                                                         *)
(* The local store writes a temporary file next to the chunk and links it  *)
(* to the chunk's name; the directory is made on demand and removed when   *)
(* it is empty.  The S3 store looks and puts under a lock of the chunk,    *)
(* used through what AbstractLock promises while its time to live lasts.   *)
(***************************************************************************)
EXTENDS Naturals, FiniteSets

CONSTANTS
    Procs,        \* callers
    None,         \* nobody
    MaxFaults     \* bound on crashes and failed writes

VARIABLES
    backend,      \* "local" or "s3"
    chunk,        \* "none", "part" or "whole": what is under the name of the chunk
    dir,          \* the directory of the local chunk is there
    temps,        \* temps[p]: p's temporary file in it: "none", "part" or "whole"
    stray,        \* a temporary file that a crash has left in it
    lock,         \* who holds chunk-put:<hash>
    pc,
    got,          \* got[p]: what GetChunk has opened for p
    creators,     \* history: who was told to have created the chunk that is there
    budget

vars == <<backend, chunk, dir, temps, stray, lock, pc, got, creators, budget>>

Contents == {"none", "part", "whole"}
Steps == {"idle", "create", "write", "link", "unlink", "lock", "look", "put", "unlock", "reading",
          "rmdir"}

TypeOK ==
    /\ backend \in {"local", "s3"}
    /\ chunk \in Contents
    /\ dir \in BOOLEAN /\ stray \in BOOLEAN
    /\ temps \in [Procs -> Contents]
    /\ lock \in Procs \cup {None}
    /\ pc \in [Procs -> Steps]
    /\ got \in [Procs -> Contents]
    /\ creators \subseteq Procs
    /\ budget \in 0..MaxFaults

Init ==
    /\ backend \in {"local", "s3"}
    /\ chunk = "none"
    /\ dir = FALSE /\ stray = FALSE
    /\ temps = [p \in Procs |-> "none"]
    /\ lock = None
    /\ pc = [p \in Procs |-> "idle"]
    /\ got = [p \in Procs |-> "none"]
    /\ creators = {}
    /\ budget = MaxFaults

Goto(p, step) == pc' = [pc EXCEPT ![p] = step]
Fault == budget > 0 /\ budget' = budget - 1

\* PutChunk of the local store begins with MkdirAll ...
PutChunk(p) ==
    /\ pc[p] = "idle" /\ backend = "local"
    /\ dir' = TRUE
    /\ Goto(p, "create")
    /\ UNCHANGED <<backend, chunk, temps, stray, lock, creators, budget, got>>

\* ... and that of S3 with the lock.
PutChunkObject(p) ==
    /\ pc[p] = "idle" /\ backend = "s3"
    /\ Goto(p, "lock")
    /\ UNCHANGED <<backend, chunk, dir, temps, stray, lock, creators, budget, got>>

\* os.CreateTemp fails when DeleteChunk has removed the directory meanwhile.
CreateTemp(p) ==
    /\ pc[p] = "create"
    /\ IF dir
       THEN temps' = [temps EXCEPT ![p] = "part"] /\ Goto(p, "write")
       ELSE Goto(p, "idle") /\ UNCHANGED temps
    /\ UNCHANGED <<backend, chunk, dir, stray, lock, creators, budget, got>>

\* Write, Sync and Close; after an error only the deferred Remove is left.
WriteTemp(p) ==
    /\ pc[p] = "write"
    /\ \/ temps' = [temps EXCEPT ![p] = "whole"] /\ Goto(p, "link") /\ UNCHANGED budget
       \/ Fault /\ Goto(p, "unlink") /\ UNCHANGED temps
    /\ UNCHANGED <<backend, chunk, dir, stray, lock, creators, got>>

\* Mutant of Link: a rename, which replaces the chunk that is there.
Rename(p) ==
    /\ pc[p] = "link"
    /\ chunk' = temps[p]
    /\ creators' = creators \cup {p}
    /\ Goto(p, "unlink")
    /\ UNCHANGED <<backend, dir, temps, stray, lock, budget, got>>

\* os.Link: the chunk appears, or is there already.
Link(p) ==
    /\ pc[p] = "link"
    /\ IF chunk = "none"
       THEN chunk' = temps[p] /\ creators' = {p}
       ELSE UNCHANGED <<chunk, creators>>
    /\ Goto(p, "unlink")
    /\ UNCHANGED <<backend, dir, temps, stray, lock, budget, got>>

\* The deferred os.Remove of the temporary file.
RemoveTemp(p) ==
    /\ pc[p] = "unlink"
    /\ temps' = [temps EXCEPT ![p] = "none"]
    /\ Goto(p, "idle")
    /\ UNCHANGED <<backend, chunk, dir, stray, lock, creators, budget, got>>

\* The lock of S3's PutChunk: taken, or an error.
Lock(p) ==
    /\ pc[p] = "lock"
    /\ \/ lock = None /\ lock' = p /\ Goto(p, "look")
       \/ lock # None /\ UNCHANGED lock /\ Goto(p, "idle")
    /\ UNCHANGED <<backend, chunk, dir, temps, stray, creators, budget, got>>

\* HasChunk under the lock.
Look(p) ==
    /\ pc[p] = "look"
    /\ Goto(p, IF chunk = "none" THEN "put" ELSE "unlock")
    /\ UNCHANGED <<backend, chunk, dir, temps, stray, lock, creators, budget, got>>

\* PutObject: the object appears as a whole, or not at all; an error tells neither.
PutObject(p) ==
    /\ pc[p] = "put"
    /\ \/ chunk' = "whole" /\ creators' = creators \cup {p} /\ UNCHANGED budget
       \/ Fault /\ chunk' \in {chunk, "whole"} /\ UNCHANGED creators
    /\ Goto(p, "unlock")
    /\ UNCHANGED <<backend, dir, temps, stray, lock, got>>

Unlock(p) ==
    /\ pc[p] = "unlock"
    /\ lock' = None
    /\ Goto(p, "idle")
    /\ UNCHANGED <<backend, chunk, dir, temps, stray, creators, budget, got>>

\* ErrNotFound, or a file or object that stays readable.
Open(p, b) ==
    /\ pc[p] = "idle" /\ backend = b
    /\ chunk # "none"
    /\ got' = [got EXCEPT ![p] = chunk]
    /\ Goto(p, "reading")
    /\ UNCHANGED <<backend, chunk, dir, temps, stray, lock, creators, budget>>

\* GetChunk and GetRawChunk of the local store, and of S3.
GetChunk(p)       == Open(p, "local")
GetChunkObject(p) == Open(p, "s3")

Close(p) ==
    /\ pc[p] = "reading"
    /\ got' = [got EXCEPT ![p] = "none"]
    /\ Goto(p, "idle")
    /\ UNCHANGED <<backend, chunk, dir, temps, stray, lock, creators, budget>>

\* A chunk that is gone is no error.
Remove(p, b, then) ==
    /\ pc[p] = "idle" /\ backend = b
    /\ chunk' = "none" /\ creators' = {}
    /\ Goto(p, then)
    /\ UNCHANGED <<backend, dir, temps, stray, lock, budget, got>>

\* DeleteChunk; that of S3 takes no lock.
DeleteChunk(p)       == Remove(p, "local", "rmdir")
DeleteChunkObject(p) == Remove(p, "s3", "idle")

Empty == chunk = "none" /\ ~stray /\ \A q \in Procs : temps[q] = "none"

\* os.Remove of the directory, as long as it is empty.
RemoveDir(p) ==
    /\ pc[p] = "rmdir"
    /\ dir' = (dir /\ ~Empty)
    /\ Goto(p, "idle")
    /\ UNCHANGED <<backend, chunk, temps, stray, lock, creators, budget, got>>

\* The process dies; its lock expires, its temporary file stays for good.
Crash(p) ==
    /\ pc[p] # "idle" /\ Fault
    /\ stray' = (stray \/ temps[p] # "none")
    /\ temps' = [temps EXCEPT ![p] = "none"]
    /\ lock' = IF lock = p THEN None ELSE lock
    /\ got' = [got EXCEPT ![p] = "none"]
    /\ Goto(p, "idle")
    /\ UNCHANGED <<backend, chunk, dir, creators>>

Next ==
    \E p \in Procs :
        \/ PutChunk(p) \/ PutChunkObject(p) \/ CreateTemp(p) \/ WriteTemp(p) \/ Link(p) \/ RemoveTemp(p)
        \/ Lock(p) \/ Look(p) \/ PutObject(p) \/ Unlock(p)
        \/ GetChunk(p) \/ GetChunkObject(p) \/ Close(p)
        \/ DeleteChunk(p) \/ DeleteChunkObject(p) \/ RemoveDir(p) \/ Crash(p)

Spec == Init /\ [][Next]_vars

-----------------------------------------------------------------------------
\* A chunk that is read is complete, and of all callers that put it at most one is
\* told that it was new (PutChunk of chunk/local.go and chunk/s3.go).
CreatedOnce == Cardinality(creators) <= 1 /\ \A p \in Procs : got[p] # "part"

=============================================================================
