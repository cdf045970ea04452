------------------------------- MODULE Stores -------------------------------
(***************************************************************************)
(* The NAR and narinfo stores of pkg/storage/local and pkg/storage/s3, for *)
(* one NAR and one narinfo, used by several goroutines and processes.      *)
(*                                                                         *)
(* A local object is a file below directories that are made on demand and  *)
(* removed when they are empty.  A NAR is written to a file in store/tmp   *)
(* and renamed, a narinfo is written in place.  An S3 object appears as a  *)
(* whole when its upload ends.                                             *)
(***************************************************************************)
EXTENDS Naturals

CONSTANTS
    Procs,        \* callers; one that starts a process sets the store up first
    None,         \* no such object
    MaxFaults     \* bound on crashes and failed copies

VARIABLES
    backend,      \* "local" or "s3"
    file,         \* file[k]: None, "whole", or the caller that is writing it
    dirs,         \* dirs[k]: the directories above the local file are there
    tmp,          \* store/tmp is there
    temp,         \* temp[p]: p's file in store/tmp: None, p (partly written), "whole"
    stray,        \* files in store/tmp that nobody will rename or remove
    pc, kind,     \* of each caller: where it is, and what it works on
    got,          \* got[p]: what a Get of p has opened
    budget

vars == <<backend, file, dirs, tmp, temp, stray, pc, kind, got, budget>>

Kinds == {"nar", "narinfo"}
Calls == {"put", "get", "delete"}
Steps == {"idle", "mkdir", "create", "copy", "rename", "chmod", "write", "send", "open",
          "reading", "rmdir", "remove", "setup"} \cup Calls

TypeOK ==
    /\ backend \in {"local", "s3"}
    /\ file \in [Kinds -> {None, "whole"} \cup Procs]
    /\ dirs \in [Kinds -> BOOLEAN]
    /\ tmp \in BOOLEAN /\ stray \in BOOLEAN
    /\ temp \in [Procs -> {None, "whole"} \cup Procs]
    /\ pc \in [Procs -> Steps]
    /\ kind \in [Procs -> Kinds]
    /\ got \in [Procs -> {None, "whole"} \cup Procs]
    /\ budget \in 0..MaxFaults

\* New and setupDirs, or the access test of S3, have been through once.
Init ==
    /\ backend \in {"local", "s3"}
    /\ file = [k \in Kinds |-> None]
    /\ dirs = [k \in Kinds |-> FALSE]
    /\ tmp = TRUE /\ stray = FALSE
    /\ temp = [p \in Procs |-> None]
    /\ pc = [p \in Procs |-> "idle"]
    /\ kind = [p \in Procs |-> "nar"]
    /\ got = [p \in Procs |-> None]
    /\ budget = MaxFaults

Goto(p, step) == pc' = [pc EXCEPT ![p] = step]
At(p, k, step, b) == pc[p] = step /\ kind[p] = k /\ backend = b

\* The Stat or StatObject an operation begins with.
Stat(p, k, b, call, there, missing) ==
    /\ At(p, k, call, b)
    /\ Goto(p, IF file[k] # None THEN there ELSE missing)
    /\ UNCHANGED <<backend, file, dirs, tmp, temp, stray, kind, got, budget>>

Call(p, k, call) ==
    /\ pc[p] = "idle"
    /\ Goto(p, call)
    /\ kind' = [kind EXCEPT ![p] = k]
    /\ UNCHANGED <<backend, file, dirs, tmp, temp, stray, got, budget>>

-----------------------------------------------------------------------------
(* Writing.  An object that is there is ErrAlreadyExists; PutNarInfo of    *)
(* the local store leaves that to the creation of the file.                *)

PutNar(p)           == Stat(p, "nar", "local", "put", "idle", "mkdir")
PutNarInfo(p)       == Stat(p, "narinfo", "local", "put", "mkdir", "mkdir")
PutNarObject(p)     == Stat(p, "nar", "s3", "put", "idle", "send")
PutNarInfoObject(p) == Stat(p, "narinfo", "s3", "put", "idle", "send")

MkdirAll(p) ==
    /\ pc[p] = "mkdir"
    /\ dirs' = [dirs EXCEPT ![kind[p]] = TRUE]
    /\ Goto(p, "create")
    /\ UNCHANGED <<backend, file, tmp, temp, stray, kind, got, budget>>

\* Mutant of CreateTemp: the file is opened under its final name.
CreateInPlace(p) ==
    /\ At(p, "nar", "create", "local")
    /\ file' = [file EXCEPT !["nar"] = p]
    /\ temp' = [temp EXCEPT ![p] = p]
    /\ Goto(p, "copy")
    /\ UNCHANGED <<backend, dirs, tmp, stray, kind, got, budget>>

\* os.CreateTemp in store/tmp, which a process that starts may just have removed.
CreateTemp(p) ==
    /\ At(p, "nar", "create", "local")
    /\ IF tmp
       THEN temp' = [temp EXCEPT ![p] = p] /\ Goto(p, "copy")
       ELSE Goto(p, "idle") /\ UNCHANGED temp
    /\ UNCHANGED <<backend, file, dirs, tmp, stray, kind, got, budget>>

\* io.Copy and Close, also into a file that has been removed meanwhile.
Copy(p) ==
    /\ pc[p] = "copy"
    /\ temp' = [temp EXCEPT ![p] = IF @ = None THEN None ELSE "whole"]
    /\ Goto(p, "rename")
    /\ UNCHANGED <<backend, file, dirs, tmp, stray, kind, got, budget>>

\* The body ends with an error: the temporary file is removed.
CopyFails(p) ==
    /\ pc[p] = "copy"
    /\ budget > 0 /\ budget' = budget - 1
    /\ temp' = [temp EXCEPT ![p] = None]
    /\ Goto(p, "idle")
    /\ UNCHANGED <<backend, file, dirs, tmp, stray, kind, got>>

\* os.Rename replaces a NAR that came meanwhile; it fails without the directory
\* or the file, and then leaves the file.
Rename(p) ==
    /\ pc[p] = "rename"
    /\ IF dirs["nar"] /\ temp[p] # None
       THEN /\ file' = [file EXCEPT !["nar"] = temp[p]]
            /\ Goto(p, "chmod")
            /\ UNCHANGED stray
       ELSE /\ stray' = (stray \/ temp[p] # None)
            /\ Goto(p, "idle")
            /\ UNCHANGED file
    /\ temp' = [temp EXCEPT ![p] = None]
    /\ UNCHANGED <<backend, dirs, tmp, kind, got, budget>>

\* os.Chmod: the error of a NAR that is deleted already is all that comes of it.
Chmod(p) ==
    /\ pc[p] = "chmod"
    /\ Goto(p, "idle")
    /\ UNCHANGED <<backend, file, dirs, tmp, temp, stray, kind, got, budget>>

\* PutNarInfo then creates the file under its name, unless it is there.
CreateNarInfo(p) ==
    /\ At(p, "narinfo", "create", "local")
    /\ IF dirs["narinfo"] /\ file["narinfo"] = None
       THEN file' = [file EXCEPT !["narinfo"] = p] /\ Goto(p, "write")
       ELSE Goto(p, "idle") /\ UNCHANGED file
    /\ UNCHANGED <<backend, dirs, tmp, temp, stray, kind, got, budget>>

\* It writes to the file it has created, whether that still has its name or not.
WriteNarInfo(p) ==
    /\ pc[p] = "write"
    /\ file' = [file EXCEPT !["narinfo"] = IF @ = p THEN "whole" ELSE @]
    /\ Goto(p, "idle")
    /\ UNCHANGED <<backend, dirs, tmp, temp, stray, kind, got, budget>>

\* PutObject: all or nothing, over an object that came meanwhile.
PutObject(p) ==
    /\ pc[p] = "send"
    /\ \/ file' = [file EXCEPT ![kind[p]] = "whole"] /\ UNCHANGED budget
       \/ budget > 0 /\ budget' = budget - 1 /\ UNCHANGED file
    /\ Goto(p, "idle")
    /\ UNCHANGED <<backend, dirs, tmp, temp, stray, kind, got>>

-----------------------------------------------------------------------------
(* Reading.  A caller asks for the object before it gets it; GetNar and    *)
(* GetNarInfo of the local store ask once more.                            *)

HasNar(p)           == Stat(p, "nar", "local", "get", "open", "idle")
HasNarInfo(p)       == Stat(p, "narinfo", "local", "get", "open", "idle")
HasNarObject(p)     == Stat(p, "nar", "s3", "get", "open", "idle")
HasNarInfoObject(p) == Stat(p, "narinfo", "s3", "get", "open", "idle")

\* What is opened stays readable; an object that is gone is ErrNotFound.
Open(p, k, b) ==
    /\ At(p, k, "open", b)
    /\ got' = [got EXCEPT ![p] = file[k]]
    /\ Goto(p, IF file[k] = None THEN "idle" ELSE "reading")
    /\ UNCHANGED <<backend, file, dirs, tmp, temp, stray, kind, budget>>

GetNar(p)           == Open(p, "nar", "local")
GetNarInfo(p)       == Open(p, "narinfo", "local")
GetNarObject(p)     == Open(p, "nar", "s3")
GetNarInfoObject(p) == Open(p, "narinfo", "s3")

Close(p) ==
    /\ pc[p] = "reading"
    /\ got' = [got EXCEPT ![p] = None]
    /\ Goto(p, "idle")
    /\ UNCHANGED <<backend, file, dirs, tmp, temp, stray, kind, budget>>

-----------------------------------------------------------------------------
(* Deleting; without the object it is ErrNotFound.                         *)

\* os.Remove of the local store ...
Remove(p, k) ==
    /\ At(p, k, "delete", "local")
    /\ file' = [file EXCEPT ![k] = None]
    /\ Goto(p, IF file[k] = None THEN "idle" ELSE "rmdir")
    /\ UNCHANGED <<backend, dirs, tmp, temp, stray, kind, got, budget>>

DeleteNar(p)           == Remove(p, "nar")
DeleteNarInfo(p)       == Remove(p, "narinfo")
\* ... and S3, which asks first.
DeleteNarObject(p)     == Stat(p, "nar", "s3", "delete", "remove", "idle")
DeleteNarInfoObject(p) == Stat(p, "narinfo", "s3", "delete", "remove", "idle")

RemoveObject(p) ==
    /\ pc[p] = "remove"
    /\ file' = [file EXCEPT ![kind[p]] = None]
    /\ Goto(p, "idle")
    /\ UNCHANGED <<backend, dirs, tmp, temp, stray, kind, got, budget>>

\* removeEmptyParentDirs.
RemoveDirs(p) ==
    /\ pc[p] = "rmdir"
    /\ dirs' = [dirs EXCEPT ![kind[p]] = @ /\ file[kind[p]] # None]
    /\ Goto(p, "idle")
    /\ UNCHANGED <<backend, file, tmp, temp, stray, kind, got, budget>>

-----------------------------------------------------------------------------
\* A server or a command on the same path starts: setupDirs removes store/tmp
\* with all that is in it ...
RemoveTmp(p) ==
    /\ pc[p] = "idle" /\ backend = "local"
    /\ tmp' = FALSE /\ stray' = FALSE
    /\ temp' = [q \in Procs |-> None]
    /\ Goto(p, "setup")
    /\ UNCHANGED <<backend, file, dirs, kind, got, budget>>

\* ... and makes it anew.
MakeTmp(p) ==
    /\ pc[p] = "setup"
    /\ tmp' = TRUE
    /\ Goto(p, "idle")
    /\ UNCHANGED <<backend, file, dirs, temp, stray, kind, got, budget>>

\* The process of p dies, and is not yet started again.
Crash(p) ==
    /\ pc[p] # "idle"
    /\ budget > 0 /\ budget' = budget - 1
    /\ stray' = (stray \/ temp[p] # None)
    /\ temp' = [temp EXCEPT ![p] = None]
    /\ got' = [got EXCEPT ![p] = None]
    /\ Goto(p, "idle")
    /\ UNCHANGED <<backend, file, dirs, tmp, kind>>

Step(p) ==
    \/ \E k \in Kinds, call \in Calls : Call(p, k, call)
    \/ PutNar(p) \/ PutNarInfo(p) \/ PutNarObject(p) \/ PutNarInfoObject(p)
    \/ MkdirAll(p) \/ CreateTemp(p) \/ Copy(p) \/ CopyFails(p) \/ Rename(p) \/ Chmod(p)
    \/ CreateNarInfo(p) \/ WriteNarInfo(p) \/ PutObject(p)
    \/ HasNar(p) \/ HasNarInfo(p) \/ HasNarObject(p) \/ HasNarInfoObject(p)
    \/ GetNar(p) \/ GetNarInfo(p) \/ GetNarObject(p) \/ GetNarInfoObject(p) \/ Close(p)
    \/ DeleteNar(p) \/ DeleteNarInfo(p) \/ DeleteNarObject(p) \/ DeleteNarInfoObject(p)
    \/ RemoveObject(p) \/ RemoveDirs(p)
    \/ RemoveTmp(p) \/ MakeTmp(p) \/ Crash(p)

Next == \E p \in Procs : Step(p)

Spec == Init /\ [][Next]_vars

-----------------------------------------------------------------------------
\* A NAR that GetNar hands out is complete: it has been written to the end before
\* it gets its name, whatever uploads, deletes, starts and crashes go on
\* (PutNar and GetNar of both stores).
NarReadsAreWhole == \A p \in Procs : kind[p] = "nar" /\ got[p] # None => got[p] = "whole"

=============================================================================
