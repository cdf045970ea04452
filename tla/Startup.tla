------------------------------- MODULE Startup -------------------------------
(***************************************************************************)
(* The start of a server or of a command that opens the cache: the cluster *)
(* UUID, the signing key and the CDC settings are read from the config     *)
(* table, or written there by the first start.  A start is a sequence of   *)
(* queries, each under the lock of its key alone, so that starts of        *)
(* several processes interleave and a process may die between two of them. *)
(* A query that fails ends the start: that is Stop.                        *)
(*                                                                         *)
(* A key or a UUID that a process generates is the process itself.         *)
(***************************************************************************)
EXTENDS Naturals, Database

CONSTANTS
    Procs,      \* processes that share the database
    OldKey,     \* the key in the deprecated config store
    FileKey,    \* the key in the file of --cache-secret-key-path
    Flags,      \* command lines: --cache-cdc-enabled, sizes (zeros when not
                \* given), whether --cache-secret-key-path is given
    MaxStarts   \* bound on starts

VARIABLES
    db,         \* the config table
    oldKey,     \* what the deprecated config store holds
    pc,         \* where each process is
    flags,      \* its command line
    cdc,        \* its cdcEnabled, cdcMin, cdcAvg and cdcMax
    next,       \* the size it reads or writes next
    secretKey,  \* c.secretKey
    starts,     \* starts left
    raced       \* history: a setting was written while another process was starting

vars == <<db, oldKey, pc, flags, cdc, next, secretKey, starts, raced>>

NoSizes == <<0, 0, 0>>
SizeKeys == <<"cdc_min", "cdc_avg", "cdc_max">>

Init ==
    /\ db = NoTables
    /\ oldKey \in {OldKey, Null}
    /\ pc = [p \in Procs |-> "off"]
    /\ flags = [p \in Procs |-> Null]
    /\ cdc = [p \in Procs |-> Null]
    /\ next = [p \in Procs |-> 1]
    /\ secretKey = [p \in Procs |-> Null]
    /\ starts = MaxStarts
    /\ raced = FALSE

\* getConfig: the value, or ErrConfigNotFound.
getConfig(key) == GetConfigByKey(db, key)

Starting(p) == pc[p] \notin {"off", "running"}
Goto(p, state) == pc' = [pc EXCEPT ![p] = state]

\* setConfig of a setting that other starts look for.
setConfig(p, key, value) ==
    /\ db' = SetConfig(db, key, value)
    /\ raced' = (raced \/ \E q \in Procs \ {p} : Starting(q))

\* The command line is read.
Start(p, f) ==
    /\ pc[p] = "off"
    /\ starts > 0
    /\ starts' = starts - 1
    /\ flags' = [flags EXCEPT ![p] = f]
    /\ cdc' = [cdc EXCEPT ![p] = [enabled |-> f.enabled = "true", sizes |-> f.sizes]]
    /\ Goto(p, "uuid")
    /\ UNCHANGED <<db, oldKey, next, secretKey, raced>>

\* getOrSetClusterUUID
GetClusterUUID(p) ==
    /\ pc[p] = "uuid"
    /\ Goto(p, IF getConfig("cluster_uuid") = Null THEN "newUUID" ELSE "key")
    /\ UNCHANGED <<db, oldKey, flags, cdc, next, secretKey, starts, raced>>

SetClusterUUID(p) ==
    /\ pc[p] = "newUUID"
    /\ db' = SetConfig(db, "cluster_uuid", p)
    /\ Goto(p, "key")
    /\ UNCHANGED <<oldKey, flags, cdc, next, secretKey, starts, raced>>

\* setupSecretKeyFromFile: the file decides, the database follows it.
SecretKeyFromFile(p) ==
    /\ pc[p] = "key"
    /\ flags[p].keyFile
    /\ secretKey' = [secretKey EXCEPT ![p] = FileKey]
    /\ Goto(p, IF getConfig("secret_key") = FileKey THEN "cdc" ELSE "putKey")
    /\ UNCHANGED <<db, oldKey, flags, cdc, next, starts, raced>>

SecretKeyFromDatabase(p) ==
    LET key == getConfig("secret_key")
    IN /\ pc[p] = "key"
       /\ ~flags[p].keyFile
       /\ secretKey' = [secretKey EXCEPT ![p] = key]
       /\ Goto(p, IF key = Null THEN "oldKey" ELSE "cdc")
       /\ UNCHANGED <<db, oldKey, flags, cdc, next, starts, raced>>

\* The key of the deprecated store is migrated; without one, a key is generated.
SecretKeyFromStore(p) ==
    /\ pc[p] = "oldKey"
    /\ secretKey' = [secretKey EXCEPT ![p] = IF oldKey # Null THEN oldKey ELSE p]
    /\ Goto(p, IF oldKey # Null THEN "migrateKey" ELSE "putKey")
    /\ UNCHANGED <<db, oldKey, flags, cdc, next, starts, raced>>

\* For a key from a file a failure is only logged.
PutSecretKey(p) ==
    /\ pc[p] = "putKey"
    /\ \/ setConfig(p, "secret_key", secretKey[p])
       \/ flags[p].keyFile /\ UNCHANGED <<db, raced>>
    /\ Goto(p, "cdc")
    /\ UNCHANGED <<oldKey, flags, cdc, next, secretKey, starts>>

\* Mutant of MigrateSecretKey: the old key is deleted before the new row is there.
MigrateByMoving(p) ==
    /\ pc[p] = "migrateKey"
    /\ oldKey' = Null
    /\ Goto(p, "putKey")
    /\ UNCHANGED <<db, flags, cdc, next, secretKey, starts, raced>>

MigrateSecretKey(p) ==
    /\ pc[p] = "migrateKey"
    /\ setConfig(p, "secret_key", secretKey[p])
    /\ Goto(p, "deleteKey")
    /\ UNCHANGED <<oldKey, flags, cdc, next, secretKey, starts>>

\* configStore.DeleteSecretKey; a failure is only logged.
DeleteSecretKey(p) ==
    /\ pc[p] = "deleteKey"
    /\ oldKey' \in {oldKey, Null}
    /\ Goto(p, "cdc")
    /\ UNCHANGED <<db, flags, cdc, next, secretKey, starts, raced>>

\* createCache asks the database when no size is given: loadCDCConfigFromDB.
LoadCDCConfig(p) ==
    /\ pc[p] = "cdc"
    /\ IF cdc[p].sizes = NoSizes /\ getConfig("cdc_enabled") = "true"
       THEN /\ cdc' = [cdc EXCEPT ![p].enabled = @ \/ flags[p].enabled = "unset"]
            /\ Goto(p, "load")
       ELSE /\ Goto(p, "validate")
            /\ UNCHANGED cdc
    /\ next' = [next EXCEPT ![p] = 1]
    /\ UNCHANGED <<db, oldKey, flags, secretKey, starts, raced>>

\* A size that is not there, or cannot be parsed, is 0.
LoadSize(p) ==
    LET size == getConfig(SizeKeys[next[p]])
    IN /\ pc[p] = "load"
       /\ cdc' = [cdc EXCEPT ![p].sizes[next[p]] = IF size = Null THEN 0 ELSE size]
       /\ next' = [next EXCEPT ![p] = IF @ = 3 THEN 1 ELSE @ + 1]
       /\ Goto(p, IF next[p] = 3 THEN "validate" ELSE "load")
       /\ UNCHANGED <<db, oldKey, flags, secretKey, starts, raced>>

\* ValidateOrStoreCDCConfig
ValidateOrStore(p) ==
    LET stored == getConfig("cdc_enabled")
        zero == \E i \in 1..3 : cdc[p].sizes[i] = 0
    IN /\ pc[p] = "validate"
       /\ Goto(p, CASE stored = Null /\ ~cdc[p].enabled -> "running"
                    [] stored = Null /\ cdc[p].enabled -> IF zero THEN "off" ELSE "store"
                    [] stored # Null -> IF cdc[p].enabled THEN "compare" ELSE "off")
       /\ UNCHANGED <<db, oldKey, flags, cdc, next, secretKey, starts, raced>>

\* storeCDCConfig: the flag, then the sizes one by one.
StoreEnabled(p) ==
    /\ pc[p] = "store"
    /\ setConfig(p, "cdc_enabled", "true")
    /\ Goto(p, "storeSizes")
    /\ UNCHANGED <<oldKey, flags, cdc, next, secretKey, starts>>

StoreSize(p) ==
    /\ pc[p] = "storeSizes"
    /\ setConfig(p, SizeKeys[next[p]], cdc[p].sizes[next[p]])
    /\ next' = [next EXCEPT ![p] = IF @ = 3 THEN 1 ELSE @ + 1]
    /\ Goto(p, IF next[p] = 3 THEN "running" ELSE "storeSizes")
    /\ UNCHANGED <<oldKey, flags, cdc, secretKey, starts>>

\* validateCDCConfig: every size has to be there and to be the same.
CompareSize(p) ==
    LET same == getConfig(SizeKeys[next[p]]) = cdc[p].sizes[next[p]]
    IN /\ pc[p] = "compare"
       /\ next' = [next EXCEPT ![p] = IF @ = 3 THEN 1 ELSE @ + 1]
       /\ Goto(p, CASE ~same -> "off"
                    [] same -> IF next[p] = 3 THEN "running" ELSE "compare")
       /\ UNCHANGED <<db, oldKey, flags, cdc, secretKey, starts, raced>>

\* The process ends, dies, or gives up its start.
Stop(p) ==
    /\ pc[p] # "off"
    /\ Goto(p, "off")
    /\ flags' = [flags EXCEPT ![p] = Null]
    /\ cdc' = [cdc EXCEPT ![p] = Null]
    /\ next' = [next EXCEPT ![p] = 1]
    /\ secretKey' = [secretKey EXCEPT ![p] = Null]
    /\ UNCHANGED <<db, oldKey, starts, raced>>

Step(p) ==
    \/ \E f \in Flags : Start(p, f)
    \/ GetClusterUUID(p) \/ SetClusterUUID(p)
    \/ SecretKeyFromFile(p) \/ SecretKeyFromDatabase(p) \/ SecretKeyFromStore(p)
    \/ PutSecretKey(p) \/ MigrateSecretKey(p) \/ DeleteSecretKey(p)
    \/ LoadCDCConfig(p) \/ LoadSize(p) \/ ValidateOrStore(p)
    \/ StoreEnabled(p) \/ StoreSize(p) \/ CompareSize(p)
    \/ Stop(p)

Next == \E p \in Procs : Step(p)

Spec == Init /\ [][Next]_vars

-----------------------------------------------------------------------------
\* The key clients have to trust: the row, or else what a start will migrate.
TrustedKey == IF getConfig("secret_key") # Null
              THEN getConfig("secret_key") ELSE oldKey

StoredSizes == [i \in 1..3 |-> getConfig(SizeKeys[i])]

\* The settings are decided once, whatever start dies where: the signing key is
\* never replaced but by the file's, and every process that runs with CDC cuts
\* chunks of the stored sizes (setupSecretKey, ValidateOrStoreCDCConfig).
\* A setting written while another process starts voids it: that process may have
\* looked for the setting before, and write its own.
Settled ==
    ~raced' =>
        /\ TrustedKey # Null => TrustedKey' \in {TrustedKey, FileKey}
        /\ \A p \in Procs :
             pc'[p] = "running" /\ cdc'[p].enabled => cdc'[p].sizes = StoredSizes'
SettledOnce == [][Settled]_vars

=============================================================================
