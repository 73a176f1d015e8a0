----------------------------- MODULE Installation ---------------------------
(***************************************************************************)
(* How processes open one appdata directory: the encryption key is loaded  *)
(* or, in a new installation, created and published (LoadForDatabase,      *)
(* createKey); the database is opened and migrated under a lock            *)
(* (OpenMigrated); then the process may store encrypted records.  Several  *)
(* processes of different releases start at once, any of them may crash,   *)
(* and while none runs the operator may lose the key file or put back      *)
(* another.                                                                *)
(***************************************************************************)
EXTENDS Naturals, FiniteSets, Sequences

CONSTANTS
  Process,
  Version,      \* [Process -> Nat]: the newest migration a process has
  Key,
  MaxMishaps,    \* bound: crashes, failed migrations, operator mistakes
  Absent

ASSUME InstallationAssumption ==
  /\ Version \in [Process -> Nat] /\ MaxMishaps \in Nat
  /\ Absent \notin Process /\ Absent \notin Key

VARIABLES
  keyFile,          \* the key file
  exists,           \* the database file exists
  foreign,          \* it has tables of something else
  registry,         \* schema_migrations exists
  applied,          \* its versions
  schema,           \* the scripts the database has executed, in order
  secrets,          \* the keys its records are encrypted with
  lock,             \* who holds the migration lock
  pc, mem, at,      \* a process: where it is, its key, its migration
  mishaps

database == <<exists, foreign, registry, applied, schema, secrets>>
installVars == <<keyFile, database, lock, pc, mem, at, mishaps>>

Steps == {"down", "stat", "load", "link", "wait", "open", "registry", "check", "apply", "up"}

InstallInit ==
  /\ keyFile = Absent /\ lock = Absent /\ mishaps = 0
  /\ foreign \in BOOLEAN /\ exists = foreign
  /\ registry = FALSE /\ applied = {} /\ schema = <<>> /\ secrets = {}
  /\ pc = [p \in Process |-> "down"] /\ mem = [p \in Process |-> Absent] /\ at = [p \in Process |-> 1]

Advance(p, step) == pc' = [pc EXCEPT ![p] = step]
\* The process ends, its lock with it.
Exit(p) ==
  /\ Advance(p, "down") /\ lock' = IF lock = p THEN Absent ELSE lock
  /\ mem' = [mem EXCEPT ![p] = Absent]
Mishap == mishaps < MaxMishaps /\ mishaps' = mishaps + 1

-----------------------------------------------------------------------------
\* LoadForDatabase: an existing key ...
LoadExisting(p) ==
  /\ pc[p] = "down"
  /\ IF keyFile = Absent THEN Advance(p, "stat") /\ UNCHANGED mem
     ELSE Advance(p, "wait") /\ mem' = [mem EXCEPT ![p] = keyFile]
  /\ UNCHANGED <<keyFile, database, lock, at, mishaps>>

\* ... none, but a database: the key is missing, nothing is created ...
Stat(p) ==
  /\ pc[p] = "stat"
  /\ IF exists THEN Exit(p) ELSE Advance(p, "load") /\ UNCHANGED <<mem, lock>>
  /\ UNCHANGED <<keyFile, database, at, mishaps>>

\* A random key is one that nothing refers to.
Unused == Key \ (secrets \cup {mem[q] : q \in Process})

\* ... or LoadOrCreate, which looks again and generates a key.
LoadOrCreate(p) ==
  /\ pc[p] = "load"
  /\ \/ /\ keyFile # Absent
        /\ mem' = [mem EXCEPT ![p] = keyFile] /\ Advance(p, "wait")
     \/ /\ keyFile = Absent /\ Advance(p, "link")
        /\ \E k \in Unused : mem' = [mem EXCEPT ![p] = k]
  /\ UNCHANGED <<keyFile, database, lock, at, mishaps>>

\* createKey publishes a complete file; the winner of a concurrent first start
\* is loaded.
Link(p) ==
  /\ pc[p] = "link" /\ Advance(p, "wait")
  /\ keyFile' = IF keyFile = Absent THEN mem[p] ELSE keyFile
  /\ mem' = [mem EXCEPT ![p] = keyFile']
  /\ UNCHANGED <<database, lock, at, mishaps>>

\* lockfile.Acquire waits for its turn.
Acquire(p) ==
  /\ pc[p] = "wait" /\ lock = Absent /\ lock' = p /\ Advance(p, "open")
  /\ UNCHANGED <<keyFile, database, mem, at, mishaps>>

\* Mutant: any key opens a database.
KeyUnchecked(p) == TRUE
\* verifyEncryptedRecords: every record opens with the process's key.
KeyMatches(p) == secrets \subseteq {mem[p]}

\* Open: the key is checked before the database is opened for writing.
Open(p) ==
  /\ pc[p] = "open"
  /\ IF KeyMatches(p) THEN exists' = TRUE /\ Advance(p, "registry") /\ UNCHANGED <<mem, lock>>
     ELSE Exit(p) /\ UNCHANGED exists
  /\ UNCHANGED <<keyFile, foreign, registry, applied, schema, secrets, at, mishaps>>

\* migrateUnlocked: the key again, then the registry, which is created unless
\* the tables are someone else's.
Registry(p) ==
  /\ pc[p] = "registry"
  /\ IF ~KeyMatches(p) \/ (~registry /\ foreign)
     THEN Exit(p) /\ UNCHANGED <<registry, at>>
     ELSE /\ registry' = TRUE /\ Advance(p, "check") /\ at' = [at EXCEPT ![p] = 1]
          /\ UNCHANGED <<mem, lock>>
  /\ UNCHANGED <<keyFile, exists, foreign, applied, schema, secrets, mishaps>>

\* Its loop over the embedded migrations, and the lock released at its end.
Check(p) ==
  /\ pc[p] = "check"
  /\ \/ at[p] > Version[p] /\ Advance(p, "up") /\ lock' = Absent /\ UNCHANGED at
     \/ at[p] <= Version[p] /\ at[p] \in applied /\ at' = [at EXCEPT ![p] = @ + 1] /\ UNCHANGED <<pc, lock>>
     \/ at[p] <= Version[p] /\ at[p] \notin applied /\ Advance(p, "apply") /\ UNCHANGED <<at, lock>>
  /\ UNCHANGED <<keyFile, database, mem, mishaps>>

\* Mutant: script and registry row are separate.
ApplyUnrecorded(p) ==
  /\ pc[p] = "apply" /\ schema' = Append(schema, at[p])
  /\ \/ /\ applied' = applied \cup {at[p]} /\ Advance(p, "check") /\ UNCHANGED <<lock, mem, mishaps>>
     \/ Mishap /\ Exit(p) /\ UNCHANGED applied
  /\ UNCHANGED <<keyFile, exists, foreign, registry, secrets, at>>

\* applyMigration: the script, the foreign-key check and the registry row are one
\* transaction; a failure undoes it and ends the start.
Apply(p) ==
  /\ pc[p] = "apply"
  /\ \/ /\ at[p] \notin applied /\ applied' = applied \cup {at[p]}
        /\ schema' = Append(schema, at[p]) /\ Advance(p, "check") /\ UNCHANGED <<lock, mem, mishaps>>
     \/ ((at[p] \in applied /\ UNCHANGED mishaps) \/ Mishap) /\ Exit(p) /\ UNCHANGED <<applied, schema>>
  /\ UNCHANGED <<keyFile, exists, foreign, registry, secrets, at>>

\* A source or a profile is saved with its secrets sealed.
Encrypt(p) ==
  /\ pc[p] = "up" /\ secrets' = secrets \cup {mem[p]}
  /\ UNCHANGED <<keyFile, exists, foreign, registry, applied, schema, lock, pc, mem, at, mishaps>>

-----------------------------------------------------------------------------
\* The process stops or is killed.
Killed(p) ==
  /\ pc[p] # "down" /\ ((pc[p] = "up" /\ UNCHANGED mishaps) \/ Mishap) /\ Exit(p)
  /\ UNCHANGED <<keyFile, database, at>>

\* The operator, while nothing runs: the key file is lost, or one is put back.
ChangeKey ==
  /\ \A p \in Process : pc[p] = "down"
  /\ Mishap /\ keyFile' \in (Key \cup {Absent}) \ {keyFile}
  /\ UNCHANGED <<database, lock, pc, mem, at>>

StartUp(p) ==
  LoadExisting(p) \/ Stat(p) \/ LoadOrCreate(p) \/ Link(p) \/ Acquire(p) \/ Open(p) \/ Registry(p)
  \/ Check(p) \/ Apply(p)

InstallNext == ChangeKey \/ \E p \in Process : StartUp(p) \/ Encrypt(p) \/ Killed(p)

InstallSpec == InstallInit /\ [][InstallNext]_installVars

-----------------------------------------------------------------------------
InstallTypeOK ==
  /\ keyFile \in Key \cup {Absent}
  /\ exists \in BOOLEAN /\ foreign \in BOOLEAN /\ registry \in BOOLEAN
  /\ secrets \subseteq Key /\ applied \subseteq Nat
  /\ schema \in Seq(Nat) /\ lock \in Process \cup {Absent}
  /\ pc \in [Process -> Steps] /\ mem \in [Process -> Key \cup {Absent}]
  /\ \A p \in Process : /\ at[p] \in 1 .. Version[p] + 1
                        /\ pc[p] \notin {"down", "stat", "load"} => mem[p] \in Key
  /\ mishaps \in 0 .. MaxMishaps

\* createKey, LoadForDatabase and the key checks of Open: all records of the
\* database, and all that running processes will write, are sealed with one
\* key, however first starts overlap and whatever key file the operator left.
OneKey ==
  \A p \in Process : pc[p] = "up" =>
     /\ secrets \subseteq {mem[p]}
     /\ \A q \in Process : pc[q] = "up" => mem[q] = mem[p]

\* migrateUnlocked, applyMigration and the lock: the scripts have run once each
\* and in order, the registry says which, a store in use has every one of its own
\* release, no start fails because another one migrates, and a database of
\* something else is left alone.
MigratedInOrder ==
  /\ schema = [i \in 1 .. Len(schema) |-> i] /\ applied = 1 .. Len(schema)
  /\ foreign => ~registry /\ schema = <<>>
  /\ \A p \in Process : /\ pc[p] = "up" => 1 .. Version[p] \subseteq applied
                        /\ pc[p] = "apply" => at[p] \notin applied
=============================================================================
