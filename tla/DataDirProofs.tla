---------------------------- MODULE DataDirProofs ---------------------------
(***************************************************************************)
(* Proofs about the data directory: Installation, for any number of        *)
(* processes, releases, keys and faults, and Storage, for any number of    *)
(* profiles, jobs, cleaners and faults.  That all records have one key     *)
(* rests on what a process past createKey holds, and that the scripts run  *)
(* once and in order rests on the lock.  A cleaner acts on what it read    *)
(* earlier; it is safe because what it decides to remove has an owner that *)
(* can never come back.                                                    *)
(***************************************************************************)
EXTENDS Installation, Storage, TLAPS

-----------------------------------------------------------------------------
(* Installation. *)

Locked == {"open", "registry", "check", "apply"}
Loaded == Locked \cup {"wait", "up"}

InstallTypes == InstallTypeOK /\ at \in [Process -> Nat]

\* The migration lock is held by exactly the process between its acquisition and the
\* end of migrateUnlocked.
LockHeld == \A p \in Process : pc[p] \in Locked <=> lock = p

\* A process that has loaded its key has the key of the file, and one that has
\* passed the check of Open knows that the records have it too.
KeyHeld ==
  \A p \in Process :
    /\ pc[p] \in Loaded => mem[p] = keyFile /\ keyFile # Absent
    /\ pc[p] \in {"registry", "check", "apply", "up"} => secrets \subseteq {keyFile}

\* The scripts s have run in order, and done are their versions.
InOrder(s, done) == s = [i \in 1 .. Len(s) |-> i] /\ done = 1 .. Len(s)

\* What the loop of migrateUnlocked has seen applied.
Progress ==
  /\ foreign => ~registry /\ schema = <<>>
  /\ \A p \in Process :
       /\ pc[p] \in {"check", "apply"} => registry /\ 1 .. (at[p] - 1) \subseteq applied
       /\ pc[p] = "apply" => at[p] <= Version[p] /\ at[p] \notin applied
       /\ pc[p] = "up" => 1 .. Version[p] \subseteq applied

InstallInv == InstallTypes /\ LockHeld /\ KeyHeld /\ Progress /\ InOrder(schema, applied)

\* The scripts stay in order when the next one is executed.
LEMMA NextScript ==
  ASSUME NEW s \in Seq(Nat), NEW done, InOrder(s, done)
  PROVE  LET t == Append(s, Len(s) + 1) IN t \in Seq(Nat) /\ InOrder(t, done \cup {Len(s) + 1})
<1> DEFINE n == Len(s)  t == Append(s, n + 1)
<1>1. n \in Nat /\ t \in Seq(Nat) /\ Len(t) = n + 1
  OBVIOUS
<1>2. \A i \in 1 .. n : t[i] = s[i] /\ s[i] = i
  BY DEF InOrder
<1>3. t[n + 1] = n + 1
  OBVIOUS
<1>4. 1 .. n + 1 = (1 .. n) \cup {n + 1}
  BY <1>1
<1>5. t = [i \in 1 .. Len(t) |-> t[i]]
  BY <1>1
<1>6. \A i \in 1 .. Len(t) : t[i] = i
  BY Zenon, <1>1, <1>2, <1>3, <1>4
<1>7. done \cup {n + 1} = 1 .. Len(t)
  BY Zenon, <1>1, <1>4 DEF InOrder
<1> HIDE DEF t, n
<1>8. t = [i \in 1 .. Len(t) |-> i]
  BY Zenon, <1>5, <1>6
<1> QED
  BY Zenon, <1>1, <1>7, <1>8 DEF t, n, InOrder

\* The process ends wherever it is (Exit).
LEMMA ExitKeeps ==
  ASSUME InstallInv, NEW p \in Process, Exit(p), mishaps' \in 0 .. MaxMishaps,
         UNCHANGED <<keyFile, foreign, registry, applied, schema, secrets, at>>, exists' \in BOOLEAN
  PROVE  InstallInv'
<1> USE InstallationAssumption DEF InstallationAssumption, InstallInv, Exit, Advance
<1>1. /\ pc' = [pc EXCEPT ![p] = "down"] /\ mem' = [mem EXCEPT ![p] = Absent]
      /\ pc \in [Process -> Steps] /\ mem \in [Process -> Key \cup {Absent}]
  BY Zenon DEF InstallTypes, InstallTypeOK
<1>2. InstallTypes'
  BY Zenon, <1>1 DEF InstallTypes, InstallTypeOK, Steps
<1>3. LockHeld'
  BY Zenon, <1>1 DEF LockHeld, Locked, InstallTypes, InstallTypeOK
<1>4. KeyHeld' /\ Progress' /\ InOrder(schema, applied)'
  BY ZenonT(30), <1>1 DEF KeyHeld, Loaded, Locked, Progress
<1> QED
  BY Zenon, <1>2, <1>3, <1>4

\* Every step keeps the invariant.
LEMMA InstallInductive ==
  ASSUME InstallInv, [InstallNext]_installVars
  PROVE  InstallInv'
<1> USE DEF InstallInv, Advance, database
<1>n. Absent \notin Process /\ Absent \notin Key
  BY Zenon, InstallationAssumption DEF InstallationAssumption
<1>0. /\ pc \in [Process -> Steps] /\ mem \in [Process -> Key \cup {Absent}] /\ at \in [Process -> Nat]
      /\ keyFile \in Key \cup {Absent}
  BY Zenon DEF InstallTypes, InstallTypeOK
<1>a. \A q \in Process : pc[q] \notin {"down", "stat", "load"} => mem[q] \in Key
  BY Zenon DEF InstallTypes, InstallTypeOK
<1>b. \A q \in Process : Version[q] \in Nat /\ at[q] \in Nat /\ 1 <= at[q] /\ at[q] <= Version[q] + 1
  <2>1. \A q \in Process : Version[q] \in Nat /\ at[q] \in Nat
    BY Zenon, <1>0, InstallationAssumption DEF InstallationAssumption
  <2>2. \A q \in Process : at[q] \in 1 .. Version[q] + 1
    BY Zenon DEF InstallTypes, InstallTypeOK
  <2> QED
    BY <2>1, <2>2
<1>f. mishaps \in Nat /\ MaxMishaps \in Nat /\ mishaps <= MaxMishaps
  BY InstallationAssumption DEF InstallationAssumption, InstallTypes, InstallTypeOK
<1>g. UNCHANGED mishaps \/ Mishap => mishaps' \in 0 .. MaxMishaps
  BY <1>f DEF Mishap
<1>1. ASSUME NEW p \in Process, LoadExisting(p) PROVE InstallInv'
  <2>1. InstallTypes'
    BY ZenonT(30), <1>n, <1>0, <1>1 DEF LoadExisting, InstallTypes, InstallTypeOK, Steps
  <2>2. LockHeld'
    BY Zenon, <1>n, <1>0, <1>1 DEF LoadExisting, LockHeld, Locked
  <2>3. KeyHeld'
    BY ZenonT(30), <1>n, <1>0, <1>1 DEF LoadExisting, KeyHeld, Loaded, Locked
  <2>4. Progress' /\ InOrder(schema, applied)'
    BY ZenonT(30), <1>n, <1>0, <1>1 DEF LoadExisting, Progress
  <2> QED
    BY Zenon, <2>1, <2>2, <2>3, <2>4
<1>2. ASSUME NEW p \in Process, Stat(p) PROVE InstallInv'
  <2>1. CASE exists
    BY Zenon, <1>2, <2>1, ExitKeeps DEF Stat, InstallTypes, InstallTypeOK
  <2>2. CASE ~exists
    <3>1. InstallTypes'
      BY Zenon, <1>n, <1>0, <1>2, <2>2 DEF Stat, InstallTypes, InstallTypeOK, Steps
    <3>2. LockHeld'
      BY Zenon, <1>n, <1>0, <1>2, <2>2 DEF Stat, LockHeld, Locked
    <3>3. KeyHeld'
      BY Zenon, <1>n, <1>0, <1>2, <2>2 DEF Stat, KeyHeld, Loaded, Locked
    <3>4. Progress' /\ InOrder(schema, applied)'
      BY Zenon, <1>n, <1>0, <1>2, <2>2 DEF Stat, Progress
    <3> QED
      BY <3>1, <3>2, <3>3, <3>4
  <2> QED
    BY Zenon, <2>1, <2>2
<1>3. ASSUME NEW p \in Process, LoadOrCreate(p) PROVE InstallInv'
  <2>1. InstallTypes'
    <3>1. \E k \in Key : mem' = [mem EXCEPT ![p] = k]
      BY Zenon, <1>n, <1>0, <1>3 DEF LoadOrCreate, Unused
    <3>2. mem' \in [Process -> Key \cup {Absent}] /\ mem'[p] \in Key
      BY ZenonT(30), <1>n, <1>0, <3>1
    <3>3. pc' \in [Process -> Steps]
      BY Zenon, <1>n, <1>0, <1>3 DEF LoadOrCreate, Steps
    <3>4. \A q \in Process : pc'[q] \notin {"down", "stat", "load"} => mem'[q] \in Key
      BY Zenon, <1>n, <1>0, <1>a, <1>3, <3>1, <3>2 DEF LoadOrCreate
    <3> QED
      BY Zenon, <1>3, <3>2, <3>3, <3>4 DEF LoadOrCreate, InstallTypes, InstallTypeOK
  <2>2. LockHeld'
    BY Zenon, <1>n, <1>0, <1>3 DEF LoadOrCreate, Unused, LockHeld, Locked
  <2>3. KeyHeld'
    BY Zenon, <1>n, <1>0, <1>3 DEF LoadOrCreate, Unused, KeyHeld, Loaded, Locked
  <2>4. Progress' /\ InOrder(schema, applied)'
    BY Zenon, <1>n, <1>0, <1>3 DEF LoadOrCreate, Unused, Progress
  <2> QED
    BY <2>1, <2>2, <2>3, <2>4
<1>4. ASSUME NEW p \in Process, Link(p) PROVE InstallInv'
  <2>1. InstallTypes'
    BY Zenon, <1>n, <1>0, <1>4 DEF Link, InstallTypes, InstallTypeOK, Steps
  <2>2. LockHeld'
    BY Zenon, <1>n, <1>0, <1>4 DEF Link, LockHeld, Locked
  <2>3. KeyHeld'
    <3>1. keyFile' # Absent /\ (keyFile # Absent => keyFile' = keyFile) /\ mem'[p] = keyFile'
      BY Zenon, <1>n, <1>0, <1>a, <1>4 DEF Link
    <3>2. \A q \in Process : q # p => pc'[q] = pc[q] /\ mem'[q] = mem[q]
      BY Zenon, <1>n, <1>0, <1>4 DEF Link
    <3>3. pc'[p] = "wait" /\ secrets' = secrets
      BY Zenon, <1>n, <1>0, <1>4 DEF Link
    <3> QED
      BY Zenon, <3>1, <3>2, <3>3 DEF KeyHeld, Loaded, Locked
  <2>4. Progress' /\ InOrder(schema, applied)'
    BY Zenon, <1>n, <1>0, <1>4 DEF Link, Progress
  <2> QED
    BY <2>1, <2>2, <2>3, <2>4
<1>5. ASSUME NEW p \in Process, Acquire(p) PROVE InstallInv'
  <2>1. InstallTypes'
    BY Zenon, <1>n, <1>0, <1>5 DEF Acquire, InstallTypes, InstallTypeOK, Steps
  <2>2. LockHeld'
    BY Zenon, <1>n, <1>0, <1>5 DEF Acquire, LockHeld, Locked
  <2>3. KeyHeld'
    BY Zenon, <1>n, <1>0, <1>5 DEF Acquire, KeyHeld, Loaded, Locked
  <2>4. Progress' /\ InOrder(schema, applied)'
    BY Zenon, <1>n, <1>0, <1>5 DEF Acquire, Progress
  <2> QED
    BY <2>1, <2>2, <2>3, <2>4
<1>6. ASSUME NEW p \in Process, Open(p) PROVE InstallInv'
  <2>1. CASE KeyMatches(p)
    <3>1. InstallTypes'
      BY Zenon, <1>n, <1>0, <1>6, <2>1 DEF Open, KeyMatches, InstallTypes, InstallTypeOK, Steps
    <3>2. LockHeld'
      BY <1>n, <1>0, <1>6, <2>1 DEF Open, KeyMatches, LockHeld, Locked
    <3>3. KeyHeld'
      BY Zenon, <1>n, <1>0, <1>6, <2>1 DEF Open, KeyMatches, KeyHeld, Loaded, Locked
    <3>4. Progress' /\ InOrder(schema, applied)'
      BY Zenon, <1>n, <1>0, <1>6, <2>1 DEF Open, KeyMatches, Progress
    <3> QED
      BY <3>1, <3>2, <3>3, <3>4
  <2>2. CASE ~KeyMatches(p)
    BY Zenon, <1>6, <2>2, ExitKeeps DEF Open, InstallTypes, InstallTypeOK
  <2> QED
    BY Zenon, <2>1, <2>2
<1>7. ASSUME NEW p \in Process, Registry(p) PROVE InstallInv'
  <2>1. CASE ~KeyMatches(p) \/ (~registry /\ foreign)
    BY Zenon, <1>7, <2>1, ExitKeeps DEF Registry, InstallTypes, InstallTypeOK
  <2>2. CASE ~(~KeyMatches(p) \/ (~registry /\ foreign))
    <3>1. InstallTypes'
      <4>1. pc' \in [Process -> Steps]
        BY ZenonT(30), <1>n, <1>0, <1>7, <2>2 DEF Registry, Steps
      <4>2. at' \in [Process -> Nat] /\ \A q \in Process : at'[q] \in 1 .. Version[q] + 1
        BY <1>0, <1>b, <1>7, <2>2 DEF Registry
      <4>3. \A q \in Process : pc'[q] \notin {"down", "stat", "load"} => mem'[q] \in Key
        BY Zenon, <1>n, <1>0, <1>a, <1>7, <2>2 DEF Registry
      <4> QED
        BY Zenon, <1>7, <2>2, <4>1, <4>2, <4>3 DEF Registry, InstallTypes, InstallTypeOK
    <3>2. LockHeld'
      BY <1>n, <1>0, <1>7, <2>2 DEF Registry, KeyMatches, LockHeld, Locked
    <3>3. KeyHeld'
      BY Zenon, <1>n, <1>0, <1>7, <2>2 DEF Registry, KeyMatches, KeyHeld, Loaded, Locked
    <3>4. Progress' /\ InOrder(schema, applied)'
      <4>1. 1 .. (1 - 1) \subseteq applied
        OBVIOUS
      <4>2. pc' = [pc EXCEPT ![p] = "check"] /\ at' = [at EXCEPT ![p] = 1] /\ registry' /\ ~foreign
        BY Zenon, <1>7, <2>2 DEF Registry, Progress
      <4>3. UNCHANGED <<applied, schema, foreign>>
        BY Zenon, <1>7, <2>2 DEF Registry
      <4> QED
        BY Zenon, <1>0, <4>1, <4>2, <4>3 DEF Progress
    <3> QED
      BY <3>1, <3>2, <3>3, <3>4
  <2> QED
    BY Zenon, <2>1, <2>2
<1>8. ASSUME NEW p \in Process, Check(p) PROVE InstallInv'
  <2>1. InstallTypes'
    <3>1. pc' \in [Process -> Steps]
      BY Zenon, <1>n, <1>0, <1>8 DEF Check, Steps
    <3>2. at' \in [Process -> Nat] /\ \A q \in Process : at'[q] \in 1 .. Version[q] + 1
      BY <1>0, <1>b, <1>8 DEF Check
    <3>3. \A q \in Process : pc'[q] \notin {"down", "stat", "load"} => mem'[q] \in Key
      BY Zenon, <1>n, <1>0, <1>a, <1>8 DEF Check
    <3> QED
      BY Zenon, <1>8, <3>1, <3>2, <3>3 DEF Check, InstallTypes, InstallTypeOK
  <2>2. LockHeld'
    BY <1>n, <1>0, <1>8 DEF Check, LockHeld, Locked
  <2>3. KeyHeld'
    BY Zenon, <1>n, <1>0, <1>8 DEF Check, KeyHeld, Loaded, Locked
  <2>4. Progress' /\ InOrder(schema, applied)'
    <3>1. /\ pc[p] = "check" /\ registry /\ 1 .. (at[p] - 1) \subseteq applied
          /\ UNCHANGED <<foreign, schema, applied, registry>>
      BY Zenon, <1>8 DEF Check, Progress
    <3>2. CASE at[p] > Version[p] /\ Advance(p, "up") /\ UNCHANGED at
      <4>1. 1 .. Version[p] \subseteq applied
        BY <1>b, <3>1, <3>2
      <4> QED
        BY Zenon, <1>n, <1>0, <3>1, <3>2, <4>1 DEF Progress
    <3>3. CASE at[p] \in applied /\ at' = [at EXCEPT ![p] = @ + 1] /\ UNCHANGED pc
      <4>1. 1 .. (at'[p] - 1) \subseteq applied
        BY <1>0, <1>b, <3>1, <3>3
      <4> QED
        BY Zenon, <1>n, <1>0, <3>1, <3>3, <4>1 DEF Progress
    <3>4. CASE at[p] <= Version[p] /\ at[p] \notin applied /\ Advance(p, "apply") /\ UNCHANGED at
      BY Zenon, <1>n, <1>0, <3>1, <3>4 DEF Progress
    <3> QED
      BY Zenon, <1>8, <3>2, <3>3, <3>4 DEF Check
  <2> QED
    BY <2>1, <2>2, <2>3, <2>4
<1>9. ASSUME NEW p \in Process, Apply(p) PROVE InstallInv'
  <2>1. CASE /\ at[p] \notin applied /\ applied' = applied \cup {at[p]}
             /\ schema' = Append(schema, at[p]) /\ Advance(p, "check") /\ UNCHANGED <<lock, mem, mishaps>>
    <3>1. /\ pc' = [pc EXCEPT ![p] = "check"] /\ pc[p] = "apply"
          /\ UNCHANGED <<keyFile, exists, foreign, registry, secrets, at, lock, mem, mishaps>>
      BY Zenon, <1>9, <2>1 DEF Apply
    <3>2. schema \in Seq(Nat) /\ at[p] \in Nat /\ 1 <= at[p]
      BY Zenon, <1>b DEF InstallTypes, InstallTypeOK
    <3>3. applied = 1 .. Len(schema) /\ 1 .. (at[p] - 1) \subseteq applied
      BY Zenon, <3>1 DEF Progress, InOrder
    <3>4. at[p] = Len(schema) + 1
      <4> DEFINE n == Len(schema)
      <4>1. n \in Nat
        BY <3>2
      <4>2. at[p] \notin 1 .. n /\ (1 .. (at[p] - 1) \subseteq 1 .. n)
        BY Zenon, <2>1, <3>3
      <4> HIDE DEF n
      <4>3. at[p] = n + 1
        <5>1. n < at[p]
          BY <3>2, <4>1, <4>2
        <5>2. at[p] - 1 <= n
          <6>1. CASE at[p] = 1
            BY <4>1, <6>1
          <6>2. CASE at[p] # 1
            <7>1. at[p] - 1 \in 1 .. (at[p] - 1)
              BY <3>2, <6>2
            <7> QED
              BY <4>1, <4>2, <7>1
          <6> QED
            BY Zenon, <6>1, <6>2
        <5> QED
          BY <3>2, <4>1, <5>1, <5>2
      <4> QED
        BY Zenon, <4>3 DEF n
    <3>5. schema' \in Seq(Nat) /\ InOrder(schema', applied')
      BY Zenon, <2>1, <3>2, <3>4, NextScript
    <3>6. InstallTypes'
      BY Zenon, <1>n, <1>0, <2>1, <3>1, <3>2, <3>5 DEF InstallTypes, InstallTypeOK, Steps
    <3>7. LockHeld' /\ KeyHeld'
      BY Zenon, <1>n, <1>0, <3>1 DEF LockHeld, KeyHeld, Locked, Loaded
    <3>8. \A q \in Process : pc'[q] # "apply"
      BY Zenon, <1>n, <1>0, <3>1 DEF LockHeld, Locked
    <3>9. Progress'
      <4>1. ~foreign
        BY Zenon, <3>1 DEF Progress
      <4> QED
        BY Zenon, <1>n, <1>0, <2>1, <3>1, <3>8, <4>1 DEF Progress
    <3> QED
      BY Zenon, <3>5, <3>6, <3>7, <3>9
  <2>2. CASE Exit(p) /\ UNCHANGED <<applied, schema>> /\ mishaps' \in 0 .. MaxMishaps
    BY Zenon, <1>9, <2>2, ExitKeeps DEF Apply, InstallTypes, InstallTypeOK
  <2> QED
    BY <1>9, <1>g, <2>1, <2>2, Zenon DEF Apply
<1>10. ASSUME NEW p \in Process, Encrypt(p) PROVE InstallInv'
  <2>1. InstallTypes'
    <3>1. mem[p] \in Key
      BY Zenon, <1>a, <1>10 DEF Encrypt
    <3>2. secrets' \subseteq Key
      BY Zenon, <1>10, <3>1 DEF Encrypt, InstallTypes, InstallTypeOK
    <3> QED
      BY Zenon, <1>10, <3>2 DEF Encrypt, InstallTypes, InstallTypeOK
  <2>2. LockHeld'
    BY Zenon, <1>n, <1>0, <1>10 DEF Encrypt, LockHeld, Locked
  <2>3. KeyHeld'
    BY Zenon, <1>n, <1>0, <1>10 DEF Encrypt, KeyHeld, Loaded, Locked
  <2>4. Progress' /\ InOrder(schema, applied)'
    BY Zenon, <1>n, <1>0, <1>10 DEF Encrypt, Progress
  <2> QED
    BY <2>1, <2>2, <2>3, <2>4
<1>11. ASSUME NEW p \in Process, Killed(p) PROVE InstallInv'
  <2>1. exists' \in BOOLEAN /\ mishaps' \in 0 .. MaxMishaps
    BY Zenon, <1>11, <1>g DEF Killed, InstallTypes, InstallTypeOK
  <2> QED
    BY Zenon, <1>11, <2>1, ExitKeeps DEF Killed
<1>12. CASE ChangeKey
  <2>1. InstallTypes'
    <3>1. keyFile' \in Key \cup {Absent} /\ mishaps' \in 0 .. MaxMishaps
      BY Zenon, <1>g, <1>12 DEF ChangeKey
    <3> QED
      BY Zenon, <1>12, <3>1 DEF ChangeKey, InstallTypes, InstallTypeOK
  <2>2. LockHeld'
    BY Zenon, <1>n, <1>0, <1>12 DEF ChangeKey, Mishap, LockHeld, Locked
  <2>3. KeyHeld'
    BY Zenon, <1>n, <1>0, <1>12 DEF ChangeKey, Mishap, KeyHeld, Loaded, Locked
  <2>4. Progress' /\ InOrder(schema, applied)'
    BY Zenon, <1>n, <1>0, <1>12 DEF ChangeKey, Mishap, Progress
  <2> QED
    BY Zenon, <2>1, <2>2, <2>3, <2>4
<1>13. CASE UNCHANGED installVars
  BY Zenon, <1>13 DEF installVars, InstallTypes, InstallTypeOK, LockHeld, KeyHeld, Progress
<1> QED
  BY Zenon, <1>1, <1>2, <1>3, <1>4, <1>5, <1>6, <1>7, <1>8, <1>9, <1>10, <1>11, <1>12, <1>13
     DEF InstallNext, StartUp

\* What InstallInv says of the lock, the keys and the migration loops is true however
\* starts, crashes and the operator interleave.
THEOREM InstallationInvariantHolds == InstallSpec => []InstallInv
<1>1. InstallInit => InstallInv
  <2>1. InstallInit => InstallTypes
    <3> SUFFICES ASSUME InstallInit PROVE InstallTypes
      BY Zenon
    <3>1. /\ pc \in [Process -> Steps] /\ mem \in [Process -> Key \cup {Absent}]
          /\ at \in [Process -> Nat] /\ lock = Absent /\ keyFile = Absent
          /\ exists \in BOOLEAN /\ foreign \in BOOLEAN /\ registry \in BOOLEAN
      BY Zenon DEF InstallInit, Steps
    <3>2. secrets \subseteq Key /\ applied \subseteq Nat /\ schema \in Seq(Nat)
      BY DEF InstallInit
    <3>3. \A p \in Process : at[p] \in 1 .. Version[p] + 1 /\ pc[p] = "down"
      BY InstallationAssumption DEF InstallationAssumption, InstallInit
    <3>4. mishaps \in 0 .. MaxMishaps
      BY InstallationAssumption DEF InstallationAssumption, InstallInit
    <3> QED
      BY Zenon, <3>1, <3>2, <3>3, <3>4 DEF InstallTypes, InstallTypeOK
  <2>2. InstallInit => LockHeld /\ KeyHeld /\ Progress
    BY Zenon, InstallationAssumption DEF InstallationAssumption, InstallInit, LockHeld,
       KeyHeld, Progress, Locked, Loaded
  <2>3. InstallInit => InOrder(schema, applied)
    <3>1. <<>> = [i \in 1 .. Len(<<>>) |-> i] /\ {} = 1 .. Len(<<>>)
      OBVIOUS
    <3> QED
      BY Zenon, <3>1 DEF InstallInit, InOrder
  <2> QED
    BY Zenon, <2>1, <2>2, <2>3 DEF InstallInv
<1> QED
  BY <1>1, InstallInductive, PTL DEF InstallSpec

\* All records, and all that running processes will write, are sealed with one key:
\* createKey publishes one file, LoadForDatabase creates none beside a database, and
\* Open compares the records with the key before it lets the process on.
THEOREM RecordsHaveOneKey == InstallSpec => []OneKey
<1>1. InstallInv => OneKey
  BY Zenon DEF InstallInv, KeyHeld, Loaded, OneKey
<1> QED
  BY <1>1, InstallationInvariantHolds, PTL

\* The scripts run once each and in order, the registry says which, a store in use has
\* all of its release, and a foreign database is left alone: migrateUnlocked runs under
\* the lock and applyMigration records what it executed in the same transaction.
THEOREM MigrationsRunInOrder == InstallSpec => []MigratedInOrder
<1>1. InstallInv => MigratedInOrder
  BY Zenon DEF InstallInv, InOrder, Progress, MigratedInOrder
<1> QED
  BY <1>1, InstallationInvariantHolds, PTL

-----------------------------------------------------------------------------
(* Storage. *)

Pass == [pc : {"idle", "artifacts", "snapshot", "profiles"}, snapshot : SUBSET Profile,
         todo : SUBSET (Profile \cup Job), remove : Profile \cup Job \cup {Nothing}]

StorageTypes ==
  /\ profile \in [Profile -> {"new", "live", "deleted"}]
  /\ jobs \in [Job -> {"new", "queued", "running", "ended", "pruned"}]
  /\ pdir \in [Profile -> {"none", "bare", "torn", "marked", "partial", "host"}]
  /\ adir \in [Job -> {"none", "small", "large"}]
  /\ run \in [Job -> {"none", "clean", "mkdir", "marker", "write", "artifacts", "exec",
                       "cancelled", "limit"}]
  /\ browser \in [Job -> {"none", "starting", "up"}]
  /\ cleaner \in [Worker -> Pass] /\ faults \in Nat

\* A run has its row, a row has its profile, and a directory of ours had one.
Owners ==
  /\ \A j \in Job : /\ run[j] \notin {"none", "limit"} => jobs[j] = "running"
                    /\ jobs[j] \in {"queued", "running", "ended"} => profile[ProfileOf[j]] = "live"
  /\ \A i \in Profile : pdir[i] \notin {"none", "host"} => profile[i] # "new"

\* What a run has made is there.
Made ==
  \A j \in Job : /\ run[j] \in {"artifacts", "exec", "cancelled"} => pdir[ProfileOf[j]] = "marked"
                 /\ run[j] \in {"exec", "cancelled"} => adir[j] # "none"
                 /\ run[j] = "write" => pdir[ProfileOf[j]] # "host"

\* A browser belongs to a run that is under way or over; it has its profile's directory
\* while the profile exists and its diagnostics until the run's own limit.  A row that
\* is active after its run shows that finish has failed.
Browsers ==
  \A j \in Job :
    /\ browser[j] # "none" =>
         /\ run[j] \in {"exec", "cancelled", "limit", "none"}
         /\ jobs[j] \notin {"new", "queued"} /\ profile[ProfileOf[j]] # "new"
         /\ profile[ProfileOf[j]] = "live" => pdir[ProfileOf[j]] = "marked"
    /\ browser[j] # "none" /\ jobs[j] = "running" /\ run[j] # "none" => adir[j] # "none"
    /\ run[j] \in {"none", "limit"} /\ jobs[j] = "running" => faults > 0

\* A cleaner removes only what belongs to a job that has ended or to a profile that
\* is deleted; a run cleans before it makes anything.
Removals ==
  \A c \in Worker :
    /\ cleaner[c].pc = "artifacts" =>
         /\ cleaner[c].todo \subseteq Job
         /\ cleaner[c].remove # Nothing =>
              cleaner[c].remove \in Job /\ jobs[cleaner[c].remove] \in {"ended", "pruned"}
    /\ cleaner[c].pc = "profiles" =>
         /\ cleaner[c].todo \subseteq Profile
         /\ cleaner[c].remove # Nothing => /\ cleaner[c].remove \in Profile
                                        /\ profile[cleaner[c].remove] = "deleted"
                                        /\ pdir[cleaner[c].remove] # "host"
    /\ cleaner[c].pc \in {"idle", "snapshot"} => cleaner[c].remove = Nothing
    /\ c \in Job /\ cleaner[c].pc # "idle" => run[c] = "clean"

StorageInv == StorageTypes /\ Owners /\ Made /\ Browsers /\ Removals

\* A pass goes on with other fields.
LEMMA PassGoesOn ==
  ASSUME NEW r \in Pass, NEW todo \in SUBSET (Profile \cup Job), NEW remove \in Profile \cup Job \cup {Nothing}
  PROVE  /\ [r EXCEPT !.remove = remove] \in Pass
         /\ [r EXCEPT !.todo = todo, !.remove = remove] \in Pass
         /\ [r EXCEPT !.pc = "profiles", !.todo = todo] \in Pass
  BY Zenon DEF Pass

\* Every step keeps the invariant.
LEMMA StorageInductive ==
  ASSUME StorageInv, [StorageNext]_storageVars
  PROVE  StorageInv'
<1> USE DEF StorageInv, rows, Set
<1>0. /\ profile \in [Profile -> {"new", "live", "deleted"}]
      /\ jobs \in [Job -> {"new", "queued", "running", "ended", "pruned"}]
      /\ pdir \in [Profile -> {"none", "bare", "torn", "marked", "partial", "host"}]
      /\ adir \in [Job -> {"none", "small", "large"}]
      /\ run \in [Job -> {"none", "clean", "mkdir", "marker", "write", "artifacts", "exec",
                           "cancelled", "limit"}]
      /\ browser \in [Job -> {"none", "starting", "up"}] /\ cleaner \in [Worker -> Pass]
      /\ faults \in Nat /\ ProfileOf \in [Job -> Profile] /\ Nothing \notin Profile \cup Job
      /\ Profile \cap Job = {} /\ Cleaner \cap Job = {}
  BY Zenon, StorageAssumption DEF StorageAssumption, StorageTypes
<1>f. Fault => faults' \in Nat /\ faults' > 0
  BY <1>0 DEF Fault
<1>1. ASSUME NEW i \in Profile, CreateProfile(i) PROVE StorageInv'
  <2>1. StorageTypes'
    BY Zenon, <1>0, <1>1 DEF CreateProfile, StorageTypes, Pass, NoPass, Worker
  <2>2. Owners'
    BY ZenonT(30), <1>0, <1>1 DEF CreateProfile, Owners
  <2>3. Made'
    BY Zenon, <1>0, <1>1 DEF CreateProfile, Made
  <2>4. Browsers'
    BY SMTT(30), <1>0, <1>1 DEF CreateProfile, Browsers, Owners
  <2>5. Removals'
    BY Zenon, <1>0, <1>1 DEF CreateProfile, Removals, Worker
  <2> QED
    BY Zenon, <2>1, <2>2, <2>3, <2>4, <2>5
<1>2. ASSUME NEW i \in Profile, DeleteProfile(i) PROVE StorageInv'
  <2>1. StorageTypes'
    BY Zenon, <1>0, <1>2 DEF DeleteProfile, Unreferenced, StorageTypes, Pass, NoPass, Worker
  <2>2. Owners'
    BY ZenonT(30), <1>0, <1>2 DEF DeleteProfile, Unreferenced, Owners
  <2>3. Made'
    BY Zenon, <1>0, <1>2 DEF DeleteProfile, Unreferenced, Made
  <2>4. Browsers'
    BY SMTT(30), <1>0, <1>2 DEF DeleteProfile, Unreferenced, Browsers, Owners
  <2>5. Removals'
    BY Zenon, <1>0, <1>2 DEF DeleteProfile, Unreferenced, Removals, Worker
  <2> QED
    BY <2>1, <2>2, <2>3, <2>4, <2>5
<1>3. ASSUME NEW i \in Profile, RemoveMember(i) PROVE StorageInv'
  <2>1. StorageTypes'
    BY Zenon, <1>0, <1>3 DEF RemoveMember, StorageTypes, Pass, NoPass, Worker
  <2>2. Owners'
    BY ZenonT(30), <1>0, <1>3 DEF RemoveMember, Owners
  <2>3. Made'
    BY Zenon, <1>0, <1>3 DEF RemoveMember, Made
  <2>4. Browsers'
    BY SMTT(30), <1>0, <1>3 DEF RemoveMember, Browsers, Owners
  <2>5. Removals'
    BY Zenon, <1>0, <1>3 DEF RemoveMember, Removals, Worker
  <2> QED
    BY <2>1, <2>2, <2>3, <2>4, <2>5
<1>4. ASSUME NEW j \in Job, Enqueue(j) PROVE StorageInv'
  <2>1. StorageTypes'
    BY Zenon, <1>0, <1>4 DEF Enqueue, StorageTypes, Pass, NoPass, Worker
  <2>2. Owners'
    BY Zenon, <1>0, <1>4 DEF Enqueue, Owners
  <2>3. Made'
    BY Zenon, <1>0, <1>4 DEF Enqueue, Made
  <2>4. Browsers'
    BY SMTT(30), <1>0, <1>4 DEF Enqueue, Browsers, Owners
  <2>5. Removals'
    BY Zenon, <1>0, <1>4 DEF Enqueue, Removals, Worker
  <2> QED
    BY <2>1, <2>2, <2>3, <2>4, <2>5
<1>5. ASSUME NEW j \in Job, CancelQueued(j) PROVE StorageInv'
  <2>1. StorageTypes'
    BY Zenon, <1>0, <1>5 DEF CancelQueued, StorageTypes, Pass, NoPass, Worker
  <2>2. Owners'
    BY ZenonT(30), <1>0, <1>5 DEF CancelQueued, Owners
  <2>3. Made'
    BY Zenon, <1>0, <1>5 DEF CancelQueued, Made
  <2>4. Browsers'
    BY SMTT(30), <1>0, <1>5 DEF CancelQueued, Browsers, Owners
  <2>5. Removals'
    BY Zenon, <1>0, <1>5 DEF CancelQueued, Removals, Worker
  <2> QED
    BY <2>1, <2>2, <2>3, <2>4, <2>5
<1>6. ASSUME NEW j \in Job, Prune(j) PROVE StorageInv'
  <2>1. StorageTypes'
    BY Zenon, <1>0, <1>6 DEF Prune, StorageTypes, Pass, NoPass, Worker
  <2>2. Owners'
    BY Zenon, <1>0, <1>6 DEF Prune, Owners
  <2>3. Made'
    BY Zenon, <1>0, <1>6 DEF Prune, Made
  <2>4. Browsers'
    BY SMTT(30), <1>0, <1>6 DEF Prune, Browsers, Owners
  <2>5. Removals'
    BY Zenon, <1>0, <1>6 DEF Prune, Removals, Worker
  <2> QED
    BY <2>1, <2>2, <2>3, <2>4, <2>5
<1>7. ASSUME NEW j \in Job, ClaimJob(j) PROVE StorageInv'
  <2>1. StorageTypes'
    BY Zenon, <1>0, <1>7 DEF ClaimJob, StorageTypes, Pass, NoPass, Worker
  <2>2. Owners'
    BY ZenonT(30), <1>0, <1>7 DEF ClaimJob, Owners
  <2>3. Made'
    BY Zenon, <1>0, <1>7 DEF ClaimJob, Made
  <2>4. Browsers'
    BY SMTT(30), <1>0, <1>7 DEF ClaimJob, Browsers, Owners
  <2>5. Removals'
    BY <1>0, <1>7 DEF ClaimJob, Removals, Worker
  <2> QED
    BY <2>1, <2>2, <2>3, <2>4, <2>5
<1>8. ASSUME NEW j \in Job, MakeDirectory(j) PROVE StorageInv'
  <2>1. StorageTypes'
    BY Zenon, <1>0, <1>8 DEF MakeDirectory, StorageTypes, Pass, NoPass, Worker
  <2>2. Owners'
    BY ZenonT(30), <1>0, <1>8 DEF MakeDirectory, Owners
  <2>3. Made'
    BY Zenon, <1>0, <1>8 DEF MakeDirectory, Made
  <2>4. Browsers'
    BY SMTT(30), <1>0, <1>8 DEF MakeDirectory, Browsers, Owners
  <2>5. Removals'
    BY <1>0, <1>8 DEF MakeDirectory, Removals, Worker
  <2> QED
    BY <2>1, <2>2, <2>3, <2>4, <2>5
<1>9. ASSUME NEW j \in Job, CreateMarker(j) PROVE StorageInv'
  <2>1. StorageTypes'
    BY Zenon, <1>0, <1>9 DEF CreateMarker, StorageTypes, Pass, NoPass, Worker
  <2>2. Owners'
    BY ZenonT(30), <1>0, <1>9 DEF CreateMarker, Owners
  <2>3. Made'
    BY Zenon, <1>0, <1>9 DEF CreateMarker, Made
  <2>4. Browsers'
    BY SMTT(30), <1>0, <1>9 DEF CreateMarker, Browsers, Owners
  <2>5. Removals'
    BY <1>0, <1>9 DEF CreateMarker, Removals, Worker
  <2> QED
    BY <2>1, <2>2, <2>3, <2>4, <2>5
<1>10. ASSUME NEW j \in Job, WriteMarker(j) PROVE StorageInv'
  <2>1. StorageTypes'
    BY Zenon, <1>0, <1>10 DEF WriteMarker, StorageTypes, Pass, NoPass, Worker
  <2>2. Owners'
    BY ZenonT(30), <1>0, <1>10 DEF WriteMarker, Owners
  <2>3. Made'
    BY Zenon, <1>0, <1>10 DEF WriteMarker, Made
  <2>4. Browsers'
    BY SMTT(30), <1>0, <1>10 DEF WriteMarker, Browsers, Owners
  <2>5. Removals'
    BY <1>0, <1>10 DEF WriteMarker, Removals, Worker
  <2> QED
    BY <2>1, <2>2, <2>3, <2>4, <2>5
<1>11. ASSUME NEW j \in Job, MakeArtifacts(j) PROVE StorageInv'
  <2>1. StorageTypes'
    BY Zenon, <1>0, <1>11 DEF MakeArtifacts, StorageTypes, Pass, NoPass, Worker
  <2>2. Owners'
    BY ZenonT(30), <1>0, <1>11 DEF MakeArtifacts, Owners
  <2>3. Made'
    BY Zenon, <1>0, <1>11 DEF MakeArtifacts, Made
  <2>4. Browsers'
    BY SMTT(30), <1>0, <1>11 DEF MakeArtifacts, Browsers, Owners, Made
  <2>5. Removals'
    BY <1>0, <1>11 DEF MakeArtifacts, Removals, Worker
  <2> QED
    BY <2>1, <2>2, <2>3, <2>4, <2>5
<1>12. ASSUME NEW j \in Job, LaunchBrowser(j) PROVE StorageInv'
  <2>1. StorageTypes'
    BY Zenon, <1>0, <1>12 DEF LaunchBrowser, StorageTypes, Pass, NoPass, Worker
  <2>2. Owners'
    BY SMTT(30), <1>0, <1>12 DEF LaunchBrowser, Owners, Browsers
  <2>3. Made'
    BY Zenon, <1>0, <1>12 DEF LaunchBrowser, Made
  <2>4. Browsers'
    BY SMTT(30), <1>0, <1>12 DEF LaunchBrowser, Browsers, Owners
  <2>5. Removals'
    BY SMTT(30), <1>0, <1>12 DEF LaunchBrowser, Removals, Worker
  <2> QED
    BY <2>1, <2>2, <2>3, <2>4, <2>5
<1>13. ASSUME NEW j \in Job, WriteTooMuch(j) PROVE StorageInv'
  <2>1. StorageTypes'
    BY Zenon, <1>0, <1>13 DEF WriteTooMuch, StorageTypes, Pass, NoPass, Worker
  <2>2. Owners'
    BY Zenon, <1>0, <1>13 DEF WriteTooMuch, Owners
  <2>3. Made'
    BY Zenon, <1>0, <1>13 DEF WriteTooMuch, Made
  <2>4. Browsers'
    BY ZenonT(30), <1>0, <1>13 DEF WriteTooMuch, Browsers, Owners
  <2>5. Removals'
    BY Zenon, <1>0, <1>13 DEF WriteTooMuch, Removals, Worker
  <2> QED
    BY <2>1, <2>2, <2>3, <2>4, <2>5
<1>14. ASSUME NEW j \in Job, BrowserExits(j) PROVE StorageInv'
  <2>1. StorageTypes'
    BY Zenon, <1>0, <1>14 DEF BrowserExits, StorageTypes, Pass, NoPass, Worker
  <2>2. Owners'
    BY Zenon, <1>0, <1>14 DEF BrowserExits, Owners
  <2>3. Made'
    BY Zenon, <1>0, <1>14 DEF BrowserExits, Made
  <2>4. Browsers'
    BY ZenonT(30), <1>0, <1>14 DEF BrowserExits, Browsers, Owners
  <2>5. Removals'
    BY Zenon, <1>0, <1>14 DEF BrowserExits, Removals, Worker
  <2> QED
    BY <2>1, <2>2, <2>3, <2>4, <2>5
<1>15. ASSUME NEW j \in Job, MonitorArtifacts(j) PROVE StorageInv'
  <2>1. StorageTypes'
    BY Zenon, <1>0, <1>15 DEF MonitorArtifacts, StorageTypes, Pass, NoPass, Worker
  <2>2. Owners'
    BY ZenonT(30), <1>0, <1>15 DEF MonitorArtifacts, Owners
  <2>3. Made'
    BY Zenon, <1>0, <1>15 DEF MonitorArtifacts, Made
  <2>4. Browsers'
    BY SMTT(30), <1>0, <1>15 DEF MonitorArtifacts, Browsers, Owners
  <2>5. Removals'
    BY <1>0, <1>15 DEF MonitorArtifacts, Removals, Worker
  <2> QED
    BY <2>1, <2>2, <2>3, <2>4, <2>5
<1>16. ASSUME NEW j \in Job, FinishRun(j) PROVE StorageInv'
  <2>1. StorageTypes'
    <3>1. NoPass \in Pass /\ j \in Worker
      BY Zenon DEF NoPass, Pass, Worker
    <3>2. jobs' \in [Job -> {"new", "queued", "running", "ended", "pruned"}] /\ faults' \in Nat
      BY Zenon, <1>0, <1>f, <1>16 DEF FinishRun
    <3>3. /\ run' \in [Job -> {"none", "clean", "mkdir", "marker", "write", "artifacts", "exec",
                               "cancelled", "limit"}]
          /\ cleaner' \in [Worker -> Pass]
      BY Zenon, <1>0, <1>16, <3>1 DEF FinishRun
    <3> QED
      BY Zenon, <1>0, <1>16, <3>2, <3>3 DEF FinishRun, StorageTypes
  <2>2. Owners'
    BY SMTT(30), <1>0, <1>f, <1>16 DEF FinishRun, Fault, Owners
  <2>3. Made'
    BY Zenon, <1>0, <1>f, <1>16 DEF FinishRun, Fault, Made
  <2>4. Browsers'
    BY SMTT(30), <1>0, <1>f, <1>16 DEF FinishRun, Fault, Browsers, Owners
  <2>5. Removals'
    <3>1. cleaner'[j] = NoPass /\ \A c \in Worker : c # j => cleaner'[c] = cleaner[c] /\ run'[c] = run[c]
      BY <1>0, <1>f, <1>16 DEF FinishRun, Fault, Worker
    <3>2. \A k \in Job : jobs[k] \in {"ended", "pruned"} => jobs'[k] \in {"ended", "pruned"}
      BY Zenon, <1>0, <1>f, <1>16 DEF FinishRun, Fault
    <3>3. UNCHANGED <<profile, pdir>>
      BY Zenon, <1>16 DEF FinishRun, Fault
    <3> QED
      BY <3>1, <3>2, <3>3 DEF Removals, NoPass
  <2> QED
    BY <2>1, <2>2, <2>3, <2>4, <2>5
<1>17. ASSUME NEW j \in Job, EnforceArtifactLimit(j) PROVE StorageInv'
  <2>1. StorageTypes'
    BY Zenon, <1>0, <1>17 DEF EnforceArtifactLimit, StorageTypes, Pass, NoPass, Worker
  <2>2. Owners'
    BY ZenonT(30), <1>0, <1>17 DEF EnforceArtifactLimit, Owners
  <2>3. Made'
    BY Zenon, <1>0, <1>17 DEF EnforceArtifactLimit, Made
  <2>4. Browsers'
    BY SMTT(30), <1>0, <1>17 DEF EnforceArtifactLimit, Browsers, Owners
  <2>5. Removals'
    BY ZenonT(30), <1>0, <1>17 DEF EnforceArtifactLimit, Removals, Worker
  <2> QED
    BY <2>1, <2>2, <2>3, <2>4, <2>5
<1>18. ASSUME NEW c \in Cleaner, ListArtifacts(c) PROVE StorageInv'
  <2>1. StorageTypes'
    BY Zenon, <1>0, <1>18 DEF ListArtifacts, StorageTypes, Pass, NoPass, Worker
  <2>2. Owners'
    BY Zenon, <1>0, <1>18 DEF ListArtifacts, NoPass, Owners
  <2>3. Made'
    BY Zenon, <1>0, <1>18 DEF ListArtifacts, NoPass, Made
  <2>4. Browsers'
    BY ZenonT(30), <1>0, <1>18 DEF ListArtifacts, NoPass, Browsers, Owners
  <2>5. Removals'
    BY <1>0, <1>18 DEF ListArtifacts, NoPass, Removals, Worker
  <2> QED
    BY <2>1, <2>2, <2>3, <2>4, <2>5
<1>19. ASSUME NEW c \in Worker, CheckArtifacts(c) PROVE StorageInv'
  <2>1. StorageTypes'
    <3>1. PICK j \in cleaner[c].todo :
            cleaner' = [cleaner EXCEPT ![c] = [cleaner[c] EXCEPT !.todo = @ \ {j}, !.remove = IF ArtifactDecision(c, j) THEN j ELSE Nothing]]
      BY Zenon, <1>19 DEF CheckArtifacts
    <3>2. cleaner[c].todo \subseteq Job /\ cleaner[c] \in Pass /\ c \in Worker
      BY Zenon, <1>0, <1>19 DEF CheckArtifacts, Removals, Worker
    <3>3. [cleaner[c] EXCEPT !.todo = @ \ {j}, !.remove = IF ArtifactDecision(c, j) THEN j ELSE Nothing] \in Pass
      BY Zenon, <3>1, <3>2, PassGoesOn
    <3>4. cleaner' \in [Worker -> Pass]
      BY Zenon, <1>0, <3>1, <3>2, <3>3
    <3> QED
      BY Zenon, <1>19, <3>4 DEF CheckArtifacts, StorageTypes
  <2>2. Owners'
    BY Zenon, <1>0, <1>19 DEF CheckArtifacts, ArtifactDecision, Owners
  <2>3. Made'
    BY Zenon, <1>0, <1>19 DEF CheckArtifacts, ArtifactDecision, Made
  <2>4. Browsers'
    BY ZenonT(30), <1>0, <1>19 DEF CheckArtifacts, ArtifactDecision, Browsers, Owners
  <2>5. Removals'
    BY <1>0, <1>19 DEF CheckArtifacts, ArtifactDecision, Removals, Worker
  <2> QED
    BY Zenon, <2>1, <2>2, <2>3, <2>4, <2>5
<1>20. ASSUME NEW c \in Worker, RemoveArtifacts(c) PROVE StorageInv'
  <2>1. StorageTypes'
    <3>1. [cleaner[c] EXCEPT !.remove = Nothing] \in Pass
      BY Zenon, <1>0, PassGoesOn DEF Worker
    <3>2. cleaner' \in [Worker -> Pass]
      BY Zenon, <1>0, <1>20, <3>1 DEF RemoveArtifacts, Worker
    <3> QED
      BY Zenon, <1>0, <1>20, <3>2 DEF RemoveArtifacts, StorageTypes
  <2>2. Owners'
    BY Zenon, <1>0, <1>20 DEF RemoveArtifacts, Owners
  <2>3. Made'
    BY SMTT(30), <1>0, <1>20 DEF RemoveArtifacts, Made, Owners, Removals, Worker
  <2>4. Browsers'
    BY SMTT(30), <1>0, <1>20 DEF RemoveArtifacts, Browsers, Owners, Removals, Worker
  <2>5. Removals'
    BY SMTT(30), <1>0, <1>20 DEF RemoveArtifacts, Removals, Worker
  <2> QED
    BY <2>1, <2>2, <2>3, <2>4, <2>5
<1>21. ASSUME NEW c \in Worker, ListProfiles(c) PROVE StorageInv'
  <2>1. StorageTypes'
    BY Zenon, <1>0, <1>21 DEF ListProfiles, Live, StorageTypes, Pass, NoPass, Worker
  <2>2. Owners'
    BY Zenon, <1>0, <1>21 DEF ListProfiles, Live, NoPass, Owners
  <2>3. Made'
    BY Zenon, <1>0, <1>21 DEF ListProfiles, Live, NoPass, Made
  <2>4. Browsers'
    BY ZenonT(30), <1>0, <1>21 DEF ListProfiles, Live, NoPass, Browsers, Owners
  <2>5. Removals'
    BY ZenonT(30), <1>0, <1>21 DEF ListProfiles, Live, NoPass, Removals, Worker
  <2> QED
    BY <2>1, <2>2, <2>3, <2>4, <2>5
<1>22. ASSUME NEW c \in Worker, ReadProfilesDir(c) PROVE StorageInv'
  <2>1. StorageTypes'
    <3>1. [cleaner[c] EXCEPT !.pc = "profiles", !.todo = {i \in Profile : pdir[i] # "none"}] \in Pass
      BY Zenon, <1>0, PassGoesOn
    <3>2. cleaner' \in [Worker -> Pass]
      BY Zenon, <1>0, <1>22, <3>1 DEF ReadProfilesDir
    <3> QED
      BY Zenon, <1>22, <3>2 DEF ReadProfilesDir, StorageTypes
  <2>2. Owners'
    BY Zenon, <1>0, <1>22 DEF ReadProfilesDir, Owners
  <2>3. Made'
    BY Zenon, <1>0, <1>22 DEF ReadProfilesDir, Made
  <2>4. Browsers'
    BY ZenonT(30), <1>0, <1>22 DEF ReadProfilesDir, Browsers, Owners
  <2>5. Removals'
    BY <1>0, <1>22 DEF ReadProfilesDir, Removals, Worker
  <2> QED
    BY <2>1, <2>2, <2>3, <2>4, <2>5
<1>23. ASSUME NEW c \in Worker, CheckProfile(c) PROVE StorageInv'
  <2>1. StorageTypes'
    <3>1. PICK i \in cleaner[c].todo :
            cleaner' = [cleaner EXCEPT ![c] = [cleaner[c] EXCEPT !.todo = @ \ {i}, !.remove = IF Marked(i) /\ ~Retained(c, i) THEN i ELSE Nothing]]
      BY Zenon, <1>23 DEF CheckProfile
    <3>2. cleaner[c].todo \subseteq Profile /\ cleaner[c] \in Pass /\ c \in Worker
      BY Zenon, <1>0, <1>23 DEF CheckProfile, Removals, Worker
    <3>3. [cleaner[c] EXCEPT !.todo = @ \ {i}, !.remove = IF Marked(i) /\ ~Retained(c, i) THEN i ELSE Nothing] \in Pass
      BY Zenon, <3>1, <3>2, PassGoesOn
    <3>4. cleaner' \in [Worker -> Pass]
      BY Zenon, <1>0, <3>1, <3>2, <3>3
    <3> QED
      BY Zenon, <1>23, <3>4 DEF CheckProfile, StorageTypes
  <2>2. Owners'
    BY Zenon, <1>0, <1>23 DEF CheckProfile, Marked, Retained, Owners
  <2>3. Made'
    BY Zenon, <1>0, <1>23 DEF CheckProfile, Marked, Retained, Made
  <2>4. Browsers'
    BY ZenonT(30), <1>0, <1>23 DEF CheckProfile, Marked, Retained, Browsers, Owners
  <2>5. Removals'
    <3>1. PICK i \in cleaner[c].todo :
            cleaner' = [cleaner EXCEPT ![c] = [cleaner[c] EXCEPT !.todo = @ \ {i}, !.remove = IF Marked(i) /\ ~Retained(c, i) THEN i ELSE Nothing]]
      BY Zenon, <1>23 DEF CheckProfile
    <3>2. /\ cleaner[c].pc = "profiles" /\ i \in Profile /\ cleaner[c] \in Pass
          /\ (c \in Job => run[c] = "clean") /\ cleaner[c].todo \subseteq Profile
      BY Zenon, <1>0, <1>23 DEF CheckProfile, Removals
    <3>3. Marked(i) /\ ~Retained(c, i) => profile[i] = "deleted" /\ pdir[i] # "host"
      BY <1>0, <3>2 DEF Marked, Retained, Owners
    <3>4. /\ cleaner'[c].pc = "profiles" /\ cleaner'[c].todo \subseteq Profile
          /\ cleaner'[c].remove = IF Marked(i) /\ ~Retained(c, i) THEN i ELSE Nothing
      BY Zenon, <1>0, <3>1, <3>2 DEF Pass
    <3>5. \A d \in Worker : d # c => cleaner'[d] = cleaner[d]
      BY Zenon, <1>0, <3>1
    <3>6. UNCHANGED <<profile, jobs, pdir, run>>
      BY Zenon, <1>23 DEF CheckProfile
    <3> QED
      BY <3>2, <3>3, <3>4, <3>5, <3>6 DEF Removals
  <2> QED
    BY <2>1, <2>2, <2>3, <2>4, <2>5
<1>24. ASSUME NEW c \in Worker, RemoveMarker(c) PROVE StorageInv'
  <2>1. StorageTypes'
    BY Zenon, <1>0, <1>24 DEF RemoveMarker, StorageTypes, Pass, NoPass, Worker
  <2>2. Owners'
    BY ZenonT(30), <1>0, <1>24 DEF RemoveMarker, Owners
  <2>3. Made'
    BY ZenonT(30), <1>0, <1>24 DEF RemoveMarker, Made, Owners, Removals, Worker
  <2>4. Browsers'
    BY SMTT(30), <1>0, <1>24 DEF RemoveMarker, Browsers, Owners, Removals, Worker
  <2>5. Removals'
    BY Zenon, <1>0, <1>24 DEF RemoveMarker, Removals, Worker
  <2> QED
    BY <2>1, <2>2, <2>3, <2>4, <2>5
<1>25. ASSUME NEW c \in Worker, RemoveProfile(c) PROVE StorageInv'
  <2>1. StorageTypes'
    <3>1. [cleaner[c] EXCEPT !.remove = Nothing] \in Pass
      BY ZenonT(30), <1>0, PassGoesOn DEF Worker
    <3>2. cleaner' \in [Worker -> Pass]
      BY Zenon, <1>0, <1>25, <3>1 DEF RemoveProfile, Worker
    <3> QED
      BY ZenonT(30), <1>0, <1>25, <3>2 DEF RemoveProfile, StorageTypes
  <2>2. Owners'
    BY Zenon, <1>0, <1>25 DEF RemoveProfile, Owners
  <2>3. Made'
    BY ZenonT(30), <1>0, <1>25 DEF RemoveProfile, Made, Owners, Removals, Worker
  <2>4. Browsers'
    BY SMTT(30), <1>0, <1>25 DEF RemoveProfile, Browsers, Owners, Removals, Worker
  <2>5. Removals'
    BY <1>0, <1>25 DEF RemoveProfile, Removals, Worker
  <2> QED
    BY <2>1, <2>2, <2>3, <2>4, <2>5
<1>26. ASSUME NEW c \in Worker, EndCleaning(c) PROVE StorageInv'
  <2>1. StorageTypes'
    BY Zenon, <1>0, <1>26 DEF EndCleaning, StorageTypes, Pass, NoPass, Worker
  <2>2. Owners'
    BY <1>0, <1>26 DEF EndCleaning, Owners, Removals
  <2>3. Made'
    BY Zenon, <1>0, <1>26 DEF EndCleaning, NoPass, Made
  <2>4. Browsers'
    BY SMTT(30), <1>0, <1>26 DEF EndCleaning, Browsers, Owners, Removals, Worker
  <2>5. Removals'
    BY Zenon, <1>0, <1>26 DEF EndCleaning, NoPass, Removals, Worker
  <2> QED
    BY <2>1, <2>2, <2>3, <2>4, <2>5
<1>27. ASSUME NEW c \in Cleaner, PassFails(c) PROVE StorageInv'
  <2>1. StorageTypes'
    BY Zenon, <1>0, <1>f, <1>27 DEF PassFails, Fault, NoPass, Worker, StorageTypes, Pass, NoPass, Worker
  <2>2. Owners'
    BY Zenon, <1>0, <1>f, <1>27 DEF PassFails, Fault, NoPass, Worker, Owners
  <2>3. Made'
    BY Zenon, <1>0, <1>f, <1>27 DEF PassFails, Fault, NoPass, Worker, Made
  <2>4. Browsers'
    BY ZenonT(30), <1>0, <1>f, <1>27 DEF PassFails, NoPass, Worker, Fault, Browsers, Owners
  <2>5. Removals'
    BY Zenon, <1>0, <1>f, <1>27 DEF PassFails, Fault, NoPass, Worker, Removals, Worker
  <2> QED
    BY <2>1, <2>2, <2>3, <2>4, <2>5
<1>28. CASE Crash
  <2>1. StorageTypes'
    BY Zenon, <1>0, <1>f, <1>28 DEF Crash, Fault, NoPass, StorageTypes, Pass, NoPass, Worker
  <2>2. Owners'
    BY Zenon, <1>0, <1>f, <1>28 DEF Crash, Fault, NoPass, Owners
  <2>3. Made'
    BY Zenon, <1>0, <1>f, <1>28 DEF Crash, Fault, NoPass, Made
  <2>4. Browsers'
    BY SMTT(30), <1>0, <1>f, <1>28 DEF Crash, NoPass, Fault, Browsers, Owners
  <2>5. Removals'
    BY Zenon, <1>0, <1>f, <1>28 DEF Crash, Fault, NoPass, Removals, Worker
  <2> QED
    BY Zenon, <2>1, <2>2, <2>3, <2>4, <2>5
<1>29. CASE UNCHANGED storageVars
  BY ZenonT(30), <1>29 DEF storageVars, StorageTypes, Owners, Made, Browsers, Removals
<1> QED
  BY Zenon, <1>1, <1>2, <1>3, <1>4, <1>5, <1>6, <1>7, <1>8, <1>9, <1>10, <1>11, <1>12, <1>13, <1>14, <1>15,
     <1>16, <1>17, <1>18, <1>19, <1>20, <1>21, <1>22, <1>23, <1>24, <1>25, <1>26, <1>27, <1>28, <1>29
     DEF StorageNext, Run, CleanArtifacts, CleanProfiles, Worker

\* Whatever cleaners, runs, deletions and crashes do at once, a removal under way has
\* no owner any more.
THEOREM StorageInvariantHolds == StorageSpec => []StorageInv
<1>1. StorageInit => StorageInv
  <2> SUFFICES ASSUME StorageInit PROVE StorageInv
    OBVIOUS
  <2>1. StorageTypes
    <3>1. NoPass \in Pass
      BY Zenon DEF NoPass, Pass
    <3>2. pdir \in [Profile -> {"none", "bare", "torn", "marked", "partial", "host"}]
      BY Zenon, StorageAssumption DEF StorageAssumption, StorageInit
    <3>3. faults \in Nat
      BY DEF StorageInit
    <3> QED
      BY ZenonT(30), <3>1, <3>2, <3>3 DEF StorageInit, StorageTypes
  <2>2. Owners /\ Made /\ Browsers
    BY Zenon, StorageAssumption DEF StorageAssumption, StorageInit, Owners, Made, Browsers
  <2>3. Removals
    BY Zenon DEF StorageInit, NoPass, Removals
  <2> QED
    BY Zenon, <2>1, <2>2, <2>3 DEF StorageInv
<1> QED
  BY <1>1, StorageInductive, PTL DEF StorageSpec

\* While a job's row is active its browser keeps its profile and its diagnostics
\* directory: cleanupArtifacts asks for the row after it listed the entry, and
\* cleanupProfileEntries removes only what a deleted profile left.  Browsers that
\* outlive their rows, runs whose finish failed and crashes are all among the states.
THEOREM RunsKeepDirectories == StorageSpec => []RunsKeepTheirDirectories
<1>1. StorageInv => RunsKeepTheirDirectories
  BY SMT DEF StorageInv, Owners, Browsers, RunsKeepTheirDirectories
<1> QED
  BY <1>1, StorageInvariantHolds, PTL

\* Of a profile that exists no file is removed, the marker included, nor is a directory
\* the program did not mark, however old the rows are that a cleaner has read.
THEOREM OwnedAndForeignStay == StorageSpec => OwnedAndForeignAreKept
<1>1. StorageInv /\ [StorageNext]_storageVars =>
        [\A i \in Profile :
           /\ pdir[i] = "marked" /\ profile[i] = "live" => pdir'[i] = "marked"
           /\ pdir[i] = "host" => pdir'[i] = "host"]_storageVars
  <2> SUFFICES ASSUME StorageInv, StorageNext, NEW i \in Profile
               PROVE  /\ pdir[i] = "marked" /\ profile[i] = "live" => pdir'[i] = "marked"
                      /\ pdir[i] = "host" => pdir'[i] = "host"
    BY Zenon DEF storageVars
  <2>0. pdir \in [Profile -> {"none", "bare", "torn", "marked", "partial", "host"}] /\ ProfileOf \in [Job -> Profile]
    BY Zenon, StorageAssumption DEF StorageAssumption, StorageInv, StorageTypes
  <2>1. ASSUME NEW j \in Job, MakeDirectory(j) \/ CreateMarker(j) \/ WriteMarker(j) \/ LaunchBrowser(j)
        PROVE  /\ pdir[i] = "marked" => pdir'[i] = "marked"
               /\ pdir[i] = "host" => pdir'[i] = "host"
    BY Zenon, <2>0, <2>1 DEF MakeDirectory, CreateMarker, WriteMarker, LaunchBrowser, StorageInv, Made
  <2>2. ASSUME NEW c \in Worker, RemoveMarker(c) \/ RemoveProfile(c)
        PROVE  (pdir[i] = "marked" /\ profile[i] = "live") \/ pdir[i] = "host" => pdir'[i] = pdir[i]
    BY SMTT(30), <2>0, <2>2 DEF RemoveMarker, RemoveProfile, StorageInv, Removals
  <2>3. \/ UNCHANGED pdir
        \/ \E j \in Job : MakeDirectory(j) \/ CreateMarker(j) \/ WriteMarker(j) \/ LaunchBrowser(j)
        \/ \E c \in Worker : RemoveMarker(c) \/ RemoveProfile(c)
    BY Zenon DEF StorageNext, Run, CleanArtifacts, CleanProfiles, Worker, rows, CreateProfile, DeleteProfile, RemoveMember,
           Enqueue, CancelQueued, Prune, ClaimJob, MakeArtifacts, WriteTooMuch, BrowserExits, MonitorArtifacts, FinishRun,
           EnforceArtifactLimit, ListArtifacts, CheckArtifacts, RemoveArtifacts, ListProfiles,
           ReadProfilesDir, CheckProfile, EndCleaning, PassFails, Crash
  <2> QED
    BY Zenon, <2>1, <2>2, <2>3
<1> QED
  BY <1>1, StorageInvariantHolds, PTL DEF StorageSpec, OwnedAndForeignAreKept
=============================================================================
