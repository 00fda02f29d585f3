---------------------------- MODULE Migrate_proofs ----------------------------
(***************************************************************************)
(* Theorems about Migrate, for any number of processes, directories, files *)
(* and failures.                                                           *)
(***************************************************************************)
EXTENDS Migrate, WellFoundedInduction, TLAPS

-------------------------------------------------------------------------------
(* The next file in the order of names *)

\* A non-empty set of ranks has a least one, and CHOOSE finds it.
LEMMA LeastRank ==
    ASSUME NEW T \in SUBSET Nat, T # {}
    PROVE  LET f == CHOOSE f \in T : \A g \in T : f <= g
           IN  f \in T /\ \A g \in T : f <= g
<1> DEFINE less == {ss \in Nat \X Nat : ss[1] < ss[2]}
<1>1. IsWellFoundedOn(less, Nat)
  BY NatLessThanWellFounded DEF OpToRel
<1>2. \E x \in T : \A y \in T : <<y, x>> \notin less
  BY <1>1, WFMin
<1>3. PICK x \in T : \A y \in T : <<y, x>> \notin less
  BY <1>2
<1>4. \A y \in T : x <= y
  <2> SUFFICES ASSUME NEW y \in T, ~(x <= y) PROVE FALSE
    OBVIOUS
  <2>1. <<y, x>> \in Nat \X Nat /\ y < x
    OBVIOUS
  <2>2. <<y, x>> \in less
    BY <2>1
  <2> QED
    BY <1>3, <2>2
<1> QED
  BY <1>4, Zenon

LEMMA RestIsRanks ==
    ASSUME NEW p \in Processes
    PROVE  Rest(p) \subseteq Directory[p] /\ Directory[p] \subseteq Nat \ {0}
BY DirectoryAssumption DEF Rest

LEMMA FilesAreRanks == Files \subseteq Nat \ {0}
BY DirectoryAssumption DEF Files

\* NextFile ends p, or takes the least of the files after the one p was at.
LEMMA NextFileTakesLeast ==
    ASSUME TypeOK, NEW p \in Processes, NextFile(p)
    PROVE  \/ Rest(p) = {} /\ Goto(p, "done") /\ UNCHANGED file
           \/ \E f \in Rest(p) :
                /\ \A g \in Rest(p) : f <= g
                /\ file' = [file EXCEPT ![p] = f]
                /\ Goto(p, "check")
<1>1. CASE Rest(p) = {}
  BY <1>1 DEF NextFile
<1>2. CASE Rest(p) # {}
  <2> DEFINE least == CHOOSE f \in Rest(p) : \A g \in Rest(p) : f <= g
  <2>1. least \in Rest(p) /\ \A g \in Rest(p) : least <= g
    BY <1>2, RestIsRanks, LeastRank
  <2>2. file' = [file EXCEPT ![p] = least] /\ Goto(p, "check")
    BY <1>2 DEF NextFile
  <2> QED
    BY <2>1, <2>2
<1> QED
  BY <1>1, <1>2

-------------------------------------------------------------------------------
(* Type correctness *)

LEMMA InitType == Init => TypeOK
<1> SUFFICES ASSUME Init PROVE TypeOK
  OBVIOUS
<1>1. failures \in 0 .. MaxFailures
  BY FailuresAssumption DEF Init
<1>2. applied \in [Files -> Nat] /\ file \in [Processes -> Files \cup {0}]
  BY DEF Init
<1> QED
  BY <1>1, <1>2 DEF Init, TypeOK, Working

LEMMA StepType == TypeOK /\ [Next]_vars => TypeOK'
<1> SUFFICES ASSUME TypeOK, [Next]_vars PROVE TypeOK'
  OBVIOUS
<1> USE DirectoryAssumption, FailuresAssumption, RestIsRanks DEF TypeOK, Working
<1>1. ASSUME NEW p \in Processes, CreateTable(p) PROVE TypeOK'
  BY <1>1 DEF CreateTable
<1>2. ASSUME NEW p \in Processes, NextFile(p) PROVE TypeOK'
  <2>1. CASE Goto(p, "done") /\ UNCHANGED file
    BY <1>2, <2>1 DEF NextFile, Goto
  <2>2. CASE \E f \in Rest(p) : file' = [file EXCEPT ![p] = f] /\ Goto(p, "check")
    <3>1. PICK f \in Rest(p) : file' = [file EXCEPT ![p] = f] /\ Goto(p, "check")
      BY <2>2
    <3>2. f \in Directory[p] /\ f # 0 /\ f \in Files
      BY RestIsRanks DEF Files
    <3> QED
      BY <1>2, <3>1, <3>2 DEF NextFile, Goto
  <2> QED
    BY <1>2, <2>1, <2>2, NextFileTakesLeast
<1>3. ASSUME NEW p \in Processes, CheckApplied(p) PROVE TypeOK'
  BY <1>3 DEF CheckApplied, Goto
<1>4. ASSUME NEW p \in Processes, Execute(p) PROVE TypeOK'
  BY <1>4 DEF Execute, Goto, Exit
<1>5. ASSUME NEW p \in Processes, Insert(p) PROVE TypeOK'
  BY <1>5 DEF Insert, Goto, Exit
<1>6. ASSUME NEW p \in Processes, pc[p] = "commit",
             applied' = [applied EXCEPT ![file[p]] = @ + 1],
             record' = record \cup {file[p]}
      PROVE  applied' \in [Files -> Nat] /\ record' \subseteq Files
  <2>1. file[p] \in Files
    BY <1>6 DEF Files
  <2> QED
    BY <1>6, <2>1
<1>7. ASSUME NEW p \in Processes, Commit(p) PROVE TypeOK'
  BY <1>6, <1>7 DEF Commit, Goto
<1>8. ASSUME NEW p \in Processes, CommitUnanswered(p) PROVE TypeOK'
  <2>1. applied' \in [Files -> Nat] /\ record' \subseteq Files
    BY <1>6, <1>8 DEF CommitUnanswered
  <2>2. failures' \in 0 .. MaxFailures
    BY <1>8 DEF CommitUnanswered
  <2> QED
    BY <1>8, <2>1, <2>2 DEF CommitUnanswered, Goto, Exit
<1>9. ASSUME NEW p \in Processes, Fail(p) PROVE TypeOK'
  BY <1>9 DEF Fail, Goto, Exit
<1>10. ASSUME NEW p \in Processes, Restart(p) PROVE TypeOK'
  BY <1>10 DEF Restart, Goto
<1>11. CASE UNCHANGED vars
  BY <1>11 DEF vars
<1> QED
  BY <1>1, <1>2, <1>3, <1>4, <1>5, <1>7, <1>8, <1>9, <1>10, <1>11 DEF Next, Advance

\* A process is always at a file of its directory, and past the creation of
\* schema_migrations the table exists.
THEOREM MigrationsTypeCorrect == Spec => []TypeOK
<1> QED
  BY InitType, StepType, PTL DEF Spec

-------------------------------------------------------------------------------
(* Every file takes effect once *)

\* The INSERT of filename, the primary key, waits for whoever has recorded the
\* file and not ended, and fails once the file is recorded: past it, the file
\* is not recorded and no other transaction is past it.
Owned ==
    \A p \in Processes : pc[p] = "commit" =>
        /\ file[p] \notin record
        /\ \A q \in Processes : pc[q] = "commit" /\ file[q] = file[p] => q = p

OnceInv == TypeOK /\ Owned /\ AppliedOnce

LEMMA InitOnce == Init => OnceInv
BY InitType DEF Init, OnceInv, Owned, AppliedOnce

\* A step that commits nothing and brings no process to its COMMIT.
LEMMA OwnedKept ==
    ASSUME OnceInv, UNCHANGED <<record, applied>>,
           \A p \in Processes : pc'[p] = "commit" => pc[p] = "commit" /\ file'[p] = file[p]
    PROVE  Owned' /\ AppliedOnce'
BY DEF OnceInv, Owned, AppliedOnce

\* A COMMIT that takes effect, whether its answer arrives or not.
LEMMA CommitOnce ==
    ASSUME OnceInv, NEW p \in Processes, NEW where \in {"next", "failed"},
           pc[p] = "commit",
           applied' = [applied EXCEPT ![file[p]] = @ + 1],
           record' = record \cup {file[p]},
           Goto(p, where),
           UNCHANGED file
    PROVE  Owned' /\ AppliedOnce'
<1> USE DEF OnceInv, TypeOK
<1>1. file[p] \in Files /\ file[p] \notin record /\ applied[file[p]] = 0
  <2>1. file[p] \in Files
    BY DEF Files, Working
  <2> QED
    BY <2>1 DEF Owned, AppliedOnce
<1>2. AppliedOnce'
  BY <1>1 DEF AppliedOnce
<1>3. \A q \in Processes : pc'[q] = "commit" => q # p /\ pc[q] = "commit"
  BY DEF Goto
<1>4. Owned'
  BY <1>3 DEF Owned
<1> QED
  BY <1>2, <1>4

LEMMA StepOnce == OnceInv /\ [Next]_vars => OnceInv'
<1> SUFFICES ASSUME OnceInv, [Next]_vars PROVE Owned' /\ AppliedOnce'
  BY StepType DEF OnceInv
<1> USE DEF OnceInv, TypeOK
<1>1. ASSUME NEW p \in Processes, CreateTable(p) PROVE Owned' /\ AppliedOnce'
  BY <1>1, OwnedKept DEF CreateTable
<1>2. ASSUME NEW p \in Processes, NextFile(p) PROVE Owned' /\ AppliedOnce'
  <2>1. \A q \in Processes : pc'[q] = "commit" => pc[q] = "commit" /\ file'[q] = file[q]
    <3>1. CASE Rest(p) = {}
      BY <1>2, <3>1 DEF NextFile, Goto
    <3>2. CASE Rest(p) # {}
      <4>1. PICK f : file' = [file EXCEPT ![p] = f] /\ Goto(p, "check")
        BY <1>2, <3>2 DEF NextFile
      <4> QED
        BY <4>1 DEF Goto
    <3> QED
      BY <3>1, <3>2
  <2> QED
    BY <1>2, <2>1, OwnedKept DEF NextFile
<1>3. ASSUME NEW p \in Processes, CheckApplied(p) PROVE Owned' /\ AppliedOnce'
  BY <1>3, OwnedKept DEF CheckApplied, Goto
<1>4. ASSUME NEW p \in Processes, Execute(p) PROVE Owned' /\ AppliedOnce'
  BY <1>4, OwnedKept DEF Execute, Goto, Exit
<1>5. ASSUME NEW p \in Processes, Insert(p) PROVE Owned' /\ AppliedOnce'
  <2>1. CASE file[p] \in record
    BY <1>5, <2>1, OwnedKept DEF Insert, Goto, Exit
  <2>2. CASE file[p] \notin record
    <3>1. \A q \in Processes : pc[q] = "commit" => file[q] # file[p]
      BY <1>5 DEF Insert, Recording
    <3>2. UNCHANGED <<record, applied, file>> /\ Goto(p, "commit")
      BY <1>5, <2>2 DEF Insert
    <3>3. Owned'
      BY <2>2, <3>1, <3>2 DEF Owned, Goto
    <3> QED
      BY <3>2, <3>3 DEF AppliedOnce
  <2> QED
    BY <2>1, <2>2
<1>6. ASSUME NEW p \in Processes, Commit(p) PROVE Owned' /\ AppliedOnce'
  BY <1>6, CommitOnce DEF Commit
<1>7. ASSUME NEW p \in Processes, CommitUnanswered(p) PROVE Owned' /\ AppliedOnce'
  BY <1>7, CommitOnce DEF CommitUnanswered, Exit
<1>8. ASSUME NEW p \in Processes, Fail(p) PROVE Owned' /\ AppliedOnce'
  BY <1>8, OwnedKept DEF Fail, Goto, Exit
<1>9. ASSUME NEW p \in Processes, Restart(p) PROVE Owned' /\ AppliedOnce'
  BY <1>9, OwnedKept DEF Restart, Goto
<1>10. CASE UNCHANGED vars
  BY <1>10, OwnedKept DEF vars
<1> QED
  BY <1>1, <1>2, <1>3, <1>4, <1>5, <1>6, <1>7, <1>8, <1>9, <1>10 DEF Next, Advance

\* However runs of the program race, fail and start again, the SQL of a file
\* takes effect at most once, and exactly when the file is recorded.
THEOREM MigrationsAppliedOnce == Spec => []AppliedOnce
<1>1. OnceInv => AppliedOnce
  BY DEF OnceInv
<1> QED
  BY InitOnce, StepOnce, <1>1, PTL DEF Spec

-------------------------------------------------------------------------------
(* Files take effect in order *)

\* A run that starts has passed no file.
AtStart == \A p \in Processes : pc[p] = "create" => file[p] = 0

OrderInv == TypeOK /\ AtStart /\ InOrderForEach /\ InOrder

LEMMA InitOrder == Init => OrderInv
<1> SUFFICES ASSUME Init PROVE OrderInv
  OBVIOUS
<1>1. AtStart
  BY DEF Init, AtStart
<1>2. InOrderForEach
  BY DEF Init, InOrderForEach, Behind, Working
<1>3. InOrder
  BY DEF Init, InOrder
<1> QED
  BY InitType, <1>1, <1>2, <1>3 DEF OrderInv

\* What is recorded stays recorded, so a process keeps its order if no file
\* falls behind it that is not recorded now.
LEMMA OrderKept ==
    ASSUME OrderInv, record \subseteq record',
           \A p \in Processes : Behind(p)' \subseteq Behind(p) \cup record'
    PROVE  InOrderForEach'
BY DEF OrderInv, InOrderForEach

\* A step that records nothing.
LEMMA RecordKept ==
    ASSUME OrderInv, UNCHANGED record
    PROVE  InOrder'
BY DEF OrderInv, InOrder

\* When a file is recorded, the files before it in its directory are; if every
\* release extends the others, those are all files before it.
LEMMA CommitInOrder ==
    ASSUME OrderInv, NEW p \in Processes, pc[p] = "commit",
           record' = record \cup {file[p]}
    PROVE  InOrder'
<1> SUFFICES ASSUME ReleasesExtend, NEW f \in record', NEW g \in Files, g < f
             PROVE  g \in record'
  BY DEF InOrder
<1>1. CASE f \in record
  BY <1>1 DEF OrderInv, InOrder
<1>2. CASE f = file[p]
  <2>1. f \in Directory[p]
    BY <1>2 DEF OrderInv, TypeOK, Working
  <2>2. PICK q \in Processes : g \in Directory[q]
    BY DEF Files
  <2>3. g \in Directory[p]
    BY <2>1, <2>2 DEF ReleasesExtend
  <2>4. g \in Behind(p)
    BY <1>2, <2>3 DEF Behind, Working
  <2> QED
    BY <2>4 DEF OrderInv, InOrderForEach
<1> QED
  BY <1>1, <1>2

\* A COMMIT that takes effect, whether its answer arrives or not.
LEMMA CommitKeepsOrder ==
    ASSUME OrderInv, NEW p \in Processes, NEW where \in {"next", "failed"},
           pc[p] = "commit", record' = record \cup {file[p]},
           Goto(p, where), UNCHANGED file
    PROVE  InOrderForEach' /\ InOrder' /\ AtStart'
<1>1. \A q \in Processes : Behind(q)' \subseteq Behind(q) \cup record'
  <2> SUFFICES ASSUME NEW q \in Processes PROVE Behind(q)' \subseteq Behind(q) \cup record'
    OBVIOUS
  <2>1. CASE q # p
    BY <2>1 DEF OrderInv, TypeOK, Goto, Behind
  <2>2. CASE q = p
    <3> SUFFICES ASSUME NEW f \in Directory[p], f <= file[p] PROVE f \in Behind(p) \cup record'
      BY <2>2 DEF OrderInv, TypeOK, Goto, Behind, Working
    <3>1. f \in Nat /\ file[p] \in Nat
      BY RestIsRanks, FilesAreRanks DEF OrderInv, TypeOK
    <3>2. f < file[p] \/ f = file[p]
      BY <3>1
    <3> QED
      BY <3>2 DEF Behind, Working
  <2> QED
    BY <2>1, <2>2
<1>2. AtStart'
  BY DEF OrderInv, TypeOK, AtStart, Goto
<1> QED
  BY <1>1, <1>2, OrderKept, CommitInOrder

LEMMA StepOrder == OrderInv /\ [Next]_vars => OrderInv'
<1> SUFFICES ASSUME OrderInv, [Next]_vars
             PROVE  InOrderForEach' /\ InOrder' /\ AtStart'
  BY StepType DEF OrderInv
<1> USE DEF TypeOK, Working
<1>1. ASSUME NEW p \in Processes, CreateTable(p)
      PROVE  InOrderForEach' /\ InOrder' /\ AtStart'
  <2>1. \A q \in Processes : Behind(q)' \subseteq Behind(q)
    <3> SUFFICES ASSUME NEW q \in Processes, NEW f \in Behind(q)' PROVE f \in Behind(q)
      OBVIOUS
    <3>1. CASE q # p
      BY <1>1, <3>1 DEF CreateTable, OrderInv, Behind
    <3>2. CASE q = p
      <4>1. pc'[p] = "next" /\ file'[p] = 0
        BY <1>1 DEF CreateTable, OrderInv, AtStart
      <4>2. f \in Nat \ {0} /\ f <= 0
        BY <3>2, <4>1, RestIsRanks DEF Behind
      <4> QED
        BY <4>2
    <3> QED
      BY <3>1, <3>2
  <2>2. AtStart'
    BY <1>1 DEF CreateTable, OrderInv, AtStart
  <2> QED
    BY <1>1, <2>1, <2>2, OrderKept, RecordKept DEF CreateTable
<1>2. ASSUME NEW p \in Processes, NextFile(p)
      PROVE  InOrderForEach' /\ InOrder' /\ AtStart'
  <2>1. UNCHANGED record /\ pc[p] = "next"
    BY <1>2 DEF NextFile
  <2>2. \A f \in Directory[p] : f \in Behind(p) \/ f \in Rest(p)
    <3> SUFFICES ASSUME NEW f \in Directory[p] PROVE f <= file[p] \/ f > file[p]
      BY <2>1 DEF Behind, Rest
    <3> QED
      BY RestIsRanks, FilesAreRanks DEF OrderInv
  <2>3. CASE Rest(p) = {} /\ Goto(p, "done") /\ UNCHANGED file
    <3>1. \A q \in Processes : Behind(q)' \subseteq Behind(q)
      BY <2>2, <2>3 DEF OrderInv, Goto, Behind
    <3>2. AtStart'
      BY <2>3 DEF OrderInv, AtStart, Goto
    <3> QED
      BY <2>1, <3>1, <3>2, OrderKept, RecordKept
  <2>4. CASE \E f \in Rest(p) : /\ \A g \in Rest(p) : f <= g
                                /\ file' = [file EXCEPT ![p] = f]
                                /\ Goto(p, "check")
    <3>1. PICK f \in Rest(p) : /\ \A g \in Rest(p) : f <= g
                               /\ file' = [file EXCEPT ![p] = f]
                               /\ Goto(p, "check")
      BY <2>4
    <3>2. \A q \in Processes : Behind(q)' \subseteq Behind(q)
      <4> SUFFICES ASSUME NEW q \in Processes, NEW g \in Behind(q)' PROVE g \in Behind(q)
        OBVIOUS
      <4>1. CASE q # p
        BY <3>1, <4>1 DEF OrderInv, Goto, Behind
      <4>2. CASE q = p
        <5>1. g \in Directory[p] /\ g < f
          BY <3>1, <4>2 DEF OrderInv, Goto, Behind
        <5>2. g \notin Rest(p)
          BY <3>1, <5>1, RestIsRanks
        <5> QED
          BY <2>2, <4>2, <5>1, <5>2
      <4> QED
        BY <4>1, <4>2
    <3>3. AtStart'
      BY <3>1 DEF OrderInv, AtStart, Goto
    <3> QED
      BY <2>1, <3>2, <3>3, OrderKept, RecordKept
  <2> QED
    BY <1>2, <2>3, <2>4, NextFileTakesLeast DEF OrderInv
<1>3. ASSUME NEW p \in Processes, CheckApplied(p)
      PROVE  InOrderForEach' /\ InOrder' /\ AtStart'
  <2>1. \A q \in Processes : Behind(q)' \subseteq Behind(q) \cup record'
    <3> SUFFICES ASSUME NEW q \in Processes, NEW f \in Behind(q)'
                 PROVE  f \in Behind(q) \cup record'
      OBVIOUS
    <3>1. CASE q # p
      BY <1>3, <3>1 DEF CheckApplied, Goto, OrderInv, Behind
    <3>2. CASE q = p
      <4>1. /\ f \in Directory[p] /\ pc[p] = "check"
            /\ f < file[p] \/ (file[p] \in record' /\ f <= file[p])
        BY <1>3, <3>2 DEF CheckApplied, Goto, OrderInv, Behind
      <4>2. f \in Nat /\ file[p] \in Nat
        BY <4>1, RestIsRanks, FilesAreRanks DEF OrderInv
      <4>3. f < file[p] \/ (f = file[p] /\ file[p] \in record')
        BY <4>1, <4>2
      <4> QED
        BY <3>2, <4>1, <4>3 DEF Behind
    <3> QED
      BY <3>1, <3>2
  <2>2. AtStart'
    BY <1>3 DEF CheckApplied, Goto, OrderInv, AtStart
  <2> QED
    BY <1>3, <2>1, <2>2, OrderKept, RecordKept DEF CheckApplied
\* A process that stays at its file, or stops, leaves nothing behind.
<1>4. ASSUME NEW p \in Processes, NEW where \in {"insert", "commit", "failed"},
             Goto(p, where), where # "failed" => pc[p] \in Working,
             UNCHANGED <<record, file>>
      PROVE  InOrderForEach' /\ InOrder' /\ AtStart'
  <2>1. \A q \in Processes : Behind(q)' \subseteq Behind(q)
    BY <1>4 DEF Goto, OrderInv, Behind
  <2>2. AtStart'
    BY <1>4 DEF Goto, OrderInv, AtStart
  <2> QED
    BY <1>4, <2>1, <2>2, OrderKept, RecordKept
<1>5. ASSUME NEW p \in Processes, Execute(p) \/ Insert(p) \/ Fail(p)
      PROVE  InOrderForEach' /\ InOrder' /\ AtStart'
  BY <1>4, <1>5 DEF Execute, Insert, Fail, Exit
<1>6. ASSUME NEW p \in Processes, Commit(p) \/ CommitUnanswered(p)
      PROVE  InOrderForEach' /\ InOrder' /\ AtStart'
  BY <1>6, CommitKeepsOrder DEF Commit, CommitUnanswered, Exit
<1>7. ASSUME NEW p \in Processes, Restart(p)
      PROVE  InOrderForEach' /\ InOrder' /\ AtStart'
  <2>1. \A q \in Processes : Behind(q)' \subseteq Behind(q)
    BY <1>7 DEF Restart, Goto, OrderInv, Behind
  <2>2. AtStart'
    BY <1>7 DEF Restart, Goto, OrderInv, AtStart
  <2> QED
    BY <1>7, <2>1, <2>2, OrderKept, RecordKept DEF Restart
<1>8. CASE UNCHANGED vars
  BY <1>8 DEF vars, OrderInv, InOrderForEach, InOrder, AtStart, Behind
<1> QED
  BY <1>1, <1>2, <1>3, <1>5, <1>6, <1>7, <1>8 DEF Next, Advance

\* A process executes a file only when every earlier file of its directory has
\* taken effect, whoever applied it, and completes with all of them.
THEOREM MigrationsInOrderForEach == Spec => []InOrderForEach
<1>1. OrderInv => InOrderForEach
  BY DEF OrderInv
<1> QED
  BY InitOrder, StepOrder, <1>1, PTL DEF Spec

\* If releases only add files at the end, the files of all of them take effect
\* in the order of names, though older releases run beside newer ones.
THEOREM MigrationsInOrder == Spec => []InOrder
<1>1. OrderInv => InOrder
  BY DEF OrderInv
<1> QED
  BY InitOrder, StepOrder, <1>1, PTL DEF Spec
===============================================================================
