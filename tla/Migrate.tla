------------------------------- MODULE Migrate -------------------------------
(***************************************************************************)
(* The migration program, cmd/migrate/main.go.                             *)
(*                                                                         *)
(* A process creates schema_migrations, reads its directory, and takes its *)
(* files in the order of their names: a file that is not recorded is       *)
(* executed and recorded in one transaction.  Nothing keeps two processes  *)
(* (two deployments, two releases) from running at once, any error ends    *)
(* the process, and whoever runs the program runs it again after that.     *)
(*                                                                         *)
(* A statement outside a transaction is a step, and so is each statement   *)
(* of the transaction: it waits for what another transaction holds.  The   *)
(* database takes the DDL of PostgreSQL, which rolls back.                 *)
(*                                                                         *)
(* Abstracted: a file is its rank in the order of names (sort.Strings).    *)
(***************************************************************************)
EXTENDS Naturals, FiniteSets

CONSTANTS
    Processes,      \* runs of the program that may be in progress at once
    Directory,      \* the files a process finds in MIGRATIONS_DIR
    Rerunnable,     \* files whose SQL succeeds where it was applied already
    MaxFailures     \* bound on failures from outside

ASSUME DirectoryAssumption ==
    /\ Directory \in [Processes -> SUBSET (Nat \ {0})]
    /\ \A p \in Processes : IsFiniteSet(Directory[p])
ASSUME FailuresAssumption == MaxFailures \in Nat

VARIABLES
    table,          \* whether schema_migrations exists
    record,         \* its filenames
    applied,        \* how often the SQL of a file was committed
    pc, file,       \* where a process is; the file it is at
    failures        \* failures from outside so far

vars == <<table, record, applied, pc, file, failures>>

Files == UNION {Directory[p] : p \in Processes}

Init ==
    /\ table = FALSE
    /\ record = {}
    /\ applied = [f \in Files |-> 0]
    /\ pc = [p \in Processes |-> "create"]
    /\ file = [p \in Processes |-> 0]
    /\ failures = 0

Goto(p, where) == pc' = [pc EXCEPT ![p] = where]

\* log.Fatal: the connection closes and an open transaction is rolled back.
Exit(p) == Goto(p, "failed")

\* Files of p after the one it is at.
Rest(p) == {f \in Directory[p] : f > file[p]}

-------------------------------------------------------------------------------
CreateTableLater(p) ==
    /\ pc[p] = "create"
    /\ Goto(p, "next")
    /\ UNCHANGED <<table, record, applied, file, failures>>

\* CREATE TABLE IF NOT EXISTS.  The check and the creation are not one step in
\* PostgreSQL: others at this statement may have seen no table, and fail.
CreateTable(p) ==
    /\ pc[p] = "create"
    /\ table' = TRUE
    /\ \E losers \in SUBSET {q \in Processes : q # p /\ pc[q] = "create" /\ ~table} :
          pc' = [q \in Processes |->
              IF q = p THEN "next" ELSE IF q \in losers THEN "failed" ELSE pc[q]]
    /\ UNCHANGED <<record, applied, file, failures>>

NextFileUnsorted(p) ==
    /\ pc[p] = "next"
    /\ \/ Rest(p) = {} /\ Goto(p, "done") /\ UNCHANGED file
       \/ \E f \in Rest(p) : file' = [file EXCEPT ![p] = f] /\ Goto(p, "check")
    /\ UNCHANGED <<table, record, applied, failures>>

\* The next file in the order of names, or the end.
NextFile(p) ==
    /\ pc[p] = "next"
    /\ IF Rest(p) = {}
       THEN Goto(p, "done") /\ UNCHANGED file
       ELSE /\ file' = [file EXCEPT ![p] = CHOOSE f \in Rest(p) : \A g \in Rest(p) : f <= g]
            /\ Goto(p, "check")
    /\ UNCHANGED <<table, record, applied, failures>>

CheckNothing(p) ==
    /\ pc[p] = "check"
    /\ Goto(p, "execute")
    /\ UNCHANGED <<table, record, applied, file, failures>>

\* SELECT EXISTS: a recorded file is skipped.
CheckApplied(p) ==
    /\ pc[p] = "check"
    /\ Goto(p, IF file[p] \in record THEN "next" ELSE "execute")
    /\ UNCHANGED <<table, record, applied, file, failures>>

\* Another transaction has executed the file, or recorded it, and is open.
Executing(p) == \E q \in Processes : q # p /\ pc[q] \in {"insert", "commit"} /\ file[q] = file[p]
Recording(p) == \E q \in Processes : q # p /\ pc[q] = "commit" /\ file[q] = file[p]

\* The file's SQL.  What it creates is there already if it was applied; if
\* another transaction is about to have done so, the statement waits for it.
Execute(p) ==
    /\ pc[p] = "execute"
    /\ IF file[p] \in Rerunnable THEN Goto(p, "insert")
       ELSE /\ ~Executing(p)
            /\ IF applied[file[p]] > 0 THEN Exit(p) ELSE Goto(p, "insert")
    /\ UNCHANGED <<table, record, applied, file, failures>>

InsertAnyway(p) ==
    /\ pc[p] = "insert"
    /\ Goto(p, "commit")
    /\ UNCHANGED <<table, record, applied, file, failures>>

\* INSERT INTO schema_migrations: filename is the primary key.
Insert(p) ==
    /\ pc[p] = "insert"
    /\ ~Recording(p)
    /\ IF file[p] \in record THEN Exit(p) ELSE Goto(p, "commit")
    /\ UNCHANGED <<table, record, applied, file, failures>>

\* What the transaction executed and recorded takes effect together.
Commit(p) ==
    /\ pc[p] = "commit"
    /\ applied' = [applied EXCEPT ![file[p]] = @ + 1]
    /\ record' = record \cup {file[p]}
    /\ Goto(p, "next")
    /\ UNCHANGED <<table, file, failures>>

\* The transaction is committed and its answer is lost: the process ends.
CommitUnanswered(p) ==
    /\ pc[p] = "commit"
    /\ failures < MaxFailures
    /\ failures' = failures + 1
    /\ applied' = [applied EXCEPT ![file[p]] = @ + 1]
    /\ record' = record \cup {file[p]}
    /\ Exit(p)
    /\ UNCHANGED <<table, file>>

-------------------------------------------------------------------------------
(* The environment *)

FailAndGoOn(p) ==
    /\ pc[p] \notin {"create", "failed", "done"}
    /\ failures < MaxFailures
    /\ failures' = failures + 1
    /\ Goto(p, "next")
    /\ UNCHANGED <<table, record, applied, file>>

\* The connection, a statement or the process fails.
Fail(p) ==
    /\ pc[p] \notin {"failed", "done"}
    /\ failures < MaxFailures
    /\ failures' = failures + 1
    /\ Exit(p)
    /\ UNCHANGED <<table, record, applied, file>>

\* The program is run again, from its start.
Restart(p) ==
    /\ pc[p] = "failed"
    /\ Goto(p, "create")
    /\ file' = [file EXCEPT ![p] = 0]
    /\ UNCHANGED <<table, record, applied, failures>>

Advance(p) ==
    \/ CreateTable(p) \/ NextFile(p) \/ CheckApplied(p)
    \/ Execute(p) \/ Insert(p) \/ Commit(p)

Next == \E p \in Processes : Advance(p) \/ CommitUnanswered(p) \/ Fail(p) \/ Restart(p)

Spec == Init /\ [][Next]_vars

\* A process goes on when it can, and is run again when it failed.
FairSpec == Spec /\ \A p \in Processes : WF_vars(Advance(p)) /\ WF_vars(Restart(p))

-------------------------------------------------------------------------------
Working == {"check", "execute", "insert", "commit"}

\* Type correctness: a process is at a file of its directory.
TypeOK ==
    /\ table \in BOOLEAN
    /\ record \subseteq Files
    /\ applied \in [Files -> Nat]
    /\ pc \in [Processes -> {"create", "next", "failed", "done"} \cup Working]
    /\ file \in [Processes -> Files \cup {0}]
    /\ \A p \in Processes :
        /\ file[p] \in Directory[p] \cup {0}
        /\ pc[p] \in Working => file[p] # 0
        /\ pc[p] \notin {"create", "failed"} => table
    /\ failures \in 0 .. MaxFailures

\* However processes race and wherever they stop, the SQL of a file takes
\* effect at most once, and exactly when the file is recorded.
AppliedOnce == \A f \in Files : applied[f] = IF f \in record THEN 1 ELSE 0

\* A process executes a file only when every earlier file of its directory has
\* taken effect, whoever applied it; and it completes with all of them.
Behind(p) ==
    {f \in Directory[p] :
        \/ pc[p] = "done"
        \/ pc[p] = "next" /\ f <= file[p]
        \/ pc[p] \in Working /\ f < file[p]}

InOrderForEach == \A p \in Processes : Behind(p) \subseteq record

\* If a release only adds files at the end, files of all releases take effect
\* in the order of names, though older releases may run beside newer ones.
ReleasesExtend ==
    \A p, q \in Processes : \A f \in Directory[p], g \in Directory[q] :
        f < g => f \in Directory[q]

InOrder == ReleasesExtend => \A f \in record, g \in Files : g < f => g \in record

\* No stop leaves the database so that the program cannot complete: run again,
\* every process ends with its directory applied.
AllComplete == <>(\A p \in Processes : pc[p] = "done" /\ Directory[p] \subseteq record)
===============================================================================
