----------------------------- MODULE Migrations -----------------------------
(***************************************************************************)
(* How a process comes by the database (cmd/stoatcord/main.go): it takes   *)
(* the lock on the data directory, or ends; then store.Open runs the       *)
(* migration files that schema_migrations does not record, in the order of *)
(* their names, and records each.  SQLite commits every statement of a     *)
(* file by itself and refuses one whose table, index or column is there.   *)
(* An error of SQLite's own ends the process, which to the database is a   *)
(* death.                                                                  *)
(***************************************************************************)
EXTENDS Naturals

CONSTANTS
  Procs,      \* processes somebody starts
  Nobody,
  N,          \* migration files there will ever be, by the order of their names
  Statements, \* how many statements each file has
  MaxDeaths   \* bound on processes that die with the lock

Files  == 1..N
All(f) == 1..Statements[f]

ASSUME MigrationsAssumption ==
  N \in Nat /\ Statements \in [Files -> Nat \ {0}] /\ Nobody \notin Procs /\ MaxDeaths \in Nat

VARIABLES
  shipped,                \* files in the binary that is deployed
  known,                  \* by process, those in the binary it runs
  holder,                 \* of the lock
  stage, file, statement, \* by process, where it is
  applied, recorded,      \* the schema, by file; schema_migrations
  cutShort, deaths        \* files whose execution a death has cut short; their number

disk  == <<applied, recorded>>
dvars == <<shipped, known, holder, stage, file, statement, disk, cutShort, deaths>>

MInit ==
  /\ shipped \in Files /\ known = [p \in Procs |-> 1] /\ holder = Nobody
  /\ stage = [p \in Procs |-> "off"]
  /\ file = [p \in Procs |-> 1] /\ statement = [p \in Procs |-> 1]
  /\ applied = [f \in Files |-> {}] /\ recorded = {}
  /\ cutShort = {} /\ deaths = 0

Gone(p) ==
  /\ stage' = [stage EXCEPT ![p] = "off"] /\ known' = [known EXCEPT ![p] = 1]
  /\ file' = [file EXCEPT ![p] = 1] /\ statement' = [statement EXCEPT ![p] = 1]

(* A deploy may go back, too.                                               *)
Deploy ==
  /\ shipped' \in Files \ {shipped}
  /\ UNCHANGED <<known, holder, stage, file, statement, disk, cutShort, deaths>>

(* Mutant: the lock is not asked for.                                       *)
LaunchAlways(p) ==
  /\ stage[p] = "off"
  /\ holder' = p /\ stage' = [stage EXCEPT ![p] = "check"]
  /\ known' = [known EXCEPT ![p] = shipped]
  /\ UNCHANGED <<shipped, file, statement, disk, cutShort, deaths>>

(* A process starts with flock(LOCK_EX | LOCK_NB).  With ErrLocked it ends, *)
(* and it is as if nobody had started it.                                   *)
Launch(p) ==
  /\ stage[p] = "off" /\ holder = Nobody
  /\ holder' = p /\ stage' = [stage EXCEPT ![p] = "check"]
  /\ known' = [known EXCEPT ![p] = shipped]
  /\ UNCHANGED <<shipped, file, statement, disk, cutShort, deaths>>

SkipRecorded(p) ==
  /\ stage[p] = "check" /\ file[p] \in 1..known[p] /\ file[p] \in recorded
  /\ file' = [file EXCEPT ![p] = @ + 1]
  /\ UNCHANGED <<shipped, known, holder, stage, statement, disk, cutShort, deaths>>

BeginFile(p) ==
  /\ stage[p] = "check" /\ file[p] \in 1..known[p] /\ file[p] \notin recorded
  /\ stage' = [stage EXCEPT ![p] = "exec"]
  /\ UNCHANGED <<shipped, known, holder, file, statement, disk, cutShort, deaths>>

ExecStatement(p) ==
  /\ stage[p] = "exec" /\ statement[p] \in All(file[p]) \ applied[file[p]]
  /\ applied' = [applied EXCEPT ![file[p]] = @ \cup {statement[p]}]
  /\ statement' = [statement EXCEPT ![p] = @ + 1]
  /\ UNCHANGED <<shipped, known, holder, stage, file, recorded, cutShort, deaths>>

(* "table ... already exists", "duplicate column name": Open fails.         *)
ExecRefused(p) ==
  /\ stage[p] = "exec" /\ statement[p] \in applied[file[p]]
  /\ stage' = [stage EXCEPT ![p] = "refused"]
  /\ UNCHANGED <<shipped, known, holder, file, statement, disk, cutShort, deaths>>

(* Mutant: a file is recorded before it is executed to its end.             *)
RecordEarly(p) ==
  /\ stage[p] = "exec" /\ statement[p] = Statements[file[p]]
  /\ recorded' = recorded \cup {file[p]}
  /\ stage' = [stage EXCEPT ![p] = "check"]
  /\ file' = [file EXCEPT ![p] = @ + 1] /\ statement' = [statement EXCEPT ![p] = 1]
  /\ UNCHANGED <<shipped, known, holder, applied, cutShort, deaths>>

Record(p) ==
  /\ stage[p] = "exec" /\ statement[p] = Statements[file[p]] + 1
  /\ recorded' = recorded \cup {file[p]}
  /\ stage' = [stage EXCEPT ![p] = "check"]
  /\ file' = [file EXCEPT ![p] = @ + 1] /\ statement' = [statement EXCEPT ![p] = 1]
  /\ UNCHANGED <<shipped, known, holder, applied, cutShort, deaths>>

Open(p) ==
  /\ stage[p] = "check" /\ file[p] = known[p] + 1
  /\ stage' = [stage EXCEPT ![p] = "open"]
  /\ UNCHANGED <<shipped, known, holder, file, statement, disk, cutShort, deaths>>

(* os.Exit after an error, or the end of main: the kernel frees the lock.   *)
Exit(p) ==
  /\ stage[p] \in {"refused", "open"}
  /\ Gone(p) /\ holder' = Nobody
  /\ UNCHANGED <<shipped, disk, cutShort, deaths>>

Die(p) ==
  /\ stage[p] \in {"check", "exec"} /\ deaths < MaxDeaths /\ deaths' = deaths + 1
  /\ Gone(p) /\ holder' = Nobody
  /\ cutShort' = IF stage[p] = "exec" /\ statement[p] > 1 THEN cutShort \cup {file[p]} ELSE cutShort
  /\ UNCHANGED <<shipped, disk>>

Opening(p) ==
  \/ Launch(p) \/ SkipRecorded(p) \/ BeginFile(p) \/ ExecStatement(p) \/ ExecRefused(p)
  \/ Record(p) \/ Open(p) \/ Die(p)

MNext == Deploy \/ \E p \in Procs : Opening(p) \/ Exit(p)

MSpec == MInit /\ [][MNext]_dvars
-----------------------------------------------------------------------------
MTypeOK ==
  /\ shipped \in Files /\ known \in [Procs -> Files] /\ holder \in Procs \cup {Nobody}
  /\ stage \in [Procs -> {"off", "check", "exec", "refused", "open"}]
  /\ file \in [Procs -> 1..(N + 1)] /\ statement \in [Procs -> Nat \ {0}]
  /\ applied \in [Files -> SUBSET (Nat \ {0})] /\ recorded \subseteq Files
  /\ cutShort \subseteq Files /\ deaths \in 0..MaxDeaths

(* A process that has opened the database finds there every table, index    *)
(* and column of the files in its binary: whatever versions ran before it,  *)
(* in whatever order they were deployed, and wherever they died.            *)
SchemaComplete ==
  \A p \in Procs : stage[p] = "open" => \A f \in 1..known[p] : applied[f] = All(f)

(* Open refuses a database only because of a file some process died in; so  *)
(* two processes that are started at once never stand in each other's way.  *)
RefusedOnlyAfterDeath ==
  \A p \in Procs : stage[p] = "refused" => file[p] \in cutShort

(* Only the one process that holds the lock is past it.                     *)
OneOpens ==
  \A p \in Procs : stage[p] \in {"check", "exec", "refused", "open"} => holder = p

(* What Open's comment promises: new files are picked up on the next boot.  *)
NeverRefused == \A p \in Procs : stage[p] # "refused"
=============================================================================
