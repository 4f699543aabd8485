-------------------------- MODULE MigrationsProofs --------------------------
(***************************************************************************)
(* What a process finds when it has opened the database, and when it may   *)
(* be refused, for any number of processes, files and statements.  The     *)
(* invariant is about one process at a time: whoever is past the lock      *)
(* holds it, and knows what it has executed of the file it is at; of any   *)
(* other file, either all is applied and recorded, or nothing is applied,  *)
(* or a death has cut it short.                                            *)
(***************************************************************************)
EXTENDS Migrations, TLAPS

Inside(p) == stage[p] \in {"check", "exec", "refused", "open"}

At(p, f) == stage[p] = "exec" /\ file[p] = f

RecordedIsComplete == \A f \in recorded : applied[f] = All(f)

OnlyStatements == \A f \in Files : applied[f] \subseteq All(f)

(* The files before the one a process is at are recorded; in that one, it   *)
(* has executed the statements before the one it is at: none, at first.     *)
Progress ==
  \A p \in Procs :
    /\ Inside(p) => \A f \in Files : f < file[p] => f \in recorded
    /\ stage[p] = "exec" =>
         /\ file[p] \in Files \ recorded
         /\ statement[p] \in 1..(Statements[file[p]] + 1)
         /\ 1..(statement[p] - 1) \subseteq applied[file[p]]
    /\ stage[p] = "open" => file[p] = known[p] + 1
    /\ stage[p] = "off" => file[p] = 1
    /\ stage[p] \in {"off", "check"} => statement[p] = 1

(* What is applied and not recorded was cut short, unless it is being       *)
(* executed, and then no more is applied than was just executed.            *)
NothingStray ==
  /\ \A f \in Files \ recorded :
       f \in cutShort \/ applied[f] = {} \/ \E p \in Procs : At(p, f)
  /\ \A p \in Procs :
       stage[p] = "exec" /\ file[p] \notin cutShort =>
         applied[file[p]] = 1..(statement[p] - 1)

IInv ==
  /\ MTypeOK /\ OneOpens /\ RecordedIsComplete /\ OnlyStatements /\ Progress
  /\ NothingStray /\ RefusedOnlyAfterDeath

LEMMA InitIInv == ASSUME MInit PROVE IInv
BY MigrationsAssumption
   DEF MInit, IInv, MTypeOK, OneOpens, RecordedIsComplete, OnlyStatements, Progress, NothingStray,
       RefusedOnlyAfterDeath, Inside, At, Files, All

LEMMA DeployStep == ASSUME IInv, Deploy PROVE IInv'
<1> USE MigrationsAssumption DEF IInv
<1>1. MTypeOK'                BY DEF Deploy, MTypeOK, Files, disk
<1>2. OneOpens'               BY DEF Deploy, MTypeOK, OneOpens, disk
<1>3. RecordedIsComplete' /\ OnlyStatements'
  BY DEF Deploy, RecordedIsComplete, OnlyStatements, disk
<1>4. Progress'               BY DEF Deploy, MTypeOK, OneOpens, Progress, Inside, Files, All, disk
<1>5. NothingStray'
  BY DEF Deploy, MTypeOK, NothingStray, At, disk
<1>6. RefusedOnlyAfterDeath'
  BY DEF Deploy, MTypeOK, RefusedOnlyAfterDeath
<1> QED BY <1>1, <1>2, <1>3, <1>4, <1>5, <1>6

LEMMA LaunchStep == ASSUME IInv, NEW p \in Procs, Launch(p) PROVE IInv'
<1> USE MigrationsAssumption DEF IInv
<1>1. MTypeOK'                BY DEF Launch, MTypeOK, Files, disk
<1>2. OneOpens'               BY DEF Launch, MTypeOK, OneOpens, disk
<1>3. RecordedIsComplete' /\ OnlyStatements'
  BY DEF Launch, RecordedIsComplete, OnlyStatements, disk
<1>4. Progress'               BY DEF Launch, MTypeOK, OneOpens, Progress, Inside, Files, All, disk
<1>5. NothingStray'
  BY DEF Launch, MTypeOK, NothingStray, At, disk
<1>6. RefusedOnlyAfterDeath'
  BY DEF Launch, MTypeOK, RefusedOnlyAfterDeath
<1> QED BY <1>1, <1>2, <1>3, <1>4, <1>5, <1>6

LEMMA SkipRecordedStep == ASSUME IInv, NEW p \in Procs, SkipRecorded(p) PROVE IInv'
<1> USE MigrationsAssumption DEF IInv
<1>1. MTypeOK'
  <2>1. file[p] \in 1..N /\ file[p] + 1 \in 1..(N + 1)  BY DEF SkipRecorded, MTypeOK, Files
  <2> QED BY <2>1 DEF SkipRecorded, MTypeOK, disk
<1>2. OneOpens'               BY DEF SkipRecorded, MTypeOK, OneOpens, disk
<1>3. RecordedIsComplete' /\ OnlyStatements'
  BY DEF SkipRecorded, RecordedIsComplete, OnlyStatements, disk
<1>4. Progress'               BY DEF SkipRecorded, MTypeOK, OneOpens, Progress, Inside, Files, All, disk
<1>5. NothingStray'
  BY DEF SkipRecorded, MTypeOK, NothingStray, At, disk
<1>6. RefusedOnlyAfterDeath'
  BY DEF SkipRecorded, MTypeOK, RefusedOnlyAfterDeath
<1> QED BY <1>1, <1>2, <1>3, <1>4, <1>5, <1>6

LEMMA BeginFileStep == ASSUME IInv, NEW p \in Procs, BeginFile(p) PROVE IInv'
<1> USE MigrationsAssumption DEF IInv
<1>1. MTypeOK'                BY DEF BeginFile, MTypeOK, Files, disk
<1>2. OneOpens'               BY DEF BeginFile, MTypeOK, OneOpens, disk
<1>3. RecordedIsComplete' /\ OnlyStatements'
  BY DEF BeginFile, RecordedIsComplete, OnlyStatements, disk
<1>4. Progress'               BY DEF BeginFile, MTypeOK, OneOpens, Progress, Inside, Files, All, disk
<1>5. NothingStray'
  <2>1. ASSUME NEW f \in Files \ recorded'
        PROVE  f \in cutShort' \/ applied'[f] = {} \/ \E q \in Procs : At(q, f)'
    <3>1. ~At(p, f) /\ \A q \in Procs \ {p} : At(q, f)' = At(q, f)
      BY DEF BeginFile, MTypeOK, At
    <3> QED BY <3>1 DEF BeginFile, NothingStray, disk
  <2>2. ASSUME NEW q \in Procs, stage'[q] = "exec", file'[q] \notin cutShort'
        PROVE  applied'[file'[q]] = 1..(statement'[q] - 1)
    <3>1. CASE q # p
      BY <2>2, <3>1 DEF BeginFile, MTypeOK, NothingStray, disk
    <3>2. CASE q = p
      <4>1. file[p] \in Files \ recorded /\ statement'[p] = 1
        BY DEF BeginFile, MTypeOK, Progress, Files
      <4>2. \A r \in Procs : ~At(r, file[p])
        BY DEF BeginFile, OneOpens, At
      <4>3. applied[file[p]] = {}
        BY <2>2, <3>2, <4>1, <4>2 DEF BeginFile, NothingStray
      <4> QED BY <3>2, <4>1, <4>3 DEF BeginFile, disk
    <3> QED BY <3>1, <3>2
  <2> QED BY <2>1, <2>2 DEF NothingStray
<1>6. RefusedOnlyAfterDeath'
  BY DEF BeginFile, MTypeOK, RefusedOnlyAfterDeath
<1> QED BY <1>1, <1>2, <1>3, <1>4, <1>5, <1>6

LEMMA ExecStatementStep == ASSUME IInv, NEW p \in Procs, ExecStatement(p) PROVE IInv'
<1> USE MigrationsAssumption DEF IInv
<1>1. MTypeOK'
  <2>1. statement[p] \in Nat \ {0} /\ statement[p] + 1 \in Nat \ {0}  BY DEF MTypeOK
  <2>2. applied' \in [Files -> SUBSET (Nat \ {0})]  BY <2>1 DEF ExecStatement, MTypeOK
  <2> QED BY <2>1, <2>2 DEF ExecStatement, MTypeOK
<1>2. OneOpens'               BY DEF ExecStatement, MTypeOK, OneOpens, disk
<1>3. RecordedIsComplete' /\ OnlyStatements'
  BY DEF ExecStatement, MTypeOK, RecordedIsComplete, OnlyStatements, Progress, Files, All, disk
<1>4. Progress'
  <2>1. /\ stage[p] = "exec" /\ statement[p] \in Nat \ {0} /\ file[p] \in Files \ recorded
        /\ 1..(statement[p] - 1) \subseteq applied[file[p]]
        /\ statement[p] \in All(file[p])
    BY DEF ExecStatement, MTypeOK, Progress
  <2>2. Statements[file[p]] \in Nat /\ statement[p] <= Statements[file[p]]
    BY <2>1 DEF All
  <2>3. /\ statement'[p] = statement[p] + 1
        /\ \A q \in Procs \ {p} : statement'[q] = statement[q]
        /\ applied'[file[p]] = applied[file[p]] \cup {statement[p]}
        /\ stage' = stage /\ file' = file /\ known' = known /\ recorded' = recorded
    BY <2>1 DEF ExecStatement, MTypeOK
  <2>4. statement'[p] \in 1..(Statements[file[p]] + 1) /\ 1..(statement'[p] - 1) \subseteq applied'[file[p]]
    BY <2>1, <2>3, <2>2
  <2>5. \A q \in Procs \ {p} : stage[q] # "exec"
    BY DEF ExecStatement, OneOpens
  <2> QED BY <2>1, <2>3, <2>4, <2>5 DEF Progress, Inside
<1>5. NothingStray'
  <2>1. ASSUME NEW f \in Files \ recorded'
        PROVE  f \in cutShort' \/ applied'[f] = {} \/ \E q \in Procs : At(q, f)'
    <3>1. CASE f = file[p]
      BY <3>1 DEF ExecStatement, At
    <3>2. CASE f # file[p]
      BY <3>2 DEF ExecStatement, MTypeOK, NothingStray, At
    <3> QED BY <3>1, <3>2
  <2>2. ASSUME NEW q \in Procs, stage'[q] = "exec", file'[q] \notin cutShort'
        PROVE  applied'[file'[q]] = 1..(statement'[q] - 1)
    <3>1. q = p  BY <2>2 DEF ExecStatement, OneOpens
    <3>2. /\ applied'[file[p]] = applied[file[p]] \cup {statement[p]}
          /\ statement'[p] = statement[p] + 1 /\ statement[p] \in Nat \ {0}
          /\ file[p] \notin cutShort
      BY <2>2, <3>1 DEF ExecStatement, MTypeOK, Progress
    <3>3. applied[file[p]] = 1..(statement[p] - 1)  BY <3>2 DEF ExecStatement, NothingStray
    <3>4. ASSUME NEW s \in Nat \ {0}  PROVE 1..(s - 1) \cup {s} = 1..((s + 1) - 1)
      OBVIOUS
    <3>5. applied'[file[p]] = 1..(statement'[p] - 1)  BY <3>2, <3>3, <3>4
    <3> QED BY <3>1, <3>5 DEF ExecStatement
  <2> QED BY <2>1, <2>2 DEF NothingStray
<1>6. RefusedOnlyAfterDeath'
  BY DEF ExecStatement, MTypeOK, RefusedOnlyAfterDeath
<1> QED BY <1>1, <1>2, <1>3, <1>4, <1>5, <1>6

LEMMA ExecRefusedStep == ASSUME IInv, NEW p \in Procs, ExecRefused(p) PROVE IInv'
<1> USE MigrationsAssumption DEF IInv
<1>1. MTypeOK'                BY DEF ExecRefused, MTypeOK, Files, disk
<1>2. OneOpens'               BY DEF ExecRefused, MTypeOK, OneOpens, disk
<1>3. RecordedIsComplete' /\ OnlyStatements'
  BY DEF ExecRefused, RecordedIsComplete, OnlyStatements, disk
<1>4. Progress'               BY DEF ExecRefused, MTypeOK, OneOpens, Progress, Inside, Files, All, disk
<1>5. NothingStray'
  <2>1. ASSUME NEW f \in Files \ recorded'
        PROVE  f \in cutShort' \/ applied'[f] = {} \/ \E q \in Procs : At(q, f)'
    <3>1. CASE f = file[p]
      <4>1. f \in cutShort
        BY <3>1 DEF ExecRefused, MTypeOK, NothingStray
      <4> QED BY <4>1 DEF ExecRefused
    <3>2. CASE f # file[p]
      <4>1. ~At(p, f) /\ \A q \in Procs \ {p} : At(q, f)' = At(q, f)
        BY <3>2 DEF ExecRefused, MTypeOK, At
      <4> QED BY <4>1 DEF ExecRefused, NothingStray, disk
    <3> QED BY <3>1, <3>2
  <2>2. ASSUME NEW q \in Procs, stage'[q] = "exec", file'[q] \notin cutShort'
        PROVE  applied'[file'[q]] = 1..(statement'[q] - 1)
    BY <2>2 DEF ExecRefused, MTypeOK, NothingStray, disk
  <2> QED BY <2>1, <2>2 DEF NothingStray
<1>6. RefusedOnlyAfterDeath'
  BY DEF ExecRefused, MTypeOK, RefusedOnlyAfterDeath, NothingStray, Progress
<1> QED BY <1>1, <1>2, <1>3, <1>4, <1>5, <1>6

LEMMA RecordStep == ASSUME IInv, NEW p \in Procs, Record(p) PROVE IInv'
<1> USE MigrationsAssumption DEF IInv
<1>1. MTypeOK'
  <2>1. file[p] \in Files /\ file[p] + 1 \in 1..(N + 1)  BY DEF Record, Progress, Files
  <2> QED BY <2>1 DEF Record, MTypeOK
<1>2. OneOpens'               BY DEF Record, MTypeOK, OneOpens, disk
<1>3. RecordedIsComplete' /\ OnlyStatements'
  <2>1. file[p] \in Files /\ Statements[file[p]] \in Nat \ {0}  BY DEF Record, Progress
  <2>2. All(file[p]) \subseteq applied[file[p]]  BY <2>1 DEF Record, Progress, All
  <2>3. applied[file[p]] = All(file[p])  BY <2>1, <2>2 DEF OnlyStatements
  <2> QED BY <2>3 DEF Record, RecordedIsComplete, OnlyStatements
<1>4. Progress'               BY DEF Record, MTypeOK, OneOpens, Progress, Inside, Files, All, disk
<1>5. NothingStray'
  BY DEF Record, MTypeOK, OneOpens, Progress, NothingStray, Inside, At, Files, All, disk
<1>6. RefusedOnlyAfterDeath'
  BY DEF Record, MTypeOK, RefusedOnlyAfterDeath
<1> QED BY <1>1, <1>2, <1>3, <1>4, <1>5, <1>6

LEMMA OpenStep == ASSUME IInv, NEW p \in Procs, Open(p) PROVE IInv'
<1> USE MigrationsAssumption DEF IInv
<1>1. MTypeOK'                BY DEF Open, MTypeOK, Files, disk
<1>2. OneOpens'               BY DEF Open, MTypeOK, OneOpens, disk
<1>3. RecordedIsComplete' /\ OnlyStatements'
  BY DEF Open, RecordedIsComplete, OnlyStatements, disk
<1>4. Progress'               BY DEF Open, MTypeOK, OneOpens, Progress, Inside, Files, All, disk
<1>5. NothingStray'
  BY DEF Open, MTypeOK, NothingStray, At, disk
<1>6. RefusedOnlyAfterDeath'
  BY DEF Open, MTypeOK, RefusedOnlyAfterDeath
<1> QED BY <1>1, <1>2, <1>3, <1>4, <1>5, <1>6

LEMMA ExitStep == ASSUME IInv, NEW p \in Procs, Exit(p) PROVE IInv'
<1> USE MigrationsAssumption DEF IInv
<1>1. MTypeOK'                BY DEF Exit, Gone, MTypeOK, Files, disk
<1>2. OneOpens'               BY DEF Exit, Gone, MTypeOK, OneOpens, disk
<1>3. RecordedIsComplete' /\ OnlyStatements'
  BY DEF Exit, Gone, RecordedIsComplete, OnlyStatements, disk
<1>4. Progress'               BY DEF Exit, Gone, MTypeOK, OneOpens, Progress, Inside, Files, All, disk
<1>5. NothingStray'
  BY DEF Exit, Gone, MTypeOK, NothingStray, At, disk
<1>6. RefusedOnlyAfterDeath'
  BY DEF Exit, Gone, MTypeOK, RefusedOnlyAfterDeath
<1> QED BY <1>1, <1>2, <1>3, <1>4, <1>5, <1>6

LEMMA DieStep == ASSUME IInv, NEW p \in Procs, Die(p) PROVE IInv'
<1> USE MigrationsAssumption DEF IInv
<1>1. MTypeOK'
  <2>1. deaths' \in 0..MaxDeaths  BY DEF Die, Gone, MTypeOK
  <2>2. cutShort' \subseteq Files  BY DEF Die, Gone, MTypeOK, Progress
  <2>3. 1 \in Files /\ 1 \in 1..(N + 1)  BY DEF MTypeOK, Files
  <2> QED BY <2>1, <2>2, <2>3 DEF Die, Gone, MTypeOK, disk
<1>2. OneOpens'               BY DEF Die, Gone, MTypeOK, OneOpens, disk
<1>3. RecordedIsComplete' /\ OnlyStatements'
  BY DEF Die, Gone, RecordedIsComplete, OnlyStatements, disk
<1>4. Progress'               BY DEF Die, Gone, MTypeOK, OneOpens, Progress, Inside, Files, All, disk
<1>5. NothingStray'
  <2>1. ASSUME NEW f \in Files \ recorded'
        PROVE  f \in cutShort' \/ applied'[f] = {} \/ \E q \in Procs : At(q, f)'
    <3>1. CASE At(p, f) /\ statement[p] > 1
      BY <3>1 DEF Die, Gone, At
    <3>2. CASE At(p, f) /\ ~(statement[p] > 1)
      <4>1. statement[p] = 1  BY <3>2 DEF MTypeOK
      <4>2. f \in cutShort \/ applied[f] = {}
        BY <3>2, <4>1 DEF NothingStray, At
      <4> QED BY <4>2 DEF Die, Gone, disk
    <3>3. CASE ~At(p, f)
      <4>1. \A q \in Procs \ {p} : At(q, f)' = At(q, f)
        BY DEF Die, Gone, MTypeOK, At
      <4> QED BY <3>3, <4>1 DEF Die, Gone, NothingStray, disk
    <3> QED BY <3>1, <3>2, <3>3
  <2>2. ASSUME NEW q \in Procs, stage'[q] = "exec", file'[q] \notin cutShort'
        PROVE  applied'[file'[q]] = 1..(statement'[q] - 1)
    BY <2>2 DEF Die, Gone, MTypeOK, OneOpens, NothingStray, disk
  <2> QED BY <2>1, <2>2 DEF NothingStray
<1>6. RefusedOnlyAfterDeath'
  BY DEF Die, Gone, MTypeOK, RefusedOnlyAfterDeath
<1> QED BY <1>1, <1>2, <1>3, <1>4, <1>5, <1>6

LEMMA StepIInv == ASSUME IInv, [MNext]_dvars PROVE IInv'
<1>1. CASE Deploy  BY <1>1, DeployStep
<1>2. ASSUME NEW p \in Procs, Opening(p)  PROVE IInv'
  BY <1>2, LaunchStep, SkipRecordedStep, BeginFileStep, ExecStatementStep,
     ExecRefusedStep, RecordStep, OpenStep, DieStep DEF Opening
<1>3. ASSUME NEW p \in Procs, Exit(p)  PROVE IInv'
  BY <1>3, ExitStep
<1>4. CASE UNCHANGED dvars
  BY <1>4 DEF dvars, disk, IInv, MTypeOK, OneOpens, RecordedIsComplete, OnlyStatements, Progress,
              NothingStray, RefusedOnlyAfterDeath, Inside, At
<1> QED BY <1>1, <1>2, <1>3, <1>4 DEF MNext

LEMMA Invariance == MSpec => []IInv
BY InitIInv, StepIInv, PTL DEF MSpec

(* The variables keep their types.                                          *)
THEOREM MTypeCorrect == MSpec => []MTypeOK
<1>1. IInv => MTypeOK  BY DEF IInv
<1> QED BY <1>1, Invariance, PTL

(* Two processes are never at the database at the same time, whatever lock  *)
(* holders die: Launch's flock.                                            *)
THEOREM LockExcludes == MSpec => []OneOpens
<1>1. IInv => OneOpens  BY DEF IInv
<1> QED BY <1>1, Invariance, PTL

(* The schema is complete for any history of deploys, starts and deaths.    *)
THEOREM OpenFindsSchema == MSpec => []SchemaComplete
<1>1. ASSUME IInv, NEW p \in Procs, stage[p] = "open", NEW f \in 1..known[p]
      PROVE  applied[f] = All(f)
  <2>1. N \in Nat /\ known[p] \in 1..N /\ file[p] = known[p] + 1
    BY <1>1, MigrationsAssumption DEF IInv, MTypeOK, Progress, Files
  <2>2. f \in Files /\ f < file[p]
    BY <1>1, <2>1 DEF Files
  <2>3. f \in recorded
    BY <1>1, <2>2 DEF IInv, Progress, Inside
  <2> QED BY <1>1, <2>3 DEF IInv, RecordedIsComplete
<1>2. IInv => SchemaComplete  BY <1>1 DEF SchemaComplete
<1> QED BY <1>2, Invariance, PTL

(* Without a death in the middle of a file, no start is ever refused.       *)
THEOREM RefusalsAreBlamed == MSpec => []RefusedOnlyAfterDeath
<1>1. IInv => RefusedOnlyAfterDeath  BY DEF IInv
<1> QED BY <1>1, Invariance, PTL
=============================================================================
