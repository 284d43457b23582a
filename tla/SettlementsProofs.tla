-------------------------- MODULE SettlementsProofs --------------------------
(* An import that is called applied is complete, and an intent is settled  *)
(* by one row, for any number of files, rows, retries and faults.          *)
EXTENDS Settlements, FiniteSetTheorems, TLAPS

Place == {"NOWHERE", "INBOX", "ARCHIVE", "FAILED"}
ImportRow == [status: {"NONE", "NOT_APPLIED", "APPLYING", "APPLIED", "FAILED"},
              path: {"NONE", "INBOX", "UPLOADS"}]
Run == [pc: {"IDLE", "RECORD", "PROCESS", "ENDED"}, by: {"NOBODY", "INBOX", "OPS"}, row: Nat]
RecordRows == [state: {"NONE", "OPEN", "PROCESSED"}, final: BOOLEAN,
               file: Files \union {NoFile}, intent: Intents \union {NoIntent},
               attempts: 0..MaxAttempts, waits: BOOLEAN]
Job == [pc: {"IDLE", "PROCESS", "BOOK"}, todo: SUBSET Records]

LEMMA TypeIs ==
  TypeOK <=> /\ place \in [Files -> Place]
             /\ import \in [Files -> ImportRow]
             /\ run \in [Files -> Run]
             /\ record \in [Records -> RecordRows]
             /\ intent \in [Intents -> {"UNPAID", "PAID", "SETTLED"}]
             /\ job \in Job
             /\ events \in 0..MaxEvents
BY DEF TypeOK, Place, ImportRow, Run, RecordRows, Job

(* A run has recorded the rows it has left behind, and the one it is about *)
(* to process.                                                             *)
Behind(f) ==
  /\ run[f].pc \in {"RECORD", "PROCESS"} =>
       run[f].row >= 1 /\ \A n \in DOMAIN RowsOf[f] : n < run[f].row => RowRecorded(f, n)
  /\ run[f].pc = "PROCESS" => run[f].row \in DOMAIN RowsOf[f] /\ RowRecorded(f, run[f].row)

(* The retry job has budget for what it has to do.                         *)
Budgeted == \A r \in job.todo : record[r].attempts < MaxAttempts

Good ==
  /\ TypeOK
  /\ AppliedIsComplete /\ \A f \in Files : Behind(f)
  /\ SettledByOneRow
  /\ Budgeted

-----------------------------------------------------------------------------
(* The rows of a record.                                                   *)

LEMMA RowsAre ==
  ASSUME NEW row \in RecordRows
  PROVE  /\ Processed(row) \in RecordRows
         /\ Processed(row).state = "PROCESSED" /\ Processed(row).intent = row.intent
         /\ Processed(row).file = row.file /\ Processed(row).attempts = 0
         /\ \A i \in Intents :
              /\ [Processed(row) EXCEPT !.intent = i] \in RecordRows
              /\ [Processed(row) EXCEPT !.intent = i].state = "PROCESSED"
              /\ [Processed(row) EXCEPT !.intent = i].intent = i
              /\ [Processed(row) EXCEPT !.intent = i].file = row.file
              /\ [Processed(row) EXCEPT !.intent = i].attempts = 0
         /\ \A code : /\ KeptOpen(row, code) \in RecordRows
                      /\ KeptOpen(row, code).state = row.state
                      /\ KeptOpen(row, code).intent = row.intent
                      /\ KeptOpen(row, code).file = row.file
                      /\ KeptOpen(row, code).attempts = row.attempts
<1>0. 0 \in 0..MaxAttempts
  BY SettlementConstants
<1>1. /\ Processed(row) \in RecordRows
      /\ Processed(row).state = "PROCESSED" /\ Processed(row).intent = row.intent
      /\ Processed(row).file = row.file /\ Processed(row).attempts = 0
  BY <1>0 DEF Processed, RecordRows
<1>2. ASSUME NEW i \in Intents
      PROVE  /\ [Processed(row) EXCEPT !.intent = i] \in RecordRows
             /\ [Processed(row) EXCEPT !.intent = i].state = "PROCESSED"
             /\ [Processed(row) EXCEPT !.intent = i].intent = i
             /\ [Processed(row) EXCEPT !.intent = i].file = row.file
             /\ [Processed(row) EXCEPT !.intent = i].attempts = 0
  <2> DEFINE p == Processed(row)
  <2>1. p \in RecordRows /\ p.state = "PROCESSED" /\ p.file = row.file /\ p.attempts = 0
    BY <1>1
  <2> HIDE DEF p
  <2>2. /\ [p EXCEPT !.intent = i] \in RecordRows
        /\ [p EXCEPT !.intent = i].state = p.state /\ [p EXCEPT !.intent = i].intent = i
        /\ [p EXCEPT !.intent = i].file = p.file /\ [p EXCEPT !.intent = i].attempts = p.attempts
    BY <2>1 DEF RecordRows
  <2> QED BY <2>1, <2>2 DEF p
<1>3. ASSUME NEW code
      PROVE  /\ KeptOpen(row, code) \in RecordRows
             /\ KeptOpen(row, code).state = row.state
             /\ KeptOpen(row, code).intent = row.intent
             /\ KeptOpen(row, code).file = row.file
             /\ KeptOpen(row, code).attempts = row.attempts
  <2>1. PICK final \in BOOLEAN : final = (code \in Permanent)
    <3>1. (code \in Permanent) \in BOOLEAN
      OBVIOUS
    <3> QED BY <3>1
  <2>2. KeptOpen(row, code) = [row EXCEPT !.final = final]
    BY <2>1 DEF KeptOpen
  <2> QED BY <2>2 DEF RecordRows
<1> QED BY <1>1, <1>2, <1>3

LEMMA BookedIs ==
  ASSUME NEW row \in RecordRows, row.attempts < MaxAttempts
  PROVE  /\ Booked(row) \in RecordRows
         /\ Booked(row).state = row.state /\ Booked(row).intent = row.intent
         /\ Booked(row).file = row.file
<1>1. row.attempts \in 0..MaxAttempts /\ MaxAttempts \in Nat
  BY SettlementConstants DEF RecordRows
<1>2. CASE row.state = "PROCESSED"
  BY <1>2, RowsAre DEF Booked
<1>3. CASE row.state # "PROCESSED" /\ row.final
  BY <1>3 DEF Booked, RecordRows
<1>4. CASE row.state # "PROCESSED" /\ ~row.final
  <2>1. PICK attempts \in 0..MaxAttempts : attempts = row.attempts + 1
    BY <1>1
  <2>2. PICK waits \in BOOLEAN : waits = (attempts < MaxAttempts)
    <3>1. attempts < MaxAttempts => (attempts < MaxAttempts) = TRUE
      OBVIOUS
    <3>2. ~(attempts < MaxAttempts) => (attempts < MaxAttempts) = FALSE
      OBVIOUS
    <3> QED BY <3>1, <3>2
  <2>3. Booked(row) = [row EXCEPT !.attempts = attempts, !.waits = waits]
    BY <1>4, <2>1, <2>2 DEF Booked
  <2> QED BY <2>3 DEF RecordRows
<1> QED BY <1>2, <1>3, <1>4

(* A match has found its one intent, and no other row has settled it.      *)
LEMMA MatchIs ==
  ASSUME NEW r \in Records, Verdict(r) = "MATCH"
  PROVE  Named(r) \in Intents /\ RowsSettling(Named(r)) = {}
<1>1. Candidates(r) \subseteq Intents /\ IsFiniteSet(Candidates(r))
  BY SettlementConstants, FS_Subset DEF Candidates
<1>2. Cardinality(Candidates(r)) \in Nat
  BY <1>1, FS_CardinalityType
<1>3. Candidates(r) = {} => Cardinality(Candidates(r)) = 0
  BY FS_EmptySet
<1>4. Candidates(r) # {} => Cardinality(Candidates(r)) # 0
  BY <1>1, FS_EmptySet
<1>5. Cardinality(Candidates(r)) = 1 /\ Candidates(r) # {}
  <2>1. Unclear(r) => Verdict(r) = "AMBIGUOUS"
    BY <1>2, <1>3 DEF Verdict, Unclear
  <2>2. Candidates(r) = {} => Verdict(r) \in {"NAMELESS", "NOT_FOUND"}
    BY <1>3 DEF Verdict, Unclear
  <2> QED BY <1>2, <1>4, <2>1, <2>2 DEF Unclear
<1>6. Named(r) \in Candidates(r)
  BY <1>5 DEF Named
<1>7. Verdict(r) = IF RowsSettling(Named(r)) # {} THEN "DUPLICATE" ELSE Settleable(r)
  BY <1>5 DEF Verdict, Unclear
<1> QED BY <1>1, <1>6, <1>7

-----------------------------------------------------------------------------
(* What the steps keep.                                                    *)

Imports == AppliedIsComplete /\ \A f \in Files : Behind(f)

(* A record stays with its import.                                         *)
FilesStay == \A q \in Records : record[q].file # NoFile => record'[q].file = record[q].file

LEMMA RecordedStays ==
  ASSUME NEW f \in Files, NEW n \in DOMAIN RowsOf[f], FilesStay, RowRecorded(f, n)
  PROVE  RowsOf[f][n] # BadRow /\ record'[RowsOf[f][n]].file = f
<1>1. RowsOf[f] \in Seq(Records \union {BadRow})
  BY SettlementConstants
<1>2. RowsOf[f][n] \in Records \union {BadRow}
  BY <1>1
<1> QED BY <1>2, SettlementConstants DEF RowRecorded, FilesStay

LEMMA ImportsKept ==
  ASSUME Imports, FilesStay, NEW f \in Files,
         \A g \in Files \ {f} : import'[g] = import[g] /\ run'[g] = run[g],
         import'[f].status = "APPLIED" =>
           import[f].status = "APPLIED" \/ \A n \in DOMAIN RowsOf[f] : RowRecorded(f, n),
         Behind(f)'
  PROVE  Imports'
<1>1. ASSUME NEW g \in Files, NEW n \in DOMAIN RowsOf[g], RowRecorded(g, n) PROVE RowRecorded(g, n)'
  BY <1>1, RecordedStays DEF RowRecorded
<1>2. AppliedIsComplete'
  BY <1>1 DEF Imports, AppliedIsComplete
<1>3. ASSUME NEW g \in Files, g # f PROVE Behind(g)'
  <2>1. run'[g] = run[g] /\ Behind(g)
    BY <1>3 DEF Imports
  <2> QED BY <1>1, <2>1 DEF Behind
<1> QED BY <1>2, <1>3 DEF Imports

LEMMA AllStay == ASSUME Imports, FilesStay, UNCHANGED <<import, run>> PROVE Imports'
<1>1. ASSUME NEW g \in Files, NEW n \in DOMAIN RowsOf[g], RowRecorded(g, n) PROVE RowRecorded(g, n)'
  BY <1>1, RecordedStays DEF RowRecorded
<1> QED BY <1>1 DEF Imports, AppliedIsComplete, Behind

(* Settled rows and intents stay settled.                                  *)
LEMMA SettledKept ==
  ASSUME SettledByOneRow,
         \A q \in Records : record'[q].state = "PROCESSED" =>
           record[q].state = "PROCESSED" /\ record'[q].intent = record[q].intent,
         \A i \in Intents : intent[i] = "SETTLED" => intent'[i] = "SETTLED"
  PROVE  SettledByOneRow'
BY DEF SettledByOneRow

LEMMA ProcessStep ==
  ASSUME TypeOK, SettledByOneRow, NEW r \in Records, Process(r)
  PROVE  /\ record' \in [Records -> RecordRows]
         /\ intent' \in [Intents -> {"UNPAID", "PAID", "SETTLED"}]
         /\ SettledByOneRow' /\ FilesStay
         /\ \A q \in Records : record'[q].attempts \in {0, record[q].attempts}
<1>0. /\ record \in [Records -> RecordRows] /\ record[r] \in RecordRows
      /\ intent \in [Intents -> {"UNPAID", "PAID", "SETTLED"}]
      /\ record[r].state = "OPEN"
  BY TypeIs DEF Process
<1>1. ASSUME NEW row \in RecordRows, record' = [record EXCEPT ![r] = row],
             row.file = record[r].file, row.attempts \in {0, record[r].attempts}
      PROVE  /\ record' \in [Records -> RecordRows] /\ FilesStay
             /\ record'[r] = row /\ \A q \in Records \ {r} : record'[q] = record[q]
             /\ \A q \in Records : record'[q].attempts \in {0, record[q].attempts}
  <2>1. record'[r] = row /\ \A q \in Records \ {r} : record'[q] = record[q]
    BY <1>0, <1>1
  <2> QED BY <1>0, <1>1, <2>1 DEF FilesStay
<1>2. CASE StaysOpen(r)
  <2> DEFINE row == KeptOpen(record[r], Verdict(r))
  <2>1. row \in RecordRows /\ row.state = "OPEN" /\ row.file = record[r].file
        /\ row.attempts = record[r].attempts
    BY <1>0, RowsAre
  <2>2. record' = [record EXCEPT ![r] = row] /\ UNCHANGED intent
    BY <1>2 DEF StaysOpen
  <2> HIDE DEF row
  <2>3. SettledByOneRow'
    BY <1>1, <2>1, <2>2, SettledKept
  <2> QED BY <1>0, <1>1, <2>1, <2>2, <2>3
<1>3. CASE WalletRefuses(r)
  <2>1. UNCHANGED <<record, intent>>
    BY <1>3 DEF WalletRefuses
  <2> QED BY <1>0, <2>1 DEF FilesStay, SettledByOneRow
<1>4. CASE Matches(r)
  <2> DEFINE i == Named(r)
             row == [Processed(record[r]) EXCEPT !.intent = i]
  <2>1. i \in Intents /\ RowsSettling(i) = {}
    BY <1>4, MatchIs DEF Matches
  <2>2. intent' = [intent EXCEPT ![i] = "SETTLED"]
    BY <1>4 DEF Matches
  <2>3. /\ intent' \in [Intents -> {"UNPAID", "PAID", "SETTLED"}] /\ intent'[i] = "SETTLED"
        /\ \A j \in Intents : intent[j] = "SETTLED" => intent'[j] = "SETTLED"
    BY <1>0, <2>1, <2>2
  <2>4. ASSUME NEW code, record' = [record EXCEPT ![r] = KeptOpen(record[r], code)]
        PROVE  /\ record' \in [Records -> RecordRows] /\ SettledByOneRow' /\ FilesStay
               /\ \A q \in Records : record'[q].attempts \in {0, record[q].attempts}
    <3> DEFINE kept == KeptOpen(record[r], code)
    <3>1. kept \in RecordRows /\ kept.state = "OPEN" /\ kept.file = record[r].file
          /\ kept.attempts = record[r].attempts
      BY <1>0, RowsAre
    <3>2. record' = [record EXCEPT ![r] = kept]
      BY <2>4
    <3> HIDE DEF kept
    <3>3. SettledByOneRow'
      BY <1>1, <2>3, <3>1, <3>2, SettledKept
    <3> QED BY <1>1, <3>1, <3>2, <3>3
  <2>5. ASSUME record' = [record EXCEPT ![r] = row]
        PROVE  /\ record' \in [Records -> RecordRows] /\ SettledByOneRow' /\ FilesStay
               /\ \A q \in Records : record'[q].attempts \in {0, record[q].attempts}
    <3>1. /\ row \in RecordRows /\ row.state = "PROCESSED" /\ row.file = record[r].file
          /\ row.attempts = 0 /\ row.intent = i
      BY <1>0, <2>1, RowsAre
    <3> HIDE DEF row, i
    <3>2. record'[r] = row /\ \A q \in Records \ {r} : record'[q] = record[q]
      BY <1>0, <2>5
    <3>3. \A q \in Records \ {r} : record[q].state = "PROCESSED" => record[q].intent # i
      BY <2>1 DEF RowsSettling
    <3>4. SettledByOneRow'
      BY <2>1, <2>3, <3>1, <3>2, <3>3 DEF SettledByOneRow
    <3> QED BY <1>1, <2>5, <3>1, <3>4
  <2>6. \/ \E code : record' = [record EXCEPT ![r] = KeptOpen(record[r], code)]
        \/ record' = [record EXCEPT ![r] = row]
    BY <1>4 DEF Matches
  <2> QED BY <2>3, <2>4, <2>5, <2>6
<1> QED BY <1>2, <1>3, <1>4 DEF Process

LEMMA ProcessOrSkipStep ==
  ASSUME TypeOK, SettledByOneRow, NEW r \in Records, ProcessOrSkip(r)
  PROVE  /\ record' \in [Records -> RecordRows]
         /\ intent' \in [Intents -> {"UNPAID", "PAID", "SETTLED"}]
         /\ SettledByOneRow' /\ FilesStay
         /\ \A q \in Records : record'[q].attempts \in {0, record[q].attempts}
<1>1. CASE UNCHANGED <<record, intent>>
  BY <1>1, TypeIs DEF FilesStay, SettledByOneRow
<1> QED BY <1>1, ProcessStep DEF ProcessOrSkip

-----------------------------------------------------------------------------
(* The imports.                                                            *)

LEMMA RowsOfIs ==
  ASSUME NEW f \in Files
  PROVE  /\ Len(RowsOf[f]) \in Nat /\ DOMAIN RowsOf[f] = 1..Len(RowsOf[f])
         /\ \A n \in DOMAIN RowsOf[f] : RowsOf[f][n] \in Records \union {BadRow}
<1>1. RowsOf[f] \in Seq(Records \union {BadRow})
  BY SettlementConstants
<1> QED BY <1>1

LEMMA StartedIs ==
  ASSUME NEW by \in {"NOBODY", "INBOX", "OPS"}
  PROVE  /\ Started(by) \in Run /\ Ended(by) \in Run /\ NoRun \in Run
         /\ Started(by).pc \in {"RECORD", "IDLE", "ENDED"}
         /\ Started(by).pc = "RECORD" => Started(by).row = 1
         /\ Ended(by).pc \in {"IDLE", "ENDED"} /\ NoRun.pc = "IDLE"
         /\ StartStatus \in {"FAILED", "APPLYING"}
<1>1. NoRun \in Run /\ NoRun.pc = "IDLE"
  BY DEF NoRun, Run
<1>2. Ended(by) \in Run /\ Ended(by).pc \in {"IDLE", "ENDED"}
  <2>1. CASE by = "INBOX"
    <3>1. Ended(by) = [NoRun EXCEPT !.pc = "ENDED", !.by = by]
      BY <2>1 DEF Ended
    <3>2. [NoRun EXCEPT !.pc = "ENDED", !.by = by] \in Run
          /\ [NoRun EXCEPT !.pc = "ENDED", !.by = by].pc = "ENDED"
      BY <1>1 DEF Run
    <3> QED BY <3>1, <3>2
  <2>2. CASE by # "INBOX"
    BY <1>1, <2>2 DEF Ended
  <2> QED BY <2>1, <2>2
<1>3. /\ [pc |-> "RECORD", by |-> by, row |-> 1] \in Run
      /\ [pc |-> "RECORD", by |-> by, row |-> 1].pc = "RECORD"
      /\ [pc |-> "RECORD", by |-> by, row |-> 1].row = 1
  BY DEF Run
<1> QED BY <1>1, <1>2, <1>3 DEF Started, StartStatus

LEMMA ImportStepKeeps ==
  ASSUME Good, NEW f \in Files,
         \/ PutIntoInbox(f) \/ Upload(f) \/ ImportByCommand(f) \/ InboxStep(f)
         \/ RetryImport(f) \/ ExecuteAgain(f) \/ ImportStep(f) \/ ImportDies(f)
  PROVE  Good'
<1>0. /\ place \in [Files -> Place] /\ import \in [Files -> ImportRow]
      /\ run \in [Files -> Run] /\ record \in [Records -> RecordRows]
      /\ intent \in [Intents -> {"UNPAID", "PAID", "SETTLED"}]
      /\ job \in Job /\ events \in 0..MaxEvents
      /\ TypeOK /\ Imports /\ SettledByOneRow /\ Budgeted
  BY TypeIs DEF Good, Imports
<1>1. /\ UNCHANGED record => FilesStay
      /\ UNCHANGED <<record, job>> => Budgeted'
      /\ UNCHANGED <<record, intent>> => SettledByOneRow'
  BY <1>0 DEF FilesStay, Budgeted, SettledByOneRow
(* The place of a file, and no more.                                       *)
<1>2. ASSUME place' \in [Files -> Place], events' \in 0..MaxEvents,
             UNCHANGED <<import, run, record, intent, job>>
      PROVE  Good'
  <2>1. TypeOK'
    BY <1>0, <1>2, TypeIs DEF TypeOK, Place, ImportRow, Run, RecordRows, Job
  <2>2. Imports'
    BY <1>0, <1>1, <1>2, AllStay
  <2> QED BY <1>1, <1>2, <2>1, <2>2 DEF Good, Imports
(* The import of one file and its run.                                     *)
<1>3. ASSUME NEW row \in ImportRow, NEW new \in Run,
             import' = [import EXCEPT ![f] = row], run' = [run EXCEPT ![f] = new],
             row.status = "APPLIED" =>
               import[f].status = "APPLIED" \/ \A n \in DOMAIN RowsOf[f] : RowRecorded(f, n),
             new.pc \in {"RECORD", "IDLE", "ENDED"}, new.pc = "RECORD" => new.row = 1,
             place' \in [Files -> Place], events' \in 0..MaxEvents,
             UNCHANGED <<record, intent, job>>
      PROVE  Good'
  <2>1. TypeOK'
    BY <1>0, <1>3, TypeIs DEF TypeOK, Place, ImportRow, Run, RecordRows, Job
  <2>2. /\ import'[f] = row /\ run'[f] = new
        /\ \A g \in Files \ {f} : import'[g] = import[g] /\ run'[g] = run[g]
    BY <1>0, <1>3
  <2>3. Behind(f)'
    BY <1>3, <2>2, RowsOfIs DEF Behind
  <2>4. Imports'
    BY <1>0, <1>1, <1>3, <2>2, <2>3, ImportsKept
  <2> QED BY <1>1, <1>3, <2>1, <2>4 DEF Good, Imports
<1>4. \A status \in {"NOT_APPLIED", "APPLYING", "APPLIED", "FAILED"} :
        /\ [import[f] EXCEPT !.status = status] \in ImportRow
        /\ [import[f] EXCEPT !.status = status].status = status
  BY <1>0 DEF ImportRow
<1>5. events < MaxEvents => events + 1 \in 0..MaxEvents
  BY <1>0, SettlementConstants
<1>6. /\ run[f] \in Run /\ run[f].by \in {"NOBODY", "INBOX", "OPS"} /\ run[f].row \in Nat
      /\ Behind(f) /\ import[f] \in ImportRow
  BY <1>0 DEF Run, Imports
<1>7. ASSUME NEW path \in {"INBOX", "UPLOADS"}, NEW by \in {"INBOX", "OPS"}, RegisterAndStart(f, path, by)
      PROVE  Good'
  <2>1. [status |-> StartStatus, path |-> path] \in ImportRow
        /\ [status |-> StartStatus, path |-> path].status # "APPLIED"
    BY StartedIs DEF ImportRow
  <2> QED BY <1>0, <1>3, <1>7, <2>1, StartedIs DEF RegisterAndStart
<1>8. CASE PutIntoInbox(f)
  BY <1>0, <1>2, <1>5, <1>8 DEF PutIntoInbox, Place
<1>9. CASE InboxArchivesDuplicate(f)
  BY <1>0, <1>2, <1>9 DEF InboxArchivesDuplicate, Place
<1>10. CASE RetryImport(f)
  <2> DEFINE status == IF Readable(f) THEN StartStatus ELSE "NOT_APPLIED"
             new == IF Readable(f) THEN Started("OPS") ELSE NoRun
  <2>1. status \in {"NOT_APPLIED", "APPLYING", "FAILED"}
    BY StartedIs
  <2>2. /\ new \in Run /\ new.pc \in {"RECORD", "IDLE", "ENDED"}
        /\ new.pc = "RECORD" => new.row = 1
    BY StartedIs
  <2>3. /\ import' = [import EXCEPT ![f] = [import[f] EXCEPT !.status = status]]
        /\ run' = [run EXCEPT ![f] = new]
        /\ events' = events + 1 /\ UNCHANGED <<place, record, intent, job>> /\ events < MaxEvents
    BY <1>10 DEF RetryImport
  <2> HIDE DEF status, new
  <2> QED BY <1>0, <1>3, <1>4, <1>5, <2>1, <2>2, <2>3
<1>11. CASE ExecuteAgain(f)
  <2> DEFINE applied == import[f].status = "APPLIED"
             status == IF applied THEN "FAILED" ELSE StartStatus
             new == IF applied THEN NoRun ELSE Started("OPS")
  <2>1. status \in {"NOT_APPLIED", "APPLYING", "FAILED"}
    BY StartedIs
  <2>2. new \in {NoRun, Started("OPS")}
    OBVIOUS
  <2>3. /\ import' = [import EXCEPT ![f] = [import[f] EXCEPT !.status = status]]
        /\ run' = [run EXCEPT ![f] = new]
        /\ events' = events + 1 /\ UNCHANGED <<place, record, intent, job>> /\ events < MaxEvents
    BY <1>11 DEF ExecuteAgain
  <2> HIDE DEF status, new
  <2> QED BY <1>0, <1>3, <1>4, <1>5, <2>1, <2>2, <2>3, StartedIs
<1>12. CASE FailImport(f)
  <2>1. /\ import' = [import EXCEPT ![f] = [import[f] EXCEPT !.status = "FAILED"]]
        /\ run' = [run EXCEPT ![f] = Ended(run[f].by)]
        /\ UNCHANGED <<place, record, intent, job, events>>
    BY <1>12 DEF FailImport
  <2> QED BY <1>0, <1>3, <1>4, <1>6, <2>1, StartedIs
<1>13. CASE CompleteImport(f)
  <2>1. /\ import' = [import EXCEPT ![f] = [import[f] EXCEPT !.status = "APPLIED"]]
        /\ run' = [run EXCEPT ![f] = Ended(run[f].by)]
        /\ UNCHANGED <<place, record, intent, job, events>>
        /\ run[f].pc = "RECORD" /\ ~RowsLeft(f)
    BY <1>13 DEF CompleteImport
  <2>2. \A n \in DOMAIN RowsOf[f] : RowRecorded(f, n)
    BY <1>6, <2>1, RowsOfIs DEF RowsLeft, Behind
  <2> QED BY <1>0, <1>3, <1>4, <1>6, <2>1, <2>2, StartedIs
<1>14. CASE EndRun(f)
  <2>1. /\ run' = [run EXCEPT ![f] = NoRun] /\ place' \in [Files -> Place]
        /\ UNCHANGED <<import, record, intent, job, events>>
    BY <1>0, <1>14 DEF EndRun, Place
  <2>2. import' = [import EXCEPT ![f] = import[f]]
    BY <1>0, <2>1
  <2> QED BY <1>0, <1>3, <1>6, <2>1, <2>2, StartedIs
<1>15. CASE ImportDies(f)
  <2>1. /\ run' = [run EXCEPT ![f] = NoRun] /\ events' = events + 1 /\ events < MaxEvents
        /\ UNCHANGED <<place, import, record, intent, job>>
    BY <1>15 DEF ImportDies
  <2>2. import' = [import EXCEPT ![f] = import[f]]
    BY <1>0, <2>1
  <2> QED BY <1>0, <1>3, <1>5, <1>6, <2>1, <2>2, StartedIs
<1>16. CASE RecordRow(f)
  <2> DEFINE r == Row(f)
             old == record[r]
             new == Recorded(old, f)
             step == [run[f] EXCEPT !.pc = "PROCESS"]
  <2>1. run[f].pc = "RECORD" /\ RowsLeft(f) /\ Acceptable(f, r)
    BY <1>16 DEF RecordRow
  <2>2. run[f].row \in DOMAIN RowsOf[f] /\ r \in Records /\ old \in RecordRows
    BY <1>0, <1>6, <2>1, RowsOfIs DEF RowsLeft, Behind, Acceptable, Row
  <2>3. record' = [record EXCEPT ![r] = new]
    BY <1>16 DEF RecordRow
  <2>4. run' = [run EXCEPT ![f] = step]
    BY <1>16 DEF RecordRow
  <2>5. /\ new \in RecordRows /\ new.file = f /\ new.intent = old.intent
        /\ new.state = "PROCESSED" <=> old.state = "PROCESSED"
        /\ new.attempts = old.attempts
    BY <2>2 DEF RecordRows, Recorded
  <2>6. step \in Run /\ step.pc = "PROCESS" /\ step.row = run[f].row
    BY <1>6 DEF Run
  <2>7. old.file \in {NoFile, f} /\ r # BadRow
    BY <2>1 DEF Acceptable
  <2> HIDE DEF new, step, r
  <2>8. record'[r] = new /\ \A q \in Records \ {r} : record'[q] = record[q]
    BY <1>0, <2>2, <2>3
  <2>9. run'[f] = step /\ \A g \in Files \ {f} : run'[g] = run[g]
    BY <1>0, <2>4
  <2>10. UNCHANGED <<place, import, intent, job, events>>
    BY <1>16 DEF RecordRow
  <2>11. TypeOK'
    BY <1>0, <2>2, <2>3, <2>4, <2>5, <2>6, <2>10, TypeIs
       DEF TypeOK, Place, ImportRow, Run, RecordRows, Job
  <2>12. FilesStay
    BY <2>5, <2>7, <2>8 DEF FilesStay
  <2>13. RowRecorded(f, run[f].row)'
    <3>1. RowsOf[f][run[f].row] = r
      BY DEF r, Row
    <3>2. run'[f].row = run[f].row
      BY <2>6, <2>9
    <3> QED BY <2>5, <2>7, <2>8, <3>1, <3>2 DEF RowRecorded
  <2>14. ASSUME NEW n \in DOMAIN RowsOf[f], RowRecorded(f, n) PROVE RowRecorded(f, n)'
    BY <2>12, <2>14, RecordedStays DEF RowRecorded
  <2>15. Behind(f)'
    BY <1>6, <2>1, <2>2, <2>6, <2>9, <2>13, <2>14 DEF Behind
  <2>16. Imports'
    BY <1>0, <2>9, <2>10, <2>12, <2>15, ImportsKept
  <2>17. SettledByOneRow'
    BY <1>0, <2>5, <2>8, <2>10, SettledKept
  <2>18. Budgeted'
    <3>1. job.todo \subseteq Records
      BY <1>0 DEF Job
    <3> QED BY <1>0, <2>5, <2>8, <2>10, <3>1 DEF Budgeted
  <2> QED BY <2>11, <2>16, <2>17, <2>18 DEF Good, Imports
<1>17. CASE ProcessRow(f)
  <2> DEFINE r == Row(f)
             step == [run[f] EXCEPT !.pc = "RECORD", !.row = run[f].row + 1]
  <2>1. run[f].pc = "PROCESS" /\ ProcessOrSkip(r) /\ UNCHANGED <<place, import, job, events>>
    BY <1>17 DEF ProcessRow
  <2>2. run[f].row \in DOMAIN RowsOf[f] /\ RowRecorded(f, run[f].row) /\ r \in Records
    BY <1>6, <2>1, RowsOfIs DEF Behind, RowRecorded, Row
  <2>3. /\ record' \in [Records -> RecordRows]
        /\ intent' \in [Intents -> {"UNPAID", "PAID", "SETTLED"}]
        /\ SettledByOneRow' /\ FilesStay
        /\ \A q \in Records : record'[q].attempts \in {0, record[q].attempts}
    BY <1>0, <2>1, <2>2, ProcessOrSkipStep
  <2>4. run' = [run EXCEPT ![f] = step]
    BY <1>17 DEF ProcessRow
  <2>5. step \in Run /\ step.pc = "RECORD" /\ step.row = run[f].row + 1
    <3>1. run[f].row + 1 \in Nat
      BY <1>6
    <3> QED BY <1>6, <3>1 DEF Run
  <2> HIDE DEF step, r
  <2>6. run'[f] = step /\ \A g \in Files \ {f} : run'[g] = run[g]
    BY <1>0, <2>4
  <2>7. TypeOK'
    BY <1>0, <2>1, <2>3, <2>4, <2>5, TypeIs DEF TypeOK, Place, ImportRow, Run, RecordRows, Job
  <2>8. ASSUME NEW n \in DOMAIN RowsOf[f], RowRecorded(f, n) PROVE RowRecorded(f, n)'
    BY <2>3, <2>8, RecordedStays DEF RowRecorded
  <2>9. \A n \in DOMAIN RowsOf[f] : n < run[f].row + 1 => RowRecorded(f, n)
    BY <1>6, <2>1, <2>2, RowsOfIs DEF Behind
  <2>10. Behind(f)'
    BY <1>6, <2>1, <2>5, <2>6, <2>8, <2>9 DEF Behind
  <2>11. Imports'
    BY <1>0, <2>1, <2>3, <2>6, <2>10, ImportsKept
  <2>12. Budgeted'
    <3>1. job.todo \subseteq Records /\ MaxAttempts \in Nat \ {0}
      BY <1>0, SettlementConstants DEF Job
    <3> QED BY <1>0, <2>1, <2>3, <3>1 DEF Budgeted
  <2> QED BY <2>3, <2>7, <2>11, <2>12 DEF Good, Imports
<1> QED BY <1>7, <1>8, <1>9, <1>10, <1>11, <1>12, <1>13, <1>14, <1>15, <1>16, <1>17
        DEF Upload, ImportByCommand, InboxStep, InboxTakes, ImportStep

-----------------------------------------------------------------------------
(* The other steps, which leave the files alone.                           *)

LEMMA RecordsStep ==
  ASSUME Good, UNCHANGED files, events' \in 0..MaxEvents,
         record' \in [Records -> RecordRows], job' \in Job,
         intent' \in [Intents -> {"UNPAID", "PAID", "SETTLED"}],
         FilesStay, SettledByOneRow', Budgeted'
  PROVE  Good'
<1>1. TypeOK'
  BY TypeIs DEF Good, files, TypeOK, Place, ImportRow, Run, RecordRows, Job
<1>2. Imports'
  BY AllStay DEF Good, Imports, files
<1> QED BY <1>1, <1>2 DEF Good, Imports

LEMMA BudgetKept ==
  ASSUME TypeOK, Budgeted, job'.todo \subseteq job.todo,
         \A q \in Records : record'[q].attempts \in {0, record[q].attempts}
  PROVE  Budgeted'
<1>1. job.todo \subseteq Records /\ MaxAttempts \in Nat \ {0}
  BY SettlementConstants, TypeIs DEF Job
<1> QED BY <1>1 DEF Budgeted

LEMMA PayKeeps == ASSUME Good, NEW i \in Intents, Pay(i) PROVE Good'
<1>1. /\ intent \in [Intents -> {"UNPAID", "PAID", "SETTLED"}]
      /\ record \in [Records -> RecordRows] /\ job \in Job /\ events \in 0..MaxEvents
  BY TypeIs DEF Good
<1>2. /\ intent[i] = "UNPAID" /\ intent' = [intent EXCEPT ![i] = "PAID"]
      /\ UNCHANGED <<files, record, job, events>>
  BY DEF Pay
<1>3. /\ intent' \in [Intents -> {"UNPAID", "PAID", "SETTLED"}]
      /\ \A j \in Intents : intent[j] = "SETTLED" => intent'[j] = "SETTLED"
  BY <1>1, <1>2
<1>4. SettledByOneRow'
  BY <1>2, <1>3, SettledKept DEF Good
<1> QED BY <1>1, <1>2, <1>3, <1>4, RecordsStep DEF Good, FilesStay, Budgeted

LEMMA OpsReprocessKeeps == ASSUME Good, NEW r \in Records, OpsReprocess(r) PROVE Good'
<1>1. TypeOK /\ job \in Job /\ events \in 0..MaxEvents
  BY TypeIs DEF Good
<1>2. Process(r) /\ UNCHANGED <<files, job, events>>
  BY DEF OpsReprocess
<1>3. Budgeted'
  BY <1>1, <1>2, ProcessStep, BudgetKept DEF Good
<1> QED BY <1>1, <1>2, <1>3, ProcessStep, RecordsStep DEF Good

(* A record that keeps all but its reason, its attempts and its waiting.   *)
LEMMA RewriteKeeps ==
  ASSUME Good, UNCHANGED <<files, intent>>, events' \in 0..MaxEvents, job' \in Job,
         NEW r \in Records, NEW row \in RecordRows, record' = [record EXCEPT ![r] = row],
         row.state = record[r].state, row.intent = record[r].intent, row.file = record[r].file,
         Budgeted'
  PROVE  Good'
<1>1. /\ record \in [Records -> RecordRows]
      /\ intent \in [Intents -> {"UNPAID", "PAID", "SETTLED"}]
  BY TypeIs DEF Good
<1>2. record'[r] = row /\ \A q \in Records \ {r} : record'[q] = record[q]
  BY <1>1
<1>3. record' \in [Records -> RecordRows]
  BY <1>1
<1>4. FilesStay
  BY <1>2 DEF FilesStay
<1>5. SettledByOneRow'
  BY <1>2, SettledKept DEF Good
<1> QED BY <1>1, <1>3, <1>4, <1>5, RecordsStep

LEMMA WaitEndsKeeps == ASSUME Good, NEW r \in Records, WaitEnds(r) PROVE Good'
<1> DEFINE row == [record[r] EXCEPT !.waits = FALSE]
<1>1. record[r] \in RecordRows /\ record \in [Records -> RecordRows] /\ job \in Job
      /\ events \in 0..MaxEvents /\ Budgeted
  BY TypeIs DEF Good
<1>2. /\ row \in RecordRows /\ row.attempts = record[r].attempts
      /\ row.state = record[r].state /\ row.intent = record[r].intent /\ row.file = record[r].file
  BY <1>1 DEF RecordRows
<1>3. record' = [record EXCEPT ![r] = row] /\ UNCHANGED <<files, intent, job, events>>
  BY DEF WaitEnds
<1> HIDE DEF row
<1>4. Budgeted'
  <2>1. record'[r] = row /\ \A q \in Records \ {r} : record'[q] = record[q]
    BY <1>1, <1>3
  <2>2. job.todo \subseteq Records
    BY <1>1 DEF Job
  <2> QED BY <1>1, <1>2, <1>3, <2>1, <2>2 DEF Budgeted
<1> QED BY <1>1, <1>2, <1>3, <1>4, RewriteKeeps

-----------------------------------------------------------------------------
(* The retry job.                                                          *)

LEMMA JobStartsKeeps == ASSUME Good, JobStarts PROVE Good'
<1> DEFINE due == {r \in Records : Due(r)}
<1>1. job \in Job /\ events \in 0..MaxEvents /\ record \in [Records -> RecordRows]
      /\ intent \in [Intents -> {"UNPAID", "PAID", "SETTLED"}] /\ SettledByOneRow
  BY TypeIs DEF Good
<1>2. /\ job' = [pc |-> "PROCESS", todo |-> Earliest(due, Limit)]
      /\ UNCHANGED <<files, record, intent, events>>
  BY DEF JobStarts
<1>3. Earliest(due, Limit) \subseteq due
  BY DEF Earliest
<1>4. job' \in Job /\ job'.todo \subseteq due
  BY <1>2, <1>3 DEF Job
<1>5. Budgeted'
  BY <1>2, <1>4 DEF Budgeted, Due
<1>6. FilesStay /\ SettledByOneRow'
  BY <1>1, <1>2 DEF FilesStay, SettledByOneRow
<1> QED BY <1>1, <1>2, <1>4, <1>5, <1>6, RecordsStep

LEMMA JobProcessesKeeps == ASSUME Good, JobProcesses PROVE Good'
<1>1. TypeOK /\ SettledByOneRow /\ job \in Job /\ events \in 0..MaxEvents
  BY TypeIs DEF Good
<1>2. PICK r \in Records : ProcessOrSkip(r)
  BY DEF JobProcesses
<1>3. job' = [job EXCEPT !.pc = "BOOK"] /\ UNCHANGED <<files, events>>
  BY DEF JobProcesses
<1>4. job' \in Job /\ job'.todo = job.todo
  BY <1>1, <1>3 DEF Job
<1>5. /\ record' \in [Records -> RecordRows]
      /\ intent' \in [Intents -> {"UNPAID", "PAID", "SETTLED"}]
      /\ SettledByOneRow' /\ FilesStay
      /\ \A q \in Records : record'[q].attempts \in {0, record[q].attempts}
  BY <1>1, <1>2, ProcessOrSkipStep
<1>6. Budgeted'
  BY <1>1, <1>4, <1>5, BudgetKept DEF Good
<1> QED BY <1>1, <1>3, <1>4, <1>5, <1>6, RecordsStep

LEMMA JobBooksKeeps == ASSUME Good, JobBooks PROVE Good'
<1>1. job \in Job /\ events \in 0..MaxEvents /\ record \in [Records -> RecordRows] /\ Budgeted
  BY TypeIs DEF Good
<1>2. PICK r \in Records :
        /\ First(r)
        /\ record' = [record EXCEPT ![r] = Booked(record[r])]
        /\ job' = IF job.todo = {r} THEN NoJob ELSE [pc |-> "PROCESS", todo |-> job.todo \ {r}]
  BY DEF JobBooks
<1>3. UNCHANGED <<files, intent, events>>
  BY DEF JobBooks
<1>4. r \in job.todo /\ job.todo \subseteq Records /\ record[r].attempts < MaxAttempts
  BY <1>1, <1>2 DEF First, Job, Budgeted
<1>5. /\ Booked(record[r]) \in RecordRows
      /\ Booked(record[r]).state = record[r].state /\ Booked(record[r]).intent = record[r].intent
      /\ Booked(record[r]).file = record[r].file
  BY <1>1, <1>4, BookedIs
<1>6. job' \in Job /\ job'.todo \subseteq job.todo \ {r}
  BY <1>2, <1>4 DEF Job, NoJob
<1>7. \A q \in Records \ {r} : record'[q] = record[q]
  BY <1>1, <1>2
<1>8. Budgeted'
  BY <1>1, <1>4, <1>6, <1>7 DEF Budgeted
<1> QED BY <1>1, <1>2, <1>3, <1>5, <1>6, <1>8, RewriteKeeps

LEMMA JobDiesKeeps == ASSUME Good, JobDies PROVE Good'
<1>1. job \in Job /\ events \in 0..MaxEvents /\ record \in [Records -> RecordRows]
      /\ intent \in [Intents -> {"UNPAID", "PAID", "SETTLED"}] /\ SettledByOneRow
  BY TypeIs DEF Good
<1>2. job' = NoJob /\ events < MaxEvents /\ events' = events + 1 /\ UNCHANGED <<files, record, intent>>
  BY DEF JobDies
<1>3. job' \in Job /\ Budgeted'
  BY <1>2 DEF NoJob, Job, Budgeted
<1>4. events' \in 0..MaxEvents
  BY <1>1, <1>2, SettlementConstants
<1>5. FilesStay /\ SettledByOneRow'
  BY <1>1, <1>2 DEF FilesStay, SettledByOneRow
<1> QED BY <1>1, <1>2, <1>3, <1>4, <1>5, RecordsStep

-----------------------------------------------------------------------------
LEMMA GoodInit == Init => Good
<1> SUFFICES ASSUME Init PROVE Good
  OBVIOUS
<1>1. NoRecord \in RecordRows /\ NoRecord.state = "NONE" /\ NoImport \in ImportRow
      /\ NoImport.status = "NONE" /\ NoRun \in Run /\ NoRun.pc = "IDLE"
      /\ NoJob \in Job /\ NoJob.todo = {}
  BY SettlementConstants DEF NoRecord, RecordRows, NoImport, ImportRow, NoRun, Run, NoJob, Job
<1>2. /\ place = [f \in Files |-> "NOWHERE"] /\ import = [f \in Files |-> NoImport]
      /\ run = [f \in Files |-> NoRun] /\ record = [r \in Records |-> NoRecord]
      /\ intent = [i \in Intents |-> "UNPAID"] /\ job = NoJob /\ events = 0
  BY DEF Init
<1>3. TypeOK
  BY <1>1, <1>2, TypeIs, SettlementConstants DEF Place
<1> HIDE DEF Init
<1>4. Imports
  BY <1>1, <1>2 DEF Imports, AppliedIsComplete, Behind
<1>5. SettledByOneRow /\ Budgeted
  BY <1>1, <1>2 DEF SettledByOneRow, Budgeted
<1> QED BY <1>3, <1>4, <1>5 DEF Good, Imports

LEMMA StutterKeeps == ASSUME Good, UNCHANGED vars PROVE Good'
<1>1. UNCHANGED files /\ UNCHANGED <<record, intent, job, events>>
  BY DEF vars, files
<1>2. /\ record \in [Records -> RecordRows] /\ job \in Job /\ events \in 0..MaxEvents
      /\ intent \in [Intents -> {"UNPAID", "PAID", "SETTLED"}] /\ SettledByOneRow /\ Budgeted
  BY TypeIs DEF Good
<1>3. FilesStay /\ SettledByOneRow' /\ Budgeted'
  BY <1>1, <1>2 DEF FilesStay, SettledByOneRow, Budgeted
<1> QED BY <1>1, <1>2, <1>3, RecordsStep

LEMMA Invariance == Spec => []Good
<1>1. Good /\ [Next]_vars => Good'
  <2> SUFFICES ASSUME Good, [Next]_vars PROVE Good'
    OBVIOUS
  <2>1. CASE \E i \in Intents : Pay(i)
    BY <2>1, PayKeeps
  <2>2. CASE \E f \in Files :
               \/ PutIntoInbox(f) \/ Upload(f) \/ ImportByCommand(f) \/ InboxStep(f)
               \/ RetryImport(f) \/ ExecuteAgain(f) \/ ImportStep(f) \/ ImportDies(f)
    BY <2>2, ImportStepKeeps
  <2>3. CASE \E r \in Records : OpsReprocess(r) \/ WaitEnds(r)
    BY <2>3, OpsReprocessKeeps, WaitEndsKeeps
  <2>4. CASE JobStep \/ JobDies
    BY <2>4, JobStartsKeeps, JobProcessesKeeps, JobBooksKeeps, JobDiesKeeps DEF JobStep
  <2>5. CASE UNCHANGED vars
    BY <2>5, StutterKeeps
  <2> QED BY <2>1, <2>2, <2>3, <2>4, <2>5 DEF Next
<1> QED BY <1>1, GoodInit, PTL DEF Spec

(* Every field keeps its range: among others, no record is booked a retry  *)
(* beyond SETTLEMENT_REPROCESS_MAX_ATTEMPTS, whoever processes it while    *)
(* the job is at it (reprocess_unresolved_settlement_records).             *)
THEOREM TypeCorrect == Spec => []TypeOK
BY Invariance, PTL DEF Good

(* An import that execute_settlement_import calls APPLIED has recorded     *)
(* every row of its file, however often it died, failed and was tried      *)
(* again, and whatever other files were imported meanwhile.                *)
THEOREM AppliedAlwaysComplete == Spec => []AppliedIsComplete
BY Invariance, PTL DEF Good

(* Two settlement rows never count as the settlement of one top-up, and a  *)
(* row that counts has settled it: process_settlement_record may run from  *)
(* imports, the retry job and an operator's request at the same time.      *)
THEOREM OneRowSettles == Spec => []SettledByOneRow
BY Invariance, PTL DEF Good
=============================================================================
