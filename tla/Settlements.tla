---------------------------- MODULE Settlements ----------------------------
(***************************************************************************)
(* Settlement files on their way into the system, and the records that are *)
(* made of their rows: uploads, the inbox job, the registry that knows a   *)
(* file by its checksum, the import of a file row by row, retries of an    *)
(* import, and the job that tries unresolved records again.                *)
(*                                                                         *)
(* An import is no transaction: each row is recorded in one, processed in  *)
(* another, and a run may die between any two.  What settling a top-up     *)
(* does to the wallet is module TopUps, what a payout's row does is module *)
(* Payouts; here an intent is only paid for or not, settled or not.  A row *)
(* names intents by marks (a conversation id, a payment id, a settlement   *)
(* reference), and an intent gets most of its marks when it is paid for.   *)
(* Of the reasons a record is left open for, only those that the retry job *)
(* never tries again are told apart.                                       *)
(***************************************************************************)
EXTENDS Integers, Sequences, FiniteSets

CONSTANTS
  Files,           \* settlement files, by content
  Records,         \* the settlement records that may arise, by number
  RowsOf,          \* RowsOf[f]: the records of f's rows, in order
  BadRow,          \* a row whose amount cannot be read
  Intents,
  RowMarks,        \* RowMarks[r]: the marks record r names intents by
  EarlyMarks,      \* EarlyMarks[i]: the marks of intent i from its creation
  LateMarks,       \* LateMarks[i]: those it has once it is paid for
  RightAmount,     \* the records that name their intent's amount
  RightKey,        \* the records that do not contradict its sub-merchant key
  MaxAttempts,     \* SETTLEMENT_REPROCESS_MAX_ATTEMPTS
  Limit,           \* records a run of the retry job takes
  MaxEvents,       \* bound: files put into the inbox, imports tried again, runs that die
  RowLocks         \* TRUE: a database with row locks, which only transactions take

NoIntent == "NO_INTENT"
NoFile == "NO_FILE"

ASSUME SettlementConstants ==
  /\ Records \subseteq Nat /\ IsFiniteSet(Records)
  /\ BadRow \notin Records
  /\ RowsOf \in [Files -> Seq(Records \union {BadRow})]
  /\ NoFile \notin Files
  /\ NoIntent \notin Intents /\ IsFiniteSet(Intents)
  /\ RightAmount \subseteq Records /\ RightKey \subseteq Records
  /\ MaxAttempts \in Nat \ {0} /\ Limit \in Nat \ {0}
  /\ MaxEvents \in Nat
  /\ RowLocks \in BOOLEAN

VARIABLES
  place,       \* place[f]: the directory with the copy that was put into the inbox
  import,      \* import[f]: the import's row: its applied status and storage path
  run,         \* run[f]: the execution of f's import
  record,      \* record[r]: the settlement record's row
  intent,      \* intent[i]: the state of the payment intent
  job,         \* the run of the retry job
  events       \* how often the bounded things happened

vars == <<place, import, run, record, intent, job, events>>
files == <<place, import, run>>

(* Reasons that the retry job takes for final.                             *)
Permanent == {"DUPLICATE", "AMOUNT_MISMATCH", "AMBIGUOUS", "NAMELESS", "KEY_MISMATCH"}
NoImport == [status |-> "NONE", path |-> "NONE"]
NoRecord == [state |-> "NONE", final |-> FALSE, file |-> NoFile, intent |-> NoIntent,
             attempts |-> 0, waits |-> FALSE]
NoRun == [pc |-> "IDLE", by |-> "NOBODY", row |-> 1]
NoJob == [pc |-> "IDLE", todo |-> {}]

TypeOK ==
  /\ place \in [Files -> {"NOWHERE", "INBOX", "ARCHIVE", "FAILED"}]
  /\ import \in [Files -> [status: {"NONE", "NOT_APPLIED", "APPLYING", "APPLIED", "FAILED"},
                           path: {"NONE", "INBOX", "UPLOADS"}]]
  /\ run \in [Files -> [pc: {"IDLE", "RECORD", "PROCESS", "ENDED"},
                        by: {"NOBODY", "INBOX", "OPS"}, row: Nat]]
  /\ record \in [Records -> [state: {"NONE", "OPEN", "PROCESSED"},
                             final: BOOLEAN,
                             file: Files \union {NoFile}, intent: Intents \union {NoIntent},
                             attempts: 0..MaxAttempts, waits: BOOLEAN]]
  /\ intent \in [Intents -> {"UNPAID", "PAID", "SETTLED"}]
  /\ job \in [pc: {"IDLE", "PROCESS", "BOOK"}, todo: SUBSET Records]
  /\ events \in 0..MaxEvents

Init ==
  /\ place = [f \in Files |-> "NOWHERE"]
  /\ import = [f \in Files |-> NoImport]
  /\ run = [f \in Files |-> NoRun]
  /\ record = [r \in Records |-> NoRecord]
  /\ intent = [i \in Intents |-> "UNPAID"]
  /\ job = NoJob
  /\ events = 0

-----------------------------------------------------------------------------
(* The customers' side.                                                    *)

(* The intent is unknown or not yet paid for: the row came too early.      *)
Pay(i) ==
  /\ intent[i] = "UNPAID"
  /\ intent' = [intent EXCEPT ![i] = "PAID"]
  /\ UNCHANGED <<files, record, job, events>>

-----------------------------------------------------------------------------
(* process_settlement_record, under the record's and the intent's lock.    *)

Marks(i) == EarlyMarks[i] \union (IF intent[i] = "UNPAID" THEN {} ELSE LateMarks[i])

(* The marks must all lead to one intent.  (What the code then does with a *)
(* score is never reached: a candidate that scores has been found before.) *)
Candidates(r) == {i \in Intents : Marks(i) \intersect RowMarks[r] # {}}
Unclear(r) == Cardinality(Candidates(r)) > 1
Named(r) == CHOOSE i \in Candidates(r) : TRUE

RowsSettling(i) == {r \in Records : record[r].state = "PROCESSED" /\ record[r].intent = i}

Settleable(r) ==
  IF intent[Named(r)] = "UNPAID" THEN "NOT_READY"
  ELSE IF r \in RightAmount THEN "MATCH" ELSE "AMOUNT_MISMATCH"

(* Mutant: the record does not look for another one of its intent.         *)
VerdictAlone(r) ==
  CASE Unclear(r) -> "AMBIGUOUS"
    [] Candidates(r) = {} -> IF RowMarks[r] = {} THEN "NAMELESS" ELSE "NOT_FOUND"
    [] Cardinality(Candidates(r)) = 1 -> Settleable(r)

Verdict(r) ==
  CASE Unclear(r) -> "AMBIGUOUS"
    [] Candidates(r) = {} -> IF RowMarks[r] = {} THEN "NAMELESS" ELSE "NOT_FOUND"
    [] Cardinality(Candidates(r)) = 1 ->
         IF RowsSettling(Named(r)) # {} THEN "DUPLICATE" ELSE Settleable(r)

(* A match settles the intent, once, unless its wallet refuses (module     *)
(* TopUps), which takes it all back.  The business is looked up after      *)
(* that: when none has the row's sub-merchant key, or the intent has       *)
(* another one, the intent is settled and the row stays open.              *)
Processed(row) == [row EXCEPT !.state = "PROCESSED", !.final = FALSE,
                              !.attempts = 0, !.waits = FALSE]
KeptOpen(row, code) == [row EXCEPT !.final = (code \in Permanent)]

Matches(r) ==
  /\ Verdict(r) = "MATCH"
  /\ \E row \in IF r \notin RightKey THEN {KeptOpen(record[r], "KEY_MISMATCH")}
              ELSE {[Processed(record[r]) EXCEPT !.intent = Named(r)],
                    KeptOpen(record[r], "NO_BUSINESS")} :
       record' = [record EXCEPT ![r] = row]
  /\ intent' = [intent EXCEPT ![Named(r)] = "SETTLED"]

WalletRefuses(r) ==
  /\ Verdict(r) = "MATCH" /\ intent[Named(r)] = "PAID"
  /\ UNCHANGED <<record, intent>>

StaysOpen(r) ==
  /\ Verdict(r) # "MATCH"
  /\ record' = [record EXCEPT ![r] = KeptOpen(@, Verdict(r))]
  /\ UNCHANGED intent

Process(r) ==
  /\ record[r].state = "OPEN"
  /\ Matches(r) \/ WalletRefuses(r) \/ StaysOpen(r)

ProcessOrSkip(r) ==
  \/ Process(r)
  \/ record[r].state = "PROCESSED" /\ UNCHANGED <<record, intent>>

(* An operator asks for it: no lock, no budget.                            *)
OpsReprocess(r) ==
  /\ Process(r)
  /\ UNCHANGED <<files, job, events>>

-----------------------------------------------------------------------------
(* Files.                                                                  *)

PutIntoInbox(f) ==
  /\ place[f] # "INBOX" /\ events < MaxEvents
  /\ place' = [place EXCEPT ![f] = "INBOX"]
  /\ events' = events + 1
  /\ UNCHANGED <<import, run, record, intent, job>>

(* execute_settlement_import, up to the first row.  The lock on the import *)
(* row is asked for outside a transaction.  The inbox job is not done when *)
(* the import is: it has the file to move.                                 *)
Ended(by) == IF by = "INBOX" THEN [NoRun EXCEPT !.pc = "ENDED", !.by = by] ELSE NoRun
Started(by) == IF RowLocks THEN Ended(by) ELSE [pc |-> "RECORD", by |-> by, row |-> 1]
StartStatus == IF RowLocks THEN "FAILED" ELSE "APPLYING"

(* A second copy of a file is known by its checksum, and refused.          *)
Known(f) == import[f].status # "NONE"

RegisterAndStart(f, path, by) ==
  /\ ~Known(f)
  /\ import' = [import EXCEPT ![f] = [status |-> StartStatus, path |-> path]]
  /\ run' = [run EXCEPT ![f] = Started(by)]
  /\ UNCHANGED <<place, record, intent, job, events>>

Upload(f) == RegisterAndStart(f, "UPLOADS", "OPS")

(* An operator runs the command himself, which moves no file.              *)
ImportByCommand(f) == place[f] = "INBOX" /\ RegisterAndStart(f, "INBOX", "OPS")

InboxBusy == \E f \in Files : run[f].by = "INBOX"

InboxTakes(f) ==
  /\ place[f] = "INBOX" /\ ~InboxBusy
  /\ RegisterAndStart(f, "INBOX", "INBOX")

InboxArchivesDuplicate(f) ==
  /\ place[f] = "INBOX" /\ ~InboxBusy /\ Known(f)
  /\ place' = [place EXCEPT ![f] = "ARCHIVE"]
  /\ UNCHANGED <<import, run, record, intent, job, events>>

Readable(f) == import[f].path = "UPLOADS" \/ place[f] = "INBOX"

(* retry_settlement_import resets the import before it looks for the file. *)
Retryable(f) == Known(f) /\ import[f].status # "APPLYING"

RetryImport(f) ==
  /\ Retryable(f)
  /\ run[f].pc = "IDLE" /\ events < MaxEvents
  /\ import' = [import EXCEPT ![f].status = IF Readable(f) THEN StartStatus ELSE "NOT_APPLIED"]
  /\ run' = [run EXCEPT ![f] = IF Readable(f) THEN Started("OPS") ELSE NoRun]
  /\ events' = events + 1
  /\ UNCHANGED <<place, record, intent, job>>

(* The task that executes an import again takes one that died as well; an  *)
(* applied one is refused inside the try, which marks it as failed.        *)
ExecuteAgain(f) ==
  LET applied == import[f].status = "APPLIED" IN
  /\ Known(f) /\ Readable(f)
  /\ run[f].pc = "IDLE" /\ events < MaxEvents
  /\ import' = [import EXCEPT ![f].status = IF applied THEN "FAILED" ELSE StartStatus]
  /\ run' = [run EXCEPT ![f] = IF applied THEN NoRun ELSE Started("OPS")]
  /\ events' = events + 1
  /\ UNCHANGED <<place, record, intent, job>>

Row(f) == RowsOf[f][run[f].row]
(* Mutant: off by one.                                                     *)
RowsLeftButLast(f) == run[f].row < Len(RowsOf[f])

RowsLeft(f) == run[f].row <= Len(RowsOf[f])

(* record_settlement_row: a record of another import, or of another row,   *)
(* is drift, and like an unreadable amount it ends the import.             *)
Repeated(f) == \E n \in 1..(run[f].row - 1) : RowsOf[f][n] = Row(f)
Acceptable(f, r) == r # BadRow /\ record[r].file \in {NoFile, f} /\ ~Repeated(f)

Recorded(row, f) ==
  [row EXCEPT !.state = IF row.state = "NONE" THEN "OPEN" ELSE row.state, !.file = f]

RecordRow(f) ==
  /\ run[f].pc = "RECORD" /\ RowsLeft(f) /\ Acceptable(f, Row(f))
  /\ record' = [record EXCEPT ![Row(f)] = Recorded(@, f)]
  /\ run' = [run EXCEPT ![f].pc = "PROCESS"]
  /\ UNCHANGED <<place, import, intent, job, events>>

ProcessRow(f) ==
  /\ run[f].pc = "PROCESS"
  /\ ProcessOrSkip(Row(f))
  /\ run' = [run EXCEPT ![f].pc = "RECORD", ![f].row = @ + 1]
  /\ UNCHANGED <<place, import, job, events>>

FailImport(f) ==
  /\ run[f].pc = "RECORD" /\ RowsLeft(f) /\ ~Acceptable(f, Row(f))
  /\ import' = [import EXCEPT ![f].status = "FAILED"]
  /\ run' = [run EXCEPT ![f] = Ended(@.by)]
  /\ UNCHANGED <<place, record, intent, job, events>>

CompleteImport(f) ==
  /\ run[f].pc = "RECORD" /\ ~RowsLeft(f)
  /\ import' = [import EXCEPT ![f].status = "APPLIED"]
  /\ run' = [run EXCEPT ![f] = Ended(@.by)]
  /\ UNCHANGED <<place, record, intent, job, events>>

(* The inbox job moves its file when the import has ended.                 *)
EndRun(f) ==
  /\ run[f].pc = "ENDED"
  /\ run' = [run EXCEPT ![f] = NoRun]
  /\ place' = [place EXCEPT ![f] = IF import[f].status = "APPLIED" THEN "ARCHIVE" ELSE "FAILED"]
  /\ UNCHANGED <<import, record, intent, job, events>>

ImportDies(f) ==
  /\ run[f].pc # "IDLE" /\ events < MaxEvents
  /\ run' = [run EXCEPT ![f] = NoRun]
  /\ events' = events + 1
  /\ UNCHANGED <<place, import, record, intent, job>>

-----------------------------------------------------------------------------
(* The retry job, one run at a time by its job lock.                       *)

(* Mutant: the budget is not looked at.                                    *)
DueForEver(r) ==
  /\ record[r].state = "OPEN" /\ ~record[r].waits
  /\ ~record[r].final

Due(r) ==
  /\ record[r].state = "OPEN" /\ ~record[r].waits
  /\ ~record[r].final
  /\ record[r].attempts < MaxAttempts

First(r) == r \in job.todo /\ \A q \in job.todo : r <= q

Earliest(S, n) == {r \in S : Cardinality({q \in S : q < r}) < n}

JobStarts ==
  LET due == {r \in Records : Due(r)} IN
  /\ job.pc = "IDLE" /\ due # {}
  /\ job' = [pc |-> "PROCESS", todo |-> Earliest(due, Limit)]
  /\ UNCHANGED <<files, record, intent, events>>

JobProcesses ==
  /\ job.pc = "PROCESS"
  /\ \E r \in Records : First(r) /\ ProcessOrSkip(r)
  /\ job' = [job EXCEPT !.pc = "BOOK"]
  /\ UNCHANGED <<files, events>>

(* Mutant: the attempt is not among the saved fields.                      *)
BookedUncounted(row) ==
  IF row.state = "PROCESSED" THEN Processed(row)
  ELSE [row EXCEPT !.waits = (~row.final /\ row.attempts + 1 < MaxAttempts)]

(* The attempt is booked in a transaction of its own, whatever happened.   *)
Booked(row) ==
  IF row.state = "PROCESSED" THEN Processed(row)
  ELSE IF row.final THEN [row EXCEPT !.waits = FALSE]
  ELSE [row EXCEPT !.attempts = @ + 1,
                   !.waits = (row.attempts + 1 < MaxAttempts)]

JobBooks ==
  /\ job.pc = "BOOK"
  /\ \E r \in Records :
       /\ First(r)
       /\ record' = [record EXCEPT ![r] = Booked(@)]
       /\ job' = IF job.todo = {r} THEN NoJob ELSE [pc |-> "PROCESS", todo |-> job.todo \ {r}]
  /\ UNCHANGED <<files, intent, events>>

JobDies ==
  /\ job.pc # "IDLE" /\ events < MaxEvents
  /\ job' = NoJob
  /\ events' = events + 1
  /\ UNCHANGED <<files, record, intent>>

WaitEnds(r) ==
  /\ record[r].waits
  /\ record' = [record EXCEPT ![r].waits = FALSE]
  /\ UNCHANGED <<files, intent, job, events>>

-----------------------------------------------------------------------------
ImportStep(f) ==
  RecordRow(f) \/ ProcessRow(f) \/ FailImport(f) \/ CompleteImport(f) \/ EndRun(f)

InboxStep(f) == InboxTakes(f) \/ InboxArchivesDuplicate(f)

JobStep == JobStarts \/ JobProcesses \/ JobBooks

Next ==
  \/ \E i \in Intents : Pay(i)
  \/ \E f \in Files :
       \/ PutIntoInbox(f) \/ Upload(f) \/ ImportByCommand(f) \/ InboxStep(f)
       \/ RetryImport(f) \/ ExecuteAgain(f) \/ ImportStep(f) \/ ImportDies(f)
  \/ \E r \in Records : OpsReprocess(r) \/ WaitEnds(r)
  \/ JobStep \/ JobDies

Spec == Init /\ [][Next]_vars

(* The scheduler starts the retry job again and again, a run goes on       *)
(* unless it dies, and waiting ends.  Nothing is assumed of customers,     *)
(* operators and files.                                                    *)
FairSpec ==
  /\ Spec
  /\ WF_vars(JobStep)
  /\ \A r \in Records : WF_vars(WaitEnds(r))

-----------------------------------------------------------------------------
(* Properties.                                                             *)

(* An import is called applied only when every row of the file has become  *)
(* a record of this import, whatever runs died or were retried before.     *)
RowRecorded(f, n) == RowsOf[f][n] # BadRow /\ record[RowsOf[f][n]].file = f

AppliedIsComplete ==
  \A f \in Files : import[f].status = "APPLIED" => \A n \in DOMAIN RowsOf[f] : RowRecorded(f, n)

(* A row that counts as processed has settled its intent, and no two rows  *)
(* of the files did: the import, the retry job and an operator may all be  *)
(* at it.                                                                  *)
SettledByOneRow ==
  \A r, q \in Records :
     record[r].state = "PROCESSED" =>
       /\ record[r].intent \in Intents /\ intent[record[r].intent] = "SETTLED"
       /\ record[q].state = "PROCESSED" /\ record[q].intent = record[r].intent => q = r

(* The retry job leaves no record waiting for ever: it is processed, given *)
(* a permanent reason, or its attempts are used up.                        *)
Finished(r) ==
  \/ record[r].state = "PROCESSED"
  \/ record[r].final
  \/ record[r].attempts = MaxAttempts

RetriesEnd ==
  (\E r \in Records : record[r].state = "OPEN") ~>
    (\A r \in Records : record[r].file \in Files => Finished(r))
=============================================================================
