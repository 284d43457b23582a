--------------------------- MODULE Notifications ---------------------------
(***************************************************************************)
(* Messages to users: a notification row with one delivery attempt per     *)
(* device and one for the mail address, tasks that deliver attempts,       *)
(* retries, broadcasts and reminders, and the devices.                     *)
(*                                                                         *)
(* A transaction of a sender locks the attempt together with its           *)
(* notification and device (select_for_update over select_related), so a   *)
(* transaction is one step.  The call to the provider is between two       *)
(* transactions; a sender may die there and leave its lock in the cache    *)
(* until the lock runs out.                                                *)
(***************************************************************************)
EXTENDS Naturals, FiniteSets

CONSTANTS
  Devices, Mail,    \* where an attempt goes: a device, or the mail address
  Notes,            \* the notification rows that may arise, one per user and dedupe key
  ChannelsOf,       \* ChannelsOf[n]: those of "push" and "email" that n asks for and its
                    \* user and the settings allow
  SystemNotes,      \* the notes of a broadcast to devices
  EmailNotes,       \* the notes of a broadcast by mail
  TooLong,          \* the notes whose text the columns do not hold
  SameHandset,      \* SameHandset[d]: the other devices with d's device id, and demo ones
  Senders,          \* workers of the notifications queue
  MaxTries,         \* MAX_RETRY_COUNT
  DisableAt,        \* AUTO_DISABLE_DEVICE_FAILURE_COUNT
  MaxLost           \* bound: senders that die, answers that are lost, broadcasts that die,
                    \* rows that cannot be written

ASSUME NotificationConstants ==
  /\ Mail \notin Devices
  /\ ChannelsOf \in [Notes -> SUBSET {"push", "email"}]
  /\ SystemNotes \subseteq Notes /\ EmailNotes \subseteq Notes /\ TooLong \subseteq Notes
  /\ SameHandset \in [Devices -> SUBSET Devices]
  /\ MaxTries \in Nat \ {0} /\ DisableAt \in Nat \ {0}
  /\ MaxLost \in Nat

Attempts == {a \in Notes \X (Devices \union {Mail}) :
               IF a[2] = Mail THEN "email" \in ChannelsOf[a[1]] ELSE "push" \in ChannelsOf[a[1]]}

Broadcast == SystemNotes \union EmailNotes

VARIABLES
  device,      \* device[d]: its row
  note,        \* note[n]: the status of the notification row
  attempt,     \* attempt[a]: the row of the attempt
  queued,      \* the attempts with a task in the queue
  locked,      \* the attempts with a send lock in the cache
  sender,      \* sender[s]: what the worker is at
  broadcast,   \* the broadcast's task or thread: for whom it has still to write a row,
               \* and for whom that ended in an error
  accepted,    \* accepted[a]: how often the provider took the message
  doubted,     \* doubted[a]: how often it did and nobody recorded the answer
  lost         \* how often something was lost

vars == <<device, note, attempt, queued, locked, sender, broadcast, accepted, doubted, lost>>
ghosts == <<accepted, doubted>>

NoAttempt == [status |-> "NONE", tries |-> 0, waits |-> FALSE]
NewAttempt == [status |-> "PENDING", tries |-> 0, waits |-> FALSE]
Idle == [pc |-> "IDLE", on |-> <<>>]
NoBroadcast == [kind |-> "NONE", pc |-> "NONE", by |-> "NOBODY", todo |-> {}, errors |-> {}]

TypeOK ==
  /\ device \in [Devices -> [active: BOOLEAN, permitted: BOOLEAN, failures: 0..DisableAt]]
  /\ note \in [Notes -> {"NONE", "PENDING", "SENT", "FAILED"}]
  /\ attempt \in [Attempts -> [status: {"NONE", "PENDING", "SENT", "FAILED"},
                               tries: 0..MaxTries, waits: BOOLEAN]]
  /\ queued \subseteq Attempts /\ locked \subseteq Attempts
  /\ sender \in [Senders -> {Idle} \union
                   [pc: {"CALL", "TAKEN", "REFUSED", "INVALID"}, on: Attempts]]
  /\ broadcast \in [kind: {"NONE", "SYSTEM", "EMAIL"},
                    pc: {"NONE", "QUEUED", "RUNNING", "ENDED"},
                    by: {"NOBODY", "TASK", "THREAD"},
                    todo: SUBSET Broadcast, errors: SUBSET Broadcast]
  /\ accepted \in [Attempts -> Nat] /\ doubted \in [Attempts -> Nat]
  /\ lost \in 0..MaxLost

Init ==
  /\ device = [d \in Devices |-> [active |-> TRUE, permitted |-> TRUE, failures |-> 0]]
  /\ note = [n \in Notes |-> "NONE"]
  /\ attempt = [a \in Attempts |-> NoAttempt]
  /\ queued = {} /\ locked = {}
  /\ sender = [s \in Senders |-> Idle]
  /\ broadcast = NoBroadcast
  /\ accepted = [a \in Attempts |-> 0] /\ doubted = [a \in Attempts |-> 0]
  /\ lost = 0

-----------------------------------------------------------------------------
(* Devices.                                                                *)

Reachable(d) == device[d].active /\ device[d].permitted

(* evaluate_notification_readiness, of an account with these devices.      *)
Ready == \E d \in Devices : Reachable(d)

Off(row) == [row EXCEPT !.active = FALSE, !.permitted = FALSE]

(* A registration turns the device on and its handset's others off; the    *)
(* count of failures stays.                                                *)
UpsertDevice(d, permitted) ==
  /\ device' = [e \in Devices |->
       IF e = d THEN [device[e] EXCEPT !.active = TRUE, !.permitted = permitted]
       ELSE IF e \in SameHandset[d] /\ device[e].active THEN Off(device[e])
       ELSE device[e]]
  /\ UNCHANGED <<note, attempt, queued, locked, sender, broadcast, ghosts, lost>>

-----------------------------------------------------------------------------
(* Enqueueing: the row and its attempts, once per dedupe key.              *)

PushTarget(c) == c \in Devices /\ Reachable(c)
EmailTarget(c) == c = Mail

Created(n) ==
  /\ note' = [note EXCEPT ![n] = "PENDING"]
  /\ attempt' = [a \in Attempts |->
       IF a[1] = n /\ (PushTarget(a[2]) \/ EmailTarget(a[2])) THEN NewAttempt ELSE attempt[a]]

Enqueue(n) ==
  IF note[n] = "NONE" THEN Created(n) ELSE UNCHANGED <<note, attempt>>

(* An order, a payout, a top-up or a deal notifies, in its own transaction, *)
(* or the reminder job does, for a user without orders or reminders for    *)
(* some days: the dedupe key holds the event or the cycle.  If the row     *)
(* cannot be written, nothing is.                                          *)
Notify(n) ==
  /\ n \notin Broadcast \union TooLong
  /\ note[n] = "NONE"
  /\ Enqueue(n)
  /\ UNCHANGED <<device, queued, locked, sender, broadcast, ghosts, lost>>

-----------------------------------------------------------------------------
(* A broadcast: handed to the queue, or to a thread when the broker does   *)
(* not answer and the setting allows it.                                   *)

PrepareBroadcast(kind, by) ==
  /\ broadcast.pc = "NONE"
  /\ broadcast' = [NoBroadcast EXCEPT !.kind = kind, !.pc = "QUEUED", !.by = by]
  /\ UNCHANGED <<device, note, attempt, queued, locked, sender, ghosts, lost>>

PrepareSystemBroadcast(by) == PrepareBroadcast("SYSTEM", by)
PrepareEmailBroadcast(by) == PrepareBroadcast("EMAIL", by)

(* Who takes it: with neither, the request is answered with an error.      *)
Carriers == {"TASK", "THREAD"}

(* The requests of an admin.                                               *)
AdminBroadcast == \E by \in Carriers : PrepareSystemBroadcast(by)
AdminEmailBroadcast == \E by \in Carriers : PrepareEmailBroadcast(by)

(* Those with a device that listens, or with a verified mail address.      *)
SystemRecipients == {n \in SystemNotes : Ready}
EmailRecipients == EmailNotes

BroadcastStarts ==
  /\ broadcast.pc = "QUEUED"
  /\ broadcast' = [broadcast EXCEPT !.pc = "RUNNING",
       !.todo = IF broadcast.kind = "SYSTEM" THEN SystemRecipients ELSE EmailRecipients]
  /\ UNCHANGED <<device, note, attempt, queued, locked, sender, ghosts, lost>>

BroadcastTo(n) ==
  /\ broadcast.pc = "RUNNING" /\ n \in broadcast.todo \ TooLong
  /\ Enqueue(n)
  /\ broadcast' = [broadcast EXCEPT !.todo = @ \ {n}]
  /\ UNCHANGED <<device, queued, locked, sender, ghosts, lost>>

(* Any exception for one user is logged, and the loop goes on: the text    *)
(* never fits, or the database fails this once; nobody tries it again.     *)
BroadcastSkips(n) ==
  /\ broadcast.pc = "RUNNING" /\ n \in broadcast.todo
  /\ \/ n \in TooLong /\ lost' = lost
     \/ lost < MaxLost /\ lost' = lost + 1
  /\ broadcast' = [broadcast EXCEPT !.todo = @ \ {n}, !.errors = @ \union {n}]
  /\ UNCHANGED <<device, note, attempt, queued, locked, sender, ghosts>>

(* The thread then sends what it created: as a sender would, without a     *)
(* task; these are steps of the senders below.                             *)
BroadcastEnds ==
  /\ broadcast.pc = "RUNNING" /\ broadcast.todo = {}
  /\ broadcast' = [NoBroadcast EXCEPT !.pc = "ENDED"]
  /\ UNCHANGED <<device, note, attempt, queued, locked, sender, ghosts, lost>>

(* Mutant: a task is acknowledged when it is taken.                        *)
BroadcastLost ==
  /\ broadcast.pc = "RUNNING" /\ lost < MaxLost
  /\ broadcast' = [NoBroadcast EXCEPT !.pc = "ENDED"]
  /\ lost' = lost + 1
  /\ UNCHANGED <<device, note, attempt, queued, locked, sender, ghosts>>

(* A task comes back to the queue when its worker dies, a thread does not. *)
BroadcastDies ==
  /\ broadcast.pc = "RUNNING" /\ lost < MaxLost
  /\ broadcast' = IF broadcast.by = "TASK" THEN [broadcast EXCEPT !.pc = "QUEUED", !.todo = {}, !.errors = {}]
                  ELSE [NoBroadcast EXCEPT !.pc = "ENDED"]
  /\ lost' = lost + 1
  /\ UNCHANGED <<device, note, attempt, queued, locked, sender, ghosts>>

-----------------------------------------------------------------------------
(* Delivery.                                                               *)

(* Mutant: a failed attempt is not due again.                              *)
DueOnce(a) == attempt[a].status = "PENDING" /\ attempt[a].tries < MaxTries /\ ~attempt[a].waits

Due(a) ==
  /\ attempt[a].status \in {"PENDING", "FAILED"}
  /\ attempt[a].tries < MaxTries
  /\ ~attempt[a].waits

(* The key in the cache keeps an attempt from being queued again until it  *)
(* runs out, which may be at any time after its task was taken.            *)
QueueAttempt(a) ==
  /\ Due(a) /\ a \notin queued
  /\ queued' = queued \union {a}
  /\ UNCHANGED <<device, note, attempt, locked, sender, broadcast, ghosts, lost>>

EnqueueAttemptDelivery(a) == a[2] # Mail /\ QueueAttempt(a)
EnqueueEmailAttemptDelivery(a) == a[2] = Mail /\ QueueAttempt(a)

(* The fan-out task of a note, or the job that runs every minute.          *)
EnqueueDueAttempts == \E a \in Attempts : EnqueueAttemptDelivery(a) \/ EnqueueEmailAttemptDelivery(a)

WaitEnds(a) ==
  /\ attempt[a].waits
  /\ attempt' = [attempt EXCEPT ![a] = [@ EXCEPT !.waits = FALSE]]
  /\ UNCHANGED <<device, note, queued, locked, sender, broadcast, ghosts, lost>>

(* _sync_notification_status, after the rows have become those of rows.    *)
Of(n) == {a \in Attempts : a[1] = n}
Hopeful(row) ==
  row.tries < MaxTries /\ (row.status = "PENDING" \/ (row.status = "FAILED" /\ row.waits))

(* Mutant: mails are not looked at.                                        *)
SyncedByPush(n, rows) ==
  IF \E a \in Of(n) : a[2] # Mail /\ rows[a].status = "SENT" THEN "SENT"
  ELSE IF \E a \in Of(n) : Hopeful(rows[a]) THEN "PENDING"
  ELSE "FAILED"

Synced(n, rows) ==
  IF \E a \in Of(n) : rows[a].status = "SENT" THEN "SENT"
  ELSE IF \E a \in Of(n) : Hopeful(rows[a]) THEN "PENDING"
  ELSE "FAILED"

Save(a, row) ==
  LET rows == [attempt EXCEPT ![a] = row] IN
  /\ attempt' = rows
  /\ note' = [note EXCEPT ![a[1]] = Synced(a[1], rows)]

(* Mutant: the lock is not looked at.                                      *)
FreeAlways(a) == a \in Attempts

Free(a) == a \notin locked

Unreachable(a) == a[2] # Mail /\ ~Reachable(a[2])

(* Mutant: the budget is added to the tries.                               *)
GivenUpTwice(row) == [row EXCEPT !.status = "FAILED", !.tries = @ + MaxTries, !.waits = FALSE]

GivenUp(row) == [row EXCEPT !.status = "FAILED", !.tries = MaxTries, !.waits = FALSE]

(* No tries are left: only the note is looked at again.                    *)
Spent(a) == attempt[a].status = "FAILED" /\ attempt[a].tries = MaxTries

(* The first transaction.  Only an attempt that is due, and whose device   *)
(* still listens, leads to a call; only then does the lock outlive it.     *)
Begin(s, a) ==
  \/ /\ Free(a) /\ Due(a) /\ ~Unreachable(a)
     /\ sender' = [sender EXCEPT ![s] = [pc |-> "CALL", on |-> a]]
     /\ locked' = locked \union {a}
     /\ UNCHANGED <<attempt, note>>
  \/ /\ Free(a) /\ Due(a) /\ Unreachable(a)
     /\ Save(a, GivenUp(attempt[a]))
     /\ UNCHANGED <<sender, locked>>
  \/ /\ Free(a) /\ Spent(a)
     /\ Save(a, attempt[a])
     /\ UNCHANGED <<sender, locked>>
  \/ /\ ~(Free(a) /\ (Due(a) \/ Spent(a)))
     /\ UNCHANGED <<sender, locked, attempt, note>>

TakeTask(s, a) ==
  /\ sender[s] = Idle /\ a \in queued
  /\ queued' = queued \ {a}
  /\ Begin(s, a)
  /\ UNCHANGED <<device, broadcast, ghosts, lost>>

SendAttempt(s, a) == a[2] # Mail /\ TakeTask(s, a)
SendEmailAttempt(s, a) == a[2] = Mail /\ TakeTask(s, a)

Answer(s, pc) == sender' = [sender EXCEPT ![s] = [@ EXCEPT !.pc = pc]]

ProviderAccepts(s) ==
  /\ sender[s].pc = "CALL"
  /\ accepted' = [accepted EXCEPT ![sender[s].on] = @ + 1]
  /\ Answer(s, "TAKEN")
  /\ UNCHANGED <<device, note, attempt, queued, locked, broadcast, doubted, lost>>

ProviderRefuses(s) ==
  /\ sender[s].pc = "CALL"
  /\ Answer(s, "REFUSED")
  /\ UNCHANGED <<device, note, attempt, queued, locked, broadcast, ghosts, lost>>

TokenIsInvalid(s) ==
  /\ sender[s].pc = "CALL" /\ sender[s].on[2] # Mail
  /\ Answer(s, "INVALID")
  /\ UNCHANGED <<device, note, attempt, queued, locked, broadcast, ghosts, lost>>

(* The message is out, and the sender sees a time-out.                     *)
AnswerIsLost(s) ==
  /\ sender[s].pc = "CALL" /\ lost < MaxLost
  /\ accepted' = [accepted EXCEPT ![sender[s].on] = @ + 1]
  /\ doubted' = [doubted EXCEPT ![sender[s].on] = @ + 1]
  /\ lost' = lost + 1
  /\ Answer(s, "REFUSED")
  /\ UNCHANGED <<device, note, attempt, queued, locked, broadcast>>

(* The second transaction.                                                 *)
Sent(row) == [row EXCEPT !.status = "SENT", !.waits = FALSE]

Failed(row) ==
  LET tries == IF row.tries < MaxTries THEN row.tries + 1 ELSE row.tries IN
  [row EXCEPT !.status = "FAILED", !.tries = tries, !.waits = (tries < MaxTries)]

DeviceFailed(row, invalid) ==
  LET failures == IF row.failures < DisableAt THEN row.failures + 1 ELSE DisableAt IN
  [row EXCEPT !.failures = failures, !.active = @ /\ ~invalid /\ failures < DisableAt]

DeviceAfter(a, row) == IF a[2] = Mail THEN device ELSE [device EXCEPT ![a[2]] = row]

Done(s, a) ==
  /\ sender' = [sender EXCEPT ![s] = Idle]
  /\ locked' = locked \ {a}
  /\ UNCHANGED <<queued, broadcast, ghosts, lost>>

RecordSent(s) ==
  LET a == sender[s].on IN
  /\ sender[s].pc = "TAKEN"
  /\ IF attempt[a].status = "SENT" THEN UNCHANGED <<attempt, note, device>>
     ELSE /\ Save(a, Sent(attempt[a]))
          /\ device' = IF a[2] = Mail THEN device
                       ELSE DeviceAfter(a, [device[a[2]] EXCEPT !.failures = 0])
  /\ Done(s, a)

RecordFailed(s) ==
  LET a == sender[s].on
      invalid == sender[s].pc = "INVALID" IN
  /\ sender[s].pc \in {"REFUSED", "INVALID"}
  /\ IF attempt[a].status = "SENT" THEN UNCHANGED <<attempt, note, device>>
     ELSE /\ Save(a, IF invalid THEN GivenUp(attempt[a]) ELSE Failed(attempt[a]))
          /\ device' = IF a[2] = Mail THEN device
                       ELSE DeviceAfter(a, DeviceFailed(device[a[2]], invalid))
  /\ Done(s, a)

(* The worker is lost: its task comes back, its lock stays.                *)
SenderDies(s) ==
  /\ sender[s] # Idle /\ lost < MaxLost
  /\ sender' = [sender EXCEPT ![s] = Idle]
  /\ queued' = queued \union {sender[s].on}
  /\ doubted' = IF sender[s].pc = "TAKEN"
                THEN [doubted EXCEPT ![sender[s].on] = @ + 1] ELSE doubted
  /\ lost' = lost + 1
  /\ UNCHANGED <<device, note, attempt, locked, broadcast, accepted>>

(* A lock runs out after its sender has died; a live sender's call times   *)
(* out long before its lock of three minutes does.                         *)
LockExpires(a) ==
  /\ a \in locked /\ \A s \in Senders : sender[s].on # a
  /\ locked' = locked \ {a}
  /\ UNCHANGED <<device, note, attempt, queued, sender, broadcast, ghosts, lost>>

-----------------------------------------------------------------------------
Call(s) == ProviderAccepts(s) \/ ProviderRefuses(s) \/ TokenIsInvalid(s)

Work(s) ==
  \/ \E a \in Attempts : SendAttempt(s, a) \/ SendEmailAttempt(s, a)
  \/ Call(s) \/ RecordSent(s) \/ RecordFailed(s)

ProcessBroadcast == BroadcastStarts \/ (\E n \in Broadcast : BroadcastTo(n) \/ BroadcastSkips(n)) \/ BroadcastEnds
ProcessSystemBroadcast == broadcast.kind = "SYSTEM" /\ ProcessBroadcast
ProcessEmailBroadcast == broadcast.kind = "EMAIL" /\ ProcessBroadcast
BroadcastStep == ProcessSystemBroadcast \/ ProcessEmailBroadcast

Next ==
  \/ \E d \in Devices, permitted \in BOOLEAN : UpsertDevice(d, permitted)
  \/ \E n \in Notes : Notify(n)
  \/ AdminBroadcast \/ AdminEmailBroadcast
  \/ BroadcastStep \/ BroadcastDies
  \/ EnqueueDueAttempts
  \/ \E a \in Attempts : WaitEnds(a) \/ LockExpires(a)
  \/ \E s \in Senders : Work(s) \/ AnswerIsLost(s) \/ SenderDies(s)

Spec == Init /\ [][Next]_vars

(* The job looks every minute, workers work, a call is answered or times   *)
(* out, waits and locks end, a queued broadcast runs.                      *)
FairSpec ==
  /\ Spec
  /\ WF_vars(BroadcastStep)
  /\ \A s \in Senders : WF_vars(Work(s))
  /\ WF_vars(EnqueueDueAttempts)
  /\ WF_vars(\E a \in Attempts : WaitEnds(a))
  /\ WF_vars(\E a \in Attempts : LockExpires(a))

-----------------------------------------------------------------------------
(* Properties.                                                             *)

(* A notification says what became of its attempts, whichever senders      *)
(* finished last: sent when one of them was, failed when all were given    *)
(* up.                                                                     *)
StatusIsTrue ==
  \A n \in Notes :
     LET made == {a \in Of(n) : attempt[a].status # "NONE"} IN
     /\ note[n] = "SENT" <=> \E a \in made : attempt[a].status = "SENT"
     /\ (/\ made # {}
         /\ \A a \in made : attempt[a].status = "FAILED" /\ attempt[a].tries = MaxTries)
          => note[n] = "FAILED"

(* A provider takes a message once, unless an answer was lost or a sender  *)
(* died with it (RUNBOOK.md:87: the send lock).                            *)
TakenOnce == \A a \in Attempts : accepted[a] <= 1 + doubted[a]

(* Whatever is pending, there comes a time when no attempt is under way:   *)
(* each is sent, or its tries are used up.                                 *)
Pending(a) == attempt[a].status = "PENDING"
Ended(a) == attempt[a].status = "SENT" \/ attempt[a].tries = MaxTries
AttemptsEnd ==
  (\E a \in Attempts : Pending(a)) ~> (\A a \in Attempts : attempt[a] = NoAttempt \/ Ended(a))

(* A broadcast in the queue gets to everyone it may reach, whatever        *)
(* workers die on the way, and nobody is passed over in silence: who has   *)
(* no row in the end had an error of his own, which was logged, or lost    *)
(* the last device.                                                        *)
BroadcastReaches ==
  \A n \in Broadcast :
     broadcast.by = "TASK" /\ n \in broadcast.todo ~>
       note[n] # "NONE" \/ n \in broadcast.errors \/ (n \in SystemNotes /\ ~Ready)
=============================================================================
