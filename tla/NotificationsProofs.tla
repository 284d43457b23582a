------------------------- MODULE NotificationsProofs -------------------------
(* The provider takes a message once but for lost answers and dead senders, *)
(* and the status of a notification is that of its attempts, for any number *)
(* of users, devices, senders and faults.                                  *)
EXTENDS Notifications, TLAPS

(* A sender at work has the lock of its attempt to itself, and the attempt *)
(* is not sent yet.                                                        *)
HasItsAttempt(s) ==
  sender[s] # Idle =>
    LET a == sender[s].on IN
    /\ a \in locked
    /\ attempt[a].status \in {"PENDING", "FAILED"}
    /\ \A t \in Senders : sender[t] # Idle /\ sender[t].on = a => t = s

(* The one message that may be known to be out.                            *)
Out(a) == attempt[a].status = "SENT" \/ \E s \in Senders : sender[s].pc = "TAKEN" /\ sender[s].on = a

Counted(a) == accepted[a] <= doubted[a] + (IF Out(a) THEN 1 ELSE 0)

(* A note that was not written has no attempts.                            *)
Unwritten(n) == note[n] = "NONE" => \A a \in Of(n) : attempt[a].status = "NONE"

DeviceRow == [active: BOOLEAN, permitted: BOOLEAN, failures: 0..DisableAt]
AttemptRow == [status: {"NONE", "PENDING", "SENT", "FAILED"}, tries: 0..MaxTries, waits: BOOLEAN]
Busy == [pc: {"CALL", "TAKEN", "REFUSED", "INVALID"}, on: Attempts]
Broadcasting == [kind: {"NONE", "SYSTEM", "EMAIL"}, pc: {"NONE", "QUEUED", "RUNNING", "ENDED"},
                 by: {"NOBODY", "TASK", "THREAD"}, todo: SUBSET Broadcast,
                 errors: SUBSET Broadcast]

LEMMA TypeIs ==
  TypeOK <=> /\ device \in [Devices -> DeviceRow]
             /\ note \in [Notes -> {"NONE", "PENDING", "SENT", "FAILED"}]
             /\ attempt \in [Attempts -> AttemptRow]
             /\ queued \subseteq Attempts /\ locked \subseteq Attempts
             /\ sender \in [Senders -> {Idle} \union Busy]
             /\ broadcast \in Broadcasting
             /\ accepted \in [Attempts -> Nat] /\ doubted \in [Attempts -> Nat]
             /\ lost \in 0..MaxLost
BY DEF TypeOK, DeviceRow, AttemptRow, Busy, Broadcasting

LEMMA AttemptsAre == \A a \in Attempts : a[1] \in Notes /\ a \in Of(a[1]) /\ (a[2] # Mail => a[2] \in Devices)
BY DEF Attempts, Of

LEMMA BusyIs ==
  ASSUME TypeOK, NEW s \in Senders, sender[s] # Idle
  PROVE  /\ sender[s] \in Busy /\ sender[s].on \in Attempts
         /\ sender[s].pc \in {"CALL", "TAKEN", "REFUSED", "INVALID"}
BY TypeIs DEF Busy

LEMMA IdleIs == Idle.pc = "IDLE" /\ Idle.on \notin Attempts
<1>1. Idle.on = <<>> /\ Idle.pc = "IDLE"
  BY DEF Idle
<1>2. <<>> \notin Attempts
  BY DEF Attempts
<1> QED BY <1>1, <1>2

(* The rows that the transactions write.                                   *)
LEMMA RowsAre ==
  ASSUME NEW row \in AttemptRow
  PROVE  /\ GivenUp(row) \in AttemptRow /\ GivenUp(row).status = "FAILED"
         /\ Sent(row) \in AttemptRow /\ Sent(row).status = "SENT"
         /\ Failed(row) \in AttemptRow /\ Failed(row).status = "FAILED"
         /\ Failed(row).tries < MaxTries => Failed(row).waits
         /\ NewAttempt \in AttemptRow /\ NewAttempt.status = "PENDING"
         /\ [row EXCEPT !.waits = FALSE] \in AttemptRow
         /\ [row EXCEPT !.waits = FALSE].status = row.status
         /\ [row EXCEPT !.waits = FALSE].tries = row.tries
<1>1. /\ row.tries \in 0..MaxTries /\ row.waits \in BOOLEAN /\ MaxTries \in Nat \ {0}
      /\ row.status \in {"NONE", "PENDING", "SENT", "FAILED"}
  BY NotificationConstants DEF AttemptRow
<1>2. GivenUp(row) \in AttemptRow /\ GivenUp(row).status = "FAILED"
  <2>1. MaxTries \in 0..MaxTries
    BY <1>1
  <2>2. \A tries \in 0..MaxTries :
          /\ [row EXCEPT !.status = "FAILED", !.tries = tries, !.waits = FALSE] \in AttemptRow
          /\ [row EXCEPT !.status = "FAILED", !.tries = tries, !.waits = FALSE].status = "FAILED"
    BY DEF AttemptRow
  <2> QED BY <2>1, <2>2 DEF GivenUp
<1>3. Sent(row) \in AttemptRow /\ Sent(row).status = "SENT"
  BY <1>1 DEF Sent, AttemptRow
<1>4. /\ Failed(row) \in AttemptRow /\ Failed(row).status = "FAILED"
      /\ Failed(row).tries < MaxTries => Failed(row).waits
  <2>1. PICK tries \in 0..MaxTries : tries = IF row.tries < MaxTries THEN row.tries + 1 ELSE row.tries
    BY <1>1
  <2>2. Failed(row) = [row EXCEPT !.status = "FAILED", !.tries = tries, !.waits = (tries < MaxTries)]
    BY <2>1 DEF Failed
  <2>3. PICK waits \in BOOLEAN : waits = (tries < MaxTries)
    <3>1. tries < MaxTries => (tries < MaxTries) = TRUE
      OBVIOUS
    <3>2. ~(tries < MaxTries) => (tries < MaxTries) = FALSE
      OBVIOUS
    <3> QED BY <3>1, <3>2
  <2>4. Failed(row) = [row EXCEPT !.status = "FAILED", !.tries = tries, !.waits = waits]
    BY <2>2, <2>3
  <2>5. /\ [row EXCEPT !.status = "FAILED", !.tries = tries, !.waits = waits] \in AttemptRow
        /\ [row EXCEPT !.status = "FAILED", !.tries = tries, !.waits = waits].status = "FAILED"
        /\ [row EXCEPT !.status = "FAILED", !.tries = tries, !.waits = waits].tries = tries
        /\ [row EXCEPT !.status = "FAILED", !.tries = tries, !.waits = waits].waits = waits
    BY DEF AttemptRow
  <2> QED BY <2>3, <2>4, <2>5
<1>5. NewAttempt \in AttemptRow /\ NewAttempt.status = "PENDING"
  BY <1>1 DEF NewAttempt, AttemptRow
<1>6. /\ [row EXCEPT !.waits = FALSE] \in AttemptRow
      /\ [row EXCEPT !.waits = FALSE].status = row.status
      /\ [row EXCEPT !.waits = FALSE].tries = row.tries
  BY DEF AttemptRow
<1> QED BY <1>2, <1>3, <1>4, <1>5, <1>6

-----------------------------------------------------------------------------
(* The status of a notification.                                           *)

Statuses == StatusIsTrue /\ \A n \in Notes : Unwritten(n)

LEMMA StatusKept ==
  ASSUME Statuses, UNCHANGED note,
         \A a \in Attempts : /\ attempt'[a].status = attempt[a].status
                             /\ attempt'[a].tries = attempt[a].tries
  PROVE  Statuses'
<1>1. StatusIsTrue'
  BY DEF Statuses, StatusIsTrue, Of
<1>2. \A n \in Notes : Unwritten(n)'
  BY DEF Statuses, Unwritten, Of
<1> QED BY <1>1, <1>2 DEF Statuses

LEMMA SaveStep ==
  ASSUME TypeOK, Statuses, NEW a \in Attempts, NEW row \in AttemptRow, row.status # "NONE", Save(a, row)
  PROVE  /\ attempt' \in [Attempts -> AttemptRow]
         /\ note' \in [Notes -> {"NONE", "PENDING", "SENT", "FAILED"}]
         /\ attempt'[a] = row /\ \A c \in Attempts \ {a} : attempt'[c] = attempt[c]
         /\ Statuses'
<1> DEFINE n == a[1]
<1>0. /\ n \in Notes /\ a \in Of(n) /\ attempt \in [Attempts -> AttemptRow]
      /\ note \in [Notes -> {"NONE", "PENDING", "SENT", "FAILED"}]
  BY AttemptsAre, TypeIs
<1>1. attempt' = [attempt EXCEPT ![a] = row] /\ note' = [note EXCEPT ![n] = Synced(n, attempt')]
  BY DEF Save
<1>2. attempt' \in [Attempts -> AttemptRow] /\ attempt'[a] = row
      /\ \A c \in Attempts \ {a} : attempt'[c] = attempt[c]
  BY <1>0, <1>1
<1>3. Synced(n, attempt') \in {"PENDING", "SENT", "FAILED"}
  BY DEF Synced
<1> DEFINE state == Synced(n, attempt')
<1> HIDE DEF state
<1>4. /\ note' \in [Notes -> {"NONE", "PENDING", "SENT", "FAILED"}]
      /\ note'[n] = state /\ \A m \in Notes \ {n} : note'[m] = note[m]
  BY <1>0, <1>1, <1>3 DEF state
<1>5. \A m \in Notes \ {n} : \A c \in Of(m) : c \in Attempts \ {a}
  BY <1>0 DEF Of
<1>6. \A m \in Notes : Of(m) \subseteq Attempts
  BY DEF Of
<1>7. state = "SENT" <=> \E c \in Of(n) : attempt'[c].status = "SENT"
  BY DEF state, Synced
<1>8. ASSUME \A c \in Of(n) : attempt'[c].status = "NONE" \/
               (attempt'[c].status = "FAILED" /\ attempt'[c].tries = MaxTries)
      PROVE  state = "FAILED"
  <2>1. \A c \in Of(n) : ~Hopeful(attempt'[c]) /\ attempt'[c].status # "SENT"
    BY <1>8, NotificationConstants DEF Hopeful
  <2> QED BY <2>1 DEF state, Synced
<1>9. StatusIsTrue'
  <2> SUFFICES ASSUME NEW m \in Notes
               PROVE  LET made == {c \in Of(m) : attempt'[c].status # "NONE"} IN
                      /\ note'[m] = "SENT" <=> \E c \in made : attempt'[c].status = "SENT"
                      /\ (/\ made # {}
                          /\ \A c \in made : attempt'[c].status = "FAILED" /\ attempt'[c].tries = MaxTries)
                           => note'[m] = "FAILED"
    BY DEF StatusIsTrue, Of
  <2>1. CASE m = n
    BY <1>4, <1>7, <1>8, <2>1
  <2>2. CASE m # n
    <3>1. \A c \in Of(m) : attempt'[c] = attempt[c]
      BY <1>2, <1>5, <2>2
    <3> QED BY <1>4, <2>2, <3>1 DEF Statuses, StatusIsTrue
  <2> QED BY <2>1, <2>2
<1>10. ASSUME NEW m \in Notes PROVE Unwritten(m)'
  <2>1. CASE m = n
    BY <1>3, <1>4, <2>1 DEF Unwritten, state
  <2>2. CASE m # n
    <3>1. \A c \in Of(m) : attempt'[c] = attempt[c]
      BY <1>2, <1>5, <2>2
    <3> QED BY <1>4, <2>2, <3>1 DEF Statuses, Unwritten, Of
  <2> QED BY <2>1, <2>2
<1> QED BY <1>2, <1>4, <1>9, <1>10 DEF Statuses

LEMMA EnqueueStep ==
  ASSUME TypeOK, Statuses, NEW n \in Notes, Enqueue(n)
  PROVE  /\ attempt' \in [Attempts -> AttemptRow]
         /\ note' \in [Notes -> {"NONE", "PENDING", "SENT", "FAILED"}]
         /\ \A a \in Attempts : attempt[a].status # "NONE" => attempt'[a] = attempt[a]
         /\ Statuses'
<1>0. /\ attempt \in [Attempts -> AttemptRow]
      /\ note \in [Notes -> {"NONE", "PENDING", "SENT", "FAILED"}]
  BY TypeIs
<1>1. CASE Created(n) /\ note[n] = "NONE"
  <2>1. /\ note' = [note EXCEPT ![n] = "PENDING"]
        /\ attempt' = [a \in Attempts |->
             IF a[1] = n /\ (PushTarget(a[2]) \/ EmailTarget(a[2])) THEN NewAttempt ELSE attempt[a]]
    BY <1>1 DEF Created
  <2>2. NewAttempt \in AttemptRow /\ NewAttempt.status = "PENDING"
    BY NotificationConstants DEF NewAttempt, AttemptRow
  <2>3. \A a \in Attempts : attempt'[a] = attempt[a] \/ (a[1] = n /\ attempt'[a] = NewAttempt)
    BY <2>1
  <2>4. \A a \in Of(n) : attempt[a].status = "NONE"
    BY <1>1 DEF Statuses, Unwritten
  <2>5. \A a \in Attempts : a[1] # n => attempt'[a] = attempt[a]
    BY <2>3
  <2>6. attempt' \in [Attempts -> AttemptRow]
    BY <1>0, <2>1, <2>2
  <2>7. /\ note' \in [Notes -> {"NONE", "PENDING", "SENT", "FAILED"}]
        /\ note'[n] = "PENDING" /\ \A m \in Notes \ {n} : note'[m] = note[m]
    BY <1>0, <2>1
  <2>8. \A a \in Of(n) : attempt'[a].status \in {"NONE", "PENDING"}
    BY <2>2, <2>3, <2>4 DEF Of
  <2>9. \A a \in Attempts : attempt[a].status # "NONE" => attempt'[a] = attempt[a]
    BY <2>3, <2>4 DEF Of
  <2>10. StatusIsTrue'
    <3> SUFFICES ASSUME NEW m \in Notes
                 PROVE  LET made == {c \in Of(m) : attempt'[c].status # "NONE"} IN
                        /\ note'[m] = "SENT" <=> \E c \in made : attempt'[c].status = "SENT"
                        /\ (/\ made # {}
                            /\ \A c \in made : attempt'[c].status = "FAILED" /\ attempt'[c].tries = MaxTries)
                             => note'[m] = "FAILED"
      BY DEF StatusIsTrue, Of
    <3>1. CASE m = n
      BY <2>7, <2>8, <3>1
    <3>2. CASE m # n
      <4>1. \A c \in Of(m) : attempt'[c] = attempt[c]
        BY <2>5, <3>2 DEF Of
      <4> QED BY <2>7, <3>2, <4>1 DEF Statuses, StatusIsTrue
    <3> QED BY <3>1, <3>2
  <2>11. ASSUME NEW m \in Notes PROVE Unwritten(m)'
    <3>1. CASE m = n
      BY <2>7, <3>1 DEF Unwritten
    <3>2. CASE m # n
      <4>1. \A c \in Of(m) : attempt'[c] = attempt[c]
        BY <2>5, <3>2 DEF Of
      <4> QED BY <2>7, <3>2, <4>1 DEF Statuses, Unwritten, Of
    <3> QED BY <3>1, <3>2
  <2> QED BY <2>6, <2>7, <2>9, <2>10, <2>11 DEF Statuses
<1>2. CASE UNCHANGED <<note, attempt>>
  <2>1. Statuses'
    BY <1>2, StatusKept
  <2> QED BY <1>0, <1>2, <2>1
<1> QED BY <1>1, <1>2 DEF Enqueue

-----------------------------------------------------------------------------
(* The senders and what the provider took.                                 *)

Sending == /\ \A s \in Senders : HasItsAttempt(s)
           /\ \A a \in Attempts : Counted(a)

(* A step of nobody's sender that neither takes an attempt from a sender   *)
(* at work nor forgets that one was sent.                                  *)
LEMMA SendingKept ==
  ASSUME TypeOK, Sending, UNCHANGED <<sender, accepted, doubted>>,
         \A s \in Senders : sender[s] # Idle =>
            /\ sender[s].on \in locked'
            /\ attempt'[sender[s].on].status \in {"PENDING", "FAILED"},
         \A a \in Attempts : attempt[a].status = "SENT" => attempt'[a].status = "SENT"
  PROVE  Sending'
<1>1. \A s \in Senders : HasItsAttempt(s)'
  BY DEF Sending, HasItsAttempt
<1>2. ASSUME NEW a \in Attempts PROVE Counted(a)'
  <2>1. Out(a) => Out(a)'
    BY DEF Out
  <2>2. Counted(a) /\ accepted[a] \in Nat /\ doubted[a] \in Nat
    BY TypeIs DEF Sending
  <2> QED BY <2>1, <2>2 DEF Counted
<1> QED BY <1>1, <1>2 DEF Sending

(* A sender takes an attempt that nobody has.                              *)
LEMMA TakeStep ==
  ASSUME TypeOK, Sending, NEW s \in Senders, NEW a \in Attempts, sender[s] = Idle, Free(a), Due(a),
         sender' = [sender EXCEPT ![s] = [pc |-> "CALL", on |-> a]], locked' = locked \union {a},
         UNCHANGED <<attempt, accepted, doubted>>
  PROVE  Sending'
<1>1. /\ sender'[s] = [pc |-> "CALL", on |-> a] /\ \A t \in Senders \ {s} : sender'[t] = sender[t]
      /\ sender'[s].pc = "CALL" /\ sender'[s].on = a
  BY TypeIs
<1>2. \A t \in Senders : sender[t] # Idle => t # s /\ sender[t].on # a
  BY DEF Sending, HasItsAttempt, Free
<1>3. \A t \in Senders : HasItsAttempt(t)'
  BY <1>1, <1>2 DEF Sending, HasItsAttempt, Due
<1>4. \A c \in Attempts : Out(c) => Out(c)'
  BY <1>1, IdleIs DEF Out
<1>5. \A c \in Attempts : Counted(c) /\ accepted[c] \in Nat /\ doubted[c] \in Nat
  BY TypeIs DEF Sending
<1>6. \A c \in Attempts : Counted(c)'
  BY <1>4, <1>5 DEF Counted
<1> QED BY <1>3, <1>6 DEF Sending

(* The provider answers, with one message more out at most.                *)
LEMMA AnswerStep ==
  ASSUME TypeOK, Sending, NEW s \in Senders, NEW pc \in {"TAKEN", "REFUSED", "INVALID"},
         sender[s].pc = "CALL", Answer(s, pc), UNCHANGED <<attempt, locked>>,
         \/ pc = "TAKEN" /\ UNCHANGED doubted /\ accepted' = [accepted EXCEPT ![sender[s].on] = @ + 1]
         \/ UNCHANGED <<accepted, doubted>>
         \/ /\ accepted' = [accepted EXCEPT ![sender[s].on] = @ + 1]
            /\ doubted' = [doubted EXCEPT ![sender[s].on] = @ + 1]
  PROVE  Sending' /\ sender' \in [Senders -> {Idle} \union Busy]
                  /\ accepted' \in [Attempts -> Nat] /\ doubted' \in [Attempts -> Nat]
<1> DEFINE a == sender[s].on
           q == [sender[s] EXCEPT !.pc = pc]
<1>0. /\ sender \in [Senders -> {Idle} \union Busy]
      /\ accepted \in [Attempts -> Nat] /\ doubted \in [Attempts -> Nat]
  BY TypeIs
<1>1. sender[s] # Idle /\ sender[s] \in Busy /\ a \in Attempts
  BY IdleIs, BusyIs
<1>2. q \in Busy /\ q.pc = pc /\ q.on = a /\ q # Idle
  <2>1. q \in Busy /\ q.pc = pc /\ q.on = a
    BY <1>1 DEF Busy
  <2> QED BY <2>1, IdleIs
<1>3. sender' = [sender EXCEPT ![s] = q]
  BY DEF Answer
<1> HIDE DEF q
<1>4. /\ sender'[s] = q /\ \A t \in Senders \ {s} : sender'[t] = sender[t]
      /\ sender' \in [Senders -> {Idle} \union Busy]
  BY <1>0, <1>2, <1>3
<1>5. \A t \in Senders : HasItsAttempt(t)'
  BY <1>1, <1>2, <1>4 DEF Sending, HasItsAttempt
<1>6. accepted' \in [Attempts -> Nat] /\ doubted' \in [Attempts -> Nat]
  BY <1>0, <1>1
<1>7. ASSUME NEW c \in Attempts PROVE Counted(c)'
  <2>0. Counted(c) /\ accepted[c] \in Nat /\ doubted[c] \in Nat
    BY <1>0 DEF Sending
  <2>1. Out(c) => Out(c)'
    BY <1>1, <1>4 DEF Out
  <2>2. CASE c # a
    <3>1. accepted'[c] = accepted[c] /\ doubted'[c] = doubted[c]
      BY <1>0, <1>1, <2>2
    <3> QED BY <2>0, <2>1, <3>1 DEF Counted
  <2>3. CASE c = a
    <3>1. ~Out(a)
      BY <1>1 DEF Out, Sending, HasItsAttempt, Idle
    <3>2. accepted[a] <= doubted[a]
      BY <2>0, <2>3, <3>1 DEF Counted
    <3>3. CASE pc = "TAKEN" /\ UNCHANGED doubted /\ accepted' = [accepted EXCEPT ![a] = @ + 1]
      <4>1. accepted'[a] = accepted[a] + 1 /\ doubted'[a] = doubted[a]
        BY <1>0, <1>1, <3>3
      <4>2. Out(a)'
        BY <1>2, <1>4, <3>3 DEF Out
      <4>3. Out(c)'
        BY <1>2, <1>4, <2>3, <3>3 DEF Out
      <4> QED BY <2>0, <2>3, <3>2, <4>1, <4>3 DEF Counted
    <3>4. CASE UNCHANGED <<accepted, doubted>>
      BY <2>0, <2>1, <3>4 DEF Counted
    <3>5. CASE /\ accepted' = [accepted EXCEPT ![a] = @ + 1]
               /\ doubted' = [doubted EXCEPT ![a] = @ + 1]
      <4>1. accepted'[a] = accepted[a] + 1 /\ doubted'[a] = doubted[a] + 1
        BY <1>0, <1>1, <3>5
      <4> QED BY <2>0, <2>3, <3>2, <4>1 DEF Counted
    <3> QED BY <3>3, <3>4, <3>5
  <2> QED BY <2>2, <2>3
<1> QED BY <1>4, <1>5, <1>6, <1>7 DEF Sending

(* A sender that is done, or dies: what it had taken is recorded as sent   *)
(* or counts as doubted.                                                   *)
LEMMA LeaveStep ==
  ASSUME TypeOK, Sending, NEW s \in Senders, sender[s] # Idle,
         sender' = [sender EXCEPT ![s] = Idle],
         \A a \in Attempts \ {sender[s].on} : attempt'[a] = attempt[a] /\ (a \in locked => a \in locked'),
         UNCHANGED accepted,
         \/ UNCHANGED doubted /\ (sender[s].pc = "TAKEN" => attempt'[sender[s].on].status = "SENT")
         \/ doubted' = [doubted EXCEPT ![sender[s].on] = @ + 1]
  PROVE  Sending' /\ sender' \in [Senders -> {Idle} \union Busy] /\ doubted' \in [Attempts -> Nat]
<1> DEFINE a == sender[s].on
<1>0. /\ sender \in [Senders -> {Idle} \union Busy]
      /\ accepted \in [Attempts -> Nat] /\ doubted \in [Attempts -> Nat]
  BY TypeIs
<1>1. a \in Attempts /\ \A t \in Senders : sender[t] # Idle => sender[t].on \in Attempts
  BY BusyIs
<1>2. /\ sender'[s] = Idle /\ \A t \in Senders \ {s} : sender'[t] = sender[t]
      /\ sender' \in [Senders -> {Idle} \union Busy] /\ doubted' \in [Attempts -> Nat]
  BY <1>0, <1>1
<1>3. /\ attempt[a].status \in {"PENDING", "FAILED"}
      /\ \A t \in Senders \ {s} : sender[t] # Idle => sender[t].on # a
  BY DEF Sending, HasItsAttempt
<1>4. ASSUME NEW t \in Senders PROVE HasItsAttempt(t)'
  <2>1. CASE t = s
    BY <1>2, <2>1 DEF HasItsAttempt
  <2>2. CASE t # s
    <3> SUFFICES ASSUME sender[t] # Idle PROVE HasItsAttempt(t)'
      BY <1>2, <2>2 DEF HasItsAttempt
    <3>1. sender[t].on \in Attempts \ {a}
      BY <1>1, <1>3, <2>2
    <3>2. HasItsAttempt(t)
      BY DEF Sending
    <3> QED BY <1>2, <2>2, <3>1, <3>2 DEF HasItsAttempt
  <2> QED BY <2>1, <2>2
<1>5. ASSUME NEW c \in Attempts PROVE Counted(c)'
  <2>0. Counted(c) /\ accepted[c] \in Nat /\ doubted[c] \in Nat
    BY <1>0 DEF Sending
  <2>1. CASE c # a
    <3>1. Out(c) => Out(c)'
      BY <1>2, <2>1 DEF Out
    <3>2. doubted'[c] = doubted[c]
      BY <1>0, <1>1, <2>1
    <3> QED BY <2>0, <3>1, <3>2 DEF Counted
  <2>2. CASE c = a
    <3>1. Out(c) => sender[s].pc = "TAKEN"
      <4>1. \A t \in Senders : sender[t].pc = "TAKEN" /\ sender[t].on = a => t = s
        BY <1>3 DEF Idle
      <4> QED BY <1>3, <2>2, <4>1 DEF Out
    <3>2. CASE UNCHANGED doubted /\ (sender[s].pc = "TAKEN" => attempt'[a].status = "SENT")
      <4>1. Out(c) => Out(c)'
        BY <2>2, <3>1, <3>2 DEF Out
      <4> QED BY <2>0, <3>2, <4>1 DEF Counted
    <3>3. CASE doubted' = [doubted EXCEPT ![a] = @ + 1]
      <4>1. doubted'[c] = doubted[c] + 1
        BY <1>0, <1>1, <2>2, <3>3
      <4> QED BY <2>0, <4>1 DEF Counted
    <3> QED BY <3>2, <3>3
  <2> QED BY <2>1, <2>2
<1> QED BY <1>2, <1>4, <1>5 DEF Sending

-----------------------------------------------------------------------------
(* Every step.                                                             *)

Good == TypeOK /\ Statuses /\ Sending

LEMMA DeviceFailedIs ==
  ASSUME NEW row \in DeviceRow, NEW invalid \in BOOLEAN
  PROVE  DeviceFailed(row, invalid) \in DeviceRow /\ [row EXCEPT !.failures = 0] \in DeviceRow
<1>1. row.failures \in 0..DisableAt /\ DisableAt \in Nat \ {0} /\ row.active \in BOOLEAN
  BY NotificationConstants DEF DeviceRow
<1>2. PICK failures \in 0..DisableAt :
        failures = IF row.failures < DisableAt THEN row.failures + 1 ELSE DisableAt
  BY <1>1
<1>3. DeviceFailed(row, invalid) =
        [row EXCEPT !.failures = failures, !.active = @ /\ ~invalid /\ failures < DisableAt]
  BY <1>2 DEF DeviceFailed
<1>4. \A active \in BOOLEAN : [row EXCEPT !.failures = failures, !.active = active] \in DeviceRow
  BY DEF DeviceRow
<1>5. (row.active /\ ~invalid /\ failures < DisableAt) \in BOOLEAN
  OBVIOUS
<1>6. DeviceFailed(row, invalid) =
        [row EXCEPT !.failures = failures, !.active = (row.active /\ ~invalid /\ failures < DisableAt)]
  BY <1>3
<1>7. DeviceFailed(row, invalid) \in DeviceRow
  BY <1>4, <1>5, <1>6
<1>8. [row EXCEPT !.failures = 0] \in DeviceRow
  BY <1>1 DEF DeviceRow
<1> QED BY <1>7, <1>8

LEMMA SenderStep ==
  ASSUME Good, NEW s \in Senders, Work(s) \/ AnswerIsLost(s) \/ SenderDies(s)
  PROVE  Good'
<1>0. /\ device \in [Devices -> DeviceRow]
      /\ note \in [Notes -> {"NONE", "PENDING", "SENT", "FAILED"}]
      /\ attempt \in [Attempts -> AttemptRow]
      /\ queued \subseteq Attempts /\ locked \subseteq Attempts
      /\ sender \in [Senders -> {Idle} \union Busy]
      /\ broadcast \in Broadcasting
      /\ accepted \in [Attempts -> Nat] /\ doubted \in [Attempts -> Nat]
      /\ lost \in 0..MaxLost
      /\ TypeOK /\ Statuses /\ Sending
  BY TypeIs DEF Good
<1>1. UNCHANGED <<note, attempt>> => Statuses'
  BY <1>0, StatusKept
<1>2. ASSUME NEW a \in Attempts, TakeTask(s, a) PROVE Good'
  <2>0. queued' \subseteq Attempts /\ UNCHANGED <<device, broadcast, accepted, doubted, lost>>
        /\ sender[s] = Idle
    BY <1>0, <1>2 DEF TakeTask, ghosts
  <2>1. CASE /\ Free(a) /\ Due(a)
             /\ sender' = [sender EXCEPT ![s] = [pc |-> "CALL", on |-> a]]
             /\ locked' = locked \union {a} /\ UNCHANGED <<attempt, note>>
    <3>1. [pc |-> "CALL", on |-> a] \in Busy
      BY DEF Busy
    <3>2. TypeOK'
      BY <1>0, <2>0, <2>1, <3>1 DEF TypeOK, DeviceRow, AttemptRow, Busy, Broadcasting
    <3>3. Sending'
      BY <1>0, <2>0, <2>1, TakeStep
    <3> QED BY <1>1, <2>1, <3>2, <3>3 DEF Good
  <2>2. CASE /\ Free(a) /\ Due(a) /\ Save(a, GivenUp(attempt[a])) /\ UNCHANGED <<sender, locked>>
    <3>1. GivenUp(attempt[a]) \in AttemptRow /\ GivenUp(attempt[a]).status = "FAILED"
      BY <1>0, RowsAre
    <3>2. /\ attempt' \in [Attempts -> AttemptRow]
          /\ note' \in [Notes -> {"NONE", "PENDING", "SENT", "FAILED"}]
          /\ attempt'[a] = GivenUp(attempt[a]) /\ \A c \in Attempts \ {a} : attempt'[c] = attempt[c]
          /\ Statuses'
      BY <1>0, <2>2, <3>1, SaveStep
    <3>3. TypeOK'
      BY <1>0, <2>0, <2>2, <3>2 DEF TypeOK, DeviceRow, AttemptRow, Busy, Broadcasting
    <3>4. \A t \in Senders : sender[t] # Idle =>
            /\ sender[t].on \in locked'
            /\ attempt'[sender[t].on].status \in {"PENDING", "FAILED"}
      BY <1>0, <2>2, <3>2, BusyIs DEF Sending, HasItsAttempt, Free
    <3>5. \A c \in Attempts : attempt[c].status = "SENT" => attempt'[c].status = "SENT"
      BY <2>2, <3>2 DEF Due
    <3>6. Sending'
      BY <1>0, <2>0, <2>2, <3>4, <3>5, SendingKept
    <3> QED BY <3>2, <3>3, <3>6 DEF Good
  <2>3. CASE UNCHANGED <<sender, locked, attempt, note>>
    <3>1. TypeOK'
      BY <1>0, <2>0, <2>3 DEF TypeOK, DeviceRow, AttemptRow, Busy, Broadcasting
    <3>2. Sending'
      BY <1>0, <2>0, <2>3 DEF Sending, HasItsAttempt, Counted, Out
    <3> QED BY <1>1, <2>3, <3>1, <3>2 DEF Good
  <2>4. CASE Free(a) /\ Spent(a) /\ Save(a, attempt[a]) /\ UNCHANGED <<sender, locked>>
    <3>1. attempt[a] \in AttemptRow /\ attempt[a].status # "NONE"
      BY <1>0, <2>4 DEF Spent
    <3>2. /\ attempt' \in [Attempts -> AttemptRow]
          /\ note' \in [Notes -> {"NONE", "PENDING", "SENT", "FAILED"}]
          /\ attempt'[a] = attempt[a] /\ \A c \in Attempts \ {a} : attempt'[c] = attempt[c]
          /\ Statuses'
      BY <1>0, <2>4, <3>1, SaveStep
    <3>3. TypeOK'
      BY <1>0, <2>0, <2>4, <3>2 DEF TypeOK, DeviceRow, AttemptRow, Busy, Broadcasting
    <3>4. attempt' = attempt
      BY <1>0, <3>2
    <3>5. Sending'
      BY <1>0, <2>0, <2>4, <3>4 DEF Sending, HasItsAttempt, Counted, Out
    <3> QED BY <3>2, <3>3, <3>5 DEF Good
  <2> QED BY <1>2, <2>1, <2>2, <2>3, <2>4 DEF TakeTask, Begin
<1>3. ASSUME ProviderAccepts(s) \/ ProviderRefuses(s) \/ TokenIsInvalid(s) \/ AnswerIsLost(s) PROVE Good'
  <2>1. /\ sender[s].pc = "CALL" /\ UNCHANGED <<device, note, attempt, queued, locked, broadcast>>
        /\ lost' \in 0..MaxLost
    BY <1>0, <1>3, NotificationConstants
       DEF ProviderAccepts, ProviderRefuses, TokenIsInvalid, AnswerIsLost
  <2>2. \E pc \in {"TAKEN", "REFUSED", "INVALID"} :
          /\ Answer(s, pc)
          /\ \/ pc = "TAKEN" /\ UNCHANGED doubted /\ accepted' = [accepted EXCEPT ![sender[s].on] = @ + 1]
             \/ UNCHANGED <<accepted, doubted>>
             \/ /\ accepted' = [accepted EXCEPT ![sender[s].on] = @ + 1]
                /\ doubted' = [doubted EXCEPT ![sender[s].on] = @ + 1]
    BY <1>3 DEF ProviderAccepts, ProviderRefuses, TokenIsInvalid, AnswerIsLost, ghosts
  <2>3. Sending' /\ sender' \in [Senders -> {Idle} \union Busy]
        /\ accepted' \in [Attempts -> Nat] /\ doubted' \in [Attempts -> Nat]
    BY <1>0, <2>1, <2>2, AnswerStep
  <2>4. TypeOK'
    BY <1>0, <2>1, <2>3 DEF TypeOK, DeviceRow, AttemptRow, Busy, Broadcasting
  <2> QED BY <1>1, <2>1, <2>3, <2>4 DEF Good
<1>4. ASSUME RecordSent(s) \/ RecordFailed(s) PROVE Good'
  <2> DEFINE a == sender[s].on
  <2>1. sender[s] # Idle /\ a \in Attempts
    <3>1. sender[s].pc \in {"TAKEN", "REFUSED", "INVALID"}
      BY <1>4 DEF RecordSent, RecordFailed
    <3>2. sender[s] # Idle
      BY <3>1, IdleIs
    <3> QED BY <1>0, <3>2, BusyIs
  <2>2. /\ sender' = [sender EXCEPT ![s] = Idle] /\ locked' = locked \ {a}
        /\ UNCHANGED <<queued, broadcast, accepted, doubted, lost>>
    BY <1>4 DEF RecordSent, RecordFailed, Done, ghosts
  <2>3. attempt[a].status # "SENT"
    BY <1>0, <2>1 DEF Sending, HasItsAttempt
  <2>4. PICK row \in AttemptRow :
          /\ Save(a, row) /\ row.status \in {"SENT", "FAILED"}
          /\ sender[s].pc = "TAKEN" => row.status = "SENT"
    <3>1. attempt[a] \in AttemptRow
      BY <1>0, <2>1
    <3>2. CASE RecordSent(s)
      BY <2>3, <3>1, <3>2, RowsAre DEF RecordSent
    <3>3. CASE RecordFailed(s)
      BY <2>3, <3>1, <3>3, RowsAre DEF RecordFailed
    <3> QED BY <1>4, <3>2, <3>3
  <2>5. /\ attempt' \in [Attempts -> AttemptRow]
        /\ note' \in [Notes -> {"NONE", "PENDING", "SENT", "FAILED"}]
        /\ attempt'[a] = row /\ \A c \in Attempts \ {a} : attempt'[c] = attempt[c]
        /\ Statuses'
    BY <1>0, <2>1, <2>4, SaveStep
  <2>6. device' \in [Devices -> DeviceRow]
    <3>1. CASE a[2] = Mail
      BY <1>0, <1>4, <2>3, <3>1 DEF RecordSent, RecordFailed
    <3>2. CASE a[2] # Mail
      <4>1. a[2] \in Devices
        BY <2>1, <3>2, AttemptsAre
      <4>2. \E d \in DeviceRow : device' = [device EXCEPT ![a[2]] = d]
        <5>1. device[a[2]] \in DeviceRow
          BY <1>0, <4>1
        <5>2. CASE RecordSent(s)
          BY <2>3, <3>2, <5>1, <5>2, DeviceFailedIs DEF RecordSent, DeviceAfter
        <5>3. CASE RecordFailed(s)
          <6> DEFINE invalid == sender[s].pc = "INVALID"
          <6>1. invalid \in BOOLEAN
            OBVIOUS
          <6>2. device' = [device EXCEPT ![a[2]] = DeviceFailed(device[a[2]], invalid)]
            BY <2>3, <3>2, <5>3 DEF RecordFailed, DeviceAfter
          <6> HIDE DEF invalid
          <6>3. DeviceFailed(device[a[2]], invalid) \in DeviceRow
            BY <5>1, <6>1, DeviceFailedIs
          <6> QED BY <6>2, <6>3
        <5> QED BY <1>4, <5>2, <5>3
      <4> QED BY <1>0, <4>1, <4>2
    <3> QED BY <3>1, <3>2
  <2>7. Sending' /\ sender' \in [Senders -> {Idle} \union Busy]
    BY <1>0, <2>1, <2>2, <2>4, <2>5, LeaveStep
  <2>8. TypeOK'
    BY <1>0, <2>2, <2>5, <2>6, <2>7 DEF TypeOK, DeviceRow, AttemptRow, Busy, Broadcasting
  <2> QED BY <2>5, <2>7, <2>8 DEF Good
<1>5. ASSUME SenderDies(s) PROVE Good'
  <2> DEFINE a == sender[s].on
  <2>1. /\ sender[s] # Idle /\ sender' = [sender EXCEPT ![s] = Idle]
        /\ UNCHANGED <<device, note, attempt, locked, broadcast, accepted>>
        /\ lost' \in 0..MaxLost /\ queued' = queued \union {a}
        /\ doubted' = IF sender[s].pc = "TAKEN" THEN [doubted EXCEPT ![a] = @ + 1] ELSE doubted
    BY <1>0, <1>5, NotificationConstants DEF SenderDies
  <2>2. a \in Attempts
    BY <1>0, <2>1, BusyIs
  <2>3. Sending' /\ sender' \in [Senders -> {Idle} \union Busy] /\ doubted' \in [Attempts -> Nat]
    BY <1>0, <2>1, LeaveStep
  <2>4. TypeOK'
    BY <1>0, <2>1, <2>2, <2>3 DEF TypeOK, DeviceRow, AttemptRow, Busy, Broadcasting
  <2> QED BY <1>1, <2>1, <2>3, <2>4 DEF Good
<1> QED BY <1>2, <1>3, <1>4, <1>5 DEF Work, Call, SendAttempt, SendEmailAttempt

(* The steps of everyone else leave the senders alone.                     *)
LEMMA OtherStep ==
  ASSUME Good,
         \/ \E d \in Devices, permitted \in BOOLEAN : UpsertDevice(d, permitted)
         \/ \E n \in Notes : Notify(n)
         \/ AdminBroadcast \/ AdminEmailBroadcast
         \/ BroadcastStep \/ BroadcastDies
         \/ EnqueueDueAttempts
         \/ \E a \in Attempts : WaitEnds(a) \/ LockExpires(a)
  PROVE  Good'
<1>0. /\ device \in [Devices -> DeviceRow]
      /\ note \in [Notes -> {"NONE", "PENDING", "SENT", "FAILED"}]
      /\ attempt \in [Attempts -> AttemptRow]
      /\ queued \subseteq Attempts /\ locked \subseteq Attempts
      /\ sender \in [Senders -> {Idle} \union Busy]
      /\ broadcast \in Broadcasting
      /\ accepted \in [Attempts -> Nat] /\ doubted \in [Attempts -> Nat]
      /\ lost \in 0..MaxLost
      /\ TypeOK /\ Statuses /\ Sending
  BY TypeIs DEF Good
<1>1. UNCHANGED <<note, attempt>> => Statuses'
  BY <1>0, StatusKept
<1>2. UNCHANGED <<sender, accepted, doubted, attempt, locked>> => Sending'
  BY <1>0 DEF Sending, HasItsAttempt, Counted, Out
<1>3. ASSUME NEW n \in Notes, Enqueue(n), broadcast' \in Broadcasting,
             UNCHANGED <<device, queued, locked, sender, ghosts, lost>>
      PROVE  Good'
  <2>1. /\ attempt' \in [Attempts -> AttemptRow]
        /\ note' \in [Notes -> {"NONE", "PENDING", "SENT", "FAILED"}]
        /\ \A a \in Attempts : attempt[a].status # "NONE" => attempt'[a] = attempt[a]
        /\ Statuses'
    BY <1>0, <1>3, EnqueueStep
  <2>2. TypeOK'
    BY <1>0, <1>3, <2>1 DEF TypeOK, DeviceRow, AttemptRow, Busy, Broadcasting, ghosts
  <2>3. \A t \in Senders : sender[t] # Idle =>
          /\ sender[t].on \in locked'
          /\ attempt'[sender[t].on].status \in {"PENDING", "FAILED"}
    BY <1>0, <1>3, <2>1, BusyIs DEF Sending, HasItsAttempt
  <2>4. Sending'
    BY <1>0, <1>3, <2>1, <2>3, SendingKept DEF ghosts
  <2> QED BY <2>1, <2>2, <2>4 DEF Good
<1>4. ASSUME NEW d \in Devices, NEW permitted \in BOOLEAN, UpsertDevice(d, permitted) PROVE Good'
  <2>1. ASSUME NEW row \in DeviceRow
        PROVE  Off(row) \in DeviceRow /\ [row EXCEPT !.active = TRUE, !.permitted = permitted] \in DeviceRow
    BY DEF Off, DeviceRow
  <2>2. device' \in [Devices -> DeviceRow]
    <3>1. \A e \in Devices : device[e] \in DeviceRow
      BY <1>0
    <3> QED BY <1>4, <2>1, <3>1 DEF UpsertDevice
  <2>3. UNCHANGED <<note, attempt, queued, locked, sender, broadcast, accepted, doubted, lost>>
    BY <1>4 DEF UpsertDevice, ghosts
  <2>4. TypeOK'
    BY <1>0, <2>2, <2>3 DEF TypeOK, DeviceRow, AttemptRow, Busy, Broadcasting
  <2> QED BY <1>1, <1>2, <2>3, <2>4 DEF Good
<1>5. ASSUME NEW n \in Notes, Notify(n) PROVE Good'
  BY <1>0, <1>3, <1>5 DEF Notify
<1>6. ASSUME broadcast' \in Broadcasting, lost' \in 0..MaxLost,
             UNCHANGED <<device, note, attempt, queued, locked, sender, ghosts>>
      PROVE  Good'
  <2>1. TypeOK'
    BY <1>0, <1>6 DEF TypeOK, DeviceRow, AttemptRow, Busy, Broadcasting, ghosts
  <2> QED BY <1>1, <1>2, <1>6, <2>1 DEF Good, ghosts
<1>7. \A kind \in {"SYSTEM", "EMAIL"}, by \in Carriers : PrepareBroadcast(kind, by) => Good'
  <2> SUFFICES ASSUME NEW kind \in {"SYSTEM", "EMAIL"}, NEW by \in Carriers, PrepareBroadcast(kind, by)
               PROVE  Good'
    OBVIOUS
  <2>1. [NoBroadcast EXCEPT !.kind = kind, !.pc = "QUEUED", !.by = by] \in Broadcasting
    BY DEF Broadcasting, NoBroadcast, Carriers
  <2> QED BY <1>0, <1>6, <2>1 DEF PrepareBroadcast
<1>8. CASE AdminBroadcast \/ AdminEmailBroadcast
  BY <1>7, <1>8 DEF AdminBroadcast, AdminEmailBroadcast, PrepareSystemBroadcast, PrepareEmailBroadcast
<1>9. /\ \A todo \in SUBSET Broadcast, pc \in {"QUEUED", "RUNNING"} :
           /\ [broadcast EXCEPT !.pc = pc, !.todo = todo] \in Broadcasting
           /\ [broadcast EXCEPT !.pc = pc, !.todo = todo, !.errors = {}] \in Broadcasting
      /\ \A todo, errors \in SUBSET Broadcast :
           /\ [broadcast EXCEPT !.todo = todo] \in Broadcasting
           /\ [broadcast EXCEPT !.todo = todo, !.errors = errors] \in Broadcasting
      /\ broadcast.todo \subseteq Broadcast /\ broadcast.errors \subseteq Broadcast
      /\ [NoBroadcast EXCEPT !.pc = "ENDED"] \in Broadcasting
  BY <1>0 DEF Broadcasting, NoBroadcast
<1>10. CASE BroadcastStarts
  <2>1. broadcast' = [broadcast EXCEPT !.pc = "RUNNING",
          !.todo = IF broadcast.kind = "SYSTEM" THEN SystemRecipients ELSE EmailRecipients]
    BY <1>10 DEF BroadcastStarts
  <2>2. SystemRecipients \subseteq Broadcast /\ EmailRecipients \subseteq Broadcast
    BY DEF SystemRecipients, EmailRecipients, Broadcast
  <2>3. broadcast' \in Broadcasting
    BY <1>9, <2>1, <2>2
  <2> QED BY <1>0, <1>6, <1>10, <2>3 DEF BroadcastStarts
<1>11. ASSUME NEW n \in Broadcast, BroadcastTo(n) PROVE Good'
  <2>1. n \in Notes
    BY NotificationConstants DEF Broadcast
  <2>2. broadcast' \in Broadcasting
    <3>1. broadcast' = [broadcast EXCEPT !.todo = broadcast.todo \ {n}]
      BY <1>11 DEF BroadcastTo
    <3>2. broadcast.todo \ {n} \in SUBSET Broadcast
      BY <1>9
    <3> QED BY <1>9, <3>1, <3>2
  <2> QED BY <1>3, <1>11, <2>1, <2>2 DEF BroadcastTo
<1>12. CASE BroadcastEnds
  BY <1>0, <1>6, <1>9, <1>12 DEF BroadcastEnds
<1>13. CASE BroadcastDies
  <2>1. broadcast' \in Broadcasting
    BY <1>9, <1>13 DEF BroadcastDies
  <2>2. lost' \in 0..MaxLost
    BY <1>0, <1>13, NotificationConstants DEF BroadcastDies
  <2> QED BY <1>6, <1>13, <2>1, <2>2 DEF BroadcastDies
<1>14. ASSUME NEW a \in Attempts, QueueAttempt(a) PROVE Good'
  <2>1. TypeOK'
    BY <1>0, <1>14 DEF QueueAttempt, TypeOK, DeviceRow, AttemptRow, Busy, Broadcasting, ghosts
  <2> QED BY <1>1, <1>2, <1>14, <2>1 DEF Good, QueueAttempt, ghosts
<1>15. ASSUME NEW a \in Attempts, WaitEnds(a) PROVE Good'
  <2> DEFINE row == [attempt[a] EXCEPT !.waits = FALSE]
  <2>1. attempt' = [attempt EXCEPT ![a] = row]
    BY <1>15 DEF WaitEnds
  <2>2. row \in AttemptRow /\ row.status = attempt[a].status /\ row.tries = attempt[a].tries
    BY <1>0, RowsAre
  <2> HIDE DEF row
  <2>3. /\ attempt' \in [Attempts -> AttemptRow]
        /\ \A c \in Attempts : /\ attempt'[c].status = attempt[c].status
                               /\ attempt'[c].tries = attempt[c].tries
    BY <1>0, <2>1, <2>2
  <2>4. UNCHANGED <<device, note, queued, locked, sender, broadcast, accepted, doubted, lost>>
    BY <1>15 DEF WaitEnds, ghosts
  <2>5. TypeOK'
    BY <1>0, <2>3, <2>4 DEF TypeOK, DeviceRow, AttemptRow, Busy, Broadcasting
  <2>6. Statuses'
    BY <1>0, <2>3, <2>4, StatusKept
  <2>7. \A t \in Senders : sender[t] # Idle =>
          /\ sender[t].on \in locked'
          /\ attempt'[sender[t].on].status \in {"PENDING", "FAILED"}
    BY <1>0, <2>3, <2>4, BusyIs DEF Sending, HasItsAttempt
  <2>8. Sending'
    BY <1>0, <2>3, <2>4, <2>7, SendingKept
  <2> QED BY <2>5, <2>6, <2>8 DEF Good
<1>16. ASSUME NEW a \in Attempts, LockExpires(a) PROVE Good'
  <2>1. /\ locked' = locked \ {a} /\ \A s \in Senders : sender[s].on # a
        /\ UNCHANGED <<device, note, attempt, queued, sender, broadcast, accepted, doubted, lost>>
    BY <1>16 DEF LockExpires, ghosts
  <2>2. TypeOK'
    BY <1>0, <2>1 DEF TypeOK, DeviceRow, AttemptRow, Busy, Broadcasting
  <2>3. \A t \in Senders : sender[t] # Idle =>
          /\ sender[t].on \in locked'
          /\ attempt'[sender[t].on].status \in {"PENDING", "FAILED"}
    BY <1>0, <2>1 DEF Sending, HasItsAttempt
  <2>4. Sending'
    BY <1>0, <2>1, <2>3, SendingKept
  <2> QED BY <1>1, <2>1, <2>2, <2>4 DEF Good
<1>17. ASSUME NEW n \in Broadcast, BroadcastSkips(n) PROVE Good'
  <2>1. broadcast' \in Broadcasting
    <3>1. broadcast' = [broadcast EXCEPT !.todo = broadcast.todo \ {n},
                                         !.errors = broadcast.errors \union {n}]
      BY <1>17 DEF BroadcastSkips
    <3>2. broadcast.todo \ {n} \in SUBSET Broadcast /\ broadcast.errors \union {n} \in SUBSET Broadcast
      BY <1>9
    <3> QED BY <1>9, <3>1, <3>2
  <2>2. lost' \in 0..MaxLost
    BY <1>0, <1>17, NotificationConstants DEF BroadcastSkips
  <2> QED BY <1>6, <1>17, <2>1, <2>2 DEF BroadcastSkips
<1> QED BY <1>4, <1>5, <1>8, <1>10, <1>11, <1>12, <1>13, <1>14, <1>15, <1>16, <1>17
        DEF BroadcastStep, ProcessSystemBroadcast, ProcessEmailBroadcast, ProcessBroadcast,
            EnqueueDueAttempts, EnqueueAttemptDelivery, EnqueueEmailAttemptDelivery

LEMMA GoodInit == Init => Good
<1> SUFFICES ASSUME Init PROVE Good
  OBVIOUS
<1>1. TypeOK
  <2>1. NoAttempt \in AttemptRow
    BY NotificationConstants DEF NoAttempt, AttemptRow
  <2>2. [active |-> TRUE, permitted |-> TRUE, failures |-> 0] \in DeviceRow
    BY NotificationConstants DEF DeviceRow
  <2>3. NoBroadcast \in Broadcasting
    BY DEF NoBroadcast, Broadcasting
  <2> QED BY <2>1, <2>2, <2>3, NotificationConstants, TypeIs DEF Init
<1>2. \A a \in Attempts : attempt[a].status = "NONE"
  BY DEF Init, NoAttempt
<1>3. Statuses
  BY <1>2 DEF Init, Statuses, StatusIsTrue, Unwritten, Of
<1>4. Sending
  <2>1. \A s \in Senders : sender[s] = Idle
    BY DEF Init
  <2>2. \A a \in Attempts : accepted[a] = 0 /\ doubted[a] = 0
    BY DEF Init
  <2> QED BY <2>1, <2>2 DEF Sending, HasItsAttempt, Counted
<1> QED BY <1>1, <1>3, <1>4 DEF Good

LEMMA Invariance == Spec => []Good
<1>1. Good /\ UNCHANGED vars => Good'
  BY DEF Good, vars, ghosts, TypeOK, Statuses, StatusIsTrue, Unwritten, Of, Sending, HasItsAttempt,
         Counted, Out
<1>2. Good /\ Next => Good'
  BY SenderStep, OtherStep DEF Next
<1> QED BY <1>1, <1>2, GoodInit, PTL DEF Spec

(* The variables keep their types.                                         *)
THEOREM TypeCorrect == Spec => []TypeOK
<1>1. Good => TypeOK
  BY DEF Good
<1> QED BY <1>1, Invariance, PTL

(* The status of a notification is that of its attempts, whichever senders *)
(* finished last (notifications/services.py, _sync_notification_status).   *)
THEOREM StatusAlwaysTrue == Spec => []StatusIsTrue
<1>1. Good => StatusIsTrue
  BY DEF Good, Statuses
<1> QED BY <1>1, Invariance, PTL

(* The provider takes a message once, but for answers that were lost and   *)
(* senders that died with one: the send lock keeps every other sender off  *)
(* (notifications/services.py).                                            *)
THEOREM MessagesTakenOnce == Spec => []TakenOnce
<1>1. Good => TakenOnce
  BY TypeIs DEF Good, Sending, Counted, TakenOnce
<1> QED BY <1>1, Invariance, PTL
=============================================================================
