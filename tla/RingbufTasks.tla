---------------------------- MODULE RingbufTasks ----------------------------
(***************************************************************************)
(* What every type of ring buffer shares (esp_ringbuf): the two binary     *)
(* semaphores, and the way a call goes through them.  A call takes its     *)
(* semaphore, looks at the buffer in a critical section, retries when it   *)
(* cannot be served, and gives semaphores after it left the critical       *)
(* section.  Those are separate steps, and other tasks (on either core)    *)
(* and interrupt handlers come between any two of them.  A call from an    *)
(* interrupt handler takes no semaphore and does not retry.                *)
(***************************************************************************)
CONSTANTS
  Senders,           \* tasks and interrupt handlers that send
  Receivers,         \* tasks and interrupt handlers that receive
  Isrs,              \* those of them that are interrupt handlers
  Timeouts           \* xTicksToWait of the calls may run out

ASSUME RingbufTasksAssumption ==
  /\ Timeouts \in BOOLEAN
  /\ Isrs \subseteq Senders \cup Receivers

VARIABLES
  pc,                \* where each caller is in its call
  tx,                \* TransSem is available
  rx                 \* RecvSem is available

taskVars == <<pc, tx, rx>>

Tasks == Senders \cup Receivers

Labels == {"idle",                        \* no call in progress
           "takeTx", "send",              \* wait for TransSem; critical section
           "takeRx", "receive",           \* wait for RecvSem; critical section
           "giveTxRx", "giveTx", "giveRx"} \* semaphores still to be given

\* prvInitializeNewRingbuffer gives TransSem; RecvSem is created empty.
TasksInit ==
  /\ pc = [t \in Tasks |-> "idle"]
  /\ tx = TRUE
  /\ rx = FALSE

Goto(t, label) == pc' = [pc EXCEPT ![t] = label]

\* Entry of the send functions; the FromISR ones go straight to the critical
\* section.
CallSend(t) ==
  /\ t \in Senders
  /\ pc[t] = "idle"
  /\ Goto(t, IF t \in Isrs THEN "send" ELSE "takeTx")
  /\ UNCHANGED <<tx, rx>>

\* Entry of the receive functions.
CallReceive(t) ==
  /\ t \in Receivers
  /\ pc[t] = "idle"
  /\ Goto(t, IF t \in Isrs THEN "receive" ELSE "takeRx")
  /\ UNCHANGED <<tx, rx>>

\* xSemaphoreTake(TX) succeeds.
TakeTx(t) ==
  /\ pc[t] = "takeTx" /\ tx
  /\ tx' = FALSE
  /\ Goto(t, "send")
  /\ UNCHANGED rx

\* xSemaphoreTake(RX) succeeds.
TakeRx(t) ==
  /\ pc[t] = "takeRx" /\ rx
  /\ rx' = FALSE
  /\ Goto(t, "receive")
  /\ UNCHANGED tx

\* xSemaphoreTake runs out of time: the call fails.
TakeTimeout(t) ==
  /\ Timeouts
  /\ (pc[t] = "takeTx" /\ ~tx) \/ (pc[t] = "takeRx" /\ ~rx)
  /\ Goto(t, "idle")
  /\ UNCHANGED <<tx, rx>>

\* The critical section could not serve the call: a task waits for the
\* semaphore again, or leaves when its time is over; the semaphore it took
\* is not given back.  An interrupt handler leaves.
Refused(t) ==
  /\ \/ t \notin Isrs /\ Goto(t, IF pc[t] = "send" THEN "takeTx" ELSE "takeRx")
     \/ (Timeouts \/ t \in Isrs) /\ Goto(t, "idle")
  /\ UNCHANGED <<tx, rx>>

\* xSemaphoreGive(TX), after the critical section.
GiveTx(t) ==
  /\ pc[t] \in {"giveTx", "giveTxRx"}
  /\ tx' = TRUE
  /\ Goto(t, IF pc[t] = "giveTxRx" THEN "giveRx" ELSE "idle")
  /\ UNCHANGED rx

\* xSemaphoreGive(RX), after the critical section.
GiveRx(t) ==
  /\ pc[t] = "giveRx"
  /\ rx' = TRUE
  /\ Goto(t, "idle")
  /\ UNCHANGED tx

\* The steps of a call outside its critical section.
SemaphoreStep(t) == TakeTx(t) \/ TakeRx(t) \/ TakeTimeout(t) \/ GiveTx(t) \/ GiveRx(t)

TasksTypeOK ==
  /\ pc \in [Tasks -> Labels]
  /\ tx \in BOOLEAN
  /\ rx \in BOOLEAN
=============================================================================
