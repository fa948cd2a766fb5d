------------------------------ MODULE Pthread -------------------------------
(***************************************************************************)
(* POSIX threads, mutexes and condition variables over FreeRTOS:           *)
(* components/pthread/pthread.c and pthread_cond_var.c.                    *)
(*                                                                         *)
(* s_threads_mux protects the list of thread descriptors.  Every call      *)
(* holds it for one critical section, which is one step here, except       *)
(* pthread_exit: another task could delete the exiting task while it holds *)
(* the mutex, so its steps are kept apart.                                 *)
(***************************************************************************)
EXTENDS Integers, Sequences, FiniteSets, SequencesExt

CONSTANTS Threads,    \* descriptors and tasks of pthreads
          Main,       \* a task that is not a pthread
          Waiters     \* tasks that use the condition variable

Task == Threads \cup {Main}
Nobody == "nobody"

ASSUME ThreadsAssumption == Main \notin Threads /\ Nobody \notin Task /\ Waiters \subseteq Task

VARIABLES
  desc,      \* desc[t]: the descriptor of t, [listed, state, detached, join_task, retval]
  pc,        \* pc[t]: where task t is
  target,    \* target[t]: the thread that t joins
  notified,  \* notified[t]: a notification of task t is pending
  mux,       \* who holds s_threads_mux across steps: an exiting task or Nobody
  owner,     \* who holds the pthread mutex
  waiters,   \* waiter_list of the condition variable
  sem,       \* sem[t]: wait_sem of t: -1 when it does not exist, else its count
  seen       \* ghost: seen[t]: the retval that the last join of t returned

vars == <<desc, pc, target, notified, mux, owner, waiters, sem, seen>>

Free == [listed |-> FALSE, state |-> "run", detached |-> FALSE, join_task |-> Nobody, retval |-> 0]

Init == /\ desc = [t \in Threads |-> Free]
        /\ pc = [t \in Task |-> IF t = Main THEN "run" ELSE "none"]
        /\ target = [t \in Task |-> Nobody]
        /\ notified = [t \in Task |-> FALSE]
        /\ mux = Nobody /\ owner = Nobody
        /\ waiters = <<>> /\ sem = [t \in Task |-> -1]
        /\ seen = [t \in Task |-> 1]

threads == <<desc, target, notified, mux, seen>>
sync == <<owner, waiters, sem>>

Go(t, from, to) == pc[t] = from /\ pc' = [pc EXCEPT ![t] = to]

(********************************* threads *********************************)
\* The task exists before its descriptor is listed; it waits for the notification.
pthread_create(t, u) ==
  /\ pc[t] = "run" /\ pc[u] = "none" /\ ~desc[u].listed
  /\ pc' = [pc EXCEPT ![t] = "create", ![u] = "start"]
  /\ target' = [target EXCEPT ![t] = u]
  /\ UNCHANGED <<desc, notified, mux, seen, sync>>

CreateList(t, detached) ==
  /\ Go(t, "create", "run") /\ mux = Nobody
  /\ desc' = [desc EXCEPT ![target[t]] = [Free EXCEPT !.listed = TRUE, !.detached = detached]]
  /\ notified' = [notified EXCEPT ![target[t]] = TRUE]
  /\ target' = [target EXCEPT ![t] = Nobody]
  /\ UNCHANGED <<mux, seen, sync>>

pthread_task_func(t) ==
  /\ Go(t, "start", "run") /\ notified[t]
  /\ notified' = [notified EXCEPT ![t] = FALSE]
  /\ UNCHANGED <<desc, target, mux, seen, sync>>

\* The conditions of pthread_join, after which it returns an error.
JoinError(t, u) ==
  \/ ~desc[u].listed
  \/ desc[u].detached
  \/ desc[u].join_task # Nobody
  \/ u = t
  \/ t \in Threads /\ desc[t].listed /\ desc[t].join_task = u

pthread_delete(u) == [desc EXCEPT ![u] = Free]

\* A task does not hold the application's mutex while it joins.
pthread_join(t, u) ==
  /\ pc[t] = "run" /\ owner # t /\ mux = Nobody /\ ~JoinError(t, u)
  /\ target' = [target EXCEPT ![t] = u]
  /\ IF desc[u].state = "run"
     THEN /\ desc' = [desc EXCEPT ![u].join_task = t]
          /\ pc' = [pc EXCEPT ![t] = "joining"]
          /\ UNCHANGED seen
     ELSE /\ seen' = [seen EXCEPT ![t] = desc[u].retval]
          /\ desc' = pthread_delete(u)
          /\ pc' = [pc EXCEPT ![t] = "reap"]
  /\ UNCHANGED <<notified, mux, sync>>

JoinNotified(t) ==
  /\ Go(t, "joining", "joined") /\ notified[t]
  /\ notified' = [notified EXCEPT ![t] = FALSE]
  /\ UNCHANGED <<desc, target, mux, seen, sync>>

\* Mutant: the mutex is not taken before the descriptor is deleted.
JoinDeleteUnlocked(t) ==
  /\ Go(t, "joined", "reap")
  /\ seen' = [seen EXCEPT ![t] = desc[target[t]].retval]
  /\ desc' = pthread_delete(target[t])
  /\ UNCHANGED <<target, notified, mux, sync>>

JoinDelete(t) == mux = Nobody /\ JoinDeleteUnlocked(t)

\* vTaskDelete of another task, wherever it is.
Reap(t) ==
  /\ pc[t] = "reap"
  /\ pc' = [pc EXCEPT ![t] = "run", ![target[t]] = "none"]
  /\ target' = [target EXCEPT ![t] = Nobody]
  /\ UNCHANGED <<desc, notified, mux, seen, sync>>

\* Mutant: a thread that is being joined can be detached.
pthread_detach_joined(t, u) ==
  /\ pc[t] = "run" /\ mux = Nobody
  /\ desc[u].listed /\ ~desc[u].detached
  /\ IF desc[u].state = "run"
     THEN desc' = [desc EXCEPT ![u].detached = TRUE] /\ UNCHANGED pc
     ELSE desc' = pthread_delete(u) /\ pc' = [pc EXCEPT ![u] = "none"]
  /\ UNCHANGED <<target, notified, mux, seen, sync>>

pthread_detach(t, u) == desc[u].join_task = Nobody /\ pthread_detach_joined(t, u)

\* An exiting thread does not hold the application's mutex.
pthread_exit(t) ==
  /\ t \in Threads /\ owner # t
  /\ Go(t, "run", "exit") /\ mux = Nobody
  /\ mux' = t
  /\ UNCHANGED <<desc, target, notified, seen, sync>>

\* The descriptor of a detached thread is deleted, that of another one gets its value and,
\* when nobody joins yet, its state.
Exited(t, notify) ==
  LET d == desc[t]
      joined == ~d.detached /\ d.join_task # Nobody
  IN /\ Go(t, "exit", IF d.detached THEN "gone" ELSE "exited")
     /\ desc' = IF d.detached THEN pthread_delete(t)
                ELSE [desc EXCEPT ![t].retval = 1, ![t].state = IF joined THEN @ ELSE "exit"]
     /\ notified' = [u \in Task |-> notified[u] \/ (notify /\ joined /\ u = d.join_task)]
     /\ UNCHANGED <<target, mux, seen, sync>>

\* Mutant: the joining task is not notified.
ExitSilent(t) == Exited(t, FALSE)

ExitUpdate(t) == Exited(t, TRUE)

\* The mutex is released; from here on another task may delete a joinable one.
ExitUnlock(t) ==
  /\ \/ Go(t, "exited", "given")
     \/ Go(t, "gone", "leaving")
  /\ mux' = Nobody
  /\ UNCHANGED <<desc, target, notified, seen, sync>>

\* The task suspends itself until it is joined, or deletes itself.
ExitEnd(t) ==
  /\ \/ Go(t, "given", "suspended")
     \/ Go(t, "leaving", "none")
  /\ UNCHANGED <<threads, sync>>

(************************* mutex, condition variable ***********************)
pthread_mutex_lock(t) ==
  /\ pc[t] = "run" /\ owner = Nobody
  /\ owner' = t
  /\ UNCHANGED <<threads, pc, waiters, sem>>

pthread_mutex_unlock(t) ==
  /\ pc[t] = "run" /\ owner = t
  /\ owner' = Nobody
  /\ UNCHANGED <<threads, pc, waiters, sem>>

\* The entry is on the list before the mutex is released.
pthread_cond_timedwait(t) ==
  /\ owner = t /\ Go(t, "run", "wait")
  /\ sem' = [sem EXCEPT ![t] = 0]
  /\ waiters' = Append(waiters, t)
  /\ UNCHANGED <<threads, owner>>

\* Mutant: the wait does not release the mutex.
WaitKeepsLock(t) ==
  /\ Go(t, "wait", "take")
  /\ UNCHANGED <<threads, sync>>

WaitUnlock(t) ==
  /\ Go(t, "wait", "take")
  /\ owner' = Nobody
  /\ UNCHANGED <<threads, waiters, sem>>

\* The semaphore is taken, or the time is over.
WaitEnd(t, timeout) ==
  /\ Go(t, "take", "woken")
  /\ IF timeout THEN sem[t] = 0 /\ UNCHANGED sem
     ELSE sem[t] > 0 /\ sem' = [sem EXCEPT ![t] = @ - 1]
  /\ UNCHANGED <<threads, owner, waiters>>

\* Mutant: the semaphore is deleted while the entry is on the list.
WaitDeleteSemFirst(t) ==
  /\ Go(t, "woken", "removed")
  /\ sem' = [sem EXCEPT ![t] = -1]
  /\ UNCHANGED <<threads, owner, waiters>>

\* The entry leaves the list before its semaphore is deleted.
WaitRemove(t) ==
  /\ Go(t, "woken", "removed")
  /\ \E i \in DOMAIN waiters : waiters[i] = t /\ waiters' = RemoveAt(waiters, i)
  /\ UNCHANGED <<threads, owner, sem>>

WaitDeleteSem(t) ==
  /\ Go(t, "removed", "relock")
  /\ sem' = [sem EXCEPT ![t] = -1]
  /\ UNCHANGED <<threads, owner, waiters>>

WaitRelock(t) ==
  /\ Go(t, "relock", "run") /\ owner = Nobody
  /\ owner' = t
  /\ UNCHANGED <<threads, waiters, sem>>

\* xSemaphoreGive of a semaphore with one place.
Give(S) == [t \in Task |-> IF t \in S THEN 1 ELSE sem[t]]

pthread_cond_signal(t) ==
  /\ pc[t] = "run" /\ waiters # <<>>
  /\ sem' = Give({Head(waiters)})
  /\ UNCHANGED <<threads, pc, owner, waiters>>

pthread_cond_broadcast(t) ==
  /\ pc[t] = "run" /\ waiters # <<>>
  /\ sem' = Give({waiters[i] : i \in DOMAIN waiters})
  /\ UNCHANGED <<threads, pc, owner, waiters>>

Next ==
  \E t \in Task :
    \/ \E u \in Threads : pthread_create(t, u) \/ pthread_join(t, u) \/ pthread_detach(t, u)
    \/ \E d \in BOOLEAN : CreateList(t, d)
    \/ pthread_task_func(t) \/ JoinNotified(t) \/ JoinDelete(t) \/ Reap(t)
    \/ pthread_exit(t) \/ ExitUpdate(t) \/ ExitUnlock(t) \/ ExitEnd(t)
    \/ t \in Waiters /\ \/ pthread_mutex_lock(t) \/ pthread_cond_timedwait(t)
                        \/ pthread_cond_signal(t) \/ pthread_cond_broadcast(t)
    \/ pthread_mutex_unlock(t)
    \/ WaitUnlock(t) \/ WaitRemove(t) \/ WaitDeleteSem(t) \/ WaitRelock(t)
    \/ \E timeout \in BOOLEAN : WaitEnd(t, timeout)

\* What a task has begun, it goes on with when it can: the scheduler runs it, a mutex that
\* is given back again and again is not withheld from it, and it gives its own back.
Continue(t) ==
  \/ \E d \in BOOLEAN : CreateList(t, d)
  \/ JoinNotified(t) \/ JoinDelete(t) \/ Reap(t)
  \/ ExitUpdate(t) \/ ExitUnlock(t) \/ ExitEnd(t)
  \/ WaitUnlock(t) \/ WaitEnd(t, FALSE)
  \/ WaitRemove(t) \/ WaitDeleteSem(t) \/ WaitRelock(t)

Fairness == \A t \in Task : SF_vars(Continue(t)) /\ SF_vars(pthread_mutex_unlock(t))

Spec == Init /\ [][Next]_vars /\ Fairness

(******************************** properties *******************************)
\* A task is in the states that the calls have, holds s_threads_mux while it exits and
\* joins a thread only in pthread_join.
TypeOK ==
  /\ \A t \in Threads : desc[t] \in [listed : BOOLEAN, state : {"run", "exit"},
                                     detached : BOOLEAN, join_task : Task \cup {Nobody},
                                     retval : {0, 1}]
  /\ \A t \in Task : sem[t] \in -1..1 /\ notified[t] \in BOOLEAN
  /\ \A t \in Task : (mux = t) <=> pc[t] \in {"exit", "exited", "gone"}
  /\ \A t \in Task : (target[t] # Nobody) <=> pc[t] \in {"create", "joining", "joined", "reap"}
  /\ owner \in Task \cup {Nobody}

\* pthread_exit finds the descriptor of its task: "Failed to find pthread for current
\* task!" is never asserted, however soon the thread ends after its creation.
ExitFindsItself == \A t \in Threads : pc[t] = "exit" => desc[t].listed

\* The descriptor that a task has looked up for a join stays its own to read and to
\* delete until it has done so: nobody else frees it while the task waits.
JoinKeepsDescriptor ==
  \A t \in Task : pc[t] \in {"joining", "joined"} =>
    LET d == desc[target[t]] IN d.listed /\ d.join_task = t /\ ~d.detached

\* A join that ends has the value that the thread passed to pthread_exit.
JoinResult == \A t \in Task : pc[t] = "reap" => seen[t] = 1

\* A task is deleted, by itself or from outside, only when it has given s_threads_mux back
\* for good, and nobody joins with or waits for it in the condition variable.
DeletesStopped ==
  [][\A t \in Threads : pc[t] # "none" /\ pc'[t] = "none" =>
       /\ pc[t] \in {"given", "suspended", "leaving"} /\ mux' # t
       /\ ~desc'[t].listed /\ sem[t] = -1
       /\ \A u \in Task : pc[u] \in {"joining", "joined"} => target[u] # t]_vars

\* No two threads wait for each other to end.
NoMutualJoin ==
  \A t, u \in Threads : ~(/\ pc[t] = "joining" /\ target[t] = u /\ pc[u] = "joining" /\ target[u] = t)

\* A descriptor is there and unchanged for whoever has looked it up or needs to find
\* it: the thread that ends, and the one task that joins it and gets its value.
DescriptorsKept == TypeOK /\ ExitFindsItself /\ JoinKeepsDescriptor /\ JoinResult /\ NoMutualJoin

\* No wake-up is lost between the release of the mutex and the wait, and none goes to a
\* semaphore that is gone: a task that has released the mutex to wait is on the list once,
\* and every entry of the list has its semaphore.
WaitersListed ==
  /\ \A t \in Task : pc[t] = "take" => t \in {waiters[i] : i \in DOMAIN waiters}
  /\ \A i \in DOMAIN waiters : sem[waiters[i]] # -1
  /\ \A i, j \in DOMAIN waiters : waiters[i] = waiters[j] => i = j

\* A join with a thread that has ended returns.
JoinReturns ==
  \A t \in Task : (pc[t] = "joining" /\ desc[target[t]].retval = 1) ~> (pc[t] = "run")

\* A task that was signalled returns from the wait with the mutex.
SignalledReturns == \A t \in Task : (sem[t] = 1) ~> (owner = t /\ pc[t] = "run")
=============================================================================
