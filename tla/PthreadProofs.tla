---------------------------- MODULE PthreadProofs ----------------------------
(***************************************************************************)
(* Proofs about Pthread, for any number of threads and of tasks that wait. *)
(***************************************************************************)
EXTENDS Pthread, TLAPS

----------------------------------------------------------------------------
(* The inductive invariant *)

PcStates == {"none", "start", "run", "create", "joining", "joined", "reap", "exit", "exited",
             "gone", "given", "leaving", "suspended", "wait", "take", "woken", "removed", "relock"}

Descriptor == [listed : BOOLEAN, state : {"run", "exit"}, detached : BOOLEAN,
               join_task : Task \cup {Nobody}, retval : {0, 1}]

Types ==
  /\ desc \in [Threads -> Descriptor]
  /\ pc \in [Task -> PcStates]
  /\ target \in [Task -> Threads \cup {Nobody}]
  /\ notified \in [Task -> BOOLEAN]
  /\ mux \in Threads \cup {Nobody}
  /\ owner \in Task \cup {Nobody}
  /\ waiters \in Seq(Task)
  /\ sem \in [Task -> -1..1]
  /\ seen \in [Task -> {0, 1}]

(* s_threads_mux is held by the task that exits, across its steps. *)
MuxHeld == \A t \in Task : (mux = t) <=> pc[t] \in {"exit", "exited", "gone"}

(* A task names a thread exactly while it creates or joins one. *)
Targets == \A t \in Task : (target[t] # Nobody) <=> pc[t] \in {"create", "joining", "joined", "reap"}

(* A thread that is being created waits for its descriptor; no two tasks create it.  *)
Creation ==
  \A t \in Task : pc[t] = "create" =>
    /\ pc[target[t]] = "start" /\ ~desc[target[t]].listed
    /\ \A u \in Task : pc[u] = "create" /\ target[u] = target[t] => u = t

(* Which tasks are on s_threads_list: those between their start and their end. *)
Listed ==
  \A t \in Threads :
    /\ pc[t] \in {"none", "gone", "leaving"} => ~desc[t].listed
    /\ desc[t].listed
         \/ pc[t] \in {"none", "start", "gone", "given", "leaving", "suspended"}

(* A notification is for a thread to start or for a join to go on. *)
Notifications ==
  \A t \in Task : notified[t] =>
    \/ t \in Threads /\ pc[t] = "start" /\ desc[t].listed
    \/ pc[t] = "joining" /\ pc[target[t]] \in {"exited", "given", "suspended"}

(* The state "exit" is that of a thread that has ended and that nobody joined so far. *)
Ended ==
  \A t \in Threads : desc[t].listed =>
    /\ desc[t].state = "exit" => /\ pc[t] \in {"exited", "given", "suspended"}
                                 /\ desc[t].join_task = Nobody
    /\ pc[t] \in {"exited", "given", "suspended"} =>
         /\ ~desc[t].detached /\ desc[t].retval = 1
         /\ desc[t].state = "exit" \/ desc[t].join_task # Nobody

(* The join_task of a descriptor is the task that joins, and has it as its target. *)
Joins ==
  /\ \A t \in Task : pc[t] \in {"joining", "joined"} =>
       LET d == desc[target[t]] IN d.listed /\ d.join_task = t /\ ~d.detached
  /\ \A t \in Threads : desc[t].listed /\ desc[t].join_task # Nobody =>
       pc[desc[t].join_task] \in {"joining", "joined"} /\ target[desc[t].join_task] = t
  /\ \A t \in Task : pc[t] = "joined" => pc[target[t]] \in {"exited", "given", "suspended"}
  /\ \A t \in Threads : pc[t] = "joining" /\ pc[target[t]] = "joining" => target[target[t]] # t

(* Who is about to delete a task has unlisted it, alone, and has its value. *)
Reaping ==
  \A t \in Task : pc[t] = "reap" =>
    /\ pc[target[t]] \in {"given", "suspended"} /\ ~desc[target[t]].listed /\ seen[t] = 1
    /\ \A u \in Task : pc[u] = "reap" /\ target[u] = target[t] => u = t

(* A task is on the waiter list, once, from the wait to its end; its semaphore lives longer. *)
OnList ==
  /\ \A t \in Task : pc[t] \in {"wait", "take", "woken"} <=> \E i \in DOMAIN waiters : waiters[i] = t
  /\ \A i, j \in DOMAIN waiters : waiters[i] = waiters[j] => i = j
  /\ \A t \in Task : (sem[t] # -1) <=> pc[t] \in {"wait", "take", "woken", "removed"}

PInv == Types /\ MuxHeld /\ Targets /\ Creation /\ Listed /\ Notifications /\ Ended /\ Joins
        /\ Reaping /\ OnList

----------------------------------------------------------------------------
(* Facts about the waiter list *)

(* TAILQ_REMOVE of an entry that is on the list once: the others stay, once each. *)
LEMMA RemoveAtEffect ==
  ASSUME NEW S, NEW s \in Seq(S), NEW i \in DOMAIN s,
         \A m, n \in DOMAIN s : s[m] = s[n] => m = n
  PROVE  LET r == RemoveAt(s, i)
         IN /\ r \in Seq(S)
            /\ \A x \in S : (\E n \in DOMAIN r : r[n] = x) <=> (x # s[i] /\ \E n \in DOMAIN s : s[n] = x)
            /\ \A m, n \in DOMAIN r : r[m] = r[n] => m = n
<1> DEFINE r == RemoveAt(s, i)
<1>1. /\ r \in Seq(S) /\ Len(r) = Len(s) - 1
      /\ \A n \in 1 .. Len(s) - 1 : (n < i => r[n] = s[n]) /\ (n >= i => r[n] = s[n + 1])
  <2> DEFINE a == SubSeq(s, 1, i - 1)
             b == SubSeq(s, i + 1, Len(s))
  <2>1. /\ a \in Seq(S) /\ Len(a) = i - 1
        /\ \A n \in 1 .. i - 1 : a[n] = s[n]
    OBVIOUS
  <2>2. /\ b \in Seq(S) /\ Len(b) = Len(s) - i
        /\ \A n \in 1 .. Len(s) - i : b[n] = s[n + i]
    OBVIOUS
  <2> HIDE DEF a, b
  <2>3. a \o b \in Seq(S) /\ Len(a \o b) = Len(s) - 1
    BY <2>1, <2>2
  <2>4. ASSUME NEW n \in 1 .. Len(s) - 1, n < i
        PROVE  (a \o b)[n] = s[n]
    BY <2>1, <2>2, <2>4
  <2>5. ASSUME NEW n \in 1 .. Len(s) - 1, n >= i
        PROVE  (a \o b)[n] = s[n + 1]
    <3>1. (a \o b)[n] = b[n - (i - 1)]
      BY <2>1, <2>2, <2>5, SMTT(30)
    <3> QED BY <2>2, <2>5, <3>1
  <2> QED BY <2>3, <2>4, <2>5 DEF RemoveAt, a, b
<1> HIDE DEF r
<1>2. ASSUME NEW x \in S, NEW n \in DOMAIN s, s[n] = x, x # s[i]
      PROVE  \E m \in DOMAIN r : r[m] = x
  <2>1. CASE n < i
    BY <1>1, <1>2, <2>1
  <2>2. CASE n > i
    <3>1. n - 1 \in DOMAIN r /\ r[n - 1] = s[n]
      BY <1>1, <2>2
    <3> QED BY <1>2, <3>1
  <2> QED BY <1>2, <2>1, <2>2
<1>3. ASSUME NEW x \in S, NEW n \in DOMAIN r, r[n] = x
      PROVE  x # s[i] /\ \E m \in DOMAIN s : s[m] = x
  <2>1. CASE n < i
    BY <1>1, <1>3, <2>1
  <2>2. CASE n >= i
    <3>1. n + 1 \in DOMAIN s /\ r[n] = s[n + 1]
      BY <1>1, <2>2
    <3> QED BY <1>3, <2>2, <3>1
  <2> QED BY <1>1, <2>1, <2>2
<1>4. ASSUME NEW m \in DOMAIN r, NEW n \in DOMAIN r, r[m] = r[n]
      PROVE  m = n
  <2> DEFINE at(k) == IF k < i THEN k ELSE k + 1
  <2>1. \A k \in DOMAIN r : at(k) \in DOMAIN s /\ r[k] = s[at(k)]
    BY <1>1
  <2>2. at(m) = at(n)
    BY <1>4, <2>1
  <2> QED BY <1>1, <2>2
<1> QED BY <1>1, <1>2, <1>3, <1>4 DEF r

----------------------------------------------------------------------------
(* The invariant holds initially and every step keeps it *)

LEMMA InitPInv == Init => PInv
BY ThreadsAssumption
DEF Init, PInv, Types, MuxHeld, Targets, Creation, Listed, Notifications, Ended, Joins,
Reaping, OnList, PcStates, Descriptor, Free, Task

(* The new thread is unlisted and waits; it was nobody's target. *)
LEMMA pthread_createInv ==
  ASSUME PInv, NEW t \in Task, NEW u \in Threads, pthread_create(t, u)
  PROVE  PInv'
<1> USE ThreadsAssumption DEF PInv, pthread_create, Go, threads, sync
<1>1. Types'
  BY DEF Types, PcStates, Descriptor, Task
<1>2. (MuxHeld /\ Targets /\ Creation /\ Listed)'
  BY DEF Types, MuxHeld, Targets, Creation, Listed, Ended, Joins, PcStates, Descriptor,
     Task
<1>3. (Notifications /\ Ended /\ Joins /\ Reaping)'
  BY DEF Types, Targets, Creation, Listed, Notifications, Ended, Joins, Reaping,
     PcStates, Descriptor, Task
<1>4. OnList'
  BY DEF Types, OnList, PcStates, Descriptor, Task
<1> QED BY <1>1, <1>2, <1>3, <1>4

(* Either the caller becomes the join_task of a thread that runs, or it takes   *)
(* the value of one that has ended and suspended itself.                         *)
LEMMA pthread_joinInv ==
  ASSUME PInv, NEW t \in Task, NEW u \in Threads, pthread_join(t, u)
  PROVE  PInv'
<1> USE ThreadsAssumption DEF PInv
<1>1. /\ pc[t] = "run" /\ mux = Nobody /\ u # t
      /\ desc[u].listed /\ ~desc[u].detached /\ desc[u].join_task = Nobody
      /\ t \in Threads /\ desc[t].listed => desc[t].join_task # u
      /\ target' = [target EXCEPT ![t] = u]
      /\ UNCHANGED <<notified, mux, owner, waiters, sem>>
  BY DEF pthread_join, JoinError, sync
<1>2. CASE desc[u].state = "run"
  <2>1. /\ desc' = [desc EXCEPT ![u].join_task = t] /\ UNCHANGED seen
        /\ pc' = [pc EXCEPT ![t] = "joining"]
    BY <1>2 DEF pthread_join
  <2>2. /\ desc' \in [Threads -> Descriptor]
        /\ desc'[u].listed /\ desc'[u].state = "run" /\ ~desc'[u].detached
        /\ desc'[u].join_task = t /\ desc'[u].retval = desc[u].retval
        /\ \A v \in Threads \ {u} : desc'[v] = desc[v]
    <3>1. desc[u] \in Descriptor /\ t \in Task \cup {Nobody}
      BY DEF Types
    <3> DEFINE new == [desc[u] EXCEPT !.join_task = t]
    <3>2. /\ new \in Descriptor /\ new.listed /\ new.state = "run" /\ ~new.detached
          /\ new.join_task = t /\ new.retval = desc[u].retval
      BY <1>1, <1>2, <3>1 DEF Descriptor
    <3>3. desc' = [desc EXCEPT ![u] = new]
      BY <2>1
    <3> HIDE DEF new
    <3> QED BY <3>2, <3>3 DEF Types
  <2>3. Types'
    BY <1>1, <1>2, <2>1, <2>2 DEF Types, PcStates, Descriptor, Task
  <2>4. MuxHeld'
    BY <1>1, <1>2, <2>1, <2>2 DEF Types, MuxHeld, PcStates, Descriptor, Task
  <2>5. Targets'
    BY <1>1, <1>2, <2>1, <2>2 DEF Types, Targets, PcStates, Descriptor, Task
  <2>6. Creation'
    BY <1>1, <1>2, <2>1, <2>2 DEF Types, Targets, Creation, PcStates, Descriptor, Task
  <2>7. Listed'
    BY <1>1, <1>2, <2>1, <2>2 DEF Types, Creation, Listed, PcStates, Descriptor, Task
  <2>8. Notifications'
    BY <1>1, <1>2, <2>1, <2>2 DEF Types, Targets, Listed, Notifications, PcStates,
       Descriptor, Task
  <2>9. Ended'
    BY <1>1, <1>2, <2>1, <2>2 DEF Types, Listed, Ended, PcStates, Descriptor, Task
  <2>10. Joins'
    BY <1>1, <1>2, <2>1, <2>2 DEF Types, Targets, Listed, Joins, PcStates, Descriptor,
       Task
  <2>11. Reaping'
    BY <1>1, <1>2, <2>1, <2>2 DEF Types, Targets, Creation, Reaping, PcStates,
       Descriptor, Task
  <2>12. OnList'
    BY <1>1, <1>2, <2>1, <2>2 DEF Types, OnList, PcStates, Descriptor, Task
  <2> QED BY <2>3, <2>4, <2>5, <2>6, <2>7, <2>8, <2>9, <2>10, <2>11, <2>12
<1>3. CASE desc[u].state # "run"
  <2>1. /\ desc[u].state = "exit" /\ pc[u] \in {"given", "suspended"} /\ desc[u].retval = 1
        /\ seen' = [seen EXCEPT ![t] = 1]
        /\ desc' = [desc EXCEPT ![u] = Free]
        /\ pc' = [pc EXCEPT ![t] = "reap"]
    <3>1. desc[u].state = "exit"
      BY <1>3 DEF Types, Descriptor
    <3>2. pc[u] \in {"given", "suspended"} /\ desc[u].retval = 1
      BY <1>1, <3>1 DEF MuxHeld, Ended, Task
    <3> QED BY <1>3, <3>1, <3>2 DEF pthread_join, pthread_delete
  <2>2. /\ desc' \in [Threads -> Descriptor] /\ ~desc'[u].listed
        /\ \A v \in Threads \ {u} : desc'[v] = desc[v]
    BY <2>1 DEF Types, Descriptor, Free
  <2>3. Types'
    BY <1>1, <2>1, <2>2 DEF Types, PcStates, Descriptor, Task
  <2>4. MuxHeld'
    BY <1>1, <2>1, <2>2 DEF Types, MuxHeld, PcStates, Descriptor, Task
  <2>5. Targets'
    BY <1>1, <2>1, <2>2 DEF Types, Targets, PcStates, Descriptor, Task
  <2>6. Creation'
    BY <1>1, <2>1, <2>2 DEF Types, Targets, Creation, PcStates, Descriptor, Task
  <2>7. Listed'
    BY <1>1, <2>1, <2>2 DEF Types, Creation, Listed, PcStates, Descriptor, Task
  <2>8. Notifications'
    BY <1>1, <2>1, <2>2 DEF Types, Targets, Listed, Notifications, PcStates,
       Descriptor, Task
  <2>9. Ended'
    BY <1>1, <2>1, <2>2 DEF Types, Listed, Ended, PcStates, Descriptor, Task
  <2>10. Joins'
    BY <1>1, <2>1, <2>2 DEF Types, Targets, Listed, Joins, PcStates, Descriptor, Task
  <2>11. Reaping'
    BY <1>1, <2>1, <2>2 DEF Types, Targets, Creation, Reaping, PcStates, Descriptor,
       Task
  <2>12. OnList'
    BY <1>1, <2>1, <2>2 DEF Types, OnList, PcStates, Descriptor, Task
  <2> QED BY <2>3, <2>4, <2>5, <2>6, <2>7, <2>8, <2>9, <2>10, <2>11, <2>12
<1> QED BY <1>2, <1>3

(* Either the thread runs on, or it has given the mutex back and is deleted. *)
LEMMA pthread_detachInv ==
  ASSUME PInv, NEW t \in Task, NEW u \in Threads, pthread_detach(t, u)
  PROVE  PInv'
<1> USE ThreadsAssumption DEF PInv
<1>1. /\ pc[t] = "run" /\ mux = Nobody
      /\ desc[u].listed /\ ~desc[u].detached /\ desc[u].join_task = Nobody
      /\ UNCHANGED <<target, notified, mux, seen, owner, waiters, sem>>
  BY DEF pthread_detach, pthread_detach_joined, sync
<1>2. CASE desc[u].state = "run"
  <2>1. desc' = [desc EXCEPT ![u].detached = TRUE] /\ UNCHANGED pc
    BY <1>2 DEF pthread_detach, pthread_detach_joined
  <2>2. /\ desc' \in [Threads -> Descriptor]
        /\ desc'[u].listed /\ desc'[u].state = "run" /\ desc'[u].join_task = Nobody
        /\ \A v \in Threads \ {u} : desc'[v] = desc[v]
        /\ pc[u] \notin {"exited", "given", "suspended"}
    <3>1. desc[u] \in Descriptor /\ pc[u] \notin {"exited", "given", "suspended"}
      BY <1>1, <1>2 DEF Types, Ended
    <3> DEFINE new == [desc[u] EXCEPT !.detached = TRUE]
    <3>2. new \in Descriptor /\ new.listed /\ new.state = "run" /\ new.join_task = Nobody
      BY <1>1, <1>2, <3>1 DEF Descriptor
    <3>3. desc' = [desc EXCEPT ![u] = new]
      BY <2>1
    <3> HIDE DEF new
    <3> QED BY <3>1, <3>2, <3>3 DEF Types
  <2>3. Types'
    BY <1>1, <1>2, <2>1, <2>2 DEF Types, PcStates, Descriptor, Task
  <2>4. MuxHeld'
    BY <1>1, <1>2, <2>1, <2>2 DEF Types, MuxHeld, PcStates, Descriptor, Task
  <2>5. Targets'
    BY <1>1, <1>2, <2>1, <2>2 DEF Types, Targets, PcStates, Descriptor, Task
  <2>6. Creation'
    BY <1>1, <1>2, <2>1, <2>2 DEF Types, Targets, Creation, PcStates, Descriptor, Task
  <2>7. Listed'
    BY <1>1, <1>2, <2>1, <2>2 DEF Types, Creation, Listed, PcStates, Descriptor, Task
  <2>8. Notifications'
    BY <1>1, <1>2, <2>1, <2>2 DEF Types, Targets, Listed, Notifications, PcStates,
       Descriptor, Task
  <2>9. Ended'
    BY <1>1, <1>2, <2>1, <2>2 DEF Types, Listed, Ended, PcStates, Descriptor, Task
  <2>10. Joins'
    BY <1>1, <1>2, <2>1, <2>2 DEF Types, Targets, Listed, Joins, PcStates, Descriptor,
       Task
  <2>11. Reaping'
    BY <1>1, <1>2, <2>1, <2>2 DEF Types, Targets, Creation, Reaping, PcStates,
       Descriptor, Task
  <2>12. OnList'
    BY <1>1, <1>2, <2>1, <2>2 DEF Types, OnList, PcStates, Descriptor, Task
  <2> QED BY <2>3, <2>4, <2>5, <2>6, <2>7, <2>8, <2>9, <2>10, <2>11, <2>12
<1>3. CASE desc[u].state # "run"
  <2>1. /\ pc[u] \in {"given", "suspended"}
        /\ desc' = [desc EXCEPT ![u] = Free]
        /\ pc' = [pc EXCEPT ![u] = "none"]
    <3>1. desc[u].state = "exit"
      BY <1>3 DEF Types, Descriptor
    <3>2. pc[u] \in {"given", "suspended"}
      BY <1>1, <3>1 DEF MuxHeld, Ended, Task
    <3> QED BY <1>3, <3>2 DEF pthread_detach, pthread_detach_joined, pthread_delete
  <2>2. /\ desc' \in [Threads -> Descriptor] /\ ~desc'[u].listed
        /\ \A v \in Threads \ {u} : desc'[v] = desc[v]
    BY <2>1 DEF Types, Descriptor, Free
  <2>3. Types'
    BY <1>1, <2>1, <2>2 DEF Types, PcStates, Descriptor, Task
  <2>4. MuxHeld'
    BY <1>1, <2>1, <2>2 DEF Types, MuxHeld, PcStates, Descriptor, Task
  <2>5. Targets'
    BY <1>1, <2>1, <2>2 DEF Types, Targets, PcStates, Descriptor, Task
  <2>6. Creation'
    BY <1>1, <2>1, <2>2 DEF Types, Targets, Creation, PcStates, Descriptor, Task
  <2>7. Listed'
    BY <1>1, <2>1, <2>2 DEF Types, Creation, Listed, PcStates, Descriptor, Task
  <2>8. Notifications'
    BY <1>1, <2>1, <2>2 DEF Types, MuxHeld, Targets, Listed, Notifications, Ended,
       Joins, PcStates, Descriptor, Task
  <2>9. Ended'
    BY <1>1, <2>1, <2>2 DEF Types, Listed, Ended, PcStates, Descriptor, Task
  <2>10. Joins'
    BY <1>1, <2>1, <2>2 DEF Types, Targets, Listed, Joins, PcStates, Descriptor, Task
  <2>11. Reaping'
    BY <1>1, <2>1, <2>2 DEF Types, Targets, Creation, Reaping, PcStates, Descriptor,
       Task
  <2>12. OnList'
    BY <1>1, <2>1, <2>2 DEF Types, OnList, PcStates, Descriptor, Task
  <2> QED BY <2>3, <2>4, <2>5, <2>6, <2>7, <2>8, <2>9, <2>10, <2>11, <2>12
<1> QED BY <1>2, <1>3

(* The thread was unlisted, so nobody joins it. *)
LEMMA CreateListInv ==
  ASSUME PInv, NEW t \in Task, NEW d \in BOOLEAN, CreateList(t, d)
  PROVE  PInv'
<1> USE ThreadsAssumption DEF PInv, CreateList, Free, Go, threads, sync
<1>1. Types'
  BY DEF Types, PcStates, Descriptor, Task
<1>2. (MuxHeld /\ Targets /\ Creation /\ Listed)'
  BY DEF Types, MuxHeld, Targets, Creation, Listed, PcStates, Descriptor, Task
<1>3. (Notifications /\ Ended /\ Joins /\ Reaping)'
  BY DEF Types, Targets, Creation, Listed, Notifications, Ended, Joins, Reaping,
     PcStates, Descriptor, Task
<1>4. OnList'
  BY DEF Types, OnList, PcStates, Descriptor, Task
<1> QED BY <1>1, <1>2, <1>3, <1>4

(* The notification says that the descriptor is listed. *)
LEMMA pthread_task_funcInv ==
  ASSUME PInv, NEW t \in Task, pthread_task_func(t)
  PROVE  PInv'
<1> USE ThreadsAssumption DEF PInv, pthread_task_func, Go, threads, sync
<1>1. Types'
  BY DEF Types, PcStates, Descriptor, Task
<1>2. (MuxHeld /\ Targets /\ Creation /\ Listed)'
  BY DEF Types, MuxHeld, Targets, Creation, Listed, Notifications, Ended, Joins,
     Reaping, PcStates, Descriptor, Task
<1>3. (Notifications /\ Ended /\ Joins /\ Reaping)'
  BY DEF Types, Targets, Creation, Listed, Notifications, Ended, Joins, Reaping,
     PcStates, Descriptor, Task
<1>4. OnList'
  BY DEF Types, OnList, PcStates, Descriptor, Task
<1> QED BY <1>1, <1>2, <1>3, <1>4

(* The notification says that the thread has ended. *)
LEMMA JoinNotifiedInv ==
  ASSUME PInv, NEW t \in Task, JoinNotified(t)
  PROVE  PInv'
<1> USE ThreadsAssumption DEF PInv, JoinNotified, Go, threads, sync
<1>1. Types'
  BY DEF Types, PcStates, Descriptor, Task
<1>2. (MuxHeld /\ Targets /\ Creation /\ Listed)'
  BY DEF Types, MuxHeld, Targets, Creation, Listed, PcStates, Descriptor, Task
<1>3. (Notifications /\ Ended /\ Joins /\ Reaping)'
  BY DEF Types, Targets, Creation, Listed, Notifications, Ended, Joins, Reaping,
     PcStates, Descriptor, Task
<1>4. OnList'
  BY DEF Types, OnList, PcStates, Descriptor, Task
<1> QED BY <1>1, <1>2, <1>3, <1>4

(* s_threads_mux is free, so the thread that ended has given it back. *)
LEMMA JoinDeleteInv ==
  ASSUME PInv, NEW t \in Task, JoinDelete(t)
  PROVE  PInv'
<1> USE ThreadsAssumption DEF PInv, JoinDelete, JoinDeleteUnlocked, pthread_delete,
Free, Go, threads, sync
<1>1. Types'
  BY DEF Types, MuxHeld, Targets, Ended, Joins, PcStates, Descriptor, Task
<1>2. (MuxHeld /\ Targets /\ Creation /\ Listed)'
  BY DEF Types, MuxHeld, Targets, Creation, Listed, Ended, Joins, PcStates, Descriptor,
     Task
<1>3. (Notifications /\ Ended /\ Joins /\ Reaping)'
  BY DEF Types, MuxHeld, Targets, Creation, Listed, Notifications, Ended, Joins,
     Reaping, PcStates, Descriptor, Task
<1>4. OnList'
  BY DEF Types, OnList, PcStates, Descriptor, Task
<1> QED BY <1>1, <1>2, <1>3, <1>4

(* The deleted task is unlisted: nobody else has it as a target. *)
LEMMA ReapInv ==
  ASSUME PInv, NEW t \in Task, Reap(t)
  PROVE  PInv'
<1> USE ThreadsAssumption DEF PInv, Reap, Go, threads, sync
<1>1. Types'
  BY DEF Types, PcStates, Descriptor, Task
<1>2. MuxHeld'
  BY DEF Types, MuxHeld, Targets, Creation, Listed, Notifications, Ended, Joins,
     Reaping, PcStates, Descriptor, Task
<1>3. Targets'
  BY DEF Types, MuxHeld, Targets, Creation, Listed, Notifications, Ended, Joins,
     Reaping, PcStates, Descriptor, Task
<1>4. Creation'
  BY DEF Types, MuxHeld, Targets, Creation, Listed, Notifications, Ended, Joins,
     Reaping, PcStates, Descriptor, Task
<1>5. Listed'
  BY DEF Types, MuxHeld, Targets, Creation, Listed, Notifications, Ended, Joins,
     Reaping, PcStates, Descriptor, Task
<1>6. Notifications'
  BY DEF Types, MuxHeld, Targets, Creation, Listed, Notifications, Ended, Joins,
     Reaping, PcStates, Descriptor, Task
<1>7. Ended'
  BY DEF Types, MuxHeld, Targets, Creation, Listed, Notifications, Ended, Joins,
     Reaping, PcStates, Descriptor, Task
<1>8. Joins'
  BY DEF Types, MuxHeld, Targets, Creation, Listed, Notifications, Ended, Joins,
     Reaping, PcStates, Descriptor, Task
<1>9. Reaping'
  BY DEF Types, Targets, Creation, Reaping, PcStates, Descriptor, Task
<1>10. OnList'
  BY DEF Types, MuxHeld, Targets, Creation, Listed, Notifications, Ended, Joins,
     Reaping, OnList, PcStates, Descriptor, Task
<1> QED BY <1>1, <1>2, <1>3, <1>4, <1>5, <1>6, <1>7, <1>8, <1>9, <1>10

LEMMA pthread_exitInv ==
  ASSUME PInv, NEW t \in Task, pthread_exit(t)
  PROVE  PInv'
<1> USE ThreadsAssumption DEF PInv, pthread_exit, Go, threads, sync
<1>1. Types'
  BY DEF Types, PcStates, Descriptor, Task
<1>2. (MuxHeld /\ Targets /\ Creation /\ Listed)'
  BY DEF Types, MuxHeld, Targets, Creation, Listed, PcStates, Descriptor, Task
<1>3. (Notifications /\ Ended /\ Joins /\ Reaping)'
  BY DEF Types, Targets, Creation, Listed, Notifications, Ended, Joins, Reaping,
     PcStates, Descriptor, Task
<1>4. OnList'
  BY DEF Types, OnList, PcStates, Descriptor, Task
<1> QED BY <1>1, <1>2, <1>3, <1>4

(* Whom the descriptor names waits in pthread_join for this thread. *)
LEMMA ExitUpdateInv ==
  ASSUME PInv, NEW t \in Task, ExitUpdate(t)
  PROVE  PInv'
<1> USE ThreadsAssumption DEF PInv, ExitUpdate, Exited, pthread_delete, Free, Go,
threads, sync
<1>1. Types'
  BY DEF Types, MuxHeld, Targets, Ended, Joins, PcStates, Descriptor, Task
<1>2. (MuxHeld /\ Targets /\ Creation /\ Listed)'
  BY DEF Types, MuxHeld, Targets, Creation, Listed, PcStates, Descriptor, Task
<1>3. (Notifications /\ Ended /\ Joins /\ Reaping)'
  BY DEF Types, MuxHeld, Targets, Creation, Listed, Notifications, Ended, Joins,
     Reaping, PcStates, Descriptor, Task
<1>4. OnList'
  BY DEF Types, OnList, PcStates, Descriptor, Task
<1> QED BY <1>1, <1>2, <1>3, <1>4

LEMMA ExitUnlockInv ==
  ASSUME PInv, NEW t \in Task, ExitUnlock(t)
  PROVE  PInv'
<1> USE ThreadsAssumption DEF PInv, ExitUnlock, Go, threads, sync
<1>1. Types'
  BY DEF Types, PcStates, Descriptor, Task
<1>2. MuxHeld'
  BY DEF Types, MuxHeld, PcStates, Descriptor, Task
<1>3. Targets'
  BY DEF Types, Targets, PcStates, Descriptor, Task
<1>4. Creation'
  BY DEF Types, Targets, Creation, PcStates, Descriptor, Task
<1>5. Listed'
  BY DEF Types, Creation, Listed, PcStates, Descriptor, Task
<1>6. Notifications'
  BY DEF Types, Targets, Listed, Notifications, PcStates, Descriptor, Task
<1>7. Ended'
  BY DEF Types, Listed, Ended, PcStates, Descriptor, Task
<1>8. Joins'
  BY DEF Types, Targets, Listed, Joins, PcStates, Descriptor, Task
<1>9. Reaping'
  BY DEF Types, Targets, Creation, Reaping, PcStates, Descriptor, Task
<1>10. OnList'
  BY DEF Types, OnList, PcStates, Descriptor, Task
<1> QED BY <1>1, <1>2, <1>3, <1>4, <1>5, <1>6, <1>7, <1>8, <1>9, <1>10

LEMMA ExitEndInv ==
  ASSUME PInv, NEW t \in Task, ExitEnd(t)
  PROVE  PInv'
<1> USE ThreadsAssumption DEF PInv, ExitEnd, Go, threads, sync
<1>1. Types'
  BY DEF Types, PcStates, Descriptor, Task
<1>2. MuxHeld'
  BY DEF Types, MuxHeld, PcStates, Descriptor, Task
<1>3. Targets'
  BY DEF Types, Targets, PcStates, Descriptor, Task
<1>4. Creation'
  BY DEF Types, Targets, Creation, PcStates, Descriptor, Task
<1>5. Listed'
  BY DEF Types, Creation, Listed, PcStates, Descriptor, Task
<1>6. Notifications'
  BY DEF Types, Targets, Listed, Notifications, PcStates, Descriptor, Task
<1>7. Ended'
  BY DEF Types, Listed, Ended, PcStates, Descriptor, Task
<1>8. Joins'
  BY DEF Types, Targets, Listed, Joins, PcStates, Descriptor, Task
<1>9. Reaping'
  BY DEF Types, Targets, Creation, Reaping, PcStates, Descriptor, Task
<1>10. OnList'
  BY DEF Types, OnList, PcStates, Descriptor, Task
<1> QED BY <1>1, <1>2, <1>3, <1>4, <1>5, <1>6, <1>7, <1>8, <1>9, <1>10

(* The calls of the mutex and the condition variable move a task only between   *)
(* states in which it runs, and leave the descriptors alone.                    *)
LEMMA SyncKeepsThreads ==
  ASSUME PInv, NEW t \in Task, NEW to \in PcStates,
         {pc[t], to} \subseteq {"run", "wait", "take", "woken", "removed", "relock"},
         pc' = [pc EXCEPT ![t] = to], UNCHANGED threads,
         owner' \in Task \cup {Nobody}, waiters' \in Seq(Task), sem' \in [Task -> -1..1]
  PROVE  (Types /\ MuxHeld /\ Targets /\ Creation /\ Listed /\ Notifications /\ Ended /\ Joins
          /\ Reaping)'
<1> USE ThreadsAssumption DEF PInv, threads
<1>1. Types'
  BY DEF Types, PcStates, Descriptor, Task
<1>2. (MuxHeld /\ Targets /\ Creation /\ Listed)'
  BY DEF Types, MuxHeld, Targets, Creation, Listed, PcStates, Descriptor, Task
<1>3. (Notifications /\ Ended /\ Joins /\ Reaping)'
  BY DEF Types, Targets, Creation, Listed, Notifications, Ended, Joins, Reaping,
     PcStates, Descriptor, Task
<1> QED BY <1>1, <1>2, <1>3

LEMMA pthread_mutex_lockInv ==
  ASSUME PInv, NEW t \in Task, pthread_mutex_lock(t)
  PROVE  PInv'
<1>1. /\ pc[t] = "run" /\ pc' = [pc EXCEPT ![t] = "run"] /\ UNCHANGED threads
      /\ owner' \in Task \cup {Nobody} /\ waiters' \in Seq(Task) /\ sem' \in [Task -> -1..1]
  BY DEF PInv, Types, OnList, pthread_mutex_lock, Go
<1>2. (Types /\ MuxHeld /\ Targets /\ Creation /\ Listed /\ Notifications /\ Ended /\ Joins /\ Reaping)'
  BY <1>1, SyncKeepsThreads DEF PcStates
<1>3. OnList'
  BY DEF PInv, Types, OnList, pthread_mutex_lock, Go
<1> QED BY <1>2, <1>3 DEF PInv

LEMMA pthread_mutex_unlockInv ==
  ASSUME PInv, NEW t \in Task, pthread_mutex_unlock(t)
  PROVE  PInv'
<1>1. /\ pc[t] = "run" /\ pc' = [pc EXCEPT ![t] = "run"] /\ UNCHANGED threads
      /\ owner' \in Task \cup {Nobody} /\ waiters' \in Seq(Task) /\ sem' \in [Task -> -1..1]
  BY DEF PInv, Types, OnList, pthread_mutex_unlock, Go
<1>2. (Types /\ MuxHeld /\ Targets /\ Creation /\ Listed /\ Notifications /\ Ended /\ Joins /\ Reaping)'
  BY <1>1, SyncKeepsThreads DEF PcStates
<1>3. OnList'
  BY DEF PInv, Types, OnList, pthread_mutex_unlock, Go
<1> QED BY <1>2, <1>3 DEF PInv

LEMMA pthread_cond_timedwaitInv ==
  ASSUME PInv, NEW t \in Task, pthread_cond_timedwait(t)
  PROVE  PInv'
<1>1. /\ pc[t] = "run" /\ pc' = [pc EXCEPT ![t] = "wait"] /\ UNCHANGED threads
      /\ owner' \in Task \cup {Nobody} /\ waiters' \in Seq(Task) /\ sem' \in [Task -> -1..1]
  BY DEF PInv, Types, OnList, pthread_cond_timedwait, Go
<1>2. (Types /\ MuxHeld /\ Targets /\ Creation /\ Listed /\ Notifications /\ Ended /\ Joins /\ Reaping)'
  BY <1>1, SyncKeepsThreads DEF PcStates
<1>3. OnList'
  <2>1. /\ Len(waiters') = Len(waiters) + 1 /\ waiters'[Len(waiters) + 1] = t
        /\ \A i \in 1 .. Len(waiters) : waiters'[i] = waiters[i]
    BY DEF PInv, Types, pthread_cond_timedwait
  <2>a. DOMAIN waiters = 1 .. Len(waiters) /\ DOMAIN waiters' = 1 .. Len(waiters) + 1
        /\ Len(waiters) \in Nat
    BY <1>1, <2>1 DEF PInv, Types
  <2>2. \A i \in DOMAIN waiters : waiters[i] # t
    BY <1>1 DEF PInv, OnList
  <2>3. sem' = [sem EXCEPT ![t] = 0]
    BY DEF pthread_cond_timedwait
  <2>4. \A x \in Task : (\E i \in DOMAIN waiters' : waiters'[i] = x)
                         <=> (x = t \/ \E i \in DOMAIN waiters : waiters[i] = x)
    BY <2>1, <2>a
  <2>5. \A i, j \in DOMAIN waiters' : waiters'[i] = waiters'[j] => i = j
    <3>1. \A i, j \in DOMAIN waiters : waiters[i] = waiters[j] => i = j
      BY DEF PInv, OnList
    <3> QED BY <2>1, <2>2, <2>a, <3>1
  <2> QED BY <1>1, <2>3, <2>4, <2>5 DEF PInv, Types, OnList
<1> QED BY <1>2, <1>3 DEF PInv

LEMMA WaitUnlockInv ==
  ASSUME PInv, NEW t \in Task, WaitUnlock(t)
  PROVE  PInv'
<1>1. /\ pc[t] = "wait" /\ pc' = [pc EXCEPT ![t] = "take"] /\ UNCHANGED threads
      /\ owner' \in Task \cup {Nobody} /\ waiters' \in Seq(Task) /\ sem' \in [Task -> -1..1]
  BY DEF PInv, Types, OnList, WaitUnlock, Go
<1>2. (Types /\ MuxHeld /\ Targets /\ Creation /\ Listed /\ Notifications /\ Ended /\ Joins /\ Reaping)'
  BY <1>1, SyncKeepsThreads DEF PcStates
<1>3. OnList'
  BY DEF PInv, Types, OnList, WaitUnlock, Go
<1> QED BY <1>2, <1>3 DEF PInv

LEMMA WaitEndInv ==
  ASSUME PInv, NEW t \in Task, NEW timeout \in BOOLEAN, WaitEnd(t, timeout)
  PROVE  PInv'
<1>1. /\ pc[t] = "take" /\ pc' = [pc EXCEPT ![t] = "woken"] /\ UNCHANGED threads
      /\ owner' \in Task \cup {Nobody} /\ waiters' \in Seq(Task) /\ sem' \in [Task -> -1..1]
  BY DEF PInv, Types, OnList, WaitEnd, Go
<1>2. (Types /\ MuxHeld /\ Targets /\ Creation /\ Listed /\ Notifications /\ Ended /\ Joins /\ Reaping)'
  BY <1>1, SyncKeepsThreads DEF PcStates
<1>3. OnList'
  BY DEF PInv, Types, OnList, WaitEnd, Go
<1> QED BY <1>2, <1>3 DEF PInv

LEMMA WaitRemoveInv ==
  ASSUME PInv, NEW t \in Task, WaitRemove(t)
  PROVE  PInv'
<1> USE DEF PInv
<1>a. PICK i \in DOMAIN waiters : waiters[i] = t /\ waiters' = RemoveAt(waiters, i)
  BY DEF WaitRemove
<1>b. /\ waiters' \in Seq(Task)
      /\ \A x \in Task : (\E n \in DOMAIN waiters' : waiters'[n] = x)
                            <=> (x # t /\ \E n \in DOMAIN waiters : waiters[n] = x)
      /\ \A m, n \in DOMAIN waiters' : waiters'[m] = waiters'[n] => m = n
  BY <1>a, RemoveAtEffect DEF Types, OnList
<1>1. /\ pc[t] = "woken" /\ pc' = [pc EXCEPT ![t] = "removed"] /\ UNCHANGED threads
      /\ owner' \in Task \cup {Nobody} /\ waiters' \in Seq(Task) /\ sem' \in [Task -> -1..1]
      /\ sem' = sem
  BY <1>b DEF Types, WaitRemove, Go
<1>2. (Types /\ MuxHeld /\ Targets /\ Creation /\ Listed /\ Notifications /\ Ended /\ Joins /\ Reaping)'
  BY <1>1, SyncKeepsThreads DEF PcStates
<1>3. OnList'
  BY <1>1, <1>b DEF Types, OnList
<1> QED BY <1>2, <1>3 DEF PInv

LEMMA WaitDeleteSemInv ==
  ASSUME PInv, NEW t \in Task, WaitDeleteSem(t)
  PROVE  PInv'
<1>1. /\ pc[t] = "removed" /\ pc' = [pc EXCEPT ![t] = "relock"] /\ UNCHANGED threads
      /\ owner' \in Task \cup {Nobody} /\ waiters' \in Seq(Task) /\ sem' \in [Task -> -1..1]
  BY DEF PInv, Types, OnList, WaitDeleteSem, Go
<1>2. (Types /\ MuxHeld /\ Targets /\ Creation /\ Listed /\ Notifications /\ Ended /\ Joins /\ Reaping)'
  BY <1>1, SyncKeepsThreads DEF PcStates
<1>3. OnList'
  BY DEF PInv, Types, OnList, WaitDeleteSem, Go
<1> QED BY <1>2, <1>3 DEF PInv

LEMMA WaitRelockInv ==
  ASSUME PInv, NEW t \in Task, WaitRelock(t)
  PROVE  PInv'
<1>1. /\ pc[t] = "relock" /\ pc' = [pc EXCEPT ![t] = "run"] /\ UNCHANGED threads
      /\ owner' \in Task \cup {Nobody} /\ waiters' \in Seq(Task) /\ sem' \in [Task -> -1..1]
  BY DEF PInv, Types, OnList, WaitRelock, Go
<1>2. (Types /\ MuxHeld /\ Targets /\ Creation /\ Listed /\ Notifications /\ Ended /\ Joins /\ Reaping)'
  BY <1>1, SyncKeepsThreads DEF PcStates
<1>3. OnList'
  BY DEF PInv, Types, OnList, WaitRelock, Go
<1> QED BY <1>2, <1>3 DEF PInv

LEMMA pthread_cond_signalInv ==
  ASSUME PInv, NEW t \in Task, pthread_cond_signal(t)
  PROVE  PInv'
<1>1. /\ pc[t] = "run" /\ pc' = [pc EXCEPT ![t] = "run"] /\ UNCHANGED threads
      /\ owner' \in Task \cup {Nobody} /\ waiters' \in Seq(Task) /\ sem' \in [Task -> -1..1]
  BY DEF PInv, Types, OnList, pthread_cond_signal, Give, Go
<1>2. (Types /\ MuxHeld /\ Targets /\ Creation /\ Listed /\ Notifications /\ Ended /\ Joins /\ Reaping)'
  BY <1>1, SyncKeepsThreads DEF PcStates
<1>3. OnList'
  BY DEF PInv, Types, OnList, pthread_cond_signal, Give, Go
<1> QED BY <1>2, <1>3 DEF PInv

LEMMA pthread_cond_broadcastInv ==
  ASSUME PInv, NEW t \in Task, pthread_cond_broadcast(t)
  PROVE  PInv'
<1>1. /\ pc[t] = "run" /\ pc' = [pc EXCEPT ![t] = "run"] /\ UNCHANGED threads
      /\ owner' \in Task \cup {Nobody} /\ waiters' \in Seq(Task) /\ sem' \in [Task -> -1..1]
  BY DEF PInv, Types, OnList, pthread_cond_broadcast, Give, Go
<1>2. (Types /\ MuxHeld /\ Targets /\ Creation /\ Listed /\ Notifications /\ Ended /\ Joins /\ Reaping)'
  BY <1>1, SyncKeepsThreads DEF PcStates
<1>3. OnList'
  BY DEF PInv, Types, OnList, pthread_cond_broadcast, Give, Go
<1> QED BY <1>2, <1>3 DEF PInv

LEMMA NextPInv == PInv /\ [Next]_vars => PInv'
<1> SUFFICES ASSUME PInv, [Next]_vars PROVE PInv'
  OBVIOUS
<1>1. CASE UNCHANGED vars
  BY <1>1 DEF vars, PInv, Types, MuxHeld, Targets, Creation, Listed, Notifications,
     Ended, Joins,
              Reaping, OnList
<1>2. ASSUME NEW t \in Task,
             \E u \in Threads : pthread_create(t, u) \/ pthread_join(t, u) \/ pthread_detach(t, u)
      PROVE  PInv'
  BY <1>2, pthread_createInv, pthread_joinInv, pthread_detachInv
<1>3. ASSUME NEW t \in Task,
             (\E d \in BOOLEAN : CreateList(t, d)) \/ pthread_task_func(t)
      PROVE  PInv'
  BY <1>3, CreateListInv, pthread_task_funcInv
<1>4. ASSUME NEW t \in Task, JoinNotified(t) \/ JoinDelete(t) \/ Reap(t)
      PROVE  PInv'
  BY <1>4, JoinNotifiedInv, JoinDeleteInv, ReapInv
<1>5. ASSUME NEW t \in Task, pthread_exit(t) \/ ExitUpdate(t) \/ ExitUnlock(t) \/ ExitEnd(t)
      PROVE  PInv'
  BY <1>5, pthread_exitInv, ExitUpdateInv, ExitUnlockInv, ExitEndInv
<1>6. ASSUME NEW t \in Task,
             \/ pthread_mutex_lock(t) \/ pthread_mutex_unlock(t)
             \/ pthread_cond_signal(t) \/ pthread_cond_broadcast(t)
      PROVE  PInv'
  BY <1>6, pthread_mutex_lockInv, pthread_mutex_unlockInv, pthread_cond_signalInv,
     pthread_cond_broadcastInv
<1>7. ASSUME NEW t \in Task,
             \/ pthread_cond_timedwait(t) \/ WaitUnlock(t) \/ WaitRemove(t)
             \/ WaitDeleteSem(t) \/ WaitRelock(t) \/ \E timeout \in BOOLEAN : WaitEnd(t, timeout)
      PROVE  PInv'
  BY <1>7, pthread_cond_timedwaitInv, WaitUnlockInv, WaitRemoveInv, WaitDeleteSemInv,
     WaitRelockInv, WaitEndInv
<1> QED BY <1>1, <1>2, <1>3, <1>4, <1>5, <1>6, <1>7 DEF Next

----------------------------------------------------------------------------
(* The theorems *)

(* The invariant holds in every reachable state. *)
THEOREM PInvAlways == Spec => []PInv
BY InitPInv, NextPInv, PTL DEF Spec

(* pthread_exit finds its descriptor; the descriptor that a join has looked up *)
(* stays until that join deletes it and gives the thread's value; no two       *)
(* threads join each other.                                                    *)
THEOREM DescriptorsAlwaysKept == Spec => []DescriptorsKept
<1> SUFFICES ASSUME PInv PROVE DescriptorsKept
  BY PInvAlways, PTL
<1> USE ThreadsAssumption DEF PInv
<1>1. TypeOK
  BY DEF TypeOK, Types, Descriptor, MuxHeld, Targets, Task
<1>2. ExitFindsItself
  BY DEF ExitFindsItself, Listed
<1>3. JoinKeepsDescriptor
  BY DEF JoinKeepsDescriptor, Joins
<1>4. JoinResult
  BY DEF JoinResult, Reaping
<1>5. NoMutualJoin
  BY DEF NoMutualJoin, Joins, Task
<1> QED BY <1>1, <1>2, <1>3, <1>4, <1>5 DEF DescriptorsKept

(* A task that waits for the condition variable is on the list once and has its *)
(* semaphore: no signal is lost or given to a semaphore that is gone.            *)
THEOREM WaitersAlwaysListed == Spec => []WaitersListed
<1> SUFFICES ASSUME PInv PROVE WaitersListed
  BY PInvAlways, PTL
<1>1. \A i \in DOMAIN waiters : waiters[i] \in Task
  BY DEF PInv, Types
<1> QED BY <1>1 DEF PInv, OnList, WaitersListed

(* A task is deleted, from outside too, only after it gave s_threads_mux back,   *)
(* is unlisted, waits for nothing and is joined by nobody.                      *)
THEOREM OnlyStoppedDeleted == Spec => DeletesStopped
<1> DEFINE Deleted(t) == pc[t] # "none" /\ pc'[t] = "none"
           Stopped(t) == /\ pc[t] \in {"given", "suspended", "leaving"} /\ mux' # t
                         /\ ~desc'[t].listed /\ sem[t] = -1
                         /\ \A u \in Task : pc[u] \in {"joining", "joined"} => target[u] # t
<1>1. ASSUME PInv, PInv', Next, NEW t \in Threads, Deleted(t)
      PROVE  Stopped(t)
  <2> USE ThreadsAssumption DEF PInv
  <2>1. PICK x \in Task :
          \/ \E u \in Threads : pthread_detach(x, u)
          \/ Reap(x)
          \/ ExitEnd(x)
    <3>1. pc \in [Task -> PcStates] /\ t \in Task
      BY <1>1 DEF Types, Task
    <3>2. ASSUME NEW x \in Task, NEW u \in Threads, pthread_create(x, u) \/ pthread_join(x, u)
          PROVE  FALSE
      BY <1>1, <3>1, <3>2 DEF pthread_create, pthread_join
    <3>3. ASSUME NEW x \in Task, NEW d \in BOOLEAN, CreateList(x, d) \/ WaitEnd(x, d)
          PROVE  FALSE
      BY <1>1, <3>1, <3>3 DEF CreateList, WaitEnd, Go
    <3>4. ASSUME NEW x \in Task,
                 \/ pthread_task_func(x) \/ JoinNotified(x) \/ JoinDelete(x)
                 \/ pthread_exit(x) \/ ExitUpdate(x) \/ ExitUnlock(x)
          PROVE  FALSE
      BY <1>1, <3>1, <3>4 DEF pthread_task_func, JoinNotified, JoinDelete,
         JoinDeleteUnlocked,
                              pthread_exit, ExitUpdate, Exited, ExitUnlock, Go
    <3>5. ASSUME NEW x \in Task,
                 \/ pthread_mutex_lock(x) \/ pthread_cond_timedwait(x) \/ pthread_cond_signal(x)
                 \/ pthread_cond_broadcast(x) \/ pthread_mutex_unlock(x)
                 \/ WaitUnlock(x) \/ WaitRemove(x) \/ WaitDeleteSem(x) \/ WaitRelock(x)
          PROVE  FALSE
      BY <1>1, <3>1, <3>5 DEF pthread_mutex_lock, pthread_cond_timedwait,
         pthread_cond_signal,
           pthread_cond_broadcast, pthread_mutex_unlock, WaitUnlock, WaitRemove, WaitDeleteSem,
           WaitRelock, Go
    <3> QED BY <1>1, <3>2, <3>3, <3>4, <3>5 DEF Next
  <2>2. ASSUME NEW u \in Threads, pthread_detach(x, u)
        PROVE  pc[t] \in {"given", "suspended"} /\ desc[t].join_task = Nobody
    <3>1. t = u /\ desc[u].state # "run" /\ mux = Nobody /\ desc[u].listed
      BY <1>1, <2>2 DEF pthread_detach, pthread_detach_joined, Types, Task
    <3> QED BY <1>1, <2>2, <3>1 DEF Types, Descriptor, Ended, MuxHeld, Task
  <2>5. /\ pc[t] \in {"given", "suspended", "leaving"}
        /\ desc[t].listed => desc[t].join_task = Nobody
    <3>1. CASE Reap(x)
      BY <1>1, <3>1 DEF Reap, Reaping, Targets, Types, Task
    <3>2. CASE ExitEnd(x)
      BY <1>1, <3>2 DEF ExitEnd, Go, Types, Listed, Task
    <3> QED BY <2>1, <2>2, <3>1, <3>2
  <2>6. sem[t] = -1
    BY <1>1, <2>5 DEF OnList, Types, Task
  <2>7. mux' # t /\ ~desc'[t].listed
    BY <1>1 DEF MuxHeld, Listed, Task
  <2>8. ASSUME NEW u \in Task, pc[u] \in {"joining", "joined"} PROVE target[u] # t
    BY <1>1, <2>5, <2>8, ThreadsAssumption DEF Joins, Types
  <2> QED BY <2>5, <2>6, <2>7, <2>8
<1>2. PInv /\ PInv' /\ [Next]_vars => [\A t \in Threads : Deleted(t) => Stopped(t)]_vars
  BY <1>1
<1> QED BY <1>2, PInvAlways, PTL DEF Spec, DeletesStopped
=============================================================================
