------------------------------ MODULE EspEvent ------------------------------
(***************************************************************************)
(* An event loop of components/esp_event/esp_event.c: tasks and interrupt  *)
(* handlers post events to its queue; the loop's own task, or any task     *)
(* that calls esp_event_loop_run, takes them off and calls the handlers,   *)
(* holding the loop's recursive mutex.  The handlers may post to the loop  *)
(* and change its handlers while it dispatches.                            *)
(***************************************************************************)
EXTENDS EspEventTree

CONSTANTS Tasks,        \* tasks that post, register and run loops without a task
          Handlers,     \* handlers: 10 * slot + the handler's number (not 0)
          Events,       \* the events that are posted
          QueueSize,    \* queue_size
          MaxHandlers,  \* bound on the handlers registered at a time
          Late,         \* handlers that running handlers register
          SelfRemoved,  \* handlers that may unregister themselves while they run
          LoopTask      \* the task of a loop that has one

ASSUME EventAssumption == /\ QueueSize \in Nat \ {0} /\ LoopTask \notin Tasks
                          /\ SelfRemoved \subseteq Handlers /\ Late \subseteq Handlers
                          /\ \A x \in Handlers : x % 10 # 0

VARIABLES
  loop,       \* "none", "live" or "deleted"
  dedicated,  \* whether the loop has a task of its own
  queue,      \* the posted events
  nodes,      \* the handlers: see EspEventTree
  running,    \* running_task
  run,        \* run[t]: where task t is in esp_event_loop_run
  post,       \* post[t]: where task t is in esp_event_post_to
  disp,       \* the dispatch that holds the mutex: [by, ev, todo, at]
  order,      \* ghost: the registered handlers in the order of their registration
  log         \* ghost: the handler called last, those still to be called in this order,
              \* those registered meanwhile, whether a wrong one has been called

vars == <<loop, dedicated, queue, nodes, running, run, post, disp, order, log>>

Slot(x) == x \div 10
Number(x) == x % 10
MatchesEvent(x, e) == Matches(Slot(x), e)

Task == Tasks \cup {LoopTask}
NoTask == "nobody"
NoDispatch == [by |-> NoTask, ev |-> 0, todo |-> <<>>, at |-> "end"]
NoPost == [at |-> "no", ev |-> 0, wait |-> FALSE]
Quiet == [last |-> 0, due |-> <<>>, new |-> {}, wrong |-> FALSE]

\* Another task can take the loop's mutex.
MutexFree == disp.by = NoTask
Handling(t) == disp.by = t /\ disp.at = "body"

\* Task t can make a call: it is outside of the loop, or in a handler.
CanCall(t) == loop = "live" /\ post[t].at = "no" /\ (run[t].at = "no" \/ Handling(t))

Init == /\ loop = "none" /\ dedicated = FALSE
        /\ queue = <<>> /\ nodes = <<>>
        /\ running = NoTask
        /\ run = [t \in Task |-> [at |-> "no", ev |-> 0]]
        /\ post = [t \in Task |-> NoPost]
        /\ disp = NoDispatch
        /\ order = <<>> /\ log = Quiet

esp_event_loop_create(own) ==
  /\ loop = "none"
  /\ loop' = "live" /\ dedicated' = own
  /\ run' = IF own THEN [run EXCEPT ![LoopTask].at = "receive"] ELSE run
  /\ UNCHANGED <<queue, nodes, running, post, disp, order, log>>

(********************************* handlers ********************************)
\* Addresses for new nodes: ones that nothing refers to.
Unused ==
  LET used == Addresses(nodes) \cup {disp.todo[i].of : i \in DOMAIN disp.todo}
      Low(n) == Min((1 .. n + 1 + Cardinality(used)) \ (used \cup 1 .. n))
      x == Low(0)
      y == Low(x)
  IN <<x, y, Low(y)>>

Settled(n) == IF MutexFree THEN Renumbered(n) ELSE n

esp_event_handler_register(t, x) ==
  /\ CanCall(t)
  /\ MutexFree \/ (disp.by = t /\ x \in Late)
  /\ ~Contains(order, x) /\ Len(order) < MaxHandlers
  /\ nodes' = Settled(register(nodes, Unused, Slot(x), Number(x)))
  /\ order' = Append(order, x)
  /\ log' = IF ~MutexFree /\ MatchesEvent(x, disp.ev) THEN [log EXCEPT !.new = @ \cup {x}] ELSE log
  /\ UNCHANGED <<loop, dedicated, queue, running, run, post, disp>>

\* Mutant: the handlers are changed without taking the mutex.
unregister_unlocked(t, x) ==
  /\ CanCall(t) /\ Contains(order, x)
  /\ nodes' = unregister(nodes, Slot(x), Number(x))
  /\ order' = Remove(order, x)
  /\ UNCHANGED <<loop, dedicated, queue, running, run, post, disp, log>>

\* A handler unregisters itself only; other tasks wait for the mutex.
esp_event_handler_unregister(t, x) ==
  /\ CanCall(t)
  /\ MutexFree \/ (disp.by = t /\ x \in SelfRemoved /\ x = log.last)
  /\ Contains(order, x)
  /\ nodes' = Settled(unregister(nodes, Slot(x), Number(x)))
  /\ order' = Remove(order, x)
  /\ UNCHANGED <<loop, dedicated, queue, running, run, post, disp, log>>

(********************************** posting ********************************)
\* Mutant: every task waits for room.
AlwaysWait(t) == TRUE

\* The task that dispatches must not wait for room in the queue it empties.
MayWait(t) == IF dedicated THEN t # LoopTask ELSE running # t

esp_event_post_to(t, e) ==
  /\ CanCall(t)
  /\ post' = [post EXCEPT ![t] = IF dedicated THEN [at |-> "queue", ev |-> e, wait |-> MayWait(t)]
                                 ELSE [at |-> "mutex", ev |-> e, wait |-> TRUE]]
  /\ UNCHANGED <<loop, dedicated, queue, nodes, running, run, disp, order, log>>

\* In a loop without a task: who runs it is looked up under the mutex.
PostMutex(t) ==
  /\ post[t].at = "mutex" /\ (MutexFree \/ disp.by = t)
  /\ post' = [post EXCEPT ![t].at = "queue", ![t].wait = MayWait(t)]
  /\ UNCHANGED <<loop, dedicated, queue, nodes, running, run, disp, order, log>>

PostSend(t) ==
  /\ post[t].at = "queue" /\ Len(queue) < QueueSize
  /\ queue' = Append(queue, post[t].ev)
  /\ post' = [post EXCEPT ![t] = NoPost]
  /\ UNCHANGED <<loop, dedicated, nodes, running, run, disp, order, log>>

Refused(t) ==
  /\ post' = [post EXCEPT ![t] = NoPost]
  /\ UNCHANGED <<loop, dedicated, queue, nodes, running, run, disp, order, log>>

\* No room: at once for the task that may not wait.
PostFail(t) == post[t].at = "queue" /\ Len(queue) = QueueSize /\ ~post[t].wait /\ Refused(t)

\* ticks_to_wait are over for a task that waits for the mutex or for room; they need not
\* end, when they are portMAX_DELAY.
PostTimeout(t) ==
  /\ \/ post[t].at = "mutex" /\ ~MutexFree /\ disp.by # t
     \/ post[t].at = "queue" /\ Len(queue) = QueueSize /\ post[t].wait
  /\ Refused(t)

esp_event_isr_post_to(e) ==
  /\ loop = "live" /\ Len(queue) < QueueSize
  /\ queue' = Append(queue, e)
  /\ UNCHANGED <<loop, dedicated, nodes, running, run, post, disp, order, log>>

(********************************* dispatch ********************************)
\* A task runs a loop that has none of its own, for a limited time.
esp_event_loop_run(t) ==
  /\ loop = "live" /\ ~dedicated /\ t # LoopTask
  /\ run[t].at = "no" /\ post[t].at = "no"
  /\ run' = [run EXCEPT ![t].at = "receive"]
  /\ UNCHANGED <<loop, dedicated, queue, nodes, running, post, disp, order, log>>

Receive(t) ==
  /\ run[t].at = "receive" /\ queue # <<>>
  /\ run' = [run EXCEPT ![t] = [at |-> "lock", ev |-> Head(queue)]]
  /\ queue' = Tail(queue)
  /\ UNCHANGED <<loop, dedicated, nodes, running, post, disp, order, log>>

ReceiveTimeout(t) ==
  /\ run[t].at = "receive" /\ queue = <<>> /\ ~dedicated
  /\ run' = [run EXCEPT ![t].at = "no"]
  /\ UNCHANGED <<loop, dedicated, queue, nodes, running, post, disp, order, log>>

\* The mutex is taken and the first handler found.
Lock(t) ==
  LET e == run[t].ev
  IN /\ run[t].at = "lock" /\ MutexFree
     /\ running' = t
     /\ disp' = [by |-> t, ev |-> e, todo |-> ToNextCall(nodes, StartTraversal(nodes), e), at |-> "next"]
     /\ run' = [run EXCEPT ![t].at = "dispatch"]
     /\ log' = [Quiet EXCEPT !.due = SelectSeq(order, LAMBDA x : MatchesEvent(x, e))]
     /\ UNCHANGED <<loop, dedicated, queue, nodes, post, order>>

\* The body of a handler starts; its successor in the list has been read.
handler_execute(t) ==
  LET it == Head(disp.todo)
      x  == 10 * it.slot + it.h
      inTurn == IF log.due # <<>> THEN x = Head(log.due) ELSE x \in log.new
  IN /\ disp.by = t /\ disp.at = "next" /\ Calling(disp.todo) /\ Readable(nodes, it)
     /\ disp' = [disp EXCEPT !.at = "body",
                  !.todo[1].h = NextHandler(HandlersAt(nodes, it.of), it.h)]
     /\ log' = [log EXCEPT !.last = x, !.wrong = @ \/ ~inTurn, !.new = @ \ {x},
                            !.due = IF log.due = <<>> THEN @ ELSE Tail(@)]
     /\ UNCHANGED <<loop, dedicated, queue, nodes, running, run, post, order>>

HandlerReturn(t) ==
  /\ Handling(t) /\ post[t].at = "no"
  /\ disp' = [disp EXCEPT !.at = "next", !.todo = ToNextCall(nodes, @, disp.ev)]
  /\ UNCHANGED <<loop, dedicated, queue, nodes, running, run, post, order, log>>

\* The mutex is released.  When the time to run is over, running_task is left as it is.
EndDispatch(t, expired) ==
  /\ disp.by = t /\ disp.at = "next" /\ disp.todo = <<>>
  /\ expired => ~dedicated
  /\ disp' = NoDispatch /\ log' = Quiet
  /\ running' = IF expired THEN running ELSE NoTask
  /\ run' = [run EXCEPT ![t] = [at |-> IF expired THEN "no" ELSE "receive", ev |-> 0]]
  /\ nodes' = Renumbered(nodes)
  /\ UNCHANGED <<loop, dedicated, queue, post, order>>

\* Called when no task is in a call to the loop; the loop's own task is deleted wherever
\* it is, but not while it holds the mutex.
esp_event_loop_delete ==
  /\ loop = "live" /\ MutexFree
  /\ \A t \in Tasks : run[t].at = "no" /\ post[t].at = "no"
  /\ loop' = "deleted" /\ queue' = <<>> /\ nodes' = <<>> /\ order' = <<>>
  /\ run' = [run EXCEPT ![LoopTask] = [at |-> "no", ev |-> 0]]
  /\ UNCHANGED <<dedicated, running, post, disp, log>>

Next ==
  \/ \E own \in BOOLEAN : esp_event_loop_create(own)
  \/ esp_event_loop_delete
  \/ \E e \in Events : esp_event_isr_post_to(e)
  \/ \E t \in Task : \/ esp_event_loop_run(t) \/ ReceiveTimeout(t)
                     \/ Receive(t) \/ Lock(t) \/ handler_execute(t) \/ HandlerReturn(t)
                     \/ \E expired \in BOOLEAN : EndDispatch(t, expired)
                     \/ PostMutex(t) \/ PostSend(t) \/ PostFail(t) \/ PostTimeout(t)
                     \/ \E e \in Events : esp_event_post_to(t, e)
                     \/ \E x \in Handlers : \/ esp_event_handler_register(t, x)
                                           \/ esp_event_handler_unregister(t, x)

\* The scheduler runs the loop's task when it can run, and handlers return.
Fairness == /\ WF_vars(Receive(LoopTask)) /\ WF_vars(Lock(LoopTask))
            /\ WF_vars(handler_execute(LoopTask)) /\ SF_vars(HandlerReturn(LoopTask))
            /\ WF_vars(EndDispatch(LoopTask, FALSE))
            /\ WF_vars(PostSend(LoopTask)) /\ WF_vars(PostFail(LoopTask))

Spec == Init /\ [][Next]_vars /\ Fairness

(******************************** properties *******************************)
\* Tasks are in the states that the calls have, and the mutex is held by the task that
\* dispatches.
TypeOK ==
  /\ loop \in {"none", "live", "deleted"} /\ dedicated \in BOOLEAN
  /\ queue \in Seq(Events) /\ Len(queue) <= QueueSize
  /\ running \in Task \cup {NoTask} /\ disp.by \in Task \cup {NoTask}
  /\ \A t \in Task : run[t].at \in {"no", "receive", "lock", "dispatch"}
  /\ \A t \in Task : post[t].at \in {"no", "mutex", "queue"}
  /\ \A t \in Task : (run[t].at = "dispatch") <=> (disp.by = t)

\* The handlers called for an event, read off the lists.
Flat(e) ==
  LET Of(slot, hs) == [i \in DOMAIN hs |-> 10 * slot + hs[i]]
      IdList(bn) == LET n == SelectSeq(bn.ids, LAMBDA x : x.id = Id(e))
                    IN IF n = <<>> THEN <<>> ELSE Of(e, n[1].hs)
      BaseList(bn) == IF bn.base = Base(e) THEN Of(10 * bn.base, bn.hs) \o IdList(bn) ELSE <<>>
  IN FlattenSeq([i \in DOMAIN nodes |->
       Of(0, nodes[i].hs) \o FlattenSeq([j \in DOMAIN nodes[i].bases |-> BaseList(nodes[i].bases[j])])])

\* The three levels of lists always spell the handlers of each event in the order in
\* which they were registered, whatever was unregistered in between.
FirstRegisteredFirst ==
  \A e \in Events : Flat(e) = SelectSeq(order, LAMBDA x : MatchesEvent(x, e))

\* The dispatch never follows a pointer into a node or handler that was freed by a
\* handler it has called.
NoUseAfterFree == disp.todo # <<>> /\ disp.at = "next" => Readable(nodes, Head(disp.todo))

\* When an event has been dispatched, the handlers registered for it at the start have
\* been called once each, in order, and after them only such as were registered meanwhile.
AllHandlersCalled ==
  /\ ~log.wrong
  /\ disp.by # NoTask /\ disp.at = "next" /\ disp.todo = <<>> => log.due = <<>>

\* The lists and the dispatch agree with the order of registration.
CalledInOrder == TypeOK /\ FirstRegisteredFirst /\ AllHandlersCalled

\* A loop with a task of its own always gets to make room in a full queue: a handler
\* that posts to its own loop does not wait for the room that only its return can make.
QueueServed == (loop = "live" /\ dedicated /\ Len(queue) = QueueSize)
                  ~> (Len(queue) < QueueSize)
=============================================================================
