---------------------------- MODULE EspEventTree ----------------------------
(***************************************************************************)
(* The linked lists of handlers of an event loop, and their traversal:     *)
(* components/esp_event/esp_event.c.                                       *)
(*                                                                         *)
(* A loop has a list of loop nodes; a loop node has loop level handlers    *)
(* and base nodes; a base node base level handlers and id nodes; an id     *)
(* node handlers.  Every node has the address at which it was allocated.   *)
(*                                                                         *)
(* An event, and the slot of a handler, is 10 * base + id; base or id 0    *)
(* stands for ESP_EVENT_ANY_BASE or ESP_EVENT_ANY_ID.                      *)
(***************************************************************************)
EXTENDS Integers, Sequences, FiniteSets, SequencesExt

Base(x) == x \div 10
Id(x) == x % 10

\* The handlers of slot s are to be called for event e.
Matches(s, e) == s = 0 \/ s = e \/ (Id(s) = 0 /\ Base(s) = Base(e))

(******************************* registration ******************************)
handler_instances_add(hs, h) == IF Contains(hs, h) THEN hs ELSE Append(hs, h)

IdNode(at, id, h) == [at |-> at, id |-> id, hs |-> <<h>>]

\* The last element of seq with property P.
LastIndex(seq, P(_)) == CHOOSE i \in DOMAIN seq : P(seq[i]) /\ \A j \in i + 1 .. Len(seq) : ~P(seq[j])

base_node_add_handler(bn, at, id, h) ==
  LET Same(n) == n.id = id
      i == LastIndex(bn.ids, Same)
  IN IF id = 0 THEN [bn EXCEPT !.hs = handler_instances_add(@, h)]
     ELSE IF \E n \in DOMAIN bn.ids : Same(bn.ids[n])
     THEN [bn EXCEPT !.ids[i].hs = handler_instances_add(@, h)]
     ELSE [bn EXCEPT !.ids = Append(@, IdNode(at, id, h))]

\* Mutant: a base level handler joins the base node of its base.
loop_node_add_to_base(ln, at, slot, h) ==
  LET i == LastIndex(ln.bases, LAMBDA n : n.base = Base(slot))
      fresh == [at |-> at[1], base |-> Base(slot), hs |-> <<>>, ids |-> <<>>]
  IN IF slot = 0 THEN [ln EXCEPT !.hs = handler_instances_add(@, h)]
     ELSE IF \A n \in DOMAIN ln.bases : ln.bases[n].base # Base(slot)
     THEN [ln EXCEPT !.bases = Append(@, base_node_add_handler(fresh, at[2], Id(slot), h))]
     ELSE [ln EXCEPT !.bases[i] = base_node_add_handler(@, at[2], Id(slot), h)]

\* A base level handler must not run before the id level handlers that are there
\* already, so it gets a base node of its own after them.
loop_node_add_handler(ln, at, slot, h) ==
  LET Same(n) == n.base = Base(slot)
      i == LastIndex(ln.bases, Same)
      last == Last(ln.bases)
      new == \/ \A n \in DOMAIN ln.bases : ~Same(ln.bases[n])
             \/ Id(slot) = 0 /\ ln.bases[i].ids # <<>>
             \/ Id(slot) = 0 /\ ~Same(last) /\ last.ids # <<>>
      fresh == [at |-> at[1], base |-> Base(slot), hs |-> <<>>, ids |-> <<>>]
  IN IF slot = 0 THEN [ln EXCEPT !.hs = handler_instances_add(@, h)]
     ELSE IF new
     THEN [ln EXCEPT !.bases = Append(@, base_node_add_handler(fresh, at[2], Id(slot), h))]
     ELSE [ln EXCEPT !.bases[i] = base_node_add_handler(@, at[2], Id(slot), h)]

\* The same for a loop level handler, and a loop node.
register(nodes, at, slot, h) ==
  LET fresh == [at |-> at[3], hs |-> <<>>, bases |-> <<>>]
  IN IF nodes = <<>> \/ (Last(nodes).bases # <<>> /\ slot = 0)
     THEN Append(nodes, loop_node_add_handler(fresh, at, slot, h))
     ELSE [nodes EXCEPT ![Len(nodes)] = loop_node_add_handler(@, at, slot, h)]

(****************************** unregistration *****************************)
\* Each remove returns what is left and whether it reports ESP_OK.
handler_instances_remove(hs, h) == [left |-> Remove(hs, h), ok |-> Contains(hs, h)]

\* Visit the elements of a list up to the first whose removal empties it; Visit gives
\* [left, ok], Empty tells whether what is left of an element is to be freed.
RemoveFrom(seq, Visit(_), Empty(_)) ==
  FoldLeft(LAMBDA acc, n :
             LET v == Visit(n)
             IN IF acc.ok THEN [acc EXCEPT !.left = Append(@, n)]
                ELSE IF v.ok /\ Empty(v.left) THEN [acc EXCEPT !.ok = TRUE]
                ELSE [acc EXCEPT !.left = Append(@, v.left)],
           [left |-> <<>>, ok |-> FALSE], seq)

\* A removal that leaves other handlers of the id reports ESP_ERR_NOT_FOUND.
base_node_remove_handler(bn, id, h) ==
  LET hs == handler_instances_remove(bn.hs, h)
      Visit(n) == LET r == handler_instances_remove(n.hs, h)
                  IN IF n.id = id THEN [left |-> [n EXCEPT !.hs = r.left], ok |-> r.ok]
                     ELSE [left |-> n, ok |-> FALSE]
      ids == RemoveFrom(bn.ids, Visit, LAMBDA n : n.hs = <<>>)
  IN IF id = 0 THEN [left |-> [bn EXCEPT !.hs = hs.left], ok |-> hs.ok]
     ELSE [left |-> [bn EXCEPT !.ids = ids.left], ok |-> ids.ok]

loop_node_remove_handler(ln, slot, h) ==
  LET hs == handler_instances_remove(ln.hs, h)
      Visit(n) == IF n.base = Base(slot) THEN base_node_remove_handler(n, Id(slot), h)
                  ELSE [left |-> n, ok |-> FALSE]
      bases == RemoveFrom(ln.bases, Visit, LAMBDA n : n.hs = <<>> /\ n.ids = <<>>)
  IN IF slot = 0 THEN [left |-> [ln EXCEPT !.hs = hs.left], ok |-> hs.ok]
     ELSE [left |-> [ln EXCEPT !.bases = bases.left], ok |-> bases.ok]

unregister(nodes, slot, h) ==
  RemoveFrom(nodes, LAMBDA n : loop_node_remove_handler(n, slot, h),
             LAMBDA n : n.hs = <<>> /\ n.bases = <<>>).left

(********************************* traversal *******************************)
\* Where a traversal stands: the list elements it will look at next, innermost first.
\* SLIST_FOREACH_SAFE reads the successor of an element before its body runs.
\*   [k |-> "h", of |-> node, slot, h]  the handler h in the list of a node
\*   [k |-> "bases", of |-> node]       the base nodes of a loop node
\*   [k |-> "ids", of |-> node]         the id nodes of a base node
\*   [k |-> "base" or "loop", of |-> node]   a base or loop node
\* Address 0 is the end of a list.
Item(k, of, slot, h) == [k |-> k, of |-> of, slot |-> slot, h |-> h]

SeqOfBases(nodes) == FlattenSeq([i \in DOMAIN nodes |-> nodes[i].bases])
SeqOfIds(nodes) == LET b == SeqOfBases(nodes) IN FlattenSeq([i \in DOMAIN b |-> b[i].ids])
Addresses(nodes) ==
  LET At(seq) == {seq[i].at : i \in DOMAIN seq}
  IN At(nodes) \cup At(SeqOfBases(nodes)) \cup At(SeqOfIds(nodes))

\* The same lists at addresses that follow from their order.  (Addresses matter only
\* to a traversal that is under way.)
Renumbered(nodes) ==
  LET Place(seq, at, step) == [i \in DOMAIN seq |-> [seq[i] EXCEPT !.at = at + i * step]]
      Ids(bn) == [bn EXCEPT !.ids = Place(@, bn.at, 1)]
      Bases(ln) == LET b == Place(ln.bases, ln.at, 10)
                   IN [ln EXCEPT !.bases = [i \in DOMAIN b |-> Ids(b[i])]]
      l == Place(nodes, 0, 100)
  IN [i \in DOMAIN l |-> Bases(l[i])]

\* The node allocated at an address.
NodeAt(seq, at) == seq[CHOOSE i \in DOMAIN seq : seq[i].at = at]

\* The address of the next, and of the first, element of a list.
NextAt(seq, at) ==
  LET i == CHOOSE i \in DOMAIN seq : seq[i].at = at
  IN IF i = Len(seq) THEN 0 ELSE seq[i + 1].at
FirstAt(seq) == IF seq = <<>> THEN 0 ELSE seq[1].at

FirstHandler(hs) == IF hs = <<>> THEN 0 ELSE hs[1]

NextHandler(hs, h) ==
  LET i == CHOOSE i \in DOMAIN hs : hs[i] = h
  IN IF i = Len(hs) THEN 0 ELSE hs[i + 1]

\* The handlers of the node at an address, whatever its kind.
HandlersAt(nodes, at) == NodeAt(nodes \o SeqOfBases(nodes) \o SeqOfIds(nodes), at).hs

\* The list that a base node is in.
ListOf(nodes, at) ==
  nodes[CHOOSE i \in DOMAIN nodes : \E j \in DOMAIN nodes[i].bases : nodes[i].bases[j].at = at].bases

\* The traversal reads memory: what it reads must not have been freed.
Readable(nodes, it) ==
  \/ it.of = 0
  \/ it.k = "h" /\ it.h = 0
  \/ it.of \in Addresses(nodes) /\ (it.k = "h" => Contains(HandlersAt(nodes, it.of), it.h))

\* One move of the traversal for event e, from the innermost item.
Advance(nodes, todo, e) ==
  LET it == Head(todo)
      HandlersOf(n, slot) == Item("h", n.at, slot, FirstHandler(n.hs))
      rest == Tail(todo)
      ln == NodeAt(nodes, it.of)
      bn == NodeAt(SeqOfBases(nodes), it.of)
      same == SelectSeq(bn.ids, LAMBDA n : n.id = Id(e))
  IN CASE it.of = 0 \/ (it.k = "h" /\ it.h = 0) -> rest
       [] it.of # 0 /\ it.k = "loop" ->
            <<HandlersOf(ln, 0), Item("bases", ln.at, 0, 0), Item("loop", NextAt(nodes, ln.at), 0, 0)>> \o rest
       [] it.of # 0 /\ it.k = "bases" -> <<Item("base", FirstAt(ln.bases), 0, 0)>> \o rest
       [] it.of # 0 /\ it.k = "base" ->
            (IF bn.base = Base(e)
             THEN <<HandlersOf(bn, 10 * bn.base), Item("ids", bn.at, 0, 0)>> ELSE <<>>)
            \o <<Item("base", NextAt(ListOf(nodes, bn.at), bn.at), 0, 0)>> \o rest
       [] it.of # 0 /\ it.k = "ids" ->
            (IF same = <<>> THEN <<>> ELSE <<HandlersOf(same[1], e)>>) \o rest

Calling(todo) == todo # <<>> /\ Head(todo).k = "h" /\ Head(todo).h # 0

\* Run to the next handler to call, to the end, or to memory that was freed.
\* (A traversal makes at most four moves per node.)
ToNextCall(nodes, todo, e) ==
  LET Done(t) == t = <<>> \/ Calling(t) \/ ~Readable(nodes, Head(t))
      moves == 4 * Cardinality(Addresses(nodes)) + 4
      after[n \in 0 .. moves] ==
        IF n = 0 THEN {todo}
        ELSE {IF Done(t) THEN t ELSE Advance(nodes, t, e) : t \in after[n - 1]}
  IN CHOOSE t \in after[moves] : TRUE

StartTraversal(nodes) == <<Item("loop", FirstAt(nodes), 0, 0)>>
=============================================================================
