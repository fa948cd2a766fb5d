------------------------------- MODULE KvStore -------------------------------
(***************************************************************************)
(* What a storage layer promises: a map from keys to values in which        *)
(* a call changes only the keys it was asked to change, each of them at    *)
(* once; all of them when it reports success, none when it reports an      *)
(* error, and any of them when power is lost.                              *)
(***************************************************************************)
CONSTANTS Key, Value,
          Torn    \* what power loss may leave of a key that was being changed

VARIABLES kv,     \* the value of every key, what a reader would get
          ask,    \* the change being made: a function on some of the keys
          ok,     \* whether the call is one that succeeds
          up      \* whether the device has power

vars == <<ask, ok, up, kv>>

NoChange == [k \in {} |-> 0]

Init == kv \in [Key -> Value] /\ ask = NoChange /\ ok \in BOOLEAN /\ ~up

Start == /\ ask = NoChange
         /\ up' = TRUE /\ ok' \in BOOLEAN
         /\ \E K \in SUBSET Key : ask' \in [K -> Value]
         /\ UNCHANGED kv

\* kv changes only at the keys of the call, to one of the values they may get.
Changes(May(_)) ==
  LET old == kv
      new == kv'
  IN /\ DOMAIN new = Key
     /\ \A k \in Key : new[k] = old[k] \/ (k \in DOMAIN ask /\ new[k] \in May(k))

\* Some of the keys get what was asked for, at once.
Take == /\ ok
        /\ UNCHANGED <<ask, ok, up>>
        /\ Changes(LAMBDA k : {ask[k]})

Return == /\ ask' = NoChange /\ ok' \in BOOLEAN
          /\ UNCHANGED up
          /\ ok => \A k \in DOMAIN ask : kv[k] = ask[k]
          /\ UNCHANGED kv

PowerLoss == /\ ask' = NoChange /\ up' = FALSE /\ ok' \in BOOLEAN
             /\ UNCHANGED kv \/ (ok /\ Changes(LAMBDA k : Torn))

Next == Start \/ Take \/ Return \/ PowerLoss

Spec == Init /\ [][Next]_vars
=============================================================================
