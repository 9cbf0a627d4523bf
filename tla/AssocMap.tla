----------------------------- MODULE AssocMap -----------------------------
(***************************************************************************)
(* What a map from texts to values promises its caller: a text is bound    *)
(* to one value from the insertion that succeeds to the removal, and the   *)
(* size is the number of texts that are bound.  Once a stored key was      *)
(* written over, or an entry was lost, nothing is promised any more.       *)
(***************************************************************************)
EXTENDS Naturals, FiniteSets

CONSTANTS Texts, Values, NULL

VARIABLES bound,        \* per text its value, NULL if it has none
          size,
          result, reply,
          broken

vars == <<bound, size, result, reply, broken>>

Nothing == [t \in Texts |-> NULL]

Init ==
  /\ bound = Nothing /\ size = 0
  /\ result = "MAP_SUCCESS" /\ reply = NULL /\ broken = FALSE

Answer(r, v) == result' = r /\ reply' = v
Fails(r) == Answer(r, NULL) /\ UNCHANGED <<bound, size>>

Bind(t, v) ==
  /\ bound[t] = NULL
  /\ bound' = [bound EXCEPT ![t] = v] /\ size' = size + 1
  /\ Answer("MAP_SUCCESS", NULL)

Insert(t, v) ==
  \/ Bind(t, v)
  \/ bound[t] = NULL /\ Fails("MAP_ALLOCATION_ERROR")
  \/ bound[t] # NULL /\ Fails("MAP_KEY_DUPLICATE_ERROR")

Unbind(t) ==
  /\ bound[t] # NULL
  /\ bound' = [bound EXCEPT ![t] = NULL] /\ size' = size - 1
  /\ Answer("MAP_SUCCESS", bound[t])

Lookup(t) ==
  /\ bound[t] # NULL /\ Answer("MAP_SUCCESS", bound[t])
  /\ UNCHANGED <<bound, size>>

Missing(t) == bound[t] = NULL /\ Fails("MAP_KEY_NOT_FOUND_ERROR")

Destroy == bound' = Nothing /\ size' = 0 /\ UNCHANGED <<result, reply>>

Promised ==
  /\ UNCHANGED broken
  /\ \/ \E t \in Texts : Unbind(t) \/ Lookup(t) \/ Missing(t)
     \/ \E t \in Texts, v \in Values : Insert(t, v)
     \/ Destroy

Next == (~broken /\ Promised) \/ broken'

Spec == Init /\ [][Next]_vars
=============================================================================
