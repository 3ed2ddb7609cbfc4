------------------------------ MODULE AtomicStore ------------------------------
(***************************************************************************)
(* What Database.transaction() promises the callers that share the store:  *)
(* the writes of a call land all at once or never; a call that returned    *)
(* has landed; a call that raised an error has not and never will.  Only a *)
(* call its task was cancelled in may have landed, or land later.          *)
(***************************************************************************)
CONSTANTS
    Calls,       \* the calls
    Writes       \* the writes of each call

VARIABLES
    store,  \* the writes that are durable
    told    \* what each call's caller knows of it

vars == <<store, told>>

Landed(c) == Writes[c] \subseteq store

Init ==
    /\ store = {}
    /\ told = [c \in Calls |-> "nothing"]

Land(c) ==
    /\ told[c] \in {"nothing", "cancelled"}
    /\ Writes[c] \cap store = {}
    /\ store' = store \cup Writes[c]
    /\ told' = told

Return(c) ==
    /\ told[c] = "nothing"
    /\ Landed(c)
    /\ told' = [told EXCEPT ![c] = "ok"]
    /\ store' = store

Raise(c) ==
    /\ told[c] = "nothing"
    /\ Writes[c] \cap store = {}
    /\ told' = [told EXCEPT ![c] = "error"]
    /\ store' = store

Cancel(c) ==
    /\ told[c] = "nothing"
    /\ told' = [told EXCEPT ![c] = "cancelled"]
    /\ store' = store

Next == \E c \in Calls : Land(c) \/ Return(c) \/ Raise(c) \/ Cancel(c)

Spec == Init /\ [][Next]_vars
=============================================================================
