---------------------------- MODULE TypeClosure -----------------------------
(***************************************************************************)
(* What discovery promises the generator: it is handed the types that were *)
(* asked for and those that fields lead to from them, all of these and no  *)
(* others.  In which order they are found is left open.                    *)
(***************************************************************************)
CONSTANT Leads(_, _)  \* the types that the fields of a type lead to, for what was asked

VARIABLES asked,     \* what visitor! was invoked with
          found,     \* the types whose definition is known
          finished   \* handed to the generator

Init == found = {} /\ finished = FALSE

Wanted(t) == t \in asked.listed \/ \E s \in found : t \in Leads(s, asked)

Find ==
    /\ ~finished
    /\ \E t \in asked.types \ found : Wanted(t) /\ found' = found \cup {t}
    /\ UNCHANGED <<asked, finished>>

Finish ==
    /\ ~finished
    /\ \A t \in asked.types : Wanted(t) => t \in found
    /\ finished' = TRUE
    /\ UNCHANGED <<asked, found>>

Next == Find \/ Finish
Spec == Init /\ [][Next]_<<asked, found, finished>>
=============================================================================
