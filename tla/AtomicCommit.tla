---------------------------- MODULE AtomicCommit ----------------------------
(***************************************************************************)
(* What two-phase commit promises about one transaction: the participants  *)
(* it involves reach the same outcome, and commit only when all of them    *)
(* have prepared.                                                          *)
(***************************************************************************)
CONSTANT Participant

VARIABLES involved,   \* participants of the transaction, chosen once
          outcome     \* what each participant's log says last

vars == <<involved, outcome>>

Init == involved = {} /\ outcome = [p \in Participant |-> "none"]

Start == /\ involved = {}
         /\ involved' \in SUBSET Participant
         /\ UNCHANGED outcome

Prepare(p) == /\ p \in involved
              /\ outcome[p] = "none"
              /\ outcome' = [outcome EXCEPT ![p] = "prepared"]
              /\ UNCHANGED involved

Commit(S) == /\ S \subseteq involved
             /\ \A p \in involved : outcome[p] \in {"prepared", "committed"}
             /\ outcome' = [p \in Participant |-> IF p \in S THEN "committed" ELSE outcome[p]]
             /\ UNCHANGED involved

Abort(S) == /\ S \subseteq involved
            /\ \A p \in involved : outcome[p] # "committed"
            /\ outcome' = [p \in Participant |-> IF p \in S THEN "aborted" ELSE outcome[p]]
            /\ UNCHANGED involved

Next == \/ Start
        \/ \E p \in Participant : Prepare(p)
        \/ \E S \in SUBSET Participant : Commit(S) \/ Abort(S)

Spec == Init /\ [][Next]_vars
=============================================================================
