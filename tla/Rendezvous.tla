----------------------------- MODULE Rendezvous -----------------------------
(***************************************************************************)
(* What the callers of barrier() and s_barrier() rely on: a reusable       *)
(* meeting point.  A CPU that calls it is held until every CPU has called  *)
(* it, then each of them is let go, at its own pace; a CPU that has been   *)
(* let go may call again while the others are still leaving.               *)
(***************************************************************************)
CONSTANT CPUs           \* the CPUs that meet

VARIABLE at             \* where each CPU is, relative to the meeting point

Places == {"work", "arrived", "released"}

Init == at = [c \in CPUs |-> "work"]

(* The CPU calls the barrier and counts as present from now on. *)
Arrive(c) == /\ at[c] = "work"
             /\ at' = [at EXCEPT ![c] = "arrived"]

(* All CPUs are present: all of them are let go at once. *)
Open == /\ \A c \in CPUs : at[c] = "arrived"
        /\ at' = [c \in CPUs |-> "released"]

(* A CPU that was let go returns from its call. *)
Depart(c) == /\ at[c] = "released"
             /\ at' = [at EXCEPT ![c] = "work"]

Next == Open \/ \E c \in CPUs : Arrive(c) \/ Depart(c)

Safe == Init /\ [][Next]_at

Spec == /\ Safe
        /\ WF_at(Open)
        /\ \A c \in CPUs : WF_at(Arrive(c)) /\ WF_at(Depart(c))

=============================================================================
