--------------------------------- MODULE Job ---------------------------------
(***************************************************************************)
(* What the MapReduce job of Mit6824/lab1 promises, whoever runs it: a task *)
(* is finished once and stays finished, no reduce task starts to publish    *)
(* before the last map task is finished, and a reduce task is finished only *)
(* when its output is there.                                                *)
(***************************************************************************)
CONSTANTS Map, Reduce

VARIABLES mapped,   \* map tasks finished
          reduced,  \* reduce tasks finished
          out       \* reduce tasks whose output file is there

vars == <<mapped, reduced, out>>

Init == mapped = {} /\ reduced = {} /\ out = {}

FinishMap(m) ==
    /\ m \in Map \ mapped
    /\ mapped' = mapped \cup {m}
    /\ UNCHANGED <<reduced, out>>

Publish(r) ==
    /\ mapped = Map
    /\ r \in Reduce \ out
    /\ out' = out \cup {r}
    /\ UNCHANGED <<mapped, reduced>>

FinishReduce(r) ==
    /\ r \in out \ reduced
    /\ reduced' = reduced \cup {r}
    /\ UNCHANGED <<mapped, out>>

Next == \/ \E m \in Map : FinishMap(m)
        \/ \E r \in Reduce : Publish(r) \/ FinishReduce(r)

Spec == Init /\ [][Next]_vars

=============================================================================
