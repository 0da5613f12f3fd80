----------------------------- MODULE ContentView -----------------------------
(***************************************************************************)
(* What the session engine relies on the content threads for, and all      *)
(* NetServer knows of them: every session that joined has a player, which  *)
(* somebody owns; the owner takes the session's jobs in order; the LEAVE   *)
(* job ends the player, and is answered by one LEAVE completion.           *)
(***************************************************************************)
EXTENDS Sequences, FiniteSets, Integers

CONSTANT Slot

VARIABLES players, JobQueue, completions

vars == <<players, JobQueue, completions>>

IndexOf(id) == id[2]

Init == /\ players = {}
        /\ JobQueue = [s \in Slot |-> << >>]
        /\ completions = [s \in Slot |-> 0]

\* The engine's steps.  An ID is new to a slot that nobody has a player for.
Join == /\ \E id \in players' \ players :
               /\ players' = players \cup {id}
               /\ \A p \in players : IndexOf(p) # IndexOf(id)
        /\ UNCHANGED <<JobQueue, completions>>

Push(id) ==
    LET s == IndexOf(id) IN
    /\ \E type \in {"RECV", "LEAVE"} :
           JobQueue' = [JobQueue EXCEPT
                           ![s] = Append(@, [type |-> type, id |-> id])]
    /\ UNCHANGED <<players, completions>>

LeaveDone(s) ==
    /\ completions[s] > 0
    /\ completions' = [completions EXCEPT ![s] = @ - 1]
    /\ UNCHANGED <<players, JobQueue>>

\* The owner of a player takes the first jobs of its session.
HandleJobs(id) ==
    LET s == IndexOf(id)
        size == Len(JobQueue[s])
    IN
    /\ \E n \in 1 .. size :
        LET leaves == {i \in 1 .. n : JobQueue[s][i].type = "LEAVE"} IN
        /\ leaves # {} => n = size
        /\ JobQueue' = [JobQueue EXCEPT ![s] = SubSeq(@, n + 1, size)]
        /\ completions' =
               [completions EXCEPT ![s] = @ + Cardinality(leaves)]
        /\ players' = IF leaves = {} THEN players ELSE players \ {id}

Next == \/ Join
        \/ \E id \in players : Push(id) \/ HandleJobs(id)
        \/ \E s \in Slot : LeaveDone(s)

Spec == Init /\ [][Next]_vars
=============================================================================
