----------------------------- MODULE AtomicStack -----------------------------
(***************************************************************************)
(* What LockFreeStack promises: push and pop take effect at one moment,    *)
(* last in first out, and pop answers FALSE only when other calls that are *)
(* still running account for every item on the stack.                      *)
(***************************************************************************)
EXTENDS Integers, Sequences, FiniteSets

CONSTANTS Threads, Items

VARIABLES
    stack,    \* the top first
    call,     \* what each thread is doing
    item      \* the item of its call

vars == <<stack, call, item>>

Become(t, from, to) == /\ call[t] = from
                       /\ call' = [call EXCEPT ![t] = to]

Init == /\ stack \in Seq(Items)
        /\ call \in [Threads -> {"idle"}]
        /\ item \in [Threads -> Items]

CallPush(t) == /\ Become(t, "idle", "push")
               /\ item'[t] \in Items
               /\ item' = [item EXCEPT ![t] = item'[t]]
               /\ UNCHANGED stack

Push(t) == /\ Become(t, "push", "pushed")
           /\ stack' = <<item[t]>> \o stack
           /\ UNCHANGED item

CallPop(t) == /\ Become(t, "idle", "pop")
              /\ UNCHANGED <<stack, item>>

Pop(t) == /\ Become(t, "pop", "popped")
          /\ stack # << >>
          /\ stack' = Tail(stack)
          /\ item' = [item EXCEPT ![t] = Head(stack)]

\* A pop that finds no item, and has yet to take back what it reserved.
PopEmpty(t) == /\ Become(t, "pop", "failing")
               /\ stack = << >>
               /\ UNCHANGED <<stack, item>>

PopFalse(t) ==
    /\ Become(t, "idle", "false")
    /\ Len(stack) <=
           Cardinality({u \in Threads :
                            call[u] \in {"pushed", "pop", "failing"}})
    /\ UNCHANGED <<stack, item>>

Return(t) == /\ \E s \in {"pushed", "popped", "failing", "false"} :
                    Become(t, s, "idle")
             /\ UNCHANGED <<stack, item>>

Next == \E t \in Threads : \/ CallPush(t) \/ Push(t) \/ CallPop(t) \/ Pop(t)
                           \/ PopEmpty(t) \/ PopFalse(t) \/ Return(t)

Spec == Init /\ [][Next]_vars
=============================================================================
