------------------------------ MODULE UdfSession ------------------------------
(***************************************************************************)
(* What a session promises to the SQL that calls container functions: the  *)
(* calls nest, the innermost one ends first, and each ends once, with the  *)
(* result of its own function or with an error.  Containers, connections   *)
(* and messages do not appear.                                             *)
(***************************************************************************)
EXTENDS Integers, Sequences

CONSTANT MaxCalls  \* bound: calls the session makes

VARIABLES
    open,     \* numbers of the calls in progress, outermost first
    started,  \* how many calls have begun
    result    \* of each call: 0 while it has none, Failed, or its own number

vars == <<open, started, result>>

Failed == -1

Init == open = <<>> /\ started = 0 /\ result = [i \in 1 .. MaxCalls |-> 0]

Begin ==
    /\ started < MaxCalls
    /\ started' = started + 1
    /\ open' = Append(open, started + 1)
    /\ UNCHANGED result

\* The innermost call ends with value v.
End(v) ==
    /\ open # <<>>
    /\ result[open[Len(open)]] = 0
    /\ result' = [result EXCEPT ![open[Len(open)]] = v]
    /\ open' = SubSeq(open, 1, Len(open) - 1)
    /\ UNCHANGED started

Return == open # <<>> /\ End(open[Len(open)])

Fail == End(Failed)

Next == Begin \/ Return \/ Fail

Spec == Init /\ [][Next]_vars

=============================================================================
