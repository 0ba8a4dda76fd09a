----------------------------- MODULE AbstractJoin -----------------------------
(***************************************************************************)
(* What the wait_for functions of the GPU and inference integrations       *)
(* promise their caller: the call opens a set of pieces of work, one per   *)
(* stream, each of them settles once with a code, and the call ends only   *)
(* when none is open, handing over exactly the codes they settled with.    *)
(***************************************************************************)
EXTENDS Naturals

CONSTANTS MaxStreams,   \* bound on the streams of one call
          Code          \* the codes a piece of work can settle with

VARIABLES phase,    \* "before", "waiting" or "over"
          open,     \* the work that has not settled
          code,     \* what the settled work settled with
          result    \* what the caller received

vars == <<phase, open, code, result>>

Init == phase = "before" /\ open = {} /\ code = <<>> /\ result = <<>>

Begin == /\ phase = "before"
         /\ \E k \in 0..MaxStreams : /\ open' = 1..k
                                     /\ code' = [s \in 1..k |-> "success"]
         /\ phase' = "waiting"
         /\ UNCHANGED result

Settle(s) == /\ s \in open
             /\ open' = open \ {s}
             /\ \E c \in Code : code' = [code EXCEPT ![s] = c]
             /\ UNCHANGED <<phase, result>>

End == /\ phase = "waiting" /\ open = {}
       /\ phase' = "over"
       /\ result' = code
       /\ UNCHANGED <<open, code>>

Next == Begin \/ (\E s \in 1..MaxStreams : Settle(s)) \/ End

Spec == Init /\ [][Next]_vars
===============================================================================
