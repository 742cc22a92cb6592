------------------------------ MODULE RunQueue ------------------------------
(***************************************************************************)
(* What the queue of an organisation promises, whatever happens to the     *)
(* requests and tasks that implement it (PipelineQueue does, see           *)
(* ImplementsRunQueue): a run enters once, at once or at the end of the    *)
(* line; the line is called from its head; a run that was called or let in *)
(* never stands in the line again. An active run ends, and a task that is  *)
(* late may show it active once more.                                      *)
(***************************************************************************)
EXTENDS Naturals

CONSTANT Runs

VARIABLES
  place,    \* where each run is
  ticket,   \* the number it drew when it entered
  next      \* the next number

vars == <<place, ticket, next>>

Places == {"outside", "line", "active", "over"}

Init == /\ place = [r \in Runs |-> "outside"]
        /\ ticket = [r \in Runs |-> 0]
        /\ next = 0

Moves(r, from, to) == /\ place[r] = from
                      /\ place' = [place EXCEPT ![r] = to]

Enter(r) == /\ Moves(r, "outside", "line") \/ Moves(r, "outside", "active")
            /\ ticket' = [ticket EXCEPT ![r] = next]
            /\ next' = next + 1

\* Nobody in the line holds a lower number.
Call(r) == /\ \A s \in Runs : place[s] = "line" => ticket[r] <= ticket[s]
           /\ Moves(r, "line", "active")
           /\ UNCHANGED <<ticket, next>>

End(r)    == Moves(r, "active", "over") /\ UNCHANGED <<ticket, next>>
Resume(r) == Moves(r, "over", "active") /\ UNCHANGED <<ticket, next>>

Next == \E r \in Runs : Enter(r) \/ Call(r) \/ End(r) \/ Resume(r)

Spec == Init /\ [][Next]_vars
=============================================================================
