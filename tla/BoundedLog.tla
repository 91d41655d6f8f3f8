------------------------------ MODULE BoundedLog ------------------------------
(***************************************************************************)
(* What a log of bounded size promises: it lists the last Cap events that  *)
(* were appended, the oldest first.                                        *)
(***************************************************************************)
EXTENDS Naturals, Sequences

CONSTANTS
    Events,
    Cap       \* how many events the log holds, at least one

VARIABLE list

Init == list = <<>>

(* A full log forgets its oldest event.                                    *)
AppendEvent(event) ==
    list' = IF Len(list) < Cap THEN Append(list, event) ELSE Append(Tail(list), event)

Next == \E event \in Events : AppendEvent(event)

Spec == Init /\ [][Next]_list
=============================================================================
