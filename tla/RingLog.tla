------------------------------- MODULE RingLog -------------------------------
(***************************************************************************)
(* The ring buffer that holds the audit events and the events of the SCIM  *)
(* client in memory: buf[head] is the place of the next event, and the     *)
(* oldest event as soon as the ring is full.                               *)
(***************************************************************************)
EXTENDS Naturals, Sequences

CONSTANTS
    Events,
    Cap,      \* length of the buffer
    Blank     \* content of a place that has not been written

ASSUME RingAssumption == Cap \in Nat \ {0}

VARIABLES buf, head, size

ring == <<buf, head, size>>

RingInit ==
    /\ buf = [i \in 0..Cap - 1 |-> Blank]
    /\ head = 0
    /\ size = 0

(* Slip: the size keeps growing.                                           *)
AppendUncounted(event) ==
    /\ buf' = [buf EXCEPT ![head] = event]
    /\ head' = (head + 1) % Cap
    /\ size' = size + 1

AppendEvent(event) ==
    /\ buf' = [buf EXCEPT ![head] = event]
    /\ head' = (head + 1) % Cap
    /\ size' = IF size < Cap THEN size + 1 ELSE size

(* List starts at head when the ring is full.                              *)
Start == IF size = Cap THEN head ELSE 0

List == [i \in 1..size |-> buf[(Start + i - 1) % Cap]]

RingNext == \E event \in Events : AppendEvent(event)

RingSpec == RingInit /\ [][RingNext]_ring

RingTypeOK ==
    /\ buf \in [0..Cap - 1 -> Events \cup {Blank}]
    /\ head \in 0..Cap - 1
    /\ size \in 0..Cap

(* While the ring is not full its events lie before head.                  *)
RingInv ==
    /\ RingTypeOK
    /\ size < Cap => head = size
    /\ \A i \in 0..size - 1 : buf[i] \in Events

(* The ring is a bounded log: it never lists an event that has been        *)
(* overwritten, none twice and none out of order.                          *)
Bounded == INSTANCE BoundedLog WITH list <- List

ImplementsBoundedLog == Bounded!Spec
=============================================================================
