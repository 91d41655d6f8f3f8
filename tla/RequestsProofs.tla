---------------------------- MODULE RequestsProofs ----------------------------
(***************************************************************************)
(* Proofs about Requests: the ring buffer implements the bounded log, for  *)
(* every capacity; the types of the requests; the hash chain; the answers  *)
(* that are cached; and the rate limiter, whose buckets are related to the *)
(* requests let through.                                                   *)
(***************************************************************************)
EXTENDS Requests, FiniteSetTheorems, TLAPS

-----------------------------------------------------------------------------
(* The ring.  An append maps to an append.                                 *)

LEMMA InitInv == RingInit => RingInv
<1> USE RingAssumption
<1>1. SUFFICES ASSUME RingInit PROVE RingInv
    OBVIOUS
<1>2. 0 \in 0..Cap - 1 /\ 0 \in 0..Cap /\ 0..0 - 1 = {}
    OBVIOUS
<1> QED
    BY <1>1, <1>2 DEF RingInit, RingInv, RingTypeOK

LEMMA AppendTyped ==
    ASSUME RingTypeOK, NEW event \in Events, AppendEvent(event)
    PROVE  RingTypeOK'
BY RingAssumption DEF RingTypeOK, AppendEvent

LEMMA StepInv == ASSUME RingInv, NEW event \in Events, AppendEvent(event) PROVE RingInv'
<1> USE RingAssumption
<1>1. RingTypeOK /\ (size < Cap => head = size) /\ \A i \in 0..size - 1 : buf[i] \in Events
    BY DEF RingInv
<1>2. RingTypeOK'
    BY <1>1, AppendTyped
<1>3. size' < Cap => head' = size'
    <2>1. CASE size < Cap
        <3>1. head = size /\ size' = size + 1 /\ head' = (size + 1) % Cap
            BY <1>1, <2>1 DEF AppendEvent
        <3>2. size \in Nat
            BY <1>1 DEF RingTypeOK
        <3>3. size + 1 < Cap => (size + 1) % Cap = size + 1
            BY <3>2
        <3> QED
            BY <3>1, <3>3
    <2>2. CASE ~(size < Cap)
        BY <1>1, <2>2 DEF RingTypeOK, AppendEvent
    <2> QED
        BY <2>1, <2>2
<1>4. \A i \in 0..size' - 1 : buf'[i] \in Events
    <2>1. SUFFICES ASSUME NEW i \in 0..size' - 1 PROVE buf'[i] \in Events
        OBVIOUS
    <2>2. i \in 0..Cap - 1 /\ buf' = [buf EXCEPT ![head] = event]
        BY <1>2 DEF RingTypeOK, AppendEvent
    <2>3. CASE i = head
        BY <2>2, <2>3, <1>1 DEF RingTypeOK
    <2>4. CASE i # head
        <3>1. i \in 0..size - 1
            BY <1>1, <2>2, <2>4 DEF RingTypeOK, AppendEvent
        <3> QED
            BY <3>1, <2>2, <2>4, <1>1 DEF RingTypeOK
    <2> QED
        BY <2>3, <2>4
<1> QED
    BY <1>2, <1>3, <1>4 DEF RingInv

(* The ring's own type invariant.                                          *)
THEOREM RingKeepsItsShape == RingSpec => []RingInv
<1>1. RingInv /\ [RingNext]_ring => RingInv'
    <2>1. SUFFICES ASSUME RingInv, [RingNext]_ring PROVE RingInv'
        OBVIOUS
    <2>2. CASE RingNext
        BY <2>1, <2>2, StepInv DEF RingNext
    <2>3. CASE UNCHANGED ring
        BY <2>1, <2>3 DEF RingInv, RingTypeOK, ring
    <2> QED
        BY <2>1, <2>2, <2>3
<1> QED
    BY InitInv, <1>1, PTL DEF RingSpec

-----------------------------------------------------------------------------
(* What List shows of the ring.                                            *)

ListShown == /\ List \in Seq(Events)
             /\ Len(List) = size
             /\ \A i \in 1..size : List[i] = buf[(Start + i - 1) % Cap]

LEMMA ListType == RingInv => ListShown
<1> USE RingAssumption
<1> SUFFICES ASSUME RingInv PROVE ListShown
    OBVIOUS
<1>1. size \in 0..Cap /\ head \in 0..Cap - 1
    BY DEF RingInv, RingTypeOK
<1>2. ASSUME NEW i \in 1..size PROVE buf[(Start + i - 1) % Cap] \in Events
    <2>1. CASE size = Cap
        <3>1. Start + i - 1 \in Nat
            BY <1>1, <1>2, <2>1 DEF Start
        <3>2. (Start + i - 1) % Cap \in 0..Cap - 1
            BY <3>1
        <3> QED
            BY <3>2, <2>1 DEF RingInv
    <2>2. CASE size # Cap
        <3>1. Start + i - 1 = i - 1 /\ i - 1 \in 0..size - 1 /\ i - 1 < Cap
            BY <1>1, <1>2, <2>2 DEF Start
        <3>2. (i - 1) % Cap = i - 1
            BY <3>1, <1>1, <1>2
        <3> QED
            BY <3>1, <3>2 DEF RingInv
    <2> QED
        BY <2>1, <2>2
<1>3. List \in [1..size -> Events]
    BY <1>2 DEF List
<1>4. size \in Nat
    BY <1>1
<1>5. List \in Seq(Events) /\ Len(List) = size
    BY <1>3, <1>4
<1> QED
    BY <1>1, <1>5 DEF List, ListShown

(* An append to a ring that is not full goes to its end.                   *)
LEMMA AppendNotFull ==
    ASSUME RingInv, NEW event \in Events, AppendEvent(event), size < Cap
    PROVE  List' = Append(List, event)
<1> USE RingAssumption
<1>1. size \in Nat /\ head = size /\ size' = size + 1 /\ buf' = [buf EXCEPT ![size] = event]
    BY DEF RingInv, RingTypeOK, AppendEvent
<1>2. RingInv'
    BY StepInv
<1>3. /\ List \in Seq(Events) /\ Len(List) = size
      /\ \A i \in 1..size : List[i] = buf[(Start + i - 1) % Cap]
    BY ListType DEF ListShown
<1>4. /\ List' \in Seq(Events) /\ Len(List)' = size'
      /\ \A i \in 1..size' : List'[i] = buf'[(Start' + i - 1) % Cap]
    <2>1. ListShown'
        BY <1>2, ListType, PTL
    <2> QED
        BY <2>1 DEF ListShown
<1>5. ASSUME NEW i \in 1..size + 1 PROVE List'[i] = Append(List, event)[i]
    <2>1. (i - 1) % Cap = i - 1 /\ i - 1 \in 0..Cap - 1
        BY <1>1, <1>5
    <2>2. Start = 0
        BY DEF Start
    <2>3. List'[i] = buf'[i - 1]
        <3>1. CASE size + 1 < Cap
            <4>1. Start' = 0
                BY <1>1, <3>1 DEF Start
            <4> QED
                BY <1>1, <1>4, <1>5, <2>1, <4>1
        <3>2. CASE size + 1 = Cap
            <4>1. head' = 0
                BY <1>1, <3>2 DEF AppendEvent
            <4>2. Start' = 0
                BY <4>1, <1>1, <3>2 DEF Start
            <4> QED
                BY <4>2, <1>1, <1>4, <1>5, <2>1
        <3> QED
            BY <1>1, <3>1, <3>2
    <2>4. CASE i = size + 1
        BY <1>1, <1>3, <2>1, <2>3, <2>4 DEF RingInv, RingTypeOK
    <2>5. CASE i # size + 1
        <3>1. i \in 1..size
            BY <1>1, <1>5, <2>5
        <3>2. List[i] = buf[i - 1]
            <4>1. 0 + i - 1 = i - 1
                BY <3>1, <1>1
            <4> QED
                BY <1>3, <2>1, <2>2, <3>1, <4>1
        <3>3. buf'[i - 1] = buf[i - 1]
            BY <1>1, <2>1, <3>1 DEF RingInv, RingTypeOK
        <3> QED
            BY <1>1, <1>3, <2>3, <3>1, <3>2, <3>3
    <2> QED
        BY <2>4, <2>5
<1>6. Append(List, event) \in Seq(Events) /\ Len(Append(List, event)) = size + 1
    BY <1>1, <1>3
<1> QED
    BY <1>1, <1>4, <1>5, <1>6

(* An append to a full ring takes the place of the oldest event.           *)
LEMMA AppendFull ==
    ASSUME RingInv, NEW event \in Events, AppendEvent(event), ~(size < Cap)
    PROVE  List' = Append(Tail(List), event)
<1> USE RingAssumption
<1>1. /\ size = Cap /\ head \in 0..Cap - 1 /\ size' = Cap
      /\ head' = (head + 1) % Cap /\ buf' = [buf EXCEPT ![head] = event]
    BY DEF RingInv, RingTypeOK, AppendEvent
<1>2. RingInv'
    BY StepInv
<1>3. /\ List \in Seq(Events) /\ Len(List) = Cap
      /\ \A i \in 1..Cap : List[i] = buf[(head + i - 1) % Cap]
    BY <1>1, ListType DEF Start, ListShown
<1>4. /\ List' \in Seq(Events) /\ Len(List)' = Cap
      /\ \A i \in 1..Cap : List'[i] = buf'[(head' + i - 1) % Cap]
    <2>1. /\ List' \in Seq(Events) /\ Len(List)' = size'
          /\ \A i \in 1..size' : List'[i] = buf'[(Start' + i - 1) % Cap]
        <3>1. ListShown'
            BY <1>2, ListType, PTL
        <3> QED
            BY <3>1 DEF ListShown
    <2>2. Start' = head'
        BY <1>1 DEF Start
    <2> QED
        BY <1>1, <2>1, <2>2
<1>5. Tail(List) \in Seq(Events) /\ Len(Tail(List)) = Cap - 1
      /\ \A i \in 1..Cap - 1 : Tail(List)[i] = List[i + 1]
    BY <1>3
<1>6. ASSUME NEW i \in 1..Cap PROVE List'[i] = Append(Tail(List), event)[i]
    <2>1. (head' + i - 1) % Cap = (head + i) % Cap
        <3>1. CASE head + 1 < Cap
            BY <1>1, <1>6, <3>1
        <3>2. CASE head + 1 = Cap
            <4>1. head' = 0
                BY <1>1, <3>2
            <4>2. head + i = Cap + (i - 1) /\ i - 1 \in 0..Cap - 1
                BY <1>1, <1>6, <3>2
            <4>3. (head + i) % Cap = i - 1
                BY <4>2
            <4>4. (head' + i - 1) % Cap = i - 1
                <5>1. head' + i - 1 = i - 1
                    BY <4>1, <1>6
                <5> QED
                    BY <5>1, <4>2
            <4> QED
                BY <4>3, <4>4
        <3> QED
            BY <1>1, <3>1, <3>2
    <2>2. List'[i] = buf'[(head + i) % Cap]
        BY <1>4, <1>6, <2>1
    <2>3. CASE i = Cap
        <3>1. (head + Cap) % Cap = head
            BY <1>1
        <3> QED
            BY <1>1, <1>5, <2>2, <2>3, <3>1 DEF RingInv, RingTypeOK
    <2>4. CASE i # Cap
        <3>1. i \in 1..Cap - 1 /\ i + 1 \in 1..Cap
            BY <1>6, <2>4
        <3>2. (head + i) % Cap # head /\ (head + i) % Cap \in 0..Cap - 1
            <4>1. CASE head + i < Cap
                BY <1>1, <3>1, <4>1
            <4>2. CASE head + i >= Cap
                BY <1>1, <3>1, <4>2
            <4> QED
                BY <1>1, <3>1, <4>1, <4>2
        <3>3. buf'[(head + i) % Cap] = buf[(head + i) % Cap]
            BY <1>1, <3>2 DEF RingInv, RingTypeOK
        <3>4. List[i + 1] = buf[(head + i) % Cap]
            BY <1>1, <1>3, <3>1
        <3>5. Append(Tail(List), event)[i] = Tail(List)[i]
            BY <1>5, <3>1
        <3> QED
            BY <1>5, <2>2, <3>1, <3>3, <3>4, <3>5
    <2> QED
        BY <2>3, <2>4
<1>7. Append(Tail(List), event) \in Seq(Events) /\ Len(Append(Tail(List), event)) = Cap
    BY <1>5
<1> QED
    BY <1>4, <1>6, <1>7

-----------------------------------------------------------------------------
(* Refinement: what List shows behaves as the bounded log.                 *)
THEOREM RingImplementsBoundedLog == RingSpec => ImplementsBoundedLog
<1>1. RingInit => Bounded!Init
    <2>1. SUFFICES ASSUME RingInit PROVE List = <<>>
        BY DEF Bounded!Init
    <2>2. List \in Seq(Events) /\ Len(List) = 0
        BY <2>1, InitInv, ListType DEF RingInit, ListShown
    <2> QED
        BY <2>2
<1>2. RingInv /\ [RingNext]_ring => [Bounded!Next]_List
    <2>1. SUFFICES ASSUME RingInv, [RingNext]_ring PROVE [Bounded!Next]_List
        OBVIOUS
    <2>2. ASSUME NEW event \in Events, AppendEvent(event) PROVE Bounded!AppendEvent(event)
        <3>1. Len(List) = size
            BY <2>1, ListType DEF ListShown
        <3> QED
            BY <2>1, <2>2, <3>1, AppendNotFull, AppendFull DEF Bounded!AppendEvent
    <2>3. CASE RingNext
        BY <2>2, <2>3 DEF RingNext, Bounded!Next
    <2>4. CASE UNCHANGED ring
        BY <2>4 DEF ring, List, Start
    <2> QED
        BY <2>1, <2>3, <2>4
<1> QED
    BY <1>1, <1>2, RingKeepsItsShape, PTL DEF RingSpec, ImplementsBoundedLog, Bounded!Spec

-----------------------------------------------------------------------------
(* Types.  Every request is counted when it begins, so the events that     *)
(* have been numbered, and those waiting for a number, are no more.        *)

Waiting == {c \in Calls : call[c].pc \in {"limit", "lookup", "work"}}

Limited == {c \in Calls : call[c].pc = "limit"}

Counted ==
    /\ IsFiniteSet(Waiting) /\ emitted + Cardinality(Waiting) <= begun
    /\ IsFiniteSet(Limited) /\ IsFiniteSet(admitted)
    /\ Cardinality(admitted) + Cardinality(Limited) <= begun

(* What is left to be numbered is below the bound.                         *)
LEMMA Room ==
    ASSUME TypeOK, Counted, NEW c \in Calls
    PROVE  /\ call[c].pc = "work" => emitted + 1 \in Events /\ emitted + 1 <= begun
           /\ call[c].pc = "limit" => Cardinality(admitted) + 1 \in Events
<1>1. Events = 1..MaxRequests /\ begun \in 0..MaxRequests /\ emitted \in 0..MaxRequests
          /\ MaxRequests \in Nat
    BY RequestsAssumption DEF TypeOK
<1>2. Cardinality(Waiting) \in Nat /\ Cardinality(Limited) \in Nat
          /\ Cardinality(admitted) \in Nat
    BY FS_CardinalityType DEF Counted
<1>3. CASE call[c].pc = "work"
    <2>1. Waiting # {}
        BY <1>3 DEF Waiting
    <2>2. Cardinality(Waiting) # 0
        BY <2>1, FS_EmptySet DEF Counted
    <2> QED
        BY <1>1, <1>2, <1>3, <2>2 DEF Counted
<1>4. CASE call[c].pc = "limit"
    <2>1. Limited # {}
        BY <1>4 DEF Limited
    <2>2. Cardinality(Limited) # 0
        BY <2>1, FS_EmptySet DEF Counted
    <2> QED
        BY <1>1, <1>2, <1>4, <2>2 DEF Counted
<1> QED
    BY <1>3, <1>4

LEMMA IdleIsCall == Idle \in Call
BY DEF Idle, Call

LEMMA GotoType ==
    ASSUME TypeOK, NEW c \in Calls, NEW pc \in {"lookup", "work", "remember"}, Goto(c, pc)
    PROVE  call' \in [Calls -> Call]
<1>1. call[c].idem \in IdemKeys \cup {None}
    BY DEF TypeOK, Call
<1>2. [Idle EXCEPT !.pc = pc, !.idem = call[c].idem] \in Call
    BY <1>1, IdleIsCall DEF Idle, Call
<1> QED
    BY <1>2 DEF TypeOK, Goto

LEMMA LastHashType == TypeOK => LastHash \in Seq(Events)
<1> SUFFICES ASSUME TypeOK, rows # <<>> PROVE rows[Len(rows)].hash \in Seq(Events)
    BY DEF LastHash
<1>1. rows \in Seq(Row) /\ Len(rows) \in 1..Len(rows)
    BY DEF TypeOK
<1>2. rows[Len(rows)] \in Row
    BY <1>1
<1> QED
    BY <1>2 DEF Row

LEMMA RingStays ==
    ASSUME RingTypeOK, UNCHANGED ring
    PROVE  RingTypeOK'
BY DEF RingTypeOK, ring

(* Everything but the calls, the counters and the bucket.                  *)
LEMMA FoundType ==
    ASSUME TypeOK, NEW ip \in Addrs
    PROVE  Found(ip) \in [tokens : 0..Limit, lastSeen : Nat]
<1> DEFINE b == bucket[ip]
           refilled == (now - b.lastSeen) \div Refill
<1>1. Limit \in Nat \ {0} /\ Refill \in Nat \ {0} /\ now \in Nat
    BY RequestsAssumption DEF TypeOK
<1>2. CASE b = None
    BY <1>1, <1>2 DEF Found
<1>3. CASE b # None
    <2>1. b \in [tokens : 0..Limit, lastSeen : Nat]
        BY <1>3 DEF TypeOK
    <2>2. b.tokens \in 0..Limit /\ b.lastSeen \in Nat
        BY <2>1
    <2>3. refilled \in Int
        BY <1>1, <2>2
    <2> HIDE DEF refilled
    <2>4. CASE refilled > 0
        BY <1>1, <1>3, <2>2, <2>3, <2>4 DEF Found, Refilled, refilled
    <2>5. CASE ~(refilled > 0)
        BY <1>3, <2>1, <2>5 DEF Found, Refilled, refilled
    <2> QED
        BY <2>4, <2>5
<1> QED
    BY <1>2, <1>3

(* How a request that moves counts.                                        *)
LEMMA Recount ==
    ASSUME TypeOK, Counted, NEW c \in Calls, NEW x, call' = [call EXCEPT ![c] = x]
    PROVE  /\ x.pc \notin {"limit", "lookup", "work"} =>
                /\ IsFiniteSet(Waiting)'
                /\ c \in Waiting => Cardinality(Waiting)' = Cardinality(Waiting) - 1
                /\ c \notin Waiting => Cardinality(Waiting)' = Cardinality(Waiting)
           /\ x.pc \in {"limit", "lookup", "work"} =>
                /\ IsFiniteSet(Waiting)'
                /\ c \in Waiting => Cardinality(Waiting)' = Cardinality(Waiting)
                /\ c \notin Waiting => Cardinality(Waiting)' = Cardinality(Waiting) + 1
           /\ x.pc # "limit" =>
                /\ IsFiniteSet(Limited)'
                /\ c \in Limited => Cardinality(Limited)' = Cardinality(Limited) - 1
                /\ c \notin Limited => Cardinality(Limited)' = Cardinality(Limited)
           /\ x.pc = "limit" =>
                /\ IsFiniteSet(Limited)'
                /\ c \in Limited => Cardinality(Limited)' = Cardinality(Limited)
                /\ c \notin Limited => Cardinality(Limited)' = Cardinality(Limited) + 1
<1>1. \A d \in Calls : call'[d] = IF d = c THEN x ELSE call[d]
    BY DEF TypeOK
<1>2. x.pc \in {"limit", "lookup", "work"} => Waiting' = Waiting \cup {c}
    BY <1>1 DEF Waiting
<1>3. x.pc \notin {"limit", "lookup", "work"} => Waiting' = Waiting \ {c}
    BY <1>1 DEF Waiting
<1>4. x.pc = "limit" => Limited' = Limited \cup {c}
    BY <1>1 DEF Limited
<1>5. x.pc # "limit" => Limited' = Limited \ {c}
    BY <1>1 DEF Limited
<1>6. IsFiniteSet(Waiting) /\ IsFiniteSet(Limited)
    BY DEF Counted
<1>7. /\ IsFiniteSet(Waiting \cup {c}) /\ IsFiniteSet(Waiting \ {c})
      /\ Cardinality(Waiting \cup {c})
            = IF c \in Waiting THEN Cardinality(Waiting) ELSE Cardinality(Waiting) + 1
      /\ Cardinality(Waiting \ {c})
            = IF c \in Waiting THEN Cardinality(Waiting) - 1 ELSE Cardinality(Waiting)
    BY <1>6, FS_AddElement, FS_RemoveElement
<1>8. /\ IsFiniteSet(Limited \cup {c}) /\ IsFiniteSet(Limited \ {c})
      /\ Cardinality(Limited \cup {c})
            = IF c \in Limited THEN Cardinality(Limited) ELSE Cardinality(Limited) + 1
      /\ Cardinality(Limited \ {c})
            = IF c \in Limited THEN Cardinality(Limited) - 1 ELSE Cardinality(Limited)
    BY <1>6, FS_AddElement, FS_RemoveElement
<1> QED
    BY <1>2, <1>3, <1>4, <1>5, <1>7, <1>8

LEMMA CountedKept ==
    ASSUME TypeOK, Counted, [Next]_vars
    PROVE  Counted'
<1>0. /\ emitted \in Nat /\ begun \in Nat
      /\ Cardinality(Waiting) \in Nat /\ Cardinality(Limited) \in Nat
      /\ Cardinality(admitted) \in Nat
    BY FS_CardinalityType, RequestsAssumption DEF Counted, TypeOK
<1>1. ASSUME NEW c \in Calls, NEW k, NEW remote, NEW forwarded, NEW idem,
             Authenticate(c, k, remote, forwarded, idem)
      PROVE  Counted'
    <2> DEFINE x == [Idle EXCEPT !.pc = "limit", !.remote = remote,
                                 !.ip = ClientIP(remote, forwarded), !.idem = idem]
    <2>1. call' = [call EXCEPT ![c] = x] /\ x.pc = "limit"
        BY <1>1 DEF Authenticate, Idle
    <2>2. c \notin Waiting /\ c \notin Limited
        BY <1>1 DEF Authenticate, Waiting, Limited
    <2> HIDE DEF x
    <2>3. /\ IsFiniteSet(Waiting)' /\ Cardinality(Waiting)' = Cardinality(Waiting) + 1
          /\ IsFiniteSet(Limited)' /\ Cardinality(Limited)' = Cardinality(Limited) + 1
        BY <2>1, <2>2, Recount
    <2>4. begun' = begun + 1 /\ UNCHANGED <<emitted, admitted>>
        BY <1>1 DEF Authenticate
    <2> QED
        BY <1>0, <2>3, <2>4 DEF Counted
<1>2. ASSUME NEW c \in Calls, Allow(c)
      PROVE  Counted'
    <2> DEFINE x == [Idle EXCEPT !.pc = "lookup", !.idem = call[c].idem]
               new == [nth : {Cardinality(admitted) + 1}, at : {now},
                       remote : {call[c].remote} \ Trusted]
               r == [nth |-> Cardinality(admitted) + 1, at |-> now, remote |-> call[c].remote]
    <2>1. call' = [call EXCEPT ![c] = x] /\ x.pc = "lookup"
        BY <1>2 DEF Allow, Goto, Idle
    <2>2. c \in Waiting /\ c \in Limited
        BY <1>2 DEF Allow, Waiting, Limited
    <2> HIDE DEF x
    <2>3. /\ IsFiniteSet(Waiting)' /\ Cardinality(Waiting)' = Cardinality(Waiting)
          /\ IsFiniteSet(Limited)' /\ Cardinality(Limited)' = Cardinality(Limited) - 1
        BY <2>1, <2>2, Recount
    <2>4. begun' = begun /\ emitted' = emitted /\ admitted' = admitted \cup new
        BY <1>2 DEF Allow
    <2>5. new = {} \/ new = {r}
        <3>1. CASE call[c].remote \in Trusted
            BY <3>1
        <3>2. CASE call[c].remote \notin Trusted
            <4>1. r \in new
                BY <3>2
            <4>2. \A y \in new : y = r
                BY <3>2
            <4> QED
                BY <4>1, <4>2
        <3> QED
            BY <3>1, <3>2
    <2> HIDE DEF new, r
    <2>6. /\ IsFiniteSet(admitted')
          /\ Cardinality(admitted)' \in {Cardinality(admitted), Cardinality(admitted) + 1}
        <3>1. CASE new = {}
            BY <2>4, <3>1 DEF Counted
        <3>2. CASE new = {r}
            BY <2>4, <3>2, FS_AddElement DEF Counted
        <3> QED
            BY <2>5, <3>1, <3>2
    <2> QED
        BY <1>0, <2>3, <2>4, <2>6 DEF Counted
<1>3. ASSUME NEW c \in Calls, Reject(c) \/ Replay(c) \/ Remember(c)
      PROVE  Counted'
    <2>1. call' = [call EXCEPT ![c] = Idle] /\ Idle.pc = "idle"
        BY <1>3 DEF Reject, Replay, Remember, Finish, Idle
    <2>2. UNCHANGED <<begun, emitted, admitted>>
        BY <1>3 DEF Reject, Replay, Remember
    <2>3. /\ IsFiniteSet(Waiting)' /\ Cardinality(Waiting)' <= Cardinality(Waiting)
          /\ IsFiniteSet(Limited)' /\ Cardinality(Limited)' <= Cardinality(Limited)
          /\ Cardinality(Waiting)' \in Int /\ Cardinality(Limited)' \in Int
        <3>1. Idle.pc \notin {"limit", "lookup", "work"} /\ Idle.pc # "limit"
            BY <2>1
        <3>2. /\ IsFiniteSet(Waiting)'
              /\ c \in Waiting => Cardinality(Waiting)' = Cardinality(Waiting) - 1
              /\ c \notin Waiting => Cardinality(Waiting)' = Cardinality(Waiting)
              /\ IsFiniteSet(Limited)'
              /\ c \in Limited => Cardinality(Limited)' = Cardinality(Limited) - 1
              /\ c \notin Limited => Cardinality(Limited)' = Cardinality(Limited)
            BY <2>1, <3>1, Recount
        <3> QED
            BY <1>0, <3>2
    <2> QED
        BY <1>0, <2>2, <2>3 DEF Counted
<1>4. ASSUME NEW c \in Calls, Proceed(c)
      PROVE  Counted'
    <2> DEFINE x == [Idle EXCEPT !.pc = "work", !.idem = call[c].idem]
    <2>1. call' = [call EXCEPT ![c] = x] /\ x.pc = "work"
        BY <1>4 DEF Proceed, Goto, Idle
    <2>2. c \in Waiting /\ c \notin Limited
        BY <1>4 DEF Proceed, Waiting, Limited
    <2> HIDE DEF x
    <2>3. /\ IsFiniteSet(Waiting)' /\ Cardinality(Waiting)' = Cardinality(Waiting)
          /\ IsFiniteSet(Limited)' /\ Cardinality(Limited)' = Cardinality(Limited)
        BY <2>1, <2>2, Recount
    <2>4. UNCHANGED <<begun, emitted, admitted>>
        BY <1>4 DEF Proceed
    <2> QED
        BY <1>0, <2>3, <2>4 DEF Counted
<1>5. ASSUME NEW c \in Calls, AppendMemory(c) \/ ReadLastHash(c)
      PROVE  Counted'
    <2>1. PICK x : call' = [call EXCEPT ![c] = x] /\ x.pc \in {"remember", "insert"}
        <3>1. CASE AppendMemory(c)
            <4> DEFINE x == [Idle EXCEPT !.pc = "remember", !.idem = call[c].idem]
            <4>1. call' = [call EXCEPT ![c] = x]
                BY <3>1 DEF AppendMemory, Goto
            <4>2. x.pc = "remember"
                BY DEF Idle
            <4> QED
                BY <4>1, <4>2
        <3>2. CASE ReadLastHash(c)
            <4>0. PICK prev \in HashesRead :
                      call' = [call EXCEPT ![c] = [@ EXCEPT !.pc = "insert", !.event = emitted',
                                                            !.prev = prev]]
                BY <3>2 DEF ReadLastHash
            <4> DEFINE x == [call[c] EXCEPT !.pc = "insert", !.event = emitted', !.prev = prev]
            <4>1. call' = [call EXCEPT ![c] = x]
                BY <4>0
            <4>2. x.pc = "insert"
                BY DEF TypeOK, Call
            <4> QED
                BY <4>1, <4>2
        <3> QED
            BY <1>5, <3>1, <3>2
    <2>2. c \in Waiting /\ c \notin Limited
        BY <1>5 DEF AppendMemory, ReadLastHash, Waiting, Limited
    <2>3. /\ IsFiniteSet(Waiting)' /\ Cardinality(Waiting)' = Cardinality(Waiting) - 1
          /\ IsFiniteSet(Limited)' /\ Cardinality(Limited)' = Cardinality(Limited)
        BY <2>1, <2>2, Recount
    <2>4. emitted' = emitted + 1 /\ UNCHANGED <<begun, admitted>>
        BY <1>5 DEF AppendMemory, ReadLastHash
    <2> QED
        BY <1>0, <2>3, <2>4 DEF Counted
<1>6. ASSUME NEW c \in Calls, InsertRow(c)
      PROVE  Counted'
    <2> DEFINE x == [Idle EXCEPT !.pc = "remember", !.idem = call[c].idem]
    <2>1. call' = [call EXCEPT ![c] = x] /\ x.pc = "remember"
        BY <1>6 DEF InsertRow, Goto, Idle
    <2>2. c \notin Waiting /\ c \notin Limited
        BY <1>6 DEF InsertRow, Waiting, Limited
    <2> HIDE DEF x
    <2>3. /\ IsFiniteSet(Waiting)' /\ Cardinality(Waiting)' = Cardinality(Waiting)
          /\ IsFiniteSet(Limited)' /\ Cardinality(Limited)' = Cardinality(Limited)
        BY <2>1, <2>2, Recount
    <2>4. UNCHANGED <<begun, emitted, admitted>>
        BY <1>6 DEF InsertRow
    <2> QED
        BY <1>0, <2>3, <2>4 DEF Counted
<1>7. CASE Restart
    <2>1. Waiting' = {} /\ Limited' = {} /\ admitted' = {} /\ UNCHANGED <<begun, emitted>>
        BY <1>7 DEF Restart, Waiting, Limited, Idle
    <2>2. emitted <= begun
        BY <1>0 DEF Counted
    <2> QED
        BY <1>0, <2>1, <2>2, FS_EmptySet DEF Counted
<1>8. CASE UNCHANGED <<call, begun, emitted, admitted>>
    BY <1>8 DEF Counted, Waiting, Limited
<1>9. CASE \/ \E k \in Keys : CreateKey(k) \/ RevokeKey(k) \/ UpdateLastUsed(k)
           \/ \E ip \in Addrs : EvictBucket(ip)
           \/ \E i \in IdemKeys : EvictAnswer(i)
           \/ Tick
           \/ UNCHANGED vars
    BY <1>8, <1>9 DEF CreateKey, RevokeKey, UpdateLastUsed, EvictBucket, EvictAnswer, Tick,
                      vars, requestVars
<1> QED
    BY <1>1, <1>2, <1>3, <1>4, <1>5, <1>6, <1>7, <1>9 DEF Next, Handle

(* What a request carries: at the limiter, where it came from, and one     *)
(* that comes straight from a client counts for that address; between the  *)
(* statements of an append, the event.                                     *)
Carried ==
    \A c \in Calls :
        /\ call[c].pc = "limit" =>
              /\ call[c].remote \in Addrs /\ call[c].ip \in Addrs
              /\ call[c].remote \notin Trusted => call[c].ip = call[c].remote
        /\ call[c].pc = "insert" => call[c].event \in Events

LEMMA CarriedKept ==
    ASSUME TypeOK, Counted, Carried, [Next]_vars
    PROVE  Carried'
<1>1. ASSUME NEW c \in Calls, NEW k, NEW remote \in Addrs, NEW forwarded \in Addrs \cup {None},
             NEW idem, Authenticate(c, k, remote, forwarded, idem)
      PROVE  Carried'
    <2> DEFINE x == [Idle EXCEPT !.pc = "limit", !.remote = remote,
                                 !.ip = ClientIP(remote, forwarded), !.idem = idem]
    <2>1. call' = [call EXCEPT ![c] = x]
        BY <1>1 DEF Authenticate
    <2>2. x.pc = "limit" /\ x.remote = remote /\ x.ip = ClientIP(remote, forwarded)
        BY DEF Idle
    <2>3. ClientIP(remote, forwarded) \in Addrs
              /\ (remote \notin Trusted => ClientIP(remote, forwarded) = remote)
        BY DEF ClientIP
    <2> HIDE DEF x
    <2> QED
        BY <2>1, <2>2, <2>3 DEF Carried, TypeOK
<1>2. ASSUME NEW c \in Calls, NEW x, call' = [call EXCEPT ![c] = x], x.pc # "limit",
             x.pc = "insert" => x.event \in Events
      PROVE  Carried'
    BY <1>2 DEF Carried, TypeOK
<1>3. ASSUME NEW c \in Calls, Handle(c)
      PROVE  Carried'
    <2>1. ASSUME NEW pc \in {"lookup", "work", "remember"}, Goto(c, pc)
          PROVE  Carried'
        <3> DEFINE x == [Idle EXCEPT !.pc = pc, !.idem = call[c].idem]
        <3>1. call' = [call EXCEPT ![c] = x]
            BY <2>1 DEF Goto
        <3>2. x.pc # "limit" /\ x.pc # "insert"
            BY DEF Idle
        <3> QED
            BY <1>2, <3>1, <3>2
    <2>2. CASE Finish(c)
        <3>1. Idle.pc # "limit" /\ Idle.pc # "insert"
            BY DEF Idle
        <3>2. call' = [call EXCEPT ![c] = Idle]
            BY <2>2 DEF Finish
        <3> QED
            BY <1>2, <3>1, <3>2
    <2>3. CASE ReadLastHash(c)
        <3>0. PICK prev \in HashesRead :
                  call' = [call EXCEPT ![c] = [@ EXCEPT !.pc = "insert", !.event = emitted',
                                                        !.prev = prev]]
            BY <2>3 DEF ReadLastHash
        <3> DEFINE x == [call[c] EXCEPT !.pc = "insert", !.event = emitted', !.prev = prev]
        <3>1. call' = [call EXCEPT ![c] = x]
            BY <3>0
        <3>2. x.pc = "insert" /\ x.event = emitted'
            BY DEF TypeOK, Call
        <3>3. emitted' \in Events
            BY <2>3, Room DEF ReadLastHash
        <3> QED
            BY <1>2, <3>1, <3>2, <3>3
    <2> QED
        BY <1>3, <2>1, <2>2, <2>3 DEF Handle, Allow, Reject, Replay, Proceed, Remember,
                                      AppendMemory, InsertRow
<1>4. CASE Restart
    BY <1>4 DEF Restart, Carried, Idle
<1>5. CASE UNCHANGED call
    BY <1>5 DEF Carried
<1> QED
    BY <1>1, <1>3, <1>4, <1>5 DEF Next, CreateKey, RevokeKey, UpdateLastUsed, EvictBucket,
                                  EvictAnswer, Tick, vars, requestVars

LEMMA TypesKept ==
    ASSUME TypeOK, Counted, Carried, [Next]_vars
    PROVE  TypeOK'
<1>0. /\ RingTypeOK /\ backend \in {"memory", "sqlite"} /\ now \in 0..MaxTime
      /\ now \in Nat /\ MaxTime \in Nat
      /\ begun \in 0..MaxRequests /\ emitted \in 0..MaxRequests
      /\ MaxRequests \in Nat /\ Events = 1..MaxRequests
    BY RequestsAssumption DEF TypeOK
<1>1. ASSUME NEW c \in Calls, NEW k \in Keys \cup {None}, NEW remote \in Addrs,
             NEW forwarded \in Addrs \cup {None}, NEW idem \in IdemKeys \cup {None},
             Authenticate(c, k, remote, forwarded, idem)
      PROVE  TypeOK'
    <2> DEFINE x == [Idle EXCEPT !.pc = "limit", !.remote = remote,
                                 !.ip = ClientIP(remote, forwarded), !.idem = idem]
    <2>1. ClientIP(remote, forwarded) \in Addrs \cup {None}
        BY DEF ClientIP
    <2>2. x \in Call
        <3>1. Idle \in Call
            BY IdleIsCall
        <3>2. ASSUME NEW ip \in Addrs \cup {None}
              PROVE  [Idle EXCEPT !.pc = "limit", !.remote = remote, !.ip = ip, !.idem = idem]
                        \in Call
            BY <3>1 DEF Call
        <3> QED
            BY <2>1, <3>2
    <2> HIDE DEF x
    <2>3. call' = [call EXCEPT ![c] = x]
        BY <1>1 DEF Authenticate, x
    <2>4. call' \in [Calls -> Call]
        BY <2>2, <2>3 DEF TypeOK
    <2>5. begun' \in 0..MaxRequests /\ touching' \in SUBSET Keys
        BY <1>0, <1>1 DEF Authenticate, TypeOK
    <2>6. UNCHANGED <<ring, backend, now, emitted, key, bucket, cache, rows, admitted, answered,
                      disturbed>>
        BY <1>1 DEF Authenticate
    <2> QED
        BY <2>4, <2>5, <2>6, RingStays DEF TypeOK
<1>2. ASSUME NEW c \in Calls, Allow(c)
      PROVE  TypeOK'
    <2> DEFINE ip == call[c].ip
               v == [Found(ip) EXCEPT !.tokens = @ - 1]
    <2>1. call[c].pc = "limit" /\ ip \in Addrs /\ call[c].remote \in Addrs
        BY <1>2 DEF Allow, Carried
    <2>2. Found(ip) \in [tokens : 0..Limit, lastSeen : Nat] /\ Found(ip).tokens > 0
        BY <1>2, <2>1, FoundType DEF Allow
    <2>3. v \in [tokens : 0..Limit, lastSeen : Nat]
        BY <2>2, RequestsAssumption
    <2>4. bucket' = [bucket EXCEPT ![ip] = v]
        BY <1>2 DEF Allow
    <2>5. bucket' \in [Addrs -> [tokens : 0..Limit, lastSeen : Nat] \cup {None}]
        <3> HIDE DEF v
        <3> QED
            BY <2>3, <2>4 DEF TypeOK
    <2>6. admitted' \in SUBSET [nth : Events, at : Nat, remote : Addrs]
        <3> DEFINE new == [nth : {Cardinality(admitted) + 1}, at : {now},
                           remote : {call[c].remote} \ Trusted]
        <3>1. Cardinality(admitted) + 1 \in Events
            BY <2>1, Room
        <3>2. new \subseteq [nth : Events, at : Nat, remote : Addrs]
            BY <1>0, <2>1, <3>1
        <3>3. admitted' = admitted \cup new
            BY <1>2 DEF Allow
        <3> QED
            BY <3>2, <3>3 DEF TypeOK
    <2>7. call' \in [Calls -> Call]
        BY <1>2, GotoType DEF Allow
    <2>8. UNCHANGED <<ring, backend, now, begun, emitted, key, touching, cache, rows, answered,
                      disturbed>>
        BY <1>2 DEF Allow
    <2> QED
        BY <2>5, <2>6, <2>7, <2>8, RingStays DEF TypeOK
<1>3. ASSUME NEW c \in Calls, Reject(c)
      PROVE  TypeOK'
    <2>1. call[c].ip \in Addrs
        BY <1>3 DEF Reject, Carried
    <2>2. Found(call[c].ip) \in [tokens : 0..Limit, lastSeen : Nat]
        BY <2>1, FoundType
    <2>3. bucket' = [bucket EXCEPT ![call[c].ip] = Found(call[c].ip)]
              /\ call' = [call EXCEPT ![c] = Idle]
        BY <1>3 DEF Reject, Finish
    <2>4. UNCHANGED <<ring, backend, now, begun, emitted, key, touching, cache, rows, admitted,
                      answered, disturbed>>
        BY <1>3 DEF Reject
    <2>5. bucket' \in [Addrs -> [tokens : 0..Limit, lastSeen : Nat] \cup {None}]
        BY <2>2, <2>3 DEF TypeOK
    <2>6. call' \in [Calls -> Call]
        BY <2>3, IdleIsCall DEF TypeOK
    <2> QED
        BY <2>4, <2>5, <2>6, RingStays DEF TypeOK
<1>4. ASSUME NEW c \in Calls, Replay(c) \/ Proceed(c)
      PROVE  TypeOK'
    <2>1. call' \in [Calls -> Call]
        BY <1>4, GotoType, IdleIsCall DEF Replay, Proceed, Finish, TypeOK
    <2>2. UNCHANGED <<ring, backend, now, begun, emitted, key, touching, bucket, cache, rows,
                      admitted, answered, disturbed>>
        BY <1>4 DEF Replay, Proceed
    <2> QED
        BY <2>1, <2>2, RingStays DEF TypeOK
<1>5. ASSUME NEW c \in Calls, Remember(c)
      PROVE  TypeOK'
    <2>1. call' \in [Calls -> Call]
        BY <1>5, IdleIsCall DEF Remember, Finish, TypeOK
    <2>2. cache' \in [IdemKeys -> Nat \cup {None}] /\ answered' \in [IdemKeys -> Nat \cup {None}]
        BY <1>5 DEF Remember, TypeOK
    <2>3. UNCHANGED <<ring, backend, now, begun, emitted, key, touching, bucket, rows, admitted,
                      disturbed>>
        BY <1>5 DEF Remember
    <2> QED
        BY <2>1, <2>2, <2>3, RingStays DEF TypeOK
<1>6. ASSUME NEW c \in Calls, AppendMemory(c)
      PROVE  TypeOK'
    <2>1. emitted + 1 \in Events /\ emitted' = emitted + 1
        BY <1>6, Room DEF AppendMemory
    <2>2. RingTypeOK'
        BY <1>0, <1>6, <2>1, AppendTyped DEF AppendMemory
    <2>3. call' \in [Calls -> Call]
        BY <1>6, GotoType DEF AppendMemory
    <2>4. UNCHANGED <<backend, now, begun, key, touching, bucket, cache, rows, admitted,
                      answered, disturbed>>
        BY <1>6 DEF AppendMemory
    <2> QED
        BY <1>0, <2>1, <2>2, <2>3, <2>4 DEF TypeOK
<1>7. ASSUME NEW c \in Calls, ReadLastHash(c)
      PROVE  TypeOK'
    <2>0. PICK prev \in HashesRead :
              /\ call' = [call EXCEPT ![c] = [@ EXCEPT !.pc = "insert", !.event = emitted',
                                                       !.prev = prev]]
              /\ disturbed' = (disturbed \/ prev # LastHash
                                  \/ \E d \in Calls : call[d].pc = "insert")
        BY <1>7 DEF ReadLastHash
    <2> DEFINE x == [call[c] EXCEPT !.pc = "insert", !.event = emitted', !.prev = prev]
    <2>1. emitted + 1 \in Events /\ emitted' = emitted + 1
        BY <1>7, Room DEF ReadLastHash
    <2>2. x \in Call
        <3>1. call[c] \in Call
            BY DEF TypeOK
        <3>2. emitted' \in Events /\ prev \in Seq(Events)
            <4>1. LastHash \in Seq(Events)
                BY LastHashType
            <4>2. <<>> \in Seq(Events)
                OBVIOUS
            <4>3. prev = LastHash \/ prev = <<>>
                BY DEF HashesRead
            <4> QED
                BY <2>1, <4>1, <4>2, <4>3
        <3> QED
            BY <3>1, <3>2 DEF Call
    <2>3. call' = [call EXCEPT ![c] = x]
        BY <2>0
    <2>4. call' \in [Calls -> Call]
        <3> HIDE DEF x
        <3> QED
            BY <2>2, <2>3 DEF TypeOK
    <2>5. disturbed' \in BOOLEAN
        BY <2>0
    <2>6. UNCHANGED <<ring, backend, now, begun, key, touching, bucket, cache, rows, admitted,
                      answered>>
        BY <1>7 DEF ReadLastHash
    <2>7. UNCHANGED <<ring, backend, now, begun, key, touching, bucket, cache, rows, admitted,
                      answered>> /\ emitted' \in 0..MaxRequests
        BY <1>0, <2>1, <2>6
    <2> QED
        BY <2>4, <2>5, <2>7, RingStays DEF TypeOK
<1>8. ASSUME NEW c \in Calls, InsertRow(c)
      PROVE  TypeOK'
    <2> DEFINE row == [event |-> call[c].event, hash |-> Append(call[c].prev, call[c].event)]
    <2>1. call[c].event \in Events /\ call[c].prev \in Seq(Events)
        BY <1>8 DEF InsertRow, TypeOK, Call, Carried
    <2>2. row \in Row
        BY <2>1 DEF Row
    <2>3. rows' = Append(rows, row) \/ rows' = rows
        BY <1>8 DEF InsertRow
    <2>4. rows' \in Seq(Row)
        <3> HIDE DEF row
        <3>1. rows \in Seq(Row) /\ Append(rows, row) \in Seq(Row)
            BY <2>2 DEF TypeOK
        <3> QED
            BY <2>3, <3>1
    <2>5. call' \in [Calls -> Call]
        BY <1>8, GotoType DEF InsertRow
    <2>6. UNCHANGED <<ring, backend, now, begun, emitted, key, touching, bucket, cache,
                      admitted, answered, disturbed>>
        BY <1>8 DEF InsertRow
    <2> QED
        BY <2>4, <2>5, <2>6, RingStays DEF TypeOK
<1>9. ASSUME NEW k \in Keys, CreateKey(k) \/ RevokeKey(k) \/ UpdateLastUsed(k)
      PROVE  TypeOK'
    <2>1. key' \in [Keys -> {"none", "active", "revoked"}] /\ touching' \in SUBSET Keys
        BY <1>9 DEF CreateKey, RevokeKey, UpdateLastUsed, TypeOK
    <2>2. UNCHANGED <<ring, backend, now, begun, emitted, call, bucket, cache, rows, admitted,
                      answered, disturbed>>
        BY <1>9 DEF CreateKey, RevokeKey, UpdateLastUsed
    <2> QED
        BY <2>1, <2>2, RingStays DEF TypeOK
<1>10. ASSUME NEW ip \in Addrs, EvictBucket(ip)
       PROVE  TypeOK'
    <2>1. bucket' \in [Addrs -> [tokens : 0..Limit, lastSeen : Nat] \cup {None}]
        BY <1>10 DEF EvictBucket, TypeOK
    <2>2. UNCHANGED <<ring, backend, now, begun, emitted, call, key, touching, cache, rows,
                      admitted, answered, disturbed>>
        BY <1>10 DEF EvictBucket
    <2> QED
        BY <2>1, <2>2, RingStays DEF TypeOK
<1>11. ASSUME NEW i \in IdemKeys, EvictAnswer(i)
       PROVE  TypeOK'
    <2>1. cache' \in [IdemKeys -> Nat \cup {None}]
        BY <1>11 DEF EvictAnswer, TypeOK
    <2>2. UNCHANGED <<ring, backend, now, begun, emitted, call, key, touching, bucket, rows,
                      admitted, answered, disturbed>>
        BY <1>11 DEF EvictAnswer
    <2> QED
        BY <2>1, <2>2, RingStays DEF TypeOK
<1>12. CASE Tick
    <2>1. now' \in 0..MaxTime
        BY <1>0, <1>12 DEF Tick
    <2>2. UNCHANGED <<ring, backend, begun, emitted, call, key, touching, bucket, cache, rows,
                      admitted, answered, disturbed>>
        BY <1>12 DEF Tick
    <2> QED
        BY <2>1, <2>2, RingStays DEF TypeOK
<1>13. CASE Restart
    <2>1. /\ call' \in [Calls -> Call] /\ touching' \in SUBSET Keys
          /\ bucket' \in [Addrs -> [tokens : 0..Limit, lastSeen : Nat] \cup {None}]
          /\ cache' \in [IdemKeys -> Nat \cup {None}] /\ answered' \in [IdemKeys -> Nat \cup {None}]
          /\ admitted' \in SUBSET [nth : Events, at : Nat, remote : Addrs]
        BY <1>13, IdleIsCall DEF Restart
    <2>2. UNCHANGED <<ring, backend, now, begun, emitted, key, rows, disturbed>>
        BY <1>13 DEF Restart
    <2> QED
        BY <2>1, <2>2, RingStays DEF TypeOK
<1>14. CASE UNCHANGED vars
    BY <1>14, RingStays DEF TypeOK, vars, requestVars
<1> QED
    BY <1>1, <1>2, <1>3, <1>4, <1>5, <1>6, <1>7, <1>8, <1>9, <1>10, <1>11, <1>12, <1>13, <1>14
    DEF Next, Handle

IInv == TypeOK /\ Counted /\ Carried

LEMMA IInvInit == Init => IInv
<1> SUFFICES ASSUME Init PROVE IInv
    OBVIOUS
<1>1. TypeOK
    <2>1. RingTypeOK
        BY InitInv DEF Init, RingInv
    <2>2. call \in [Calls -> Call]
        BY IdleIsCall DEF Init
    <2>3. /\ 0 \in 0..MaxRequests /\ 0 \in 0..MaxTime
          /\ rows \in Seq(Row)
        BY RequestsAssumption DEF Init
    <2> QED
        BY <2>1, <2>2, <2>3 DEF Init, TypeOK
<1>2. Waiting = {} /\ Limited = {} /\ admitted = {} /\ emitted = 0 /\ begun = 0
    BY DEF Init, Waiting, Limited, Idle
<1>3. Counted
    BY <1>2, FS_EmptySet DEF Counted
<1>4. Carried
    BY DEF Init, Carried, Idle
<1> QED
    BY <1>1, <1>3, <1>4 DEF IInv

(* The types of the requests and of everything they go through.            *)
THEOREM RequestTypes == Spec => []IInv
<1>1. IInv /\ [Next]_vars => IInv'
    BY TypesKept, CountedKept, CarriedKept DEF IInv
<1> QED
    BY IInvInit, <1>1, PTL DEF Spec

(* Every request that is answered from memory appends an event of its own, *)
(* so what the audit log lists is a bounded log of them, whatever requests *)
(* are refused, replayed or under way.                                     *)
THEOREM AuditIsBoundedLog == Spec => ImplementsBoundedLog
<1>1. ASSUME IInv, [Next]_vars
      PROVE  [RingNext]_ring
    <2>1. ASSUME NEW c \in Calls, AppendMemory(c)
          PROVE  RingNext
        <3>1. emitted' \in Events /\ AppendEvent(emitted')
            BY <1>1, <2>1, Room DEF AppendMemory, IInv
        <3> QED
            BY <3>1 DEF RingNext
    <2>2. ASSUME NEW c \in Calls, Handle(c), ~AppendMemory(c)
          PROVE  UNCHANGED ring
        BY <2>2 DEF Handle, Allow, Reject, Replay, Proceed, Remember, ReadLastHash, InsertRow
    <2>3. CASE \/ \E k \in Keys : CreateKey(k) \/ RevokeKey(k) \/ UpdateLastUsed(k)
               \/ \E c \in Calls, k \in Keys \cup {None}, remote \in Addrs,
                     forwarded \in Addrs \cup {None}, idem \in IdemKeys \cup {None} :
                     Authenticate(c, k, remote, forwarded, idem)
               \/ \E ip \in Addrs : EvictBucket(ip)
               \/ \E i \in IdemKeys : EvictAnswer(i)
               \/ Tick \/ Restart
               \/ UNCHANGED vars
        BY <2>3 DEF CreateKey, RevokeKey, UpdateLastUsed, Authenticate, EvictBucket, EvictAnswer,
                    Tick, Restart, vars
    <2> QED
        BY <1>1, <2>1, <2>2, <2>3 DEF Next
<1>2. Init => RingInit
    BY DEF Init
<1>3. Spec => RingSpec
    BY <1>1, <1>2, RequestTypes, PTL DEF Spec, RingSpec
<1> QED
    BY <1>3, RingImplementsBoundedLog

-----------------------------------------------------------------------------
(* The hash chain.  While no append has been disturbed, at most one is     *)
(* between its two statements, and what it read is still the last hash.    *)

Inserting(c) == call[c].pc = "insert"

ChainInv ==
    ~disturbed =>
        /\ Verify
        /\ \A c \in Calls : Inserting(c) => call[c].prev = LastHash
        /\ \A c, d \in Calls : Inserting(c) /\ Inserting(d) => c = d

LEMMA ChainKept ==
    ASSUME IInv, ChainInv, [Next]_vars
    PROVE  ChainInv'
<1> SUFFICES ASSUME ~disturbed' PROVE ChainInv'
    BY DEF ChainInv
<1>0. TypeOK /\ rows \in Seq(Row) /\ call \in [Calls -> Call]
    BY DEF IInv, TypeOK
<1>1. ASSUME NEW c \in Calls, ReadLastHash(c)
      PROVE  ChainInv'
    <2>0. PICK prev \in HashesRead :
              /\ call' = [call EXCEPT ![c] = [@ EXCEPT !.pc = "insert", !.event = emitted',
                                                       !.prev = prev]]
              /\ disturbed' = (disturbed \/ prev # LastHash
                                  \/ \E d \in Calls : call[d].pc = "insert")
        BY <1>1 DEF ReadLastHash
    <2> DEFINE x == [call[c] EXCEPT !.pc = "insert", !.event = emitted', !.prev = prev]
    <2>1. call' = [call EXCEPT ![c] = x] /\ UNCHANGED rows
        BY <1>1, <2>0 DEF ReadLastHash
    <2>2. x.pc = "insert" /\ x.prev = LastHash
        <3>1. prev = LastHash
            BY <2>0
        <3> QED
            BY <1>0, <3>1 DEF Call
    <2>3. ~disturbed /\ \A d \in Calls : ~Inserting(d)
        BY <2>0 DEF Inserting
    <2> HIDE DEF x
    <2>4. \A d \in Calls : Inserting(d)' => d = c /\ call'[d].prev = LastHash
        BY <1>0, <2>1, <2>2, <2>3 DEF Inserting
    <2>5. Verify' /\ LastHash' = LastHash
        BY <2>1, <2>3 DEF ChainInv, Verify, LastHash
    <2> QED
        BY <2>4, <2>5 DEF ChainInv
<1>2. ASSUME NEW c \in Calls, InsertRow(c)
      PROVE  ChainInv'
    <2> DEFINE row == [event |-> call[c].event, hash |-> Append(call[c].prev, call[c].event)]
               x == [Idle EXCEPT !.pc = "remember", !.idem = call[c].idem]
    <2>1. ~disturbed /\ Inserting(c)
        BY <1>2 DEF InsertRow, Inserting
    <2>2. rows' = Append(rows, row) \/ rows' = rows
        BY <1>2 DEF InsertRow
    <2>3. call' = [call EXCEPT ![c] = x]
        BY <1>2 DEF InsertRow, Goto
    <2>4. x.pc = "remember"
        BY DEF Idle
    <2>5. \A d \in Calls : ~Inserting(d)'
        <3> HIDE DEF x
        <3> QED
            BY <1>0, <2>1, <2>3, <2>4 DEF ChainInv, Inserting
    <2>6. row.event = call[c].event /\ row.hash = Append(LastHash, call[c].event)
        BY <2>1 DEF ChainInv
    <2> HIDE DEF row
    <2>7. ASSUME rows' = Append(rows, row) PROVE Verify'
        <3>1. Len(rows) \in Nat /\ Len(rows') = Len(rows) + 1
                  /\ rows'[Len(rows) + 1] = row
                  /\ \A n \in 1..Len(rows) : rows'[n] = rows[n]
            BY <1>0, <2>7
        <3>2. LastHash = IF Len(rows) + 1 = 1 THEN <<>> ELSE rows'[Len(rows)].hash
            BY <1>0, <3>1 DEF LastHash
        <3>3. ASSUME NEW n \in 1..Len(rows)
              PROVE  rows'[n].hash
                        = Append(IF n = 1 THEN <<>> ELSE rows'[n - 1].hash, rows'[n].event)
            <4>1. rows[n].hash = Append(IF n = 1 THEN <<>> ELSE rows[n - 1].hash, rows[n].event)
                BY <2>1 DEF ChainInv, Verify
            <4>2. rows'[n] = rows[n] /\ (n # 1 => rows'[n - 1] = rows[n - 1])
                BY <3>1
            <4> QED
                BY <4>1, <4>2
        <3> SUFFICES ASSUME NEW n \in 1..Len(rows) + 1
                     PROVE  rows'[n].hash
                        = Append(IF n = 1 THEN <<>> ELSE rows'[n - 1].hash, rows'[n].event)
            BY <3>1 DEF Verify
        <3>4. CASE n \in 1..Len(rows)
            BY <3>3, <3>4
        <3>5. CASE n = Len(rows) + 1
            <4>1. n - 1 = Len(rows)
                BY <3>1, <3>5
            <4>2. rows'[n].hash = Append(LastHash, rows'[n].event)
                BY <2>6, <3>1, <3>5
            <4> QED
                BY <3>2, <3>5, <4>1, <4>2
        <3> QED
            BY <3>1, <3>4, <3>5
    <2>8. ASSUME rows' = rows PROVE Verify'
        BY <2>1, <2>8 DEF ChainInv, Verify
    <2>9. Verify'
        BY <2>2, <2>7, <2>8
    <2> QED
        BY <2>5, <2>9 DEF ChainInv
<1>3. ASSUME NEW c \in Calls, NEW x, call' = [call EXCEPT ![c] = x], x.pc # "insert",
             UNCHANGED <<rows, disturbed>>
      PROVE  ChainInv'
    <2>1. ~disturbed /\ Verify' /\ LastHash' = LastHash
        BY <1>3 DEF ChainInv, Verify, LastHash
    <2>2. \A d \in Calls : Inserting(d)' => Inserting(d) /\ call'[d] = call[d]
        BY <1>0, <1>3 DEF Inserting
    <2> QED
        BY <2>1, <2>2 DEF ChainInv
<1>4. ASSUME NEW c \in Calls, NEW pc \in {"lookup", "work", "remember"}, Goto(c, pc),
             UNCHANGED <<rows, disturbed>>
      PROVE  ChainInv'
    <2> DEFINE x == [Idle EXCEPT !.pc = pc, !.idem = call[c].idem]
    <2>1. call' = [call EXCEPT ![c] = x]
        BY <1>4 DEF Goto
    <2>2. x.pc # "insert"
        BY DEF Idle
    <2> HIDE DEF x
    <2> QED
        BY <1>3, <1>4, <2>1, <2>2
<1>5. ASSUME NEW c \in Calls, Finish(c), UNCHANGED <<rows, disturbed>>
      PROVE  ChainInv'
    <2>1. Idle.pc # "insert"
        BY DEF Idle
    <2>2. call' = [call EXCEPT ![c] = Idle]
        BY <1>5 DEF Finish
    <2> QED
        BY <1>3, <1>5, <2>1, <2>2
<1>6. ASSUME NEW c \in Calls, NEW k, NEW remote, NEW forwarded, NEW idem,
             Authenticate(c, k, remote, forwarded, idem)
      PROVE  ChainInv'
    <2> DEFINE x == [Idle EXCEPT !.pc = "limit", !.remote = remote,
                                 !.ip = ClientIP(remote, forwarded), !.idem = idem]
    <2>1. call' = [call EXCEPT ![c] = x] /\ UNCHANGED <<rows, disturbed>>
        BY <1>6 DEF Authenticate
    <2>2. x.pc # "insert"
        BY DEF Idle
    <2> HIDE DEF x
    <2> QED
        BY <1>3, <2>1, <2>2
<1>7. CASE Restart
    <2>1. ~disturbed /\ \A c \in Calls : ~Inserting(c)'
        BY <1>7 DEF Restart, Inserting, Idle
    <2>2. UNCHANGED rows
        BY <1>7 DEF Restart
    <2> QED
        BY <2>1, <2>2 DEF ChainInv, Verify
<1>8. CASE UNCHANGED <<call, rows, disturbed>>
    BY <1>8 DEF ChainInv, Verify, Inserting, LastHash
<1>9. ASSUME NEW c \in Calls, Handle(c)
      PROVE  ChainInv'
    BY <1>1, <1>2, <1>4, <1>5, <1>9 DEF Handle, Allow, Reject, Replay, Proceed, Remember,
                                        AppendMemory
<1> QED
    BY <1>6, <1>7, <1>8, <1>9 DEF Next, CreateKey, RevokeKey, UpdateLastUsed, EvictBucket,
                                  EvictAnswer, Tick, vars, requestVars

(* The chain of sqlite's audit log verifies as long as no two appends have *)
(* overlapped and none has misread the last hash, whatever restarts fall   *)
(* between an append's two statements and whatever rows are lost.          *)
THEOREM SerialChain == Spec => []SerialChainVerifies
<1>1. Init => ChainInv
    BY DEF Init, ChainInv, Verify, Inserting, Idle
<1>2. IInv /\ ChainInv /\ [Next]_vars => ChainInv'
    BY ChainKept
<1>3. ChainInv => SerialChainVerifies
    BY DEF ChainInv, SerialChainVerifies
<1> QED
    BY <1>1, <1>2, <1>3, RequestTypes, PTL DEF Spec

-----------------------------------------------------------------------------
(* The cached answers.                                                     *)

CacheInv ==
    \A i \in IdemKeys :
        answered[i] # None => cache[i] = answered[i] \/ now - answered[i] > TTL

LEMMA CacheKept ==
    ASSUME IInv, CacheInv, [Next]_vars
    PROVE  CacheInv'
<1>0. now \in Nat /\ TTL \in Nat /\ None \notin IdemKeys
          /\ cache \in [IdemKeys -> Nat \cup {None}] /\ answered \in [IdemKeys -> Nat \cup {None}]
    BY RequestsAssumption DEF IInv, TypeOK
<1>1. ASSUME NEW c \in Calls, Remember(c)
      PROVE  CacheInv'
    BY <1>1 DEF Remember, CacheInv
<1>2. ASSUME NEW i \in IdemKeys, EvictAnswer(i)
      PROVE  CacheInv'
    BY <1>0, <1>2 DEF EvictAnswer, CacheInv
<1>3. CASE Tick
    <2>1. now' = now + 1 /\ cache' = cache /\ answered' = answered
        BY <1>3 DEF Tick
    <2> SUFFICES ASSUME NEW i \in IdemKeys, answered'[i] # None
                 PROVE  cache'[i] = answered'[i] \/ now' - answered'[i] > TTL
        BY DEF CacheInv
    <2>2. answered[i] \in Nat
        BY <1>0, <2>1
    <2>3. cache[i] = answered[i] \/ now - answered[i] > TTL
        BY <2>1 DEF CacheInv
    <2> QED
        BY <1>0, <2>1, <2>2, <2>3
<1>4. CASE Restart
    BY <1>4 DEF Restart, CacheInv
<1>5. CASE UNCHANGED <<now, cache, answered>>
    BY <1>5 DEF CacheInv
<1>6. ASSUME NEW c \in Calls, Handle(c), ~Remember(c)
      PROVE  UNCHANGED <<now, cache, answered>>
    BY <1>6 DEF Handle, Allow, Reject, Replay, Proceed, AppendMemory, ReadLastHash, InsertRow
<1>7. CASE \/ \E k \in Keys : CreateKey(k) \/ RevokeKey(k) \/ UpdateLastUsed(k)
           \/ \E c \in Calls, k \in Keys \cup {None}, remote \in Addrs,
                 forwarded \in Addrs \cup {None}, idem \in IdemKeys \cup {None} :
                 Authenticate(c, k, remote, forwarded, idem)
           \/ \E ip \in Addrs : EvictBucket(ip)
           \/ UNCHANGED vars
    BY <1>5, <1>7 DEF CreateKey, RevokeKey, UpdateLastUsed, Authenticate, EvictBucket,
                      vars, requestVars
<1> QED
    BY <1>1, <1>2, <1>3, <1>4, <1>5, <1>6, <1>7 DEF Next

(* A request that is repeated after its answer, in time, is not executed   *)
(* again, whatever is evicted meanwhile.                                   *)
THEOREM RetriesAreReplayed == Spec => RetryNotExecuted
<1> DEFINE A == \A c \in Calls :
                   call[c].pc = "lookup" /\ call'[c].pc = "work" /\ call[c].idem \in IdemKeys =>
                      LET last == answered[call[c].idem] IN last # None => now - last > TTL
<1>1. ASSUME IInv, CacheInv, [Next]_vars, ~UNCHANGED vars
      PROVE  A
    <2> SUFFICES ASSUME NEW c \in Calls, call[c].pc = "lookup", call'[c].pc = "work",
                        call[c].idem \in IdemKeys, answered[call[c].idem] # None
                 PROVE  now - answered[call[c].idem] > TTL
        OBVIOUS
    <2>1. call \in [Calls -> Call]
        BY <1>1 DEF IInv, TypeOK
    <2>2. ASSUME NEW d \in Calls, NEW x, call' = [call EXCEPT ![d] = x], x.pc # "work"
          PROVE  FALSE
        BY <2>1, <2>2
    <2>3. Proceed(c)
        <3>1. ASSUME NEW d \in Calls, NEW pc \in {"lookup", "work", "remember"}, Goto(d, pc)
              PROVE  d = c /\ pc = "work"
            <4> DEFINE x == [Idle EXCEPT !.pc = pc, !.idem = call[d].idem]
            <4>1. call' = [call EXCEPT ![d] = x]
                BY <3>1 DEF Goto
            <4>2. x.pc = pc
                BY DEF Idle
            <4> HIDE DEF x
            <4> QED
                BY <2>1, <4>1, <4>2
        <3>2. ASSUME NEW d \in Calls PROVE ~Finish(d)
            <4>1. Idle.pc # "work"
                BY DEF Idle
            <4> QED
                BY <2>2, <4>1 DEF Finish
        <3>3. ASSUME NEW d \in Calls PROVE ~ReadLastHash(d)
            <4> SUFFICES ASSUME ReadLastHash(d) PROVE FALSE
                OBVIOUS
            <4> DEFINE x == [call[d] EXCEPT !.pc = "insert", !.event = emitted', !.prev = LastHash]
            <4>1. call' = [call EXCEPT ![d] = x]
                BY DEF ReadLastHash
            <4>2. x.pc = "insert"
                BY <2>1 DEF Call
            <4> HIDE DEF x
            <4> QED
                BY <2>2, <4>1, <4>2
        <3>4. ASSUME NEW d \in Calls, NEW k, NEW remote, NEW forwarded, NEW idem
              PROVE  ~Authenticate(d, k, remote, forwarded, idem)
            <4> SUFFICES ASSUME Authenticate(d, k, remote, forwarded, idem) PROVE FALSE
                OBVIOUS
            <4> DEFINE x == [Idle EXCEPT !.pc = "limit", !.remote = remote,
                                         !.ip = ClientIP(remote, forwarded), !.idem = idem]
            <4>1. call' = [call EXCEPT ![d] = x]
                BY DEF Authenticate
            <4>2. x.pc = "limit"
                BY DEF Idle
            <4> HIDE DEF x
            <4> QED
                BY <2>2, <4>1, <4>2
        <3>5. ~Restart
            BY DEF Restart, Idle
        <3>6. call' # call
            OBVIOUS
        <3>7. ASSUME NEW d \in Calls, Handle(d)
              PROVE  Proceed(c)
            BY <3>1, <3>2, <3>3, <3>7 DEF Handle, Allow, Reject, Replay, Proceed, Remember,
                                          AppendMemory, InsertRow
        <3> QED
            BY <1>1, <3>4, <3>5, <3>6, <3>7 DEF Next, CreateKey, RevokeKey, UpdateLastUsed,
                                                EvictBucket, EvictAnswer, Tick
    <2>4. ~Cached(call[c].idem) /\ call[c].idem # None
        BY <2>3, RequestsAssumption DEF Proceed
    <2>5. cache[call[c].idem] = answered[call[c].idem] \/ now - answered[call[c].idem] > TTL
        BY <1>1 DEF CacheInv
    <2>6. answered[call[c].idem] \in Nat /\ now \in Nat /\ TTL \in Nat
        BY <1>1, RequestsAssumption DEF IInv, TypeOK
    <2> QED
        BY <2>4, <2>5, <2>6 DEF Cached
<1>2. Init => CacheInv
    BY DEF Init, CacheInv
<1>3. IInv /\ CacheInv /\ [Next]_vars => CacheInv'
    BY CacheKept
<1>4. IInv /\ CacheInv /\ [Next]_vars => [A]_vars
    BY <1>1
<1> QED
    BY <1>2, <1>3, <1>4, RequestTypes, PTL DEF Spec, RetryNotExecuted

(* A revoked key stays revoked, whatever a request that came in time       *)
(* writes about the key later.                                             *)
THEOREM RevocationIsFinal == Spec => RevokedForGood
<1> DEFINE A == \A k \in Keys : key[k] = "revoked" => key'[k] = "revoked"
<1>1. ASSUME IInv, [Next]_vars
      PROVE  A
    <2>1. key \in [Keys -> {"none", "active", "revoked"}]
        BY <1>1 DEF IInv, TypeOK
    <2>2. ASSUME NEW k \in Keys, CreateKey(k) \/ RevokeKey(k)
          PROVE  A
        BY <2>1, <2>2 DEF CreateKey, RevokeKey
    <2>3. CASE UNCHANGED key
        BY <2>3
    <2>4. ASSUME NEW c \in Calls, Handle(c)
          PROVE  UNCHANGED key
        BY <2>4 DEF Handle, Allow, Reject, Replay, Proceed, Remember, AppendMemory, ReadLastHash,
                    InsertRow
    <2> HIDE DEF A
    <2> QED
        BY <1>1, <2>2, <2>3, <2>4 DEF Next, UpdateLastUsed, Authenticate, EvictBucket,
                                      EvictAnswer, Tick, Restart, vars, requestVars
<1>2. IInv /\ [Next]_vars => [A]_vars
    BY <1>1
<1> QED
    BY <1>2, RequestTypes, PTL DEF Spec, RevokedForGood

-----------------------------------------------------------------------------
(* The rate limiter.  First what the proof needs of whole division.        *)

LEMMA Quotient ==
    ASSUME NEW a \in Nat, NEW r \in Nat \ {0}
    PROVE  /\ a \div r \in Nat
           /\ (a \div r) * r <= a
           /\ a < (a \div r) * r + r
OBVIOUS

LEMMA QuotientAtLeast ==
    ASSUME NEW a \in Nat, NEW r \in Nat \ {0}, NEW q \in Nat, q * r <= a
    PROVE  q <= a \div r
<1> DEFINE p == a \div r
<1>1. p \in Nat /\ a < p * r + r
    BY Quotient
<1> HIDE DEF p
<1>2. SUFFICES ASSUME p + 1 <= q PROVE FALSE
    BY <1>1 DEF p
<1>3. (p + 1) * r <= q * r
    BY <1>1, <1>2
<1>4. (p + 1) * r = p * r + r
    BY <1>1
<1>5. p * r \in Nat /\ q * r \in Nat
    BY <1>1
<1> QED
    BY <1>1, <1>3, <1>4, <1>5

LEMMA QuotientGrows ==
    ASSUME NEW a \in Nat, NEW b \in Nat, NEW r \in Nat \ {0}, a <= b
    PROVE  a \div r <= b \div r
<1> DEFINE p == a \div r
<1>1. p \in Nat /\ p * r <= a /\ p * r \in Nat
    BY Quotient
<1> HIDE DEF p
<1>2. p * r <= b
    BY <1>1
<1> QED
    BY <1>1, <1>2, QuotientAtLeast DEF p

LEMMA QuotientSum ==
    ASSUME NEW a \in Nat, NEW b \in Nat, NEW r \in Nat \ {0}
    PROVE  a \div r + b \div r <= (a + b) \div r
<1> DEFINE p == a \div r
           q == b \div r
<1>1. p \in Nat /\ p * r <= a /\ q \in Nat /\ q * r <= b /\ p * r \in Nat /\ q * r \in Nat
    BY Quotient
<1> HIDE DEF p, q
<1>2. (p + q) * r = p * r + q * r
    BY <1>1
<1>3. (p + q) * r <= a + b
    BY <1>1, <1>2
<1> QED
    BY <1>1, <1>3, QuotientAtLeast DEF p, q

(* The requests of an address let through since a time.                    *)
Since(a, from) == {r \in admitted : r.remote = a /\ r.at >= from}

Passed(a, from) == Cardinality(Since(a, from))

(* A bucket b agrees with what was let through of an address: whatever the *)
(* time the requests are counted from, they and the tokens still to be had *)
(* are no more than a full bucket and what came back until b.lastSeen.     *)
Agrees(a, b) ==
    /\ b.lastSeen <= now
    /\ \A from \in 0..b.lastSeen :
          Passed(a, from) + b.tokens <= Limit + (b.lastSeen - from) \div Refill
    /\ \A r \in admitted : r.remote = a => r.at < b.lastSeen + Refill

(* After a refill a token at least has been taken.                         *)
Taken(a, b) == \A from \in b.lastSeen + 1..now : Passed(a, from) + b.tokens <= Limit - 1

(* An address without a bucket has let so little through that a full one   *)
(* is no more than its due.                                                *)
Rested(a) == \A from \in 0..now : Passed(a, from) <= (now - from) \div Refill

BucketInv(a) ==
    /\ bucket[a] = None => Rested(a)
    /\ bucket[a] # None => Agrees(a, bucket[a]) /\ Taken(a, bucket[a]) /\ bucket[a].tokens < Limit

RateInv ==
    /\ \A r \in admitted : r.at <= now /\ r.remote \notin Trusted
    /\ \A a \in Addrs \ Trusted : BucketInv(a)

LEMMA PassedType ==
    ASSUME IInv, NEW a, NEW from \in Nat
    PROVE  /\ IsFiniteSet(Since(a, from)) /\ Passed(a, from) \in Nat
           /\ (\A r \in admitted : r.remote = a => r.at < from) => Passed(a, from) = 0
<1>1. IsFiniteSet(Since(a, from))
    BY FS_Subset DEF IInv, Counted, Since
<1>2. ASSUME \A r \in admitted : r.remote = a => r.at < from
      PROVE  Since(a, from) = {}
    BY <1>2 DEF Since, IInv, TypeOK
<1> QED
    BY <1>1, <1>2, FS_CardinalityType, FS_EmptySet DEF Passed

(* What a request finds is a bucket that agrees, refilled to the tick.     *)
LEMMA FoundAgrees ==
    ASSUME IInv, RateInv, NEW a \in Addrs \ Trusted
    PROVE  /\ Agrees(a, Found(a)) /\ Taken(a, Found(a)) /\ now < Found(a).lastSeen + Refill
           /\ Found(a) # bucket[a] => Found(a).tokens > 0
<1>0. now \in Nat /\ Limit \in Nat \ {0} /\ Refill \in Nat \ {0}
          /\ admitted \in SUBSET [nth : Events, at : Nat, remote : Addrs]
    BY RequestsAssumption DEF IInv, TypeOK
<1>1. \A r \in admitted : r.at \in Nat /\ r.at <= now
    BY <1>0 DEF RateInv
<1>2. BucketInv(a)
    BY DEF RateInv
<1>3. CASE bucket[a] = None
    <2>1. Found(a) = [tokens |-> Limit, lastSeen |-> now]
        BY <1>3 DEF Found
    <2>2. Found(a).tokens = Limit /\ Found(a).lastSeen = now
        BY <2>1
    <2>3. ASSUME NEW from \in 0..now
          PROVE  Passed(a, from) + Limit <= Limit + (now - from) \div Refill
        <3>1. Passed(a, from) <= (now - from) \div Refill
            BY <1>2, <1>3 DEF BucketInv, Rested
        <3>2. Passed(a, from) \in Nat /\ (now - from) \div Refill \in Nat
            BY <1>0, PassedType, Quotient
        <3> QED
            BY <1>0, <3>1, <3>2
    <2>4. \A r \in admitted : r.at < now + Refill
        BY <1>0, <1>1
    <2>5. Agrees(a, Found(a))
        BY <1>0, <2>2, <2>3, <2>4 DEF Agrees
    <2>6. Taken(a, Found(a))
        BY <1>0, <2>2 DEF Taken
    <2> QED
        BY <1>0, <2>2, <2>5, <2>6
<1>4. CASE bucket[a] # None
    <2> DEFINE b == bucket[a]
               seen == b.lastSeen
               t == b.tokens
               k == (now - seen) \div Refill
    <2>1. Agrees(a, b) /\ Taken(a, b)
        BY <1>2, <1>4 DEF BucketInv
    <2>2. b \in [tokens : 0..Limit, lastSeen : Nat]
        BY <1>4 DEF IInv, TypeOK
    <2>3. seen \in Nat /\ seen <= now /\ t \in 0..Limit
        BY <2>1, <2>2 DEF Agrees
    <2>4. now - seen \in Nat
        BY <1>0, <2>3
    <2>5. k \in Nat /\ k * Refill <= now - seen /\ now - seen < k * Refill + Refill
        BY <1>0, <2>4, Quotient
    <2>6. Found(a) = IF k > 0
                     THEN [tokens |-> IF t + k > Limit THEN Limit ELSE t + k, lastSeen |-> now]
                     ELSE b
        BY <1>4 DEF Found, Refilled
    <2> HIDE DEF k
    <2>7. CASE k = 0
        <3>1. Found(a) = b
            BY <2>6, <2>7
        <3>2. k * Refill + Refill = Refill
            BY <1>0, <2>7
        <3>3. now - seen < Refill
            BY <2>5, <3>2
        <3>4. now < seen + Refill
            BY <1>0, <2>3, <3>3
        <3> QED
            BY <2>1, <3>1, <3>4
    <2>8. CASE k > 0
        <3> DEFINE u == IF t + k > Limit THEN Limit ELSE t + k
        <3>1. Found(a).tokens = u /\ Found(a).lastSeen = now
            BY <2>6, <2>8
        <3>2. u \in Nat /\ u > 0 /\ u <= Limit /\ u <= t + k
            BY <1>0, <2>3, <2>5, <2>8
        <3> HIDE DEF u
        <3>3. Refill <= now - seen
            <4>1. Refill <= k * Refill
                BY <1>0, <2>5, <2>8
            <4>2. k * Refill \in Nat
                BY <1>0, <2>5
            <4> QED
                BY <1>0, <2>4, <2>5, <4>1, <4>2
        <3>4. \A r \in admitted : r.remote = a => r.at < seen + Refill
            BY <2>1 DEF Agrees
        <3>5. ASSUME NEW from \in 0..now
              PROVE  Passed(a, from) + u <= Limit + (now - from) \div Refill
            <4>1. Passed(a, from) \in Nat /\ (now - from) \div Refill \in Nat
                BY <1>0, PassedType, Quotient
            <4>2. CASE from <= seen
                <5> DEFINE d == (seen - from) \div Refill
                <5>1. seen - from \in Nat
                    BY <2>3, <4>2
                <5>2. d \in Nat
                    BY <1>0, <5>1, Quotient
                <5>3. Passed(a, from) + t <= Limit + d
                    BY <2>1, <2>3, <4>2 DEF Agrees
                <5>4. d + k <= ((seen - from) + (now - seen)) \div Refill
                    BY <1>0, <2>4, <5>1, QuotientSum DEF k
                <5>5. (seen - from) + (now - seen) = now - from
                    BY <1>0, <2>3
                <5>6. d + k <= (now - from) \div Refill
                    BY <5>4, <5>5
                <5> HIDE DEF d
                <5> QED
                    BY <1>0, <2>3, <2>5, <3>2, <4>1, <5>2, <5>3, <5>6
            <4>3. CASE from > seen /\ from < seen + Refill
                <5>1. Passed(a, from) + t <= Limit - 1
                    BY <1>0, <2>1, <2>3, <4>3 DEF Taken
                <5>2. k - 1 \in Nat /\ (k - 1) * Refill = k * Refill - Refill
                    BY <1>0, <2>5, <2>8
                <5>3. now - from \in Nat /\ (k - 1) * Refill <= now - from
                    <6>1. k * Refill \in Nat
                        BY <1>0, <2>5
                    <6> QED
                        BY <1>0, <2>3, <2>5, <4>3, <5>2, <6>1
                <5>4. k - 1 <= (now - from) \div Refill
                    BY <1>0, <5>2, <5>3, QuotientAtLeast
                <5> QED
                    BY <1>0, <2>3, <2>5, <3>2, <4>1, <5>1, <5>4
            <4>4. CASE from >= seen + Refill
                <5>1. \A r \in admitted : r.remote = a => r.at < from
                    BY <1>0, <1>1, <2>3, <3>4, <4>4
                <5>2. Passed(a, from) = 0
                    BY <1>0, <5>1, PassedType
                <5> QED
                    BY <1>0, <3>2, <4>1, <5>2
            <4> QED
                BY <1>0, <2>3, <4>2, <4>3, <4>4
        <3>6. \A r \in admitted : r.at < now + Refill
            BY <1>0, <1>1
        <3>7. Agrees(a, Found(a))
            BY <1>0, <3>1, <3>5, <3>6 DEF Agrees
        <3>8. Taken(a, Found(a))
            BY <1>0, <3>1 DEF Taken
        <3> QED
            BY <1>0, <3>1, <3>2, <3>7, <3>8
    <2> QED
        BY <2>5, <2>7, <2>8
<1> QED
    BY <1>3, <1>4

LEMMA AllowKeeps ==
    ASSUME IInv, RateInv, NEW c \in Calls, Allow(c), NEW a \in Addrs \ Trusted, call[c].ip = a
    PROVE  BucketInv(a)'
<1> DEFINE v == [Found(a) EXCEPT !.tokens = @ - 1]
           r == [nth |-> Cardinality(admitted) + 1, at |-> now, remote |-> call[c].remote]
<1>0. /\ now \in 0..MaxTime /\ MaxTime \in Nat
      /\ Limit \in Nat \ {0} /\ Refill \in Nat \ {0}
    BY RequestsAssumption DEF IInv, TypeOK
<1>1. Found(a) \in [tokens : 0..Limit, lastSeen : Nat] /\ Found(a).tokens > 0
    BY FoundType DEF Allow, IInv
<1>2. /\ v \in [tokens : 0..Limit, lastSeen : Nat]
      /\ v.tokens = Found(a).tokens - 1 /\ v.lastSeen = Found(a).lastSeen
      /\ v.tokens \in Int /\ v.lastSeen \in Nat /\ v.tokens < Limit
    BY <1>0, <1>1
<1>3. bucket' = [bucket EXCEPT ![a] = v] /\ now' = now
    BY DEF Allow
<1> HIDE DEF v
<1>4. bucket'[a] = v /\ v # None
    <2>1. bucket \in [Addrs -> [tokens : 0..Limit, lastSeen : Nat] \cup {None}]
        BY DEF IInv, TypeOK
    <2>2. bucket'[a] = v
        BY <1>3, <2>1
    <2>3. v \in [tokens : 0..Limit, lastSeen : 0..MaxTime]
        <3>1. v.lastSeen \in 0..MaxTime /\ v.tokens \in 0..Limit
            BY <1>0, <1>2, FoundAgrees DEF Agrees
        <3> QED
            BY <1>2, <3>1
    <2> QED
        BY <2>2, <2>3, RequestsAssumption
<1>5. admitted' \subseteq admitted \cup {r} /\ r.at = now
    <2>1. admitted' = admitted \cup [nth : {Cardinality(admitted) + 1}, at : {now},
                                      remote : {call[c].remote} \ Trusted]
        BY DEF Allow
    <2>2. \A y \in [nth : {Cardinality(admitted) + 1}, at : {now},
                    remote : {call[c].remote} \ Trusted] : y = r
        OBVIOUS
    <2> QED
        BY <2>1, <2>2
<1> HIDE DEF r
<1>6. ASSUME NEW from \in Nat
      PROVE  Passed(a, from) \in Nat /\ Passed(a, from)' \in Nat
                 /\ Passed(a, from)' <= Passed(a, from) + 1
    <2>1. IsFiniteSet(Since(a, from)) /\ Passed(a, from) \in Nat
        BY PassedType
    <2>2. Since(a, from)' \subseteq Since(a, from) \cup {r}
        BY <1>5 DEF Since
    <2>3. IsFiniteSet(Since(a, from) \cup {r})
              /\ Cardinality(Since(a, from) \cup {r}) <= Passed(a, from) + 1
              /\ Cardinality(Since(a, from) \cup {r}) \in Nat
        <3>1. /\ IsFiniteSet(Since(a, from) \cup {r})
              /\ Cardinality(Since(a, from) \cup {r})
                    = IF r \in Since(a, from) THEN Passed(a, from) ELSE Passed(a, from) + 1
            BY <2>1, FS_AddElement DEF Passed
        <3> QED
            BY <2>1, <3>1
    <2>4. IsFiniteSet(Since(a, from)')
              /\ Cardinality(Since(a, from)') <= Cardinality(Since(a, from) \cup {r})
        BY <2>2, <2>3, FS_Subset
    <2>5. Cardinality(Since(a, from)') \in Nat
        BY <2>4, FS_CardinalityType
    <2> QED
        BY <2>1, <2>3, <2>4, <2>5 DEF Passed
<1>7. Agrees(a, Found(a)) /\ Taken(a, Found(a)) /\ now < Found(a).lastSeen + Refill
    BY FoundAgrees
<1>8. Agrees(a, bucket[a])'
    <2>1. v.lastSeen <= now
        BY <1>2, <1>7 DEF Agrees
    <2>2. ASSUME NEW from \in 0..v.lastSeen
          PROVE  Passed(a, from)' + v.tokens <= Limit + (v.lastSeen - from) \div Refill
        <3>1. Passed(a, from) + Found(a).tokens <= Limit + (v.lastSeen - from) \div Refill
            BY <1>2, <1>7 DEF Agrees
        <3>2. (v.lastSeen - from) \div Refill \in Nat
            BY <1>0, <1>2, Quotient
        <3>3. Found(a).tokens \in Nat
            BY <1>0, <1>1
        <3> QED
            BY <1>0, <1>2, <1>6, <3>1, <3>2, <3>3
    <2>3. \A s \in admitted' : s.remote = a => s.at < v.lastSeen + Refill
        BY <1>2, <1>5, <1>7 DEF Agrees
    <2> QED
        BY <1>3, <1>4, <2>1, <2>2, <2>3 DEF Agrees
<1>9. Taken(a, bucket[a])'
    <2>1. ASSUME NEW from \in v.lastSeen + 1..now
          PROVE  Passed(a, from)' + v.tokens <= Limit - 1
        <3>1. from \in Nat
            BY <1>0, <1>2
        <3>2. Passed(a, from) + Found(a).tokens <= Limit - 1
            BY <1>2, <1>7 DEF Taken
        <3>3. Found(a).tokens \in Nat
            BY <1>0, <1>1
        <3> QED
            BY <1>0, <1>2, <1>6, <3>1, <3>2, <3>3
    <2> QED
        BY <1>3, <1>4, <2>1 DEF Taken
<1> QED
    BY <1>2, <1>4, <1>8, <1>9 DEF BucketInv

LEMMA EvictKeeps ==
    ASSUME IInv, RateInv, NEW a \in Addrs \ Trusted, EvictBucket(a)
    PROVE  BucketInv(a)'
<1> DEFINE b == bucket[a]
           seen == b.lastSeen
<1>0. /\ now \in Nat /\ Limit \in Nat \ {0} /\ Refill \in Nat \ {0} /\ EvictAfter \in Nat
      /\ Limit * Refill <= EvictAfter /\ Limit * Refill \in Nat
    BY RequestsAssumption DEF IInv, TypeOK
<1>1. b # None /\ now - seen > EvictAfter /\ UNCHANGED <<now, admitted>>
          /\ bucket' = [bucket EXCEPT ![a] = None]
    BY DEF EvictBucket
<1>2. bucket'[a] = None
    BY <1>1 DEF IInv, TypeOK
<1>3. Agrees(a, b) /\ Taken(a, b)
    BY <1>1 DEF RateInv, BucketInv
<1>4. seen \in Nat /\ b.tokens \in Nat /\ seen <= now
    <2>1. b \in [tokens : 0..Limit, lastSeen : Nat]
        BY <1>1 DEF IInv, TypeOK
    <2> QED
        BY <1>0, <1>3, <2>1 DEF Agrees
<1>5. Limit <= (now - seen) \div Refill
    <2>1. now - seen \in Nat
        BY <1>0, <1>4
    <2> QED
        BY <1>0, <1>1, <2>1, QuotientAtLeast
<1>6. ASSUME NEW from \in 0..now
      PROVE  Passed(a, from) <= (now - from) \div Refill
    <2>1. Passed(a, from) \in Nat /\ (now - from) \div Refill \in Nat
        BY <1>0, PassedType, Quotient
    <2>2. CASE from <= seen
        <3> DEFINE d == (seen - from) \div Refill
                   k == (now - seen) \div Refill
        <3>1. seen - from \in Nat /\ now - seen \in Nat
            BY <1>0, <1>4, <2>2
        <3>2. d \in Nat /\ k \in Nat
            BY <1>0, <3>1, Quotient
        <3>3. Passed(a, from) + b.tokens <= Limit + d
            BY <1>3, <1>4, <2>2 DEF Agrees
        <3>4. d + k <= ((seen - from) + (now - seen)) \div Refill
            BY <1>0, <3>1, QuotientSum
        <3>5. (seen - from) + (now - seen) = now - from
            BY <1>0, <1>4
        <3>6. d + k <= (now - from) \div Refill
            BY <3>4, <3>5
        <3>7. Limit <= k
            BY <1>5
        <3> HIDE DEF d, k
        <3> QED
            BY <1>0, <1>4, <2>1, <3>2, <3>3, <3>6, <3>7
    <2>3. CASE from > seen /\ from < seen + Refill
        <3>1. Passed(a, from) <= Limit - 1
            BY <1>0, <1>3, <1>4, <2>1, <2>3 DEF Taken
        <3>2. Limit - 1 \in Nat /\ (Limit - 1) * Refill = Limit * Refill - Refill
            BY <1>0
        <3>3. now - from \in Nat /\ (Limit - 1) * Refill <= now - from
            BY <1>0, <1>1, <1>4, <2>3, <3>2
        <3>4. Limit - 1 <= (now - from) \div Refill
            BY <1>0, <3>2, <3>3, QuotientAtLeast
        <3> QED
            BY <1>0, <2>1, <3>1, <3>4
    <2>4. CASE from >= seen + Refill
        <3>1. \A r \in admitted : r.remote = a => r.at < from
            <4>1. \A r \in admitted : r.at \in Nat
                BY DEF IInv, TypeOK
            <4> QED
                BY <1>0, <1>3, <1>4, <2>4, <4>1 DEF Agrees
        <3>2. Passed(a, from) = 0
            BY <1>0, <3>1, PassedType
        <3> QED
            BY <2>1, <3>2
    <2> QED
        BY <1>0, <1>4, <2>2, <2>3, <2>4
<1>7. Rested(a)'
    BY <1>1, <1>6 DEF Rested, Passed, Since
<1> QED
    BY <1>2, <1>7 DEF BucketInv

LEMMA RateKept ==
    ASSUME IInv, RateInv, [Next]_vars
    PROVE  RateInv'
<1>0. /\ now \in Nat /\ Refill \in Nat \ {0} /\ Limit \in Nat \ {0}
      /\ bucket \in [Addrs -> [tokens : 0..Limit, lastSeen : Nat] \cup {None}]
      /\ admitted \in SUBSET [nth : Events, at : Nat, remote : Addrs]
      /\ \A r \in admitted : r.at <= now /\ r.remote \notin Trusted
      /\ \A a \in Addrs \ Trusted : BucketInv(a)
    BY RequestsAssumption DEF IInv, TypeOK, RateInv
<1>1. ASSUME NEW a \in Addrs \ Trusted, now' = now, bucket'[a] = bucket[a],
             \A r : r \in admitted' /\ r.remote = a <=> r \in admitted /\ r.remote = a
      PROVE  BucketInv(a)'
    <2>1. ASSUME NEW from
          PROVE  Passed(a, from)' = Passed(a, from)
        <3>1. Since(a, from)' = Since(a, from)
            BY <1>1 DEF Since
        <3> QED
            BY <3>1 DEF Passed
    <2>2. BucketInv(a)
        BY <1>0
    <2>3. Rested(a) => Rested(a)'
        BY <1>1, <2>1 DEF Rested
    <2>4. Agrees(a, bucket[a]) => Agrees(a, bucket[a])'
        BY <1>1, <2>1 DEF Agrees
    <2>5. Taken(a, bucket[a]) => Taken(a, bucket[a])'
        BY <1>1, <2>1 DEF Taken
    <2> QED
        BY <1>1, <2>2, <2>3, <2>4, <2>5 DEF BucketInv
<1>2. ASSUME NEW c \in Calls, Allow(c)
      PROVE  RateInv'
    <2> DEFINE new == [nth : {Cardinality(admitted) + 1}, at : {now},
                       remote : {call[c].remote} \ Trusted]
    <2>1. now' = now /\ admitted' = admitted \cup new
        BY <1>2 DEF Allow
    <2>2. \A r \in new : r.at = now /\ r.remote = call[c].remote /\ r.remote \notin Trusted
        OBVIOUS
    <2> HIDE DEF new
    <2>3. call[c].remote \notin Trusted => call[c].ip = call[c].remote
        BY <1>2 DEF Allow, IInv, Carried
    <2>4. ASSUME NEW a \in Addrs \ Trusted, call[c].ip # a
          PROVE  BucketInv(a)'
        <3>1. bucket'[a] = bucket[a]
            BY <1>0, <1>2, <2>4 DEF Allow
        <3>2. \A r : r \in admitted' /\ r.remote = a <=> r \in admitted /\ r.remote = a
            BY <2>1, <2>2, <2>3, <2>4
        <3> QED
            BY <1>1, <2>1, <3>1, <3>2
    <2>5. \A a \in Addrs \ Trusted : BucketInv(a)'
        BY <1>2, <2>4, AllowKeeps
    <2>6. \A r \in admitted' : r.at <= now' /\ r.remote \notin Trusted
        BY <1>0, <2>1, <2>2
    <2> QED
        BY <2>5, <2>6 DEF RateInv
<1>3. ASSUME NEW c \in Calls, Reject(c)
      PROVE  RateInv'
    <2>1. now' = now /\ admitted' = admitted
              /\ bucket' = [bucket EXCEPT ![call[c].ip] = Found(call[c].ip)]
        BY <1>3 DEF Reject
    <2>2. ASSUME NEW a \in Addrs \ Trusted
          PROVE  bucket'[a] = bucket[a]
        <3>1. CASE call[c].ip = a
            <4>1. Found(a).tokens = 0
                BY <1>3, <3>1 DEF Reject
            <4>2. Found(a) = bucket[a]
                BY <4>1, FoundAgrees
            <4> QED
                BY <1>0, <2>1, <3>1, <4>2
        <3>2. CASE call[c].ip # a
            BY <1>0, <2>1, <3>2
        <3> QED
            BY <3>1, <3>2
    <2>3. \A a \in Addrs \ Trusted : BucketInv(a)'
        BY <1>1, <2>1, <2>2
    <2> QED
        BY <1>0, <2>1, <2>3 DEF RateInv
<1>4. ASSUME NEW ip \in Addrs, EvictBucket(ip)
      PROVE  RateInv'
    <2>1. now' = now /\ admitted' = admitted /\ bucket' = [bucket EXCEPT ![ip] = None]
        BY <1>4 DEF EvictBucket
    <2>2. ASSUME NEW a \in Addrs \ Trusted
          PROVE  BucketInv(a)'
        <3>1. CASE ip = a
            BY <1>4, <3>1, EvictKeeps
        <3>2. CASE ip # a
            <4>1. bucket'[a] = bucket[a]
                BY <1>0, <2>1, <3>2
            <4> QED
                BY <1>1, <2>1, <4>1
        <3> QED
            BY <3>1, <3>2
    <2> QED
        BY <1>0, <2>1, <2>2 DEF RateInv
<1>5. CASE Tick
    <2>1. now' = now + 1 /\ admitted' = admitted /\ bucket' = bucket
        BY <1>5 DEF Tick
    <2>2. ASSUME NEW a
          PROVE  \A from : Passed(a, from)' = Passed(a, from)
        BY <2>1 DEF Passed, Since
    <2>3. ASSUME NEW a
          PROVE  Passed(a, now + 1) = 0
        <3>1. \A r \in admitted : r.at < now + 1
            BY <1>0
        <3> QED
            BY <1>0, <3>1, PassedType
    <2>4. ASSUME NEW a \in Addrs \ Trusted
          PROVE  BucketInv(a)'
        <3>1. BucketInv(a)
            BY <1>0
        <3>2. CASE bucket[a] = None
            <4>1. ASSUME NEW from \in 0..now + 1
                  PROVE  Passed(a, from) <= (now + 1 - from) \div Refill
                <5>1. CASE from = now + 1
                    <6>1. now + 1 - from \in Nat
                        BY <1>0, <5>1
                    <6>2. (now + 1 - from) \div Refill \in Nat
                        BY <1>0, <6>1, Quotient
                    <6> QED
                        BY <2>3, <5>1, <6>2
                <5>2. CASE from \in 0..now
                    <6>1. Passed(a, from) <= (now - from) \div Refill
                        BY <3>1, <3>2, <5>2 DEF BucketInv, Rested
                    <6>2. now - from \in Nat /\ now + 1 - from \in Nat
                              /\ now - from <= now + 1 - from
                        BY <1>0, <5>2
                    <6>3. (now - from) \div Refill <= (now + 1 - from) \div Refill
                        BY <1>0, <6>2, QuotientGrows
                    <6>4. Passed(a, from) \in Nat /\ (now - from) \div Refill \in Nat
                              /\ (now + 1 - from) \div Refill \in Nat
                        BY <1>0, <5>2, <6>2, PassedType, Quotient
                    <6> QED
                        BY <6>1, <6>3, <6>4
                <5> QED
                    BY <1>0, <5>1, <5>2
            <4>2. Rested(a)'
                <5> SUFFICES ASSUME NEW from \in 0..now'
                             PROVE  Passed(a, from)' <= (now' - from) \div Refill
                    BY DEF Rested
                <5> QED
                    BY <1>0, <2>1, <2>2, <4>1
            <4> QED
                BY <2>1, <3>2, <4>2 DEF BucketInv
        <3>3. CASE bucket[a] # None
            <4> DEFINE b == bucket[a]
            <4>1. /\ Agrees(a, b) /\ Taken(a, b) /\ b.tokens < Limit
                  /\ b.lastSeen \in Nat /\ b.tokens \in Nat
                BY <1>0, <3>1, <3>3 DEF BucketInv
            <4>2. Agrees(a, b)'
                <5>1. b.lastSeen <= now + 1
                    BY <1>0, <4>1 DEF Agrees
                <5> QED
                    BY <2>1, <2>2, <4>1, <5>1 DEF Agrees
            <4>3. ASSUME NEW from \in b.lastSeen + 1..now + 1
                  PROVE  Passed(a, from) + b.tokens <= Limit - 1
                <5>1. CASE from = now + 1
                    BY <1>0, <2>3, <4>1, <5>1
                <5>2. CASE from # now + 1
                    <6>1. from \in b.lastSeen + 1..now
                        BY <1>0, <4>1, <5>2
                    <6> QED
                        BY <4>1, <6>1 DEF Taken
                <5> QED
                    BY <5>1, <5>2
            <4>4. Taken(a, b)'
                BY <2>1, <2>2, <4>3 DEF Taken
            <4> QED
                BY <2>1, <3>3, <4>1, <4>2, <4>4 DEF BucketInv
        <3> QED
            BY <3>2, <3>3
    <2>5. \A r \in admitted : r.at <= now + 1
        BY <1>0
    <2> QED
        BY <1>0, <2>1, <2>4, <2>5 DEF RateInv
<1>6. CASE Restart
    <2>1. now' = now /\ admitted' = {} /\ bucket' = [a \in Addrs |-> None]
        BY <1>6 DEF Restart
    <2>2. ASSUME NEW a \in Addrs \ Trusted
          PROVE  BucketInv(a)'
        <3>1. \A from : Passed(a, from)' = 0
            BY <2>1, FS_EmptySet DEF Passed, Since
        <3>2. ASSUME NEW from \in 0..now PROVE (now - from) \div Refill \in Nat
            <4>1. now - from \in Nat
                BY <1>0
            <4> QED
                BY <1>0, <4>1, Quotient
        <3>3. Rested(a)'
            BY <1>0, <2>1, <3>1, <3>2 DEF Rested
        <3> QED
            BY <2>1, <3>3 DEF BucketInv
    <2> QED
        BY <2>1, <2>2 DEF RateInv
<1>7. CASE UNCHANGED <<now, bucket, admitted>>
    BY <1>0, <1>1, <1>7 DEF RateInv
<1>8. ASSUME NEW c \in Calls, Handle(c)
      PROVE  RateInv'
    BY <1>2, <1>3, <1>7, <1>8 DEF Handle, Replay, Proceed, Remember, AppendMemory, ReadLastHash,
                                  InsertRow
<1> QED
    BY <1>4, <1>5, <1>6, <1>7, <1>8 DEF Next, CreateKey, RevokeKey, UpdateLastUsed, Authenticate,
                                        EvictAnswer, vars, requestVars

(* The stretches that end now are bounded by the buckets.                  *)
NowBounded ==
    \A a \in Addrs, from \in 0..now : Passed(a, from) <= Limit + (now - from) \div Refill

LEMMA BucketsBound == IInv /\ RateInv => NowBounded
<1> SUFFICES ASSUME IInv, RateInv, NEW a \in Addrs, NEW from \in 0..now
             PROVE  Passed(a, from) <= Limit + (now - from) \div Refill
    BY DEF NowBounded
<1>0. now \in Nat /\ Refill \in Nat \ {0} /\ Limit \in Nat \ {0}
          /\ admitted \in SUBSET [nth : Events, at : Nat, remote : Addrs]
    BY RequestsAssumption DEF IInv, TypeOK
<1>1. now - from \in Nat /\ Passed(a, from) \in Nat /\ (now - from) \div Refill \in Nat
    BY <1>0, PassedType, Quotient
<1>2. CASE a \in Trusted
    <2>1. \A r \in admitted : r.remote = a => r.at < from
        BY <1>2 DEF RateInv
    <2>2. Passed(a, from) = 0
        BY <1>0, <2>1, PassedType
    <2> QED
        BY <1>0, <1>1, <2>2
<1>3. CASE a \notin Trusted /\ bucket[a] = None
    <2>1. Passed(a, from) <= (now - from) \div Refill
        BY <1>3 DEF RateInv, BucketInv, Rested
    <2> QED
        BY <1>0, <1>1, <2>1
<1>4. CASE a \notin Trusted /\ bucket[a] # None
    <2> DEFINE b == bucket[a]
    <2>1. Agrees(a, b) /\ Taken(a, b)
        BY <1>4 DEF RateInv, BucketInv
    <2>2. b.lastSeen \in Nat /\ b.tokens \in Nat /\ b.lastSeen <= now
        <3>1. b \in [tokens : 0..Limit, lastSeen : Nat]
            BY <1>4 DEF IInv, TypeOK
        <3> QED
            BY <1>0, <2>1, <3>1 DEF Agrees
    <2>3. CASE from <= b.lastSeen
        <3>1. Passed(a, from) + b.tokens <= Limit + (b.lastSeen - from) \div Refill
            BY <1>0, <2>1, <2>2, <2>3 DEF Agrees
        <3>2. b.lastSeen - from \in Nat /\ b.lastSeen - from <= now - from
            BY <1>0, <2>2, <2>3
        <3>3. (b.lastSeen - from) \div Refill <= (now - from) \div Refill
                  /\ (b.lastSeen - from) \div Refill \in Nat
            BY <1>0, <1>1, <3>2, Quotient, QuotientGrows
        <3> QED
            BY <1>0, <1>1, <2>2, <3>1, <3>3
    <2>4. CASE from > b.lastSeen
        <3>1. Passed(a, from) + b.tokens <= Limit - 1
            BY <1>0, <2>1, <2>2, <2>4 DEF Taken
        <3> QED
            BY <1>0, <1>1, <2>2, <3>1
    <2> QED
        BY <1>0, <2>2, <2>3, <2>4
<1> QED
    BY <1>2, <1>3, <1>4

LEMMA AdmittedNow ==
    ASSUME IInv, [Next]_vars
    PROVE  now' \in {now, now + 1} /\ \A r \in admitted' : r \in admitted \/ r.at = now'
<1>1. ASSUME NEW c \in Calls, Allow(c)
      PROVE  now' = now /\ \A r \in admitted' : r \in admitted \/ r.at = now
    BY <1>1 DEF Allow
<1>2. CASE Tick
    BY <1>2 DEF Tick
<1>3. CASE now' = now /\ admitted' \subseteq admitted
    BY <1>3
<1>4. ASSUME NEW c \in Calls, Handle(c), ~Allow(c)
      PROVE  now' = now /\ admitted' \subseteq admitted
    BY <1>4 DEF Handle, Reject, Replay, Proceed, Remember, AppendMemory, ReadLastHash, InsertRow
<1>5. ASSUME NEW c \in Calls, Handle(c)
      PROVE  now' \in {now, now + 1} /\ \A r \in admitted' : r \in admitted \/ r.at = now'
    BY <1>1, <1>3, <1>4, <1>5
<1> QED
    BY <1>2, <1>3, <1>5 DEF Next, CreateKey, RevokeKey, UpdateLastUsed, Authenticate, EvictBucket,
                            EvictAnswer, Restart, vars, requestVars

(* In no stretch of time more requests of an address pass than the bucket  *)
(* holds and what is refilled meanwhile, for any limit, refill and number  *)
(* of addresses and proxies, and although buckets are evicted: a bucket is *)
(* kept at least as long as it takes to fill it.                           *)
THEOREM RateIsBounded == Spec => []RateBounded
<1> DEFINE In(a, from, to) == {r \in admitted : r.remote = a /\ r.at \in from..to}
<1>1. Init => RateInv /\ RateBounded
    <2> SUFFICES ASSUME Init PROVE RateInv /\ RateBounded
        OBVIOUS
    <2>1. now = 0 /\ admitted = {} /\ bucket = [a \in Addrs |-> None]
              /\ Refill \in Nat \ {0} /\ Limit \in Nat \ {0}
        BY RequestsAssumption DEF Init
    <2>2. \A a, from : Passed(a, from) = 0
        BY <2>1, FS_EmptySet DEF Passed, Since
    <2>3. 0 \div Refill \in Nat
        BY <2>1, Quotient
    <2>4. \A a \in Addrs \ Trusted : BucketInv(a)
        BY <2>1, <2>2, <2>3 DEF BucketInv, Rested
    <2>5. RateInv
        BY <2>1, <2>4 DEF RateInv
    <2>6. ASSUME NEW a \in Addrs, NEW from \in 0..now, NEW to \in 0..now
          PROVE  Cardinality(In(a, from, to)) <= Limit + (to - from) \div Refill
        <3>1. In(a, from, to) = {} /\ to - from = 0
            BY <2>1
        <3> HIDE DEF In
        <3>2. Cardinality(In(a, from, to)) = 0
            BY <3>1, FS_EmptySet
        <3> QED
            BY <2>1, <2>3, <3>1, <3>2
    <2> QED
        BY <2>5, <2>6 DEF RateBounded
<1>2. ASSUME IInv, RateInv, RateBounded, [Next]_vars, IInv', RateInv', NowBounded'
      PROVE  RateBounded'
    <2>0. now \in Nat /\ now' \in Nat /\ Refill \in Nat \ {0} /\ Limit \in Nat
              /\ admitted' \in SUBSET [nth : Events, at : Nat, remote : Addrs]
        BY <1>2, RequestsAssumption DEF IInv, TypeOK
    <2>1. now' \in {now, now + 1} /\ \A r \in admitted' : r \in admitted \/ r.at = now'
        BY <1>2, AdmittedNow
    <2>2. ASSUME NEW a \in Addrs, NEW from \in 0..now', NEW to \in 0..now', from <= to
          PROVE  Cardinality(In(a, from, to))' <= Limit + (to - from) \div Refill
        <3>1. CASE to = now'
            <4>1. In(a, from, to)' = Since(a, from)'
                BY <1>2, <2>0, <3>1 DEF Since, RateInv
            <4>2. Passed(a, from)' <= Limit + (now' - from) \div Refill
                BY <1>2 DEF NowBounded
            <4> HIDE DEF In
            <4> QED
                BY <3>1, <4>1, <4>2 DEF Passed
        <3>2. CASE to # now'
            <4>1. from \in 0..now /\ to \in 0..now
                BY <2>0, <2>1, <2>2, <3>2
            <4>2. In(a, from, to)' \subseteq In(a, from, to)
                BY <2>0, <2>1, <2>2, <3>2
            <4>3. IsFiniteSet(In(a, from, to))
                BY <1>2, FS_Subset DEF IInv, Counted
            <4>4. Cardinality(In(a, from, to)) <= Limit + (to - from) \div Refill
                BY <1>2, <2>2, <4>1 DEF RateBounded
            <4> HIDE DEF In
            <4>5. IsFiniteSet(In(a, from, to)')
                      /\ Cardinality(In(a, from, to)') <= Cardinality(In(a, from, to))
                BY <4>2, <4>3, FS_Subset
            <4>6. Cardinality(In(a, from, to)') \in Nat /\ Cardinality(In(a, from, to)) \in Nat
                BY <4>3, <4>5, FS_CardinalityType
            <4>7. to - from \in Nat /\ (to - from) \div Refill \in Nat
                BY <2>0, <2>2, Quotient
            <4> QED
                BY <2>0, <4>4, <4>5, <4>6, <4>7
        <3> QED
            BY <3>1, <3>2
    <2> QED
        BY <2>2 DEF RateBounded
<1>3. IInv /\ RateInv /\ [Next]_vars => RateInv'
    BY RateKept
<1>4. IInv' /\ RateInv' => NowBounded'
    BY BucketsBound, PTL
<1>5. IInv /\ RateInv /\ RateBounded /\ [Next]_vars /\ IInv' => RateInv' /\ RateBounded'
    BY <1>2, <1>3, <1>4
<1> QED
    BY <1>1, <1>5, RequestTypes, PTL DEF Spec
=============================================================================
