---------------------------- MODULE ServerProofs ----------------------------
(***************************************************************************)
(* Proofs about Server.  The variables of the streams, of the accounts and *)
(* of the life cycle change by the steps of their own component only, so   *)
(* each invariant is kept by looking at those.                             *)
(***************************************************************************)
EXTENDS Server, FiniteSetTheorems, TLAPS

(* What a step can be for the streams.                                     *)
StreamsMove ==
    \/ \E s \in Streams :
          Arrive(s) \/ subscribe(s) \/ SeeClosed(s) \/ ClientGone(s) \/ unsubscribe(s)
    \/ Send
    \/ Shutdown
    \/ StreamsEnd
    \/ UNCHANGED streamVars

(* What a step can be for the accounts, and where it finds the process.    *)
Drops(w) ==
    /\ request' = [request EXCEPT ![w] = None]
    /\ UNCHANGED <<admins, backend, counts, keyVars, cookies>>

AdminsServe ==
    \/ \E a \in AdminIds : CreateAdmin(a) \/ Login(a)
    \/ \E w \in Workers, a \in AdminIds :
          \E does \in {"activate", "deactivate", "edit", "delete"} : Read(w, does, a)
    \/ \E w \in Workers : Count(w) \/ Write(w) \/ Drops(w)
    \/ \E c \in cookies : Visit(c) \/ Logout(c)

AdminsMove ==
    \/ AdminsServe /\ pc \in Running /\ UNCHANGED startVars
    \/ pc = "loaded" /\ pc' = "bootstrapped" /\ bootstrapAdmin(Configured)
    \/ /\ pc = "bootstrapped" /\ pc' = "serving"
       /\ \E configured \in BOOLEAN : LoadOrCreateSessionHashKey(configured)
    \/ AdminsEnd /\ pc' = "down"
    \/ /\ UNCHANGED adminVars
       /\ \/ pc' = pc
          \/ pc = "down" /\ pc' = "loaded"
          \/ pc \in Running /\ pc' \in Running

-----------------------------------------------------------------------------
LEMMA StreamsMoveAlone == ASSUME [Next]_vars PROVE StreamsMove
<1>1. CASE \E g \in Given : Load(g)
    BY <1>1 DEF Load, StreamsMove
<1>2. CASE New
    BY <1>2 DEF New, End, StreamsMove
<1>3. CASE Serve
    BY <1>3 DEF Serve, StreamsMove
<1>4. CASE Runs(Admins) /\ UNCHANGED <<serveVars, streamVars>>
    BY <1>4 DEF StreamsMove
<1>5. CASE Runs(Events) /\ UNCHANGED <<serveVars, adminVars>>
    BY <1>5 DEF Runs, Events, Stream, HandleStream, StreamsMove
<1>6. CASE Runs(Background) /\ UNCHANGED <<adminVars, streamVars>>
    BY <1>6 DEF StreamsMove
<1>7. CASE Expire
    BY <1>7 DEF Expire, StreamsMove
<1>8. CASE Shut
    BY <1>8 DEF Shut, ReleaseStreams, CloseHTTP, DrainHTTP, DrainProtocol, CloseStores,
                Exit, End, StreamsMove
<1>9. CASE Crash
    BY <1>9 DEF Crash, End, StreamsMove
<1>10. CASE UNCHANGED vars
    BY <1>10 DEF vars, StreamsMove
<1> QED
    BY <1>1, <1>2, <1>3, <1>4, <1>5, <1>6, <1>7, <1>8, <1>9, <1>10 DEF Next

LEMMA AdminsMoveAlone == ASSUME [Next]_vars PROVE AdminsMove
<1>1. CASE \E g \in Given : Load(g)
    BY <1>1 DEF Load, AdminsMove
<1>2. CASE New
    BY <1>2 DEF New, End, AdminsMove
<1>3. CASE Serve
    BY <1>3 DEF Serve, AdminsMove
<1>4. CASE Runs(Admins) /\ UNCHANGED <<serveVars, streamVars>>
    <2>1. Admins => AdminsServe
        BY DEF Admins, Administer, HandleAdmin, StoreGone, Drops, AdminsServe
    <2> QED
        BY <1>4, <2>1 DEF Runs, AdminsMove
<1>5. CASE Runs(Events) /\ UNCHANGED <<serveVars, adminVars>>
    BY <1>5 DEF Runs, startVars, AdminsMove
<1>6. CASE Runs(Background) /\ UNCHANGED <<adminVars, streamVars>>
    BY <1>6 DEF Runs, startVars, AdminsMove
<1>7. CASE Expire
    BY <1>7 DEF Expire, startVars, AdminsMove
<1>8. CASE Exit \/ Crash
    BY <1>8 DEF Exit, Crash, End, AdminsMove
<1>9. CASE ReleaseStreams \/ CloseHTTP \/ DrainHTTP \/ DrainProtocol \/ CloseStores
    BY <1>9 DEF ReleaseStreams, CloseHTTP, DrainHTTP, DrainProtocol, CloseStores, Goes,
                Running, Draining, AdminsMove
<1>10. CASE UNCHANGED vars
    BY <1>10 DEF vars, startVars, AdminsMove
<1> QED
    BY <1>1, <1>2, <1>3, <1>4, <1>5, <1>6, <1>7, <1>8, <1>9, <1>10 DEF Next, Shut

-----------------------------------------------------------------------------
(* Streams.                                                                *)

LEMMA StreamsKept ==
    ASSUME StreamsTypeOK, NoPanic, StreamsMove
    PROVE  StreamsTypeOK' /\ NoPanic'
<1>1. CASE \E s \in Streams : Arrive(s) \/ SeeClosed(s) \/ ClientGone(s)
    BY <1>1 DEF Arrive, SeeClosed, ClientGone, At, StreamsTypeOK, NoPanic
<1>2. ASSUME NEW s \in Streams, subscribe(s)
      PROVE  StreamsTypeOK' /\ NoPanic'
    BY <1>2 DEF subscribe, At, StreamsTypeOK, NoPanic
<1>3. ASSUME NEW s \in Streams, unsubscribe(s)
      PROVE  StreamsTypeOK' /\ NoPanic'
    <2>1. chan' = [chan EXCEPT ![s] = "none"]
        BY <1>3 DEF unsubscribe, left, closed, StreamsTypeOK, NoPanic
    <2> QED
        BY <1>3, <2>1 DEF unsubscribe, At, StreamsTypeOK, NoPanic
<1>4. CASE Send
    BY <1>4 DEF Send, StreamsTypeOK, NoPanic
<1>5. CASE Shutdown
    BY <1>5 DEF Shutdown, closed, StreamsTypeOK, NoPanic
<1>6. CASE StreamsEnd
    BY <1>6 DEF StreamsEnd, StreamsTypeOK, NoPanic
<1>7. CASE UNCHANGED streamVars
    BY <1>7 DEF streamVars, StreamsTypeOK, NoPanic
<1> QED
    BY <1>1, <1>2, <1>3, <1>4, <1>5, <1>6, <1>7 DEF StreamsMove

(* Whatever handlers, clients, senders and the shutdown do in whatever     *)
(* order, no channel is closed twice or sent on when closed.               *)
THEOREM ChannelsCloseOnce == Spec => []NoPanic
<1>1. Init => StreamsTypeOK /\ NoPanic
    BY DEF Init, NoStreams, StreamsTypeOK, NoPanic
<1>2. StreamsTypeOK /\ NoPanic /\ [Next]_vars => (StreamsTypeOK /\ NoPanic)'
    BY StreamsMoveAlone, StreamsKept
<1> QED
    BY <1>1, <1>2, PTL DEF Spec

-----------------------------------------------------------------------------
(* Accounts.                                                               *)

LEMMA AdminsTyped ==
    ASSUME AdminsTypeOK, AdminsMove
    PROVE  AdminsTypeOK'
<1> USE DEF AdminsTypeOK, Backends, Admin
<1>1. ASSUME NEW a \in AdminIds, CreateAdmin(a)
      PROVE  AdminsTypeOK'
    BY <1>1 DEF CreateAdmin, Store, keyVars
<1>2. ASSUME NEW a \in AdminIds, Login(a)
      PROVE  AdminsTypeOK'
    <2>1. hashKey \in Nat
        <3>1. hashKey \in 0..(MaxKeys + 1)
            OBVIOUS
        <3> QED
            BY <3>1, KeyAssumption
    <2> DEFINE c == [admin |-> a, key |-> hashKey,
                     kept |-> backend = "sqlite" /\ hashKey # ConfiguredKey]
    <2>2. c \in [admin : AdminIds, key : Nat, kept : BOOLEAN]
        BY <2>1
    <2>3. cookies' = cookies \cup {c}
        BY <1>2 DEF Login
    <2>4. cookies' \subseteq [admin : AdminIds, key : Nat, kept : BOOLEAN]
        BY <2>2, <2>3
    <2> QED
        BY <1>2, <2>4 DEF Login, keyVars
<1>3. ASSUME NEW w \in Workers, NEW a \in AdminIds,
             NEW does \in {"activate", "deactivate", "edit", "delete"}, Read(w, does, a)
      PROVE  AdminsTypeOK'
    <2>1. Table[a] \in Admin
        BY DEF Table
    <2>2. Changed(does, Table[a]) \in Admin
        BY <2>1 DEF Changed
    <2>3. [id |-> a, write |-> Changed(does, Table[a]), counted |-> ~Counted(does, Table[a])]
              \in Request
        BY <2>2 DEF Request, Counted
    <2> QED
        BY <1>3, <2>3 DEF Read, keyVars
<1>4. ASSUME NEW w \in Workers, Count(w)
      PROVE  AdminsTypeOK'
    <2>1. request[w] \in Request
        BY <1>4 DEF Count
    <2>2. [request[w] EXCEPT !.counted = TRUE] \in Request
        BY <2>1 DEF Request
    <2>3. request' = [request EXCEPT ![w] = None]
          \/ request' = [request EXCEPT ![w] = [request[w] EXCEPT !.counted = TRUE]]
        BY <1>4 DEF Count
    <2> QED
        BY <1>4, <2>2, <2>3 DEF Count, keyVars
<1>5. ASSUME NEW w \in Workers, Write(w)
      PROVE  AdminsTypeOK'
    <2>1. request[w] \in Request
        BY <1>5 DEF Write
    <2>2. admins' \in [Backends -> [AdminIds -> Admin]]
        BY <1>5, <2>1 DEF Write, Store, Request
    <2> QED
        BY <1>5, <2>2 DEF Write, keyVars
<1>6. ASSUME NEW w \in Workers, Drops(w)
      PROVE  AdminsTypeOK'
    BY <1>6 DEF Drops, keyVars
<1>7. ASSUME NEW c \in cookies, Visit(c) \/ Logout(c)
      PROVE  AdminsTypeOK'
    BY <1>7 DEF Visit, Logout, keyVars
<1>8. CASE bootstrapAdmin(Configured)
    <2>1. Configured \in Backends
        BY DEF Configured
    <2> QED
        BY <1>8, <2>1, AdminAssumption DEF bootstrapAdmin, keyVars
<1>9. ASSUME NEW configured \in BOOLEAN, LoadOrCreateSessionHashKey(configured)
      PROVE  AdminsTypeOK'
    BY <1>9, KeyAssumption DEF LoadOrCreateSessionHashKey, NewKey, ConfiguredKey, NoKey
<1>10. CASE AdminsEnd
    BY <1>10, KeyAssumption DEF AdminsEnd, NoAdmins, NoKey
<1>11. CASE UNCHANGED adminVars
    BY <1>11 DEF adminVars
<1> QED
    BY <1>1, <1>2, <1>3, <1>4, <1>5, <1>6, <1>7, <1>8, <1>9, <1>10, <1>11
    DEF AdminsMove, AdminsServe

(* Two requests each of which would leave an administrator inactive or     *)
(* gone are never at work together; others may be.                         *)
Takes(w) == request[w] # None /\ request[w].write # "active"

RemovalsApart == \A v, w \in Workers : Takes(v) /\ Takes(w) => v = w

(* Nobody is at work on an administrator while the process starts and, as  *)
(* long as no failed count let a request go on, a write that leaves one    *)
(* without being active has somebody else to leave.                        *)
SomebodyElse(a) == \E b \in AdminIds : b # a /\ Active(b)

SafeWrite(r) == r.counted /\ r.write # "active" => ~Active(r.id) \/ SomebodyElse(r.id)

AdminInv ==
    /\ AdminsTypeOK
    /\ pc \notin Running => request = [w \in Workers |-> None] /\ counts = "sound"
    /\ counts = "sound" =>
          /\ \A w \in Workers : request[w] # None => SafeWrite(request[w])
          /\ pc \in Running \cup {"bootstrapped"} => \E a \in AdminIds : Active(a)

(* Two of them: one that is left.                                          *)
LEMMA CountedLeavesOne ==
    ASSUME IsFiniteSet(AdminIds), CountActive \in Nat => CountActive > 1, NEW a
    PROVE  SomebodyElse(a)
<1> DEFINE Act == {b \in AdminIds : Active(b)}
<1>1. IsFiniteSet(Act)
    BY FS_Subset
<1>2. Cardinality(Act) \in Nat /\ Cardinality(Act) > 1
    BY <1>1, FS_CardinalityType DEF CountActive
<1>3. SUFFICES ASSUME ~SomebodyElse(a) PROVE FALSE
    OBVIOUS
<1>4. Act \subseteq {a}
    BY <1>3 DEF SomebodyElse
<1>5. IsFiniteSet({a}) /\ Cardinality({a}) = 1
    BY FS_Singleton
<1>6. Cardinality(Act) <= 1
    BY <1>4, <1>5, FS_Subset
<1> QED
    BY <1>2, <1>6

LEMMA StepLeavesOne ==
    ASSUME IsFiniteSet(AdminIds), RemovalsApart, AdminInv, AdminsMove
    PROVE  AdminInv'
<1> USE DEF AdminInv
<1>0. AdminsTypeOK'
    BY AdminsTyped
<1>a. ASSUME pc' \in Running, counts' = "doubtful" PROVE AdminInv'
    BY <1>0, <1>a
<1>b. ASSUME pc' \in Running, Settled' PROVE AdminInv'
    BY <1>0, <1>b DEF Settled
<1>1. ASSUME pc \in Running, pc' = pc, UNCHANGED backend, counts = "sound",
             NEW a \in AdminIds, admins' = [admins EXCEPT ![backend][a] = "active"],
             \A w \in Workers : request'[w] \in {request[w], None}
      PROVE  AdminInv'
    <2>1. \A b \in AdminIds : Active(b)' <=> (b = a \/ Active(b))
        BY <1>1 DEF Active, Table, AdminsTypeOK
    <2>2. PICK b \in AdminIds : Active(b)
        BY <1>1
    <2>3. ASSUME NEW w \in Workers, request'[w] # None
          PROVE  SafeWrite(request[w])'
        <3> DEFINE r == request[w]
        <3>1. request'[w] = r /\ r \in Request /\ SafeWrite(r)
            BY <1>1, <2>3 DEF AdminsTypeOK
        <3>2. CASE r.counted /\ r.write # "active"
            <4>1. CASE Active(r.id)
                BY <2>1, <3>1, <3>2, <4>1 DEF SafeWrite, SomebodyElse
            <4>2. CASE ~Active(r.id)
                BY <2>1, <2>2, <3>1, <4>2 DEF SafeWrite, SomebodyElse
            <4> QED
                BY <4>1, <4>2
        <3> QED
            BY <3>1, <3>2 DEF SafeWrite
    <2> QED
        BY <1>0, <1>1, <2>1, <2>2, <2>3
<1>2. ASSUME pc \in Running, pc' = pc, UNCHANGED <<admins, backend, request>>,
             counts = "sound"
      PROVE  AdminInv'
    BY <1>0, <1>2 DEF SafeWrite, SomebodyElse, Active, Table
<1>3. ASSUME pc \in Running, pc' = pc, UNCHANGED <<admins, backend>>, counts = "sound",
             NEW w \in Workers, NEW r, request' = [request EXCEPT ![w] = r],
             r # None => SafeWrite(r)
      PROVE  AdminInv'
    <2>1. \A v \in Workers : request'[v] # None => SafeWrite(request'[v])
        BY <1>3 DEF AdminsTypeOK
    <2> QED
        BY <1>0, <1>3, <2>1 DEF SafeWrite, SomebodyElse, Active, Table
<1>4. ASSUME NEW w \in Workers, NEW a \in AdminIds, pc \in Running, pc' = pc,
             counts = "sound",
             NEW does \in {"activate", "deactivate", "edit", "delete"}, Read(w, does, a)
      PROVE  AdminInv'
    <2> DEFINE r == [id |-> a, write |-> Changed(does, Table[a]),
                     counted |-> ~Counted(does, Table[a])]
    <2>1. r.counted /\ r.write # "active" => Table[a] # "active"
        BY DEF Counted, Changed
    <2>2. SafeWrite(r)
        BY <2>1 DEF SafeWrite, Active
    <2> QED
        BY <1>3, <1>4, <2>2 DEF Read
<1>5. ASSUME NEW w \in Workers, Count(w), pc \in Running, pc' = pc, counts = "sound"
      PROVE  AdminInv'
    <2>1. CASE request' = [request EXCEPT ![w] = None]
        BY <1>3, <1>5, <2>1 DEF Count
    <2>3. CASE counts' = "doubtful"
        BY <1>a, <1>5, <2>3
    <2>2. CASE request' = [request EXCEPT ![w].counted = TRUE] /\ ~(CountActive <= 1)
        <3> DEFINE r == [request[w] EXCEPT !.counted = TRUE]
        <3>1. CountActive \in Nat => CountActive > 1
            BY <2>2
        <3>2. SafeWrite(r)
            BY <3>1, CountedLeavesOne DEF SafeWrite
        <3>3. request' = [request EXCEPT ![w] = r]
            BY <2>2
        <3> QED
            BY <1>3, <1>5, <3>2, <3>3 DEF Count
    <2> QED
        BY <1>5, <2>1, <2>2, <2>3 DEF Count
<1>6. ASSUME NEW w \in Workers, Write(w), pc \in Running, pc' = pc, counts = "sound"
      PROVE  AdminInv'
    <2> DEFINE r == request[w]
    <2>1. /\ r \in Request /\ SafeWrite(r) /\ r.counted /\ UNCHANGED backend
          /\ request' = [request EXCEPT ![w] = None]
          /\ \A v \in Workers : request'[v] = IF v = w THEN None ELSE request[v]
        BY <1>6 DEF Write, AdminsTypeOK
    <2>2. CASE UNCHANGED admins
        BY <1>3, <1>6, <2>1, <2>2
    <2>3. CASE Store(r.id, r.write) /\ r.write = "active"
        <3>1. r.id \in AdminIds
            BY <2>1 DEF Request
        <3> QED
            BY <1>1, <1>6, <2>1, <2>3, <3>1 DEF Store
    <2>4. CASE Store(r.id, r.write) /\ r.write # "active"
        <3>1. \A b \in AdminIds : Active(b)' <=> (b # r.id /\ Active(b))
            BY <1>6, <2>1, <2>4 DEF Store, Active, Table, AdminsTypeOK, Request
        <3>2. \E b \in AdminIds : Active(b)'
            BY <1>6, <2>1, <2>4, <3>1 DEF SafeWrite, SomebodyElse, Request
        <3>3. \A v \in Workers : request'[v] # None => request'[v].write = "active"
            BY <1>6, <2>1, <2>4 DEF RemovalsApart, Takes, Write
        <3> QED
            BY <1>0, <1>6, <3>2, <3>3 DEF SafeWrite
    <2> QED
        BY <1>6, <2>2, <2>3, <2>4 DEF Write
<1>7. CASE AdminsServe /\ pc \in Running /\ UNCHANGED startVars
    <2>1. pc' = pc
        BY <1>7 DEF startVars
    <2>2. ASSUME NEW a \in AdminIds, CreateAdmin(a) \/ Login(a), counts = "sound"
          PROVE  AdminInv'
        BY <1>1, <1>2, <1>7, <2>1, <2>2 DEF CreateAdmin, Login, Store
    <2>3. ASSUME NEW w \in Workers, Drops(w), counts = "sound"
          PROVE  AdminInv'
        BY <1>3, <1>7, <2>1, <2>3 DEF Drops
    <2>4. ASSUME NEW c \in cookies, Visit(c) \/ Logout(c), counts = "sound"
          PROVE  AdminInv'
        BY <1>2, <1>7, <2>1, <2>4 DEF Visit, Logout
    <2>5. CASE counts = "sound"
        BY <1>4, <1>5, <1>6, <1>7, <2>1, <2>2, <2>3, <2>4, <2>5 DEF AdminsServe
    <2>6. CASE counts = "doubtful"
        <3>1. counts' = "doubtful" \/ Settled'
            BY <1>7, <2>6 DEF AdminsServe, CreateAdmin, Login, Read, Count, Write, Drops,
                              Visit, Logout
        <3> QED
            BY <1>a, <1>b, <1>7, <2>1, <3>1
    <2> QED
        BY <2>5, <2>6 DEF AdminsTypeOK
<1>8. CASE pc = "loaded" /\ pc' = "bootstrapped" /\ bootstrapAdmin(Configured)
    <2> DEFINE b == Configured
    <2>1. b \in Backends
        BY DEF Configured, Backends
    <2>2. \E a \in AdminIds : Active(a)'
        <3>1. CASE bootstraps(b)
            <4>1. admins'[b][DefaultId] = "active"
                BY <1>8, <2>1, <3>1, AdminAssumption DEF bootstrapAdmin, AdminsTypeOK
            <4> QED
                BY <1>8, <4>1, AdminAssumption DEF bootstrapAdmin, Active, Table
        <3>2. CASE ~bootstraps(b)
            BY <1>8, <3>2 DEF bootstrapAdmin, bootstraps, Active, Table
        <3> QED
            BY <3>1, <3>2
    <2>3. request' = [w \in Workers |-> None] /\ counts' = "sound"
        BY <1>8 DEF bootstrapAdmin, Running, Draining
    <2> QED
        BY <1>0, <2>2, <2>3
<1>9. CASE /\ pc = "bootstrapped" /\ pc' = "serving"
           /\ \E configured \in BOOLEAN : LoadOrCreateSessionHashKey(configured)
    <2>1. UNCHANGED <<admins, backend, request, counts>>
        BY <1>9 DEF LoadOrCreateSessionHashKey
    <2>2. \A a : Active(a)' <=> Active(a)
        BY <2>1 DEF Active, Table
    <2>3. request' = [w \in Workers |-> None] /\ counts' = "sound"
        BY <1>9, <2>1 DEF Running, Draining
    <2>4. \E a \in AdminIds : Active(a)
        BY <1>9 DEF Running, Draining
    <2> QED
        BY <1>0, <1>9, <2>2, <2>3, <2>4
<1>10. CASE AdminsEnd /\ pc' = "down"
    BY <1>0, <1>10 DEF AdminsEnd, Running, Draining
<1>11. CASE /\ UNCHANGED adminVars
            /\ \/ pc' = pc
               \/ pc = "down" /\ pc' = "loaded"
               \/ pc \in Running /\ pc' \in Running
    BY <1>0, <1>11 DEF adminVars, SafeWrite, SomebodyElse, Active, Table, Running, Draining
<1> QED
    BY <1>7, <1>8, <1>9, <1>10, <1>11 DEF AdminsMove

(* As long as no two requests that take an administrator away overlap and  *)
(* no count fails, the server always has somebody who can sign in, over    *)
(* any restarts; those that create, activate or edit one may overlap with  *)
(* them.                                                                   *)
THEOREM SomebodyRemains ==
    ASSUME IsFiniteSet(AdminIds)
    PROVE  Spec /\ []RemovalsApart => []SomebodyCanLogIn
<1>1. Init => AdminInv
    BY AdminAssumption, KeyAssumption
    DEF Init, AdminsInit, AdminInv, AdminsTypeOK, Backends, NoAdmins, Admin, NoKey,
        ConfiguredKey, Running, Draining
<1>2. RemovalsApart /\ AdminInv /\ [Next]_vars => AdminInv'
    BY AdminsMoveAlone, StepLeavesOne
<1>3. AdminInv => SomebodyCanLogIn
    BY DEF AdminInv, SomebodyCanLogIn
<1> QED
    BY <1>1, <1>2, <1>3, PTL DEF Spec

-----------------------------------------------------------------------------
(* Keys.  What a kept cookie was signed with is what the database holds,   *)
(* and what a process on the database signs with unless it is configured.  *)

KeyInv ==
    /\ AdminsTypeOK
    /\ \A c \in cookies : c.kept => c.key = storedKey /\ storedKey # NoKey
    /\ pc \in Running /\ backend = "sqlite" /\ hashKey # ConfiguredKey
          => hashKey = storedKey /\ storedKey # NoKey

LEMMA KeysKept ==
    ASSUME KeyInv, AdminsMove
    PROVE  KeyInv'
<1> USE DEF KeyInv
<1>0. AdminsTypeOK'
    BY AdminsTyped
<1>1. ASSUME UNCHANGED <<backend, keyVars>>, cookies' \subseteq cookies,
             pc \in Running \/ pc' \notin Running
      PROVE  KeyInv'
    BY <1>0, <1>1 DEF keyVars
<1>2. CASE AdminsServe /\ pc \in Running /\ UNCHANGED startVars
    <2>1. ASSUME NEW a \in AdminIds, Login(a)
          PROVE  KeyInv'
        <3> DEFINE k == backend = "sqlite" /\ hashKey # ConfiguredKey
               new == [admin |-> a, key |-> hashKey, kept |-> k]
        <3>1. cookies' = cookies \cup {new}
            BY <2>1 DEF Login
        <3>2. new.kept => new.key = storedKey /\ storedKey # NoKey
            <4>1. k => hashKey = storedKey /\ storedKey # NoKey
                BY <1>2
            <4> HIDE DEF k
            <4> QED
                BY <4>1
        <3> HIDE DEF new
        <3>3. \A c \in cookies' : c.kept => c.key = storedKey /\ storedKey # NoKey
            BY <3>1, <3>2
        <3> QED
            BY <1>0, <1>2, <2>1, <3>3 DEF Login, keyVars, startVars
    <2>2. ASSUME NEW w \in Workers, Count(w) \/ Write(w) \/ Drops(w)
          PROVE  KeyInv'
        BY <1>1, <1>2, <2>2 DEF Count, Write, Drops
    <2>3. ASSUME NEW a \in AdminIds, CreateAdmin(a)
          PROVE  KeyInv'
        BY <1>1, <1>2, <2>3 DEF CreateAdmin
    <2>4. ASSUME NEW w \in Workers, NEW a \in AdminIds,
                 NEW does \in {"activate", "deactivate", "edit", "delete"}, Read(w, does, a)
          PROVE  KeyInv'
        BY <1>1, <1>2, <2>4 DEF Read
    <2>5. ASSUME NEW c \in cookies, Visit(c) \/ Logout(c)
          PROVE  KeyInv'
        BY <1>1, <1>2, <2>5 DEF Visit, Logout
    <2> QED
        BY <1>2, <2>1, <2>2, <2>3, <2>4, <2>5 DEF AdminsServe
<1>3. CASE pc = "loaded" /\ pc' = "bootstrapped" /\ bootstrapAdmin(Configured)
    BY <1>0, <1>3 DEF bootstrapAdmin, keyVars, Running, Draining
<1>4. ASSUME NEW configured \in BOOLEAN, LoadOrCreateSessionHashKey(configured)
      PROVE  KeyInv'
    <2>1. lastKey \in 0..(MaxKeys + 1)
        BY DEF AdminsTypeOK
    <2>2. lastKey + 1 # NoKey
        BY <2>1, KeyAssumption DEF NoKey
    <2>3. CASE configured
        BY <1>0, <1>4, <2>3 DEF LoadOrCreateSessionHashKey
    <2>4. CASE ~configured /\ backend = "sqlite" /\ storedKey # NoKey
        BY <1>0, <1>4, <2>4 DEF LoadOrCreateSessionHashKey
    <2>5. CASE ~configured /\ backend = "sqlite" /\ storedKey = NoKey
        BY <1>0, <1>4, <2>2, <2>5 DEF LoadOrCreateSessionHashKey, NewKey
    <2>6. CASE ~configured /\ backend # "sqlite"
        BY <1>0, <1>4, <2>6 DEF LoadOrCreateSessionHashKey
    <2> QED
        BY <2>3, <2>4, <2>5, <2>6
<1>5. CASE AdminsEnd /\ pc' = "down"
    BY <1>0, <1>5 DEF AdminsEnd, Running, Draining
<1>6. CASE /\ UNCHANGED adminVars
           /\ \/ pc' = pc
              \/ pc = "down" /\ pc' = "loaded"
              \/ pc \in Running /\ pc' \in Running
    BY <1>0, <1>6 DEF adminVars, Running, Draining
<1> QED
    BY <1>2, <1>3, <1>4, <1>5, <1>6 DEF AdminsMove

(* Sessions survive restarts: no start makes a second key for a database.  *)
THEOREM CookiesSurvive == Spec => []SignedInStaysIn
<1>1. Init => KeyInv
    BY AdminAssumption, KeyAssumption
    DEF Init, AdminsInit, KeyInv, AdminsTypeOK, Backends, NoAdmins, Admin, NoKey,
        ConfiguredKey, Running, Draining
<1>2. KeyInv /\ [Next]_vars => KeyInv'
    BY AdminsMoveAlone, KeysKept
<1>3. KeyInv => SignedInStaysIn
    BY DEF KeyInv, SignedInStaysIn, Admits, Verifies
<1> QED
    BY <1>1, <1>2, <1>3, PTL DEF Spec

-----------------------------------------------------------------------------
(* Types of the life cycle; those of the parts it has are above.           *)

ControlTypeOK ==
    /\ pc \in {"down", "loaded", "bootstrapped"} \cup Running
    /\ boots \in 0..MaxBoots
    /\ given \in Given \cup {None}
    /\ cfg # None => pc \in {"loaded", "bootstrapped"}
    /\ signalled \in BOOLEAN /\ expired \in BOOLEAN /\ busy \in BOOLEAN
    /\ cleanup \in {"running", "done"} /\ stamp \in {"running", "done"}

LEMMA ControlTyped ==
    ASSUME ControlTypeOK, [Next]_vars
    PROVE  ControlTypeOK'
<1> USE DEF ControlTypeOK
<1>1. ASSUME NEW g \in Given, Load(g) PROVE ControlTypeOK'
    BY <1>1, BootAssumption DEF Load, serveVars
<1>2. CASE New
    BY <1>2 DEF New, End, serveVars
<1>3. CASE Serve
    BY <1>3 DEF Serve, Running
<1>4. CASE \/ Runs(Admins) /\ UNCHANGED <<serveVars, streamVars>>
           \/ Runs(Events) /\ UNCHANGED <<serveVars, adminVars>>
           \/ UNCHANGED vars
    <2>1. UNCHANGED <<startVars, serveVars>>
        BY <1>4 DEF Runs, vars
    <2> QED
        BY <2>1 DEF startVars, serveVars
<1>5. CASE Runs(Background)
    BY <1>5 DEF Runs, startVars, Background, BeginProtocol, EndProtocol, BeginStamp,
                UpdateLastUsed, CleanupDone, Signal
<1>6. CASE Expire
    BY <1>6 DEF Expire, startVars
<1>7. CASE ReleaseStreams \/ CloseHTTP \/ DrainHTTP \/ DrainProtocol \/ CloseStores
    BY <1>7 DEF ReleaseStreams, CloseHTTP, DrainHTTP, DrainProtocol, CloseStores, Goes,
                serveVars, Running, Draining
<1>8. CASE Exit \/ Crash
    BY <1>8 DEF Exit, Crash, End
<1> QED
    BY <1>1, <1>2, <1>3, <1>4, <1>5, <1>6, <1>7, <1>8 DEF Next, Shut

(* Type correctness, for any layers, administrators, streams and bounds.   *)
THEOREM ServerTypes == Spec => []TypeOK
<1>1. Init => ControlTypeOK /\ AdminsTypeOK /\ StreamsTypeOK
    <2>1. Init => ControlTypeOK
        <3>1. 0 \in 0..MaxBoots
            BY BootAssumption
        <3> QED
            BY <3>1, Zenon DEF Init, ControlTypeOK
    <2>2. Init => AdminsTypeOK /\ StreamsTypeOK
        BY AdminAssumption, KeyAssumption
        DEF Init, AdminsInit, NoStreams, AdminsTypeOK, StreamsTypeOK, Backends, NoAdmins,
            Admin, NoKey, ConfiguredKey
    <2> QED
        BY <2>1, <2>2
<1>2. ControlTypeOK /\ AdminsTypeOK /\ StreamsTypeOK /\ NoPanic /\ [Next]_vars
          => (ControlTypeOK /\ AdminsTypeOK /\ StreamsTypeOK)'
    BY StreamsMoveAlone, StreamsKept, AdminsMoveAlone, AdminsTyped, ControlTyped
<1>3. ControlTypeOK /\ AdminsTypeOK /\ StreamsTypeOK => TypeOK
    BY DEF ControlTypeOK, TypeOK
<1> QED
    BY <1>1, <1>2, <1>3, ChannelsCloseOnce, PTL DEF Spec

-----------------------------------------------------------------------------
(* The life cycle.  What a stage of the shutdown has waited for stays so:  *)
(* a server that is told to shut down takes no new requests.               *)

EndInv ==
    /\ pc \in {"drainProtocol", "waitCleanup", "closed"} => expired \/ HTTPIdle
    /\ pc \in {"waitCleanup", "closed"} => expired \/ ~busy
    /\ pc = "closed" => cleanup = "done"

LEMMA IdleStays ==
    ASSUME HTTPIdle, ~HTTPOpen, AdminsTypeOK, StreamsTypeOK,
           \/ Runs(Admins) /\ UNCHANGED streamVars
           \/ Runs(Events) /\ UNCHANGED adminVars
    PROVE  HTTPIdle'
<1>1. CASE Runs(Admins) /\ UNCHANGED streamVars
    <2>1. UNCHANGED request
        BY <1>1 DEF Runs, Admins, Administer, HandleAdmin, StoreGone, Count, Write, HTTPIdle,
                    Logout
    <2> QED
        BY <1>1, <2>1 DEF HTTPIdle, streamVars
<1>2. CASE Runs(Events) /\ UNCHANGED adminVars
    <2>1. FALSE
        BY <1>2 DEF Runs, Events, Stream, HandleStream, subscribe, SeeClosed, unsubscribe,
                    ClientGone, HTTPIdle
    <2> QED
        BY <2>1
<1> QED
    BY <1>1, <1>2

LEMMA EndKept ==
    ASSUME EndInv, AdminsTypeOK, StreamsTypeOK, [Next]_vars
    PROVE  EndInv'
<1> USE DEF EndInv
<1>1. CASE (\E g \in Given : Load(g)) \/ New \/ Serve
    <2>1. pc' \in {"down", "loaded", "bootstrapped", "serving"}
        BY <1>1 DEF Load, New, End, Serve
    <2> QED
        BY <2>1
<1>2. CASE \/ Runs(Admins) /\ UNCHANGED <<serveVars, streamVars>>
           \/ Runs(Events) /\ UNCHANGED <<serveVars, adminVars>>
    <2>1. UNCHANGED <<pc, expired, cleanup, busy>>
        BY <1>2 DEF Runs, startVars, serveVars
    <2>2. \/ Runs(Admins) /\ UNCHANGED streamVars
          \/ Runs(Events) /\ UNCHANGED adminVars
        BY <1>2
    <2>3. CASE HTTPIdle /\ ~HTTPOpen
        <3>1. HTTPIdle'
            BY <2>2, <2>3, IdleStays
        <3> QED
            BY <2>1, <3>1
    <2>4. CASE ~HTTPIdle \/ HTTPOpen
        BY <2>1, <2>4 DEF HTTPOpen
    <2> QED
        BY <2>3, <2>4
<1>4. CASE Runs(Background) /\ UNCHANGED <<adminVars, streamVars>>
    BY <1>4 DEF Runs, startVars, Background, BeginProtocol, EndProtocol, BeginStamp,
                UpdateLastUsed, CleanupDone, Signal,
                ProtocolOpen, HTTPOpen, HTTPIdle, adminVars, streamVars
<1>5. CASE Expire
    BY <1>5 DEF Expire, startVars
<1>6. CASE ReleaseStreams \/ CloseHTTP \/ DrainHTTP \/ DrainProtocol \/ CloseStores
    BY <1>6 DEF ReleaseStreams, CloseHTTP, DrainHTTP, DrainProtocol, CloseStores, Goes,
                serveVars, adminVars, streamVars, HTTPIdle
<1>7. CASE Exit \/ Crash
    BY <1>7 DEF Exit, Crash, End
<1>8. CASE UNCHANGED vars
    BY <1>8 DEF vars, startVars, serveVars, adminVars, streamVars, HTTPIdle
<1> QED
    BY <1>1, <1>2, <1>4, <1>5, <1>6, <1>7, <1>8 DEF Next, Shut

(* The stores are closed last: after the cleanup has returned, and after   *)
(* the handlers of both servers unless the time for that has run out.      *)
THEOREM StoresOutlive == Spec => []StoreOutlives
<1>1. Init => EndInv /\ AdminsTypeOK /\ StreamsTypeOK
    BY AdminAssumption, KeyAssumption
    DEF Init, AdminsInit, NoStreams, EndInv, AdminsTypeOK, StreamsTypeOK, Backends, NoAdmins,
        Admin, NoKey, ConfiguredKey
<1>2. EndInv /\ AdminsTypeOK /\ StreamsTypeOK /\ NoPanic /\ [Next]_vars
          => (EndInv /\ AdminsTypeOK /\ StreamsTypeOK)'
    BY StreamsMoveAlone, StreamsKept, AdminsMoveAlone, AdminsTyped, EndKept
<1>3. EndInv => StoreOutlives
    BY DEF EndInv, StoreOutlives
<1> QED
    BY <1>1, <1>2, <1>3, ChannelsCloseOnce, PTL DEF Spec

=============================================================================
