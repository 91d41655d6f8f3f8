------------------------------- MODULE Requests -------------------------------
(***************************************************************************)
(* The way of a request through the management API: the API key, the rate  *)
(* limiter, the idempotency cache, the handler with its audit event, and   *)
(* the cached answer; the keys themselves, and the two audit stores, a     *)
(* ring in memory and a hash chain in sqlite.                              *)
(*                                                                         *)
(* Every step is one critical section or one SQL statement.  The requests  *)
(* are POSTs that succeed; one that is refused on its way changes nothing  *)
(* and is over.  The tenants' keys (tenantAPIKeyMiddleware) are those of   *)
(* TenantStores.                                                           *)
(***************************************************************************)
EXTENDS RingLog, FiniteSets

CONSTANTS
    Calls,       \* requests in progress at the same time
    Addrs,       \* IP addresses
    Trusted,     \* those of the trusted proxies
    Keys,        \* API keys kept in sqlite
    IdemKeys,    \* Idempotency-Key headers, with the path
    Limit,       \* tokens of a bucket
    Refill,      \* ticks until a token comes back
    EvictAfter,  \* ticks after which a bucket is forgotten
    TTL,         \* ticks a cached answer is kept
    Faults,      \* statements of an append that may fail: "read", "insert"
    MaxTime,     \* bound on the clock
    MaxRequests, \* bound on the requests
    None

ASSUME RequestsAssumption ==
    /\ MaxRequests \in Nat /\ Events = 1..MaxRequests /\ None \notin Addrs \cup Keys \cup IdemKeys
    /\ Trusted \in SUBSET Addrs
    /\ Limit \in Nat \ {0} /\ Refill \in Nat \ {0}
    /\ EvictAfter \in Nat
    /\ EvictAfter >= Limit * Refill    \* five minutes, and a full refill takes one
    /\ TTL \in Nat /\ MaxTime \in Nat
    /\ None \notin [tokens : 0..Limit, lastSeen : 0..MaxTime]

VARIABLES
    backend,
    now,
    begun,       \* how many requests have been made
    emitted,     \* the counter that numbers audit events
    call,        \* the requests in progress
    key,         \* the keys: not issued, active or revoked
    touching,    \* last uses of keys to be written, each by a goroutine
    bucket,      \* the buckets of the rate limiter
    cache,       \* when the answer under an idempotency key was cached
    rows,        \* audit_log: the event and the hash of each row
    admitted,    \* history: the requests the limiter has let through, trusted proxies' left out
    answered,    \* history: when a request with the key was answered by this process
    disturbed    \* history: appends to audit_log have overlapped, or one misread the last hash

requestVars == <<backend, now, begun, emitted, call, key, touching, bucket, cache, rows,
                 admitted, answered, disturbed>>
vars == <<ring, requestVars>>

Idle == [pc |-> "idle", event |-> 0, remote |-> None, ip |-> None,
         idem |-> None, prev |-> <<>>]

Call ==
    [pc        : {"idle", "limit", "lookup", "work", "insert", "remember"},
     event     : Events \cup {0},             \* the audit event being stored
     remote    : Addrs \cup {None},
     ip        : Addrs \cup {None},           \* the address it counts for
     idem      : IdemKeys \cup {None},
     prev      : Seq(Events)]                 \* the hash that was read

(* A hash stands for what it was computed from.                            *)
Row == [event : Events, hash : Seq(Events)]

TypeOK ==
    /\ RingTypeOK
    /\ backend \in {"memory", "sqlite"}
    /\ now \in 0..MaxTime /\ begun \in 0..MaxRequests /\ emitted \in 0..MaxRequests
    /\ call \in [Calls -> Call]
    /\ key \in [Keys -> {"none", "active", "revoked"}]
    /\ touching \in SUBSET Keys
    /\ bucket \in [Addrs -> [tokens : 0..Limit, lastSeen : Nat] \cup {None}]
    /\ cache \in [IdemKeys -> Nat \cup {None}]
    /\ rows \in Seq(Row)
    /\ admitted \in SUBSET [nth : Events, at : Nat, remote : Addrs]
    /\ answered \in [IdemKeys -> Nat \cup {None}]
    /\ disturbed \in BOOLEAN

Init ==
    /\ RingInit
    /\ backend \in {"memory", "sqlite"}
    /\ now = 0 /\ begun = 0 /\ emitted = 0
    /\ call = [c \in Calls |-> Idle]
    /\ key = [k \in Keys |-> "none"]
    /\ touching = {}
    /\ bucket = [a \in Addrs |-> None]
    /\ cache = [i \in IdemKeys |-> None]
    /\ rows = <<>>
    /\ admitted = {}
    /\ answered = [i \in IdemKeys |-> None]
    /\ disturbed = FALSE

Goto(c, pc) == call' = [call EXCEPT ![c] = [Idle EXCEPT !.pc = pc, !.idem = call[c].idem]]

Finish(c) == call' = [call EXCEPT ![c] = Idle]

-----------------------------------------------------------------------------
(* API keys.  Creating and revoking are single statements.                 *)

CreateKey(k) ==
    /\ backend = "sqlite"
    /\ key[k] = "none"
    /\ key' = [key EXCEPT ![k] = "active"]
    /\ UNCHANGED <<ring, backend, now, begun, emitted, call, touching, bucket, cache, rows,
                   admitted, answered, disturbed>>

RevokeKey(k) ==
    /\ key[k] = "active"
    /\ key' = [key EXCEPT ![k] = "revoked"]
    /\ UNCHANGED <<ring, backend, now, begun, emitted, call, touching, bucket, cache, rows,
                   admitted, answered, disturbed>>

(* Slip: the record that was read is written back whole.                   *)
TouchWhole(k) ==
    /\ k \in touching
    /\ touching' = touching \ {k}
    /\ key' = [key EXCEPT ![k] = "active"]
    /\ UNCHANGED <<ring, backend, now, begun, emitted, call, bucket, cache, rows,
                   admitted, answered, disturbed>>

(* The goroutine writes last_used_at, and no other column.                 *)
UpdateLastUsed(k) ==
    /\ k \in touching
    /\ touching' = touching \ {k}
    /\ UNCHANGED <<ring, backend, now, begun, emitted, call, key, bucket, cache, rows,
                   admitted, answered, disturbed>>

(* Slip: the header is believed whoever sends it.                          *)
ForwardedIP(remote, forwarded) == IF forwarded # None THEN forwarded ELSE remote

(* The address a request counts for: a trusted proxy says it in a header.  *)
ClientIP(remote, forwarded) ==
    IF remote \in Trusted /\ forwarded # None THEN forwarded ELSE remote

(* A request passes with the static key (None) or with an active one.      *)
Authenticate(c, k, remote, forwarded, idem) ==
    /\ call[c].pc = "idle"
    /\ begun < MaxRequests
    /\ k # None => key[k] = "active"
    /\ forwarded # remote
    /\ begun' = begun + 1
    /\ call' = [call EXCEPT ![c] =
          [Idle EXCEPT !.pc = "limit", !.remote = remote,
                       !.ip = ClientIP(remote, forwarded), !.idem = idem]]
    /\ touching' = touching \cup ({k} \ {None})
    /\ UNCHANGED <<ring, backend, now, emitted, key, bucket, cache, rows, admitted, answered, disturbed>>

-----------------------------------------------------------------------------
(* The rate limiter: a bucket of tokens for every address.                 *)

(* Slip: the time that tokens came back for is counted again.              *)
RefilledAgain(b) ==
    LET tokens == b.tokens + (now - b.lastSeen) \div Refill
    IN  [tokens |-> IF tokens > Limit THEN Limit ELSE tokens, lastSeen |-> b.lastSeen]

(* The time that is left over when tokens come back is lost.               *)
Refilled(b) ==
    LET refilled == (now - b.lastSeen) \div Refill
        tokens == b.tokens + refilled
    IN  IF refilled > 0
        THEN [tokens |-> IF tokens > Limit THEN Limit ELSE tokens, lastSeen |-> now]
        ELSE b

(* The bucket a request of an address finds: a new one is full.            *)
Found(ip) == IF bucket[ip] = None THEN [tokens |-> Limit, lastSeen |-> now] ELSE Refilled(bucket[ip])

Allow(c) ==
    LET ip == call[c].ip
    IN  /\ call[c].pc = "limit"
        /\ Found(ip).tokens > 0
        /\ bucket' = [bucket EXCEPT ![ip] = [Found(ip) EXCEPT !.tokens = @ - 1]]
        /\ admitted' = admitted \cup [nth : {Cardinality(admitted) + 1}, at : {now},
                                       remote : {call[c].remote} \ Trusted]
        /\ Goto(c, "lookup")
        /\ UNCHANGED <<ring, backend, now, begun, emitted, key, touching, cache, rows, answered, disturbed>>

Reject(c) ==
    LET ip == call[c].ip
    IN  /\ call[c].pc = "limit"
        /\ Found(ip).tokens = 0
        /\ bucket' = [bucket EXCEPT ![ip] = Found(ip)]
        /\ Finish(c)
        /\ UNCHANGED <<ring, backend, now, begun, emitted, key, touching, cache, rows,
                       admitted, answered, disturbed>>

EvictBucket(ip) ==
    /\ bucket[ip] # None
    /\ now - bucket[ip].lastSeen > EvictAfter
    /\ bucket' = [bucket EXCEPT ![ip] = None]
    /\ UNCHANGED <<ring, backend, now, begun, emitted, call, key, touching, cache, rows,
                   admitted, answered, disturbed>>

-----------------------------------------------------------------------------
(* The idempotency cache.                                                  *)

Cached(idem) == idem # None /\ cache[idem] # None /\ now - cache[idem] <= TTL

Replay(c) ==
    /\ call[c].pc = "lookup"
    /\ call[c].idem \in IdemKeys /\ Cached(call[c].idem)
    /\ Finish(c)
    /\ UNCHANGED <<ring, backend, now, begun, emitted, key, touching, bucket, cache, rows,
                   admitted, answered, disturbed>>

Proceed(c) ==
    /\ call[c].pc = "lookup"
    /\ call[c].idem \in IdemKeys => ~Cached(call[c].idem)
    /\ Goto(c, "work")
    /\ UNCHANGED <<ring, backend, now, begun, emitted, key, touching, bucket, cache, rows,
                   admitted, answered, disturbed>>

(* The answer is cached when the handler is done, whatever it says.        *)
Remember(c) ==
    /\ call[c].pc = "remember"
    /\ cache' = [i \in IdemKeys |-> IF i = call[c].idem THEN now ELSE cache[i]]
    /\ answered' = [i \in IdemKeys |-> IF i = call[c].idem THEN now ELSE answered[i]]
    /\ Finish(c)
    /\ UNCHANGED <<ring, backend, now, begun, emitted, key, touching, bucket, rows, admitted, disturbed>>

(* Slip: the fresh answers are thrown away.                                *)
EvictFresh(i) ==
    /\ cache[i] # None
    /\ now - cache[i] <= TTL
    /\ cache' = [cache EXCEPT ![i] = None]
    /\ UNCHANGED <<ring, backend, now, begun, emitted, call, key, touching, bucket, rows,
                   admitted, answered, disturbed>>

EvictAnswer(i) ==
    /\ cache[i] # None
    /\ now - cache[i] > TTL
    /\ cache' = [cache EXCEPT ![i] = None]
    /\ UNCHANGED <<ring, backend, now, begun, emitted, call, key, touching, bucket, rows,
                   admitted, answered, disturbed>>

-----------------------------------------------------------------------------
(* The handler, as far as its audit event goes.                            *)

AppendMemory(c) ==
    /\ call[c].pc = "work"
    /\ backend = "memory"
    /\ emitted' = emitted + 1
    /\ AppendEvent(emitted')
    /\ Goto(c, "remember")
    /\ UNCHANGED <<backend, now, begun, key, touching, bucket, cache, rows,
                   admitted, answered, disturbed>>

LastHash == IF rows = <<>> THEN <<>> ELSE rows[Len(rows)].hash

(* What the append reads: if the query fails, the error is dropped, and    *)
(* the row will be chained to nothing.                                     *)
HashesRead == {LastHash} \cup (IF "read" \in Faults THEN {<<>>} ELSE {})

(* The append to sqlite reads the last hash ...                            *)
ReadLastHash(c) ==
    /\ call[c].pc = "work"
    /\ backend = "sqlite"
    /\ emitted' = emitted + 1
    /\ \E prev \in HashesRead :
          /\ call' = [call EXCEPT ![c] = [@ EXCEPT !.pc = "insert", !.event = emitted', !.prev = prev]]
          /\ disturbed' = (disturbed \/ prev # LastHash \/ \E d \in Calls : call[d].pc = "insert")
    /\ UNCHANGED <<ring, backend, now, begun, key, touching, bucket, cache, rows,
                   admitted, answered>>

(* Slip: the hash is that of the event alone.                              *)
InsertRowUnchained(c) ==
    /\ call[c].pc = "insert"
    /\ rows' = Append(rows, [event |-> call[c].event, hash |-> <<call[c].event>>])
    /\ Goto(c, "remember")
    /\ UNCHANGED <<ring, backend, now, begun, emitted, key, touching, bucket, cache,
                   admitted, answered, disturbed>>

(* ... and inserts the row in a statement of its own, whose error is       *)
(* dropped too: then the event is in no row.                               *)
InsertRow(c) ==
    /\ call[c].pc = "insert"
    /\ \/ rows' = Append(rows, [event |-> call[c].event, hash |-> Append(call[c].prev, call[c].event)])
       \/ "insert" \in Faults /\ UNCHANGED rows
    /\ Goto(c, "remember")
    /\ UNCHANGED <<ring, backend, now, begun, emitted, key, touching, bucket, cache,
                   admitted, answered, disturbed>>

(* Verify computes every hash from the one stored before it.               *)
Verify ==
    \A n \in 1..Len(rows) :
        rows[n].hash = Append(IF n = 1 THEN <<>> ELSE rows[n - 1].hash, rows[n].event)

-----------------------------------------------------------------------------
(* The clock of the model starts with the first request.                   *)
Tick ==
    /\ now < MaxTime
    /\ begun > 0
    /\ now' = now + 1
    /\ UNCHANGED <<ring, backend, begun, emitted, call, key, touching, bucket, cache, rows,
                   admitted, answered, disturbed>>

(* A restart with sqlite; without it everything begins anew.               *)
Restart ==
    /\ backend = "sqlite"
    /\ begun > 0
    /\ call' = [c \in Calls |-> Idle]
    /\ touching' = {}
    /\ bucket' = [a \in Addrs |-> None]
    /\ cache' = [i \in IdemKeys |-> None]
    /\ admitted' = {}
    /\ answered' = [i \in IdemKeys |-> None]
    /\ UNCHANGED <<ring, backend, now, begun, emitted, key, rows, disturbed>>

Handle(c) ==
    \/ Allow(c) \/ Reject(c)
    \/ Replay(c) \/ Proceed(c) \/ Remember(c)
    \/ AppendMemory(c) \/ ReadLastHash(c) \/ InsertRow(c)

Next ==
    \/ \E k \in Keys : CreateKey(k) \/ RevokeKey(k) \/ UpdateLastUsed(k)
    \/ \E c \in Calls :
          \/ \E k \in Keys \cup {None}, remote \in Addrs,
                forwarded \in Addrs \cup {None}, idem \in IdemKeys \cup {None} :
                Authenticate(c, k, remote, forwarded, idem)
          \/ Handle(c)
    \/ \E ip \in Addrs : EvictBucket(ip)
    \/ \E i \in IdemKeys : EvictAnswer(i)
    \/ Tick \/ Restart

Spec == Init /\ [][Next]_vars

-----------------------------------------------------------------------------
(* In no stretch of time more requests of an address pass than the bucket  *)
(* holds and what is refilled meanwhile, wherever the stretch begins,      *)
(* whatever is evicted in it and whatever address a client claims.         *)
RateBounded ==
    \A remote \in Addrs, from, to \in 0..now :
        from <= to =>
            Cardinality({r \in admitted : r.remote = remote /\ r.at \in from..to})
                <= Limit + (to - from) \div Refill

(* A request that is repeated after its answer, in time, is not executed   *)
(* again.                                                                  *)
RetryNotExecuted ==
    [][\A c \in Calls : call[c].pc = "lookup" /\ call'[c].pc = "work" /\ call[c].idem \in IdemKeys =>
          LET last == answered[call[c].idem] IN last # None => now - last > TTL]_vars

(* A revoked key stays revoked, whatever a request that came in time       *)
(* writes about the key later.                                             *)
RevokedForGood == [][\A k \in Keys : key[k] = "revoked" => key'[k] = "revoked"]_vars

(* As long as no two appends overlap and none has failed to read the last  *)
(* hash, the chain verifies, whatever restarts fall between the statements *)
(* of an append and whatever rows are lost.                                *)
SerialChainVerifies == ~disturbed => Verify

(* What the comment of Verify says: nobody has tampered with the rows.     *)
ChainVerifies == Verify
=============================================================================
