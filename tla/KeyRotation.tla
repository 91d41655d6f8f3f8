---------------------------- MODULE KeyRotation ----------------------------
(***************************************************************************)
(* The signing keys: rotation retires the active key, keeps it published   *)
(* for the overlap window and forgets it at the first rotation after that. *)
(* A login and POST /tokens/mint read the clock, the lifetime and the      *)
(* signer one after the other and sign with the signer they hold, while    *)
(* rotations and changes of the lifetime go on.  Nothing relates the       *)
(* window to the lifetimes.                                                *)
(*                                                                         *)
(* Rotate reads the clock before it waits for the lock.  Access and ID     *)
(* tokens are treated alike; rounding exp to seconds only shortens a       *)
(* token's life.                                                           *)
(***************************************************************************)
EXTENDS Integers, FiniteSets

CONSTANTS
    Overlaps,       \* overlap windows the configuration may set
    TTLs,           \* lifetimes the configuration and PATCH /config may set
    Expiries,       \* values of expires_in a mint request may have
    DefaultExpiry,  \* the lifetime of a mint request that has none
    Issuers,        \* requests being issued tokens at the same time
    MaxKeys,        \* bound on the keys generated
    MaxTokens,      \* bound on the tokens issued
    MaxTime,        \* bound on the clock
    None            \* no instant, no lifetime, no key

ASSUME WindowAssumption == Overlaps \subseteq Int
ASSUME LifetimeAssumption ==
    /\ TTLs \subseteq Nat \ {0}
    /\ Expiries \subseteq Int
    /\ DefaultExpiry \in Nat \ {0}
ASSUME BoundAssumption == MaxKeys \in Nat \ {0} /\ MaxTokens \in Nat /\ MaxTime \in Nat
ASSUME NoneAssumption == None \notin Nat

Kids == 1..MaxKeys

Token ==
    [kid   : Kids,
     since : Kids,  \* history: the active key when the request began
     exp   : Nat]

Issuing ==
    [pc    : {"idle", "config", "signer", "sign"},
     iat   : Nat,
     ttl   : Nat \cup {None},
     since : Kids \cup {None},  \* history
     kid   : Kids \cup {None}]  \* the signer it holds

VARIABLES
    overlap,    \* how long a retired key stays published
    now,        \* the clock
    ttl,        \* the lifetime of tokens in effect
    active,     \* the key that signs
    published,  \* the keys of the JWKS document
    retiredAt,  \* when a key was retired
    rotating,   \* the instant read by a rotation that waits for the lock
    issuing,    \* the requests being issued tokens
    tokens      \* history: the tokens issued

vars == <<overlap, now, ttl, active, published, retiredAt, rotating, issuing, tokens>>

(* One type invariant for the module.                                      *)
TypeOK ==
    /\ overlap \in Nat
    /\ now \in Nat
    /\ ttl \in TTLs
    /\ active \in Kids
    /\ published \subseteq Kids
    /\ retiredAt \in [Kids -> Nat \cup {None}]
    /\ rotating \in Nat \cup {None}
    /\ issuing \in [Issuers -> Issuing]
    /\ tokens \subseteq Token

Idle == [pc |-> "idle", iat |-> 0, ttl |-> None, since |-> None, kid |-> None]

(* NewKeyManagerWithOverlap rotates once.                                  *)
Init ==
    /\ \E window \in Overlaps : overlap = IF window < 0 THEN 0 ELSE window
    /\ now = 0
    /\ ttl \in TTLs
    /\ active = 1
    /\ published = {1}
    /\ retiredAt = [k \in Kids |-> None]
    /\ rotating = None
    /\ issuing = [i \in Issuers |-> Idle]
    /\ tokens = {}

-----------------------------------------------------------------------------
(* Rotation: one goroutine, so one at a time.  A failed key generation     *)
(* changes nothing.                                                        *)

BeginRotate ==
    /\ rotating = None
    /\ active < MaxKeys
    /\ rotating' = now
    /\ UNCHANGED <<overlap, now, ttl, active, published, retiredAt, issuing, tokens>>

Retired(k) == [retiredAt EXCEPT ![k] = rotating]

(* Slip: the key that was active until now is dropped at once.             *)
InWindowIfOld(k) == k # active

InWindow(k) ==
    Retired(active)[k] = None \/ rotating < Retired(active)[k] + overlap

Rotate ==
    /\ rotating # None
    /\ retiredAt' = Retired(active)
    /\ published' = {k \in published : InWindow(k)} \cup {active + 1}
    /\ active' = active + 1
    /\ rotating' = None
    /\ UNCHANGED <<overlap, now, ttl, issuing, tokens>>

-----------------------------------------------------------------------------
(* Issuing.                                                                *)

(* Issue reads the clock first.                                            *)
BeginIssue(i) ==
    /\ issuing[i].pc = "idle"
    /\ issuing' = [issuing EXCEPT
          ![i] = [Idle EXCEPT !.pc = "config", !.iat = now, !.since = active]]
    /\ UNCHANGED <<overlap, now, ttl, active, published, retiredAt, rotating, tokens>>

ReadConfig(i) ==
    /\ issuing[i].pc = "config"
    /\ issuing' = [issuing EXCEPT ![i].pc = "signer", ![i].ttl = ttl]
    /\ UNCHANGED <<overlap, now, ttl, active, published, retiredAt, rotating, tokens>>

MintedFor(expiresIn) == IF expiresIn > 0 THEN expiresIn ELSE DefaultExpiry

(* MintForUser: the caller chooses the lifetime, whatever is configured.   *)
BeginMint(i, expiresIn) ==
    /\ issuing[i].pc = "idle"
    /\ issuing' = [issuing EXCEPT
          ![i] = [Idle EXCEPT !.pc = "signer", !.iat = now,
                              !.ttl = MintedFor(expiresIn), !.since = active]]
    /\ UNCHANGED <<overlap, now, ttl, active, published, retiredAt, rotating, tokens>>

(* Slip: any published key signs.                                          *)
SignersPublished == published

Signers == {active}

(* Signer returns a signer for the active key and gives the lock back.     *)
GetSigner(i) ==
    /\ issuing[i].pc = "signer"
    /\ \E k \in Signers :
          issuing' = [issuing EXCEPT ![i] = [@ EXCEPT !.pc = "sign", !.kid = k]]
    /\ UNCHANGED <<overlap, now, ttl, active, published, retiredAt, rotating, tokens>>

Sign(i) ==
    /\ issuing[i].pc = "sign"
    /\ Cardinality(tokens) < MaxTokens
    /\ tokens' = tokens \cup
          {[kid   |-> issuing[i].kid,
            since |-> issuing[i].since,
            exp   |-> issuing[i].iat + issuing[i].ttl]}
    /\ issuing' = [issuing EXCEPT ![i] = Idle]
    /\ UNCHANGED <<overlap, now, ttl, active, published, retiredAt, rotating>>

-----------------------------------------------------------------------------
(* Any positive lifetime, however long the overlap window is.              *)
SetTokenTTLs(t) ==
    /\ t > 0
    /\ ttl' = t
    /\ UNCHANGED <<overlap, now, active, published, retiredAt, rotating, issuing, tokens>>

Tick ==
    /\ now < MaxTime
    /\ now' = now + 1
    /\ UNCHANGED <<overlap, ttl, active, published, retiredAt, rotating, issuing, tokens>>

Next ==
    \/ BeginRotate
    \/ Rotate
    \/ \E i \in Issuers :
          \/ BeginIssue(i) \/ ReadConfig(i) \/ GetSigner(i) \/ Sign(i)
          \/ \E expiresIn \in Expiries : BeginMint(i, expiresIn)
    \/ \E t \in TTLs \cup {0} : SetTokenTTLs(t)
    \/ Tick

Spec == Init /\ [][Next]_vars

-----------------------------------------------------------------------------
(* VerifyJWT tries every published key, then looks at the expiry.          *)
Verifies(token) == token.kid \in published

Expired(token) == now > token.exp

WindowOver(k) == retiredAt[k] # None /\ retiredAt[k] + overlap <= now

(* keys.go: a token verifies until it expires, or until the overlap window *)
(* of its key closes, whatever rotations, held signers and lifetimes there *)
(* are in between.  security.md leaves the second half out; nothing makes  *)
(* the window outlast the lifetimes.  The window counts from the instant   *)
(* Rotate read before it waited for the lock.                              *)
VerifiesThroughWindow ==
    \A token \in tokens :
        Expired(token) \/ Verifies(token) \/ WindowOver(token.kid)

(* keys.go: retired keys are verify-only.  A token is signed by a key that *)
(* was still to be retired when its request began.  (A request that has    *)
(* its signer when the key is retired does sign with it, however late.)    *)
RetiredVerifyOnly == \A token \in tokens : token.since <= token.kid
=============================================================================
