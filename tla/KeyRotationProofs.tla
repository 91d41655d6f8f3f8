--------------------------- MODULE KeyRotationProofs ---------------------------
(***************************************************************************)
(* What TLAPS proves of KeyRotation for every overlap window, lifetime and *)
(* number of keys and requests: its types, that a key retired before a     *)
(* request began does not sign for it, and that a token verifies until it  *)
(* expires or the window of its key closes.                                *)
(***************************************************************************)
EXTENDS KeyRotation, TLAPS

(* Keys are retired in the order in which they were generated.             *)
KeyOrder ==
    /\ active \in published
    /\ \A k \in Kids : k < active => retiredAt[k] \in Nat /\ retiredAt[k] <= now
    /\ \A k \in Kids : active <= k => retiredAt[k] = None
    /\ \A k \in published : k <= active

(* A key leaves the document no sooner than its window ends.               *)
Windows == \A k \in Kids : k < active /\ k \notin published => WindowOver(k)

RotationUnderWay == rotating # None => rotating <= now /\ active < MaxKeys

(* A signer was the active one at some moment since the request began.     *)
Signing ==
    \A i \in Issuers :
        /\ issuing[i].pc # "idle" =>
              issuing[i].since \in Kids /\ issuing[i].since <= active
        /\ issuing[i].pc \in {"signer", "sign"} => issuing[i].ttl \in Nat
        /\ issuing[i].pc = "sign" =>
              /\ issuing[i].kid \in Kids
              /\ issuing[i].since <= issuing[i].kid
              /\ issuing[i].kid <= active

TokenKeys == \A token \in tokens : token.kid <= active

IInv ==
    /\ TypeOK
    /\ KeyOrder
    /\ Windows
    /\ RotationUnderWay
    /\ Signing
    /\ TokenKeys
    /\ RetiredVerifyOnly

-----------------------------------------------------------------------------
LEMMA InitInv == Init => IInv
<1> SUFFICES ASSUME Init PROVE IInv
    OBVIOUS
<1> USE NoneAssumption, LifetimeAssumption, BoundAssumption
<1>1. overlap \in Nat
    BY WindowAssumption DEF Init
<1>2. TypeOK
    BY <1>1 DEF Init, TypeOK, Kids, Issuing, Idle
<1>3. KeyOrder /\ Windows
    BY DEF Init, KeyOrder, Windows, Kids
<1>4. RotationUnderWay /\ Signing /\ TokenKeys /\ RetiredVerifyOnly
    BY DEF Init, RotationUnderWay, Signing, TokenKeys, RetiredVerifyOnly, Idle
<1> QED
    BY <1>2, <1>3, <1>4 DEF IInv

LEMMA RotateStep == IInv /\ Rotate => IInv'
<1> SUFFICES ASSUME IInv, Rotate PROVE IInv'
    OBVIOUS
<1> USE NoneAssumption, BoundAssumption
<1>1. /\ active \in Kids /\ rotating \in Nat /\ now \in Nat /\ overlap \in Nat
      /\ rotating <= now /\ active < MaxKeys
    BY DEF IInv, TypeOK, RotationUnderWay, Rotate
<1>2. /\ active' = active + 1 /\ rotating' = None
      /\ UNCHANGED <<overlap, now, ttl, issuing, tokens>>
      /\ active + 1 \in Kids
    BY <1>1 DEF Rotate, Kids
<1>3. /\ retiredAt \in [Kids -> Nat \cup {None}]
      /\ retiredAt' \in [Kids -> Nat \cup {None}]
      /\ retiredAt'[active] = rotating
      /\ \A k \in Kids : k # active => retiredAt'[k] = retiredAt[k]
    BY <1>1 DEF IInv, TypeOK, Rotate, Retired
<1>4. /\ published \subseteq Kids
      /\ \A k \in Kids : k \in published' <=>
            \/ k = active + 1
            \/ k \in published /\ (retiredAt'[k] = None \/ rotating < retiredAt'[k] + overlap)
      /\ published' \subseteq Kids
    BY <1>2 DEF IInv, TypeOK, Rotate, InWindow, Retired
<1>5. TypeOK'
    BY <1>2, <1>3, <1>4 DEF IInv, TypeOK
<1>6. KeyOrder'
    <2>1. active' \in published'
        BY <1>2, <1>4
    <2>2. ASSUME NEW k \in Kids, k < active'
          PROVE  retiredAt'[k] \in Nat /\ retiredAt'[k] <= now'
        BY <1>1, <1>2, <1>3, <2>2 DEF IInv, KeyOrder, Kids
    <2>3. ASSUME NEW k \in Kids, active' <= k PROVE retiredAt'[k] = None
        BY <1>1, <1>2, <1>3, <2>3 DEF IInv, KeyOrder, Kids
    <2>4. ASSUME NEW k \in published' PROVE k <= active'
        BY <1>1, <1>2, <1>4, <2>4 DEF IInv, KeyOrder, Kids
    <2> QED
        BY <2>1, <2>2, <2>3, <2>4 DEF KeyOrder
<1>7. ASSUME NEW k \in Kids, k < active', k \notin published'
      PROVE  retiredAt'[k] # None /\ retiredAt'[k] + overlap' <= now'
    <2>1. retiredAt'[k] \in Nat
        BY <1>6, <1>7 DEF KeyOrder
    <2>2. CASE k \in published
        <3>1. ~(rotating < retiredAt'[k] + overlap)
            BY <1>4, <1>7, <2>2
        <3> QED
            BY <1>1, <1>2, <2>1, <3>1
    <2>3. CASE k \notin published
        <3>1. k # active
            BY <2>3 DEF IInv, KeyOrder
        <3>2. k < active
            BY <1>1, <1>2, <1>7, <3>1 DEF Kids
        <3> QED
            BY <1>2, <1>3, <2>3, <3>1, <3>2 DEF IInv, Windows, WindowOver
    <2> QED
        BY <2>2, <2>3
<1>8. RotationUnderWay'
    BY <1>2 DEF RotationUnderWay
<1>9. Signing'
    BY <1>1, <1>2 DEF IInv, Signing, Kids
<1>10. TokenKeys' /\ RetiredVerifyOnly'
    BY <1>1, <1>2 DEF IInv, TypeOK, Token, TokenKeys, RetiredVerifyOnly, Kids
<1>11. Windows'
    BY <1>7 DEF Windows, WindowOver
<1> QED
    BY <1>5, <1>6, <1>8, <1>9, <1>10, <1>11 DEF IInv

(* The steps of a request that leave the keys and the tokens alone.        *)
LEMMA RequestSteps ==
    ASSUME IInv, NEW i \in Issuers,
           \/ BeginIssue(i) \/ ReadConfig(i) \/ GetSigner(i)
           \/ \E expiresIn \in Expiries : BeginMint(i, expiresIn)
    PROVE  IInv'
<1> USE NoneAssumption, BoundAssumption, LifetimeAssumption
<1>1. UNCHANGED <<overlap, now, ttl, active, published, retiredAt, rotating, tokens>>
    BY DEF BeginIssue, ReadConfig, GetSigner, BeginMint
<1>2. /\ now \in Nat /\ active \in Kids /\ ttl \in Nat
      /\ issuing \in [Issuers -> Issuing]
    BY DEF IInv, TypeOK
<1>3. /\ issuing[i] \in Issuing
      /\ issuing[i].pc # "idle" => issuing[i].since \in Kids /\ issuing[i].since <= active
      /\ issuing[i].pc \in {"signer", "sign"} => issuing[i].ttl \in Nat
    BY <1>2 DEF IInv, Signing
<1>4. PICK s \in Issuing :
          /\ issuing' = [issuing EXCEPT ![i] = s]
          /\ s.pc # "idle" => s.since \in Kids /\ s.since <= active
          /\ s.pc \in {"signer", "sign"} => s.ttl \in Nat
          /\ s.pc = "sign" => s.kid \in Kids /\ s.since <= s.kid /\ s.kid <= active
    <2> DEFINE Fits(s) ==
            /\ s \in Issuing
            /\ issuing' = [issuing EXCEPT ![i] = s]
            /\ s.pc # "idle" => s.since \in Kids /\ s.since <= active
            /\ s.pc \in {"signer", "sign"} => s.ttl \in Nat
            /\ s.pc = "sign" => s.kid \in Kids /\ s.since <= s.kid /\ s.kid <= active
    <2>1. CASE BeginIssue(i)
        <3> DEFINE s == [Idle EXCEPT !.pc = "config", !.iat = now, !.since = active]
        <3>1. s \in Issuing /\ s.pc = "config" /\ s.since = active
            BY <1>2 DEF Idle, Issuing
        <3>2. issuing' = [issuing EXCEPT ![i] = s]
            BY <2>1 DEF BeginIssue
        <3>3. active <= active
            BY <1>2 DEF Kids
        <3> QED
            BY <1>2, <3>1, <3>2, <3>3
    <2>2. CASE ReadConfig(i)
        <3>1. Fits([issuing[i] EXCEPT !.pc = "signer", !.ttl = ttl])
            BY <1>2, <1>3, <2>2 DEF ReadConfig, Issuing
        <3> QED
            BY <3>1
    <2>3. CASE GetSigner(i)
        <3> DEFINE s == [issuing[i] EXCEPT !.pc = "sign", !.kid = active]
        <3>1. s \in Issuing /\ s.kid = active /\ s.since = issuing[i].since /\ s.ttl = issuing[i].ttl
            BY <1>2, <1>3 DEF Issuing
        <3>2. PICK k \in Signers :
                  issuing' = [issuing EXCEPT ![i] = [issuing[i] EXCEPT !.pc = "sign", !.kid = k]]
            BY <1>2, <2>3 DEF GetSigner
        <3>3. issuing' = [issuing EXCEPT ![i] = s]
            BY <3>2 DEF Signers
        <3>4. issuing[i].pc = "signer"
            BY <2>3 DEF GetSigner
        <3>5. active <= active
            BY <1>2 DEF Kids
        <3> QED
            BY <1>2, <1>3, <3>1, <3>3, <3>4, <3>5
    <2>4. ASSUME NEW expiresIn \in Expiries, BeginMint(i, expiresIn)
          PROVE  \E s : Fits(s)
        <3>1. MintedFor(expiresIn) \in Nat
            BY DEF MintedFor
        <3> DEFINE s == [Idle EXCEPT !.pc = "signer", !.iat = now,
                                     !.ttl = MintedFor(expiresIn), !.since = active]
        <3>2. /\ s \in Issuing /\ s.pc = "signer" /\ s.since = active
              /\ s.ttl = MintedFor(expiresIn)
            BY <1>2, <3>1 DEF Idle, Issuing
        <3>3. issuing' = [issuing EXCEPT ![i] = s]
            BY <2>4 DEF BeginMint
        <3>4. active <= active
            BY <1>2 DEF Kids
        <3> QED
            BY <1>2, <3>1, <3>2, <3>3, <3>4
    <2> QED
        BY <2>1, <2>2, <2>3, <2>4
<1>5. TypeOK'
    BY <1>1, <1>2, <1>4 DEF IInv, TypeOK
<1>6. Signing'
    BY <1>1, <1>2, <1>4 DEF IInv, Signing
<1>7. KeyOrder' /\ Windows' /\ RotationUnderWay' /\ TokenKeys' /\ RetiredVerifyOnly'
    BY <1>1 DEF IInv, KeyOrder, Windows, WindowOver, RotationUnderWay, TokenKeys,
                RetiredVerifyOnly
<1> QED
    BY <1>5, <1>6, <1>7 DEF IInv

LEMMA SignStep ==
    ASSUME IInv, NEW i \in Issuers, Sign(i)
    PROVE  IInv'
<1> USE NoneAssumption, BoundAssumption
<1> DEFINE new == [kid   |-> issuing[i].kid,
                   since |-> issuing[i].since,
                   exp   |-> issuing[i].iat + issuing[i].ttl]
<1>1. /\ tokens' = tokens \cup {new}
      /\ issuing' = [issuing EXCEPT ![i] = Idle]
      /\ UNCHANGED <<overlap, now, ttl, active, published, retiredAt, rotating>>
    BY DEF Sign
<1>2. /\ issuing[i].iat \in Nat /\ issuing[i].ttl \in Nat
      /\ issuing[i].kid \in Kids /\ issuing[i].since \in Kids
      /\ issuing[i].since <= issuing[i].kid /\ issuing[i].kid <= active
    BY DEF IInv, TypeOK, Signing, Issuing, Sign
<1>3. new \in Token /\ new.since <= new.kid /\ new.kid <= active
    BY <1>2 DEF Token
<1> HIDE DEF new
<1>4. TypeOK'
    BY <1>1, <1>3 DEF IInv, TypeOK, Issuing, Idle
<1>5. KeyOrder' /\ Windows' /\ RotationUnderWay'
    BY <1>1 DEF IInv, KeyOrder, Windows, WindowOver, RotationUnderWay
<1>6. Signing'
    BY <1>1 DEF IInv, TypeOK, Signing, Idle
<1>7. TokenKeys' /\ RetiredVerifyOnly'
    BY <1>1, <1>3 DEF IInv, TokenKeys, RetiredVerifyOnly
<1> QED
    BY <1>4, <1>5, <1>6, <1>7 DEF IInv

(* The clock, the start of a rotation and a change of the lifetime.        *)
LEMMA OtherSteps ==
    ASSUME IInv,
           \/ BeginRotate
           \/ Tick
           \/ \E t \in TTLs \cup {0} : SetTokenTTLs(t)
           \/ UNCHANGED vars
    PROVE  IInv'
<1> USE NoneAssumption, BoundAssumption, LifetimeAssumption
<1>1. UNCHANGED <<overlap, active, published, retiredAt, issuing, tokens>>
    BY DEF BeginRotate, Tick, SetTokenTTLs, vars
<1>2. now \in Nat /\ now' \in Nat /\ now <= now' /\ overlap \in Nat
    BY DEF IInv, TypeOK, BeginRotate, Tick, SetTokenTTLs, vars
<1>3. TypeOK'
    BY <1>1, <1>2 DEF IInv, TypeOK, BeginRotate, Tick, SetTokenTTLs, vars
<1>4. KeyOrder'
    BY <1>1, <1>2 DEF IInv, KeyOrder
<1>5. Windows'
    <2>1. ASSUME NEW k \in Kids, k < active, k \notin published
          PROVE  retiredAt[k] # None /\ retiredAt[k] + overlap <= now'
        BY <1>2, <2>1 DEF IInv, KeyOrder, Windows, WindowOver
    <2> QED
        BY <1>1, <2>1 DEF Windows, WindowOver
<1>6. RotationUnderWay'
    BY <1>2 DEF IInv, TypeOK, RotationUnderWay, BeginRotate, Tick, SetTokenTTLs, vars
<1>7. Signing' /\ TokenKeys' /\ RetiredVerifyOnly'
    BY <1>1 DEF IInv, Signing, TokenKeys, RetiredVerifyOnly
<1> QED
    BY <1>3, <1>4, <1>5, <1>6, <1>7 DEF IInv

LEMMA Invariance == Spec => []IInv
<1>1. Init => IInv
    BY InitInv
<1>2. IInv /\ [Next]_vars => IInv'
    BY RotateStep, RequestSteps, SignStep, OtherSteps DEF Next
<1> QED
    BY <1>1, <1>2, PTL DEF Spec

-----------------------------------------------------------------------------
(* Every reachable state of the key manager and the issuer is well typed.  *)
THEOREM TypeCorrect == Spec => []TypeOK
<1>1. IInv => TypeOK
    BY DEF IInv
<1> QED
    BY <1>1, Invariance, PTL

(* However many rotations come between the steps of a request, the key     *)
(* that signs for it was not retired before the request began.             *)
THEOREM RetiredKeysDoNotSign == Spec => []RetiredVerifyOnly
<1>1. IInv => RetiredVerifyOnly
    BY DEF IInv
<1> QED
    BY <1>1, Invariance, PTL

(* Whatever the window, the lifetimes and the moment of the signature, a   *)
(* token verifies until it expires or the window of its key is over.       *)
THEOREM InFlightTokensVerify == Spec => []VerifiesThroughWindow
<1>1. IInv => VerifiesThroughWindow
    <2> SUFFICES ASSUME IInv, NEW token \in tokens, ~Verifies(token)
                 PROVE  WindowOver(token.kid)
        BY DEF VerifiesThroughWindow
    <2>1. token.kid \in Kids /\ active \in Kids
        BY DEF IInv, TypeOK, Token
    <2>2. token.kid # active /\ token.kid <= active
        BY DEF Verifies, IInv, KeyOrder, TokenKeys
    <2>3. token.kid < active
        BY <2>1, <2>2 DEF Kids
    <2> QED
        BY <2>1, <2>3 DEF Verifies, IInv, Windows
<1> QED
    BY <1>1, Invariance, PTL
=============================================================================
