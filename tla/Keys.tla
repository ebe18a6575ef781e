-------------------------------- MODULE Keys --------------------------------
(***************************************************************************)
(* The keys C2 signs with and the copy the server trusts                   *)
(* (internal/c2/oidc): an id_token or a logout token counts when the copy  *)
(* holds the key it names and its claims are in order.  A token that names *)
(* an unknown key has the copy fetched again, one call at a time and at    *)
(* most once in minRefresh.                                                *)
(***************************************************************************)
EXTENDS Naturals, FiniteSets

CONSTANTS
    KeyIds,         \* the keys C2 has in its time
    Issuer,         \* the configured issuer
    Client,         \* our client id at C2
    Others,         \* other issuers and clients
    Instants,       \* times a claim may name; 0 stands for none
    Now,            \* the time of a check
    ClockSkew,
    NoNonce,
    NoCall,         \* nobody holds the inflight lock
    Loads           \* bound: how much is done to the system in one behaviour

VARIABLES
    load,           \* one of Loads: edits, flows and API tokens allowed, and whether
                    \* C2 fails or rotates
    published,      \* the keys C2 publishes
    metadata,       \* discoveryCache.doc is there, fresh or stale
    keys,           \* keySet.keys
    recent,         \* lastRefresh is less than minRefresh ago
    inflight,       \* the call that holds keySet.inflight
    refetched       \* history: refreshes for an unknown key since recent was last FALSE

keyVars == <<load, published, metadata, keys, recent, inflight, refetched>>

(* Whether C2 answers.                                                     *)
Answers == IF load.rough THEN BOOLEAN ELSE {TRUE}

KeysInit ==
    /\ load \in Loads
    /\ published \in {{k} : k \in KeyIds}
    /\ metadata = FALSE
    /\ keys = {}
    /\ recent = FALSE
    /\ inflight = NoCall
    /\ refetched = 0

(* A document once fetched is served when C2's metadata cannot be had.     *)
Discovered(reached) == metadata \/ reached

(* The endpoints have been asked for, and answered.                        *)
Discover ==
    /\ metadata' = TRUE
    /\ UNCHANGED <<load, published, keys, recent, inflight, refetched>>

LookUp(kid) == kid \in keys

TooSoonNever == FALSE

TooSoon == recent

(* Discovery, and the JWKS; a failure leaves the copy and its time alone.  *)
Refresh(reached, served) ==
    /\ metadata' = Discovered(reached)
    /\ keys' = IF Discovered(reached) /\ served THEN published ELSE keys
    /\ recent' = (recent \/ (Discovered(reached) /\ served))

(* Under the lock: an unknown key is looked up again, and fetched for.     *)
HoldLock(call) ==
    /\ inflight = NoCall
    /\ inflight' = call
    /\ UNCHANGED <<load, published, metadata, keys, recent, refetched>>

Refetch(call, reached, served) ==
    /\ inflight = call
    /\ inflight' = NoCall
    /\ Refresh(reached, served)
    /\ refetched' = IF Discovered(reached) /\ served THEN refetched + 1 ELSE refetched
    /\ UNCHANGED <<load, published>>

(* Boot and the readiness probe refresh the copy without lock or limit.    *)
Check ==
    /\ \E reached, served \in Answers : Refresh(reached, served)
    /\ UNCHANGED <<load, published, inflight, refetched>>

MinRefreshPasses ==
    /\ load.rough
    /\ recent
    /\ recent' = FALSE
    /\ refetched' = 0
    /\ UNCHANGED <<load, published, metadata, keys, inflight>>

(* C2 brings in a key, or takes one out of use.                            *)
Rotate(K) ==
    /\ load.rough
    /\ K # published
    /\ published' = K
    /\ UNCHANGED <<load, metadata, keys, recent, inflight, refetched>>

(* The copy is in memory.                                                  *)
KeysLost ==
    /\ metadata' = FALSE /\ keys' = {} /\ recent' = FALSE /\ inflight' = NoCall /\ refetched' = 0
    /\ UNCHANGED <<load, published>>
-----------------------------------------------------------------------------
(* What a token C2 signs says of itself ...                                *)
Claims == [iss : {Issuer} \cup Others, aud : SUBSET ({Client} \cup Others),
           exp : Instants, iat : Instants]

CheckCore(c) ==
    /\ c.iss = Issuer
    /\ Client \in c.aud
    /\ c.exp # 0
    /\ Now <= c.exp + ClockSkew
    /\ c.iat # 0 => c.iat <= Now + ClockSkew

(* ... and of what it is for: a sign-in has a nonce, a logout its event.   *)
Tokens(nonce, event) ==
    [core : {CheckCore(c) : c \in Claims}, nonce : {nonce}, event : {event}]

VerifyIDToken(t, nonce) == t.core /\ t.nonce = nonce

(* A replayed id_token has a nonce, and no event.                          *)
VerifyLogoutToken(t) == t.core /\ t.nonce = NoNonce /\ t.event
-----------------------------------------------------------------------------
KeysTypeOK ==
    /\ load \in Loads
    /\ published \in SUBSET KeyIds
    /\ metadata \in BOOLEAN
    /\ keys \in SUBSET KeyIds
    /\ recent \in BOOLEAN
    /\ refetched \in Nat

(* "A rotation must not require a restart", and an unknown key "must not   *)
(* be able to drive unbounded refetches" (jwks.go:27-31): however many     *)
(* calls come with keys the copy does not hold, those that wait for the    *)
(* lock find the answer of the one before them, and the copy is fetched    *)
(* for them once in minRefresh.                                            *)
RefetchesAreBounded == refetched <= 1
=============================================================================
