------------------------------- MODULE Enrollment -------------------------------
(***************************************************************************)
(* scripts/bootstrap_client.py enroll: a claim that outlives the process,  *)
(* a request the manager may have served although its answer was lost, and *)
(* three credential files written one after the other.  Claims and bundles *)
(* (relay id, token, signing key of one answer) are numbered in the order  *)
(* they are made; each file is written atomically (_atomic_write).  The    *)
(* manager is external: it registers one relay per claim and may issue new *)
(* credentials when a claim is repeated, the last of which count.          *)
(***************************************************************************)
EXTENDS Naturals, FiniteSets

CONSTANTS
    None,       \* no file, nothing in hand
    MaxBundles  \* bound on the answers the manager gives, and on claims

ASSUME BundlesAssumption == MaxBundles \in Nat \ {0} /\ None \notin 0 .. MaxBundles

Numbers == 1 .. MaxBundles

VARIABLES
    enrolling,  \* idle, claiming, posting, token, key, identity, enrolled, refused
    claimFile,  \* claim_id
    token,      \* credentials/manager_token
    key,        \* credentials/state_signing_key
    identity,   \* identity.json
    bundle,     \* the validated answer in hand
    relays,     \* external: claims the manager registered a relay for
    issued      \* external: the last bundle the manager issued, 0 before the first

fileVars == <<claimFile, token, key, identity>>
managerVars == <<relays, issued>>
enrollVars == <<enrolling, fileVars, bundle, managerVars>>

EnrollInit ==
    /\ enrolling = "idle"
    /\ claimFile = None /\ token = None /\ key = None /\ identity = None
    /\ bundle = None
    /\ relays = {} /\ issued = 0

\* A claim nobody has used (secrets.token_urlsafe).
FreshClaim == CHOOSE c \in Numbers : c \notin relays \cup {claimFile}

-------------------------------------------------------------------------------
\* load_identity: an identity is used as it is, one without its credentials refused.
LoadIdentity ==
    /\ enrolling = "idle"
    /\ enrolling' = IF identity = None THEN "claiming"
                    ELSE IF token = None \/ key = None THEN "refused" ELSE "enrolled"
    /\ UNCHANGED <<fileVars, bundle, managerVars>>

\* Mutant: every run makes a claim of its own.
ClaimAnew ==
    /\ enrolling = "claiming"
    /\ Cardinality(relays \cup {claimFile}) < MaxBundles
    /\ claimFile' = FreshClaim
    /\ enrolling' = "posting"
    /\ UNCHANGED <<token, key, identity, bundle, managerVars>>

\* _load_or_create_claim: the claim is on disk before the manager hears of it.
LoadOrCreateClaim ==
    /\ enrolling = "claiming"
    /\ claimFile' = IF claimFile = None THEN FreshClaim ELSE claimFile
    /\ enrolling' = "posting"
    /\ UNCHANGED <<token, key, identity, bundle, managerVars>>

\* The manager takes the claim: the relay is registered, credentials are issued
\* (again, or the ones it has).
Registers(b) ==
    /\ b \in {issued, issued + 1} \cap Numbers
    /\ relays' = relays \cup {claimFile}
    /\ issued' = b

\* The answer arrives and is valid.
Post(b) ==
    /\ enrolling = "posting"
    /\ Registers(b)
    /\ bundle' = b
    /\ enrolling' = "token"
    /\ UNCHANGED fileVars

\* The answer is lost, or refused by _validate_bundle, after the manager acted.
PostLost(b) ==
    /\ enrolling = "posting"
    /\ Registers(b)
    /\ enrolling' = "refused"
    /\ UNCHANGED <<fileVars, bundle>>

\* A malformed code, HTTP 403 and the like, or no connection.
PostRefused ==
    /\ enrolling = "posting"
    /\ enrolling' = "refused"
    /\ UNCHANGED <<fileVars, bundle, managerVars>>

\* Mutant: the identity is written with the token, before the signing key.
WriteTokenAndIdentity ==
    /\ enrolling = "token"
    /\ token' = bundle /\ identity' = bundle
    /\ enrolling' = "key"
    /\ UNCHANGED <<claimFile, key, bundle, managerVars>>

WriteToken ==
    /\ enrolling = "token"
    /\ token' = bundle
    /\ enrolling' = "key"
    /\ UNCHANGED <<claimFile, key, identity, bundle, managerVars>>

WriteSigningKey ==
    /\ enrolling = "key"
    /\ key' = bundle
    /\ enrolling' = "identity"
    /\ UNCHANGED <<claimFile, token, identity, bundle, managerVars>>

\* identity.json last: it is what the next run looks for.
WriteIdentity ==
    /\ enrolling = "identity"
    /\ identity' = bundle
    /\ bundle' = None
    /\ enrolling' = "enrolled"
    /\ UNCHANGED <<claimFile, token, key, managerVars>>

\* An uncaught OSError from _atomic_write ends the process as any error does.
WriteFails ==
    /\ enrolling \in {"claiming", "token", "key", "identity"}
    /\ enrolling' = "refused"
    /\ UNCHANGED <<fileVars, bundle, managerVars>>

Enroll ==
    \/ LoadIdentity \/ LoadOrCreateClaim \/ PostRefused
    \/ \E b \in Numbers : Post(b) \/ PostLost(b)
    \/ WriteToken \/ WriteSigningKey \/ WriteIdentity \/ WriteFails

-------------------------------------------------------------------------------
EnrollTypeOK ==
    /\ enrolling \in {"idle", "claiming", "posting", "token", "key", "identity",
                      "enrolled", "refused"}
    /\ {claimFile, token, key, identity, bundle} \subseteq Numbers \cup {None}
    /\ relays \subseteq Numbers
    /\ issued \in 0 .. MaxBundles

\* One host becomes one relay, however often the enrollment is killed, refused or
\* repeated after a lost answer (bootstrap_client.py 181-192 and 363; README.md 77-80).
OneRelay == Cardinality(relays) <= 1

\* An identity is only there with the token and the key of the same answer, the last
\* one the manager gave: the agent never starts with a mixture of two answers, and
\* the run after the next one has nothing to complain of (bootstrap_client.py 397-412,
\* 344-348 "local identity is incomplete").
IdentityIsWhole ==
    identity # None => token = identity /\ key = identity /\ issued = identity
===============================================================================
