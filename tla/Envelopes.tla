------------------------------- MODULE Envelopes -------------------------------
(***************************************************************************)
(* Signed desired-state envelopes and the order the agent accepts them in. *)
(* An envelope is reduced to what relay_agent/state_store.py compares: its *)
(* generation, its immutable content (every payload key but issued_at and  *)
(* expires_at: relay, streams, limits), its two instants, and whether it   *)
(* is authentic, that is whether the key set, the HMAC and                 *)
(* DesiredState.from_payload all accept it.                                *)
(***************************************************************************)
EXTENDS Naturals

CONSTANTS
    None,           \* no envelope
    Generations,    \* generation numbers the manager hands out
    Contents,       \* immutable contents a payload can have
    MaxTime,        \* bound on every instant (the clock stops there)
    Skew            \* tolerance for issued_at in the future (2 minutes in the code)

ASSUME GenerationsAssumption == Generations \subseteq Nat
ASSUME TimeAssumption == MaxTime \in Nat /\ Skew \in Nat

Times == 0 .. MaxTime

Envelope ==
    { e \in [gen : Generations, content : Contents, issued : Times, expires : Times,
             authentic : BOOLEAN] :
        e.authentic => e.issued < e.expires }   \* from_payload refuses the others

ASSUME NoneAssumption == None \notin Envelope

\* Mutant: the cache is dropped when it expires.
UsableUntilExpiry(e, now) == e.authentic /\ e.issued <= now + Skew /\ e.expires > now

\* _validate_envelope with allow_expired=True: a cached envelope may be stale.
CacheUsable(e, now) == e.authentic /\ e.issued <= now + Skew

\* _validate_envelope with allow_expired=False.
RemoteValid(e, now) == CacheUsable(e, now) /\ e.expires > now

\* The same generation again: same immutable content, no instant going back.
Refreshes(new, old) ==
    /\ new.gen = old.gen
    /\ new.content = old.content
    /\ new.issued >= old.issued
    /\ new.expires >= old.expires

\* Compare steps of accept_remote against the envelope held (None at first).
AtLeast(new, old) ==
    old # None => (new.gen > old.gen \/ Refreshes(new, old))
===============================================================================
