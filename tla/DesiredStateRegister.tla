------------------------- MODULE DesiredStateRegister -------------------------
(***************************************************************************)
(* What the desired-state store promises its readers (admission control,   *)
(* the supervisor, the path reconciler, telemetry): a register that only   *)
(* moves forward in the order AtLeast, even across the periods in which    *)
(* the agent is down and serves nothing.  The promise ends with trusted.   *)
(***************************************************************************)
EXTENDS Envelopes

VARIABLES
    value,        \* the last desired state a reader could see, None before the first
    available,    \* a reader sees a desired state now
    trusted       \* no fault beyond the promise has happened

registerVars == <<value, available, trusted>>

RegisterInit == value = None /\ available = FALSE /\ trusted = TRUE

Serve ==
    \E e \in Envelope :
        /\ e.authentic
        /\ AtLeast(e, value)
        /\ value' = e
        /\ available' = TRUE

Outage == available /\ available' = FALSE /\ value' = value

\* Trust, once lost, does not come back.
RegisterNext ==
    \/ ~trusted'
    \/ trusted /\ trusted' /\ (Serve \/ Outage)

RegisterSpec == RegisterInit /\ [][RegisterNext]_registerVars
===============================================================================
