-------------------------------- MODULE Traffic --------------------------------
(***************************************************************************)
(* relay_agent/traffic.py TrafficAccountant: monthly totals made from      *)
(* kernel counters that restart at every boot, kept in a file that is      *)
(* rewritten at each sample (atomically, see AtomicFile).  RX and TX are   *)
(* treated alike by the code; the module follows one of them.  The quota,  *)
(* the warning levels and the projection are derived from the total and    *)
(* change none of it; they are not modelled.                               *)
(***************************************************************************)
EXTENDS Naturals

CONSTANTS
    None,       \* no state: first sample of a new relay
    Months,     \* bound: months 1 .. Months
    Boots,      \* bound: boots 1 .. Boots
    MaxKernel   \* bound on the kernel counter and on the bytes of one month

ASSUME BoundsAssumption ==
    Months \in Nat \ {0} /\ Boots \in Nat \ {0} /\ MaxKernel \in Nat \ {0}

Totals == 0 .. 2 * MaxKernel

State == [month : 1 .. Months, boot : 1 .. Boots, last : 0 .. MaxKernel, total : Totals]
ASSUME NoneAssumption == None \notin State

VARIABLES
    month,      \* UTC month
    boot,       \* boot_id
    kernel,     \* external: the counter in /proc/net/dev
    mem,        \* _state
    disk,       \* state_path
    sent,       \* history: bytes really sent in this month
    before,     \* history: what the first sample ever found in the counter beyond sent
    steady      \* history: one boot, one set of interfaces and one month since tracking began

vars == <<month, boot, kernel, mem, disk, sent, before, steady>>

Init ==
    /\ month = 1 /\ boot = 1
    /\ kernel \in {0, 1}
    /\ mem = None /\ disk = None
    /\ sent = 0 /\ before = kernel
    /\ steady = TRUE

Send ==
    /\ kernel < MaxKernel /\ sent < MaxKernel
    /\ kernel' = kernel + 1
    /\ sent' = sent + 1
    /\ UNCHANGED <<month, boot, mem, disk, before, steady>>

\* A month begins.  As long as nothing is saved, the next process may take what
\* the counter holds by then for the total of its first sample.
MonthBegins ==
    /\ month < Months
    /\ month' = month + 1
    /\ sent' = 0
    /\ before' = IF disk = None THEN kernel ELSE 0
    /\ steady' = (steady /\ mem = None /\ disk = None)
    /\ UNCHANGED <<boot, kernel, mem, disk>>

-------------------------------------------------------------------------------
\* Mutant: a counter that went down is subtracted.
DeltaSigned(new, old) == new - old

Delta(new, old) == IF new > old THEN new - old ELSE 0

\* Mutants: the counter is added whole every time; the first sample counts nothing.
SampledWhole(old) ==
    [month |-> month, boot |-> boot, last |-> kernel,
     total |-> IF old = None THEN kernel
               ELSE IF old.month # month THEN 0
               ELSE old.total + kernel]

SampledFromZero(old) ==
    [month |-> month, boot |-> boot, last |-> kernel,
     total |-> IF old = None \/ old.month # month THEN 0
               ELSE IF old.boot # boot THEN old.total + kernel
               ELSE old.total + Delta(kernel, old.last)]

\* _sample: another month, another boot (whose counter is added whole, traffic.py
\* 107-108; what was sent since the last sample of a month is left out), or the usual
\* difference.
Sampled(old) ==
    [month |-> month, boot |-> boot, last |-> kernel,
     total |-> IF old = None THEN kernel
               ELSE IF old.month # month THEN 0
               ELSE IF old.boot # boot THEN old.total + kernel
               ELSE old.total + Delta(kernel, old.last)]

Sample ==
    /\ mem' = Sampled(mem)
    /\ disk' = mem'
    /\ UNCHANGED <<month, boot, kernel, sent, before, steady>>

\* The write fails after memory changed; the telemetry loop goes on.
SampleNotSaved ==
    /\ mem' = Sampled(mem)
    /\ UNCHANGED <<month, boot, kernel, disk, sent, before, steady>>

\* The agent starts again: _load.
AgentRestart ==
    /\ mem' = disk
    /\ UNCHANGED <<month, boot, kernel, disk, sent, before, steady>>

\* The machine reboots: counters restart, boot_id changes.
Reboot ==
    /\ boot < Boots
    /\ boot' = boot + 1
    /\ kernel' = 0
    /\ mem' = disk
    /\ before' = IF disk = None THEN 0 ELSE before
    /\ steady' = FALSE
    /\ UNCHANGED <<month, disk, sent>>

\* An interface goes away and takes its counters along.  Before the first sample is
\* saved that is the same as a lower counter to begin with.
InterfaceGoes ==
    /\ mem # None /\ disk # None
    /\ \E k \in 0 .. kernel : kernel' = k
    /\ steady' = FALSE
    /\ UNCHANGED <<month, boot, mem, disk, sent, before>>

Next ==
    \/ Send \/ MonthBegins
    \/ Sample \/ SampleNotSaved
    \/ AgentRestart \/ Reboot \/ InterfaceGoes

Spec == Init /\ [][Next]_vars

-------------------------------------------------------------------------------
\* Types, and the file is never ahead of memory (traffic.py 67-72, 116-117).
TypeOK ==
    /\ month \in 1 .. Months /\ boot \in 1 .. Boots
    /\ kernel \in 0 .. MaxKernel
    /\ mem \in State \cup {None} /\ disk \in State \cup {None}
    /\ sent \in 0 .. MaxKernel /\ before \in 0 .. MaxKernel
    /\ steady \in BOOLEAN
    /\ disk # None => mem # None

\* No byte is counted twice, whatever restarts, reboots and failed writes happen
\* (traffic.py:102 "to avoid double counting", 83-117).
NoDoubleCounting ==
    \A s \in {mem, disk} \ {None} : s.month = month => s.total <= sent + before

\* While one boot and one month last, every byte is counted or will be at the next
\* sample, from memory as well as from the file after a crash (traffic.py 109-117).
SteadyCountIsExact ==
    steady => \A s \in {mem, disk} \ {None} :
                  s.total + Delta(kernel, s.last) = sent + before

\* Only what was saved is reported, and what was saved for a month is not taken back
\* in it, through failed writes, restarts, reboots and vanishing interfaces
\* (traffic.py:102 "Previous deltas were saved before reboot", 114-119).
TotalNeverShrinks ==
    [][disk # None /\ disk'.month = disk.month => disk'.total >= disk.total]_disk
===============================================================================
