-------------------------------- MODULE Installer --------------------------------
(***************************************************************************)
(* install.sh with the scripts it runs, step by step: backup, staging of   *)
(* an immutable release, enrollment (module Enrollment), the firewall with *)
(* its ten-minute rollback timer, start, activation, confirmation, and the *)
(* containment that on_exit runs when a step fails.  The process can be    *)
(* killed at every step, the containment included; a timer can run out at  *)
(* any moment.  An attempt's number stands for the timestamp in the names  *)
(* of its backups, its timer and its release.  mediamtx has one release    *)
(* per version, so all runs share its directory.  The scripts of the       *)
(* containment can fail as well, at a command that ends them or at one     *)
(* whose failure they pass over, and the operator can run rollback.sh by   *)
(* hand; the timer's run of firewall_rollback.sh is taken to succeed.      *)
(***************************************************************************)
EXTENDS Enrollment

CONSTANT MaxAttempts    \* bound on the runs of install.sh

ASSUME AttemptsAssumption == MaxAttempts \in Nat \ {0} /\ None \notin 0 .. MaxAttempts

Attempts == 1 .. MaxAttempts

\* The rules of a firewall: those the host came with, those with the relay's ports, none.
Rules == {"before", "relay", "off"}

\* What backup.sh records and rollback.sh restores.
Host == [link : 0 .. MaxAttempts \cup {None},   \* relay-node/current, 0: the release before
         binary : BOOLEAN,           \* mediamtx/current names this version's release
         config : 0 .. MaxAttempts \cup {None}, \* whose environment, units and mediamtx.yml
         running : BOOLEAN,          \* the two services
         etcUfw : Rules \cup {"absent"},          \* what /etc/ufw says; "off": ENABLED=no
         ufw : Rules]                \* the rules in force

ASSUME NoneAssumption == None \notin Host \cup Rules \cup {"absent"}

VARIABLES
    pc,             \* the step install.sh is at, "none" when it does not run
    attempt,        \* number of the current or last run
    host,
    complete,       \* relay-node releases with all their files
    media,          \* the mediamtx release of this version: absent, partial, whole
    package,        \* the ufw package is installed
    backup,         \* backup_dir: its contents, None as long as the variable is empty
    stamp,          \* firewall_timestamp
    fwBackup,       \* attempt -> what firewall-<timestamp>/ufw says, None without one
    timer,          \* attempt -> none, armed, fired, restored, marked, done, stopped
    executed,       \* attempts with rollback.executed
    atBegin,        \* history: the host when the attempt began
    confirmed,      \* history: the rules before any attempt, and those confirmed since
    excused,        \* history: see the actions that set it
    unrestored,     \* history: firewall_rollback.sh of a containment missed its aim
    silent          \* history: so did a command of rollback.sh that ends in "|| true"

runVars == <<attempt, backup, stamp>>
scriptVars == <<pc, runVars>>
firewallVars == <<fwBackup, timer, executed>>
faultVars == <<unrestored, silent>>
historyVars == <<atBegin, confirmed, excused, faultVars>>
releaseVars == <<complete, media, package>>
vars == <<scriptVars, host, releaseVars, firewallVars, historyVars, enrollVars>>

Goes(from, to) == pc = from /\ pc' = to

\* A rollback is to come, or under way; and systemd has the timer's units in memory.
Live(t) == timer[t] \in {"armed", "fired", "restored"}
Loaded(t) == Live(t) \/ timer[t] = "marked"

\* The rules an /etc/ufw puts in force when the machine boots; one that is there and
\* enabled does so at a restart of ufw.service too, which skips any other.
InForce(etc) == IF etc = "absent" THEN "off" ELSE etc
Enabled(etc) == etc \in {"before", "relay"}

Init ==
    /\ EnrollInit
    /\ pc = "none" /\ attempt = 0
    /\ host \in {h \in Host : h.link = 0 /\ h.config = 0 /\ h.etcUfw # "relay"
                             /\ h.ufw = InForce(h.etcUfw)}
    /\ complete = {0}
    /\ media = IF host.binary THEN "whole" ELSE "absent"
    /\ package = (host.etcUfw # "absent")
    /\ backup = None /\ stamp = None
    /\ fwBackup = [t \in Attempts |-> None]
    /\ timer = [t \in Attempts |-> "none"]
    /\ executed = {}
    /\ atBegin = host /\ confirmed = {host.ufw}
    /\ excused = FALSE /\ unrestored = FALSE /\ silent = FALSE

-------------------------------------------------------------------------------
\* sudo bash install.sh; flock lets one run at a time.  Excused: a timer of an
\* earlier run is still live.
Begin ==
    /\ pc \in {"none", "installed", "contained", "halfway"}
    /\ attempt < MaxAttempts
    /\ pc' = "backup"
    /\ attempt' = attempt + 1
    /\ backup' = None /\ stamp' = None
    /\ atBegin' = host
    /\ excused' = (excused \/ \E t \in Attempts : Live(t))
    /\ enrolling' = "idle" /\ bundle' = None
    /\ UNCHANGED <<host, releaseVars, firewallVars, confirmed, faultVars,
                   fileVars, managerVars>>

\* Mutant: BACKUP_DIR= is not found in the output, and nothing looks.
BackupUnnamed ==
    /\ Goes("backup", "packages")
    /\ UNCHANGED <<runVars, host, releaseVars, firewallVars, historyVars, enrollVars>>

\* preflight, then backup.sh.
Backup ==
    /\ Goes("backup", "packages")
    /\ backup' = host
    /\ UNCHANGED <<attempt, stamp, host, releaseVars, firewallVars, historyVars,
                   enrollVars>>

\* install_runtime.sh: apt-get.  Only the first installation of ufw makes /etc/ufw.
InstallPackages ==
    /\ Goes("packages", "release")
    /\ package' = TRUE
    /\ host' = IF package THEN host ELSE [host EXCEPT !.etcUfw = "off"]
    /\ UNCHANGED <<runVars, complete, media, firewallVars, historyVars, enrollVars>>

\* Mutant: a binary that is there is taken as it is.
StageMediaUnchecked ==
    /\ Goes("release", "binary")
    /\ media' = IF media = "absent" THEN "whole" ELSE media
    /\ UNCHANGED <<runVars, host, complete, package, firewallVars, historyVars,
                   enrollVars>>

\* Then the mediamtx binary, compared with the verified artifact if it
\* is there already; the switch to it; the files of the relay-node release; the switch
\* to them; then /etc.
StageMedia ==
    /\ Goes("release", "binary")
    /\ media # "partial"
    /\ media' = "whole"
    /\ UNCHANGED <<runVars, host, complete, package, firewallVars, historyVars,
                   enrollVars>>

\* install(1) copies in place: a full disk, a kill or a power cut leaves a part of it.
\* Fail, Kill or Reboot follow.
MediaIsTorn ==
    /\ pc = "release" /\ media = "absent"
    /\ media' = "partial"
    /\ UNCHANGED <<scriptVars, host, complete, package, firewallVars, historyVars,
                   enrollVars>>

SwitchMedia ==
    /\ Goes("binary", "files")
    /\ host' = [host EXCEPT !.binary = TRUE]
    /\ UNCHANGED <<runVars, releaseVars, firewallVars, historyVars, enrollVars>>

StageRelease ==
    /\ Goes("files", "link")
    /\ complete' = complete \cup {attempt}
    /\ UNCHANGED <<runVars, host, media, package, firewallVars, historyVars, enrollVars>>

SwitchLink ==
    /\ Goes("link", "config")
    /\ host' = [host EXCEPT !.link = attempt]
    /\ UNCHANGED <<runVars, releaseVars, firewallVars, historyVars, enrollVars>>

InstallConfig ==
    /\ Goes("config", "enroll")
    /\ host' = [host EXCEPT !.config = attempt]
    /\ UNCHANGED <<runVars, releaseVars, firewallVars, historyVars, enrollVars>>

Enrolls ==
    /\ pc = "enroll"
    /\ Enroll
    /\ UNCHANGED <<scriptVars, host, releaseVars, firewallVars, historyVars>>

\* render_config.py loads the identity again.
RenderConfig ==
    /\ Goes("enroll", "firewall")
    /\ enrolling = "enrolled"
    /\ UNCHANGED <<runVars, host, releaseVars, firewallVars, historyVars, enrollVars>>

-------------------------------------------------------------------------------
\* firewall_apply.sh: copy the rules, arm the timer, change the rules; install.sh
\* learns the timestamp when all of it is done.
BackUpRules ==
    /\ Goes("firewall", "arm")
    /\ host.etcUfw # "absent"
    /\ fwBackup' = [fwBackup EXCEPT ![attempt] = host.etcUfw]
    /\ UNCHANGED <<runVars, host, releaseVars, timer, executed, historyVars,
                   enrollVars>>

\* Mutant: the rules change before the timer is armed.
RulesBeforeTimer ==
    /\ Goes("arm", "rules")
    /\ host' = [host EXCEPT !.etcUfw = "relay", !.ufw = "relay"]
    /\ UNCHANGED <<runVars, releaseVars, firewallVars, historyVars, enrollVars>>

ArmTimer ==
    /\ Goes("arm", "rules")
    /\ timer' = [timer EXCEPT ![attempt] = "armed"]
    /\ UNCHANGED <<runVars, host, releaseVars, fwBackup, executed, historyVars,
                   enrollVars>>

ChangeRules ==
    /\ Goes("rules", "timestamp")
    /\ host' = [host EXCEPT !.etcUfw = "relay", !.ufw = "relay"]
    /\ UNCHANGED <<runVars, releaseVars, firewallVars, historyVars, enrollVars>>

ReadTimestamp ==
    /\ Goes("timestamp", "start")
    /\ stamp' = attempt
    /\ UNCHANGED <<attempt, backup, host, releaseVars, firewallVars, historyVars,
                   enrollVars>>

Start ==
    /\ Goes("start", "verify")
    /\ identity # None /\ token # None /\ key # None
    /\ host' = [host EXCEPT !.running = TRUE]
    /\ UNCHANGED <<runVars, releaseVars, firewallVars, historyVars, enrollVars>>

\* verify.sh wants the two ports open; then the manager says the relay is active.
Verify ==
    /\ Goes("verify", "waiting")
    /\ host.ufw = "relay"
    /\ UNCHANGED <<runVars, host, releaseVars, firewallVars, historyVars, enrollVars>>

BecomesActive ==
    /\ Goes("waiting", "confirm")
    /\ UNCHANGED <<runVars, host, releaseVars, firewallVars, historyVars, enrollVars>>

\* Mutant: firewall_confirm.sh does not look for rollback.executed.
ConfirmUnchecked ==
    /\ Goes("confirm", "cancel")
    /\ excused' = (excused \/ timer[stamp] \in {"fired", "restored"})
    /\ UNCHANGED <<runVars, host, releaseVars, firewallVars, atBegin, confirmed,
                   faultVars, enrollVars>>

\* firewall_confirm.sh looks for rollback.executed.  Excused: the rollback is under
\* way and has not written it yet.
ConfirmChecks ==
    /\ Goes("confirm", "cancel")
    /\ stamp \notin executed
    /\ excused' = (excused \/ timer[stamp] \in {"fired", "restored"})
    /\ UNCHANGED <<runVars, host, releaseVars, firewallVars, atBegin, confirmed,
                   faultVars, enrollVars>>

\* systemctl stop of the timer: it succeeds as long as the unit is loaded, that is
\* until the service it triggered has ended.
CancelTimer ==
    /\ Goes("cancel", "finishing")
    /\ Loaded(stamp)
    /\ timer' = [timer EXCEPT ![stamp] = IF @ = "armed" THEN "stopped" ELSE @]
    /\ confirmed' = confirmed \cup {host.ufw}
    /\ UNCHANGED <<runVars, host, releaseVars, fwBackup, executed, atBegin,
                   excused, faultVars, enrollVars>>

\* finished=true: until then a failure or a signal is contained, without the timer.
Finish ==
    /\ Goes("finishing", "installed")
    /\ UNCHANGED <<runVars, host, releaseVars, firewallVars, historyVars, enrollVars>>

-------------------------------------------------------------------------------
Steps == {"backup", "packages", "release", "binary", "files", "link", "config", "enroll",
          "firewall", "arm", "rules", "timestamp", "start", "verify", "waiting", "confirm",
          "cancel", "finishing"}

\* set -e, SIGINT or SIGTERM: on_exit takes over, with what the variables hold.
Fail ==
    /\ pc \in Steps
    /\ pc' = IF stamp # None THEN "rollBackRules"
             ELSE IF backup # None THEN "rollBackHost" ELSE "contained"
    /\ UNCHANGED <<runVars, host, releaseVars, firewallVars, historyVars, enrollVars>>

\* What firewall_rollback.sh makes of the host.
Restored(h, etc, rules) == [h EXCEPT !.etcUfw = etc, !.ufw = rules]

\* It is run unless rollback.executed is there.  It ends as complete even if "disable"
\* left the rules in force, or the last restart did not bring them back.
RollBackRules ==
    /\ Goes("rollBackRules", "stopTimer")
    /\ IF stamp \in executed THEN UNCHANGED <<host, executed, unrestored>>
       ELSE LET etc == fwBackup[stamp]
            IN \E rules \in {etc, IF Enabled(etc) THEN "off" ELSE host.ufw} :
                 /\ host' = Restored(host, etc, rules)
                 /\ executed' = executed \cup {stamp}
                 /\ unrestored' = (unrestored \/ rules # etc)
    /\ UNCHANGED <<runVars, releaseVars, fwBackup, timer, atBegin, confirmed, excused,
                   silent, enrollVars>>

\* on_exit goes on if it fails: /etc/ufw as it was, disabled, removed or copied, and the
\* rules still in force or not.
RollBackRulesFails ==
    /\ Goes("rollBackRules", "stopTimer")
    /\ stamp \notin executed
    /\ \E etc \in {host.etcUfw, "off", "absent", fwBackup[stamp]}, rules \in {host.ufw, "off"} :
         host' = Restored(host, etc, rules)
    /\ unrestored' = TRUE
    /\ UNCHANGED <<runVars, releaseVars, firewallVars, atBegin, confirmed, excused,
                   silent, enrollVars>>

\* systemctl stop || true.
StopTimer ==
    /\ Goes("stopTimer", "rollBackHost")
    /\ \/ timer' = [timer EXCEPT ![stamp] = IF @ = "armed" THEN "stopped" ELSE @]
       \/ UNCHANGED timer
    /\ UNCHANGED <<runVars, host, releaseVars, fwBackup, executed, historyVars,
                   enrollVars>>

\* rollback.sh: services off; the files of the inventory removed and unpacked; each link
\* removed and made anew; the services and the firewall as they were.  What ends in
\* "|| true" may have no effect, a restart of ufw.service half of it.
Undoing(from, to, h) == [from |-> from, to |-> to, host |-> h]
UndoFiles ==
    {Undoing("rollBackHost", "remove", [host EXCEPT !.running = FALSE]),
     Undoing("remove", "unpack", [host EXCEPT !.config = None, !.etcUfw = "absent"]),
     Undoing("unpack", "unlinkBinary",
         [host EXCEPT !.config = backup.config,
                      !.etcUfw = IF backup.etcUfw = "absent" THEN @ ELSE backup.etcUfw])}
UndoLinks ==
    {Undoing("unlinkBinary", "linkBinary", [host EXCEPT !.binary = FALSE]),
     Undoing("linkBinary", "unlink", [host EXCEPT !.binary = backup.binary]),
     Undoing("unlink", "relink", [host EXCEPT !.link = None]),
     Undoing("relink", "services", [host EXCEPT !.link = backup.link])}
UndoServices ==
    {Undoing("services", "reload", [host EXCEPT !.running = backup.running]),
     Undoing("reload", "contained",
         [host EXCEPT !.ufw = IF Enabled(host.etcUfw) THEN host.etcUfw ELSE @])}
UndoInVain ==
    {Undoing("rollBackHost", "remove", host), Undoing("services", "reload", host),
     Undoing("reload", "contained", host),
     Undoing("reload", "contained",
         [host EXCEPT !.ufw = IF Enabled(host.etcUfw) THEN "off" ELSE @])}

\* Mutant: the links are not restored.
UndoKeepingLinks ==
    UndoFiles \cup {Undoing("unlinkBinary", "services", host)} \cup UndoServices
Undo == UndoFiles \cup UndoLinks \cup UndoServices

RollBackHost ==
    /\ backup # None
    /\ \E u \in Undo : Goes(u.from, u.to) /\ host' = u.host
    /\ UNCHANGED <<runVars, releaseVars, firewallVars, historyVars, enrollVars>>

RollBackHostInVain ==
    /\ backup # None
    /\ \E u \in UndoInVain : Goes(u.from, u.to) /\ host' = u.host
    /\ silent' = TRUE
    /\ UNCHANGED <<runVars, releaseVars, firewallVars, atBegin, confirmed, excused,
                   unrestored, enrollVars>>

\* What is not followed by "|| true" in rollback.sh can end it; on_exit ends with it.
MayFail == {"rollBackHost", "remove", "unpack", "unlinkBinary", "linkBinary", "unlink", "relink",
            "services"}
RollBackHostFails ==
    /\ pc \in MayFail /\ pc' = "halfway"
    /\ UNCHANGED <<runVars, host, releaseVars, firewallVars, historyVars, enrollVars>>

\* The operator runs rollback.sh with the backup that install.sh named.
OperatorRollsBack ==
    /\ pc \in {"halfway", "none"} /\ backup # None
    /\ pc' = "rollBackHost"
    /\ UNCHANGED <<runVars, host, releaseVars, firewallVars, historyVars, enrollVars>>

\* SIGKILL, or a second Ctrl-C during the containment.
Kill ==
    /\ pc \notin {"none", "installed", "contained", "halfway"}
    /\ pc' = "none"
    /\ UNCHANGED <<runVars, host, releaseVars, firewallVars, historyVars, enrollVars>>

\* A transient timer does not survive a reboot; the rules are those of /etc/ufw then.
\* Excused if a rollback was to come, or has not brought /etc/ufw back.  Without a timer
\* in memory and with the rules as configured, this is Kill.
Reboot ==
    /\ pc' = IF pc \in {"installed", "contained", "halfway"} THEN pc ELSE "none"
    /\ (\E t \in Attempts : Loaded(t)) \/ host.ufw # InForce(host.etcUfw)
    /\ timer' = [t \in Attempts |-> IF Loaded(t) THEN "none" ELSE timer[t]]
    /\ host' = [host EXCEPT !.ufw = InForce(host.etcUfw)]
    /\ excused' = (excused \/ host.ufw # InForce(host.etcUfw) \/ \E t \in Attempts : Live(t))
    /\ UNCHANGED <<runVars, releaseVars, fwBackup, executed, atBegin, confirmed,
                   faultVars, enrollVars>>

\* The timer runs out.  Excused: between the check and the stop of firewall_confirm.sh,
\* or ten minutes after it was armed with firewall_apply.sh still at its rules.
TimerFires(t) ==
    /\ timer[t] = "armed"
    /\ timer' = [timer EXCEPT ![t] = "fired"]
    /\ excused' = (excused \/ pc \in {"rules", "cancel"})
    /\ UNCHANGED <<scriptVars, host, releaseVars, fwBackup, executed, atBegin,
                   confirmed, faultVars, enrollVars>>

\* firewall_rollback.sh of the timer's service: the rules, then the marker.
TimerRestores(t) ==
    /\ timer[t] = "fired"
    /\ timer' = [timer EXCEPT ![t] = "restored"]
    /\ host' = Restored(host, fwBackup[t], fwBackup[t])
    /\ UNCHANGED <<scriptVars, releaseVars, fwBackup, executed, historyVars,
                   enrollVars>>

TimerMarks(t) ==
    /\ timer[t] = "restored"
    /\ timer' = [timer EXCEPT ![t] = "marked"]
    /\ executed' = executed \cup {t}
    /\ UNCHANGED <<scriptVars, host, releaseVars, fwBackup, historyVars, enrollVars>>

\* The script ends: systemd drops the service and, with it, the elapsed timer.
TimerEnds(t) ==
    /\ timer[t] = "marked"
    /\ timer' = [timer EXCEPT ![t] = "done"]
    /\ UNCHANGED <<scriptVars, host, releaseVars, fwBackup, executed, historyVars,
                   enrollVars>>

Next ==
    \/ Begin \/ Backup \/ InstallPackages \/ StageMedia \/ MediaIsTorn \/ SwitchMedia
    \/ StageRelease \/ SwitchLink \/ InstallConfig \/ Enrolls \/ RenderConfig
    \/ BackUpRules \/ ArmTimer \/ ChangeRules \/ ReadTimestamp
    \/ Start \/ Verify \/ BecomesActive \/ ConfirmChecks \/ CancelTimer \/ Finish
    \/ Fail \/ RollBackRules \/ RollBackRulesFails \/ StopTimer
    \/ RollBackHost \/ RollBackHostInVain \/ RollBackHostFails \/ OperatorRollsBack
    \/ Kill \/ Reboot
    \/ \E t \in Attempts : TimerFires(t) \/ TimerRestores(t) \/ TimerMarks(t) \/ TimerEnds(t)

Spec == Init /\ [][Next]_vars

-------------------------------------------------------------------------------
\* Types; the script's variables are set in the order its steps need them
\* (install.sh 17-19, 49-52 and 75-78).
TypeOK ==
    /\ EnrollTypeOK
    /\ pc \in Steps \cup {"none", "installed", "contained", "halfway", "rollBackRules",
                          "stopTimer", "reload"} \cup MayFail
    /\ attempt \in 0 .. MaxAttempts
    /\ host \in Host /\ atBegin \in Host
    /\ complete \subseteq 0 .. MaxAttempts /\ media \in {"absent", "partial", "whole"}
    /\ package \in BOOLEAN
    /\ backup \in Host \cup {None}
    /\ stamp \in Attempts \cup {None}
    /\ fwBackup \in [Attempts -> Rules \cup {None}]
    /\ timer \in [Attempts -> {"none", "armed", "fired", "restored", "marked", "done",
                             "stopped"}]
    /\ executed \subseteq Attempts
    /\ confirmed \subseteq Rules
    /\ excused \in BOOLEAN /\ unrestored \in BOOLEAN /\ silent \in BOOLEAN
    /\ stamp # None => backup # None /\ fwBackup[stamp] # None

\* Both current links always name a release with all its files, whenever an installer is
\* killed, torn or rolled back (install_runtime.sh 128-153, rollback.sh 44-55).
LinkIsComplete == host.link \in complete \cup {None} /\ (host.binary => media = "whole")

\* Rules that no manager activation has confirmed never stay for good: a live timer
\* holds the configuration to go back to (firewall_apply.sh 20-22 "live before the first
\* rule mutation", install.sh 27-33).  Not so after a containment whose firewall scripts
\* missed their aim: on_exit stops the timer whatever became of them (install.sh 29-35).
SafetyNet ==
    ~excused /\ ~unrestored /\ ~silent /\ host.ufw \notin confirmed
        => \E t \in Attempts : Live(t) /\ fwBackup[t] \in confirmed

\* A failed installation leaves the host as it found it as soon as one rollback.sh has
\* come to its end, in the containment or by hand, whatever firewall_rollback.sh did and
\* however often rollback.sh was killed or failed before (install.sh 20-40): the links
\* and files always, though the timer can put a disabled /etc/ufw where there was none;
\* the services, and the rules of an enabled firewall, unless a command whose failure
\* rollback.sh passes over had no effect.  To disable a firewall is not its work but
\* that of firewall_rollback.sh (SafetyNet).
FailureLeavesNoTrace ==
    ~excused /\ pc = "contained" =>
        /\ host.link = atBegin.link /\ host.binary = atBegin.binary
        /\ host.config = atBegin.config
        /\ host.etcUfw = atBegin.etcUfw \/ (host.etcUfw = "off" /\ atBegin.etcUfw = "absent")
        /\ ~silent =>
             /\ host.running = atBegin.running
             /\ Enabled(atBegin.etcUfw) => host.ufw \in {atBegin.ufw, atBegin.etcUfw}

\* A completed installation has its firewall rules in force (firewall_confirm.sh:14
\* "refusing false confirmation") unless the timer ran out during the confirmation, one
\* of an earlier run was still live when the run began, or the machine rebooted.
ConfirmationHolds == ~excused /\ pc = "installed" => host.ufw = "relay"
===============================================================================
