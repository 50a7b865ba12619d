---------------------------- MODULE InstallerProofs ----------------------------
(***************************************************************************)
(* What Enrollment and Installer guarantee for every number of runs and of *)
(* answers of the manager: one relay, a whole identity, whole releases,    *)
(* rules that come back, and a failed run that leaves no trace.            *)
(***************************************************************************)
EXTENDS Installer, TLAPS, FiniteSetTheorems

USE DEF runVars, scriptVars, firewallVars, faultVars, historyVars, releaseVars, enrollVars, fileVars,
        managerVars

\* One claim is made and kept; a file is written from the answer in hand, which is the last
\* one; an identity is there only when all three are.
EnrollInv ==
    /\ relays \subseteq {claimFile} \ {None}
    /\ enrolling = "posting" => claimFile # None
    /\ identity # None => enrolling \in {"idle", "enrolled", "refused"}
    /\ enrolling \in {"token", "key", "identity"} => bundle # None /\ issued = bundle
    /\ enrolling \in {"key", "identity"} => token = bundle
    /\ enrolling = "identity" => key = bundle
    /\ IdentityIsWhole

LEMMA NoneIsNoNumber == None \notin Numbers /\ None \notin Attempts /\ Attempts \subseteq Nat
  BY BundlesAssumption, AttemptsAssumption DEF Numbers, Attempts

\* The claim of the first run is one nobody has used.
LEMMA FreshClaimType ==
    ASSUME relays = {}, claimFile = None PROVE FreshClaim \in Numbers
<1>1. 1 \in Numbers /\ 1 \notin relays \cup {claimFile}
  BY BundlesAssumption, NoneIsNoNumber DEF Numbers
<1>2. FreshClaim \in Numbers /\ FreshClaim \notin relays \cup {claimFile}
  BY <1>1 DEF FreshClaim
<1> QED BY <1>2

LEMMA EnrollStep ==
    ASSUME EnrollTypeOK, EnrollInv, [Enroll]_enrollVars \/ (enrolling' = "idle" /\ bundle' = None
                                                            /\ UNCHANGED <<fileVars, managerVars>>)
    PROVE  EnrollTypeOK' /\ EnrollInv'
<1> USE NoneIsNoNumber
<1>1. CASE LoadIdentity \/ PostRefused \/ WriteFails
  <2>1. EnrollTypeOK'
    BY <1>1 DEF LoadIdentity, PostRefused, WriteFails, EnrollTypeOK
  <2>2. EnrollInv'
    BY <1>1 DEF LoadIdentity, PostRefused, WriteFails, EnrollInv, IdentityIsWhole
  <2> QED BY <2>1, <2>2
<1>2. CASE LoadOrCreateClaim
  <2>1. claimFile = None => relays = {}
    BY DEF EnrollInv
  <2>2. claimFile' \in Numbers /\ (claimFile # None => claimFile' = claimFile)
    BY <1>2, <2>1, FreshClaimType DEF LoadOrCreateClaim, EnrollTypeOK
  <2>3. EnrollTypeOK'
    BY <1>2, <2>2 DEF LoadOrCreateClaim, EnrollTypeOK
  <2>4. EnrollInv'
    BY <1>2, <2>1, <2>2 DEF LoadOrCreateClaim, EnrollInv, IdentityIsWhole
  <2> QED BY <2>3, <2>4
<1>3. ASSUME NEW b \in Numbers, Post(b) \/ PostLost(b) PROVE EnrollTypeOK' /\ EnrollInv'
  <2>1. claimFile # None /\ identity = None
    BY <1>3 DEF Post, PostLost, EnrollInv
  <2>2. EnrollTypeOK'
    <3>1. claimFile \in Numbers /\ b \in 0 .. MaxBundles
      BY <2>1 DEF EnrollTypeOK, Numbers
    <3> QED BY <1>3, <3>1 DEF Post, PostLost, Registers, EnrollTypeOK
  <2>3. EnrollInv'
    BY <1>3, <2>1 DEF Post, PostLost, Registers, EnrollInv, IdentityIsWhole
  <2> QED BY <2>2, <2>3
<1>4. CASE WriteToken \/ WriteSigningKey \/ WriteIdentity
  <2>1. EnrollTypeOK'
    BY <1>4 DEF WriteToken, WriteSigningKey, WriteIdentity, EnrollTypeOK
  <2>2. EnrollInv'
    BY <1>4 DEF WriteToken, WriteSigningKey, WriteIdentity, EnrollInv, IdentityIsWhole
  <2> QED BY <2>1, <2>2
<1>5. CASE UNCHANGED enrollVars
  BY <1>5 DEF EnrollTypeOK, EnrollInv, IdentityIsWhole
<1>6. CASE enrolling' = "idle" /\ bundle' = None /\ UNCHANGED <<fileVars, managerVars>>
  BY <1>6 DEF EnrollTypeOK, EnrollInv, IdentityIsWhole
<1> QED
  BY <1>1, <1>2, <1>3, <1>4, <1>5, <1>6 DEF Enroll

\* Every step of the installer is a step of the enrollment, its beginning, or none.
LEMMA InstallerEnrolls ==
    ASSUME [Next]_vars
    PROVE  [Enroll]_enrollVars \/ (enrolling' = "idle" /\ bundle' = None
                                   /\ UNCHANGED <<fileVars, managerVars>>)
<1>1. CASE Begin
  BY <1>1 DEF Begin
<1>2. CASE Enrolls
  BY <1>2 DEF Enrolls
<1>3. CASE UNCHANGED enrollVars
  BY <1>3
<1> QED
  BY <1>1, <1>2, <1>3
    DEF Next, vars, Backup, InstallPackages, StageMedia, MediaIsTorn, SwitchMedia,
        StageRelease, SwitchLink, InstallConfig, RenderConfig, BackUpRules, ArmTimer,
        ChangeRules, ReadTimestamp, Start, Verify, BecomesActive, ConfirmChecks, CancelTimer,
        Finish, Fail, RollBackRules, RollBackRulesFails, StopTimer, RollBackHost,
        RollBackHostInVain, RollBackHostFails, OperatorRollsBack, Kill, Reboot, TimerFires,
        TimerRestores, TimerMarks, TimerEnds

LEMMA EnrollInvHolds == Spec => [](EnrollTypeOK /\ EnrollInv)
<1>1. Init => EnrollTypeOK /\ EnrollInv
  BY NoneIsNoNumber, BundlesAssumption DEF Init, EnrollInit, EnrollTypeOK, EnrollInv,
         IdentityIsWhole
<1>2. (EnrollTypeOK /\ EnrollInv) /\ [Next]_vars => (EnrollTypeOK /\ EnrollInv)'
  BY EnrollStep, InstallerEnrolls
<1> QED
  BY <1>1, <1>2, PTL DEF Spec

\* One host becomes one relay, however often its enrollment is killed, refused or repeated
\* (scripts/bootstrap_client.py 181-192 and 363).
THEOREM HostIsOneRelay == Spec => []OneRelay
<1>1. EnrollInv => OneRelay
  <2> SUFFICES ASSUME EnrollInv PROVE OneRelay
    OBVIOUS
  <2>1. relays \in SUBSET {claimFile}
    BY DEF EnrollInv
  <2>2. IsFiniteSet({claimFile}) /\ Cardinality({claimFile}) = 1
    BY FS_Singleton
  <2>3. Cardinality(relays) <= Cardinality({claimFile})
    BY <2>1, <2>2, FS_Subset
  <2> QED BY <2>2, <2>3 DEF OneRelay
<1> QED
  BY <1>1, EnrollInvHolds, PTL

\* An identity on disk has the token and the key of the same answer, the last one the
\* manager gave (scripts/bootstrap_client.py 397-412 and 344-348).
THEOREM IdentityStaysWhole == Spec => []IdentityIsWhole
<1>1. EnrollInv => IdentityIsWhole
  BY DEF EnrollInv
<1> QED
  BY <1>1, EnrollInvHolds, PTL

-------------------------------------------------------------------------------
\* The steps of a run by what it has done so far.
Unarmed == {"backup", "packages", "release", "binary", "files", "link", "config", "enroll",
            "firewall", "arm"}
Applied == {"timestamp", "start", "verify", "waiting", "confirm", "cancel"}
Stamped == {"start", "verify", "waiting", "confirm", "cancel", "finishing", "rollBackRules",
            "stopTimer"}
Undone == {"unlinkBinary", "linkBinary", "unlink", "relink", "services", "reload", "contained"}

\* install.sh sets its variables in the order its steps need them.
VariablesInOrder ==
    /\ pc = "backup" => backup = None /\ stamp = None
    /\ pc \in Steps \ {"backup"} => backup # None
    /\ pc \in Steps \cup Stamped => attempt \in Attempts
    /\ pc \in Stamped => stamp # None
    /\ stamp # None => stamp = attempt /\ backup # None
    /\ pc \in {"arm", "rules"} \cup Applied \/ stamp # None => fwBackup[attempt] # None

\* A release is whole before a link names it, in the host and in its backup.
LinksAreWhole ==
    /\ pc = "binary" => media = "whole"
    /\ pc = "link" => attempt \in complete
    /\ LinkIsComplete
    /\ backup # None => backup.link \in complete \cup {None} /\ (backup.binary => media = "whole")

\* A timer has rules to go back to, and has left its mark when it is over; the numbers to
\* come are unused.
TimersInOrder ==
    \A t \in Attempts :
        /\ Live(t) => fwBackup[t] # None
        /\ timer[t] \in {"marked", "done"} => t \in executed
        /\ t > attempt \/ (t = attempt /\ pc \in Unarmed) => timer[t] = "none" /\ t \notin executed
        /\ t > attempt => fwBackup[t] = None
        /\ t = attempt /\ pc \in Applied \cup {"rules"} =>
              timer[t] \in {"armed", "fired", "restored", "marked", "done"}

\* There is no /etc/ufw, nor was one saved, before the package is installed.
PackageFirst ==
    ~package => /\ host.etcUfw = "absent"
                /\ backup # None => backup.etcUfw = "absent"
                /\ \A t \in Attempts : fwBackup[t] = None

\* What an /etc/ufw can be after a rollback: as it was, or as the package makes it.
Like(etc) == {etc, InForce(etc)}

\* What an undisturbed run has saved is the host it found.
BackupsAreFaithful ==
    /\ backup # None => backup = atBegin
    /\ \A t \in Attempts : t = attempt /\ fwBackup[t] # None => fwBackup[t] = InForce(atBegin.etcUfw)
    /\ pc = "backup" => host = atBegin
    /\ pc \in Unarmed \cup {"rules"} => host.ufw = atBegin.ufw /\ host.etcUfw \in Like(atBegin.etcUfw)

\* Only the timer of the present run is live: it is before the rules change, and they stay
\* changed until it restores them.
TimerIsOurs ==
    \A t \in Attempts :
        /\ Live(t) => t = attempt /\ pc \notin {"finishing", "installed"}
        /\ t = attempt /\ pc = "rules" => timer[t] = "armed" /\ t \notin executed
        /\ t = attempt /\ pc \in Applied /\ timer[t] \in {"armed", "fired"} =>
              host.ufw = "relay" /\ host.etcUfw = "relay"
        /\ t = attempt /\ pc = "cancel" => timer[t] = "armed"

\* rollback.sh brings back one part of the host after the other.
UndoneSoFar ==
    /\ pc \in Undone => host.config = atBegin.config /\ host.etcUfw \in Like(atBegin.etcUfw)
    /\ pc = "unpack" => host.etcUfw \in {"absent", InForce(atBegin.etcUfw)}
    /\ pc \in {"unlink", "relink", "services", "reload", "contained"} => host.binary = atBegin.binary
    /\ pc \in {"services", "reload", "contained"} => host.link = atBegin.link
    /\ ~silent /\ pc \in {"reload", "contained"} => host.running = atBegin.running
    /\ ~silent /\ pc = "contained" /\ Enabled(atBegin.etcUfw) =>
          host.ufw \in {atBegin.ufw, atBegin.etcUfw}

\* A completed run keeps its rules, and so does one that is about to complete.
RulesAreKept == pc \in {"finishing", "installed"} => host.ufw = "relay"

\* As long as no rollback missed its aim: what a run found in /etc/ufw is confirmed, and
\* where other rules are in force or configured a timer of this run will restore it.
Settled == {host.ufw, host.etcUfw} \subseteq confirmed \cup {"absent"}
RulesComeBack ==
    /\ ~package => "off" \in confirmed
    /\ atBegin.etcUfw \in confirmed \cup {"absent"}
    /\ \A t \in Attempts : t = attempt /\ fwBackup[t] # None => fwBackup[t] \in confirmed
    /\ Settled \/ \E t \in Attempts : t = attempt /\ Live(t)
    /\ \A t \in Attempts : t = attempt /\ (t \in executed \/ timer[t] = "restored") => Settled
    /\ pc = "stopTimer" => Settled

Undisturbed == BackupsAreFaithful /\ TimerIsOurs /\ UndoneSoFar /\ RulesAreKept

\* The parts of TypeOK beside EnrollTypeOK.
ScriptOK ==
    /\ pc \in Steps \cup {"none", "installed", "contained", "halfway", "rollBackRules",
                          "stopTimer", "reload"} \cup MayFail
    /\ attempt \in 0 .. MaxAttempts
    /\ backup \in Host \cup {None} /\ stamp \in Attempts \cup {None}

HostOK ==
    /\ host \in Host /\ atBegin \in Host /\ confirmed \subseteq Rules /\ package \in BOOLEAN
    /\ complete \subseteq 0 .. MaxAttempts /\ media \in {"absent", "partial", "whole"}

FirewallOK ==
    /\ fwBackup \in [Attempts -> Rules \cup {None}]
    /\ timer \in [Attempts -> {"none", "armed", "fired", "restored", "marked", "done", "stopped"}]
    /\ executed \subseteq Attempts

FlagsOK == excused \in BOOLEAN /\ unrestored \in BOOLEAN /\ silent \in BOOLEAN

TypesOK == ScriptOK /\ HostOK /\ FirewallOK /\ FlagsOK

InstallInv ==
    /\ TypesOK /\ VariablesInOrder /\ LinksAreWhole /\ TimersInOrder /\ PackageFirst
    /\ ~excused => Undisturbed /\ (~unrestored /\ ~silent => RulesComeBack)

LEMMA AttemptTypes ==
    /\ MaxAttempts \in Nat /\ None \notin 0 .. MaxAttempts
    /\ \A t \in Attempts : t \in Nat /\ t # 0 /\ t \in 0 .. MaxAttempts /\ t # None
    /\ \A t \in 0 .. MaxAttempts : t \in Nat /\ (t # 0 => t \in Attempts)
  BY AttemptsAssumption DEF Attempts

\* None is neither a host nor what an /etc/ufw says.
LEMMA NoHostIsNone == \A h \in Host : h # None /\ h.etcUfw # None
  BY NoneAssumption DEF Host, Rules

\* The steps of rollback.sh, one by one.
Moves(from, to, h) == Goes(from, to) /\ host' = h

LEMMA UndoSteps ==
    ASSUME RollBackHost
    PROVE  /\ backup # None
           /\ \/ Moves("rollBackHost", "remove", [host EXCEPT !.running = FALSE])
              \/ Moves("remove", "unpack", [host EXCEPT !.config = None, !.etcUfw = "absent"])
              \/ Moves("unpack", "unlinkBinary",
                     [host EXCEPT !.config = backup.config,
                                  !.etcUfw = IF backup.etcUfw = "absent" THEN @ ELSE backup.etcUfw])
              \/ Moves("unlinkBinary", "linkBinary", [host EXCEPT !.binary = FALSE])
              \/ Moves("linkBinary", "unlink", [host EXCEPT !.binary = backup.binary])
              \/ Moves("unlink", "relink", [host EXCEPT !.link = None])
              \/ Moves("relink", "services", [host EXCEPT !.link = backup.link])
              \/ Moves("services", "reload", [host EXCEPT !.running = backup.running])
              \/ Moves("reload", "contained",
                     [host EXCEPT !.ufw = IF Enabled(host.etcUfw) THEN host.etcUfw ELSE @])
<1>1. PICK u \in Undo : Moves(u.from, u.to, u.host)
  BY DEF RollBackHost, Moves
<1>2. \A from, to, h : u = Undoing(from, to, h) => Moves(from, to, h)
  BY <1>1 DEF Undoing
<1>3. backup # None
  BY DEF RollBackHost
<1>4. CASE u \in UndoFiles
  BY <1>2, <1>3, <1>4 DEF UndoFiles
<1>5. CASE u \in UndoLinks
  BY <1>2, <1>3, <1>5 DEF UndoLinks
<1>6. CASE u \in UndoServices
  BY <1>2, <1>3, <1>6 DEF UndoServices
<1> QED
  BY <1>4, <1>5, <1>6 DEF Undo

LEMMA VainSteps ==
    ASSUME RollBackHostInVain
    PROVE  /\ backup # None /\ silent' = TRUE
           /\ \/ Moves("rollBackHost", "remove", host)
              \/ Moves("services", "reload", host)
              \/ Moves("reload", "contained", host)
              \/ Moves("reload", "contained",
                     [host EXCEPT !.ufw = IF Enabled(host.etcUfw) THEN "off" ELSE @])
<1>1. PICK u \in UndoInVain : Moves(u.from, u.to, u.host)
  BY DEF RollBackHostInVain, Moves
<1>2. \A from, to, h : u = Undoing(from, to, h) => Moves(from, to, h)
  BY <1>1 DEF Undoing
<1>3. backup # None /\ silent' = TRUE
  BY DEF RollBackHostInVain
<1> QED
  BY <1>1, <1>2, <1>3 DEF UndoInVain

\* Types.
LEMMA TypesStep ==
    ASSUME InstallInv, [Next]_vars PROVE TypesOK'
<1> USE AttemptTypes
<1>0. TypesOK /\ VariablesInOrder /\ TimersInOrder
  BY DEF InstallInv
<1>1. ScriptOK'
  <2> USE <1>0 DEF TypesOK, ScriptOK, Steps, MayFail, Goes
  <2>1. CASE Begin
    BY <2>1 DEF Begin
  <2>2. CASE Backup
    BY <2>2 DEF Backup, HostOK
  <2>3. CASE ReadTimestamp
    BY <2>3 DEF ReadTimestamp, VariablesInOrder
  <2>4. CASE UNCHANGED runVars
    <3>1. CASE InstallPackages \/ StageMedia \/ SwitchMedia \/ StageRelease \/ SwitchLink
                 \/ InstallConfig \/ RenderConfig
      BY <2>4, <3>1 DEF InstallPackages, StageMedia, SwitchMedia, StageRelease, SwitchLink,
             InstallConfig, RenderConfig
    <3>2. CASE BackUpRules \/ ArmTimer \/ ChangeRules \/ Start \/ Verify \/ BecomesActive
                 \/ ConfirmChecks
                 \/ CancelTimer \/ Finish
      BY <2>4, <3>2 DEF BackUpRules, ArmTimer, ChangeRules, Start, Verify, BecomesActive,
             ConfirmChecks, CancelTimer, Finish
    <3>3. CASE Fail \/ RollBackRules \/ RollBackRulesFails \/ StopTimer \/ RollBackHostFails
                 \/ OperatorRollsBack \/ Kill
      BY <2>4, <3>3 DEF Fail, RollBackRules, RollBackRulesFails, StopTimer,
             RollBackHostInVain, RollBackHostFails, OperatorRollsBack, Kill
    <3>4. CASE RollBackHost \/ RollBackHostInVain
      BY <2>4, <3>4, UndoSteps, VainSteps DEF Moves
    <3>5. CASE Reboot
      BY <2>4, <3>5 DEF Reboot
    <3>6. CASE UNCHANGED pc
      BY <2>4, <3>6
    <3> QED
      BY <2>4, <3>1, <3>2, <3>3, <3>4, <3>5, <3>6
        DEF Next, vars, Begin, Backup, ReadTimestamp, MediaIsTorn, Enrolls, TimerFires,
            TimerRestores, TimerMarks, TimerEnds
  <2> QED
    BY <2>1, <2>2, <2>3, <2>4
      DEF Next, vars, InstallPackages, StageMedia, MediaIsTorn, SwitchMedia, StageRelease,
          SwitchLink, InstallConfig, Enrolls, RenderConfig, BackUpRules, ArmTimer,
          ChangeRules, Start, Verify, BecomesActive, ConfirmChecks, CancelTimer, Finish, Fail,
          RollBackRules, RollBackRulesFails, StopTimer, RollBackHost, RollBackHostInVain,
          RollBackHostFails, OperatorRollsBack, Kill, Reboot, TimerFires, TimerRestores,
          TimerMarks, TimerEnds
<1>2. HostOK'
  <2>0. /\ host \in Host /\ atBegin \in Host /\ confirmed \subseteq Rules /\ package \in BOOLEAN
        /\ attempt \in 0 .. MaxAttempts
        /\ backup \in Host \cup {None} /\ complete \subseteq 0 .. MaxAttempts
        /\ media \in {"absent", "partial", "whole"}
    BY <1>0 DEF TypesOK, ScriptOK, HostOK
  <2>1. CASE Begin
    BY <2>0, <2>1 DEF Begin, HostOK
  <2>2. CASE StageMedia \/ MediaIsTorn \/ StageRelease
    BY <2>0, <2>2 DEF StageMedia, MediaIsTorn, StageRelease, HostOK
  <2>3. CASE SwitchMedia \/ SwitchLink \/ InstallConfig \/ Start
    <3>1. host' \in Host
      BY <2>0, <2>3 DEF SwitchMedia, SwitchLink, InstallConfig, Start, Host
    <3> QED BY <2>0, <2>3, <3>1 DEF SwitchMedia, SwitchLink, InstallConfig, Start, HostOK
  <2>12. CASE ChangeRules
    <3>1. host' \in Host
      BY <2>0, <2>12 DEF ChangeRules, Host, Rules
    <3> QED BY <2>0, <2>12, <3>1 DEF ChangeRules, HostOK
  <2>13. CASE InstallPackages
    <3>1. host' \in Host
      BY <2>0, <2>13 DEF InstallPackages, Host, Rules
    <3> QED BY <2>0, <2>13, <3>1 DEF InstallPackages, HostOK
  <2>4. CASE CancelTimer
    <3>1. host.ufw \in Rules
      BY <2>0 DEF Host
    <3> QED BY <2>0, <2>4, <3>1 DEF CancelTimer, HostOK
  <2>5. CASE RollBackRules
    <3>1. stamp \in Attempts \/ stamp = None
      BY <1>0 DEF TypesOK, ScriptOK
    <3>2. fwBackup[stamp] \in Rules
      BY <1>0, <2>5, <3>1 DEF RollBackRules, Goes, VariablesInOrder, Stamped, TypesOK,
             FirewallOK
    <3>3. host.ufw \in Rules /\ "off" \in Rules
      BY <2>0 DEF Host, Rules
    <3>4. host' = host \/ \E rules \in Rules :
            host' = [host EXCEPT !.etcUfw = fwBackup[stamp], !.ufw = rules]
      BY <2>5, <3>2, <3>3 DEF RollBackRules, Restored
    <3>5. host' \in Host
      BY <2>0, <3>2, <3>4 DEF Host
    <3> QED BY <2>0, <2>5, <3>5 DEF RollBackRules, HostOK
  <2>6. CASE RollBackRulesFails
    <3>1. fwBackup[stamp] \in Rules
      BY <1>0, <2>6 DEF RollBackRulesFails, Goes, VariablesInOrder, Stamped, TypesOK,
             ScriptOK, FirewallOK
    <3>2. PICK etc \in {host.etcUfw, "off", "absent", fwBackup[stamp]}, rules \in {host.ufw, "off"} :
            host' = [host EXCEPT !.etcUfw = etc, !.ufw = rules]
      BY <2>6 DEF RollBackRulesFails, Restored
    <3>3. etc \in Rules \cup {"absent"} /\ rules \in Rules
      BY <2>0, <3>1, <3>2 DEF Host, Rules
    <3>4. host' \in Host
      BY <2>0, <3>2, <3>3 DEF Host
    <3> QED BY <2>0, <2>6, <3>4 DEF RollBackRulesFails, HostOK
  <2>7. CASE RollBackHost
    <3>1. backup \in Host
      BY <2>0, <2>7 DEF RollBackHost
    <3>2. ASSUME Moves("unpack", "unlinkBinary",
                   [host EXCEPT !.config = backup.config,
                                !.etcUfw = IF backup.etcUfw = "absent" THEN @ ELSE backup.etcUfw])
          PROVE  host' \in Host
      <4>1. PICK etc \in Rules \cup {"absent"} :
              host' = [host EXCEPT !.config = backup.config, !.etcUfw = etc]
        BY <2>0, <3>1, <3>2 DEF Moves, Host
      <4> QED BY <2>0, <3>1, <4>1 DEF Host
    <3>3. ASSUME Moves("reload", "contained",
                   [host EXCEPT !.ufw = IF Enabled(host.etcUfw) THEN host.etcUfw ELSE @])
          PROVE  host' \in Host
      <4>1. PICK rules \in Rules : host' = [host EXCEPT !.ufw = rules]
        BY <2>0, <3>3 DEF Moves, Host, Rules, Enabled
      <4> QED BY <2>0, <4>1 DEF Host
    <3>4. host' \in Host
      BY <2>0, <2>7, <3>1, <3>2, <3>3, UndoSteps DEF Moves, Host
    <3> QED BY <2>0, <2>7, <3>4 DEF RollBackHost, HostOK
  <2>10. CASE RollBackHostInVain
    <3>1. host' \in Host
      BY <2>0, <2>10, VainSteps DEF Moves, Host, Rules
    <3> QED BY <2>0, <2>10, <3>1 DEF RollBackHostInVain, HostOK
  <2>11. CASE Reboot
    <3>1. host' \in Host
      BY <2>0, <2>11 DEF Reboot, Host, Rules, InForce
    <3> QED BY <2>0, <2>11, <3>1 DEF Reboot, HostOK
  <2>8. ASSUME NEW t \in Attempts, TimerRestores(t) PROVE HostOK'
    <3>1. fwBackup[t] \in Rules
      BY <1>0, <2>8 DEF TimerRestores, TimersInOrder, Live, TypesOK, FirewallOK
    <3>2. host' \in Host
      BY <2>0, <2>8, <3>1 DEF TimerRestores, Restored, Host, Rules
    <3> QED BY <2>0, <2>8, <3>2 DEF TimerRestores, HostOK
  <2>9. CASE UNCHANGED <<host, atBegin, confirmed, complete, media, package>>
    BY <2>0, <2>9 DEF HostOK
  <2> QED
    BY <2>1, <2>2, <2>3, <2>4, <2>5, <2>6, <2>7, <2>8, <2>9, <2>10, <2>11, <2>12, <2>13
      DEF Next, vars, Backup, Enrolls, RenderConfig, BackUpRules, ArmTimer, ReadTimestamp,
          Verify, BecomesActive, ConfirmChecks, Finish, Fail, StopTimer, RollBackHostFails,
          OperatorRollsBack, Kill, TimerFires, TimerMarks, TimerEnds
<1>3. FirewallOK'
  <2> USE <1>0 DEF TypesOK, FirewallOK
  <2>1. CASE BackUpRules
    <3>1. host.etcUfw \in Rules
      BY <2>1 DEF BackUpRules, HostOK, Host
    <3> QED BY <2>1, <3>1 DEF BackUpRules
  <2>2. CASE ArmTimer \/ CancelTimer \/ StopTimer
    BY <2>2 DEF ArmTimer, CancelTimer, StopTimer
  <2>3. CASE RollBackRules
    <3>1. stamp \in Attempts
      BY <2>3 DEF RollBackRules, Goes, VariablesInOrder, Stamped, ScriptOK
    <3> QED BY <2>3, <3>1 DEF RollBackRules
  <2>4. CASE Reboot
    BY <2>4 DEF Reboot
  <2>5. ASSUME NEW t \in Attempts, TimerFires(t) \/ TimerRestores(t) \/ TimerMarks(t) \/ TimerEnds(t)
        PROVE  FirewallOK'
    BY <2>5 DEF TimerFires, TimerRestores, TimerMarks, TimerEnds
  <2>6. CASE UNCHANGED firewallVars
    BY <2>6
  <2> QED
    BY <2>1, <2>2, <2>3, <2>4, <2>5, <2>6
      DEF Next, vars, Begin, Backup, InstallPackages, StageMedia, MediaIsTorn, SwitchMedia,
          StageRelease, SwitchLink, InstallConfig, Enrolls, RenderConfig, ChangeRules,
          ReadTimestamp, Start, Verify, BecomesActive, ConfirmChecks, Finish, Fail,
          RollBackRulesFails, RollBackHost, RollBackHostInVain, RollBackHostFails,
          OperatorRollsBack, Kill
<1>4. FlagsOK'
  <2> USE <1>0 DEF TypesOK, FlagsOK
  <2>1. CASE Begin \/ ConfirmChecks \/ Reboot
    BY <2>1 DEF Begin, ConfirmChecks, Reboot
  <2>2. ASSUME NEW t \in Attempts, TimerFires(t) PROVE FlagsOK'
    BY <2>2 DEF TimerFires
  <2>3. CASE RollBackRules \/ RollBackRulesFails \/ RollBackHostInVain
    BY <2>3 DEF RollBackRules, RollBackRulesFails, RollBackHostInVain
  <2>4. CASE UNCHANGED <<excused, faultVars>>
    BY <2>4
  <2> QED
    BY <2>1, <2>2, <2>3, <2>4
      DEF Next, vars, Backup, InstallPackages, StageMedia, MediaIsTorn, SwitchMedia,
          StageRelease, SwitchLink, InstallConfig, Enrolls, RenderConfig, BackUpRules,
          ArmTimer, ChangeRules, ReadTimestamp, Start, Verify, BecomesActive, CancelTimer,
          Finish, Fail, StopTimer, RollBackHost, RollBackHostFails, OperatorRollsBack, Kill,
          TimerRestores, TimerMarks, TimerEnds
<1> QED
  BY <1>1, <1>2, <1>3, <1>4 DEF TypesOK

\* The order of the variables.
LEMMA VariablesStep ==
    ASSUME InstallInv, [Next]_vars PROVE VariablesInOrder'
<1> USE AttemptTypes DEF Goes, Steps, Applied, Stamped
<1>0. ScriptOK /\ FirewallOK /\ HostOK /\ VariablesInOrder /\ TimersInOrder
  BY DEF InstallInv, TypesOK
<1>1. CASE Begin
  BY <1>0, <1>1 DEF Begin, VariablesInOrder, ScriptOK
<1>2. CASE Backup
  <2>1. host # None
    BY <1>0, <1>2, NoHostIsNone DEF HostOK
  <2> QED BY <1>0, <1>2, <2>1 DEF Backup, VariablesInOrder, ScriptOK
<1>3. CASE BackUpRules
  <2>1. host.etcUfw # None
    BY <1>0, NoHostIsNone DEF HostOK
  <2> QED BY <1>0, <1>3, <2>1 DEF BackUpRules, VariablesInOrder, ScriptOK, FirewallOK
<1>4. CASE ReadTimestamp
  BY <1>0, <1>4 DEF ReadTimestamp, VariablesInOrder, ScriptOK
<1>5. CASE UNCHANGED <<attempt, backup, stamp, fwBackup>>
             /\ ~(Begin \/ Backup \/ BackUpRules \/ ReadTimestamp)
  <2> USE <1>0, <1>5 DEF VariablesInOrder
  <2>1. CASE InstallPackages \/ StageMedia \/ SwitchMedia \/ StageRelease \/ SwitchLink
               \/ InstallConfig \/ RenderConfig
    BY <2>1 DEF InstallPackages, StageMedia, SwitchMedia, StageRelease, SwitchLink,
           InstallConfig, RenderConfig
  <2>2. CASE ArmTimer \/ ChangeRules \/ Start \/ Verify \/ BecomesActive \/ ConfirmChecks
               \/ CancelTimer
               \/ Finish
    BY <2>2 DEF ArmTimer, ChangeRules, Start, Verify, BecomesActive, ConfirmChecks,
           CancelTimer, Finish
  <2>3. CASE Fail
    BY <2>3 DEF Fail, ScriptOK
  <2>4. CASE RollBackRules \/ RollBackRulesFails \/ StopTimer \/ RollBackHostFails
               \/ OperatorRollsBack \/ Kill
    BY <2>4 DEF RollBackRules, RollBackRulesFails, StopTimer, RollBackHostInVain,
           RollBackHostFails, OperatorRollsBack, Kill
  <2>5. CASE RollBackHost \/ RollBackHostInVain
    BY <2>5, UndoSteps, VainSteps DEF Moves
  <2>6. CASE Reboot
    BY <2>6 DEF Reboot
  <2>7. CASE UNCHANGED pc
    BY <2>7
  <2> QED
    BY <2>1, <2>2, <2>3, <2>4, <2>5, <2>6, <2>7
    DEF Next, vars, MediaIsTorn, Enrolls, TimerFires,
        TimerRestores, TimerMarks, TimerEnds
<1> QED
  BY <1>1, <1>2, <1>3, <1>4, <1>5
    DEF Next, vars, InstallPackages, StageMedia, MediaIsTorn, SwitchMedia, StageRelease,
        SwitchLink, InstallConfig, Enrolls, RenderConfig, ArmTimer, ChangeRules, Start,
        Verify, BecomesActive, ConfirmChecks, CancelTimer, Finish, Fail, RollBackRules,
        RollBackRulesFails, StopTimer, RollBackHost, RollBackHostInVain, RollBackHostFails,
        OperatorRollsBack, Kill, Reboot, TimerFires, TimerRestores, TimerMarks, TimerEnds

\* Releases.
LEMMA LinksStep ==
    ASSUME InstallInv, [Next]_vars PROVE LinksAreWhole'
<1> USE DEF Goes
<1>0. HostOK /\ LinksAreWhole /\ VariablesInOrder /\ host.binary \in BOOLEAN
  BY DEF InstallInv, TypesOK, HostOK, Host
<1>1. CASE Begin
  BY <1>0, <1>1 DEF Begin, LinksAreWhole, LinkIsComplete
<1>2. CASE Backup
  BY <1>0, <1>2 DEF Backup, LinksAreWhole, LinkIsComplete
<1>3. CASE StageMedia \/ MediaIsTorn
  BY <1>0, <1>3 DEF StageMedia, MediaIsTorn, LinksAreWhole, LinkIsComplete
<1>4. CASE StageRelease
  BY <1>0, <1>4 DEF StageRelease, LinksAreWhole, LinkIsComplete
<1>5. CASE UNCHANGED <<attempt, backup, complete, media>>
           /\ ~(Begin \/ Backup \/ StageMedia \/ MediaIsTorn \/ StageRelease)
  <2> USE <1>0, <1>5 DEF LinksAreWhole, LinkIsComplete
  <2>1. CASE InstallPackages \/ SwitchMedia \/ SwitchLink \/ InstallConfig \/ ChangeRules \/ Start
    BY <2>1 DEF InstallPackages, SwitchMedia, SwitchLink, InstallConfig, ChangeRules, Start,
           HostOK, Host
  <2>2. CASE RollBackRules \/ RollBackRulesFails \/ Reboot
    <3>1. host'.link = host.link /\ host'.binary = host.binary
      BY <2>2 DEF RollBackRules, RollBackRulesFails, Reboot, Restored, HostOK, Host
    <3>2. pc' \notin {"binary", "link"}
      BY <2>2 DEF RollBackRules, RollBackRulesFails, Reboot
    <3> QED BY <3>1, <3>2
  <2>3. CASE RollBackHost
    BY <2>3, UndoSteps DEF Moves, HostOK, Host
  <2>6. CASE RollBackHostInVain
    BY <2>6, VainSteps DEF Moves, HostOK, Host
  <2>4. ASSUME NEW t \in Attempts, TimerRestores(t) PROVE LinksAreWhole'
    BY <2>4 DEF TimerRestores, Restored, HostOK, Host
  <2>5. CASE UNCHANGED host /\ (UNCHANGED pc \/ pc' \notin {"binary", "link"})
    BY <2>5
  <2> QED
    BY <2>1, <2>2, <2>3, <2>4, <2>5, <2>6
      DEF Next, vars, Enrolls, RenderConfig, BackUpRules, ArmTimer, ReadTimestamp, Verify,
          BecomesActive, ConfirmChecks, CancelTimer, Finish, Fail, StopTimer,
          RollBackHostFails, OperatorRollsBack, Kill, TimerFires, TimerMarks, TimerEnds
<1> QED
  BY <1>1, <1>2, <1>3, <1>4, <1>5
    DEF Next, vars, InstallPackages, SwitchMedia, SwitchLink, InstallConfig, Enrolls,
        RenderConfig, BackUpRules, ArmTimer, ChangeRules, ReadTimestamp, Start, Verify,
        BecomesActive, ConfirmChecks, CancelTimer, Finish, Fail, RollBackRules,
        RollBackRulesFails, StopTimer, RollBackHost, RollBackHostInVain, RollBackHostFails,
        OperatorRollsBack, Kill, Reboot, TimerFires, TimerRestores, TimerMarks, TimerEnds

\* Timers.
LEMMA TimersStep ==
    ASSUME InstallInv, [Next]_vars PROVE TimersInOrder'
<1> USE AttemptTypes DEF Goes, Live, Unarmed, Applied
<1>0. ScriptOK /\ FirewallOK /\ HostOK /\ VariablesInOrder /\ TimersInOrder
  BY DEF InstallInv, TypesOK
<1>1. CASE Begin
  BY <1>0, <1>1 DEF Begin, TimersInOrder, ScriptOK
<1>2. CASE BackUpRules
  <2>1. host.etcUfw # None /\ attempt \in Attempts
    BY <1>0, <1>2, NoHostIsNone DEF BackUpRules, HostOK, VariablesInOrder, Steps
  <2> QED BY <1>0, <1>2, <2>1 DEF BackUpRules, TimersInOrder, FirewallOK
<1>3. CASE ArmTimer
  <2>1. fwBackup[attempt] # None /\ attempt \in Attempts
    BY <1>0, <1>3 DEF ArmTimer, VariablesInOrder, Steps
  <2> QED BY <1>0, <1>3, <2>1 DEF ArmTimer, TimersInOrder, FirewallOK
<1>4. CASE CancelTimer \/ StopTimer
  <2>1. stamp = attempt /\ attempt \in Attempts
    BY <1>0, <1>4 DEF CancelTimer, StopTimer, VariablesInOrder, Stamped, Steps
  <2> QED BY <1>0, <1>4, <2>1 DEF CancelTimer, StopTimer, TimersInOrder, FirewallOK
<1>5. CASE RollBackRules
  <2>1. stamp = attempt /\ attempt \in Attempts
    BY <1>0, <1>5 DEF RollBackRules, VariablesInOrder, Stamped, Steps
  <2> QED BY <1>0, <1>5, <2>1 DEF RollBackRules, TimersInOrder, FirewallOK
<1>6. CASE Reboot
  BY <1>0, <1>6 DEF Reboot, Loaded, TimersInOrder, FirewallOK
<1>7. ASSUME NEW t \in Attempts, TimerFires(t) \/ TimerRestores(t) \/ TimerMarks(t) \/ TimerEnds(t)
      PROVE  TimersInOrder'
  BY <1>0, <1>7 DEF TimerFires, TimerRestores, TimerMarks, TimerEnds, TimersInOrder, FirewallOK
<1>8. CASE UNCHANGED <<attempt, firewallVars>>
           /\ ~(Begin \/ BackUpRules \/ ArmTimer \/ CancelTimer \/ StopTimer \/ RollBackRules \/ Reboot)
           /\ \A t \in Attempts : ~(TimerFires(t) \/ TimerRestores(t) \/ TimerMarks(t) \/ TimerEnds(t))
  <2> USE <1>0, <1>8 DEF TimersInOrder
  <2>1. CASE Backup \/ InstallPackages \/ StageMedia \/ SwitchMedia \/ StageRelease \/ SwitchLink
               \/ InstallConfig \/ RenderConfig
    BY <2>1 DEF Backup, InstallPackages, StageMedia, SwitchMedia, StageRelease, SwitchLink,
           InstallConfig, RenderConfig
  <2>2. CASE ChangeRules \/ ReadTimestamp \/ Start \/ Verify \/ BecomesActive \/ ConfirmChecks
    BY <2>2 DEF ChangeRules, ReadTimestamp, Start, Verify, BecomesActive, ConfirmChecks
  <2>3. CASE UNCHANGED pc \/ pc' \notin Unarmed \cup Applied \cup {"rules"}
    BY <2>3
  <2>4. CASE RollBackHost \/ RollBackHostInVain
    BY <2>3, <2>4, UndoSteps, VainSteps DEF Moves
  <2> QED
    BY <2>1, <2>2, <2>3, <2>4
    DEF Next, vars, MediaIsTorn, Enrolls, Finish, Fail, RollBackRulesFails, RollBackHostFails,
        OperatorRollsBack, Kill
<1> QED
  BY <1>1, <1>2, <1>3, <1>4, <1>5, <1>6, <1>7, <1>8
    DEF Next, vars, Backup, InstallPackages, StageMedia, MediaIsTorn, SwitchMedia,
        StageRelease, SwitchLink, InstallConfig, Enrolls, RenderConfig, ChangeRules,
        ReadTimestamp, Start, Verify, BecomesActive, ConfirmChecks, Finish, Fail,
        RollBackRulesFails, RollBackHost, RollBackHostInVain, RollBackHostFails,
        OperatorRollsBack, Kill

\* The package, and what is saved or there before it is installed.
LEMMA PackageStep ==
    ASSUME InstallInv, [Next]_vars PROVE PackageFirst'
<1> USE AttemptTypes DEF Goes, PackageFirst
<1>0. ScriptOK /\ FirewallOK /\ HostOK /\ VariablesInOrder /\ TimersInOrder /\ PackageFirst
  BY DEF InstallInv, TypesOK
<1>1. CASE package
  <2>1. package' = package \/ package' = TRUE
    BY  DEF Next, vars, Begin, Backup, InstallPackages, StageMedia, MediaIsTorn, SwitchMedia,
           StageRelease, SwitchLink, InstallConfig, Enrolls, RenderConfig, BackUpRules,
           ArmTimer, ChangeRules, ReadTimestamp, Start, Verify, BecomesActive, ConfirmChecks,
           CancelTimer, Finish, Fail, RollBackRules, RollBackRulesFails, StopTimer,
           RollBackHost, RollBackHostInVain, RollBackHostFails, OperatorRollsBack, Kill,
           Reboot, TimerFires, TimerRestores, TimerMarks, TimerEnds
  <2> QED BY <1>1, <2>1
<1>2. CASE ~package
  <2>0. /\ host.etcUfw = "absent" /\ (backup # None => backup.etcUfw = "absent")
        /\ \A t \in Attempts : fwBackup[t] = None
    BY <1>0, <1>2
  <2>1. CASE Backup \/ Begin
    BY <2>0, <2>1 DEF Backup, Begin
  <2>2. CASE InstallPackages
    BY <2>2 DEF InstallPackages
  <2>3. CASE SwitchMedia \/ SwitchLink \/ InstallConfig \/ Start \/ Reboot
    <3>1. host'.etcUfw = host.etcUfw
      BY <1>0, <2>3 DEF SwitchMedia, SwitchLink, InstallConfig, Start, Reboot, HostOK, Host
    <3> QED BY <2>0, <2>3, <3>1 DEF SwitchMedia, SwitchLink, InstallConfig, Start, Reboot
  <2>4. ~(BackUpRules \/ ChangeRules)
    <3>1. ~BackUpRules
      BY <2>0 DEF BackUpRules
    <3>2. ~ChangeRules
      BY <1>0, <2>0 DEF ChangeRules, VariablesInOrder, Steps
    <3> QED BY <3>1, <3>2
  <2>5. ~(RollBackRules \/ RollBackRulesFails)
    <3>1. pc # "rollBackRules"
      BY <1>0, <2>0 DEF VariablesInOrder, Stamped, ScriptOK
    <3> QED BY <3>1 DEF RollBackRules, RollBackRulesFails
  <2>6. \A t \in Attempts : ~TimerRestores(t)
    BY <1>0, <2>0 DEF TimerRestores, TimersInOrder, Live
  <2>7. CASE RollBackHost
    <3>1. host'.etcUfw = "absent"
      BY <1>0, <2>0, <2>7, UndoSteps DEF Moves, HostOK, Host
    <3> QED BY <2>0, <2>7, <3>1 DEF RollBackHost
  <2>8. CASE RollBackHostInVain
    <3>1. host'.etcUfw = "absent"
      BY <1>0, <2>0, <2>8, VainSteps DEF Moves, HostOK, Host
    <3> QED BY <2>0, <2>8, <3>1 DEF RollBackHostInVain
  <2>9. CASE UNCHANGED <<host, backup, fwBackup>>
    BY <2>0, <2>9
  <2> QED
    BY <2>1, <2>2, <2>3, <2>4, <2>5, <2>6, <2>7, <2>8, <2>9
      DEF Next, vars, StageMedia, MediaIsTorn, StageRelease, Enrolls, RenderConfig, ArmTimer,
          ReadTimestamp, Verify, BecomesActive, ConfirmChecks, CancelTimer, Finish, Fail,
          StopTimer, RollBackHostFails, OperatorRollsBack, Kill, TimerFires, TimerMarks,
          TimerEnds
<1> QED BY <1>0, <1>1, <1>2 DEF HostOK

\* An excuse is never taken back, nor is a failure.
LEMMA ExcusedStays ==
    [Next]_vars => (excused => excused') /\ (unrestored => unrestored') /\ (silent => silent')
<1>1. CASE \/ Begin \/ ConfirmChecks \/ Reboot \/ RollBackRules \/ RollBackRulesFails \/ RollBackHostInVain
           \/ \E t \in Attempts : TimerFires(t)
  BY <1>1 DEF Begin, ConfirmChecks, Reboot, RollBackRules, RollBackRulesFails,
         RollBackHostInVain, TimerFires
<1>2. CASE UNCHANGED <<excused, faultVars>>
  BY <1>2
<1> QED
  BY <1>1, <1>2
    DEF Next, vars, Backup, InstallPackages, StageMedia, MediaIsTorn, SwitchMedia,
        StageRelease, SwitchLink, InstallConfig, Enrolls, RenderConfig, BackUpRules, ArmTimer,
        ChangeRules, ReadTimestamp, Start, Verify, BecomesActive, CancelTimer, Finish, Fail,
        StopTimer, RollBackHost, RollBackHostFails, OperatorRollsBack, Kill, TimerRestores,
        TimerMarks, TimerEnds

\* What an undisturbed run saves and finds.
LEMMA FaithfulStep ==
    ASSUME InstallInv, [Next]_vars, ~excused' PROVE ~excused /\ BackupsAreFaithful'
<1> USE AttemptTypes DEF Goes, Unarmed, Live, Steps, Stamped
<1>0. /\ ~excused
      /\ ScriptOK /\ FirewallOK /\ HostOK /\ VariablesInOrder /\ TimersInOrder /\ PackageFirst
  BY ExcusedStays DEF InstallInv, TypesOK
<1>00. BackupsAreFaithful /\ TimerIsOurs
  BY <1>0 DEF InstallInv, Undisturbed
<1> USE <1>0, <1>00 DEF BackupsAreFaithful
<1>1. CASE Begin
  BY <1>1 DEF Begin, VariablesInOrder, TimersInOrder, ScriptOK, Like
<1>2. CASE Backup
  BY <1>2 DEF Backup, Like
<1>3. CASE BackUpRules
  <2>1. host.etcUfw = InForce(atBegin.etcUfw)
    BY <1>3 DEF BackUpRules, Like, InForce
  <2> QED BY <1>3, <2>1 DEF BackUpRules, VariablesInOrder, FirewallOK
<1>11. CASE InstallPackages
  <2>1. ~package => atBegin.etcUfw = "absent"
    BY <1>11 DEF InstallPackages, PackageFirst, Like, InForce
  <2>2. host'.ufw = host.ufw /\ host'.etcUfw \in Like(atBegin.etcUfw)
    BY <1>11, <2>1 DEF InstallPackages, Like, InForce, HostOK, Host
  <2> QED BY <1>11, <2>2 DEF InstallPackages
<1>4. CASE StageMedia \/ MediaIsTorn \/ StageRelease \/ Enrolls \/ RenderConfig \/ ArmTimer
  BY <1>4 DEF StageMedia, MediaIsTorn, StageRelease, Enrolls, RenderConfig, ArmTimer
<1>5. CASE SwitchMedia \/ SwitchLink \/ InstallConfig
  BY <1>5 DEF SwitchMedia, SwitchLink, InstallConfig, HostOK, Host
<1>6. ASSUME NEW t \in Attempts, TimerRestores(t) PROVE BackupsAreFaithful'
  <2>1. t = attempt /\ timer[t] = "fired" /\ UNCHANGED <<pc, attempt, atBegin, backup, fwBackup>>
    BY <1>6 DEF TimerRestores, TimerIsOurs
  <2>2. pc \notin Unarmed \cup {"rules"}
    BY <2>1 DEF TimersInOrder, TimerIsOurs
  <2> QED BY <2>1, <2>2
<1>7. ASSUME NEW t \in Attempts, TimerFires(t) \/ TimerMarks(t) \/ TimerEnds(t)
      PROVE  BackupsAreFaithful'
  BY <1>7 DEF TimerFires, TimerMarks, TimerEnds
<1>8. CASE UNCHANGED <<atBegin, backup, fwBackup, attempt>> /\ pc' \notin Unarmed \cup {"rules"}
  BY <1>8
<1>9. CASE UNCHANGED vars
  BY <1>9 DEF vars
<1>10. CASE RollBackHost \/ RollBackHostInVain
  BY <1>8, <1>10, UndoSteps, VainSteps DEF RollBackHost, RollBackHostInVain, Moves
<1> QED
  BY <1>1, <1>2, <1>3, <1>4, <1>5, <1>6, <1>7, <1>8, <1>9, <1>10, <1>11
    DEF Next, ChangeRules, ReadTimestamp, Start, Verify, BecomesActive, ConfirmChecks,
        CancelTimer, Finish, Fail, RollBackRules, RollBackRulesFails, StopTimer,
        RollBackHostFails, OperatorRollsBack, Kill, Reboot

\* The timer of an undisturbed run.
LEMMA OurTimerStep ==
    ASSUME InstallInv, [Next]_vars, ~excused' PROVE TimerIsOurs'
<1> USE AttemptTypes DEF Goes, Unarmed, Applied, Live, Steps, Stamped
<1>0. /\ ~excused
      /\ ScriptOK /\ FirewallOK /\ HostOK /\ VariablesInOrder /\ TimersInOrder
  BY ExcusedStays DEF InstallInv, TypesOK
<1>00. BackupsAreFaithful /\ TimerIsOurs
  BY <1>0 DEF InstallInv, Undisturbed
<1> USE <1>0, <1>00 DEF TimerIsOurs
<1>1. CASE Begin
  BY <1>1 DEF Begin
<1>2. CASE ArmTimer
  BY <1>2 DEF ArmTimer, VariablesInOrder, TimersInOrder, FirewallOK
<1>3. CASE ChangeRules
  BY <1>3 DEF ChangeRules, HostOK, Host
<1>4. CASE ConfirmChecks
  <2>1. stamp = attempt /\ attempt \in Attempts /\ stamp \notin executed
    BY <1>4 DEF ConfirmChecks, VariablesInOrder
  <2>2. timer[stamp] \notin {"fired", "restored"}
    BY <1>4 DEF ConfirmChecks
  <2>3. timer[attempt] = "armed"
    BY <1>4, <2>1, <2>2 DEF ConfirmChecks, TimersInOrder
  <2> QED BY <1>4, <2>3 DEF ConfirmChecks
<1>5. CASE CancelTimer \/ StopTimer
  <2>1. stamp = attempt /\ attempt \in Attempts
    BY <1>5 DEF CancelTimer, StopTimer, VariablesInOrder
  <2> QED BY <1>5, <2>1 DEF CancelTimer, StopTimer, FirewallOK
<1>6. CASE Reboot
  BY <1>6 DEF Reboot, Loaded
<1>7. ASSUME NEW t \in Attempts, TimerFires(t) PROVE TimerIsOurs'
  <2>1. pc \notin {"rules", "cancel"}
    BY <1>7 DEF TimerFires
  <2> QED BY <1>7, <2>1 DEF TimerFires, FirewallOK
<1>8. ASSUME NEW t \in Attempts, TimerRestores(t) \/ TimerMarks(t) \/ TimerEnds(t) PROVE TimerIsOurs'
  BY <1>8 DEF TimerRestores, TimerMarks, TimerEnds, FirewallOK
<1>9. CASE UNCHANGED <<attempt, timer>>
           /\ ~(Begin \/ ArmTimer \/ ChangeRules \/ ConfirmChecks \/ CancelTimer \/ StopTimer \/ Reboot)
           /\ \A t \in Attempts : ~(TimerFires(t) \/ TimerRestores(t) \/ TimerMarks(t) \/ TimerEnds(t))
  <2> USE <1>9
  <2>1. CASE Backup \/ StageMedia \/ MediaIsTorn \/ StageRelease \/ Enrolls \/ RenderConfig
               \/ BackUpRules
    BY <2>1 DEF Backup, InstallPackages, StageMedia, MediaIsTorn, StageRelease, Enrolls,
           RenderConfig, BackUpRules
  <2>2. CASE InstallPackages \/ SwitchMedia \/ SwitchLink \/ InstallConfig
    BY <2>2 DEF InstallPackages, SwitchMedia, SwitchLink, InstallConfig
  <2>3. CASE Start \/ Verify \/ BecomesActive \/ ReadTimestamp
    BY <2>3 DEF Start, Verify, BecomesActive, ReadTimestamp, HostOK, Host
  <2>4. CASE pc' \notin Applied \cup {"rules", "finishing", "installed"}
    BY <2>4
  <2>5. CASE RollBackHost \/ RollBackHostInVain
    BY <2>4, <2>5, UndoSteps, VainSteps DEF Moves
  <2>6. CASE UNCHANGED vars
    BY <2>6 DEF vars
  <2>7. CASE Finish
    BY <2>7 DEF Finish
  <2> QED
    BY <2>1, <2>2, <2>3, <2>4, <2>5, <2>6, <2>7
      DEF Next, Fail, RollBackRules, RollBackRulesFails, RollBackHostFails, OperatorRollsBack,
          Kill
<1> QED
  BY <1>1, <1>2, <1>3, <1>4, <1>5, <1>6, <1>7, <1>8, <1>9
    DEF Next, vars, Backup, InstallPackages, StageMedia, MediaIsTorn, SwitchMedia,
        StageRelease, SwitchLink, InstallConfig, Enrolls, RenderConfig, BackUpRules,
        ReadTimestamp, Start, Verify, BecomesActive, Finish, Fail, RollBackRules,
        RollBackRulesFails, RollBackHost, RollBackHostInVain, RollBackHostFails,
        OperatorRollsBack, Kill

\* What rollback.sh has brought back so far.
LEMMA UndoneStep ==
    ASSUME InstallInv, [Next]_vars, ~excused' PROVE UndoneSoFar'
<1> USE AttemptTypes DEF Goes, Undone
<1>0. /\ ~excused /\ (~silent' => ~silent)
      /\ ScriptOK /\ FirewallOK /\ HostOK /\ VariablesInOrder /\ TimersInOrder
  BY ExcusedStays DEF InstallInv, TypesOK
<1>00. BackupsAreFaithful /\ TimerIsOurs /\ UndoneSoFar
  BY <1>0 DEF InstallInv, Undisturbed
<1> USE <1>0, <1>00 DEF UndoneSoFar
<1>1. CASE RollBackHost
  <2>1. backup = atBegin /\ atBegin' = atBegin /\ silent' = silent
    BY <1>1 DEF RollBackHost, BackupsAreFaithful
  <2>2. CASE Moves("unpack", "unlinkBinary",
                [host EXCEPT !.config = backup.config,
                             !.etcUfw = IF backup.etcUfw = "absent" THEN @ ELSE backup.etcUfw])
    BY <2>1, <2>2 DEF Moves, HostOK, Host, Like, InForce
  <2>3. CASE Moves("reload", "contained",
                [host EXCEPT !.ufw = IF Enabled(host.etcUfw) THEN host.etcUfw ELSE @])
    BY <2>1, <2>3 DEF Moves, HostOK, Host, Like, InForce, Enabled
  <2> QED BY <1>1, <2>1, <2>2, <2>3, UndoSteps DEF Moves, HostOK, Host
<1>6. CASE RollBackHostInVain
  BY <1>6, VainSteps DEF RollBackHostInVain, Moves, HostOK, Host
<1>2. CASE Fail
  BY <1>2 DEF Fail, BackupsAreFaithful, VariablesInOrder, Steps, Like
<1>3. ASSUME NEW t \in Attempts, TimerRestores(t) PROVE UndoneSoFar'
  <2>1. fwBackup[t] = InForce(atBegin.etcUfw)
    BY <1>3 DEF TimerRestores, TimerIsOurs, TimersInOrder, BackupsAreFaithful, Live
  <2>2. Enabled(atBegin.etcUfw) => fwBackup[t] = atBegin.etcUfw
    BY <2>1 DEF InForce, Enabled
  <2>3. host' = [host EXCEPT !.etcUfw = fwBackup[t], !.ufw = fwBackup[t]]
        /\ UNCHANGED <<pc, atBegin, silent>>
    BY <1>3 DEF TimerRestores, Restored
  <2> QED BY <2>1, <2>2, <2>3 DEF HostOK, Host, Like
<1>7. CASE Reboot
  <2>1. host' = host /\ atBegin' = atBegin /\ silent' = silent
    BY <1>7 DEF Reboot, HostOK, Host
  <2> QED BY <1>7, <2>1 DEF Reboot
<1>4. CASE UNCHANGED <<atBegin, host, silent>> /\ (UNCHANGED pc \/ pc' \notin Undone \cup {"unpack"})
  BY <1>4
<1>5. CASE pc' \notin Undone \cup {"unpack"}
  BY <1>5
<1> QED
  BY <1>1, <1>2, <1>3, <1>4, <1>5, <1>6, <1>7
    DEF Next, vars, Begin, Backup, InstallPackages, StageMedia, MediaIsTorn, SwitchMedia,
        StageRelease, SwitchLink, InstallConfig, Enrolls, RenderConfig, BackUpRules, ArmTimer,
        ChangeRules, ReadTimestamp, Start, Verify, BecomesActive, ConfirmChecks, CancelTimer,
        Finish, RollBackRules, RollBackRulesFails, StopTimer, RollBackHostFails,
        OperatorRollsBack, Kill, TimerFires, TimerMarks, TimerEnds

\* The confirmation: at its end the timer is armed and the rules are in force.
LEMMA ConfirmationStep ==
    ASSUME InstallInv, [Next]_vars, ~excused' PROVE RulesAreKept'
<1> USE AttemptTypes DEF Goes
<1>0. /\ ~excused
      /\ ScriptOK /\ HostOK /\ VariablesInOrder /\ TimerIsOurs /\ RulesAreKept
  BY ExcusedStays DEF InstallInv, TypesOK, Undisturbed
<1> USE <1>0 DEF RulesAreKept
<1>1. CASE CancelTimer
  BY <1>1 DEF CancelTimer, VariablesInOrder, TimerIsOurs, Steps, Applied
<1>2. ASSUME NEW t \in Attempts, TimerRestores(t) PROVE RulesAreKept'
  BY <1>2 DEF TimerRestores, TimerIsOurs, Live
<1>3. CASE pc' \notin {"finishing", "installed"} \/ UNCHANGED <<pc, host>>
  BY <1>3
<1>4. CASE RollBackHost \/ RollBackHostInVain
  BY <1>4, UndoSteps, VainSteps DEF Moves
<1>5. CASE Finish
  BY <1>5 DEF Finish
<1>6. CASE Reboot
  <2>1. host' = host
    BY <1>6 DEF Reboot, HostOK, Host
  <2> QED BY <1>6, <2>1 DEF Reboot
<1> QED
  BY <1>1, <1>2, <1>3, <1>4, <1>5, <1>6
    DEF Next, vars, Begin, Backup, InstallPackages, StageMedia, MediaIsTorn, SwitchMedia,
        StageRelease, SwitchLink, InstallConfig, Enrolls, RenderConfig, BackUpRules, ArmTimer,
        ChangeRules, ReadTimestamp, Start, Verify, BecomesActive, ConfirmChecks, Fail,
        RollBackRules, RollBackRulesFails, StopTimer, RollBackHostFails, OperatorRollsBack,
        Kill, TimerFires, TimerMarks, TimerEnds

\* The rules to go back to.
LEMMA RulesStep ==
    ASSUME InstallInv, [Next]_vars, ~excused', ~unrestored', ~silent' PROVE RulesComeBack'
<1> USE AttemptTypes DEF Goes, Live
<1>0. /\ ~excused /\ ~unrestored /\ ~silent
      /\ ScriptOK /\ FirewallOK /\ HostOK /\ VariablesInOrder /\ TimersInOrder /\ PackageFirst
  BY ExcusedStays DEF InstallInv, TypesOK
<1>00. BackupsAreFaithful /\ TimerIsOurs /\ RulesComeBack /\ UndoneSoFar
  BY <1>0 DEF InstallInv, Undisturbed
<1> USE <1>0, <1>00 DEF RulesComeBack, Settled
<1>1. CASE Begin
  <2>1. \A t \in Attempts : ~Live(t)
    BY <1>1 DEF Begin
  <2>2. Settled
    BY <2>1
  <2>3. /\ attempt' = attempt + 1 /\ atBegin' = host
        /\ UNCHANGED <<host, confirmed, timer, executed, package, fwBackup>> /\ pc' = "backup"
    BY <1>1 DEF Begin
  <2>4. \A t \in Attempts : t = attempt' => timer[t] = "none" /\ t \notin executed /\ fwBackup[t] = None
    BY <2>3 DEF ScriptOK, TimersInOrder
  <2> QED BY <2>2, <2>3, <2>4
<1>2. CASE ChangeRules
  <2>1. attempt \in Attempts /\ timer[attempt] = "armed" /\ attempt \notin executed
    BY <1>2 DEF ChangeRules, VariablesInOrder, TimerIsOurs, Steps
  <2> QED BY <1>2, <2>1 DEF ChangeRules
<1>3. CASE ArmTimer
  <2>1. attempt \in Attempts /\ attempt \notin executed
    BY <1>3 DEF ArmTimer, VariablesInOrder, TimersInOrder, Unarmed, Steps
  <2> QED BY <1>3, <2>1 DEF ArmTimer, FirewallOK
<1>4. CASE CancelTimer
  <2>1. \A t \in Attempts : Live(t) => t = stamp
    BY <1>4 DEF CancelTimer, TimerIsOurs, VariablesInOrder, Stamped
  <2>2. host.ufw = "relay" /\ host.etcUfw = "relay"
    BY <1>4 DEF CancelTimer, TimerIsOurs, VariablesInOrder, Steps, Applied
  <2>3. /\ confirmed' = confirmed \cup {"relay"} /\ pc' = "finishing"
        /\ UNCHANGED <<host, package, atBegin, attempt, fwBackup>>
    BY <1>4, <2>2 DEF CancelTimer
  <2> QED BY <2>2, <2>3
<1>5. CASE RollBackRules
  <2>1. stamp = attempt /\ attempt \in Attempts /\ fwBackup[stamp] \in confirmed
    BY <1>5 DEF RollBackRules, VariablesInOrder, Stamped
  <2>2. Settled'
    <3>1. CASE stamp \in executed
      BY <1>5, <2>1, <3>1 DEF RollBackRules
    <3>2. CASE stamp \notin executed
      <4>1. PICK rules : /\ host' = [host EXCEPT !.etcUfw = fwBackup[stamp], !.ufw = rules]
                         /\ unrestored' = (unrestored \/ rules # fwBackup[stamp])
        BY <1>5, <3>2 DEF RollBackRules, Restored
      <4>2. rules = fwBackup[stamp]
        BY <4>1
      <4> QED BY <1>5, <2>1, <4>1, <4>2 DEF RollBackRules, HostOK, Host
    <3> QED BY <3>1, <3>2
  <2>3. UNCHANGED <<package, confirmed, atBegin, attempt, fwBackup, timer>>
    BY <1>5 DEF RollBackRules
  <2> QED BY <2>1, <2>2, <2>3
<1>6. CASE StopTimer
  <2>1. stamp = attempt /\ attempt \in Attempts /\ Settled
    BY <1>6 DEF StopTimer, VariablesInOrder, Stamped
  <2>2. UNCHANGED <<host, package, confirmed, atBegin, attempt, fwBackup, executed>>
         /\ pc' # "stopTimer"
    BY <1>6 DEF StopTimer
  <2>3. \A t \in Attempts : timer'[t] = "restored" => timer[t] = "restored"
    BY <1>6, <2>1 DEF StopTimer, FirewallOK
  <2> QED BY <2>1, <2>2, <2>3
<1>7. CASE RollBackHost
  <2>1. backup = atBegin /\ pc' # "stopTimer"
        /\ UNCHANGED <<package, confirmed, atBegin, attempt, fwBackup, timer, executed>>
    BY <1>7, UndoSteps DEF RollBackHost, Moves, BackupsAreFaithful
  <2>2. host'.etcUfw \in {host.etcUfw, "absent", atBegin.etcUfw}
    BY <1>7, <2>1, UndoSteps DEF Moves, HostOK, Host
  <2>3. host'.ufw = host.ufw \/ host'.ufw \in confirmed
    <3>1. CASE Moves("reload", "contained",
                  [host EXCEPT !.ufw = IF Enabled(host.etcUfw) THEN host.etcUfw ELSE @])
      <4>1. Enabled(host.etcUfw) => host.etcUfw = atBegin.etcUfw /\ host.etcUfw # "absent"
        BY <3>1 DEF Moves, UndoneSoFar, Undone, Like, InForce, Enabled
      <4> QED BY <3>1, <4>1 DEF Moves, HostOK, Host
    <3> QED BY <1>7, <3>1, UndoSteps DEF Moves, HostOK, Host
  <2>4. Settled => Settled'
    BY <2>1, <2>2, <2>3
  <2> QED BY <2>1, <2>4
<1>8. CASE Reboot
  <2>1. (\A t \in Attempts : ~Live(t)) /\ host' = host
    BY <1>8 DEF Reboot, HostOK, Host
  <2>2. Settled
    BY <2>1
  <2>3. UNCHANGED <<attempt, atBegin, confirmed, fwBackup, package>>
    BY <1>8 DEF Reboot
  <2> QED BY <2>1, <2>2, <2>3
<1>9. ASSUME NEW t \in Attempts, TimerRestores(t) PROVE RulesComeBack'
  <2>1. t = attempt /\ fwBackup[t] \in confirmed
    BY <1>9 DEF TimerRestores, TimerIsOurs, TimersInOrder
  <2>2. Settled'
    BY <1>9, <2>1 DEF TimerRestores, Restored, HostOK, Host
  <2> QED BY <1>9, <2>2 DEF TimerRestores
<1>10. ASSUME NEW t \in Attempts, TimerFires(t) \/ TimerMarks(t) \/ TimerEnds(t) PROVE RulesComeBack'
  BY <1>10 DEF TimerFires, TimerMarks, TimerEnds, FirewallOK, TimersInOrder
<1>11. CASE /\ UNCHANGED <<attempt, atBegin, confirmed, timer, executed, package, fwBackup>>
            /\ host'.ufw = host.ufw /\ host'.etcUfw = host.etcUfw
            /\ (pc' = "stopTimer" => pc = "stopTimer")
  BY <1>11
<1>12. CASE SwitchMedia \/ SwitchLink \/ InstallConfig \/ Start
  <2>1. host'.ufw = host.ufw /\ host'.etcUfw = host.etcUfw
    BY <1>12 DEF SwitchMedia, SwitchLink, InstallConfig, Start, HostOK, Host
  <2> QED BY <1>11, <1>12, <2>1 DEF SwitchMedia, SwitchLink, InstallConfig, Start
<1>13. ~(RollBackRulesFails \/ RollBackHostInVain)
  BY DEF RollBackRulesFails, RollBackHostInVain
<1>14. CASE InstallPackages
  <2>1. host'.ufw = host.ufw /\ host'.etcUfw \in {host.etcUfw} \cup (IF package THEN {} ELSE {"off"})
    BY <1>14 DEF InstallPackages, HostOK, Host
  <2>2. UNCHANGED <<attempt, atBegin, confirmed, timer, executed, fwBackup>> /\ package' = TRUE
        /\ pc' # "stopTimer"
    BY <1>14 DEF InstallPackages
  <2>3. Settled => Settled'
    BY <2>1, <2>2
  <2> QED BY <2>2, <2>3
<1>15. CASE BackUpRules
  <2>1. attempt \in Attempts /\ host.etcUfw # "absent" /\ package
    BY <1>15 DEF BackUpRules, VariablesInOrder, PackageFirst, Steps
  <2>2. timer[attempt] = "none"
    BY <1>15, <2>1 DEF BackUpRules, TimersInOrder, Unarmed
  <2>3. host.etcUfw \in confirmed
    BY <2>1, <2>2
  <2> QED BY <1>15, <2>1, <2>3 DEF BackUpRules, FirewallOK
<1> QED
  BY <1>1, <1>2, <1>3, <1>4, <1>5, <1>6, <1>7, <1>8, <1>9, <1>10, <1>11, <1>12, <1>13, <1>14,
     <1>15
    DEF Next, vars, Backup, StageMedia, MediaIsTorn, StageRelease, Enrolls, RenderConfig,
        ReadTimestamp, Verify, BecomesActive, ConfirmChecks, Finish, Fail, RollBackHostFails,
        MayFail, OperatorRollsBack, Kill

-------------------------------------------------------------------------------
LEMMA InstallInit == Init => InstallInv
<1> SUFFICES ASSUME Init PROVE InstallInv
  OBVIOUS
<1> USE AttemptTypes DEF Init
<1>1. ScriptOK
  BY DEF ScriptOK
<1>2. HostOK /\ host.link = 0
  BY DEF HostOK, Host, Rules, InForce
<1>3. FirewallOK
  BY DEF FirewallOK
<1>4. FlagsOK
  BY DEF FlagsOK
<1>5. VariablesInOrder
  BY DEF VariablesInOrder, Steps, Stamped, Applied
<1>6. LinksAreWhole
  BY <1>2 DEF LinksAreWhole, LinkIsComplete
<1>7. TimersInOrder
  BY DEF TimersInOrder, Live, Applied, Unarmed
<1>8. Undisturbed
  BY  DEF Undisturbed, BackupsAreFaithful, TimerIsOurs, UndoneSoFar, RulesAreKept, Live,
         Applied, Unarmed, Undone
<1>9. RulesComeBack
  BY DEF RulesComeBack, Settled, InForce
<1>10. PackageFirst
  BY DEF PackageFirst
<1> QED
  BY <1>1, <1>2, <1>3, <1>4, <1>5, <1>6, <1>7, <1>8, <1>9, <1>10 DEF InstallInv, TypesOK

LEMMA InstallStep == InstallInv /\ [Next]_vars => InstallInv'
<1> SUFFICES ASSUME InstallInv, [Next]_vars PROVE InstallInv'
  OBVIOUS
<1>1. TypesOK' /\ VariablesInOrder' /\ LinksAreWhole' /\ TimersInOrder' /\ PackageFirst'
  BY TypesStep, VariablesStep, LinksStep, TimersStep, PackageStep
<1>2. ~excused' => Undisturbed'
  BY FaithfulStep, OurTimerStep, UndoneStep, ConfirmationStep DEF Undisturbed
<1>3. ~excused' /\ ~unrestored' /\ ~silent' => RulesComeBack'
  BY RulesStep
<1> QED
  BY <1>1, <1>2, <1>3 DEF InstallInv

LEMMA InstallInvHolds == Spec => []InstallInv
  BY InstallInit, InstallStep, PTL DEF Spec

\* Every variable keeps its type, and the script has its backups when it has the timestamp
\* (scripts/install.sh 17-19, 49-52 and 75-78).
THEOREM InstallerTypeCorrect == Spec => []TypeOK
<1>1. EnrollTypeOK /\ InstallInv => TypeOK
  BY  DEF InstallInv, TypesOK, ScriptOK, HostOK, FirewallOK, FlagsOK, Rules, VariablesInOrder,
         TypeOK
<1> QED
  BY <1>1, EnrollInvHolds, InstallInvHolds, PTL

\* The two current links name releases with all their files, whenever a run is killed,
\* torn or rolled back (scripts/install_runtime.sh 128-153, scripts/rollback.sh 44-55).
THEOREM LinksStayComplete == Spec => []LinkIsComplete
<1>1. InstallInv => LinkIsComplete
  BY DEF InstallInv, LinksAreWhole
<1> QED
  BY <1>1, InstallInvHolds, PTL

\* Rules that were not confirmed have a live timer that holds rules that were, as long as
\* no rollback missed its aim (scripts/firewall_apply.sh 20-22).
THEOREM RulesAlwaysComeBack == Spec => []SafetyNet
<1>1. InstallInv => SafetyNet
  <2> SUFFICES ASSUME InstallInv, ~excused, ~unrestored, ~silent, host.ufw \notin confirmed
               PROVE  \E t \in Attempts : Live(t) /\ fwBackup[t] \in confirmed
    BY DEF SafetyNet
  <2>1. host.ufw # "absent"
    BY DEF InstallInv, TypesOK, HostOK, Host, Rules
  <2>2. PICK t \in Attempts : t = attempt /\ Live(t)
    BY <2>1 DEF InstallInv, RulesComeBack, Settled
  <2>3. fwBackup[t] # None
    BY <2>2 DEF InstallInv, TimersInOrder
  <2> QED BY <2>2, <2>3 DEF InstallInv, RulesComeBack
<1> QED
  BY <1>1, InstallInvHolds, PTL

\* A failed run leaves the releases and files as it found them as soon as one rollback.sh
\* came to its end, and the services and the rules of an enabled firewall too, unless a
\* command whose failure it passes over had no effect (scripts/install.sh 20-40,
\* scripts/rollback.sh).
THEOREM FailuresLeaveNoTrace == Spec => []FailureLeavesNoTrace
<1>1. InstallInv => FailureLeavesNoTrace
  BY DEF InstallInv, Undisturbed, UndoneSoFar, Undone, Like, InForce, FailureLeavesNoTrace
<1> QED
  BY <1>1, InstallInvHolds, PTL

\* A completed run has its rules in force (scripts/firewall_confirm.sh 14 "refusing false
\* confirmation").
THEOREM ConfirmationIsKept == Spec => []ConfirmationHolds
<1>1. InstallInv => ConfirmationHolds
  <2> SUFFICES ASSUME InstallInv, ~excused PROVE ConfirmationHolds
    BY DEF ConfirmationHolds
  <2> QED BY DEF InstallInv, Undisturbed, RulesAreKept, ConfirmationHolds
<1> QED
  BY <1>1, InstallInvHolds, PTL

===============================================================================
