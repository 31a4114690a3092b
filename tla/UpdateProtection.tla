--------------------------- MODULE UpdateProtection ---------------------------
(***************************************************************************)
(* The apt holds that keep the working kernel, QEMU and driver packages    *)
(* at their version: `configure_update_protection' of host.py sets and     *)
(* releases them, `install_packages' of offline.py takes its own holds off *)
(* around an installation and puts them back in a `finally'.               *)
(*                                                                         *)
(* A hold has no owner in dpkg.  Whose it is follows from host.json        *)
(* (`record') alone, which is written after the holds are.                 *)
(***************************************************************************)
EXTENDS Naturals, FiniteSets

CONSTANTS Packages,      \* packages whose names match a protected pattern
          Preinstalled   \* those that are installed at the start

ASSUME PackagesAssumption == Preinstalled \subseteq Packages

VARIABLES held,       \* apt-mark showhold, among Packages
          userHeld,   \* history: the holds the administrator asked for
          record,     \* the update_protection_* fields of host.json
          installed,  \* installed packages
          job,        \* the running command, its next step and its locals
          faulted     \* history: a command died or failed, or a user undid a hold

holdsVars == <<held, userHeld, record, installed, job, faulted>>

Idle == [step |-> "idle", released |-> {}, seen |-> {}, previous |-> {}]
Steps == {"idle", "release", "install", "restore", "hold", "enabled", "unhold", "disabled"}

HoldsTypeOK ==
  /\ held \subseteq Packages /\ userHeld \subseteq Packages /\ installed \subseteq Packages
  /\ record \in [enabled : BOOLEAN, packages : SUBSET Packages, managed : SUBSET Packages]
  /\ job \in [step : Steps, released : SUBSET Packages,
              seen : SUBSET Packages, previous : SUBSET Packages]
  /\ faulted \in BOOLEAN

HoldsInit ==
  /\ installed = Preinstalled
  /\ held = {} /\ userHeld = {}
  /\ record = [enabled |-> FALSE, packages |-> {}, managed |-> {}]
  /\ job = Idle /\ faulted = FALSE

-----------------------------------------------------------------------------
(* The administrator's own apt-mark, between the tool's commands.  He does not *)
(* set a hold that host.json already calls the tool's: nothing in the code     *)
(* could tell the two apart.                                                   *)

UserHold(p) ==
  /\ job.step = "idle" /\ p \notin held \cup record.managed
  /\ held' = held \cup {p} /\ userHeld' = userHeld \cup {p}
  /\ UNCHANGED <<record, installed, job, faulted>>

UserUnhold(p) ==
  /\ job.step = "idle" /\ p \in held
  /\ held' = held \ {p} /\ userHeld' = userHeld \ {p}
  /\ faulted' = (faulted \/ p \notin userHeld)
  /\ UNCHANGED <<record, installed, job>>

UserRemoves(p) ==
  /\ job.step = "idle" /\ p \in installed \ held
  /\ installed' = installed \ {p}
  /\ UNCHANGED <<held, userHeld, record, job, faulted>>

-----------------------------------------------------------------------------
(* A command reads host.json and the holds once, when it starts. *)

Command(first) ==
  /\ job.step = "idle"
  /\ job' = [step |-> first, released |-> {}, seen |-> held, previous |-> record.managed]
  /\ UNCHANGED <<held, userHeld, record, installed, faulted>>

InstallPackages == Command("release")
EnableProtection == Command("hold")
DisableProtection == Command("unhold")

(* install_packages: release, install (or fail half-way), restore. *)
Released == IF record.enabled THEN record.managed \cap job.seen ELSE {}

Release ==
  /\ job.step = "release"
  /\ held' = held \ Released
  /\ job' = [job EXCEPT !.step = "install", !.released = Released]
  /\ UNCHANGED <<userHeld, record, installed, faulted>>

Install ==
  /\ job.step = "install"
  /\ \E news \in SUBSET Packages : installed' = installed \cup news
  /\ job' = [job EXCEPT !.step = "restore"]
  /\ UNCHANGED <<held, userHeld, record, faulted>>

\* Mutant of Restore: the holds are put back on success only.
RestoreOnSuccess ==
  /\ job.step = "restore"
  /\ held' \in {held, held \cup job.released}
  /\ job' = Idle
  /\ UNCHANGED <<userHeld, record, installed, faulted>>

Restore ==
  /\ job.step = "restore"
  /\ held' = held \cup job.released
  /\ job' = Idle
  /\ UNCHANGED <<userHeld, record, installed, faulted>>

(* configure_update_protection(True). *)
\* Mutant of Missing: a package on the record is taken to be held.
MissingFromRecord == installed \ job.previous

Missing == installed \ job.seen

\* Mutant of Managed: every protected package becomes the tool's.
ManagedAll == (job.previous \cap job.seen) \cup installed

Managed == (job.previous \cap job.seen) \cup (installed \ (job.seen \ job.previous))

Hold ==
  /\ job.step = "hold" /\ installed # {}
  /\ held' = held \cup Missing
  /\ job' = [job EXCEPT !.step = "enabled"]
  /\ UNCHANGED <<userHeld, record, installed, faulted>>

NothingToProtect ==
  /\ job.step = "hold" /\ installed = {}
  /\ job' = Idle
  /\ UNCHANGED <<held, userHeld, record, installed, faulted>>

RecordEnabled ==
  /\ job.step = "enabled"
  /\ record' = [enabled |-> TRUE, packages |-> installed, managed |-> Managed]
  /\ job' = Idle
  /\ UNCHANGED <<held, userHeld, installed, faulted>>

(* configure_update_protection(False). *)
Unhold ==
  /\ job.step = "unhold"
  /\ held' = held \ (job.previous \cap job.seen)
  /\ job' = [job EXCEPT !.step = "disabled"]
  /\ UNCHANGED <<userHeld, record, installed, faulted>>

RecordDisabled ==
  /\ job.step = "disabled"
  /\ record' = [enabled |-> FALSE, packages |-> {}, managed |-> {}]
  /\ job' = Idle
  /\ UNCHANGED <<held, userHeld, installed, faulted>>

(* A failing apt-mark raises; a power loss or kill ends the command anywhere. *)
(* Both forget `released'.  Before its first apt-mark a command changed nothing. *)
Die ==
  /\ job.step # "idle"
  /\ job' = Idle
  /\ faulted' = (faulted \/ job.step \in {"install", "restore", "enabled", "disabled"})
  /\ UNCHANGED <<held, userHeld, record, installed>>

HoldsNext ==
  \/ \E p \in Packages : UserHold(p) \/ UserUnhold(p) \/ UserRemoves(p)
  \/ InstallPackages \/ Release \/ Install \/ Restore
  \/ EnableProtection \/ Hold \/ NothingToProtect \/ RecordEnabled
  \/ DisableProtection \/ Unhold \/ RecordDisabled
  \/ Die

HoldsSpec == HoldsInit /\ [][HoldsNext]_holdsVars

-----------------------------------------------------------------------------
\* No command ever takes off a hold that is the administrator's, whatever was
\* interrupted before it (host.py 470: "never become ours to remove").
UserHoldsKept == userHeld \subseteq held

\* As long as no command died and nobody undid a hold of the tool, between commands
\* the holds are those on the record and the administrator's, no more and no less:
\* an installation, failed or not, puts back what it took off, and protection that
\* is switched off leaves no hold of its own behind.
HoldsMatchRecord ==
  job.step = "idle" /\ ~faulted => held = record.managed \cup userHeld

\* Enabling repairs: whatever was lost before, when host.json comes to say that
\* packages are protected, every one of them is held.
EnabledMeansHeld ==
  [][record'.enabled /\ record' # record => record'.packages \subseteq held']_holdsVars
=============================================================================
