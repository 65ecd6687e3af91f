----------------------------- MODULE AppControl -----------------------------
(***************************************************************************)
(* One application under checkpoint/restart and its directory              *)
(* /var/chkpt/<appid>, as the tools reach them: the services of libproc    *)
(* (freeze, unfreeze, checkpoint, restart), which pass one request to the  *)
(* kernel and return its result, and the files of the versions.            *)
(*                                                                         *)
(* The kernel is not in this repository; what it does is taken from how    *)
(* the tools and tests/ktp/cr use it: freezing a frozen application,       *)
(* unfreezing or checkpointing one that is not frozen, and restarting one  *)
(* that still exists fail; a checkpoint is written to a version that does  *)
(* not exist, and can fail before or after the version was chosen.         *)
(***************************************************************************)
EXTENDS Naturals, FiniteSets

CONSTANTS
  Procs,          \* processes that run checkpoint
  RProcs,         \* processes that run restart
  MaxVersions,    \* bound: versions of the application
  HasCallbacks,   \* has the application declared callbacks?
  KernelMayFail   \* may the kernel's requests fail where they need not?

ASSUME ControlAssumption ==
  /\ MaxVersions \in Nat /\ KernelMayFail \in BOOLEAN
  /\ HasCallbacks \in BOOLEAN
  /\ Procs \cap RProcs = {}
  /\ "none" \notin Procs \cup RProcs

Versions == 1 .. MaxVersions

VARIABLES
  app,      \* the application
  image,    \* the version directories
  appDir    \* does /var/chkpt/<appid> exist?

controlVars == <<app, image, appDir>>

NoImage == [state |-> "absent", epoch |-> 0, described |-> FALSE,
            refused |-> FALSE]

(* answer: the message queue keyed by its pid was left behind, and may     *)
(* hold an unread answer.  The other fields beside status are history:     *)
(* which state the application is in (AppLife), and who froze it; and, of  *)
(* a version, whether removing something of it has been refused.           *)
ControlInit ==
  /\ app = [status |-> "running", epoch |-> 1, clock |-> 1,
            frozenBy |-> "none", answer |-> FALSE]
  /\ image = [v \in Versions |-> NoImage]
  /\ appDir = FALSE

(* application_freeze_from_appid, application_freeze_from_pid *)
application_freeze(p) ==
  /\ app.status = "running"
  /\ app' = [app EXCEPT !.status = "frozen", !.frozenBy = p]
  /\ UNCHANGED <<image, appDir>>

application_freeze_fails ==
  /\ app.status # "running" \/ KernelMayFail
  /\ UNCHANGED controlVars

(* application_unfreeze_from_appid, application_unfreeze_from_pid: a       *)
(* pending lethal signal is handled as soon as the process is woken up.    *)
(* The continue or restart callbacks run later, in the application.        *)
application_unfreeze(lethal) ==
  /\ app.status = "frozen"
  /\ app' = IF lethal
            THEN [app EXCEPT !.status = "dead", !.frozenBy = "none"]
            ELSE [app EXCEPT !.status = "running", !.frozenBy = "none",
                             !.clock = app.clock + 1, !.epoch = app.clock + 1]
  /\ UNCHANGED <<image, appDir>>

application_unfreeze_fails ==
  /\ app.status # "frozen" \/ KernelMayFail
  /\ UNCHANGED controlVars

(* application_checkpoint_from_appid, application_checkpoint_from_pid      *)
ImageOf(state) == [NoImage EXCEPT !.state = state, !.epoch = app.epoch]

(* Mutant: a running application can be checkpointed.                      *)
CheckpointRunning(v, state) ==
  /\ app.status # "dead" /\ image[v].state = "absent"
  /\ state = "partial" => KernelMayFail
  /\ image' = [image EXCEPT ![v] = ImageOf(state)]
  /\ appDir' = TRUE
  /\ UNCHANGED app

application_checkpoint(v, state) ==
  /\ app.status = "frozen" /\ image[v].state = "absent"
  /\ state = "partial" => KernelMayFail
  /\ image' = [image EXCEPT ![v] = ImageOf(state)]
  /\ appDir' = TRUE
  /\ UNCHANGED app

application_checkpoint_fails ==
  /\ app.status # "frozen" \/ KernelMayFail
  /\ UNCHANGED controlVars

application_restart(q, v) ==
  /\ app.status = "dead" /\ image[v].state = "image"
  /\ app' = [app EXCEPT !.status = "frozen", !.frozenBy = q,
                        !.epoch = image[v].epoch]
  /\ UNCHANGED <<image, appDir>>

application_restart_fails(v) ==
  /\ app.status # "dead" \/ image[v].state # "image" \/ KernelMayFail
  /\ UNCHANGED controlVars

(* The application ends by itself, or its user ends it.                    *)
AppExits ==
  /\ app.status = "running"
  /\ app' = [app EXCEPT !.status = "dead"]
  /\ UNCHANGED <<image, appDir>>

AppState == [status : {"running", "frozen", "dead"}, epoch : Nat, clock : Nat,
             frozenBy : Procs \cup RProcs \cup {"none"}, answer : BOOLEAN]
ImageState == [state : {"absent", "partial", "empty", "image"}, epoch : Nat,
               described : BOOLEAN, refused : BOOLEAN]

ControlTypeOK == /\ app \in AppState
                 /\ image \in [Versions -> ImageState]
                 /\ appDir \in BOOLEAN
=============================================================================
