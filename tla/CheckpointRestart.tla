-------------------------- MODULE CheckpointRestart --------------------------
(***************************************************************************)
(* The checkpoint and restart commands together, on one application: users *)
(* run any number of them, one after the other or at the same time.        *)
(***************************************************************************)
EXTENDS CheckpointTool, RestartTool

vars == <<controlVars, ckVars, rsVars>>

Init == ControlInit /\ CkInit /\ RsInit

Checkpoint(p) ==
  /\ Start(p) \/ handle_signal(p) \/ CkStep(p)
  /\ UNCHANGED rsVars

Restart(q) ==
  /\ RsStart(q) \/ relay_signal(q) \/ RsKilled(q) \/ RsStep(q)
  /\ UNCHANGED ckVars

Exits == AppExits /\ UNCHANGED <<ckVars, rsVars>>

Next == \/ \E p \in Procs : Checkpoint(p)
        \/ \E q \in RProcs : Restart(q)
        \/ Exits

Spec == Init /\ [][Next]_vars

(* A command goes on as long as it can; the users decide the rest.         *)
Fairness == /\ \A p \in Procs : WF_vars(CkStep(p) /\ UNCHANGED rsVars)
            /\ \A q \in RProcs : WF_vars(RsStep(q) /\ UNCHANGED ckVars)

FairSpec == Spec /\ Fairness

-----------------------------------------------------------------------------
(* Types of the application, of the version directories and of the         *)
(* commands' variables.                                                    *)
TypeOK == ControlTypeOK /\ CkTypeOK /\ RsTypeOK

(* A complete run of checkpoint (freeze, checkpoint, unfreeze) that has    *)
(* exited has not left the application in the frozen state it put it in,   *)
(* whatever failed or interrupted it before, unless the unfreeze itself,   *)
(* or the signal that goes before it, was refused; nor has a restart that  *)
(* succeeded without --no-unfreeze.                                        *)
NotLeftFrozen ==
  app.status = "frozen" =>
    /\ \A p \in Procs : ck[p].pc = "done" /\ ck[p].action = "ALL"
                          => app.frozenBy # p \/ ck[p].failedUnfreeze
    /\ \A q \in RProcs : rs[q].pc = "done" /\ rs[q].r = "ok" /\ ~rs[q].noUnfreeze
                          => app.frozenBy # q

(* What the handlers main sets are for: no signal makes checkpoint exit    *)
(* without unfreezing the application.                                     *)
SignalsDoNotStrand ==
  \A p \in Procs : ck[p].pc = "killed" /\ ck[p].action = "ALL" =>
    ~(app.status = "frozen" /\ app.frozenBy = p)

(* A version directory that holds no complete image belongs to a command   *)
(* that is still cleaning it up (clean_checkpoint_dir), or was killed      *)
(* doing so, unless the file system refused to remove something of it.     *)
IncompleteIsCleaned ==
  \A v \in Versions : image[v].state \in {"partial", "empty"} =>
    \/ image[v].refused
    \/ \E p \in Procs : ck[p].sn = v /\ ck[p].pc \in {"clean", "rmdir", "killed"}

(* What a command reports: exit status 0 of a run that checkpoints means   *)
(* its image is there; no two such runs claim the same version.            *)
SuccessMeansImage ==
  \A p \in Procs :
    ck[p].pc = "done" /\ ck[p].r = "ok" /\ ck[p].action \in {"ALL", "CHECKPOINT"} =>
      /\ ck[p].sn \in Versions /\ image[ck[p].sn].state = "image"
      /\ \A o \in Procs \ {p} : ck[o].pc = "done" /\ ck[o].r = "ok" => ck[o].sn # ck[p].sn

(* No command, and no failure of another checkpoint, removes or alters a   *)
(* complete image (clean_checkpoint_dir works on its own version only).    *)
SameImage(v) ==
  image[v].state = "image" =>
    image'[v].state = "image" /\ image'[v].epoch = image[v].epoch
ImagesKept == [][\A v \in Versions : SameImage(v)]_vars

(* checkpoint -k ends an application it has frozen itself only when the    *)
(* state the application is in has been saved: no work is lost, whatever   *)
(* other commands do meanwhile.                                            *)
EndedBy(p) == ck[p].pc = "unfreeze" /\ ck'[p].pc = "done" /\ ck[p].action = "ALL"
              /\ app.status = "frozen" /\ app'.status = "dead"
KillLosesNothing ==
  [][\A p \in Procs : EndedBy(p) /\ app.frozenBy = p =>
       \E v \in Versions : image[v].state = "image" /\ image[v].epoch = app.epoch]_vars

(* restart -f only returns when the application has ended, whatever        *)
(* signals it has relayed.                                                 *)
ForegroundWaits ==
  [][\A q \in RProcs : rs[q].pc = "wait" /\ rs'[q].pc = "done" => app.status = "dead"]_vars

(* An application frozen by a complete run of checkpoint is unfrozen       *)
(* again, or killed, whatever fails on the way or interrupts the run,      *)
(* unless the unfreeze itself is refused or a second signal kills the run. *)
AllUnfreezes ==
  \A p \in Procs :
    app.status = "frozen" /\ app.frozenBy = p /\ ck[p].action = "ALL"
      ~> app.frozenBy # p \/ ck[p].failedUnfreeze \/ ck[p].pc = "killed"

(* The commands implement the life of an application as AppLife describes  *)
(* it.                                                                     *)
Life == INSTANCE AppLife WITH
          status <- app.status, epoch <- app.epoch, clock <- app.clock,
          saved <- [v \in Versions |->
                      IF image[v].state = "image" THEN image[v].epoch ELSE 0]
LifeSpec == Life!LifeSpec
=============================================================================
