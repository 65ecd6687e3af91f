---------------------- MODULE CheckpointRestart_proofs ----------------------
(***************************************************************************)
(* Theorems about CheckpointRestart and their proofs, for every number of  *)
(* commands, versions and signals: type correctness, and that no command   *)
(* leaves the application frozen which should not.                         *)
(***************************************************************************)
EXTENDS CheckpointRestart, TLAPS

-----------------------------------------------------------------------------
(* Types of the records a checkpoint process goes through.                 *)

(* The record of one command is replaced.                                  *)
LEMMA SetCkType ==
  ASSUME CkTypeOK, NEW p \in Procs, NEW c \in CkState,
         ck' = [ck EXCEPT ![p] = c], signalsLeft' = signalsLeft
  PROVE  CkTypeOK'
  BY DEF CkTypeOK

(* The record of a command that has ended.                                 *)
LEMMA EndedType ==
  ASSUME CkTypeOK, NEW p \in Procs, NEW r \in {"ok", "fail"},
         NEW sn \in Versions \cup {0}
  PROVE  Ended(p, r, sn) \in CkState
  BY DEF CkTypeOK, CkState, Ended, IdleCk

(* The fields of a command's record.                                       *)
LEMMA CkFieldTypes ==
  ASSUME CkTypeOK, NEW p \in Procs
  PROVE  /\ ck[p].sn \in Versions \cup {0} /\ ck[p].r \in {"ok", "fail"}
         /\ ck[p].lethal \in BOOLEAN /\ ck[p].noCallbacks \in BOOLEAN
         /\ ck[p].interrupted \in BOOLEAN /\ ck[p] \in CkState
  BY DEF CkTypeOK, CkState

(* exit.                                                                   *)
LEMMA ExitType ==
  ASSUME CkTypeOK, NEW p \in Procs, NEW r \in {"ok", "fail"}, Exit(p, r)
  PROVE  CkTypeOK'
<1>1. Ended(p, r, ck[p].sn) \in CkState
  BY EndedType, CkFieldTypes
<1> QED BY <1>1, SetCkType DEF Exit

(* The unfreeze is refused.                                                *)
LEMMA RefusedType ==
  ASSUME CkTypeOK, NEW p \in Procs, UnfreezeFails(p)
  PROVE  CkTypeOK'
<1> DEFINE off == Ended(p, "fail", ck[p].sn)
           c   == [off EXCEPT !.failedUnfreeze = TRUE]
<1>1. off \in CkState
  BY EndedType, CkFieldTypes
<1>2. ck' = [ck EXCEPT ![p] = c] /\ signalsLeft' = signalsLeft
  BY DEF UnfreezeFails
<1> HIDE DEF off
<1>3. c \in CkState
  BY <1>1 DEF CkState
<1> HIDE DEF c
<1> QED BY <1>2, <1>3, SetCkType

(* A step to the next call.                                                *)
LEMMA GotoType ==
  ASSUME CkTypeOK, NEW p \in Procs, NEW pc, Goto(p, pc),
         pc \in {"callbacks", "freeze", "checkpoint_app", "rmdir", "rmapp",
                 "continue", "unfreeze"}
  PROVE  CkTypeOK'
  BY DEF CkTypeOK, CkState, Goto

(* The return of the checkpoint itself.                                    *)
LEMMA ReturnsType ==
  ASSUME CkTypeOK, NEW p \in Procs, NEW r \in {"ok", "fail"},
         NEW sn \in Versions \cup {0}, CheckpointReturns(p, r, sn)
  PROVE  CkTypeOK'
<1> DEFINE on == [ck[p] EXCEPT !.pc = "unfreeze_app", !.r = r, !.sn = sn,
                               !.lethal = ck[p].lethal /\ r = "ok"]
<1>1. on \in CkState
  BY ZenonT(30) DEF CkTypeOK, CkState
<1>2. Ended(p, r, sn) \in CkState
  BY EndedType
<1>3. signalsLeft' = signalsLeft /\ \/ ck' = [ck EXCEPT ![p] = on]
                                    \/ ck' = [ck EXCEPT ![p] = Ended(p, r, sn)]
  BY DEF CheckpointReturns
<1> HIDE DEF on
<1> QED BY <1>1, <1>2, <1>3, SetCkType

-----------------------------------------------------------------------------
(* Types of the application and of the version directories.                *)

(* The kernel's requests.                                                  *)
LEMMA ControlTypes ==
  ASSUME ControlTypeOK,
         \/ \E p \in Procs \cup RProcs : application_freeze(p)
         \/ \E lethal \in BOOLEAN : application_unfreeze(lethal)
         \/ \E q \in RProcs, v \in Versions : application_restart(q, v)
         \/ AppExits \/ UNCHANGED controlVars
  PROVE  ControlTypeOK'
<1> USE DEF ControlTypeOK
<1>1. CASE \E p \in Procs \cup RProcs : application_freeze(p)
  BY <1>1 DEF application_freeze, AppState
<1>2. CASE \E lethal \in BOOLEAN : application_unfreeze(lethal)
  <2> PICK lethal \in BOOLEAN : application_unfreeze(lethal)
    BY <1>2
  <2>1. app.clock + 1 \in Nat
    BY DEF AppState
  <2>2. app' \in AppState
    <3>1. CASE lethal
      BY <3>1 DEF application_unfreeze, AppState
    <3>2. CASE ~lethal
      BY <3>2, <2>1 DEF application_unfreeze, AppState
    <3> QED BY <3>1, <3>2
  <2> QED BY <2>2 DEF application_unfreeze
<1>3. CASE \E q \in RProcs, v \in Versions : application_restart(q, v)
  <2> PICK q \in RProcs, v \in Versions : application_restart(q, v)
    BY <1>3
  <2>1. image[v].epoch \in Nat
    BY DEF ImageState
  <2> QED BY <2>1 DEF application_restart, AppState
<1>4. CASE AppExits
  BY <1>4 DEF AppExits, AppState
<1>5. CASE UNCHANGED controlVars
  BY <1>5 DEF controlVars
<1> QED BY <1>1, <1>2, <1>3, <1>4, <1>5

(* Nothing but the history of a version says that it could not be removed. *)
LEMMA RefusedImages ==
  ASSUME image \in [Versions -> ImageState], NEW v, Refused(v)
  PROVE  image' \in [Versions -> ImageState]
  BY DEF Refused, ImageState

(* A step of checkpoint keeps the types of what it works on.               *)
LEMMA CkStepType ==
  ASSUME ControlTypeOK, CkTypeOK, NEW p \in Procs,
         Start(p) \/ handle_signal(p) \/ CkStep(p)
  PROVE  ControlTypeOK' /\ CkTypeOK'
<1> USE CkFieldTypes
<1>1. CASE Start(p)
  <2>1. ControlTypeOK'
    BY <1>1, ControlTypes DEF Start
  <2>2. PICK action \in Actions, nocb \in BOOLEAN, lethal \in BOOLEAN :
          ck' = [ck EXCEPT ![p] =
                  [IdleCk EXCEPT !.pc = FirstStep(action), !.action = action,
                     !.noCallbacks = nocb, !.lethal = lethal]]
    BY <1>1 DEF Start, parse_args
  <2>3. /\ action \in {"CHECKPOINT", "FREEZE", "UNFREEZE", "ALL"}
        /\ FirstStep(action) \in {"checkpoint_app", "unfreeze_app", "freeze_app"}
    BY CheckpointAssumption DEF FirstStep
  <2>4. [IdleCk EXCEPT !.pc = FirstStep(action), !.action = action,
           !.noCallbacks = nocb, !.lethal = lethal] \in CkState
    <3> DEFINE f == FirstStep(action)
    <3> HIDE DEF f
    <3>1. f \in {"checkpoint_app", "unfreeze_app", "freeze_app"}
      BY <2>3 DEF f
    <3>2. [IdleCk EXCEPT !.pc = f, !.action = action,
             !.noCallbacks = nocb, !.lethal = lethal] \in CkState
      BY <2>3, <3>1 DEF CkState, IdleCk
    <3> QED BY <3>2 DEF f
  <2> QED BY <1>1, <2>1, <2>2, <2>4, SetCkType DEF Start
<1>2. CASE handle_signal(p)
  <2>1. ck' \in [Procs -> CkState]
    <3>1. CASE ck' = [ck EXCEPT ![p] = [IdleCk EXCEPT !.pc = "killed",
                        !.action = ck[p].action, !.sn = ck[p].sn]]
      BY <3>1 DEF CkTypeOK, CkState, IdleCk
    <3>2. CASE ck' = [ck EXCEPT ![p].interrupted = TRUE]
      <4>1. [ck[p] EXCEPT !.interrupted = TRUE] \in CkState
        BY DEF CkTypeOK, CkState
      <4>2. ck' = [ck EXCEPT ![p] = [ck[p] EXCEPT !.interrupted = TRUE]]
        BY <3>2
      <4> QED BY <4>1, <4>2, Zenon DEF CkTypeOK
    <3> QED BY <1>2, <3>1, <3>2 DEF handle_signal
  <2>2. signalsLeft' \in Nat
    BY <1>2 DEF handle_signal, CkTypeOK
  <2> QED BY <1>2, <2>1, <2>2, ControlTypes DEF handle_signal, CkTypeOK
<1>3. CASE freeze_app(p)
  BY <1>3, ControlTypes, ExitType, GotoType DEF freeze_app
<1>4. CASE ChkptCallbacks(p)
  <2>1. ControlTypeOK'
    BY <1>4 DEF ChkptCallbacks, ControlTypeOK, AppState
  <2> QED BY <1>4, <2>1, GotoType DEF ChkptCallbacks
<1>5. CASE ChkptCallbacksFail(p)
  <2>1. ControlTypeOK'
    BY <1>5 DEF ChkptCallbacksFail, ControlTypeOK, AppState
  <2> QED BY <1>5, <2>1, ExitType DEF ChkptCallbacksFail
<1>6. CASE FreezeCall(p)
  <2>1. CASE application_freeze_fails /\ Exit(p, "fail")
    BY <2>1, ControlTypes, ExitType DEF application_freeze_fails
  <2>2. CASE /\ application_freeze(p)
             /\ IF ck[p].action = "ALL" THEN Goto(p, "checkpoint_app") ELSE Exit(p, "ok")
    BY <2>2, ControlTypes, ExitType, GotoType
  <2> QED BY <1>6, <2>1, <2>2 DEF FreezeCall
<1>7. CASE CheckpointInterrupted(p)
  BY <1>7, ControlTypes, ReturnsType DEF CheckpointInterrupted
<1>8. CASE CheckpointCall(p)
  <2>1. CASE application_checkpoint_fails /\ CheckpointReturns(p, "fail", 0)
    BY <2>1, ControlTypes, ReturnsType DEF application_checkpoint_fails
  <2>2. ASSUME NEW v \in Versions, NEW state \in {"image", "partial"},
               application_checkpoint(v, state),
               ck' = [ck EXCEPT ![p].sn = v, ![p].pc =
                       IF state = "image" THEN "write_description" ELSE "clean"],
               UNCHANGED signalsLeft
        PROVE  ControlTypeOK' /\ CkTypeOK'
    <3>1. ImageOf(state) \in ImageState
      BY DEF ImageOf, NoImage, ImageState, ControlTypeOK, AppState
    <3>2. ControlTypeOK'
      BY <2>2, <3>1 DEF application_checkpoint, ControlTypeOK
    <3> DEFINE pc == IF state = "image" THEN "write_description" ELSE "clean"
               c  == [ck[p] EXCEPT !.sn = v, !.pc = pc]
    <3>3. pc \in {"write_description", "clean"}
      OBVIOUS
    <3> HIDE DEF pc
    <3>4. c \in CkState
      BY <3>3, ZenonT(30) DEF CkTypeOK, CkState
    <3>5. ck' = [ck EXCEPT ![p] = c]
      BY <2>2 DEF CkTypeOK, CkState, pc
    <3> HIDE DEF c
    <3>6. CkTypeOK'
      BY <2>2, <3>4, <3>5, SetCkType
    <3> QED BY <3>2, <3>6
  <2> QED BY <1>8, <2>1, <2>2 DEF CheckpointCall
<1>9. CASE write_description(p)
  <2>1. ControlTypeOK'
    <3> PICK opened \in BOOLEAN :
          image' = [image EXCEPT ![ck[p].sn].described = image[ck[p].sn].described \/ opened]
      BY <1>9 DEF write_description
    <3>1. CASE ck[p].sn \in Versions
      <4> DEFINE d == image[ck[p].sn].described \/ opened
      <4>1. d \in BOOLEAN
        BY <3>1 DEF ControlTypeOK, ImageState
      <4> HIDE DEF d
      <4>2. image' = [image EXCEPT ![ck[p].sn].described = d]
        BY DEF d
      <4> QED BY <1>9, <3>1, <4>1, <4>2 DEF write_description, ControlTypeOK, ImageState
    <3>2. CASE ck[p].sn \notin Versions
      BY <1>9, <3>2 DEF write_description, ControlTypeOK
    <3> QED BY <3>1, <3>2
  <2> QED BY <1>9, <2>1, ReturnsType DEF write_description
<1>10. CASE CleanFiles(p)
  <2>1. ControlTypeOK'
    <3>1. CASE image' = [image EXCEPT ![ck[p].sn].state = "empty"]
      BY <1>10, <3>1, ZenonT(30) DEF CleanFiles, ControlTypeOK, ImageState
    <3>2. CASE Refused(ck[p].sn)
      BY <1>10, <3>2, RefusedImages DEF CleanFiles, ControlTypeOK
    <3> QED BY <1>10, <3>1, <3>2 DEF CleanFiles
  <2>2. CASE Goto(p, "rmdir")
    BY <2>1, <2>2, GotoType
  <2>3. CASE CheckpointReturns(p, "fail", ck[p].sn)
    BY <2>1, <2>3, ReturnsType
  <2> QED BY <1>10, <2>2, <2>3 DEF CleanFiles
<1>11. CASE CleanVersion(p)
  <2>1. NoImage \in ImageState
    BY DEF NoImage, ImageState
  <2>2. ControlTypeOK'
    <3>1. CASE Refused(ck[p].sn)
      BY <1>11, <3>1, RefusedImages DEF CleanVersion, ControlTypeOK
    <3>2. CASE ~Refused(ck[p].sn)
      BY <1>11, <2>1, <3>2 DEF CleanVersion, ControlTypeOK
    <3> QED BY <3>1, <3>2
  <2> QED BY <1>11, <2>2, GotoType DEF CleanVersion
<1>12. CASE CleanApp(p)
  <2>1. ControlTypeOK'
    BY <1>12 DEF CleanApp, ControlTypeOK
  <2> QED BY <1>12, <2>1, ReturnsType DEF CleanApp
<1>13. CASE unfreeze_app(p)
  BY <1>13, ControlTypes, ExitType, GotoType DEF unfreeze_app
<1>14. CASE ContinueCallbacks(p)
  BY <1>14, ControlTypes, RefusedType, GotoType DEF ContinueCallbacks
<1>15. CASE UnfreezeCall(p)
  <2>1. CASE application_unfreeze(ck[p].lethal) /\ Exit(p, ck[p].r)
    BY <2>1, ControlTypes, ExitType
  <2>2. CASE application_unfreeze_fails /\ UnfreezeFails(p)
    BY <2>2, ControlTypes, RefusedType DEF application_unfreeze_fails
  <2> QED BY <1>15, <2>1, <2>2 DEF UnfreezeCall
<1> QED
  BY <1>1, <1>2, <1>3, <1>4, <1>5, <1>6, <1>7, <1>8, <1>9, <1>10, <1>11, <1>12,
     <1>13, <1>14, <1>15 DEF CkStep

-----------------------------------------------------------------------------
(* The same for restart.                                                   *)

(* The same for restart: exit,                                             *)
LEMMA RsExitType ==
  ASSUME RsTypeOK, NEW q \in RProcs, NEW r \in {"ok", "fail"}
  PROVE  /\ RsEnded(q, r) \in RsState /\ RsEnded(q, r).pc = "done"
         /\ (RsExit(q, r) => RsTypeOK')
<1>1. RsEnded(q, r) \in RsState /\ RsEnded(q, r).pc = "done"
  BY DEF RsTypeOK, RsState, RsEnded, IdleRs
<1> QED BY <1>1 DEF RsExit, RsTypeOK

(* a step to the next call,                                                *)
LEMMA RsGotoType ==
  ASSUME RsTypeOK, NEW q \in RProcs, NEW pc \in {"callbacks", "unfreeze"},
         RsGoto(q, pc)
  PROVE  RsTypeOK'
  BY DEF RsTypeOK, RsState, RsGoto

(* what follows the restart itself,                                        *)
LEMMA RestartedType ==
  ASSUME RsTypeOK, NEW q \in RProcs, Restarted(q)
  PROVE  RsTypeOK'
<1>1. CASE RsExit(q, "ok")
  BY <1>1, RsExitType
<1>2. ASSUME NEW again \in BOOLEAN, rSignalsLeft' = rSignalsLeft,
             rs' = [rs EXCEPT ![q] = [rs[q] EXCEPT !.pc = "wait", !.restartWait = again]]
      PROVE  RsTypeOK'
  <2> DEFINE w == [rs[q] EXCEPT !.pc = "wait", !.restartWait = again]
  <2>1. w \in RsState /\ w.pc = "wait"
    BY DEF RsTypeOK, RsState
  <2> HIDE DEF w
  <2>2. rs' = [rs EXCEPT ![q] = w]
    BY <1>2 DEF w
  <2> QED BY <1>2, <2>1, <2>2 DEF RsTypeOK
<1> QED BY <1>1, <1>2 DEF Restarted

(* and every step of the command.                                          *)
LEMMA RsStepType ==
  ASSUME ControlTypeOK, RsTypeOK, NEW q \in RProcs,
         RsStart(q) \/ relay_signal(q) \/ RsKilled(q) \/ RsStep(q)
  PROVE  ControlTypeOK' /\ RsTypeOK'
<1>0. rs[q].version \in Versions \cup {0} /\ rs[q] \in RsState
  BY DEF RsTypeOK, RsState
<1>1. CASE RsStart(q)
  <2>1. ControlTypeOK'
    BY <1>1, ControlTypes DEF RsStart
  <2>2. PICK v \in Versions, nouf \in BOOLEAN, fg \in BOOLEAN, stdio \in BOOLEAN :
          rs' = [rs EXCEPT ![q] = [IdleRs EXCEPT !.pc = "parse", !.version = v,
                   !.noUnfreeze = nouf, !.stdio = stdio, !.foreground = fg]]
    BY <1>1, ZenonT(30) DEF RsStart
  <2>3. [IdleRs EXCEPT !.pc = "parse", !.version = v, !.noUnfreeze = nouf,
           !.stdio = stdio, !.foreground = fg] \in RsState
    BY DEF RsState, IdleRs
  <2>4. rs'[q].version = v /\ \A o \in RProcs \ {q} : rs'[o] = rs[o]
    BY <2>2 DEF RsTypeOK, IdleRs
  <2>5. rs' \in [RProcs -> RsState] /\ rSignalsLeft' \in Nat
    BY <1>1, <2>2, <2>3 DEF RsStart, RsTypeOK
  <2>6. v # 0
    BY ControlAssumption DEF Versions
  <2> QED BY <2>1, <2>4, <2>5, <2>6 DEF RsTypeOK
<1>2. CASE relay_signal(q)
  <2>1. ControlTypeOK'
    BY <1>2 DEF relay_signal, ControlTypeOK, AppState
  <2>2. RsTypeOK'
    BY <1>2, RsExitType DEF relay_signal, RsTypeOK
  <2> QED BY <2>1, <2>2
<1>3. CASE RsKilled(q)
  <2>1. /\ rs' \in [RProcs -> RsState]
        /\ \A o \in RProcs : rs'[o].pc \in {"parse", "restart"} => rs'[o].version # 0
    BY <1>3 DEF RsKilled, RsTypeOK, RsState, IdleRs
  <2>2. rSignalsLeft' \in Nat
    BY <1>3 DEF RsKilled, RsTypeOK
  <2> QED BY <1>3, <2>1, <2>2, ControlTypes DEF RsKilled, RsTypeOK
<1>4. CASE RestartCall(q)
  <2>1. CASE application_restart(q, rs[q].version) /\ RsGoto(q, "callbacks")
    <3>1. rs[q].version \in Versions
      BY <1>0, <1>4 DEF RestartCall, RsTypeOK
    <3>2. ControlTypeOK'
      BY <2>1, <3>1, ControlTypes
    <3> QED BY <2>1, <3>2, RsGotoType
  <2>2. CASE application_restart_fails(rs[q].version) /\ RsExit(q, "fail")
    BY <2>2, ControlTypes, RsExitType DEF application_restart_fails
  <2> QED BY <1>4, <2>1, <2>2 DEF RestartCall
<1>5. CASE RestartCallbacks(q)
  BY <1>5, ControlTypes, RsExitType, RsGotoType, RestartedType DEF RestartCallbacks
<1>6. CASE RsUnfreezeCall(q)
  BY <1>6, ControlTypes, RsExitType, RestartedType
  DEF RsUnfreezeCall, application_unfreeze_fails
<1>7. CASE WaitReturns(q)
  BY <1>7, ControlTypes, RsExitType DEF WaitReturns
<1>8. CASE replace_stdin_stdout_stderr(q)
  <2>1. CASE RsGoto(q, "restart")
    BY <1>8, <2>1, ControlTypes DEF replace_stdin_stdout_stderr, RsGoto, RsTypeOK, RsState
  <2>2. CASE RsExit(q, "fail")
    BY <1>8, <2>2, ControlTypes, RsExitType DEF replace_stdin_stdout_stderr
  <2> QED BY <1>8, <2>1, <2>2 DEF replace_stdin_stdout_stderr
<1> QED BY <1>1, <1>2, <1>3, <1>4, <1>5, <1>6, <1>7, <1>8 DEF RsStep

-----------------------------------------------------------------------------
(* The initial state has its types.                                        *)
LEMMA InitType == Init => TypeOK
<1> SUFFICES ASSUME Init PROVE TypeOK
  OBVIOUS
<1>1. ControlTypeOK
  BY DEF Init, ControlInit, ControlTypeOK, AppState, ImageState, NoImage
<1>2. CkTypeOK
  BY CheckpointAssumption DEF Init, CkInit, CkTypeOK, CkState, IdleCk
<1>3. RsTypeOK
  BY RestartAssumption DEF Init, RsInit, RsTypeOK, RsState, IdleRs
<1> QED BY <1>1, <1>2, <1>3 DEF TypeOK

(* Every step keeps the types.                                             *)
LEMMA NextType == TypeOK /\ [Next]_vars => TypeOK'
<1> SUFFICES ASSUME TypeOK, [Next]_vars PROVE TypeOK'
  OBVIOUS
<1> USE DEF TypeOK
<1>1. CASE \E p \in Procs : Checkpoint(p)
  <2> PICK p \in Procs : Checkpoint(p)
    BY <1>1
  <2>1. ControlTypeOK' /\ CkTypeOK'
    BY CkStepType DEF Checkpoint
  <2>2. RsTypeOK'
    BY DEF Checkpoint, rsVars, RsTypeOK
  <2> QED BY <2>1, <2>2
<1>2. CASE \E q \in RProcs : Restart(q)
  <2> PICK q \in RProcs : Restart(q)
    BY <1>2
  <2>1. ControlTypeOK' /\ RsTypeOK'
    BY RsStepType DEF Restart
  <2>2. CkTypeOK'
    BY DEF Restart, ckVars, CkTypeOK
  <2> QED BY <2>1, <2>2
<1>3. CASE Exits
  BY <1>3, ControlTypes DEF Exits, ckVars, rsVars, CkTypeOK, RsTypeOK
<1>4. CASE UNCHANGED vars
  BY <1>4, ControlTypes DEF vars, ckVars, rsVars, CkTypeOK, RsTypeOK
<1> QED BY <1>1, <1>2, <1>3, <1>4 DEF Next

(* The variables of the commands, of the application and of its versions   *)
(* keep their types, for any number of commands and of versions.           *)
THEOREM TypeCorrect == Spec => []TypeOK
<1>1. Init => TypeOK
  BY InitType
<1>2. TypeOK /\ [Next]_vars => TypeOK'
  BY NextType
<1> QED BY <1>1, <1>2, PTL DEF Spec

-----------------------------------------------------------------------------
(* Who leaves the application frozen.                                      *)

(* Where a complete run of checkpoint is while the application is in the   *)
(* frozen state this run put it in: it has still its unfreeze to do.       *)
HoldsFrozen == {"checkpoint_app", "write_description", "clean", "rmdir", "rmapp",
                "unfreeze_app", "continue", "unfreeze"}

Accounted(c) == \/ c.pc \in HoldsFrozen \/ c.pc = "killed"
                \/ c.pc = "done" /\ c.failedUnfreeze

CkOwnsFreeze ==
  app.status = "frozen" =>
    \A p \in Procs : app.frozenBy = p =>
      ck[p].pc # "idle" /\ (ck[p].action = "ALL" => Accounted(ck[p]))

RsOwnsFreeze ==
  app.status = "frozen" =>
    \A q \in RProcs : app.frozenBy = q =>
      /\ rs[q].pc # "idle"
      /\ \/ rs[q].pc \in {"callbacks", "unfreeze", "killed"} \/ rs[q].noUnfreeze
         \/ rs[q].pc = "done" /\ rs[q].r = "fail"

FreezeInv == TypeOK /\ CkOwnsFreeze /\ RsOwnsFreeze

(* What a checkpoint process has become after a step: the others are       *)
(* untouched.                                                              *)
Others(p) == \A o \in Procs \ {p} : ck'[o] = ck[o]

(* What exit changes of a command,                                         *)
LEMMA ExitEffect ==
  ASSUME CkTypeOK, NEW p \in Procs, NEW r \in {"ok", "fail"}, Exit(p, r)
  PROVE  ck'[p].pc = "done" /\ ck'[p].action = ck[p].action /\ Others(p)
  BY DEF Exit, Ended, IdleCk, CkTypeOK, CkState, Others

(* a refused unfreeze,                                                     *)
LEMMA RefusedEffect ==
  ASSUME CkTypeOK, NEW p \in Procs, UnfreezeFails(p)
  PROVE  /\ ck'[p].pc = "done" /\ ck'[p].action = ck[p].action
         /\ ck'[p].r = "fail" /\ ck'[p].sn = ck[p].sn
         /\ ck'[p].failedUnfreeze /\ Others(p)
<1> DEFINE off == Ended(p, "fail", ck[p].sn)
           c   == [off EXCEPT !.failedUnfreeze = TRUE]
<1>1. /\ off.pc = "done" /\ off.action = ck[p].action /\ off \in CkState
      /\ off.r = "fail" /\ off.sn = ck[p].sn
  BY EndedType, CkFieldTypes DEF Ended, IdleCk
<1>2. ck' = [ck EXCEPT ![p] = c]
  BY DEF UnfreezeFails
<1> HIDE DEF off
<1>3. /\ c.pc = "done" /\ c.action = ck[p].action /\ c.failedUnfreeze
      /\ c.r = "fail" /\ c.sn = ck[p].sn
  BY <1>1 DEF CkState
<1> HIDE DEF c
<1> QED BY <1>2, <1>3 DEF CkTypeOK, Others

(* a step to the next call,                                                *)
LEMMA GotoEffect ==
  ASSUME CkTypeOK, NEW p \in Procs, NEW pc, Goto(p, pc)
  PROVE  /\ ck'[p].pc = pc /\ ck'[p].action = ck[p].action /\ ck'[p].sn = ck[p].sn
         /\ Others(p)
  BY DEF Goto, CkTypeOK, CkState, Others

(* and the return of the checkpoint itself.                                *)
LEMMA ReturnsEffect ==
  ASSUME CkTypeOK, NEW p \in Procs, NEW r \in {"ok", "fail"},
         NEW sn \in Versions \cup {0}, CheckpointReturns(p, r, sn)
  PROVE  /\ ck'[p].pc = IF ck[p].action = "ALL" THEN "unfreeze_app" ELSE "done"
         /\ ck'[p].action = ck[p].action /\ Others(p)
<1>1. CASE ck[p].action = "ALL"
  <2> DEFINE on == [ck[p] EXCEPT !.pc = "unfreeze_app", !.r = r, !.sn = sn,
                                 !.lethal = ck[p].lethal /\ r = "ok"]
  <2>1. on.pc = "unfreeze_app" /\ on.action = ck[p].action
    BY DEF CkTypeOK, CkState
  <2>2. ck' = [ck EXCEPT ![p] = on]
    BY <1>1 DEF CheckpointReturns
  <2> HIDE DEF on
  <2> QED BY <1>1, <2>1, <2>2 DEF CkTypeOK, Others
<1>2. CASE ck[p].action # "ALL"
  <2> DEFINE off == Ended(p, r, sn)
  <2>1. off.pc = "done" /\ off.action = ck[p].action
    BY DEF Ended, IdleCk, CkTypeOK, CkState
  <2>2. ck' = [ck EXCEPT ![p] = off]
    BY <1>2 DEF CheckpointReturns
  <2> HIDE DEF off
  <2> QED BY <1>2, <2>1, <2>2 DEF CkTypeOK, Others
<1> QED BY <1>1, <1>2

(* A step of p that leaves the application as frozen as it was, and keeps  *)
(* p's duty to unfreeze it.                                                *)
Keeps(p) == /\ Others(p) /\ ck'[p].pc # "idle"
            /\ ck'[p].action = ck[p].action
            /\ ck[p].action = "ALL" /\ Accounted(ck[p]) => Accounted(ck'[p])

(* These three keep the duty to unfreeze: exit, outside of it;             *)
LEMMA ExitKeeps ==
  ASSUME CkTypeOK, NEW p \in Procs, NEW r \in {"ok", "fail"}, Exit(p, r),
         ck[p].action # "ALL" \/ ~Accounted(ck[p])
  PROVE  Keeps(p)
  BY ExitEffect DEF Keeps

(* a step to the next call;                                                *)
LEMMA GotoKeeps ==
  ASSUME CkTypeOK, NEW p \in Procs, NEW pc, Goto(p, pc), pc # "idle",
         ~Accounted(ck[p]) \/ pc \in HoldsFrozen
  PROVE  Keeps(p)
  BY GotoEffect DEF Keeps, Accounted

(* the return of the checkpoint.                                           *)
LEMMA ReturnsKeeps ==
  ASSUME CkTypeOK, NEW p \in Procs, NEW r \in {"ok", "fail"},
         NEW sn \in Versions \cup {0}, CheckpointReturns(p, r, sn)
  PROVE  Keeps(p)
  BY ReturnsEffect DEF Keeps, HoldsFrozen, Accounted

(* A step that keeps it, and the application, keeps the invariant.         *)
LEMMA KeepsInv ==
  ASSUME FreezeInv, NEW p \in Procs, Keeps(p), UNCHANGED rsVars,
         app'.status = app.status, app'.frozenBy = app.frozenBy
  PROVE  CkOwnsFreeze' /\ RsOwnsFreeze'
  BY DEF FreezeInv, CkOwnsFreeze, RsOwnsFreeze, rsVars, Keeps, Others

(* A step of checkpoint keeps FreezeInv.                                   *)
LEMMA CkFreezeStep ==
  ASSUME FreezeInv, NEW p \in Procs,
         Start(p) \/ handle_signal(p) \/ CkStep(p), UNCHANGED rsVars
  PROVE  CkOwnsFreeze' /\ RsOwnsFreeze'
<1>0. CkTypeOK /\ ControlTypeOK /\ CkOwnsFreeze /\ RsOwnsFreeze
  BY DEF FreezeInv, TypeOK
<1>a. ck[p].sn \in Versions \cup {0} /\ ck[p].r \in {"ok", "fail"}
  BY <1>0, CkFieldTypes
<1>1. CASE Start(p)
  <2>1. PICK action \in Actions, nocb \in BOOLEAN, lethal \in BOOLEAN :
          ck' = [ck EXCEPT ![p] =
                  [IdleCk EXCEPT !.pc = FirstStep(action), !.action = action,
                     !.noCallbacks = nocb, !.lethal = lethal]]
    BY <1>1 DEF Start, parse_args
  <2>2. \A o \in Procs \ {p} : ck'[o] = ck[o]
    BY <1>0, <2>1 DEF CkTypeOK, IdleCk
  <2>3. ck[p].pc = "idle" /\ UNCHANGED controlVars
    BY <1>1 DEF Start, At
  <2>4. app.status = "frozen" => app.frozenBy # p
    BY <1>0, <2>3 DEF CkOwnsFreeze
  <2> QED BY <1>0, <2>2, <2>3, <2>4
          DEF controlVars, CkOwnsFreeze, RsOwnsFreeze, rsVars
<1>2. CASE handle_signal(p)
  <2>1. UNCHANGED controlVars /\ CkActive(p)
    BY <1>2 DEF handle_signal
  <2>2. ASSUME ck' = [ck EXCEPT ![p].interrupted = TRUE]
        PROVE  Keeps(p)
    BY <1>0, <2>1, <2>2 DEF CkTypeOK, CkState, Keeps, Others, CkActive, Accounted
  <2>3. ASSUME ck' = [ck EXCEPT ![p] = [IdleCk EXCEPT !.pc = "killed",
                        !.action = ck[p].action, !.sn = ck[p].sn]]
        PROVE  Keeps(p)
    BY <1>0, <2>3 DEF CkTypeOK, IdleCk, Keeps, Others, Accounted
  <2>4. Keeps(p)
    BY <1>2, <2>2, <2>3 DEF handle_signal
  <2> QED BY <2>1, <2>4, KeepsInv DEF controlVars
<1>3. CASE freeze_app(p)
  <2>1. ck[p].pc = "freeze_app" /\ UNCHANGED controlVars
        /\ (Exit(p, "fail") \/ Goto(p, "freeze") \/ Goto(p, "callbacks"))
    BY <1>3 DEF freeze_app, At
  <2>2. Keeps(p)
    BY <1>0, <2>1, ExitKeeps, GotoKeeps DEF HoldsFrozen, Accounted
  <2> QED BY <2>1, <2>2, KeepsInv DEF controlVars
<1>4. CASE ChkptCallbacks(p)
  <2>1. /\ ck[p].pc = "callbacks" /\ Goto(p, "freeze")
        /\ app'.status = app.status /\ app'.frozenBy = app.frozenBy
    BY <1>0, <1>4 DEF ChkptCallbacks, At, ControlTypeOK, AppState
  <2>2. Keeps(p)
    BY <1>0, <2>1, GotoKeeps DEF HoldsFrozen, Accounted
  <2> QED BY <2>1, <2>2, KeepsInv
<1>5. CASE ChkptCallbacksFail(p)
  <2>1. /\ ck[p].pc = "callbacks" /\ Exit(p, "fail")
        /\ app'.status = app.status /\ app'.frozenBy = app.frozenBy
    BY <1>0, <1>5 DEF ChkptCallbacksFail, At, ControlTypeOK, AppState
  <2>2. Keeps(p)
    BY <1>0, <2>1, ExitKeeps DEF HoldsFrozen, Accounted
  <2> QED BY <2>1, <2>2, KeepsInv DEF controlVars
<1>6. CASE FreezeCall(p)
  <2>0. ck[p].pc = "freeze"
    BY <1>6 DEF FreezeCall, At
  <2>1. CASE application_freeze_fails /\ Exit(p, "fail")
    <3>1. UNCHANGED controlVars
      BY <2>1 DEF application_freeze_fails
    <3>2. Keeps(p)
      BY <1>0, <2>0, <2>1, ExitKeeps DEF HoldsFrozen, Accounted
    <3> QED BY <3>1, <3>2, KeepsInv DEF controlVars
  <2>2. CASE /\ application_freeze(p)
             /\ IF ck[p].action = "ALL" THEN Goto(p, "checkpoint_app") ELSE Exit(p, "ok")
    <3>1. app'.frozenBy = p
      BY <1>0, <2>2 DEF application_freeze, ControlTypeOK, AppState
    <3>2. Keeps(p)
      BY <1>0, <2>0, <2>2, ExitKeeps, GotoKeeps DEF HoldsFrozen, Accounted
    <3>3. ck[p].action = "ALL" => ck'[p].pc = "checkpoint_app"
      BY <1>0, <2>2, GotoEffect
    <3>4. p \notin RProcs
      BY ControlAssumption
    <3> QED BY <1>0, <3>1, <3>2, <3>3, <3>4
            DEF HoldsFrozen, Accounted, Keeps, Others, CkOwnsFreeze, RsOwnsFreeze, rsVars
  <2> QED BY <1>6, <2>1, <2>2 DEF FreezeCall
<1>7. CASE CheckpointInterrupted(p)
  <2>1. Keeps(p)
    BY <1>0, <1>7, ReturnsKeeps DEF CheckpointInterrupted
  <2> QED BY <1>7, <2>1, KeepsInv DEF CheckpointInterrupted, controlVars
<1>8. CASE CheckpointCall(p)
  <2>0. ck[p].pc = "checkpoint_app" /\ UNCHANGED app
    BY <1>8 DEF CheckpointCall, At, application_checkpoint,
                application_checkpoint_fails, controlVars
  <2>1. CASE CheckpointReturns(p, "fail", 0)
    BY <1>0, <2>0, <2>1, ReturnsKeeps, KeepsInv
  <2>2. ASSUME NEW v \in Versions, NEW state \in {"image", "partial"},
               ck' = [ck EXCEPT ![p].sn = v, ![p].pc =
                       IF state = "image" THEN "write_description" ELSE "clean"]
        PROVE  Keeps(p)
    BY <1>0, <2>2 DEF CkTypeOK, CkState, Keeps, Others, HoldsFrozen, Accounted
  <2> QED BY <1>8, <2>0, <2>1, <2>2, KeepsInv DEF CheckpointCall
<1>9. CASE write_description(p)
  <2>1. Keeps(p)
    BY <1>0, <1>a, <1>9, ReturnsKeeps DEF write_description
  <2> QED BY <1>9, <2>1, KeepsInv DEF write_description
<1>10. CASE CleanFiles(p)
  <2>1. Keeps(p)
    BY <1>0, <1>a, <1>10, GotoKeeps, ReturnsKeeps DEF CleanFiles, HoldsFrozen
  <2> QED BY <1>10, <2>1, KeepsInv DEF CleanFiles
<1>11. CASE CleanVersion(p)
  <2>1. Keeps(p)
    BY <1>0, <1>11, GotoKeeps DEF CleanVersion, HoldsFrozen, Accounted
  <2> QED BY <1>11, <2>1, KeepsInv DEF CleanVersion
<1>12. CASE CleanApp(p)
  <2>1. Keeps(p)
    BY <1>0, <1>a, <1>12, ReturnsKeeps DEF CleanApp
  <2> QED BY <1>12, <2>1, KeepsInv DEF CleanApp
<1>13. CASE unfreeze_app(p)
  <2>1. /\ UNCHANGED controlVars
        /\ \/ ck[p].action # "ALL" /\ Exit(p, "fail")
           \/ Goto(p, "unfreeze") \/ Goto(p, "continue")
    BY <1>13 DEF unfreeze_app, At
  <2>2. Keeps(p)
    BY <1>0, <2>1, ExitKeeps, GotoKeeps DEF HoldsFrozen, Accounted
  <2> QED BY <2>1, <2>2, KeepsInv DEF controlVars
<1>14. CASE ContinueCallbacks(p)
  <2>1. ASSUME Goto(p, "unfreeze") PROVE Keeps(p)
    BY <1>0, <2>1, GotoKeeps DEF HoldsFrozen
  <2>2. ASSUME UnfreezeFails(p) PROVE Keeps(p)
    BY <1>0, <2>2, RefusedEffect DEF Keeps, Accounted
  <2>3. Keeps(p)
    BY <1>14, <2>1, <2>2 DEF ContinueCallbacks
  <2> QED BY <1>14, <2>3, KeepsInv DEF ContinueCallbacks, controlVars
<1>15. CASE UnfreezeCall(p)
  <2>1. CASE application_unfreeze_fails /\ UnfreezeFails(p)
    <3>1. Keeps(p)
      BY <1>0, <2>1, RefusedEffect DEF Keeps, Accounted
    <3> QED BY <2>1, <3>1, KeepsInv DEF application_unfreeze_fails, controlVars
  <2>2. CASE application_unfreeze(ck[p].lethal) /\ Exit(p, ck[p].r)
    <3>1. app'.status # "frozen"
      BY <1>0, <2>2 DEF application_unfreeze, ControlTypeOK, AppState
    <3> QED BY <3>1 DEF CkOwnsFreeze, RsOwnsFreeze
  <2> QED BY <1>15, <2>1, <2>2 DEF UnfreezeCall
<1> QED
  BY <1>1, <1>2, <1>3, <1>4, <1>5, <1>6, <1>7, <1>8, <1>9, <1>10, <1>11, <1>12,
     <1>13, <1>14, <1>15 DEF CkStep

-----------------------------------------------------------------------------
(* The same for restart.  A step of q that leaves the application as       *)
(* frozen as it was, and q with the duty it had, or with a failure.        *)
RsDuty(r) == /\ r.pc # "idle"
             /\ \/ r.pc \in {"callbacks", "unfreeze", "killed"} \/ r.noUnfreeze
                \/ r.pc = "done" /\ r.r = "fail"

RsKeeps(q) == /\ \A o \in RProcs \ {q} : rs'[o] = rs[o]
              /\ app.status = "frozen" /\ RsDuty(rs[q]) => RsDuty(rs'[q])

(* What exit changes of a restart,                                         *)
LEMMA RsExitEffect ==
  ASSUME RsTypeOK, NEW q \in RProcs, NEW r \in {"ok", "fail"}, RsExit(q, r)
  PROVE  /\ rs'[q].pc = "done" /\ rs'[q].r = r /\ rs'[q].noUnfreeze = rs[q].noUnfreeze
         /\ \A o \in RProcs \ {q} : rs'[o] = rs[o]
  BY DEF RsExit, RsEnded, IdleRs, RsTypeOK, RsState

(* and a step to its next call.                                            *)
LEMMA RsGotoEffect ==
  ASSUME RsTypeOK, NEW q \in RProcs, NEW pc, RsGoto(q, pc)
  PROVE  /\ rs'[q].pc = pc /\ rs'[q].noUnfreeze = rs[q].noUnfreeze
         /\ \A o \in RProcs \ {q} : rs'[o] = rs[o]
  BY DEF RsGoto, RsTypeOK, RsState

(* What follows the restart itself.                                        *)
LEMMA RestartedEffect ==
  ASSUME RsTypeOK, NEW q \in RProcs, Restarted(q)
  PROVE  /\ rs'[q].pc \in {"done", "wait"} /\ rs'[q].noUnfreeze = rs[q].noUnfreeze
         /\ \A o \in RProcs \ {q} : rs'[o] = rs[o]
<1>1. CASE RsExit(q, "ok")
  BY <1>1, RsExitEffect
<1>2. CASE \E again \in BOOLEAN :
             rs' = [rs EXCEPT ![q] = [rs[q] EXCEPT !.pc = "wait", !.restartWait = again]]
  BY <1>2 DEF RsTypeOK, RsState
<1> QED BY <1>1, <1>2 DEF Restarted

(* A step of restart that keeps its duty keeps the invariant.              *)
LEMMA RsKeepsInv ==
  ASSUME FreezeInv, NEW q \in RProcs, RsKeeps(q), UNCHANGED ckVars,
         app'.status = app.status, app'.frozenBy = app.frozenBy
  PROVE  CkOwnsFreeze' /\ RsOwnsFreeze'
  BY DEF FreezeInv, CkOwnsFreeze, RsOwnsFreeze, ckVars, RsKeeps, RsDuty

(* A step of restart keeps FreezeInv.                                      *)
LEMMA RsFreezeStep ==
  ASSUME FreezeInv, NEW q \in RProcs,
         RsStart(q) \/ relay_signal(q) \/ RsKilled(q) \/ RsStep(q), UNCHANGED ckVars
  PROVE  CkOwnsFreeze' /\ RsOwnsFreeze'
<1>0. RsTypeOK /\ ControlTypeOK /\ CkOwnsFreeze /\ RsOwnsFreeze
  BY DEF FreezeInv, TypeOK
<1>u. ASSUME app'.status # "frozen"
      PROVE  CkOwnsFreeze' /\ RsOwnsFreeze'
  BY <1>0, <1>u DEF CkOwnsFreeze, RsOwnsFreeze, ckVars
<1>1. CASE RsStart(q)
  <2>1. rs[q].pc = "idle" /\ UNCHANGED controlVars
    BY <1>1 DEF RsStart
  <2>2. PICK new : rs' = [rs EXCEPT ![q] = new]
    BY <1>1 DEF RsStart
  <2>3. RsKeeps(q)
    BY <1>0, <2>1, <2>2 DEF RsKeeps, RsDuty, RsTypeOK
  <2> QED BY <2>1, <2>3, RsKeepsInv DEF controlVars
<1>2. CASE relay_signal(q)
  <2>1. CASE UNCHANGED app
    <3>1. CASE rs' = rs
      BY <2>1, <3>1, RsKeepsInv DEF RsKeeps
    <3>2. CASE rs' = [rs EXCEPT ![q] = RsEnded(q, "fail")]
      <4>1. RsKeeps(q)
        BY <1>0, <3>2 DEF RsKeeps, RsDuty, RsEnded, IdleRs, RsTypeOK, RsState
      <4> QED BY <2>1, <4>1, RsKeepsInv
    <3> QED BY <1>2, <3>1, <3>2 DEF relay_signal
  <2>2. CASE app' = [app EXCEPT !.status = "dead"]
    <3>1. app'.status # "frozen"
      BY <1>0, <2>2 DEF ControlTypeOK, AppState
    <3> QED BY <1>u, <3>1
  <2> QED BY <1>2, <2>1, <2>2 DEF relay_signal
<1>3. CASE RsKilled(q)
  <2>1. /\ rs' = [rs EXCEPT ![q] = [IdleRs EXCEPT !.pc = "killed"]]
        /\ UNCHANGED controlVars
    BY <1>3 DEF RsKilled
  <2>2. RsKeeps(q)
    BY <1>0, <2>1 DEF RsKeeps, RsDuty, RsTypeOK, IdleRs
  <2> QED BY <2>1, <2>2, RsKeepsInv DEF controlVars
<1>4. CASE RestartCall(q)
  <2>1. CASE application_restart(q, rs[q].version) /\ RsGoto(q, "callbacks")
    <3>1. app'.frozenBy = q
      BY <1>0, <2>1 DEF application_restart, ControlTypeOK, AppState
    <3>2. rs'[q].pc = "callbacks"
      BY <1>0, <2>1, RsGotoEffect
    <3>3. q \notin Procs
      BY ControlAssumption
    <3> QED BY <1>0, <3>1, <3>2, <3>3
            DEF CkOwnsFreeze, RsOwnsFreeze, ckVars
  <2>2. CASE application_restart_fails(rs[q].version) /\ RsExit(q, "fail")
    <3>1. RsKeeps(q)
      BY <1>0, <2>2, RsExitEffect DEF RsKeeps, RsDuty
    <3> QED BY <2>2, <3>1, RsKeepsInv DEF application_restart_fails, controlVars
  <2> QED BY <1>4, <2>1, <2>2 DEF RestartCall
<1>5. CASE RestartCallbacks(q)
  <2>1. CASE RsExit(q, "fail") \/ RsGoto(q, "unfreeze")
    <3>1. RsKeeps(q)
      BY <1>0, <2>1, RsExitEffect, RsGotoEffect DEF RsKeeps, RsDuty
    <3> QED BY <1>5, <3>1, RsKeepsInv DEF RestartCallbacks, controlVars
  <2>2. CASE rs[q].noUnfreeze /\ Restarted(q)
    <3>1. RsKeeps(q)
      BY <1>0, <2>2, RestartedEffect DEF RsKeeps, RsDuty
    <3> QED BY <1>5, <3>1, RsKeepsInv DEF RestartCallbacks, controlVars
  <2> QED BY <1>5, <2>1, <2>2 DEF RestartCallbacks
<1>6. CASE RsUnfreezeCall(q)
  <2>1. CASE application_unfreeze(FALSE)
    <3>1. app'.status # "frozen"
      BY <1>0, <2>1 DEF application_unfreeze, ControlTypeOK, AppState
    <3> QED BY <1>u, <3>1
  <2>2. CASE application_unfreeze_fails /\ RsExit(q, "fail")
    <3>1. RsKeeps(q)
      BY <1>0, <2>2, RsExitEffect DEF RsKeeps, RsDuty
    <3> QED BY <2>2, <3>1, RsKeepsInv DEF application_unfreeze_fails, controlVars
  <2> QED BY <1>6, <2>1, <2>2 DEF RsUnfreezeCall
<1>7. CASE WaitReturns(q)
  BY <1>u, <1>7 DEF WaitReturns, controlVars
<1>8. CASE replace_stdin_stdout_stderr(q)
  <2>1. RsGoto(q, "restart") \/ RsExit(q, "fail")
    BY <1>8 DEF replace_stdin_stdout_stderr
  <2>2. RsKeeps(q)
    BY <1>0, <1>8, <2>1, RsExitEffect, RsGotoEffect
       DEF RsKeeps, RsDuty, replace_stdin_stdout_stderr
  <2> QED BY <1>8, <2>2, RsKeepsInv DEF replace_stdin_stdout_stderr, controlVars
<1> QED BY <1>1, <1>2, <1>3, <1>4, <1>5, <1>6, <1>7, <1>8 DEF RsStep

(* No complete run of checkpoint exits leaving the application frozen,     *)
(* unless the unfreeze itself was refused, and no restart that succeeds    *)
(* leaves it frozen against its options: for any number of commands at the *)
(* same time, signals and failures of the kernel and of the callbacks.     *)
THEOREM NeverLeftFrozen == Spec => []NotLeftFrozen
<1>1. Init => FreezeInv
  <2> SUFFICES ASSUME Init PROVE FreezeInv
    OBVIOUS
  <2>1. TypeOK
    BY InitType
  <2>2. app.status = "running"
    BY DEF Init, ControlInit
  <2> QED BY <2>1, <2>2 DEF FreezeInv, CkOwnsFreeze, RsOwnsFreeze
<1>2. FreezeInv /\ [Next]_vars => FreezeInv'
  <2> SUFFICES ASSUME FreezeInv, [Next]_vars PROVE FreezeInv'
    OBVIOUS
  <2>1. TypeOK'
    BY NextType DEF FreezeInv
  <2>2. CASE \E p \in Procs : Checkpoint(p)
    BY <2>1, <2>2, CkFreezeStep DEF Checkpoint, FreezeInv
  <2>3. CASE \E q \in RProcs : Restart(q)
    BY <2>1, <2>3, RsFreezeStep DEF Restart, FreezeInv
  <2>4. CASE Exits
    <3>1. app'.status # "frozen"
      BY <2>4 DEF Exits, AppExits, FreezeInv, TypeOK, ControlTypeOK, AppState
    <3> QED BY <2>1, <2>4, <3>1
            DEF Exits, ckVars, FreezeInv, CkOwnsFreeze, RsOwnsFreeze
  <2>5. CASE UNCHANGED vars
    BY <2>1, <2>5 DEF vars, controlVars, ckVars, rsVars, FreezeInv,
                      CkOwnsFreeze, RsOwnsFreeze
  <2> QED BY <2>2, <2>3, <2>4, <2>5 DEF Next
<1>3. FreezeInv => NotLeftFrozen
  BY DEF FreezeInv, CkOwnsFreeze, RsOwnsFreeze, HoldsFrozen, Accounted, NotLeftFrozen
<1> QED BY <1>1, <1>2, <1>3, PTL DEF Spec
=============================================================================
