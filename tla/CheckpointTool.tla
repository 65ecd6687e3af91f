--------------------------- MODULE CheckpointTool ---------------------------
(***************************************************************************)
(* tools/checkpoint.c: any number of checkpoint processes, each with its   *)
(* action and options, working on one application; SIGINT and SIGTERM      *)
(* arrive at any point.  The callbacks are seen from here as a call that   *)
(* succeeds, fails or waits; the protocol behind it is KrgCallback.        *)
(***************************************************************************)
EXTENDS AppControl

CONSTANTS
  Actions,          \* the actions users ask for
  CallbacksMayFail, \* may cr_execute_chkpt_callbacks fail?
  ContinueMayFail,  \* may cr_execute_continue_callbacks fail?
  CleanMayFail,     \* may opendir and remove fail, d_type be unknown?
  MaxSignals        \* bound: signals sent to the tools

ASSUME CheckpointAssumption ==
  /\ Actions \subseteq {"CHECKPOINT", "FREEZE", "UNFREEZE", "ALL"}
  /\ CallbacksMayFail \in BOOLEAN
  /\ ContinueMayFail \in BOOLEAN /\ CleanMayFail \in BOOLEAN
  /\ MaxSignals \in Nat

VARIABLES ck,          \* for each process, its globals and where it is
          signalsLeft

ckVars == <<ck, signalsLeft>>

IdleCk == [pc |-> "idle", action |-> "ALL", noCallbacks |-> FALSE,
           lethal |-> FALSE, interrupted |-> FALSE, r |-> "ok", sn |-> 0, failedUnfreeze |-> FALSE]

CkInit == ck = [p \in Procs |-> IdleCk] /\ signalsLeft = MaxSignals

At(p, pc) == ck[p].pc = pc
Goto(p, pc) == ck' = [ck EXCEPT ![p].pc = pc] /\ UNCHANGED signalsLeft

(* A process that has ended is remembered by what it was asked for, what   *)
(* it reported and, a history, whether its unfreeze was refused.           *)
Ended(p, r, sn) == [IdleCk EXCEPT !.pc = "done", !.action = ck[p].action,
                                  !.r = r, !.sn = sn]
Exit(p, r) == ck' = [ck EXCEPT ![p] = Ended(p, r, ck[p].sn)] /\ UNCHANGED signalsLeft

CkActive(p) == ck[p].pc \notin {"idle", "done", "killed"}

(* Mutant: the switch has no case for --unfreeze.                          *)
FirstStepNoUnfreeze(action) == CASE action = "CHECKPOINT" -> "checkpoint_app"
                                 [] action = "UNFREEZE"   -> "none"
                                 [] OTHER                 -> "freeze_app"

(* parse_args: what the options amount to.  The signal of -k and of -u is  *)
(* only sent by an unfreeze.                                               *)
parse_args == {o \in [action : Actions, noCallbacks : BOOLEAN, lethal : BOOLEAN] :
                 o.lethal => o.action \in {"ALL", "UNFREEZE"}}

(* main up to its switch.                                                  *)
FirstStep(action) == CASE action = "CHECKPOINT" -> "checkpoint_app"
                       [] action = "UNFREEZE"   -> "unfreeze_app"
                       [] OTHER                 -> "freeze_app"

Start(p) ==
  /\ At(p, "idle")
  /\ \E o \in parse_args :
       ck' = [ck EXCEPT ![p] =
               [IdleCk EXCEPT !.pc = FirstStep(o.action), !.action = o.action,
                  !.noCallbacks = o.noCallbacks, !.lethal = o.lethal]]
  /\ UNCHANGED <<signalsLeft, controlVars>>

(* The handler sets interrupted_by_signal.  sigh.sa_flags is never set:    *)
(* when SA_RESETHAND happens to be among the flags, a signal that has been *)
(* handled before has its default effect.                                  *)
handle_signal(p) ==
  /\ CkActive(p) /\ signalsLeft > 0
  /\ signalsLeft' = signalsLeft - 1
  /\ \/ ck' = [ck EXCEPT ![p].interrupted = TRUE]
     \/ ck[p].interrupted /\ ck' = [ck EXCEPT ![p] =
          [IdleCk EXCEPT !.pc = "killed", !.action = ck[p].action, !.sn = ck[p].sn]]
  /\ UNCHANGED controlVars

-----------------------------------------------------------------------------
(* freeze_app *)

freeze_app(p) ==
  /\ At(p, "freeze_app")
  /\ IF ck[p].interrupted THEN Exit(p, "fail")
     ELSE Goto(p, IF ck[p].noCallbacks THEN "freeze" ELSE "callbacks")
  /\ UNCHANGED controlVars

(* cr_execute_chkpt_callbacks returns 0: nothing to run, or an answer is   *)
(* in the queue, of the running application or of an interrupted call      *)
(* before this one.                                                        *)
ChkptCallbacks(p) ==
  /\ At(p, "callbacks")
  /\ HasCallbacks /\ app.status = "frozen" => app.answer
  /\ app' = [app EXCEPT !.answer = app.answer /\ ~HasCallbacks]
  /\ Goto(p, "freeze")
  /\ UNCHANGED <<image, appDir>>

(* It fails before or after the queue is removed, or is interrupted and    *)
(* leaves it behind.                                                       *)
ChkptCallbacksFail(p) ==
  /\ At(p, "callbacks") /\ HasCallbacks
  /\ \/ /\ CallbacksMayFail
        /\ \E removed \in BOOLEAN : app' = [app EXCEPT !.answer = @ /\ ~removed]
     \/ ck[p].interrupted /\ app' = [app EXCEPT !.answer = TRUE]
  /\ Exit(p, "fail")
  /\ UNCHANGED <<image, appDir>>

FreezeCall(p) ==
  /\ At(p, "freeze")
  /\ \/ /\ application_freeze(p)
        /\ IF ck[p].action = "ALL" THEN Goto(p, "checkpoint_app") ELSE Exit(p, "ok")
     \/ application_freeze_fails /\ Exit(p, "fail")

-----------------------------------------------------------------------------
(* checkpoint_app, and freeze_checkpoint_unfreeze around it: a failed      *)
(* checkpoint is followed by an unfreeze without any signal.               *)

(* Mutant: the signal of -k is sent after a failed checkpoint too.         *)
ReturnKeepsSignal(p, r, sn) ==
  /\ ck' = [ck EXCEPT ![p] =
       IF ck[p].action # "ALL" THEN Ended(p, r, sn)
       ELSE [ck[p] EXCEPT !.pc = "unfreeze_app", !.r = r, !.sn = sn]]
  /\ UNCHANGED signalsLeft

(* Mutant: a failed checkpoint ends the run like a failed freeze.          *)
ReturnWithoutUnfreeze(p, r, sn) ==
  /\ ck' = [ck EXCEPT ![p] =
       IF ck[p].action # "ALL" \/ r = "fail" THEN Ended(p, r, sn)
       ELSE [ck[p] EXCEPT !.pc = "unfreeze_app", !.r = r, !.sn = sn]]
  /\ UNCHANGED signalsLeft

CheckpointReturns(p, r, sn) ==
  /\ IF ck[p].action # "ALL"
     THEN ck' = [ck EXCEPT ![p] = Ended(p, r, sn)]
     ELSE ck' = [ck EXCEPT ![p] =
            [ck[p] EXCEPT !.pc = "unfreeze_app", !.r = r, !.sn = sn,
                          !.lethal = ck[p].lethal /\ r = "ok"]]
  /\ UNCHANGED signalsLeft

CheckpointInterrupted(p) ==
  /\ At(p, "checkpoint_app") /\ ck[p].interrupted
  /\ CheckpointReturns(p, "fail", 0)
  /\ UNCHANGED controlVars

(* Mutant: a failed checkpoint is not cleaned up.                          *)
CheckpointNoClean(p) ==
  /\ At(p, "checkpoint_app") /\ ~ck[p].interrupted
  /\ \/ \E v \in Versions, state \in {"image", "partial"} :
          /\ application_checkpoint(v, state)
          /\ IF state = "image"
             THEN /\ ck' = [ck EXCEPT ![p].sn = v, ![p].pc = "write_description"]
                  /\ UNCHANGED signalsLeft
             ELSE CheckpointReturns(p, "fail", v)
     \/ application_checkpoint_fails /\ CheckpointReturns(p, "fail", 0)

CheckpointCall(p) ==
  /\ At(p, "checkpoint_app") /\ ~ck[p].interrupted
  /\ \/ \E v \in Versions, state \in {"image", "partial"} :
          /\ application_checkpoint(v, state)
          /\ ck' = [ck EXCEPT ![p].sn = v, ![p].pc =
                      IF state = "image" THEN "write_description" ELSE "clean"]
          /\ UNCHANGED signalsLeft
     \/ application_checkpoint_fails /\ CheckpointReturns(p, "fail", 0)

(* Mutant: a description that cannot be written fails the checkpoint.      *)
DescriptionFailureCleans(p) ==
  /\ At(p, "write_description")
  /\ \/ /\ image' = [image EXCEPT ![ck[p].sn].described = TRUE]
        /\ CheckpointReturns(p, "ok", ck[p].sn)
     \/ UNCHANGED image /\ Goto(p, "clean")
  /\ UNCHANGED <<app, appDir>>

(* Its result is not looked at. *)
write_description(p) ==
  /\ At(p, "write_description")
  /\ \E opened \in BOOLEAN :
       image' = [image EXCEPT ![ck[p].sn].described = @ \/ opened]
  /\ CheckpointReturns(p, "ok", ck[p].sn)
  /\ UNCHANGED <<app, appDir>>

(* clean_checkpoint_dir: the regular files, the version, the application's *)
(* directory if it is empty.  It returns when a directory cannot be        *)
(* opened, and goes on over what cannot be removed or is of unknown type.  *)
Refused(v) == image' = [image EXCEPT ![v].refused = TRUE]

CleanFiles(p) ==
  /\ At(p, "clean")
  /\ \/ /\ image' = [image EXCEPT ![ck[p].sn].state = "empty"]
        /\ Goto(p, "rmdir")
     \/ CleanMayFail /\ Refused(ck[p].sn) /\ Goto(p, "rmdir")
     \/ CleanMayFail /\ Refused(ck[p].sn) /\ CheckpointReturns(p, "fail", ck[p].sn)
  /\ UNCHANGED <<app, appDir>>

CleanVersion(p) ==
  /\ At(p, "rmdir")
  /\ \/ /\ image' = IF image[ck[p].sn].state = "empty"
                    THEN [image EXCEPT ![ck[p].sn] = NoImage] ELSE image
     \/ CleanMayFail /\ Refused(ck[p].sn)
  /\ Goto(p, "rmapp")
  /\ UNCHANGED <<app, appDir>>

CleanApp(p) ==
  /\ At(p, "rmapp")
  /\ appDir' = (appDir /\ \E v \in Versions : image[v].state # "absent")
  /\ CheckpointReturns(p, "fail", ck[p].sn)
  /\ UNCHANGED <<app, image>>

-----------------------------------------------------------------------------
(* unfreeze_app: an interruption is ignored in a complete run only.        *)

(* Mutant: an interruption is never ignored.                               *)
UnfreezeInterrupted(p) ==
  /\ At(p, "unfreeze_app")
  /\ IF ck[p].interrupted THEN Exit(p, "fail")
     ELSE Goto(p, IF ck[p].noCallbacks THEN "unfreeze" ELSE "continue")
  /\ UNCHANGED controlVars

unfreeze_app(p) ==
  /\ At(p, "unfreeze_app")
  /\ IF ck[p].interrupted /\ ck[p].action # "ALL" THEN Exit(p, "fail")
     ELSE Goto(p, IF ck[p].noCallbacks THEN "unfreeze" ELSE "continue")
  /\ UNCHANGED controlVars

UnfreezeFails(p) ==
  /\ ck' = [ck EXCEPT ![p] = [Ended(p, "fail", ck[p].sn) EXCEPT !.failedUnfreeze = TRUE]]
  /\ UNCHANGED signalsLeft

(* cr_execute_continue_callbacks queues its signal, for the application to *)
(* handle once it runs again, or fails.                                    *)
ContinueCallbacks(p) ==
  /\ At(p, "continue")
  /\ \/ Goto(p, "unfreeze")
     \/ ContinueMayFail /\ HasCallbacks /\ UnfreezeFails(p)
  /\ UNCHANGED controlVars

(* Mutant: the result of the unfreeze replaces that of the checkpoint.     *)
UnfreezeResultWins(p) ==
  /\ At(p, "unfreeze")
  /\ \/ application_unfreeze(ck[p].lethal) /\ Exit(p, "ok")
     \/ application_unfreeze_fails /\ UnfreezeFails(p)

UnfreezeCall(p) ==
  /\ At(p, "unfreeze")
  /\ \/ application_unfreeze(ck[p].lethal) /\ Exit(p, ck[p].r)
     \/ application_unfreeze_fails /\ UnfreezeFails(p)

-----------------------------------------------------------------------------
CkStep(p) ==
  \/ freeze_app(p) \/ ChkptCallbacks(p) \/ ChkptCallbacksFail(p) \/ FreezeCall(p)
  \/ CheckpointInterrupted(p) \/ CheckpointCall(p) \/ write_description(p)
  \/ CleanFiles(p) \/ CleanVersion(p) \/ CleanApp(p)
  \/ unfreeze_app(p) \/ ContinueCallbacks(p) \/ UnfreezeCall(p)

CkState == [pc : {"idle", "freeze_app", "callbacks", "freeze", "checkpoint_app",
                  "write_description", "clean", "rmdir", "rmapp", "unfreeze_app",
                  "continue", "unfreeze", "done", "killed"},
            action : {"CHECKPOINT", "FREEZE", "UNFREEZE", "ALL"},
            noCallbacks : BOOLEAN, lethal : BOOLEAN, interrupted : BOOLEAN,
            r : {"ok", "fail"}, sn : Versions \cup {0}, failedUnfreeze : BOOLEAN]

CkTypeOK == ck \in [Procs -> CkState] /\ signalsLeft \in Nat
=============================================================================
