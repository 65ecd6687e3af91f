---------------------------- MODULE RestartTool ----------------------------
(***************************************************************************)
(* tools/restart.c: processes that restart the application from one of its *)
(* versions, run its restart callbacks and unfreeze it, and with -f wait   *)
(* for its end, relaying SIGINT and SIGTERM to it.                         *)
(***************************************************************************)
EXTENDS AppControl

CONSTANTS
  RestartCbMayFail,   \* may cr_execute_restart_callbacks fail?
  MaxRestartSignals   \* bound: signals sent to the restart processes

ASSUME RestartAssumption ==
  RestartCbMayFail \in BOOLEAN /\ MaxRestartSignals \in Nat

VARIABLES rs,           \* for each process, its options and where it is
          rSignalsLeft

rsVars == <<rs, rSignalsLeft>>

IdleRs == [pc |-> "idle", version |-> 0, noUnfreeze |-> FALSE,
           stdio |-> FALSE, foreground |-> FALSE, restartWait |-> FALSE,
           r |-> "ok"]

RsInit == rs = [q \in RProcs |-> IdleRs] /\ rSignalsLeft = MaxRestartSignals

RsActive(q) == rs[q].pc \notin {"idle", "done", "killed"}
RsGoto(q, pc) == rs' = [rs EXCEPT ![q].pc = pc] /\ UNCHANGED rSignalsLeft
RsEnded(q, r) == [IdleRs EXCEPT !.pc = "done", !.r = r,
                                !.noUnfreeze = rs[q].noUnfreeze]
RsExit(q, r) == rs' = [rs EXCEPT ![q] = RsEnded(q, r)] /\ UNCHANGED rSignalsLeft

(* parse_args up to its last test; -f implies -t.                          *)
RsStart(q) ==
  /\ rs[q].pc = "idle"
  /\ \E v \in Versions, nouf \in BOOLEAN, fg \in BOOLEAN, tty \in BOOLEAN :
       rs' = [rs EXCEPT ![q] = [IdleRs EXCEPT !.pc = "parse", !.version = v,
                !.noUnfreeze = nouf, !.stdio = fg \/ tty, !.foreground = fg]]
  /\ UNCHANGED <<rSignalsLeft, controlVars>>

(* The application's root is looked up in description.txt, and then its    *)
(* three standard files, which need not be there.                          *)
get_root_pid(q) == image[rs[q].version].described

replace_stdin_stdout_stderr(q) ==
  /\ rs[q].pc = "parse"
  /\ \/ (rs[q].stdio => get_root_pid(q)) /\ RsGoto(q, "restart")
     \/ rs[q].stdio /\ RsExit(q, "fail")
  /\ UNCHANGED controlVars

RestartCall(q) ==
  /\ rs[q].pc = "restart"
  /\ \/ application_restart(q, rs[q].version) /\ RsGoto(q, "callbacks")
     \/ application_restart_fails(rs[q].version) /\ RsExit(q, "fail")

(* Where main goes once the application is in the state it was asked for.  *)
(* action.sa_flags in wait_application_exits is never set: SA_RESTART may  *)
(* or may not be among the flags.                                          *)
Restarted(q) ==
  \/ ~rs[q].foreground /\ RsExit(q, "ok")
  \/ /\ rs[q].foreground
     /\ \E again \in BOOLEAN :
          rs' = [rs EXCEPT ![q] = [@ EXCEPT !.pc = "wait", !.restartWait = again]]
     /\ UNCHANGED rSignalsLeft

(* cr_execute_restart_callbacks queues its signal, for the application to  *)
(* handle once it runs, or fails.                                          *)
RestartCallbacks(q) ==
  /\ rs[q].pc = "callbacks"
  /\ \/ RestartCbMayFail /\ RsExit(q, "fail")
     \/ IF rs[q].noUnfreeze THEN Restarted(q) ELSE RsGoto(q, "unfreeze")
  /\ UNCHANGED controlVars

RsUnfreezeCall(q) ==
  /\ rs[q].pc = "unfreeze"
  /\ \/ application_unfreeze(FALSE) /\ Restarted(q)
     \/ application_unfreeze_fails /\ RsExit(q, "fail")

(* wait_application_exits *)
WaitReturns(q) ==
  /\ rs[q].pc = "wait" /\ app.status = "dead"
  /\ \E r \in {"ok", "fail"} : RsExit(q, r)
  /\ UNCHANGED controlVars

(* relay_signal: the application gets the signal, which may end it; wait   *)
(* returns -1, which is neither positive nor -EINTR, unless the kernel     *)
(* restarts it.                                                            *)
relay_signal(q) ==
  /\ rs[q].pc = "wait" /\ rSignalsLeft > 0
  /\ rSignalsLeft' = rSignalsLeft - 1
  /\ \/ UNCHANGED app
     \/ app.status = "running" /\ app' = [app EXCEPT !.status = "dead"]
  /\ rs' = IF rs[q].restartWait THEN rs
           ELSE [rs EXCEPT ![q] = RsEnded(q, "fail")]
  /\ UNCHANGED <<image, appDir>>

(* Before wait_application_exits a signal has its default effect.          *)
RsKilled(q) ==
  /\ RsActive(q) /\ rs[q].pc # "wait" /\ rSignalsLeft > 0
  /\ rSignalsLeft' = rSignalsLeft - 1
  /\ rs' = [rs EXCEPT ![q] = [IdleRs EXCEPT !.pc = "killed"]]
  /\ UNCHANGED controlVars

RsStep(q) == \/ replace_stdin_stdout_stderr(q) \/ RestartCall(q)
             \/ RestartCallbacks(q) \/ RsUnfreezeCall(q) \/ WaitReturns(q)

RsState == [pc : {"idle", "parse", "restart", "callbacks", "unfreeze", "wait",
                  "done", "killed"},
            version : Versions \cup {0}, noUnfreeze : BOOLEAN, stdio : BOOLEAN,
            foreground : BOOLEAN, restartWait : BOOLEAN, r : {"ok", "fail"}]

RsTypeOK == /\ rs \in [RProcs -> RsState] /\ rSignalsLeft \in Nat
            /\ \A q \in RProcs : rs[q].pc \in {"parse", "restart"} => rs[q].version # 0
=============================================================================
