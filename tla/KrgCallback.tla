---------------------------- MODULE KrgCallback ----------------------------
(***************************************************************************)
(* The checkpoint/restart callback protocol of libkrgcb.                   *)
(*                                                                         *)
(* An application registers callbacks for three hooks and for one of two   *)
(* contexts: the signal handler itself, or a worker thread the handler     *)
(* wakes by unlocking a mutex.  The checkpoint tool runs them with         *)
(* cr_execute_chkpt_callbacks: it creates a message queue keyed by the     *)
(* pid, sends a signal, waits for one message, removes the queue, and only *)
(* then freezes the application; cr_execute_continue_callbacks (or, for a  *)
(* restarted image, cr_execute_restart_callbacks) is called just before    *)
(* the application is unfrozen.  Signals, mutex, message queue, userdata   *)
(* and freezing are the kernel's.                                          *)
(***************************************************************************)
EXTENDS Naturals, Sequences, FiniteSets

CONSTANTS
  Tools,              \* processes that call cr_execute_*_callbacks
  Workers,            \* identities pthread_create may give a worker thread
  MaxCallbacks,       \* CR_CB_MAX_CALLBACKS (40 in the code)
  MaxApiCalls,        \* bound: calls of the library by the application
  MaxSessions,        \* bound: freeze/resume sessions, over all tools
  MaxInterrupts,      \* bound: SIGINT/SIGTERM received in msgrcv
  SignalCbMayFail,    \* may a signal-context callback return non-zero?
  ThreadCbMayFail,    \* may a thread-context callback return non-zero?
  MayExit,            \* may the application call cr_callback_exit, or die?
  CallsMayFail,       \* may msgget(IPC_CREAT), pthread_create, init fail?
  WaitForWorker       \* is a session only started on a quiescent library?

ASSUME CallbackAssumption ==
  /\ MaxCallbacks \in Nat /\ MaxApiCalls \in Nat
  /\ MaxSessions \in Nat /\ MaxInterrupts \in Nat
  /\ SignalCbMayFail \in BOOLEAN /\ ThreadCbMayFail \in BOOLEAN
  /\ MayExit \in BOOLEAN /\ CallsMayFail \in BOOLEAN
  /\ WaitForWorker \in BOOLEAN
  /\ "main" \notin Workers

Hooks    == {"chkpt", "rst", "cnt"}
Contexts == {"signal", "thread"}
Threads  == {"main"} \cup Workers

(* Two kinds of activity run callbacks: the handler, on any thread the     *)
(* kernel interrupts, and the loop of a worker thread.                     *)
Activities == ({"handler"} \X Threads) \cup ({"loop"} \X Workers)

VARIABLES
  info,           \* NULL, or for each hook the contexts of its callbacks
  threadRunning,  \* thread_running
  currentHook,    \* current_hook ("none" until the first signal)
  mutexLocked,    \* mutex
  main,           \* where the application's main thread is in the library
  frame,          \* for each activity, its run of run_callbacks
  alive, frozen,  \* the application process
  udata,          \* CR_CB_ACTIV_CB in the application's userdata
  pending,        \* queued real-time signals, by hook
  queue,          \* the message queue whose key is the application's pid
  tool,           \* for each tool, its session
  apiLeft, sessionsLeft, interruptsLeft,
  due,            \* history: callbacks a tool's last signal asks for
  disturbed,      \* history: was it not the only thing the library did?
  abandoned,      \* history: has a call returned without removing the queue?
  exited          \* history: has the library ever reset thread_running?

libVars  == <<info, threadRunning, currentHook, mutexLocked>>
appVars  == <<libVars, main, frame>>
kernVars == <<alive, frozen, udata, pending, queue>>
bounds   == <<apiLeft, sessionsLeft, interruptsLeft>>
history  == <<due, disturbed, abandoned, exited>>
vars     == <<appVars, kernVars, tool, bounds, history>>

NULL     == [h \in {} |-> <<>>]
NoQueue  == [exists |-> FALSE, msgs |-> <<>>]
IdleFrame == [pc |-> "off", table |-> "none", src |-> "live", kept |-> <<>>,
              idx |-> 1, failed |-> FALSE]
IdleTool == [pc |-> "idle", valid |-> FALSE, mtype |-> "none",
             detected |-> FALSE]

Init ==
  /\ info = NULL /\ threadRunning = FALSE
  /\ currentHook = "none" /\ mutexLocked = FALSE
  /\ main = [pc |-> "app", hook |-> "none"]
  /\ frame = [a \in Activities |-> IdleFrame]
  /\ alive = TRUE /\ frozen = FALSE /\ udata = FALSE
  /\ pending = [h \in Hooks |-> 0] /\ queue = NoQueue
  /\ tool = [t \in Tools |-> IdleTool]
  /\ apiLeft = MaxApiCalls /\ sessionsLeft = MaxSessions
  /\ interruptsLeft = MaxInterrupts
  /\ due = [t \in Tools |-> {}] /\ disturbed = [t \in Tools |-> FALSE]
  /\ abandoned = FALSE /\ exited = FALSE

-----------------------------------------------------------------------------
(* The application process: threads, and the exit(EXIT_FAILURE) of         *)
(* CR_CB_ABORT, which ends all of them.                                    *)

Running(a) ==
  /\ alive /\ ~frozen
  /\ a[1] = "loop" => frame[<<"handler", a[2]>>].pc = "off"

MainRunning == alive /\ ~frozen /\ frame[<<"handler", "main">>].pc = "off"

CR_CB_ABORT ==
  /\ alive' = FALSE
  /\ UNCHANGED <<appVars, frozen, udata, pending, queue, tool, bounds, history>>

SetFrame(a, f) == frame' = [frame EXCEPT ![a] = f]

(* What a frame in the middle of a table keeps when info is replaced: a    *)
(* leaked table stays readable, a freed one does not.                      *)
Detach(how) ==
  [a \in Activities |->
     IF frame[a].pc = "run" /\ frame[a].src = "live"
     THEN [frame[a] EXCEPT !.src = how,
             !.kept = IF how = "leaked" THEN info[frame[a].table] ELSE <<>>]
     ELSE frame[a]]

-----------------------------------------------------------------------------
(* The library's interface, called by the application's main thread.       *)

ApiCall == MainRunning /\ main.pc = "app" /\ apiLeft > 0 /\ apiLeft' = apiLeft - 1

(* The tables a signal in progress refers to are replaced.                 *)
Disturb == disturbed' = [t \in Tools |-> TRUE] /\ UNCHANGED <<due, abandoned>>

free_info_memory ==
  /\ info' = NULL /\ threadRunning' = FALSE
  /\ frame' = IF info = NULL THEN frame ELSE Detach("freed")
  /\ Disturb /\ exited' = (exited \/ threadRunning)

cr_callback_init ==
  /\ ApiCall
  /\ info' = [h \in Hooks |-> <<>>]
  /\ frame' = IF info = NULL THEN frame ELSE Detach("leaked")
  /\ udata' = TRUE
  /\ Disturb
  /\ UNCHANGED <<exited, threadRunning, currentHook, mutexLocked, main, alive, frozen,
                 pending, queue, tool, sessionsLeft, interruptsLeft>>

(* initialize_cb_info has overwritten info before any of the calls fails.  *)
cr_callback_init_fails ==
  /\ CallsMayFail /\ ApiCall
  /\ info' = NULL /\ threadRunning' = FALSE
  /\ frame' = IF info = NULL THEN frame ELSE Detach("leaked")
  /\ Disturb /\ exited' = (exited \/ threadRunning)
  /\ UNCHANGED <<currentHook, mutexLocked, main, kernVars, tool,
                 sessionsLeft, interruptsLeft>>

cr_callback_exit ==
  /\ MayExit /\ ApiCall /\ info # NULL
  /\ free_info_memory
  /\ UNCHANGED <<currentHook, mutexLocked, main, kernVars, tool, sessionsLeft,
                 interruptsLeft>>

(* cr_callback_exit and register_callback end a process without info.      *)
CalledWithoutInit ==
  /\ MayExit /\ MainRunning /\ main.pc = "app" /\ apiLeft > 0 /\ info = NULL
  /\ CR_CB_ABORT

(* Mutant: one callback more than the tables have room for.                *)
AddOneMore(hook, context) ==
  info' = IF Len(info[hook]) <= MaxCallbacks
          THEN [info EXCEPT ![hook] = Append(@, context)] ELSE info

(* The table entry register_callback writes; -1, and no change, at the     *)
(* limit.                                                                  *)
AddCallback(hook, context) ==
  info' = IF Len(info[hook]) < MaxCallbacks
          THEN [info EXCEPT ![hook] = Append(@, context)] ELSE info

(* Mutant: every thread-context callback starts a worker.                  *)
RegisterAlwaysCreates(hook, context) ==
  /\ ApiCall /\ info # NULL
  /\ IF context = "thread"
     THEN /\ main' = [pc |-> "lock", hook |-> hook] /\ UNCHANGED info
     ELSE /\ AddCallback(hook, context) /\ UNCHANGED main
  /\ UNCHANGED <<threadRunning, currentHook, mutexLocked, frame, kernVars,
                 tool, sessionsLeft, interruptsLeft, history>>

register_callback(hook, context) ==
  /\ ApiCall /\ info # NULL
  /\ IF context = "thread" /\ ~threadRunning
     THEN /\ main' = [pc |-> "lock", hook |-> hook] /\ UNCHANGED info
     ELSE /\ AddCallback(hook, context) /\ UNCHANGED main
  /\ UNCHANGED <<threadRunning, currentHook, mutexLocked, frame, kernVars,
                 tool, sessionsLeft, interruptsLeft, history>>

(* initialize_cb_thread: take the mutex, set thread_running, create.       *)
LockForWorker ==
  /\ MainRunning /\ main.pc = "lock" /\ ~mutexLocked
  /\ mutexLocked' = TRUE /\ threadRunning' = TRUE
  /\ main' = [main EXCEPT !.pc = "create"]
  /\ UNCHANGED <<info, currentHook, frame, kernVars, tool, bounds, history>>

CreateWorker(w) ==
  /\ MainRunning /\ main.pc = "create" /\ frame[<<"loop", w>>].pc = "off"
  /\ SetFrame(<<"loop", w>>, [IdleFrame EXCEPT !.pc = "start"])
  /\ AddCallback(main.hook, "thread")
  /\ main' = [pc |-> "app", hook |-> "none"]
  /\ UNCHANGED <<threadRunning, currentHook, mutexLocked, kernVars, tool,
                 bounds, history>>

CreateWorkerFails ==
  /\ CallsMayFail /\ MainRunning /\ main.pc = "create"
  /\ free_info_memory
  /\ main' = [pc |-> "app", hook |-> "none"]
  /\ UNCHANGED <<currentHook, mutexLocked, kernVars, tool, bounds>>

-----------------------------------------------------------------------------
(* run_callbacks, for the handler (signal context) and the worker.         *)

ContextOf(a) == IF a[1] = "handler" THEN "signal" ELSE "thread"
TableOf(f) == IF f.src = "live" THEN info[f.table] ELSE f.kept
MayFail(context) == IF context = "signal" THEN SignalCbMayFail ELSE ThreadCbMayFail

(* The callback at idx of hook has returned.  A failed continue or restart *)
(* callback ends that hook's run: nothing more is due for it.              *)
Discharge(hook, idx, ok) ==
  due' = [t \in Tools |->
            {d \in due[t] : ~ \/ ok /\ d = <<hook, idx>>
                              \/ ~ok /\ hook # "chkpt" /\ d[1] = hook}]

PickTable(a) ==
  /\ Running(a) /\ frame[a].pc = "pick" /\ info # NULL
  /\ SetFrame(a, IF currentHook = "none"
                 THEN [frame[a] EXCEPT !.pc = "report", !.failed = TRUE]
                 ELSE [IdleFrame EXCEPT !.pc = "run", !.table = currentHook])
  /\ UNCHANGED <<libVars, main, kernVars, tool, bounds, history>>

(* The loop's bound is read again, from current_hook, on every turn.       *)
MoreToRun(a) == frame[a].idx <= Len(info[currentHook])
HasEntry(a) == LET f == frame[a] IN
  f.idx <= Len(TableOf(f)) /\ TableOf(f)[f.idx] = ContextOf(a)

RunCallback(a) ==
  /\ Running(a) /\ frame[a].pc = "run" /\ info # NULL /\ MoreToRun(a)
  /\ frame[a].src # "freed" /\ HasEntry(a)
  /\ \E ok \in IF MayFail(ContextOf(a)) THEN BOOLEAN ELSE {TRUE} :
       /\ SetFrame(a, IF ok THEN [frame[a] EXCEPT !.idx = @ + 1]
                      ELSE [frame[a] EXCEPT !.pc = "report", !.failed = TRUE])
       /\ Discharge(frame[a].table, frame[a].idx, ok)
  /\ UNCHANGED <<libVars, main, kernVars, tool, bounds, disturbed, abandoned, exited>>

SkipEntry(a) ==
  /\ Running(a) /\ frame[a].pc = "run" /\ info # NULL /\ MoreToRun(a)
  /\ frame[a].src = "freed" \/ ~HasEntry(a)
  /\ SetFrame(a, [frame[a] EXCEPT !.idx = @ + 1])
  /\ UNCHANGED <<libVars, main, kernVars, tool, bounds, history>>

EndOfTable(a) ==
  /\ Running(a) /\ frame[a].pc = "run" /\ info # NULL /\ ~MoreToRun(a)
  /\ SetFrame(a, [frame[a] EXCEPT !.pc = "report"])
  /\ UNCHANGED <<libVars, main, kernVars, tool, bounds, history>>

(* info is NULL where the code tests it, or a freed table is called into.  *)
AbortedRun(a) ==
  /\ Running(a)
  /\ \/ info = NULL /\ frame[a].pc \in {"start", "pick", "run"}
     \/ info # NULL /\ frame[a].pc = "run" /\ frame[a].src = "freed" /\ MoreToRun(a)
  /\ CR_CB_ABORT

-----------------------------------------------------------------------------
(* handle_signal.  The signals 37, 38, 39 are real-time signals: queued,   *)
(* the lowest number delivered first, to any thread not in the handler     *)
(* (its mask blocks every signal).                                         *)

NextSignal == IF pending["chkpt"] > 0 THEN "chkpt"
              ELSE IF pending["rst"] > 0 THEN "rst" ELSE "cnt"

Deliver(th) ==
  /\ alive /\ ~frozen
  /\ th # "main" => frame[<<"loop", th>>].pc \notin {"off", "ended"}
  /\ frame[<<"handler", th>>].pc = "off"
  /\ pending[NextSignal] > 0 /\ info # NULL
  /\ pending' = [pending EXCEPT ![NextSignal] = @ - 1]
  /\ currentHook' = NextSignal
  /\ SetFrame(<<"handler", th>>, [IdleFrame EXCEPT !.pc = "pick"])
  /\ UNCHANGED <<info, threadRunning, mutexLocked, main, alive, frozen, udata,
                 queue, tool, bounds, history>>

DeliverAborts ==
  /\ alive /\ ~frozen /\ pending[NextSignal] > 0 /\ info = NULL
  /\ CR_CB_ABORT

(* msgget without IPC_CREAT: the message is lost when the queue is gone.   *)
send_message(m) ==
  queue' = IF queue.exists THEN [queue EXCEPT !.msgs = Append(@, m)] ELSE queue

(* Mutant: the handler answers although the worker has still to run.       *)
ReportBeforeWorker(th) == LET a == <<"handler", th>> IN
  /\ Running(a) /\ frame[a].pc = "report"
  /\ IF currentHook = "chkpt"
     THEN send_message(IF frame[a].failed THEN "err" ELSE "ok")
     ELSE UNCHANGED queue
  /\ SetFrame(a, [frame[a] EXCEPT !.pc = "wake"])
  /\ UNCHANGED <<libVars, main, alive, frozen, udata, pending, tool, bounds, history>>

HandlerReport(th) == LET a == <<"handler", th>> IN
  /\ Running(a) /\ frame[a].pc = "report"
  /\ IF currentHook = "chkpt" /\ (frame[a].failed \/ ~threadRunning)
     THEN send_message(IF frame[a].failed THEN "err" ELSE "ok")
     ELSE UNCHANGED queue
  /\ SetFrame(a, [frame[a] EXCEPT !.pc = "wake"])
  /\ UNCHANGED <<libVars, main, alive, frozen, udata, pending, tool, bounds, history>>

(* Mutant: the worker is only woken for a checkpoint.                      *)
WakeForCheckpointOnly(th) == LET a == <<"handler", th>> IN
  /\ Running(a) /\ frame[a].pc = "wake"
  /\ mutexLocked' = (mutexLocked /\ ~(threadRunning /\ currentHook = "chkpt"))
  /\ SetFrame(a, IdleFrame)
  /\ UNCHANGED <<info, threadRunning, currentHook, main, kernVars, tool,
                 bounds, history>>

HandlerWake(th) == LET a == <<"handler", th>> IN
  /\ Running(a) /\ frame[a].pc = "wake"
  /\ mutexLocked' = (mutexLocked /\ ~threadRunning)
  /\ SetFrame(a, IdleFrame)
  /\ UNCHANGED <<info, threadRunning, currentHook, main, kernVars, tool,
                 bounds, history>>

-----------------------------------------------------------------------------
(* worker_thread *)

WorkerStart(w) == LET a == <<"loop", w>> IN
  /\ Running(a) /\ frame[a].pc = "start" /\ info # NULL
  /\ SetFrame(a, [frame[a] EXCEPT !.pc = "test"])
  /\ UNCHANGED <<libVars, main, kernVars, tool, bounds, history>>

WorkerTest(w) == LET a == <<"loop", w>> IN
  /\ Running(a) /\ frame[a].pc = "test"
  /\ SetFrame(a, [IdleFrame EXCEPT !.pc = IF threadRunning THEN "lock" ELSE "ended"])
  /\ UNCHANGED <<libVars, main, kernVars, tool, bounds, history>>

WorkerLock(w) == LET a == <<"loop", w>> IN
  /\ Running(a) /\ frame[a].pc = "lock" /\ ~mutexLocked
  /\ mutexLocked' = TRUE
  /\ SetFrame(a, [frame[a] EXCEPT !.pc = "pick"])
  /\ UNCHANGED <<info, threadRunning, currentHook, main, kernVars, tool,
                 bounds, history>>

(* Mutant: a failed thread callback is not reported.                       *)
WorkerReportsSuccessOnly(w) == LET a == <<"loop", w>> IN
  /\ Running(a) /\ frame[a].pc = "report"
  /\ IF currentHook = "chkpt" /\ ~frame[a].failed
     THEN send_message("ok") ELSE UNCHANGED queue
  /\ SetFrame(a, [IdleFrame EXCEPT !.pc = "test"])
  /\ UNCHANGED <<libVars, main, alive, frozen, udata, pending, tool, bounds, history>>

WorkerReport(w) == LET a == <<"loop", w>> IN
  /\ Running(a) /\ frame[a].pc = "report"
  /\ IF currentHook = "chkpt"
     THEN send_message(IF frame[a].failed THEN "err" ELSE "ok")
     ELSE UNCHANGED queue
  /\ SetFrame(a, [IdleFrame EXCEPT !.pc = "test"])
  /\ UNCHANGED <<libVars, main, alive, frozen, udata, pending, tool, bounds, history>>

-----------------------------------------------------------------------------
(* The tool's side: cr_execute_chkpt_callbacks, the freeze that follows    *)
(* it, cr_execute_continue_callbacks or cr_execute_restart_callbacks, and  *)
(* the unfreeze.                                                           *)

SetTool(t, r) == tool' = [tool EXCEPT ![t] = r]

(* The library has nothing to do: no signal, handler or worker at work.    *)
Quiescent ==
  /\ \A h \in Hooks : pending[h] = 0
  /\ \A a \in Activities : /\ frame[a].pc \in {"off", "lock", "ended"}
                           /\ frame[a].pc = "lock" => mutexLocked
  /\ main.pc = "app" /\ (threadRunning => mutexLocked)

(* Whether a signal finds the library at rest, and no answer that may be   *)
(* mistaken for its own or be taken by another tool.  For every other tool *)
(* it comes between an earlier signal and its end.                         *)
Undisturbed(t) == /\ Quiescent /\ queue.msgs = <<>>
                  /\ \A u \in Tools \ {t} : tool[u].pc # "msgrcv"

Signal(t, hook) ==
  /\ pending' = [pending EXCEPT ![hook] = @ + 1]
  /\ due' = [due EXCEPT ![t] =
       IF info = NULL THEN {} ELSE {hook} \X (1 .. Len(info[hook]))]
  /\ disturbed' = [u \in Tools |->
       u # t \/ (hook = "chkpt" /\ ~Undisturbed(t))]
  /\ UNCHANGED <<abandoned, exited>>

(* Without userdata, or without an application, there is nothing to run.   *)
cr_detect_callbacks(t) ==
  /\ tool[t].pc = "idle" /\ sessionsLeft > 0
  /\ WaitForWorker => Quiescent
  /\ sessionsLeft' = sessionsLeft - 1
  /\ SetTool(t, IF alive /\ udata
                THEN [IdleTool EXCEPT !.pc = "msgget", !.detected = TRUE]
                ELSE [IdleTool EXCEPT !.pc = "freeze"])
  /\ UNCHANGED <<appVars, kernVars, apiLeft, interruptsLeft, history>>

SessionFails(t) ==
  /\ SetTool(t, IdleTool) /\ due' = [due EXCEPT ![t] = {}]
  /\ UNCHANGED <<disturbed, exited>>

ToolMsgget(t) ==
  /\ tool[t].pc = "msgget"
  /\ queue' = [queue EXCEPT !.exists = TRUE]
  /\ SetTool(t, [tool[t] EXCEPT !.pc = "kill", !.valid = TRUE])
  /\ UNCHANGED <<appVars, alive, frozen, udata, pending, bounds, history>>

ToolMsggetFails(t) ==
  /\ CallsMayFail /\ tool[t].pc = "msgget"
  /\ SessionFails(t)
  /\ UNCHANGED <<appVars, kernVars, bounds, abandoned>>

ToolKill(t) ==
  /\ tool[t].pc = "kill" /\ alive
  /\ Signal(t, "chkpt")
  /\ SetTool(t, [tool[t] EXCEPT !.pc = "msgrcv"])
  /\ UNCHANGED <<appVars, alive, frozen, udata, queue, bounds>>

(* The process is gone, or is not the caller's.  The error path leaves the *)
(* queue behind.                                                           *)
ToolKillFails(t) ==
  /\ tool[t].pc = "kill" /\ (~alive \/ CallsMayFail)
  /\ SessionFails(t) /\ abandoned' = TRUE
  /\ UNCHANGED <<appVars, kernVars, bounds>>

ToolMsgrcv(t) ==
  /\ tool[t].pc = "msgrcv" /\ tool[t].valid /\ queue.msgs # <<>>
  /\ queue' = [queue EXCEPT !.msgs = Tail(@)]
  /\ SetTool(t, [tool[t] EXCEPT !.pc = "rmid", !.mtype = Head(queue.msgs)])
  /\ UNCHANGED <<appVars, alive, frozen, udata, pending, bounds, history>>

(* EIDRM: another tool has removed the queue both were using.              *)
ToolMsgrcvRemoved(t) ==
  /\ tool[t].pc = "msgrcv" /\ ~tool[t].valid
  /\ SessionFails(t)
  /\ UNCHANGED <<appVars, kernVars, bounds, abandoned>>

(* EINTR: the tool's signal handler has run; the queue is left behind.     *)
ToolInterrupted(t) ==
  /\ tool[t].pc = "msgrcv" /\ tool[t].valid /\ interruptsLeft > 0
  /\ interruptsLeft' = interruptsLeft - 1
  /\ SessionFails(t) /\ abandoned' = TRUE
  /\ UNCHANGED <<appVars, kernVars, apiLeft, sessionsLeft>>

(* Mutant: an error message is returned before the queue is removed.       *)
RmidOnSuccessOnly(t) ==
  /\ tool[t].pc = "rmid" /\ tool[t].valid
  /\ queue' = IF tool[t].mtype = "err" THEN queue ELSE NoQueue
  /\ SetTool(t, IF tool[t].mtype = "err" THEN IdleTool
                ELSE [tool[t] EXCEPT !.pc = "freeze", !.valid = FALSE])
  /\ due' = IF tool[t].mtype = "err" THEN [due EXCEPT ![t] = {}] ELSE due
  /\ UNCHANGED <<appVars, alive, frozen, udata, pending, bounds, disturbed, abandoned, exited>>

(* Removing the queue invalidates its identifier for every tool.           *)
ToolRmid(t) ==
  /\ tool[t].pc = "rmid" /\ tool[t].valid
  /\ queue' = NoQueue
  /\ tool' = [u \in Tools |->
       IF u = t /\ tool[t].mtype = "err" THEN IdleTool
       ELSE IF u = t THEN [tool[t] EXCEPT !.pc = "freeze", !.valid = FALSE]
       ELSE [tool[u] EXCEPT !.valid = FALSE]]
  /\ due' = IF tool[t].mtype = "err" THEN [due EXCEPT ![t] = {}] ELSE due
  /\ abandoned' = FALSE
  /\ UNCHANGED <<appVars, alive, frozen, udata, pending, bounds, disturbed, exited>>

ToolRmidFails(t) ==
  /\ tool[t].pc = "rmid" /\ ~tool[t].valid
  /\ SessionFails(t)
  /\ UNCHANGED <<appVars, kernVars, bounds, abandoned>>

ToolFreeze(t) ==
  /\ tool[t].pc = "freeze" /\ alive /\ ~frozen
  /\ frozen' = TRUE
  /\ SetTool(t, [IdleTool EXCEPT !.pc = "resume"])
  /\ UNCHANGED <<appVars, alive, udata, pending, queue, bounds, history>>

ToolFreezeFails(t) ==
  /\ tool[t].pc = "freeze" /\ (~alive \/ frozen)
  /\ SessionFails(t)
  /\ UNCHANGED <<appVars, kernVars, bounds, abandoned>>

(* The continue hook; or the restart hook, when the frozen application is  *)
(* an image restarted in the state it was checkpointed in.                 *)
ToolResume(t, hook) ==
  /\ tool[t].pc = "resume"
  /\ IF udata THEN Signal(t, hook) ELSE UNCHANGED <<pending, history>>
  /\ SetTool(t, [tool[t] EXCEPT !.pc = "unfreeze"])
  /\ UNCHANGED <<appVars, alive, frozen, udata, queue, bounds>>

(* A kill that fails: the application stays frozen.                        *)
ToolResumeFails(t) ==
  /\ CallsMayFail /\ tool[t].pc = "resume" /\ udata
  /\ SessionFails(t)
  /\ UNCHANGED <<appVars, kernVars, bounds, abandoned>>

ToolUnfreeze(t) ==
  /\ tool[t].pc = "unfreeze"
  /\ frozen' = FALSE
  /\ SetTool(t, IdleTool)
  /\ UNCHANGED <<appVars, alive, udata, pending, queue, bounds, history>>

AppDies ==
  /\ MayExit /\ MainRunning /\ main.pc = "app" /\ apiLeft > 0
  /\ CR_CB_ABORT

-----------------------------------------------------------------------------
AppStep ==
  \/ LockForWorker
  \/ \E w \in Workers : CreateWorker(w) \/ WorkerStart(w) \/ WorkerTest(w)
                        \/ WorkerLock(w) \/ WorkerReport(w)
  \/ \E a \in Activities : PickTable(a) \/ RunCallback(a) \/ SkipEntry(a)
                           \/ EndOfTable(a) \/ AbortedRun(a)
  \/ \E th \in Threads : Deliver(th) \/ HandlerReport(th) \/ HandlerWake(th)
  \/ DeliverAborts

ApiStep ==
  \/ cr_callback_init \/ cr_callback_init_fails \/ cr_callback_exit
  \/ \E hook \in Hooks, context \in Contexts : register_callback(hook, context)
  \/ CalledWithoutInit \/ CreateWorkerFails \/ AppDies

ToolStep(t) ==
  \/ ToolMsgget(t) \/ ToolMsggetFails(t) \/ ToolKill(t) \/ ToolKillFails(t)
  \/ ToolMsgrcv(t) \/ ToolMsgrcvRemoved(t)
  \/ ToolRmid(t) \/ ToolRmidFails(t)
  \/ ToolFreeze(t) \/ ToolFreezeFails(t)
  \/ ToolUnfreeze(t)

Next ==
  \/ AppStep \/ ApiStep
  \/ \E t \in Tools : ToolStep(t) \/ cr_detect_callbacks(t) \/ ToolInterrupted(t)
                      \/ ToolResumeFails(t)
                      \/ \E hook \in {"cnt", "rst"} : ToolResume(t, hook)

Spec == Init /\ [][Next]_vars

(* A thread that can run does; a queued signal is delivered; a tool goes   *)
(* on.  Calling the library, starting a session, resuming a frozen         *)
(* application and interrupting a tool are the users' choices.             *)
ActivityStep(a) ==
  \/ PickTable(a) \/ RunCallback(a) \/ SkipEntry(a) \/ EndOfTable(a)
  \/ a[1] = "handler" /\ (HandlerReport(a[2]) \/ HandlerWake(a[2]))
  \/ a[1] = "loop" /\ (WorkerStart(a[2]) \/ WorkerTest(a[2])
                        \/ WorkerLock(a[2]) \/ WorkerReport(a[2]))

Fairness ==
  /\ \A a \in Activities : WF_vars(ActivityStep(a))
  /\ WF_vars(\E th \in Threads : Deliver(th))
  /\ WF_vars(LockForWorker \/ \E w \in Workers : CreateWorker(w))
  /\ \A t \in Tools : WF_vars(ToolStep(t))

FairSpec == Spec /\ Fairness

-----------------------------------------------------------------------------
Frame == [pc : {"off", "start", "test", "lock", "pick", "run", "report", "wake",
                "ended"},
          table : Hooks \cup {"none"}, src : {"live", "leaked", "freed"},
          kept : Seq(Contexts), idx : Nat \ {0}, failed : BOOLEAN]

ToolState == [pc : {"idle", "msgget", "kill", "msgrcv", "rmid", "freeze",
                    "resume", "unfreeze"},
              valid : BOOLEAN, mtype : {"none", "ok", "err"}, detected : BOOLEAN]

(* Every variable keeps the type of the C object it stands for, and no     *)
(* table holds more callbacks than it has room for.                        *)
TypeOK ==
  /\ info \in [Hooks -> Seq(Contexts)] \cup {NULL}
  /\ info # NULL => \A h \in Hooks : Len(info[h]) <= MaxCallbacks
  /\ threadRunning \in BOOLEAN /\ mutexLocked \in BOOLEAN
  /\ currentHook \in Hooks \cup {"none"}
  /\ main \in [pc : {"app", "lock", "create"}, hook : Hooks \cup {"none"}]
  /\ frame \in [Activities -> Frame]
  /\ alive \in BOOLEAN /\ frozen \in BOOLEAN /\ udata \in BOOLEAN
  /\ pending \in [Hooks -> Nat]
  /\ queue \in [exists : BOOLEAN, msgs : Seq({"ok", "err"})]
  /\ tool \in [Tools -> ToolState]
  /\ apiLeft \in Nat /\ sessionsLeft \in Nat /\ interruptsLeft \in Nat
  /\ due \in [Tools -> SUBSET (Hooks \X Nat)]
  /\ disturbed \in [Tools -> BOOLEAN]
  /\ abandoned \in BOOLEAN /\ exited \in BOOLEAN

(* cr_execute_chkpt_callbacks returns 0 only when every checkpoint         *)
(* callback registered at the time of its signal has run, since that       *)
(* signal, and returned 0, in whatever context, and whatever else the      *)
(* application registers meanwhile; unless the call's signal found the     *)
(* library at work, an earlier call's answer unread or another call still  *)
(* waiting for its own, another tool has sent a signal since, or the       *)
(* application has replaced its tables.                                    *)
AckMeansPrepared ==
  \A t \in Tools : tool[t].pc = "freeze" /\ tool[t].detected /\ ~disturbed[t] =>
    due[t] = {}

(* The message queue keyed by the pid outlives the calls that use it only  *)
(* when one of them was interrupted in msgrcv, or its kill failed, and no  *)
(* call has removed it since.                                              *)
NoOrphanQueue ==
  queue.exists =>
    \/ abandoned
    \/ \E t \in Tools : tool[t].valid /\ tool[t].pc \in {"kill", "msgrcv", "rmid"}

(* The registration of the first thread-context callback finds the mutex   *)
(* that initialize_cb_thread takes locked, for good, only when the library *)
(* has forgotten a worker thread it had started or tried to start.         *)
RegisterLocks == main.pc = "lock" /\ mutexLocked => exited

(* A tool blocked in msgrcv is answered: callbacks that fail, in either    *)
(* context, still make the handler or the worker send a message.           *)
ToolAnswered ==
  \A t \in Tools : tool[t].pc = "msgrcv" ~> tool[t].pc # "msgrcv"

(* The continue or restart callbacks that the tool asks for, without       *)
(* waiting, before it unfreezes the application do run: neither the        *)
(* signal nor the wake-up of the worker is lost, unless the application    *)
(* replaces its tables meanwhile.                                          *)
ResumeCallbacksRun ==
  \A t \in Tools : tool[t].pc = "unfreeze" ~> due[t] = {} \/ disturbed[t]

=============================================================================
