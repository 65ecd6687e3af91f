------------------------- MODULE KrgCallback_proofs -------------------------
(***************************************************************************)
(* Theorems about the callback protocol, for every number of tools, worker *)
(* threads, callbacks, calls and sessions.                                 *)
(***************************************************************************)
EXTENDS KrgCallback, SequenceTheorems, TLAPS

(* The two kinds of activity.                                              *)
LEMMA Activity ==
  /\ \A th \in Threads : <<"handler", th>> \in Activities
  /\ \A w \in Workers : <<"loop", w>> \in Activities
  /\ \A th \in Threads, w \in Workers : <<"handler", th>> # <<"loop", w>>
  /\ \A th, o \in Threads : <<"handler", th>> = <<"handler", o>> => th = o
  /\ \A w, o \in Workers : <<"loop", w>> = <<"loop", o>> => w = o
  /\ \A a \in Activities : \/ \E th \in Threads : a = <<"handler", th>>
                           \/ \E w \in Workers : a = <<"loop", w>>
  /\ Workers \subseteq Threads /\ "main" \in Threads
<1>1. /\ \A th \in Threads : <<"handler", th>> \in Activities
      /\ \A w \in Workers : <<"loop", w>> \in Activities
      /\ Workers \subseteq Threads /\ "main" \in Threads
  BY DEF Activities, Threads
<1>2. \A th \in Threads, w \in Workers : <<"handler", th>> # <<"loop", w>>
  OBVIOUS
<1>3. /\ \A th, o \in Threads : <<"handler", th>> = <<"handler", o>> => th = o
      /\ \A w, o \in Workers : <<"loop", w>> = <<"loop", o>> => w = o
  OBVIOUS
<1>4. ASSUME NEW a \in Activities
      PROVE  \/ \E th \in Threads : a = <<"handler", th>>
             \/ \E w \in Workers : a = <<"loop", w>>
  BY DEF Activities
<1> QED BY <1>1, <1>2, <1>3, <1>4

(* A step that sets one frame.                                             *)
LEMMA FrameSet ==
  ASSUME frame \in [Activities -> Frame], NEW a \in Activities, NEW f, SetFrame(a, f)
  PROVE  /\ frame'[a] = f
         /\ \A b \in Activities \ {a} : frame'[b] = frame[b]
         /\ f \in Frame => frame' \in [Activities -> Frame]
BY DEF SetFrame

(* The frames a step leaves behind have their type.                        *)
LEMMA FrameTypes ==
  /\ IdleFrame \in Frame
  /\ \A pc \in {"off", "start", "test", "lock", "pick", "ended"} :
       [IdleFrame EXCEPT !.pc = pc] \in Frame
  /\ \A h \in Hooks : [IdleFrame EXCEPT !.pc = "run", !.table = h] \in Frame
  /\ \A f \in Frame :
       /\ \A pc \in {"test", "pick", "report", "wake"} : [f EXCEPT !.pc = pc] \in Frame
       /\ [f EXCEPT !.pc = "report", !.failed = TRUE] \in Frame
       /\ [f EXCEPT !.idx = @ + 1] \in Frame
<1>1. <<>> \in Seq(Contexts)
  OBVIOUS
<1>2. IdleFrame \in Frame
  BY <1>1 DEF IdleFrame, Frame
<1>3. ASSUME NEW f \in Frame
      PROVE  /\ \A pc \in {"off", "start", "test", "lock", "pick", "report", "wake", "ended"} :
                  [f EXCEPT !.pc = pc] \in Frame
             /\ [f EXCEPT !.pc = "report", !.failed = TRUE] \in Frame
             /\ [f EXCEPT !.idx = @ + 1] \in Frame
             /\ \A h \in Hooks : [f EXCEPT !.pc = "run", !.table = h] \in Frame
  <2>1. ASSUME NEW pc \in {"off", "start", "test", "lock", "pick", "report", "wake", "ended"}
        PROVE  [f EXCEPT !.pc = pc] \in Frame
    BY <1>3, <2>1 DEF Frame
  <2>2. [f EXCEPT !.pc = "report", !.failed = TRUE] \in Frame
    BY <1>3 DEF Frame
  <2>3. f.idx \in Nat \ {0}
    BY <1>3 DEF Frame
  <2>4. f.idx + 1 \in Nat \ {0}
    BY <2>3
  <2>5. [f EXCEPT !.idx = @ + 1] \in Frame
    BY <1>3, <2>4 DEF Frame
  <2>6. ASSUME NEW h \in Hooks
        PROVE  [f EXCEPT !.pc = "run", !.table = h] \in Frame
    BY <1>3, <2>6 DEF Frame
  <2> QED BY <2>1, <2>2, <2>5, <2>6
<1> QED BY <1>2, <1>3

(* What a step changes of a frame, and what it leaves.                     *)
LEMMA FrameFields ==
  ASSUME NEW f \in Frame
  PROVE  /\ \A pc : LET g == [f EXCEPT !.pc = pc] IN
              /\ g.pc = pc /\ g.table = f.table /\ g.src = f.src
              /\ g.idx = f.idx /\ g.failed = f.failed
         /\ LET g == [f EXCEPT !.pc = "report", !.failed = TRUE] IN
              /\ g.pc = "report" /\ g.table = f.table /\ g.failed = TRUE
         /\ LET g == [f EXCEPT !.idx = @ + 1] IN
              /\ g.pc = f.pc /\ g.table = f.table /\ g.src = f.src
              /\ g.idx = f.idx + 1
BY DEF Frame

(* The same for the value of pc alone.                                     *)
LEMMA FramePc ==
  ASSUME NEW f \in Frame, NEW pc \in {"test", "pick", "report", "wake"}
  PROVE  LET g == [f EXCEPT !.pc = pc] IN
         /\ g \in Frame /\ g.pc = pc /\ g.table = f.table /\ g.src = f.src
         /\ g.idx = f.idx /\ g.failed = f.failed
<1>1. [f EXCEPT !.pc = pc] \in Frame
  BY FrameTypes
<1> QED BY <1>1, FrameFields

(* Why a pointer is never followed where there is none: a thread that      *)
(* waits in initialize_cb_thread has tested info, and no other thread      *)
(* resets it; a run of the callbacks has chosen a table.                   *)
PointersInv ==
  /\ main.pc # "app" => info # NULL /\ main.hook \in Hooks
  /\ \A a \in Activities : frame[a].pc = "run" => frame[a].table \in Hooks
TypeInv == TypeOK /\ PointersInv

(* What the type of a function of the tools, or of the queue, needs.       *)
LEMMA ToolTypes ==
  /\ IdleTool \in ToolState
  /\ \A pc \in {"msgget", "freeze", "resume"}, d \in BOOLEAN :
       /\ [IdleTool EXCEPT !.pc = pc] \in ToolState
       /\ [IdleTool EXCEPT !.pc = pc, !.detected = d] \in ToolState
  /\ \A r \in ToolState, v \in BOOLEAN, m \in {"ok", "err"} :
       /\ \A pc \in {"kill", "msgrcv", "rmid", "freeze", "unfreeze"} :
            /\ [r EXCEPT !.pc = pc] \in ToolState
            /\ [r EXCEPT !.pc = pc, !.valid = v] \in ToolState
            /\ [r EXCEPT !.pc = pc, !.mtype = m] \in ToolState
       /\ [r EXCEPT !.valid = v] \in ToolState
<1>1. /\ IdleTool \in ToolState
      /\ \A pc \in {"msgget", "freeze", "resume"}, d \in BOOLEAN :
           /\ [IdleTool EXCEPT !.pc = pc] \in ToolState
           /\ [IdleTool EXCEPT !.pc = pc, !.detected = d] \in ToolState
  BY DEF IdleTool, ToolState
<1>2. ASSUME NEW r \in ToolState, NEW v \in BOOLEAN
      PROVE  [r EXCEPT !.valid = v] \in ToolState
  BY <1>2 DEF ToolState
<1>3. ASSUME NEW r \in ToolState, NEW v \in BOOLEAN, NEW m \in {"ok", "err"},
             NEW pc \in {"kill", "msgrcv", "rmid", "freeze", "unfreeze"}
      PROVE  /\ [r EXCEPT !.pc = pc] \in ToolState
             /\ [r EXCEPT !.pc = pc, !.valid = v] \in ToolState
             /\ [r EXCEPT !.pc = pc, !.mtype = m] \in ToolState
  BY <1>3 DEF ToolState
<1> QED BY <1>1, <1>2, <1>3

(* The initial state satisfies the type invariant.                         *)
LEMMA TypeInit == Init => TypeInv
<1> SUFFICES ASSUME Init PROVE TypeInv
  OBVIOUS
<1>1. <<>> \in Seq({"ok", "err"}) /\ NoQueue \in [exists : BOOLEAN, msgs : Seq({"ok", "err"})]
  BY DEF NoQueue
<1>2. frame \in [Activities -> Frame] /\ \A a \in Activities : frame[a].pc = "off"
  BY FrameTypes DEF Init, IdleFrame
<1>3. tool \in [Tools -> ToolState]
  BY ToolTypes DEF Init
<1>4. main \in [pc : {"app", "lock", "create"}, hook : Hooks \cup {"none"}] /\ main.pc = "app"
  BY DEF Init
<1>5. TypeOK
  BY <1>1, <1>2, <1>3, <1>4, CallbackAssumption DEF Init, TypeOK, Hooks
<1> QED BY <1>2, <1>4, <1>5 DEF TypeInv, PointersInv

(* A step that sets one frame keeps the facts about all of them.           *)
FramesInv == /\ frame \in [Activities -> Frame]
             /\ \A a \in Activities : frame[a].pc = "run" => frame[a].table \in Hooks
LEMMA FramesStep ==
  ASSUME FramesInv, NEW a \in Activities, NEW f \in Frame, SetFrame(a, f),
         f.pc = "run" => f.table \in Hooks
  PROVE  FramesInv'
BY FrameSet DEF FramesInv

(* Detach only changes where a run reads its table from.                   *)
LEMMA DetachStep ==
  ASSUME TypeInv, NEW how \in {"leaked", "freed"},
         frame' = IF info = NULL THEN frame ELSE Detach(how)
  PROVE  FramesInv' /\ \A a \in Activities : frame'[a].pc = frame[a].pc
<1>0. FramesInv
  BY DEF TypeInv, TypeOK, PointersInv, FramesInv
<1>1. CASE info = NULL
  BY <1>0, <1>1 DEF FramesInv
<1>2. CASE info # NULL
  <2>0. info \in [Hooks -> Seq(Contexts)]
    BY <1>2 DEF TypeInv, TypeOK
  <2>1. ASSUME NEW a \in Activities
        PROVE  /\ Detach(how)[a] \in Frame /\ Detach(how)[a].pc = frame[a].pc
               /\ Detach(how)[a].table = frame[a].table
    <3>0. frame[a] \in Frame /\ (frame[a].pc = "run" => frame[a].table \in Hooks)
      BY <1>0, <2>1 DEF FramesInv
    <3>1. <<>> \in Seq(Contexts)
      OBVIOUS
    <3>2. CASE frame[a].pc = "run" /\ frame[a].src = "live"
      <4> DEFINE k == IF how = "leaked" THEN info[frame[a].table] ELSE <<>>
      <4>1. Detach(how)[a] = [frame[a] EXCEPT !.src = how, !.kept = k]
        BY <2>1, <3>2 DEF Detach
      <4>2. k \in Seq(Contexts)
        BY <2>0, <3>0, <3>1, <3>2
      <4> HIDE DEF k
      <4> QED BY <3>0, <4>1, <4>2 DEF Frame
    <3>3. CASE ~(frame[a].pc = "run" /\ frame[a].src = "live")
      BY <2>1, <3>0, <3>3 DEF Detach
    <3> QED BY <3>2, <3>3
  <2>2. Detach(how) = [a \in Activities |-> Detach(how)[a]]
    BY DEF Detach
  <2>3. frame' = Detach(how)
    BY <1>2
  <2> HIDE DEF Detach
  <2>4. frame' \in [Activities -> Frame]
    BY <2>1, <2>2, <2>3
  <2>5. \A a \in Activities : frame'[a].pc = frame[a].pc /\ frame'[a].table = frame[a].table
    BY <2>1, <2>3
  <2> QED BY <1>0, <2>4, <2>5 DEF FramesInv
<1> QED BY <1>1, <1>2

(* The table entry that registration writes.                               *)
LEMMA AddType ==
  ASSUME info \in [Hooks -> Seq(Contexts)], NEW h \in Hooks, NEW c \in Contexts,
         AddCallback(h, c), \A k \in Hooks : Len(info[k]) <= MaxCallbacks
  PROVE  /\ info' \in [Hooks -> Seq(Contexts)] /\ info' # NULL
         /\ \A k \in Hooks : Len(info'[k]) <= MaxCallbacks
<1>1. Append(info[h], c) \in Seq(Contexts) /\ Len(Append(info[h], c)) = Len(info[h]) + 1
  BY AppendProperties
<1>2. info' \in [Hooks -> Seq(Contexts)]
  BY <1>1 DEF AddCallback
<1>3. \A n \in [Hooks -> Seq(Contexts)] : n # NULL
  BY DEF NULL, Hooks
<1>4. ASSUME NEW k \in Hooks PROVE Len(info'[k]) <= MaxCallbacks
  <2>0. MaxCallbacks \in Nat /\ Len(info[h]) \in Nat
    BY CallbackAssumption, LenProperties
  <2>1. CASE Len(info[h]) < MaxCallbacks /\ k = h
    <3>1. info'[k] = Append(info[h], c)
      BY <2>1 DEF AddCallback
    <3> QED BY <1>1, <2>0, <2>1, <3>1
  <2>2. CASE ~(Len(info[h]) < MaxCallbacks /\ k = h)
    <3>1. info'[k] = info[k]
      BY <2>2 DEF AddCallback
    <3> QED BY <3>1
  <2> QED BY <2>1, <2>2
<1> QED BY <1>2, <1>3, <1>4

(* A table of callbacks is not the null pointer.                           *)
LEMMA NullIsNoTable == \A n \in [Hooks -> Seq(Contexts)] : n # NULL
BY DEF NULL, Hooks

(* The end of the process leaves its memory as it is.                      *)
LEMMA AbortType ==
  ASSUME TypeOK, CR_CB_ABORT
  PROVE  TypeOK'
<1>1. /\ alive' = FALSE
      /\ UNCHANGED <<info, threadRunning, currentHook, mutexLocked, main, frame>>
      /\ UNCHANGED <<frozen, udata, pending, queue, tool>>
      /\ UNCHANGED <<apiLeft, sessionsLeft, interruptsLeft>>
      /\ UNCHANGED <<due, disturbed, abandoned, exited>>
  BY DEF CR_CB_ABORT, appVars, libVars, bounds, history
<1>2. /\ info' \in [Hooks -> Seq(Contexts)] \cup {NULL}
      /\ info' # NULL => \A h \in Hooks : Len(info'[h]) <= MaxCallbacks
  BY <1>1 DEF TypeOK
<1>3. /\ threadRunning' \in BOOLEAN /\ mutexLocked' \in BOOLEAN
      /\ currentHook' \in Hooks \cup {"none"}
      /\ main' \in [pc : {"app", "lock", "create"}, hook : Hooks \cup {"none"}]
      /\ frame' \in [Activities -> Frame]
  BY <1>1, Zenon DEF TypeOK
<1>4. /\ alive' \in BOOLEAN /\ frozen' \in BOOLEAN /\ udata' \in BOOLEAN
      /\ pending' \in [Hooks -> Nat]
      /\ queue' \in [exists : BOOLEAN, msgs : Seq({"ok", "err"})]
      /\ tool' \in [Tools -> ToolState]
      /\ apiLeft' \in Nat /\ sessionsLeft' \in Nat /\ interruptsLeft' \in Nat
  BY <1>1, Zenon DEF TypeOK
<1>5. /\ due' \in [Tools -> SUBSET (Hooks \X Nat)]
      /\ disturbed' \in [Tools -> BOOLEAN]
      /\ abandoned' \in BOOLEAN /\ exited' \in BOOLEAN
  BY <1>1, Zenon DEF TypeOK
<1> QED BY <1>2, <1>3, <1>4, <1>5, Zenon DEF TypeOK

(* The calls of the library.                                               *)
LEMMA ApiType ==
  ASSUME TypeInv, ApiStep
  PROVE  TypeInv'
<1>0. TypeOK /\ PointersInv /\ FramesInv
  BY DEF TypeInv, TypeOK, PointersInv, FramesInv
<1>a. /\ [h \in Hooks |-> <<>>] \in [Hooks -> Seq(Contexts)] /\ NULL \in {NULL}
      /\ \A h \in Hooks : Len([k \in Hooks |-> <<>>][h]) <= MaxCallbacks
  <2>1. Len(<<>>) = 0 /\ MaxCallbacks \in Nat
    BY CallbackAssumption
  <2> QED BY <2>1
<1>b. Disturb => due' = due /\ abandoned' = abandoned /\ disturbed' \in [Tools -> BOOLEAN]
  BY DEF Disturb
<1>e. exited' = (exited \/ threadRunning) => exited' \in BOOLEAN
  BY <1>0 DEF TypeOK
<1>c. ApiCall => apiLeft' \in Nat /\ main.pc = "app"
  BY <1>0 DEF ApiCall, TypeOK
<1>1. CASE cr_callback_init
  <2>1. FramesInv'
    BY <1>1, DetachStep DEF cr_callback_init
  <2>2. TypeOK'
    BY <1>0, <1>1, <1>a, <1>b, <1>c, <2>1 DEF cr_callback_init, TypeOK, FramesInv
  <2> QED BY <1>1, <1>c, <2>1, <2>2 DEF TypeInv, PointersInv, FramesInv, cr_callback_init
<1>2. CASE cr_callback_init_fails
  <2>1. FramesInv'
    BY <1>2, DetachStep DEF cr_callback_init_fails
  <2>2. TypeOK'
    BY <1>0, <1>2, <1>a, <1>b, <1>c, <1>e, <2>1 DEF cr_callback_init_fails, TypeOK, FramesInv, kernVars
  <2> QED BY <1>2, <1>c, <2>1, <2>2 DEF TypeInv, PointersInv, FramesInv, cr_callback_init_fails
<1>3. CASE cr_callback_exit
  <2>1. FramesInv'
    BY <1>3, DetachStep DEF cr_callback_exit, free_info_memory
  <2>2. TypeOK'
    BY <1>0, <1>3, <1>a, <1>b, <1>c, <1>e, <2>1 DEF cr_callback_exit, free_info_memory, TypeOK,
         FramesInv, kernVars
  <2> QED BY <1>3, <1>c, <2>1, <2>2 DEF TypeInv, PointersInv, FramesInv, cr_callback_exit
<1>4. ASSUME NEW h \in Hooks, NEW c \in Contexts, register_callback(h, c)
      PROVE  TypeInv'
  <2>0. /\ info \in [Hooks -> Seq(Contexts)] /\ info # NULL /\ main.pc = "app"
        /\ apiLeft' \in Nat /\ \A k \in Hooks : Len(info[k]) <= MaxCallbacks
    BY <1>0, <1>4, <1>c DEF register_callback, TypeOK
  <2>1. /\ info' \in [Hooks -> Seq(Contexts)] /\ info' # NULL
        /\ \A k \in Hooks : Len(info'[k]) <= MaxCallbacks
    <3>1. CASE info' = info
      BY <2>0, <3>1
    <3>2. CASE AddCallback(h, c)
      BY <1>4, <2>0, <3>2, AddType
    <3> QED BY <1>4, <3>1, <3>2 DEF register_callback
  <2>2. main' = main \/ main' = [pc |-> "lock", hook |-> h]
    BY <1>4 DEF register_callback
  <2>3. /\ main' \in [pc : {"app", "lock", "create"}, hook : Hooks \cup {"none"}]
        /\ main'.pc # "app" => main'.hook \in Hooks
    BY <1>0, <1>4, <2>0, <2>2 DEF TypeOK
  <2>4. UNCHANGED <<threadRunning, currentHook, mutexLocked, frame, kernVars, tool,
                    sessionsLeft, interruptsLeft, history>>
    BY <1>4 DEF register_callback
  <2>5. TypeOK'
    BY <1>0, <2>0, <2>1, <2>3, <2>4 DEF TypeOK, kernVars, history
  <2> QED BY <1>0, <2>1, <2>3, <2>4, <2>5 DEF TypeInv, PointersInv
<1>5. CASE CreateWorkerFails
  <2>1. FramesInv'
    BY <1>5, DetachStep DEF CreateWorkerFails, free_info_memory
  <2>2. main' \in [pc : {"app", "lock", "create"}, hook : Hooks \cup {"none"}] /\ main'.pc = "app"
    BY <1>5 DEF CreateWorkerFails
  <2>3. TypeOK'
    BY <1>0, <1>5, <1>a, <1>b, <1>e, <2>1, <2>2 DEF CreateWorkerFails, free_info_memory, TypeOK,
         FramesInv, kernVars, bounds
  <2> QED BY <2>1, <2>2, <2>3 DEF TypeInv, PointersInv, FramesInv
<1>6. CASE CalledWithoutInit \/ AppDies
  <2>1. CR_CB_ABORT
    BY <1>6 DEF CalledWithoutInit, AppDies
  <2>2. TypeOK'
    BY <1>0, <2>1, AbortType DEF TypeInv
  <2> QED BY <1>0, <2>1, <2>2 DEF TypeInv, PointersInv, CR_CB_ABORT, appVars, libVars
<1> QED BY <1>1, <1>2, <1>3, <1>4, <1>5, <1>6 DEF ApiStep

(* A message is appended to the queue, or lost.                            *)
HistoryType == /\ due \in [Tools -> SUBSET (Hooks \X Nat)]
               /\ disturbed \in [Tools -> BOOLEAN]
               /\ abandoned \in BOOLEAN /\ exited \in BOOLEAN
QueueType == queue \in [exists : BOOLEAN, msgs : Seq({"ok", "err"})]
LEMMA SendType ==
  ASSUME QueueType, NEW m \in {"ok", "err"}, send_message(m) \/ UNCHANGED queue
  PROVE  QueueType'
<1>1. Append(queue.msgs, m) \in Seq({"ok", "err"})
  BY AppendProperties DEF QueueType
<1> QED BY <1>1 DEF QueueType, send_message

(* A step that sets one frame and otherwise only changes variables whose   *)
(* type it keeps.                                                          *)
Elsewhere ==
  /\ threadRunning \in BOOLEAN /\ mutexLocked \in BOOLEAN
  /\ currentHook \in Hooks \cup {"none"}
  /\ pending \in [Hooks -> Nat] /\ QueueType
  /\ HistoryType
LEMMA FrameStepType ==
  ASSUME TypeInv, NEW a \in Activities, NEW f \in Frame, SetFrame(a, f),
         f.pc = "run" => f.table \in Hooks, Elsewhere',
         UNCHANGED <<info, main, alive, frozen, udata, tool, bounds>>
  PROVE  TypeInv'
<1>1. FramesInv'
  BY FramesStep DEF TypeInv, TypeOK, PointersInv, FramesInv
<1>2. TypeOK'
  BY <1>1 DEF TypeInv, TypeOK, FramesInv, Elsewhere, QueueType, HistoryType, bounds
<1> QED BY <1>1, <1>2 DEF TypeInv, PointersInv, FramesInv

(* The steps of the application's threads.                                 *)
LEMMA AppType ==
  ASSUME TypeInv, AppStep
  PROVE  TypeInv'
<1>0. TypeOK /\ PointersInv /\ FramesInv /\ Elsewhere
  BY DEF TypeInv, TypeOK, PointersInv, FramesInv, Elsewhere, QueueType, HistoryType
<1>a. \A a \in Activities : frame[a] \in Frame
  BY <1>0 DEF FramesInv
<1>b. \A h \in Hooks : h # "none" /\ NextSignal \in Hooks
  BY DEF Hooks, NextSignal
<1>i. IdleFrame.pc = "off" /\ \A pc : [IdleFrame EXCEPT !.pc = pc].pc = pc
  BY DEF IdleFrame
<1>1. CASE LockForWorker
  <2>1. /\ main' \in [pc : {"app", "lock", "create"}, hook : Hooks \cup {"none"}]
        /\ main'.hook = main.hook /\ main.pc = "lock"
    BY <1>0, <1>1 DEF LockForWorker, TypeOK
  <2>2. TypeOK'
    BY <1>0, <1>1, <2>1 DEF LockForWorker, TypeOK, kernVars, bounds, history
  <2> QED BY <1>0, <1>1, <2>1, <2>2 DEF LockForWorker, TypeInv, PointersInv
<1>2. ASSUME NEW w \in Workers, CreateWorker(w)
      PROVE  TypeInv'
  <2>0. /\ info \in [Hooks -> Seq(Contexts)] /\ info # NULL /\ main.hook \in Hooks
        /\ \A k \in Hooks : Len(info[k]) <= MaxCallbacks
    BY <1>0, <1>2 DEF CreateWorker, TypeOK, PointersInv
  <2>1. /\ info' \in [Hooks -> Seq(Contexts)] /\ info' # NULL
        /\ \A k \in Hooks : Len(info'[k]) <= MaxCallbacks
    BY <1>2, <2>0, AddType DEF CreateWorker, Contexts
  <2>2. FramesInv'
    <3>1. [IdleFrame EXCEPT !.pc = "start"] \in Frame
      BY FrameTypes
    <3> QED BY <1>0, <1>2, <1>i, <3>1, Activity, FramesStep DEF CreateWorker
  <2>3. main' \in [pc : {"app", "lock", "create"}, hook : Hooks \cup {"none"}] /\ main'.pc = "app"
    BY <1>2 DEF CreateWorker
  <2>4. UNCHANGED <<threadRunning, currentHook, mutexLocked, kernVars, tool, bounds, history>>
    BY <1>2 DEF CreateWorker
  <2>5. TypeOK'
    BY <1>0, <2>1, <2>2, <2>3, <2>4 DEF TypeOK, FramesInv, kernVars, bounds, history
  <2> QED BY <2>2, <2>3, <2>5 DEF TypeInv, PointersInv, FramesInv
<1>3. ASSUME NEW w \in Workers, WorkerStart(w) \/ WorkerTest(w)
      PROVE  TypeInv'
  <2> DEFINE a == <<"loop", w>>
  <2>0. a \in Activities
    BY <1>3, Activity
  <2>1. PICK f \in Frame : SetFrame(a, f) /\ f.pc # "run"
    <3>1. CASE WorkerStart(w)
      <4>1. [frame[a] EXCEPT !.pc = "test"] \in Frame /\ [frame[a] EXCEPT !.pc = "test"].pc = "test"
        BY <1>a, <2>0, FramePc
      <4> QED BY <3>1, <4>1 DEF WorkerStart
    <3>2. CASE WorkerTest(w)
      <4>1. ASSUME NEW pc \in {"lock", "ended"}
            PROVE  [IdleFrame EXCEPT !.pc = pc] \in Frame /\ [IdleFrame EXCEPT !.pc = pc].pc = pc
        BY <1>i, FrameTypes
      <4> QED BY <3>2, <4>1 DEF WorkerTest
    <3> QED BY <1>3, <3>1, <3>2
  <2>2. UNCHANGED <<libVars, main, kernVars, tool, bounds, history>>
    BY <1>3 DEF WorkerStart, WorkerTest
  <2>3. Elsewhere'
    BY <1>0, <2>2 DEF Elsewhere, QueueType, HistoryType, libVars, kernVars, history
  <2> QED BY <2>0, <2>1, <2>2, <2>3, FrameStepType DEF libVars, kernVars
<1>4. ASSUME NEW w \in Workers, WorkerLock(w)
      PROVE  TypeInv'
  <2> DEFINE a == <<"loop", w>>
  <2>0. a \in Activities
    BY <1>4, Activity
  <2>1. [frame[a] EXCEPT !.pc = "pick"] \in Frame /\ [frame[a] EXCEPT !.pc = "pick"].pc = "pick"
    BY <1>a, <2>0, FramePc
  <2>2. /\ SetFrame(a, [frame[a] EXCEPT !.pc = "pick"]) /\ mutexLocked' = TRUE
        /\ UNCHANGED <<info, threadRunning, currentHook, main, kernVars, tool, bounds, history>>
    BY <1>4 DEF WorkerLock
  <2>3. Elsewhere'
    BY <1>0, <2>2 DEF Elsewhere, QueueType, HistoryType, kernVars, history
  <2> QED BY <2>0, <2>1, <2>2, <2>3, FrameStepType DEF kernVars
<1>5. ASSUME NEW w \in Workers, WorkerReport(w)
      PROVE  TypeInv'
  <2> DEFINE a == <<"loop", w>>
  <2>0. a \in Activities
    BY <1>5, Activity
  <2>1. [IdleFrame EXCEPT !.pc = "test"] \in Frame /\ [IdleFrame EXCEPT !.pc = "test"].pc = "test"
    BY <1>i, FrameTypes
  <2>2. /\ SetFrame(a, [IdleFrame EXCEPT !.pc = "test"])
        /\ \E m \in {"ok", "err"} : send_message(m) \/ UNCHANGED queue
        /\ UNCHANGED <<libVars, main, alive, frozen, udata, pending, tool, bounds, history>>
    BY <1>5 DEF WorkerReport
  <2>3. QueueType'
    BY <1>0, <2>2, SendType DEF Elsewhere
  <2>4. Elsewhere'
    BY <1>0, <2>2, <2>3 DEF Elsewhere, HistoryType, libVars, history
  <2> QED BY <2>0, <2>1, <2>2, <2>4, FrameStepType DEF libVars
<1>6. ASSUME NEW a \in Activities, PickTable(a) \/ SkipEntry(a) \/ EndOfTable(a)
      PROVE  TypeInv'
  <2>1. PICK f \in Frame : SetFrame(a, f) /\ (f.pc = "run" => f.table \in Hooks)
    <3>1. CASE PickTable(a)
      <4>1. CASE currentHook = "none"
        <5> DEFINE g == [frame[a] EXCEPT !.pc = "report", !.failed = TRUE]
        <5>1. g \in Frame /\ g.pc = "report"
          BY <1>a, <1>6, FrameTypes, FrameFields
        <5> QED BY <3>1, <4>1, <5>1 DEF PickTable
      <4>2. CASE currentHook \in Hooks
        <5> DEFINE g == [IdleFrame EXCEPT !.pc = "run", !.table = currentHook]
        <5>1. g \in Frame /\ g.table = currentHook
          BY <4>2, FrameTypes DEF IdleFrame
        <5>2. SetFrame(a, g)
          BY <1>b, <3>1, <4>2 DEF PickTable
        <5> QED BY <4>2, <5>1, <5>2
      <4> QED BY <1>0, <4>1, <4>2 DEF TypeOK
    <3>2. CASE SkipEntry(a)
      <4> DEFINE g == [frame[a] EXCEPT !.idx = @ + 1]
      <4>1. g \in Frame /\ g.pc = frame[a].pc /\ g.table = frame[a].table
        BY <1>a, <1>6, FrameTypes, FrameFields
      <4> QED BY <1>0, <1>6, <3>2, <4>1 DEF SkipEntry, PointersInv
    <3>3. CASE EndOfTable(a)
      <4> DEFINE g == [frame[a] EXCEPT !.pc = "report"]
      <4>1. g \in Frame /\ g.pc = "report"
        BY <1>a, <1>6, FramePc
      <4> QED BY <3>3, <4>1 DEF EndOfTable
    <3> QED BY <1>6, <3>1, <3>2, <3>3
  <2>2. UNCHANGED <<libVars, main, kernVars, tool, bounds, history>>
    BY <1>6 DEF PickTable, SkipEntry, EndOfTable
  <2>3. Elsewhere'
    BY <1>0, <2>2 DEF Elsewhere, QueueType, HistoryType, libVars, kernVars, history
  <2> QED BY <1>6, <2>1, <2>2, <2>3, FrameStepType DEF libVars, kernVars
<1>7. ASSUME NEW a \in Activities, RunCallback(a)
      PROVE  TypeInv'
  <2>1. PICK ok \in BOOLEAN :
          /\ SetFrame(a, IF ok THEN [frame[a] EXCEPT !.idx = @ + 1]
                         ELSE [frame[a] EXCEPT !.pc = "report", !.failed = TRUE])
          /\ Discharge(frame[a].table, frame[a].idx, ok)
    BY <1>7 DEF RunCallback
  <2>2. PICK f \in Frame : SetFrame(a, f) /\ (f.pc = "run" => f.table \in Hooks)
    <3> DEFINE g == [frame[a] EXCEPT !.idx = @ + 1]
               r == [frame[a] EXCEPT !.pc = "report", !.failed = TRUE]
    <3>1. /\ g \in Frame /\ g.pc = frame[a].pc /\ g.table = frame[a].table
          /\ r \in Frame /\ r.pc = "report"
      BY <1>a, <1>7, FrameTypes, FrameFields
    <3>2. frame[a].table \in Hooks
      BY <1>0, <1>7 DEF RunCallback, PointersInv
    <3> HIDE DEF g, r
    <3>3. SetFrame(a, IF ok THEN g ELSE r)
      BY <2>1 DEF g, r
    <3> QED BY <3>1, <3>2, <3>3
  <2>3. due' \in [Tools -> SUBSET (Hooks \X Nat)]
    <3>2. \A t \in Tools : due[t] \in SUBSET (Hooks \X Nat)
      BY <1>0 DEF TypeOK
    <3>3. ASSUME NEW t \in Tools
          PROVE  {d \in due[t] : ~ \/ ok /\ d = <<frame[a].table, frame[a].idx>>
                                   \/ ~ok /\ frame[a].table # "chkpt" /\ d[1] = frame[a].table}
                    \in SUBSET (Hooks \X Nat)
      BY <3>2
    <3> QED BY <2>1, <3>3 DEF Discharge
  <2>4. UNCHANGED <<libVars, main, kernVars, tool, bounds, disturbed, abandoned, exited>>
    BY <1>7 DEF RunCallback
  <2>5. Elsewhere'
    BY <1>0, <2>3, <2>4 DEF Elsewhere, QueueType, HistoryType, libVars, kernVars
  <2> QED BY <1>7, <2>2, <2>4, <2>5, FrameStepType DEF libVars, kernVars
<1>8. CASE DeliverAborts \/ \E a \in Activities : AbortedRun(a)
  <2>1. CR_CB_ABORT
    BY <1>8 DEF DeliverAborts, AbortedRun
  <2>2. TypeOK'
    BY <1>0, <2>1, AbortType DEF TypeInv
  <2> QED BY <1>0, <2>1, <2>2 DEF TypeInv, PointersInv, CR_CB_ABORT, appVars, libVars
<1>9. ASSUME NEW th \in Threads, Deliver(th)
      PROVE  TypeInv'
  <2> DEFINE a == <<"handler", th>>
  <2>0. a \in Activities
    BY <1>9, Activity
  <2>1. [IdleFrame EXCEPT !.pc = "pick"] \in Frame /\ [IdleFrame EXCEPT !.pc = "pick"].pc = "pick"
    BY <1>i, FrameTypes
  <2>2. /\ SetFrame(a, [IdleFrame EXCEPT !.pc = "pick"])
        /\ currentHook' = NextSignal /\ pending[NextSignal] > 0
        /\ pending' = [pending EXCEPT ![NextSignal] = @ - 1]
        /\ UNCHANGED <<info, threadRunning, mutexLocked, main, alive, frozen, udata,
                       queue, tool, bounds, history>>
    BY <1>9 DEF Deliver
  <2>3. pending' \in [Hooks -> Nat]
    <3>1. pending[NextSignal] - 1 \in Nat
      BY <1>0, <1>b, <2>2 DEF Elsewhere, Hooks
    <3> QED BY <1>0, <2>2, <3>1 DEF Elsewhere
  <2>4. Elsewhere'
    BY <1>0, <1>b, <2>2, <2>3 DEF Elsewhere, QueueType, HistoryType, Hooks, history
  <2> QED BY <2>0, <2>1, <2>2, <2>4, FrameStepType
<1>10. ASSUME NEW th \in Threads, HandlerReport(th)
      PROVE  TypeInv'
  <2> DEFINE a == <<"handler", th>>
  <2>0. a \in Activities
    BY <1>10, Activity
  <2>1. [frame[a] EXCEPT !.pc = "wake"] \in Frame /\ [frame[a] EXCEPT !.pc = "wake"].pc = "wake"
    BY <1>a, <2>0, FramePc
  <2>2. /\ SetFrame(a, [frame[a] EXCEPT !.pc = "wake"])
        /\ \E m \in {"ok", "err"} : send_message(m) \/ UNCHANGED queue
        /\ UNCHANGED <<libVars, main, alive, frozen, udata, pending, tool, bounds, history>>
    BY <1>10 DEF HandlerReport
  <2>3. QueueType'
    BY <1>0, <2>2, SendType DEF Elsewhere
  <2>4. Elsewhere'
    BY <1>0, <2>2, <2>3 DEF Elsewhere, HistoryType, libVars, history
  <2> QED BY <2>0, <2>1, <2>2, <2>4, FrameStepType DEF libVars
<1>11. ASSUME NEW th \in Threads, HandlerWake(th)
      PROVE  TypeInv'
  <2> DEFINE a == <<"handler", th>>
  <2>0. a \in Activities
    BY <1>11, Activity
  <2>1. /\ SetFrame(a, IdleFrame) /\ mutexLocked' = (mutexLocked /\ ~threadRunning)
        /\ UNCHANGED <<info, threadRunning, currentHook, main, kernVars, tool, bounds, history>>
    BY <1>11 DEF HandlerWake
  <2>2. Elsewhere'
    BY <1>0, <2>1 DEF Elsewhere, QueueType, HistoryType, kernVars, history
  <2> QED BY <1>i, <2>0, <2>1, <2>2, FrameTypes, FrameStepType DEF kernVars
<1> QED BY <1>1, <1>2, <1>3, <1>4, <1>5, <1>6, <1>7, <1>8, <1>9, <1>10, <1>11 DEF AppStep

-----------------------------------------------------------------------------
(* The steps of a tool.                                                    *)
ToolAction(t) ==
  \/ ToolStep(t) \/ cr_detect_callbacks(t) \/ ToolInterrupted(t) \/ ToolResumeFails(t)
  \/ \E hook \in {"cnt", "rst"} : ToolResume(t, hook)

(* What they change, by what becomes of the tool and of the queue.         *)
ToolTypeOK == tool \in [Tools -> ToolState]
KernelTypeOK == /\ frozen \in BOOLEAN /\ pending \in [Hooks -> Nat] /\ QueueType
                /\ HistoryType
                /\ sessionsLeft \in Nat /\ interruptsLeft \in Nat
LEMMA ToolStepType ==
  ASSUME TypeInv, UNCHANGED <<appVars, alive, udata, apiLeft>>, ToolTypeOK', KernelTypeOK'
  PROVE  TypeInv'
<1>1. TypeOK'
  BY DEF TypeInv, TypeOK, ToolTypeOK, KernelTypeOK, QueueType, HistoryType, appVars, libVars
<1> QED BY <1>1 DEF TypeInv, PointersInv, appVars, libVars

(* The signal a tool sends, and what it makes due.                         *)
LEMMA SignalType ==
  ASSUME TypeInv, NEW t \in Tools, NEW h \in Hooks, Signal(t, h)
  PROVE  pending' \in [Hooks -> Nat] /\ HistoryType'
<1>0. /\ abandoned \in BOOLEAN /\ exited \in BOOLEAN
      /\ pending \in [Hooks -> Nat] /\ due \in [Tools -> SUBSET (Hooks \X Nat)]
      /\ info # NULL => info \in [Hooks -> Seq(Contexts)]
  BY DEF TypeInv, TypeOK
<1>1. pending' \in [Hooks -> Nat]
  BY <1>0 DEF Signal
<1>2. info # NULL => {h} \X (1 .. Len(info[h])) \in SUBSET (Hooks \X Nat)
  BY <1>0
<1>3. PICK d \in SUBSET (Hooks \X Nat) : due' = [due EXCEPT ![t] = d]
  BY <1>2 DEF Signal
<1>4. disturbed' \in [Tools -> BOOLEAN] /\ abandoned' = abandoned /\ exited' = exited
  BY DEF Signal
<1> QED BY <1>0, <1>1, <1>3, <1>4 DEF HistoryType

(* The error returns of cr_execute_chkpt_callbacks.                        *)
LEMMA FailsType ==
  ASSUME TypeInv, NEW t \in Tools, SessionFails(t), abandoned' \in BOOLEAN
  PROVE  ToolTypeOK' /\ HistoryType'
<1>0. /\ tool \in [Tools -> ToolState] /\ due \in [Tools -> SUBSET (Hooks \X Nat)]
      /\ disturbed \in [Tools -> BOOLEAN] /\ exited \in BOOLEAN
  BY DEF TypeInv, TypeOK
<1>1. ToolTypeOK'
  BY <1>0, ToolTypes DEF SessionFails, SetTool, ToolTypeOK
<1> QED BY <1>0, <1>1 DEF SessionFails, HistoryType

(* Every step of a tool keeps the types.                                   *)
LEMMA ToolActionType ==
  ASSUME TypeInv, NEW t \in Tools, ToolAction(t)
  PROVE  TypeInv'
<1>0. /\ TypeOK /\ ToolTypeOK /\ KernelTypeOK /\ tool[t] \in ToolState
      /\ queue \in [exists : BOOLEAN, msgs : Seq({"ok", "err"})]
      /\ abandoned \in BOOLEAN
  BY DEF TypeInv, TypeOK, ToolTypeOK, KernelTypeOK, QueueType, HistoryType
<1>h. ASSUME UNCHANGED history PROVE HistoryType'
  BY <1>0, <1>h DEF HistoryType, KernelTypeOK, history
<1>s. ASSUME NEW r \in ToolState, SetTool(t, r) PROVE ToolTypeOK'
  BY <1>0, <1>s DEF SetTool, ToolTypeOK
<1>1. CASE cr_detect_callbacks(t)
  <2>1. ToolTypeOK'
    <3>1. /\ [IdleTool EXCEPT !.pc = "msgget", !.detected = TRUE] \in ToolState
          /\ [IdleTool EXCEPT !.pc = "freeze"] \in ToolState
      BY ToolTypes
    <3> QED BY <1>1, <1>s, <3>1 DEF cr_detect_callbacks
  <2>2. sessionsLeft' \in Nat
    BY <1>0, <1>1 DEF cr_detect_callbacks, TypeOK
  <2>3. KernelTypeOK'
    BY <1>0, <1>1, <1>h, <2>2 DEF cr_detect_callbacks, KernelTypeOK, QueueType, kernVars
  <2> QED BY <1>1, <2>1, <2>3, ToolStepType DEF cr_detect_callbacks, kernVars
<1>2. CASE \/ ToolMsggetFails(t) \/ ToolKillFails(t) \/ ToolMsgrcvRemoved(t)
           \/ ToolRmidFails(t) \/ ToolFreezeFails(t) \/ ToolResumeFails(t)
  <2>1. /\ SessionFails(t) /\ UNCHANGED <<appVars, kernVars, bounds>>
        /\ abandoned' = TRUE \/ abandoned' = abandoned
    BY <1>2 DEF ToolMsggetFails, ToolKillFails, ToolMsgrcvRemoved, ToolRmidFails,
         ToolFreezeFails, ToolResumeFails
  <2>a. abandoned' \in BOOLEAN
    BY <1>0, <2>1
  <2>2. ToolTypeOK' /\ HistoryType'
    BY <2>1, <2>a, FailsType
  <2>3. KernelTypeOK'
    BY <1>0, <2>1, <2>2 DEF KernelTypeOK, QueueType, kernVars, bounds
  <2> QED BY <2>1, <2>2, <2>3, ToolStepType DEF kernVars, bounds
<1>3. CASE ToolInterrupted(t)
  <2>1. ToolTypeOK' /\ HistoryType'
    BY <1>3, FailsType DEF ToolInterrupted
  <2>2. interruptsLeft' \in Nat
    BY <1>0, <1>3 DEF ToolInterrupted, TypeOK
  <2>3. KernelTypeOK'
    BY <1>0, <1>3, <2>1, <2>2 DEF ToolInterrupted, KernelTypeOK, QueueType, kernVars
  <2> QED BY <1>3, <2>1, <2>3, ToolStepType DEF ToolInterrupted, kernVars
<1>4. CASE ToolMsgget(t)
  <2>1. ToolTypeOK'
    <3>1. [tool[t] EXCEPT !.pc = "kill", !.valid = TRUE] \in ToolState
      BY <1>0, ToolTypes
    <3> QED BY <1>4, <1>s, <3>1 DEF ToolMsgget
  <2>2. QueueType'
    BY <1>0, <1>4 DEF ToolMsgget, QueueType
  <2>3. KernelTypeOK'
    BY <1>0, <1>4, <1>h, <2>2 DEF ToolMsgget, KernelTypeOK, bounds
  <2> QED BY <1>4, <2>1, <2>3, ToolStepType DEF ToolMsgget, bounds
<1>5. CASE ToolKill(t)
  <2>1. ToolTypeOK'
    <3>1. [tool[t] EXCEPT !.pc = "msgrcv"] \in ToolState
      BY <1>0, ToolTypes
    <3> QED BY <1>5, <1>s, <3>1 DEF ToolKill
  <2>2. pending' \in [Hooks -> Nat] /\ HistoryType'
    BY <1>5, SignalType DEF ToolKill, Hooks
  <2>3. KernelTypeOK'
    BY <1>0, <1>5, <2>2 DEF ToolKill, KernelTypeOK, QueueType, bounds
  <2> QED BY <1>5, <2>1, <2>3, ToolStepType DEF ToolKill, bounds
<1>6. CASE ToolMsgrcv(t)
  <2>0. queue.msgs \in Seq({"ok", "err"}) /\ queue.msgs # <<>>
    BY <1>0, <1>6 DEF ToolMsgrcv
  <2>1. Head(queue.msgs) \in {"ok", "err"} /\ Tail(queue.msgs) \in Seq({"ok", "err"})
    BY <2>0, HeadTailProperties
  <2>2. ToolTypeOK'
    <3>1. [tool[t] EXCEPT !.pc = "rmid", !.mtype = Head(queue.msgs)] \in ToolState
      BY <1>0, <2>1, ToolTypes
    <3> QED BY <1>6, <1>s, <3>1 DEF ToolMsgrcv
  <2>3. QueueType'
    BY <1>0, <1>6, <2>1 DEF ToolMsgrcv, QueueType
  <2>4. KernelTypeOK'
    BY <1>0, <1>6, <1>h, <2>3 DEF ToolMsgrcv, KernelTypeOK, bounds
  <2> QED BY <1>6, <2>2, <2>4, ToolStepType DEF ToolMsgrcv, bounds
<1>7. CASE ToolRmid(t)
  <2>1. ToolTypeOK'
    <3>1. ASSUME NEW u \in Tools
          PROVE  (IF u = t /\ tool[t].mtype = "err" THEN IdleTool
                  ELSE IF u = t THEN [tool[t] EXCEPT !.pc = "freeze", !.valid = FALSE]
                  ELSE [tool[u] EXCEPT !.valid = FALSE]) \in ToolState
      <4>1. tool[u] \in ToolState /\ FALSE \in BOOLEAN
        BY <1>0, <3>1 DEF ToolTypeOK
      <4>2. [tool[t] EXCEPT !.pc = "freeze", !.valid = FALSE] \in ToolState
        BY <1>0, ToolTypes
      <4>3. [tool[u] EXCEPT !.valid = FALSE] \in ToolState
        BY <4>1, ToolTypes
      <4> QED BY <4>2, <4>3, ToolTypes
    <3> QED BY <1>7, <3>1 DEF ToolRmid, ToolTypeOK
  <2>2. QueueType'
    BY <1>7 DEF ToolRmid, QueueType, NoQueue
  <2>d. due' \in [Tools -> SUBSET (Hooks \X Nat)]
    BY <1>0, <1>7 DEF ToolRmid, TypeOK
  <2>3. HistoryType'
    BY <1>0, <1>7, <2>d DEF ToolRmid, TypeOK, HistoryType
  <2>4. KernelTypeOK'
    BY <1>0, <1>7, <2>2, <2>3 DEF ToolRmid, KernelTypeOK, bounds
  <2> QED BY <1>7, <2>1, <2>4, ToolStepType DEF ToolRmid, bounds
<1>8. CASE ToolFreeze(t) \/ ToolUnfreeze(t)
  <2>1. ToolTypeOK'
    <3>1. [IdleTool EXCEPT !.pc = "resume"] \in ToolState /\ IdleTool \in ToolState
      BY ToolTypes
    <3> QED BY <1>8, <1>s, <3>1 DEF ToolFreeze, ToolUnfreeze
  <2>2. KernelTypeOK'
    BY <1>0, <1>8, <1>h DEF ToolFreeze, ToolUnfreeze, KernelTypeOK, QueueType, bounds
  <2> QED BY <1>8, <2>1, <2>2, ToolStepType DEF ToolFreeze, ToolUnfreeze, bounds
<1>9. ASSUME NEW hook \in {"cnt", "rst"}, ToolResume(t, hook)
      PROVE  TypeInv'
  <2>1. ToolTypeOK'
    <3>1. [tool[t] EXCEPT !.pc = "unfreeze"] \in ToolState
      BY <1>0, ToolTypes
    <3> QED BY <1>9, <1>s, <3>1 DEF ToolResume
  <2>2. pending' \in [Hooks -> Nat] /\ HistoryType'
    BY <1>0, <1>9, <1>h, SignalType DEF ToolResume, Hooks, KernelTypeOK
  <2>3. KernelTypeOK'
    BY <1>0, <1>9, <2>2 DEF ToolResume, KernelTypeOK, QueueType, bounds
  <2> QED BY <1>9, <2>1, <2>3, ToolStepType DEF ToolResume, bounds
<1> QED BY <1>1, <1>2, <1>3, <1>4, <1>5, <1>6, <1>7, <1>8, <1>9 DEF ToolAction, ToolStep

(* The type invariant is inductive.                                        *)
LEMMA TypeStep == TypeInv /\ [Next]_vars => TypeInv'
<1> SUFFICES ASSUME TypeInv, [Next]_vars PROVE TypeInv'
  OBVIOUS
<1>1. CASE UNCHANGED vars
  <2>1. TypeOK'
    BY <1>1 DEF TypeInv, TypeOK, vars, appVars, libVars, kernVars, bounds, history
  <2> QED BY <1>1, <2>1 DEF TypeInv, PointersInv, vars, appVars, libVars
<1>2. CASE \E t \in Tools : ToolAction(t)
  BY <1>2, ToolActionType
<1> QED BY <1>1, <1>2, AppType, ApiType DEF Next, ToolAction

(* Every variable of the protocol keeps the type of the C object it stands *)
(* for, whatever the application, its threads and the tools do.            *)
THEOREM CallbackTypes == Spec => []TypeOK
<1>1. TypeInv => TypeOK
  BY DEF TypeInv
<1> QED BY <1>1, TypeInit, TypeStep, PTL DEF Spec

-----------------------------------------------------------------------------
(* The message queue belongs to the tools: the application can only add a  *)
(* message to it.                                                          *)
LEMMA AppKeepsQueue ==
  ASSUME TypeInv, AppStep \/ ApiStep
  PROVE  UNCHANGED <<tool, abandoned>> /\ queue'.exists = queue.exists
<1>0. queue \in [exists : BOOLEAN, msgs : Seq({"ok", "err"})]
  BY DEF TypeInv, TypeOK
<1>1. \A m : send_message(m) => queue'.exists = queue.exists
  BY <1>0 DEF send_message
<1>2. CASE ApiStep
  BY <1>2 DEF ApiStep, cr_callback_init, cr_callback_init_fails, cr_callback_exit,
       register_callback, CalledWithoutInit, CreateWorkerFails, AppDies, CR_CB_ABORT,
       free_info_memory, Disturb, kernVars, history
<1>3. CASE \E th \in Threads : HandlerReport(th)
  BY <1>1, <1>3 DEF HandlerReport, history
<1>4. CASE \E w \in Workers : WorkerReport(w)
  BY <1>1, <1>4 DEF WorkerReport, history
<1>5. CASE /\ AppStep /\ ~ \E th \in Threads : HandlerReport(th)
           /\ ~ \E w \in Workers : WorkerReport(w)
  <2>1. CASE LockForWorker \/ DeliverAborts
    BY <2>1 DEF LockForWorker, DeliverAborts, CR_CB_ABORT, kernVars, history
  <2>2. ASSUME NEW w \in Workers, CreateWorker(w) \/ WorkerStart(w) \/ WorkerTest(w) \/ WorkerLock(w)
        PROVE  UNCHANGED <<tool, abandoned, queue>>
    BY <2>2 DEF CreateWorker, WorkerStart, WorkerTest, WorkerLock, kernVars, history
  <2>3. ASSUME NEW a \in Activities, \/ PickTable(a) \/ RunCallback(a) \/ SkipEntry(a)
                                     \/ EndOfTable(a) \/ AbortedRun(a)
        PROVE  UNCHANGED <<tool, abandoned, queue>>
    <3>1. CASE AbortedRun(a)
      BY <3>1 DEF AbortedRun, CR_CB_ABORT, history
    <3>2. CASE RunCallback(a)
      <4>1. UNCHANGED <<kernVars, tool, abandoned>>
        BY <3>2 DEF RunCallback
      <4> QED BY <4>1 DEF kernVars
    <3>3. CASE PickTable(a) \/ SkipEntry(a) \/ EndOfTable(a)
      <4>1. UNCHANGED <<kernVars, tool, history>>
        BY <3>3 DEF PickTable, SkipEntry, EndOfTable
      <4> QED BY <4>1 DEF kernVars, history
    <3> QED BY <2>3, <3>1, <3>2, <3>3
  <2>4. ASSUME NEW th \in Threads, Deliver(th) \/ HandlerWake(th)
        PROVE  UNCHANGED <<tool, abandoned, queue>>
    BY <2>4 DEF Deliver, HandlerWake, kernVars, history
  <2> QED BY <1>5, <2>1, <2>2, <2>3, <2>4 DEF AppStep
<1> QED BY <1>2, <1>3, <1>4, <1>5

(* The queue is in use by a tool, or has been left behind by one.          *)
OrphanInv == TypeInv /\ NoOrphanQueue
Uses(t) == tool[t].valid /\ tool[t].pc \in {"kill", "msgrcv", "rmid"}

(* A step of a tool removes the queue, or leaves a tool that will.         *)
LEMMA OrphanToolStep ==
  ASSUME OrphanInv, NEW t \in Tools, ToolAction(t)
  PROVE  NoOrphanQueue'
<1>0. /\ TypeOK /\ NoOrphanQueue /\ tool \in [Tools -> ToolState]
      /\ queue \in [exists : BOOLEAN, msgs : Seq({"ok", "err"})]
  BY DEF OrphanInv, TypeInv, TypeOK
<1>k. ASSUME \A u \in Tools : Uses(u) => Uses(u)', queue'.exists = queue.exists,
             abandoned' = abandoned
      PROVE  NoOrphanQueue'
  BY <1>0, <1>k DEF NoOrphanQueue, Uses
<1>s. ASSUME NEW r, SetTool(t, r)
      PROVE  tool'[t] = r /\ \A u \in Tools \ {t} : tool'[u] = tool[u]
  BY <1>0, <1>s DEF SetTool
<1>1. CASE ToolInterrupted(t)
  BY <1>1 DEF ToolInterrupted, NoOrphanQueue
<1>2. CASE ToolMsgget(t)
  <2>1. tool'[t] = [tool[t] EXCEPT !.pc = "kill", !.valid = TRUE]
    BY <1>2, <1>s DEF ToolMsgget
  <2>2. Uses(t)'
    BY <1>0, <2>1 DEF Uses, ToolState
  <2> QED BY <2>2 DEF NoOrphanQueue, Uses
<1>3. CASE ToolKillFails(t)
  BY <1>3 DEF ToolKillFails, NoOrphanQueue
<1>4. CASE ToolRmid(t)
  BY <1>4 DEF ToolRmid, NoQueue, NoOrphanQueue
<1>5. CASE ToolKill(t) \/ ToolMsgrcv(t)
  <2>1. tool'[t].valid = tool[t].valid /\ tool'[t].pc \in {"msgrcv", "rmid"}
    <3>1. CASE ToolKill(t)
      <4>1. tool'[t] = [tool[t] EXCEPT !.pc = "msgrcv"]
        BY <1>s, <3>1 DEF ToolKill
      <4> QED BY <1>0, <4>1 DEF ToolState
    <3>2. CASE ToolMsgrcv(t)
      <4>1. tool'[t] = [tool[t] EXCEPT !.pc = "rmid", !.mtype = Head(queue.msgs)]
        BY <1>s, <3>2 DEF ToolMsgrcv
      <4> QED BY <1>0, <4>1 DEF ToolState
    <3> QED BY <1>5, <3>1, <3>2
  <2>2. \A u \in Tools \ {t} : tool'[u] = tool[u]
    BY <1>5, <1>s DEF ToolKill, ToolMsgrcv
  <2>3. queue'.exists = queue.exists
    BY <1>0, <1>5 DEF ToolKill, ToolMsgrcv
  <2>4. abandoned' = abandoned
    BY <1>5 DEF ToolKill, ToolMsgrcv, Signal, history
  <2> QED BY <1>0, <1>k, <2>1, <2>2, <2>3, <2>4 DEF Uses
<1>6. CASE \/ ToolMsggetFails(t) \/ ToolMsgrcvRemoved(t) \/ ToolRmidFails(t)
           \/ ToolFreeze(t) \/ ToolFreezeFails(t) \/ ToolUnfreeze(t)
           \/ cr_detect_callbacks(t) \/ ToolResumeFails(t)
           \/ \E hook \in {"cnt", "rst"} : ToolResume(t, hook)
  <2>1. ~Uses(t)
    BY <1>6 DEF Uses, ToolMsggetFails, ToolMsgrcvRemoved, ToolRmidFails, ToolFreeze,
         ToolFreezeFails, ToolUnfreeze, cr_detect_callbacks, ToolResume, ToolResumeFails
  <2>2. \E r : SetTool(t, r)
    BY <1>6 DEF ToolMsggetFails, ToolMsgrcvRemoved, ToolRmidFails, ToolFreeze,
         ToolFreezeFails, ToolUnfreeze, cr_detect_callbacks, ToolResume, ToolResumeFails, SessionFails
  <2>3. \A u \in Tools \ {t} : tool'[u] = tool[u]
    BY <1>s, <2>2
  <2>4. queue' = queue /\ abandoned' = abandoned
    BY <1>6 DEF ToolMsggetFails, ToolMsgrcvRemoved, ToolRmidFails, ToolFreeze,
         ToolFreezeFails, ToolUnfreeze, cr_detect_callbacks, ToolResume, ToolResumeFails, Signal,
         kernVars, history
  <2> QED BY <1>0, <1>k, <2>1, <2>3, <2>4 DEF Uses
<1> QED BY <1>1, <1>2, <1>3, <1>4, <1>5, <1>6 DEF ToolAction, ToolStep

(* The queue keyed by the pid is never left behind by the calls of         *)
(* cr_execute_chkpt_callbacks that use it, for any number of tools at the  *)
(* same time, failing calls and messages that come late, but by one that   *)
(* was interrupted in msgrcv or whose kill failed.                         *)
THEOREM QueueIsRemoved == Spec => []NoOrphanQueue
<1>1. Init => OrphanInv
  BY TypeInit DEF Init, OrphanInv, NoOrphanQueue, NoQueue
<1>2. OrphanInv /\ [Next]_vars => OrphanInv'
  <2> SUFFICES ASSUME OrphanInv, [Next]_vars PROVE OrphanInv'
    OBVIOUS
  <2>0. TypeInv'
    BY TypeStep DEF OrphanInv
  <2>1. CASE \E t \in Tools : ToolAction(t)
    BY <2>0, <2>1, OrphanToolStep DEF OrphanInv
  <2>2. CASE AppStep \/ ApiStep
    BY <2>0, <2>2, AppKeepsQueue DEF OrphanInv, NoOrphanQueue
  <2>3. CASE UNCHANGED vars
    BY <2>0, <2>3 DEF OrphanInv, NoOrphanQueue, vars, kernVars, history
  <2> QED BY <2>1, <2>2, <2>3 DEF Next, ToolAction
<1>3. OrphanInv => NoOrphanQueue
  BY DEF OrphanInv
<1> QED BY <1>1, <1>2, <1>3, PTL DEF Spec


-----------------------------------------------------------------------------
(* The frames of the signal handlers, and those of the workers' loops.     *)
handler == [th \in Threads |-> frame[<<"handler", th>>]]
loop == [w \in Workers |-> frame[<<"loop", w>>]]
Busy == {"pick", "run", "report"}

(* The views of frame, and what a step does to them.                       *)
LEMMA Views ==
  ASSUME TypeInv
  PROVE  handler \in [Threads -> Frame] /\ loop \in [Workers -> Frame]
BY Activity DEF TypeInv, TypeOK, handler, loop

(* A step that leaves frame alone leaves both views alone.                 *)
LEMMA SameViews ==
  ASSUME frame' = frame
  PROVE  handler' = handler /\ loop' = loop
BY DEF handler, loop

(* The step of one handler.                                                *)
LEMMA SetHandler ==
  ASSUME TypeInv, NEW th \in Threads, NEW f, SetFrame(<<"handler", th>>, f)
  PROVE  handler' = [handler EXCEPT ![th] = f] /\ loop' = loop
<1>0. /\ frame \in [Activities -> Frame] /\ <<"handler", th>> \in Activities
      /\ \A w \in Workers : <<"loop", w>> \in Activities /\ <<"loop", w>> # <<"handler", th>>
      /\ \A o \in Threads : /\ <<"handler", o>> \in Activities
                             /\ o # th => <<"handler", o>> # <<"handler", th>>
  BY Activity DEF TypeInv, TypeOK
<1>1. /\ frame'[<<"handler", th>>] = f
      /\ \A b \in Activities \ {<<"handler", th>>} : frame'[b] = frame[b]
  BY <1>0, FrameSet
<1>2. \A w \in Workers : frame'[<<"loop", w>>] = frame[<<"loop", w>>]
  BY <1>0, <1>1
<1>3. ASSUME NEW o \in Threads \ {th}
      PROVE  frame'[<<"handler", o>>] = frame[<<"handler", o>>]
  <2>1. o \in Threads /\ o # th
    OBVIOUS
  <2>2. <<"handler", o>> \in Activities
    BY <2>1, Activity
  <2>3. <<"handler", o>> # <<"handler", th>>
    BY <2>1
  <2> QED BY <1>1, <2>2, <2>3
<1>4. loop' = loop
  BY <1>2 DEF loop
<1>5. \A o \in Threads : handler'[o] = [handler EXCEPT ![th] = f][o]
  BY <1>1, <1>3 DEF handler
<1>6. handler' = [handler EXCEPT ![th] = f]
  BY <1>5 DEF handler
<1> QED BY <1>4, <1>6

(* The step of one worker's loop.                                          *)
LEMMA SetLoop ==
  ASSUME TypeInv, NEW w \in Workers, NEW f, SetFrame(<<"loop", w>>, f)
  PROVE  loop' = [loop EXCEPT ![w] = f] /\ handler' = handler
<1>0. /\ frame \in [Activities -> Frame] /\ <<"loop", w>> \in Activities
      /\ \A th \in Threads : <<"handler", th>> \in Activities /\ <<"loop", w>> # <<"handler", th>>
      /\ \A o \in Workers : /\ <<"loop", o>> \in Activities
                             /\ o # w => <<"loop", o>> # <<"loop", w>>
  BY Activity DEF TypeInv, TypeOK
<1>1. /\ frame'[<<"loop", w>>] = f
      /\ \A b \in Activities \ {<<"loop", w>>} : frame'[b] = frame[b]
  BY <1>0, FrameSet
<1>2. \A th \in Threads : frame'[<<"handler", th>>] = frame[<<"handler", th>>]
  BY <1>0, <1>1
<1>3. ASSUME NEW o \in Workers \ {w}
      PROVE  frame'[<<"loop", o>>] = frame[<<"loop", o>>]
  <2>1. o \in Workers /\ o # w
    OBVIOUS
  <2>2. <<"loop", o>> \in Activities
    BY <2>1, Activity
  <2>3. <<"loop", o>> # <<"loop", w>>
    BY <2>1
  <2> QED BY <1>1, <2>2, <2>3
<1>4. handler' = handler
  BY <1>2 DEF handler
<1>5. \A o \in Workers : loop'[o] = [loop EXCEPT ![w] = f][o]
  BY <1>1, <1>3 DEF loop
<1>6. loop' = [loop EXCEPT ![w] = f]
  BY <1>5 DEF loop
<1> QED BY <1>4, <1>6

(* An entry is added at the end of one table, if at all.                   *)
LEMMA AddedEntry ==
  ASSUME info \in [Hooks -> Seq(Contexts)], NEW h \in Hooks, NEW c \in Contexts,
         AddCallback(h, c), NEW k \in Hooks
  PROVE  /\ info'[k] \in Seq(Contexts) /\ Len(info[k]) <= Len(info'[k])
         /\ \A n \in 1 .. Len(info[k]) : info'[k][n] = info[k][n]
         /\ \A n \in 1 .. Len(info'[k]) : n \in 1 .. Len(info[k]) \/ info'[k][n] = c
<1>0. info[k] \in Seq(Contexts) /\ Len(info[k]) \in Nat
  BY LenProperties
<1>1. CASE Len(info[h]) < MaxCallbacks /\ k = h
  <2>1. info'[k] = Append(info[k], c)
    BY <1>1 DEF AddCallback
  <2>2. /\ Append(info[k], c) \in Seq(Contexts) /\ Len(Append(info[k], c)) = Len(info[k]) + 1
        /\ \A n \in 1 .. Len(info[k]) : Append(info[k], c)[n] = info[k][n]
        /\ Append(info[k], c)[Len(info[k]) + 1] = c
    BY <1>0, AppendProperties
  <2>3. \A n \in 1 .. Len(info[k]) + 1 : n \in 1 .. Len(info[k]) \/ n = Len(info[k]) + 1
    BY <1>0
  <2> QED BY <1>0, <2>1, <2>2, <2>3
<1>2. CASE ~(Len(info[h]) < MaxCallbacks /\ k = h)
  <2>1. info'[k] = info[k]
    BY <1>2 DEF AddCallback
  <2> QED BY <1>0, <2>1
<1> QED BY <1>1, <1>2

(* What thread_running says of the mutex, of the threads and of the        *)
(* tables: as long as the library has not forgotten a worker, the mutex is *)
(* free until there is one.                                                *)
LibInv ==
  /\ main.pc = "lock" => ~threadRunning
  /\ main.pc = "create" => threadRunning
  /\ ~threadRunning /\ ~exited => ~mutexLocked /\ \A w \in Workers : loop[w].pc = "off"
  /\ info # NULL /\ ~threadRunning =>
       \A h \in Hooks : \A n \in 1 .. Len(info[h]) : info[h][n] = "signal"

(* A step that leaves what LibInv is about alone.                          *)
LEMMA LibSame ==
  ASSUME LibInv, UNCHANGED <<main, threadRunning, exited, mutexLocked, info>>,
         \A w \in Workers : loop[w].pc = "off" => loop'[w].pc = "off"
  PROVE  LibInv'
BY DEF LibInv

(* The calls of the library keep LibInv.                                   *)
LEMMA LibApi ==
  ASSUME TypeInv, LibInv, ApiStep
  PROVE  LibInv'
<1>0. TypeOK /\ loop \in [Workers -> Frame]
  BY Views DEF TypeInv
<1>d. ASSUME NEW how \in {"leaked", "freed"},
             frame' = IF info = NULL THEN frame ELSE Detach(how)
      PROVE  \A w \in Workers : loop'[w].pc = loop[w].pc
  BY <1>d, DetachStep, Activity DEF loop
<1>1. CASE cr_callback_init
  <2>1. /\ \A w \in Workers : loop'[w].pc = loop[w].pc
        /\ UNCHANGED <<main, threadRunning, exited, mutexLocked>>
        /\ info' = [h \in Hooks |-> <<>>]
    BY <1>1, <1>d DEF cr_callback_init
  <2>2. \A h \in Hooks : 1 .. Len(info'[h]) = {}
    BY <2>1
  <2> QED BY <2>1, <2>2 DEF LibInv
<1>2. CASE cr_callback_init_fails \/ cr_callback_exit \/ CreateWorkerFails
  <2>1. /\ \A w \in Workers : loop'[w].pc = loop[w].pc
        /\ mutexLocked' = mutexLocked /\ threadRunning' = FALSE /\ info' = NULL
        /\ exited' = (exited \/ threadRunning)
    BY <1>2, <1>d DEF cr_callback_init_fails, cr_callback_exit, CreateWorkerFails,
         free_info_memory
  <2>2. main'.pc = "app"
    BY <1>2 DEF cr_callback_init_fails, cr_callback_exit, CreateWorkerFails, ApiCall
  <2> QED BY <2>1, <2>2 DEF LibInv
<1>3. ASSUME NEW h \in Hooks, NEW c \in Contexts, register_callback(h, c)
      PROVE  LibInv'
  <2>0. /\ UNCHANGED <<threadRunning, exited, mutexLocked>> /\ loop' = loop
        /\ info # NULL /\ info \in [Hooks -> Seq(Contexts)]
    BY <1>0, <1>3, SameViews DEF register_callback, history, TypeOK
  <2>1. CASE c = "thread" /\ ~threadRunning
    BY <1>3, <2>0, <2>1 DEF register_callback, LibInv
  <2>2. CASE ~(c = "thread" /\ ~threadRunning)
    <3>1. AddCallback(h, c) /\ main' = main
      BY <1>3, <2>2 DEF register_callback
    <3>2. ASSUME ~threadRunning, NEW k \in Hooks, NEW n \in 1 .. Len(info'[k])
          PROVE  info'[k][n] = "signal"
      <4>0. c = "signal" /\ \A m \in 1 .. Len(info[k]) : info[k][m] = "signal"
        BY <2>0, <2>2, <3>2 DEF LibInv, Contexts
      <4>1. /\ \A m \in 1 .. Len(info[k]) : info'[k][m] = info[k][m]
            /\ n \in 1 .. Len(info[k]) \/ info'[k][n] = c
        BY <2>0, <3>1, <3>2, AddedEntry
      <4> QED BY <4>0, <4>1
    <3> QED BY <2>0, <3>1, <3>2 DEF LibInv
  <2> QED BY <2>1, <2>2
<1>4. CASE CalledWithoutInit \/ AppDies
  <2>1. UNCHANGED <<info, threadRunning, mutexLocked, main, frame, exited>>
    BY <1>4 DEF CalledWithoutInit, AppDies, CR_CB_ABORT, appVars, libVars, history
  <2> QED BY <2>1, SameViews, LibSame
<1> QED BY <1>1, <1>2, <1>3, <1>4 DEF ApiStep

(* The steps of the threads keep LibInv.                                   *)
LEMMA LibApp ==
  ASSUME TypeInv, LibInv, AppStep
  PROVE  LibInv'
<1>0. TypeOK /\ PointersInv /\ loop \in [Workers -> Frame]
  BY Views DEF TypeInv
<1>w. ASSUME NEW w \in Workers, NEW f, SetFrame(<<"loop", w>>, f), loop[w].pc # "off",
             UNCHANGED <<main, threadRunning, exited, mutexLocked, info>>
      PROVE  LibInv'
  <2>1. loop' = [loop EXCEPT ![w] = f]
    BY <1>w, SetLoop
  <2> QED BY <1>0, <1>w, <2>1, LibSame
<1>h. ASSUME NEW th \in Threads, NEW f, SetFrame(<<"handler", th>>, f),
             UNCHANGED <<main, threadRunning, exited, mutexLocked, info>>
      PROVE  LibInv'
  <2>1. loop' = loop
    BY <1>h, SetHandler
  <2> QED BY <2>1, <1>h, LibSame
<1>1. CASE LockForWorker
  <2>1. /\ threadRunning' = TRUE /\ main' = [main EXCEPT !.pc = "create"]
        /\ main \in [pc : {"app", "lock", "create"}, hook : Hooks \cup {"none"}]
    BY <1>0, <1>1 DEF LockForWorker, TypeOK
  <2>2. main'.pc = "create"
    BY <2>1
  <2> QED BY <2>1, <2>2 DEF LibInv
<1>2. ASSUME NEW w \in Workers, CreateWorker(w)
      PROVE  LibInv'
  <2>1. main.pc = "create" /\ main' = [pc |-> "app", hook |-> "none"] /\ threadRunning' = threadRunning
    BY <1>2 DEF CreateWorker
  <2> QED BY <2>1 DEF LibInv
<1>3. ASSUME NEW w \in Workers, WorkerStart(w) \/ WorkerTest(w) \/ WorkerReport(w)
      PROVE  LibInv'
  <2>1. \E f : SetFrame(<<"loop", w>>, f)
    BY <1>3 DEF WorkerStart, WorkerTest, WorkerReport
  <2>2. loop[w].pc # "off" /\ UNCHANGED <<main, threadRunning, exited, mutexLocked, info>>
    BY <1>3 DEF WorkerStart, WorkerTest, WorkerReport, loop, libVars, history
  <2> QED BY <1>w, <2>1, <2>2
<1>4. ASSUME NEW w \in Workers, WorkerLock(w)
      PROVE  LibInv'
  <2>1. /\ loop[w].pc = "lock" /\ UNCHANGED <<main, threadRunning, exited, info>>
    BY <1>4 DEF WorkerLock, loop, history
  <2> QED BY <2>1 DEF LibInv
<1>5. ASSUME NEW a \in Activities, PickTable(a) \/ RunCallback(a) \/ SkipEntry(a) \/ EndOfTable(a)
      PROVE  LibInv'
  <2>1. \E f : SetFrame(a, f)
    BY <1>5 DEF PickTable, RunCallback, SkipEntry, EndOfTable
  <2>2. frame[a].pc # "off" /\ UNCHANGED <<main, threadRunning, exited, mutexLocked, info>>
    BY <1>5 DEF PickTable, RunCallback, SkipEntry, EndOfTable, libVars, history
  <2>3. ASSUME NEW w \in Workers, a = <<"loop", w>> PROVE LibInv'
    BY <1>w, <2>1, <2>2, <2>3 DEF loop
  <2> QED BY <1>5, <1>h, <2>1, <2>2, <2>3, Activity
<1>6. CASE DeliverAborts \/ \E a \in Activities : AbortedRun(a)
  <2>1. UNCHANGED <<info, threadRunning, mutexLocked, main, frame, exited>>
    BY <1>6 DEF DeliverAborts, AbortedRun, CR_CB_ABORT, appVars, libVars, history
  <2> QED BY <2>1, SameViews, LibSame
<1>7. ASSUME NEW th \in Threads, Deliver(th) \/ HandlerReport(th)
      PROVE  LibInv'
  <2>1. \E f : SetFrame(<<"handler", th>>, f)
    BY <1>7 DEF Deliver, HandlerReport
  <2>2. UNCHANGED <<main, threadRunning, exited, mutexLocked, info>>
    BY <1>7 DEF Deliver, HandlerReport, libVars, history
  <2> QED BY <1>h, <2>1, <2>2
<1>8. ASSUME NEW th \in Threads, HandlerWake(th)
      PROVE  LibInv'
  <2>1. /\ SetFrame(<<"handler", th>>, IdleFrame) /\ mutexLocked' = (mutexLocked /\ ~threadRunning)
        /\ UNCHANGED <<main, threadRunning, exited, info>>
    BY <1>8 DEF HandlerWake, history
  <2>2. loop' = loop
    BY <2>1, SetHandler
  <2> QED BY <2>1, <2>2 DEF LibInv
<1> QED BY <1>1, <1>2, <1>3, <1>4, <1>5, <1>6, <1>7, <1>8 DEF AppStep

(* The steps of the tools leave the library alone.                         *)
LEMMA ToolKeepsApp ==
  ASSUME NEW t \in Tools, ToolAction(t)
  PROVE  UNCHANGED <<appVars, alive, udata, exited>>
<1>1. CASE ToolInterrupted(t) \/ ToolResumeFails(t) \/ ToolMsggetFails(t) \/ ToolKillFails(t)
           \/ ToolMsgrcvRemoved(t) \/ ToolRmidFails(t) \/ ToolFreezeFails(t)
  BY <1>1 DEF ToolInterrupted, ToolResumeFails, ToolMsggetFails, ToolKillFails,
       ToolMsgrcvRemoved, ToolRmidFails, ToolFreezeFails, SessionFails, kernVars
<1>2. CASE \/ ToolKill(t) \/ \E hook \in {"cnt", "rst"} : ToolResume(t, hook)
  BY <1>2 DEF ToolKill, ToolResume, Signal, history
<1>3. CASE \/ ToolMsgget(t) \/ ToolMsgrcv(t) \/ ToolRmid(t) \/ ToolFreeze(t)
           \/ ToolUnfreeze(t) \/ cr_detect_callbacks(t)
  BY <1>3 DEF ToolMsgget, ToolMsgrcv, ToolRmid, ToolFreeze, ToolUnfreeze,
       cr_detect_callbacks, kernVars, history
<1> QED BY <1>1, <1>2, <1>3 DEF ToolAction, ToolStep

(* LibInv is inductive.                                                    *)
LEMMA LibStep == TypeInv /\ LibInv /\ [Next]_vars => LibInv'
<1> SUFFICES ASSUME TypeInv, LibInv, [Next]_vars PROVE LibInv'
  OBVIOUS
<1>1. CASE UNCHANGED vars \/ \E t \in Tools : ToolAction(t)
  <2>1. UNCHANGED <<appVars, exited>>
    BY <1>1, ToolKeepsApp DEF vars, history
  <2>2. UNCHANGED <<main, threadRunning, exited, mutexLocked, info, frame>>
    BY <2>1 DEF appVars, libVars
  <2> QED BY <2>2, SameViews, LibSame
<1> QED BY <1>1, LibApp, LibApi DEF Next, ToolAction

(* LibInv holds at first.                                                  *)
LEMMA LibInit == Init => LibInv
<1> SUFFICES ASSUME Init PROVE LibInv
  OBVIOUS
<1>1. \A w \in Workers : loop[w].pc = "off"
  BY Activity DEF Init, loop, IdleFrame
<1> QED BY <1>1 DEF Init, LibInv

(* Registering the first thread-context callback waits for the mutex, for  *)
(* good, only when the library has forgotten a worker it had started: no   *)
(* handler, worker or failed registration leaves it locked otherwise.      *)
THEOREM RegistrationLocks == Spec => []RegisterLocks
<1>1. Init => TypeInv /\ LibInv
  BY TypeInit, LibInit
<1>2. TypeInv /\ LibInv /\ [Next]_vars => TypeInv' /\ LibInv'
  BY TypeStep, LibStep
<1>3. LibInv => RegisterLocks
  BY DEF LibInv, RegisterLocks
<1> QED BY <1>1, <1>2, <1>3, PTL DEF Spec

-----------------------------------------------------------------------------
(* How far a checkpoint callback that is due still has to wait: for the    *)
(* signal; then for the handler, as long as it has not come to it, or for  *)
(* the worker, which the handler has woken or will wake.                   *)
IsThread(d) == info["chkpt"][d[2]] = "thread"
WorkerMayRun ==
  ~mutexLocked /\ (threadRunning \/ \E w \in Workers : loop[w].pc \in {"start", "test", "lock"})
HandlerFor(f, d) ==
  /\ f.pc = "run" => f.table = "chkpt" /\ f.src = "live" /\ (d[2] < f.idx => IsThread(d))
  /\ f.pc = "report" => f.failed \/ IsThread(d)
  /\ f.pc = "wake" => IsThread(d)
LoopFor(f, d) ==
  /\ f.pc \in Busy => IsThread(d)
  /\ f.pc = "run" => f.table = "chkpt" /\ f.src = "live" /\ f.idx <= d[2]
  /\ f.pc = "report" => f.failed
Sent == /\ pending["chkpt"] = 1 /\ ~WorkerMayRun
        /\ \A th \in Threads : handler[th].pc \notin Busy \cup {"wake"}
        /\ \A w \in Workers : loop[w].pc \notin Busy
Received == pending["chkpt"] = 0 /\ currentHook = "chkpt"
Entry(d) == info # NULL /\ d = <<"chkpt", d[2]>> /\ d[2] \in 1 .. Len(info["chkpt"])
Awaited(d) ==
  /\ Entry(d) /\ pending["rst"] = 0 /\ pending["cnt"] = 0 /\ (Sent \/ Received)
  /\ \A th \in Threads : HandlerFor(handler[th], d)
  /\ \A w \in Workers : LoopFor(loop[w], d)
  /\ WorkerMayRun => IsThread(d)

(* What a step with such a callback still due leads to: it is awaited, or  *)
(* the message sent says that a callback has failed.                       *)
StillAwaited(d) ==
  \/ queue' = queue /\ Awaited(d)'
  \/ queue.exists /\ queue'.msgs = Append(queue.msgs, "err")

(* What is at hand in every such step.                                     *)
LEMMA AwaitedFacts ==
  ASSUME TypeInv, NEW d, Awaited(d)
  PROVE  /\ handler \in [Threads -> Frame] /\ loop \in [Workers -> Frame]
         /\ info \in [Hooks -> Seq(Contexts)] /\ info["chkpt"] \in Seq(Contexts)
         /\ d[2] \in Nat /\ Len(info["chkpt"]) \in Nat /\ info["chkpt"][d[2]] \in Contexts
<1>1. info \in [Hooks -> Seq(Contexts)] /\ info["chkpt"] \in Seq(Contexts)
  BY DEF TypeInv, TypeOK, Awaited, Entry, Hooks
<1>2. Len(info["chkpt"]) \in Nat /\ d[2] \in 1 .. Len(info["chkpt"])
  BY <1>1, LenProperties DEF Awaited, Entry
<1>3. info["chkpt"][d[2]] \in Contexts
  BY <1>1, <1>2, ElementOfSeq
<1> QED BY <1>1, <1>2, <1>3, Views

(* The handler and the worker are at work once the signal is received.     *)
LEMMA FramesMove ==
  ASSUME NEW d, Awaited(d), Received, UNCHANGED <<info, pending, currentHook>>,
         \A th \in Threads : handler'[th] = handler[th] \/ HandlerFor(handler'[th], d),
         \A w \in Workers : loop'[w] = loop[w] \/ LoopFor(loop'[w], d),
         WorkerMayRun' => IsThread(d)
  PROVE  Awaited(d)'
<1>1. IsThread(d)' <=> IsThread(d)
  BY DEF IsThread
<1>2. Entry(d)' /\ Received'
  BY DEF Awaited, Entry, Received
<1>3. ASSUME NEW th \in Threads PROVE HandlerFor(handler[th], d)'
  <2>1. HandlerFor(handler'[th], d)
    BY <1>3 DEF Awaited
  <2> QED BY <1>1, <2>1 DEF HandlerFor
<1>4. ASSUME NEW w \in Workers PROVE LoopFor(loop[w], d)'
  <2>1. LoopFor(loop'[w], d)
    BY <1>4 DEF Awaited
  <2> QED BY <1>1, <2>1 DEF LoopFor
<1> QED BY <1>1, <1>2, <1>3, <1>4 DEF Awaited

(* The frame of one handler moves.                                         *)
LEMMA HandlerMoves ==
  ASSUME TypeInv, NEW d, Awaited(d), Received, NEW th \in Threads, NEW f,
         SetFrame(<<"handler", th>>, f), HandlerFor(f, d),
         UNCHANGED <<info, pending, currentHook, threadRunning>>,
         mutexLocked' = mutexLocked \/ IsThread(d)
  PROVE  Awaited(d)'
<1>1. handler' = [handler EXCEPT ![th] = f] /\ loop' = loop /\ handler \in [Threads -> Frame]
  BY SetHandler, Views
<1>2. WorkerMayRun' => IsThread(d)
  BY <1>1 DEF WorkerMayRun, Awaited
<1> QED BY <1>1, <1>2, FramesMove

(* The frame of one worker's loop moves.                                   *)
LEMMA LoopMoves ==
  ASSUME TypeInv, NEW d, Awaited(d), Received, NEW w \in Workers, NEW f,
         SetFrame(<<"loop", w>>, f), LoopFor(f, d),
         UNCHANGED <<info, pending, currentHook, threadRunning>>,
         mutexLocked' \/ IsThread(d)
  PROVE  Awaited(d)'
<1>1. loop' = [loop EXCEPT ![w] = f] /\ handler' = handler /\ loop \in [Workers -> Frame]
  BY SetLoop, Views
<1>2. WorkerMayRun' => IsThread(d)
  BY DEF WorkerMayRun
<1> QED BY <1>1, <1>2, FramesMove

(* The run of the callbacks by the handler.                                *)
LEMMA HandlerRuns ==
  ASSUME TypeInv, NEW d, Awaited(d), NEW th \in Threads,
         LET a == <<"handler", th>> IN
           PickTable(a) \/ RunCallback(a) \/ SkipEntry(a) \/ EndOfTable(a),
         NEW t \in Tools, d \in due'[t]
  PROVE  Awaited(d)'
<1> DEFINE a == <<"handler", th>>
           f == handler[th]
<1>0. /\ handler \in [Threads -> Frame] /\ info["chkpt"] \in Seq(Contexts)
      /\ d[2] \in Nat /\ Len(info["chkpt"]) \in Nat /\ info["chkpt"][d[2]] \in Contexts
  BY AwaitedFacts
<1>1. frame[a] = f /\ f \in Frame /\ f.idx \in Nat
  BY <1>0 DEF handler, Frame
<1>2. Received
  BY <1>1 DEF Awaited, Sent, Busy, PickTable, RunCallback, SkipEntry, EndOfTable
<1>3. currentHook = "chkpt" /\ HandlerFor(f, d) /\ Entry(d)
  BY <1>2 DEF Received, Awaited
<1>u. UNCHANGED <<info, pending, currentHook, threadRunning, mutexLocked>>
  BY DEF PickTable, RunCallback, SkipEntry, EndOfTable, libVars, kernVars
<1>4. CASE PickTable(a)
  <2>1. SetFrame(a, [IdleFrame EXCEPT !.pc = "run", !.table = "chkpt"])
    BY <1>3, <1>4 DEF PickTable
  <2>2. HandlerFor([IdleFrame EXCEPT !.pc = "run", !.table = "chkpt"], d)
    <3>1. ~(d[2] < 1)
      BY <1>3, <1>0 DEF Entry
    <3> QED BY <3>1 DEF HandlerFor, IdleFrame
  <2> QED BY <1>2, <1>u, <2>1, <2>2, HandlerMoves
<1>r. ASSUME f.pc = "run"
      PROVE  /\ f.table = "chkpt" /\ f.src = "live" /\ (d[2] < f.idx => IsThread(d))
             /\ TableOf(f) = info["chkpt"]
  BY <1>3, <1>r DEF HandlerFor, TableOf
<1>5. CASE RunCallback(a)
  <2>0. f.pc = "run"
    BY <1>1, <1>5 DEF RunCallback
  <2>1. PICK ok \in BOOLEAN :
          /\ SetFrame(a, IF ok THEN [f EXCEPT !.idx = @ + 1]
                         ELSE [f EXCEPT !.pc = "report", !.failed = TRUE])
          /\ Discharge(f.table, f.idx, ok)
    BY <1>1, <1>5 DEF RunCallback
  <2>2. CASE ok
    <3>1. d # <<"chkpt", f.idx>>
      BY <1>r, <2>0, <2>1, <2>2 DEF Discharge
    <3>2. d[2] # f.idx
      BY <1>3, <3>1 DEF Entry
    <3>3. HandlerFor([f EXCEPT !.idx = @ + 1], d)
      <4>1. d[2] < f.idx + 1 => IsThread(d)
        BY <1>0, <1>1, <1>r, <2>0, <3>2
      <4> QED BY <1>1, <1>r, <2>0, <4>1, FrameFields DEF HandlerFor
    <3> QED BY <1>2, <1>u, <2>1, <2>2, <3>3, HandlerMoves
  <2>3. CASE ~ok
    <3>1. HandlerFor([f EXCEPT !.pc = "report", !.failed = TRUE], d)
      BY <1>1, FrameFields DEF HandlerFor
    <3> QED BY <1>2, <1>u, <2>1, <2>3, <3>1, HandlerMoves
  <2> QED BY <2>2, <2>3
<1>6. CASE SkipEntry(a)
  <2>0. f.pc = "run" /\ SetFrame(a, [f EXCEPT !.idx = @ + 1])
    BY <1>1, <1>6 DEF SkipEntry
  <2>1. ~(f.idx <= Len(info["chkpt"]) /\ info["chkpt"][f.idx] = "signal")
    BY <1>1, <1>6, <1>r, <2>0 DEF SkipEntry, HasEntry, ContextOf
  <2>2. d[2] = f.idx => IsThread(d)
    BY <1>0, <1>3, <2>1 DEF IsThread, Contexts, Entry
  <2>3. HandlerFor([f EXCEPT !.idx = @ + 1], d)
    <3>1. d[2] < f.idx + 1 => IsThread(d)
      BY <1>0, <1>1, <1>r, <2>0, <2>2
    <3> QED BY <1>1, <1>r, <2>0, <3>1, FrameFields DEF HandlerFor
  <2> QED BY <1>2, <1>u, <2>0, <2>3, HandlerMoves
<1>7. CASE EndOfTable(a)
  <2>0. f.pc = "run" /\ SetFrame(a, [f EXCEPT !.pc = "report"]) /\ ~(f.idx <= Len(info["chkpt"]))
    BY <1>1, <1>3, <1>7 DEF EndOfTable, MoreToRun
  <2>1. IsThread(d)
    BY <1>0, <1>1, <1>3, <1>r, <2>0 DEF Entry
  <2>2. HandlerFor([f EXCEPT !.pc = "report"], d)
    BY <2>1 DEF HandlerFor
  <2> QED BY <1>2, <1>u, <2>0, <2>2, HandlerMoves
<1> QED BY <1>4, <1>5, <1>6, <1>7

(* The run of the callbacks by the worker.                                 *)
LEMMA LoopRuns ==
  ASSUME TypeInv, NEW d, Awaited(d), NEW w \in Workers,
         LET a == <<"loop", w>> IN
           PickTable(a) \/ RunCallback(a) \/ SkipEntry(a) \/ EndOfTable(a),
         NEW t \in Tools, d \in due'[t]
  PROVE  Awaited(d)'
<1> DEFINE a == <<"loop", w>>
           f == loop[w]
<1>0. /\ loop \in [Workers -> Frame] /\ info["chkpt"] \in Seq(Contexts)
      /\ d[2] \in Nat /\ Len(info["chkpt"]) \in Nat /\ info["chkpt"][d[2]] \in Contexts
  BY AwaitedFacts
<1>1. frame[a] = f /\ f \in Frame /\ f.idx \in Nat /\ f.pc \in Busy
  BY <1>0 DEF loop, Frame, Busy, PickTable, RunCallback, SkipEntry, EndOfTable
<1>2. Received
  BY <1>1 DEF Awaited, Sent
<1>3. currentHook = "chkpt" /\ LoopFor(f, d) /\ Entry(d) /\ IsThread(d)
  BY <1>1, <1>2 DEF Received, Awaited, LoopFor
<1>u. UNCHANGED <<info, pending, currentHook, threadRunning, mutexLocked>>
  BY DEF PickTable, RunCallback, SkipEntry, EndOfTable, libVars, kernVars
<1>4. CASE PickTable(a)
  <2>1. SetFrame(a, [IdleFrame EXCEPT !.pc = "run", !.table = "chkpt"])
    BY <1>3, <1>4 DEF PickTable
  <2>2. LoopFor([IdleFrame EXCEPT !.pc = "run", !.table = "chkpt"], d)
    <3>1. 1 <= d[2]
      BY <1>3, <1>0 DEF Entry
    <3> QED BY <1>3, <3>1 DEF LoopFor, IdleFrame
  <2> QED BY <1>2, <1>3, <1>u, <2>1, <2>2, LoopMoves
<1>r. ASSUME f.pc = "run"
      PROVE  /\ f.table = "chkpt" /\ f.src = "live" /\ f.idx <= d[2]
             /\ TableOf(f) = info["chkpt"]
  BY <1>3, <1>r DEF LoopFor, TableOf
<1>n. ASSUME f.pc = "run", d[2] # f.idx
      PROVE  LoopFor([f EXCEPT !.idx = @ + 1], d)
  <2>1. f.idx + 1 <= d[2]
    BY <1>0, <1>1, <1>r, <1>n
  <2> QED BY <1>1, <1>3, <1>r, <1>n, <2>1, FrameFields DEF LoopFor
<1>5. CASE RunCallback(a)
  <2>0. f.pc = "run"
    BY <1>1, <1>5 DEF RunCallback
  <2>1. PICK ok \in BOOLEAN :
          /\ SetFrame(a, IF ok THEN [f EXCEPT !.idx = @ + 1]
                         ELSE [f EXCEPT !.pc = "report", !.failed = TRUE])
          /\ Discharge(f.table, f.idx, ok)
    BY <1>1, <1>5 DEF RunCallback
  <2>2. CASE ok
    <3>1. d # <<"chkpt", f.idx>>
      BY <1>r, <2>0, <2>1, <2>2 DEF Discharge
    <3>2. d[2] # f.idx
      BY <1>3, <3>1 DEF Entry
    <3>3. LoopFor([f EXCEPT !.idx = @ + 1], d)
      BY <1>n, <2>0, <3>2
    <3> QED BY <1>2, <1>3, <1>u, <2>1, <2>2, <3>3, LoopMoves
  <2>3. CASE ~ok
    <3>1. LoopFor([f EXCEPT !.pc = "report", !.failed = TRUE], d)
      BY <1>1, <1>3, FrameFields DEF LoopFor
    <3> QED BY <1>2, <1>3, <1>u, <2>1, <2>3, <3>1, LoopMoves
  <2> QED BY <2>2, <2>3
<1>6. CASE SkipEntry(a)
  <2>0. f.pc = "run" /\ SetFrame(a, [f EXCEPT !.idx = @ + 1])
    BY <1>1, <1>6 DEF SkipEntry
  <2>1. ~(f.idx <= Len(info["chkpt"]) /\ info["chkpt"][f.idx] = "thread")
    BY <1>1, <1>6, <1>r, <2>0 DEF SkipEntry, HasEntry, ContextOf
  <2>2. d[2] # f.idx
    BY <1>0, <1>3, <2>1 DEF IsThread, Entry
  <2> QED BY <1>2, <1>3, <1>n, <1>u, <2>0, <2>2, LoopMoves
<1>7. CASE EndOfTable(a)
  <2>0. f.pc = "run" /\ ~(f.idx <= Len(info["chkpt"]))
    BY <1>1, <1>3, <1>7 DEF EndOfTable, MoreToRun
  <2> QED BY <1>0, <1>1, <1>3, <1>r, <2>0 DEF Entry
<1> QED BY <1>4, <1>5, <1>6, <1>7

(* A step that registers a callback, or brings a worker to the mutex.      *)
LEMMA StepsAside ==
  ASSUME NEW d, Awaited(d), UNCHANGED <<pending, currentHook>>, handler' = handler,
         Entry(d)', IsThread(d)' <=> IsThread(d), WorkerMayRun' => WorkerMayRun,
         \A w \in Workers : loop'[w] = loop[w] \/ loop'[w].pc \notin Busy
  PROVE  Awaited(d)'
<1>1. Sent' \/ Received'
  BY DEF Awaited, Sent, Received
<1>2. ASSUME NEW th \in Threads PROVE HandlerFor(handler[th], d)'
  BY DEF Awaited, HandlerFor
<1>3. ASSUME NEW w \in Workers PROVE LoopFor(loop[w], d)'
  BY DEF Awaited, LoopFor, Busy
<1> QED BY <1>1, <1>2, <1>3 DEF Awaited

(* A new entry does not move the one that is due.                          *)
LEMMA EntryStays ==
  ASSUME TypeInv, NEW d, Awaited(d),
         info' = info \/ \E h \in Hooks, c \in Contexts : AddCallback(h, c)
  PROVE  Entry(d)' /\ (IsThread(d)' <=> IsThread(d))
<1>0. /\ info \in [Hooks -> Seq(Contexts)] /\ "chkpt" \in Hooks /\ Entry(d)
      /\ d[2] \in Nat /\ Len(info["chkpt"]) \in Nat
  BY AwaitedFacts DEF Awaited, Hooks
<1>1. CASE info' = info
  BY <1>0, <1>1 DEF Entry, IsThread
<1>2. ASSUME NEW h \in Hooks, NEW c \in Contexts, AddCallback(h, c)
      PROVE  Entry(d)' /\ (IsThread(d)' <=> IsThread(d))
  <2>1. /\ info'["chkpt"] \in Seq(Contexts) /\ Len(info["chkpt"]) <= Len(info'["chkpt"])
        /\ info'["chkpt"][d[2]] = info["chkpt"][d[2]]
    BY <1>0, <1>2, AddedEntry DEF Entry
  <2>2. info' \in [Hooks -> Seq(Contexts)]
    <3>1. Append(info[h], c) \in Seq(Contexts)
      BY <1>0, <1>2, AppendProperties
    <3> QED BY <1>0, <1>2, <3>1 DEF AddCallback
  <2>3. info' # NULL
    BY <2>2, NullIsNoTable
  <2>4. Len(info'["chkpt"]) \in Nat
    BY <2>1, LenProperties
  <2>5. d[2] \in 1 .. Len(info'["chkpt"])
    BY <1>0, <2>1, <2>4 DEF Entry
  <2> QED BY <1>0, <2>1, <2>3, <2>5 DEF Entry, IsThread
<1> QED BY <1>1, <1>2

(* A message sent to a queue that is there.                                *)
LEMMA ErrSent ==
  ASSUME TypeInv, queue.exists, NEW m, send_message(m)
  PROVE  queue'.exists /\ queue'.msgs = Append(queue.msgs, m)
<1>1. queue \in [exists : BOOLEAN, msgs : Seq({"ok", "err"})]
  BY DEF TypeInv, TypeOK
<1> QED BY <1>1 DEF send_message

(* While a callback is due, no step of the application lets its tool hear  *)
(* of success.                                                             *)
LEMMA AwaitedStep ==
  ASSUME TypeInv, LibInv, NEW d, Awaited(d), queue.exists, NEW t \in Tools, d \in due'[t],
         \/ AppStep
         \/ \E h \in Hooks, c \in Contexts : register_callback(h, c)
         \/ CalledWithoutInit \/ AppDies
  PROVE  StillAwaited(d)
<1>0. /\ handler \in [Threads -> Frame] /\ loop \in [Workers -> Frame]
      /\ info \in [Hooks -> Seq(Contexts)] /\ info # NULL
  BY AwaitedFacts DEF Awaited, Entry
<1>l. \A w \in Workers : frame[<<"loop", w>>] = loop[w]
  BY DEF loop
<1>h. \A th \in Threads : frame[<<"handler", th>>] = handler[th]
  BY DEF handler
<1>1. CASE LockForWorker
  <2>1. /\ UNCHANGED <<pending, currentHook, info, frame, queue>> /\ mutexLocked' = TRUE
    BY <1>1 DEF LockForWorker, kernVars
  <2>2. ~WorkerMayRun'
    BY <2>1 DEF WorkerMayRun
  <2> QED BY <2>1, <2>2, SameViews, EntryStays, StepsAside DEF StillAwaited
<1>2. ASSUME NEW w \in Workers, CreateWorker(w)
      PROVE  StillAwaited(d)
  <2>1. /\ UNCHANGED <<pending, currentHook, threadRunning, mutexLocked, queue>>
        /\ SetFrame(<<"loop", w>>, [IdleFrame EXCEPT !.pc = "start"])
        /\ AddCallback(main.hook, "thread") /\ main.pc = "create"
    BY <1>2 DEF CreateWorker, kernVars
  <2>2. main.hook \in Hooks /\ "thread" \in Contexts /\ threadRunning
    BY <2>1 DEF LibInv, TypeInv, PointersInv, Contexts
  <2>3. loop' = [loop EXCEPT ![w] = [IdleFrame EXCEPT !.pc = "start"]] /\ handler' = handler
    BY <2>1, SetLoop
  <2>4. [IdleFrame EXCEPT !.pc = "start"].pc \notin Busy
    BY DEF IdleFrame, Busy
  <2>5. WorkerMayRun' => WorkerMayRun
    BY <2>1, <2>2 DEF WorkerMayRun
  <2> QED BY <1>0, <2>1, <2>2, <2>3, <2>4, <2>5, EntryStays, StepsAside DEF StillAwaited
<1>3. ASSUME NEW w \in Workers, WorkerStart(w) \/ WorkerTest(w)
      PROVE  StillAwaited(d)
  <2>0. /\ UNCHANGED <<pending, currentHook, info, threadRunning, mutexLocked, queue>>
        /\ loop[w].pc \in {"start", "test"}
    BY <1>3, <1>l DEF WorkerStart, WorkerTest, libVars, kernVars
  <2>1. PICK f : SetFrame(<<"loop", w>>, f) /\ f.pc \in {"test", "lock", "ended"}
    <3>1. CASE WorkerStart(w)
      <4>1. [frame[<<"loop", w>>] EXCEPT !.pc = "test"].pc = "test"
        BY <1>0, <1>l, FramePc
      <4> QED BY <3>1, <4>1 DEF WorkerStart
    <3>2. CASE WorkerTest(w)
      <4>1. \A pc \in {"lock", "ended"} : [IdleFrame EXCEPT !.pc = pc].pc = pc
        BY DEF IdleFrame
      <4> QED BY <3>2, <4>1 DEF WorkerTest
    <3> QED BY <1>3, <3>1, <3>2
  <2>2. loop' = [loop EXCEPT ![w] = f] /\ handler' = handler
    BY <2>1, SetLoop
  <2>3. \A o \in Workers : loop'[o] = loop[o] \/ loop'[o].pc \notin Busy
    BY <1>0, <2>1, <2>2 DEF Busy
  <2>4. WorkerMayRun' => WorkerMayRun
    <3>1. \A o \in Workers \ {w} : loop'[o] = loop[o]
      BY <1>0, <2>2
    <3> QED BY <2>0, <3>1 DEF WorkerMayRun
  <2> QED BY <2>0, <2>2, <2>3, <2>4, EntryStays, StepsAside DEF StillAwaited
<1>4. ASSUME NEW w \in Workers, WorkerLock(w)
      PROVE  StillAwaited(d)
  <2>1. /\ UNCHANGED <<pending, currentHook, info, threadRunning, queue>> /\ mutexLocked' = TRUE
        /\ loop[w].pc = "lock" /\ ~mutexLocked
        /\ SetFrame(<<"loop", w>>, [loop[w] EXCEPT !.pc = "pick"])
    BY <1>4, <1>l DEF WorkerLock, kernVars
  <2>2. WorkerMayRun
    BY <2>1 DEF WorkerMayRun
  <2>3. Received /\ IsThread(d)
    BY <2>2 DEF Awaited, Sent
  <2>4. [loop[w] EXCEPT !.pc = "pick"].pc = "pick"
    BY <1>0, FramePc
  <2>5. LoopFor([loop[w] EXCEPT !.pc = "pick"], d)
    BY <2>3, <2>4 DEF LoopFor
  <2> QED BY <2>1, <2>3, <2>5, LoopMoves DEF StillAwaited
<1>5. ASSUME NEW w \in Workers, WorkerReport(w)
      PROVE  StillAwaited(d)
  <2>1. loop[w].pc = "report"
    BY <1>5, <1>l DEF WorkerReport
  <2>2. Received /\ loop[w].failed
    BY <2>1 DEF Awaited, Sent, LoopFor, Busy
  <2>3. send_message("err")
    BY <1>5, <1>l, <2>2 DEF WorkerReport, Received
  <2> QED BY <2>3, ErrSent DEF StillAwaited
<1>6. ASSUME NEW a \in Activities, PickTable(a) \/ RunCallback(a) \/ SkipEntry(a) \/ EndOfTable(a)
      PROVE  StillAwaited(d)
  <2>1. queue' = queue
    BY <1>6 DEF PickTable, RunCallback, SkipEntry, EndOfTable, kernVars
  <2>2. Awaited(d)'
    BY <1>6, HandlerRuns, LoopRuns, Activity
  <2> QED BY <2>1, <2>2 DEF StillAwaited
<1>7. CASE \/ DeliverAborts \/ CalledWithoutInit \/ AppDies
           \/ \E a \in Activities : AbortedRun(a)
  <2>1. UNCHANGED <<pending, currentHook, info, frame, threadRunning, mutexLocked, queue>>
    BY <1>7 DEF DeliverAborts, CalledWithoutInit, AppDies, AbortedRun, CR_CB_ABORT, appVars, libVars
  <2>2. WorkerMayRun' => WorkerMayRun
    BY <2>1, SameViews DEF WorkerMayRun
  <2> QED BY <2>1, <2>2, SameViews, EntryStays, StepsAside DEF StillAwaited
<1>8. ASSUME NEW th \in Threads, Deliver(th)
      PROVE  StillAwaited(d)
  <2> DEFINE f == [IdleFrame EXCEPT !.pc = "pick"]
  <2>0. /\ pending[NextSignal] > 0 /\ pending' = [pending EXCEPT ![NextSignal] = @ - 1]
        /\ currentHook' = NextSignal /\ SetFrame(<<"handler", th>>, f)
        /\ UNCHANGED <<info, threadRunning, mutexLocked, queue>>
    BY <1>8 DEF Deliver
  <2>1. pending \in [Hooks -> Nat] /\ pending["rst"] = 0 /\ pending["cnt"] = 0
    BY DEF TypeInv, TypeOK, Awaited
  <2>2. Sent /\ NextSignal = "chkpt"
    BY <2>0, <2>1 DEF Awaited, Sent, Received, NextSignal, Hooks
  <2>3. /\ currentHook' = "chkpt" /\ pending'["chkpt"] = 0
        /\ pending'["rst"] = 0 /\ pending'["cnt"] = 0
    BY <2>0, <2>1, <2>2 DEF Sent, Hooks
  <2>4. handler' = [handler EXCEPT ![th] = f] /\ loop' = loop
    BY <2>0, SetHandler
  <2>5. f.pc = "pick"
    BY DEF IdleFrame
  <2> HIDE DEF f
  <2>6. Entry(d)' /\ (IsThread(d)' <=> IsThread(d))
    BY <2>0, EntryStays
  <2>7. ASSUME NEW o \in Threads PROVE HandlerFor(handler[o], d)'
    <3>1. handler'[o].pc \notin {"run", "report", "wake"}
      BY <1>0, <2>2, <2>4, <2>5, <2>7 DEF Sent, Busy
    <3> QED BY <3>1 DEF HandlerFor
  <2>8. ASSUME NEW w \in Workers PROVE LoopFor(loop[w], d)'
    BY <2>4, <2>6, <2>8 DEF Awaited, LoopFor
  <2>9. ~WorkerMayRun'
    BY <2>0, <2>2, <2>4 DEF Sent, WorkerMayRun
  <2> QED BY <2>0, <2>3, <2>6, <2>7, <2>8, <2>9 DEF Awaited, Received, StillAwaited
<1>9. ASSUME NEW th \in Threads, HandlerReport(th)
      PROVE  StillAwaited(d)
  <2>1. handler[th].pc = "report" /\ SetFrame(<<"handler", th>>, [handler[th] EXCEPT !.pc = "wake"])
    BY <1>9, <1>h DEF HandlerReport
  <2>2. Received /\ HandlerFor(handler[th], d) /\ Entry(d)
    BY <2>1 DEF Awaited, Sent, Busy
  <2>3. CASE handler[th].failed
    <3>1. send_message("err")
      BY <1>9, <1>h, <2>2, <2>3 DEF HandlerReport, Received
    <3> QED BY <3>1, ErrSent DEF StillAwaited
  <2>4. CASE ~handler[th].failed
    <3>1. IsThread(d)
      BY <2>1, <2>2, <2>4 DEF HandlerFor
    <3>2. threadRunning
      BY <1>0, <2>2, <3>1 DEF LibInv, IsThread, Entry, Hooks
    <3>3. UNCHANGED <<queue, info, pending, currentHook, threadRunning, mutexLocked>>
      BY <1>9, <1>h, <2>4, <3>2 DEF HandlerReport, libVars
    <3>4. [handler[th] EXCEPT !.pc = "wake"].pc = "wake"
      BY <1>0, FramePc
    <3>5. HandlerFor([handler[th] EXCEPT !.pc = "wake"], d)
      BY <3>1, <3>4 DEF HandlerFor
    <3> QED BY <2>1, <2>2, <3>3, <3>5, HandlerMoves DEF StillAwaited
  <2> QED BY <2>3, <2>4
<1>10. ASSUME NEW th \in Threads, HandlerWake(th)
       PROVE  StillAwaited(d)
  <2>1. /\ handler[th].pc = "wake" /\ SetFrame(<<"handler", th>>, IdleFrame)
        /\ UNCHANGED <<info, pending, currentHook, threadRunning, queue>>
    BY <1>10, <1>h DEF HandlerWake, kernVars
  <2>2. Received /\ IsThread(d)
    BY <2>1 DEF Awaited, Sent, HandlerFor
  <2>3. HandlerFor(IdleFrame, d)
    BY DEF HandlerFor, IdleFrame
  <2> QED BY <2>1, <2>2, <2>3, HandlerMoves DEF StillAwaited
<1>11. ASSUME NEW h \in Hooks, NEW c \in Contexts, register_callback(h, c)
       PROVE  StillAwaited(d)
  <2>1. /\ UNCHANGED <<pending, currentHook, frame, threadRunning, mutexLocked, queue>>
        /\ info' = info \/ AddCallback(h, c)
    BY <1>11 DEF register_callback, kernVars
  <2>2. WorkerMayRun' => WorkerMayRun
    BY <2>1, SameViews DEF WorkerMayRun
  <2> QED BY <1>11, <2>1, <2>2, SameViews, EntryStays, StepsAside DEF StillAwaited
<1> QED BY <1>1, <1>2, <1>3, <1>4, <1>5, <1>6, <1>7, <1>8, <1>9, <1>10, <1>11 DEF AppStep

(* The head of a queue to which a message is added.                        *)
LEMMA HeadStays ==
  ASSUME NEW s \in Seq({"ok", "err"}), NEW m \in {"ok", "err"}
  PROVE  /\ Append(s, m) # <<>>
         /\ s # <<>> => Head(Append(s, m)) = Head(s)
         /\ s = <<>> => Head(Append(s, m)) = m
<1>1. /\ Append(s, m) \in Seq({"ok", "err"}) /\ Len(Append(s, m)) = Len(s) + 1
      /\ \A n \in 1 .. Len(s) : Append(s, m)[n] = s[n] /\ Append(s, m)[Len(s) + 1] = m
      /\ Len(s) \in Nat
  BY AppendProperties, LenProperties
<1>2. Append(s, m) # <<>>
  BY <1>1
<1>3. ASSUME s # <<>> PROVE Head(Append(s, m)) = Head(s)
  <2>1. 1 \in 1 .. Len(s)
    BY <1>1, <1>3, EmptySeq
  <2>2. Head(Append(s, m)) = Append(s, m)[1] /\ Head(s) = s[1]
    OBVIOUS
  <2> QED BY <1>1, <2>1, <2>2
<1>4. ASSUME s = <<>> PROVE Head(Append(s, m)) = m
  BY <1>4
<1> QED BY <1>2, <1>3, <1>4

(* A tool with an identifier of the queue is between msgget and IPC_RMID.  *)
ValidOf(t) ==
  /\ tool[t].valid => tool[t].pc \in {"kill", "msgrcv", "rmid"} /\ queue.exists
  /\ tool[t].pc = "rmid" => tool[t].mtype \in {"ok", "err"}
ValidInv == \A t \in Tools : ValidOf(t)

(* What a call whose signal was the only thing the library did knows: no   *)
(* other call waits for a message; while there is none, every callback due *)
(* is awaited; a message, or a return value, of success means that none is *)
(* due.                                                                    *)
Waits(t) == tool[t].pc = "msgrcv" /\ tool[t].valid
Acknowledged(t) == \/ Waits(t) /\ queue.msgs # <<>> /\ Head(queue.msgs) = "ok"
                   \/ tool[t].pc = "rmid" /\ tool[t].mtype = "ok"
                   \/ tool[t].pc = "freeze"
SessionOf(t) == ~disturbed[t] /\ tool[t].detected =>
  /\ tool[t].pc = "msgrcv" => \A u \in Tools \ {t} : tool[u].pc # "msgrcv"
  /\ Waits(t) /\ queue.msgs = <<>> => \A d \in due[t] : Awaited(d)
  /\ Acknowledged(t) => due[t] = {}
SessionInv == \A t \in Tools : SessionOf(t)
AckInv == TypeInv /\ LibInv /\ ValidInv /\ SessionInv

(* What a step of the application does to the history and to the queue.    *)
Replaces == cr_callback_init \/ cr_callback_init_fails \/ cr_callback_exit \/ CreateWorkerFails
LEMMA AppEffect ==
  ASSUME TypeInv, AppStep \/ ApiStep
  PROVE  /\ \A t \in Tools : due'[t] \subseteq due[t]
         /\ queue' = queue \/ \E m \in {"ok", "err"} : send_message(m)
         /\ IF Replaces THEN \A t \in Tools : disturbed'[t] ELSE disturbed' = disturbed
<1> DEFINE Effect ==
      /\ \A t \in Tools : due'[t] \subseteq due[t]
      /\ queue' = queue \/ \E m \in {"ok", "err"} : send_message(m)
      /\ IF Replaces THEN \A t \in Tools : disturbed'[t] ELSE disturbed' = disturbed
<1> SUFFICES Effect
  OBVIOUS
<1>1. CASE Replaces
  <2>1. Disturb /\ queue' = queue
    BY <1>1 DEF Replaces, cr_callback_init, cr_callback_init_fails, cr_callback_exit,
         CreateWorkerFails, free_info_memory, kernVars
  <2>2. due' = due /\ \A t \in Tools : disturbed'[t]
    BY <2>1 DEF Disturb
  <2> QED BY <1>1, <2>1, <2>2
<1>2. ASSUME ~Replaces, UNCHANGED history,
             queue' = queue \/ \E m \in {"ok", "err"} : send_message(m)
      PROVE  Effect
  BY <1>2 DEF history
<1>3. CASE ~Replaces /\ ApiStep
  <2>1. UNCHANGED history /\ queue' = queue
    BY <1>3 DEF Replaces, ApiStep, register_callback, CalledWithoutInit, AppDies, CR_CB_ABORT, kernVars
  <2> QED BY <1>2, <1>3, <2>1
<1>4. CASE ~Replaces /\ AppStep
  <2>1. ASSUME NEW a \in Activities, RunCallback(a)
        PROVE  Effect
    <3>1. /\ \A t \in Tools : due'[t] \subseteq due[t]
          /\ disturbed' = disturbed /\ queue' = queue
      BY <2>1 DEF RunCallback, Discharge, kernVars
    <3> QED BY <1>4, <3>1
  <2>2. CASE LockForWorker \/ DeliverAborts
    BY <1>2, <1>4, <2>2 DEF LockForWorker, DeliverAborts, CR_CB_ABORT, kernVars
  <2>3. ASSUME NEW w \in Workers,
               CreateWorker(w) \/ WorkerStart(w) \/ WorkerTest(w) \/ WorkerLock(w) \/ WorkerReport(w)
        PROVE  Effect
    <3>1. CASE WorkerReport(w)
      BY <1>2, <1>4, <3>1 DEF WorkerReport
    <3>2. CASE CreateWorker(w) \/ WorkerStart(w) \/ WorkerTest(w) \/ WorkerLock(w)
      BY <1>2, <1>4, <3>2 DEF CreateWorker, WorkerStart, WorkerTest, WorkerLock, kernVars
    <3> QED BY <2>3, <3>1, <3>2
  <2>4. ASSUME NEW a \in Activities,
               PickTable(a) \/ SkipEntry(a) \/ EndOfTable(a) \/ AbortedRun(a)
        PROVE  Effect
    BY <1>2, <1>4, <2>4 DEF PickTable, SkipEntry, EndOfTable, AbortedRun, CR_CB_ABORT, kernVars
  <2>5. ASSUME NEW th \in Threads, Deliver(th) \/ HandlerReport(th) \/ HandlerWake(th)
        PROVE  Effect
    <3>1. CASE HandlerReport(th)
      BY <1>2, <1>4, <3>1 DEF HandlerReport
    <3>2. CASE Deliver(th) \/ HandlerWake(th)
      BY <1>2, <1>4, <3>2 DEF Deliver, HandlerWake, kernVars
    <3> QED BY <2>5, <3>1, <3>2
  <2> HIDE DEF Effect
  <2> QED BY <1>4, <2>1, <2>2, <2>3, <2>4, <2>5 DEF AppStep
<1> QED BY <1>1, <1>3, <1>4

(* The application's steps keep what a call knows.                         *)
LEMMA SessionApp ==
  ASSUME AckInv, AppStep \/ ApiStep, NEW t \in Tools
  PROVE  SessionOf(t)'
<1>0. /\ TypeInv /\ LibInv /\ ValidOf(t) /\ SessionOf(t) /\ due'[t] \subseteq due[t]
      /\ tool' = tool /\ queue'.exists = queue.exists
      /\ queue \in [exists : BOOLEAN, msgs : Seq({"ok", "err"})]
  BY AppEffect, AppKeepsQueue DEF AckInv, ValidInv, SessionInv, TypeInv, TypeOK
<1> SUFFICES ASSUME ~disturbed'[t], tool'[t].detected
             PROVE  /\ tool'[t].pc = "msgrcv" => \A u \in Tools \ {t} : tool'[u].pc # "msgrcv"
                    /\ Waits(t)' /\ queue'.msgs = <<>> => \A d \in due'[t] : Awaited(d)'
                    /\ Acknowledged(t)' => due'[t] = {}
  BY DEF SessionOf
<1>1. ~Replaces /\ ~disturbed[t] /\ tool[t].detected /\ (Waits(t)' <=> Waits(t))
  BY <1>0, AppEffect DEF Waits
<1>2. /\ tool[t].pc = "msgrcv" => \A u \in Tools \ {t} : tool[u].pc # "msgrcv"
      /\ Waits(t) /\ queue.msgs = <<>> => \A d \in due[t] : Awaited(d)
      /\ Acknowledged(t) => due[t] = {}
  BY <1>0, <1>1 DEF SessionOf
<1>3. \/ AppStep
      \/ \E h \in Hooks, c \in Contexts : register_callback(h, c)
      \/ CalledWithoutInit \/ AppDies
  BY <1>1 DEF ApiStep, Replaces
<1>4. queue' = queue \/ \E m \in {"ok", "err"} : queue'.msgs = Append(queue.msgs, m)
  <2>1. ASSUME NEW m \in {"ok", "err"}, send_message(m)
        PROVE  queue' = queue \/ queue'.msgs = Append(queue.msgs, m)
    BY <1>0, <2>1 DEF send_message
  <2>2. queue' = queue \/ \E m \in {"ok", "err"} : send_message(m)
    BY <1>0, AppEffect
  <2> QED BY <2>1, <2>2
<1>5. ASSUME Waits(t), queue.msgs = <<>>, NEW d \in due'[t]
      PROVE  StillAwaited(d)
  <2>1. Awaited(d) /\ queue.exists
    BY <1>0, <1>2, <1>5 DEF Waits, ValidOf
  <2> QED BY <1>0, <1>3, <1>5, <2>1, AwaitedStep
<1>6. queue'.msgs = <<>> => queue.msgs = <<>> /\ queue' = queue
  BY <1>0, <1>4, HeadStays
<1>7. ASSUME Waits(t)', queue'.msgs = <<>>, NEW d \in due'[t]
      PROVE  Awaited(d)'
  <2>1. StillAwaited(d)
    BY <1>1, <1>5, <1>6, <1>7
  <2>2. queue'.msgs # Append(queue.msgs, "err")
    BY <1>0, <1>7, HeadStays
  <2> QED BY <2>1, <2>2 DEF StillAwaited
<1>8. ASSUME Acknowledged(t)' PROVE due'[t] = {}
  <2>1. CASE Acknowledged(t)
    BY <1>0, <1>2, <2>1
  <2>2. CASE ~Acknowledged(t)
    <3>1. Waits(t) /\ queue'.msgs # <<>> /\ Head(queue'.msgs) = "ok"
      BY <1>0, <1>1, <1>8, <2>2 DEF Acknowledged
    <3>2. queue.msgs = <<>>
      <4>1. CASE queue' = queue
        BY <2>2, <3>1, <4>1 DEF Acknowledged
      <4>2. ASSUME NEW m \in {"ok", "err"}, queue'.msgs = Append(queue.msgs, m),
                   queue.msgs # <<>>
            PROVE  FALSE
        <5>1. Head(queue'.msgs) = Head(queue.msgs)
          BY <1>0, <4>2, HeadStays
        <5> QED BY <2>2, <3>1, <4>2, <5>1 DEF Acknowledged
      <4> QED BY <1>4, <4>1, <4>2
    <3>3. ASSUME NEW d \in due'[t] PROVE FALSE
      <4>1. StillAwaited(d)
        BY <1>5, <3>1, <3>2, <3>3
      <4>2. queue' # queue
        BY <3>1, <3>2
      <4>3. queue'.msgs = Append(queue.msgs, "err")
        BY <4>1, <4>2 DEF StillAwaited
      <4>4. Head(queue'.msgs) = "err"
        BY <1>0, <3>2, <4>3, HeadStays
      <4> QED BY <3>1, <4>4
    <3> QED BY <3>3
  <2> QED BY <2>1, <2>2
<1> QED BY <1>0, <1>2, <1>7, <1>8

(* A step that sends no signal and is none of the application's.           *)
LEMMA AwaitedSame ==
  ASSUME NEW d, Awaited(d), UNCHANGED <<appVars, pending>>
  PROVE  Awaited(d)'
<1>1. UNCHANGED <<info, threadRunning, currentHook, mutexLocked, frame>>
  BY DEF appVars, libVars
<1>2. handler' = handler /\ loop' = loop
  BY <1>1, SameViews
<1>3. WorkerMayRun' => WorkerMayRun
  BY <1>1, <1>2 DEF WorkerMayRun
<1> QED BY <1>1, <1>2, <1>3, StepsAside DEF Awaited, Entry, IsThread

(* The error returns of a tool's calls.                                    *)
Returns(t) == \/ ToolInterrupted(t) \/ ToolResumeFails(t) \/ ToolMsggetFails(t)
              \/ ToolKillFails(t) \/ ToolMsgrcvRemoved(t) \/ ToolRmidFails(t)
              \/ ToolFreezeFails(t)
LEMMA ReturnEffect ==
  ASSUME TypeInv, NEW t \in Tools, Returns(t)
  PROVE  /\ UNCHANGED <<queue, pending, disturbed>>
         /\ tool'[t] = IdleTool
         /\ \A u \in Tools \ {t} : tool'[u] = tool[u] /\ due'[u] = due[u]
<1>0. tool \in [Tools -> ToolState] /\ due \in [Tools -> SUBSET (Hooks \X Nat)]
  BY DEF TypeInv, TypeOK
<1>1. SessionFails(t) /\ UNCHANGED kernVars
  BY DEF Returns, ToolInterrupted, ToolResumeFails, ToolMsggetFails, ToolKillFails,
       ToolMsgrcvRemoved, ToolRmidFails, ToolFreezeFails
<1> QED BY <1>0, <1>1 DEF SessionFails, SetTool, kernVars

(* Every other step of a tool, by what it does to that tool and the queue. *)
LEMMA GoesOn ==
  ASSUME TypeInv, NEW t \in Tools, ValidOf(t), ToolAction(t), ~Returns(t), ~ToolRmid(t)
  PROVE  /\ \A u \in Tools \ {t} : tool'[u] = tool[u]
         /\ tool'[t].pc = "msgrcv" => ToolKill(t)
         /\ tool'[t].pc = "rmid" => ToolMsgrcv(t) /\ tool'[t].mtype = Head(queue.msgs)
         /\ tool'[t].pc = "freeze" => ~tool'[t].detected
         /\ ValidOf(t)' /\ (queue.exists => queue'.exists)
         /\ queue'.msgs = queue.msgs \/ ToolMsgrcv(t)
<1>0. /\ tool \in [Tools -> ToolState] /\ tool[t] \in ToolState
      /\ queue \in [exists : BOOLEAN, msgs : Seq({"ok", "err"})]
  BY DEF TypeInv, TypeOK
<1>s. ASSUME NEW r, SetTool(t, r)
      PROVE  tool'[t] = r /\ \A u \in Tools \ {t} : tool'[u] = tool[u]
  BY <1>0, <1>s DEF SetTool
<1>1. CASE ToolMsgget(t)
  <2>1. /\ tool'[t] = [tool[t] EXCEPT !.pc = "kill", !.valid = TRUE]
        /\ \A u \in Tools \ {t} : tool'[u] = tool[u]
        /\ queue' = [queue EXCEPT !.exists = TRUE]
    BY <1>1, <1>s DEF ToolMsgget
  <2>2. tool'[t].pc = "kill" /\ queue'.exists /\ queue'.msgs = queue.msgs
    BY <1>0, <2>1 DEF ToolState
  <2> QED BY <2>1, <2>2 DEF ValidOf
<1>2. CASE ToolKill(t)
  <2>1. /\ tool'[t] = [tool[t] EXCEPT !.pc = "msgrcv"] /\ queue' = queue
        /\ \A u \in Tools \ {t} : tool'[u] = tool[u]
    BY <1>2, <1>s DEF ToolKill
  <2>2. tool'[t].pc = "msgrcv" /\ tool'[t].valid = tool[t].valid
    BY <1>0, <2>1 DEF ToolState
  <2> QED BY <1>2, <2>1, <2>2 DEF ValidOf
<1>3. CASE ToolMsgrcv(t)
  <2>1. /\ tool'[t] = [tool[t] EXCEPT !.pc = "rmid", !.mtype = Head(queue.msgs)]
        /\ \A u \in Tools \ {t} : tool'[u] = tool[u]
        /\ queue' = [queue EXCEPT !.msgs = Tail(@)] /\ queue.msgs # <<>>
    BY <1>3, <1>s DEF ToolMsgrcv
  <2>2. tool'[t].pc = "rmid" /\ tool'[t].mtype = Head(queue.msgs) /\ tool'[t].valid = tool[t].valid
    BY <1>0, <2>1 DEF ToolState
  <2>3. queue'.exists = queue.exists
    BY <1>0, <2>1
  <2>4. Head(queue.msgs) \in {"ok", "err"}
    BY <1>0, <2>1, HeadTailProperties
  <2> QED BY <1>3, <2>1, <2>2, <2>3, <2>4 DEF ValidOf
<1>4. CASE ToolFreeze(t) \/ ToolUnfreeze(t) \/ cr_detect_callbacks(t)
  <2>1. /\ tool'[t] \in {IdleTool, [IdleTool EXCEPT !.pc = "resume"],
                         [IdleTool EXCEPT !.pc = "msgget", !.detected = TRUE],
                         [IdleTool EXCEPT !.pc = "freeze"]}
        /\ queue' = queue /\ \A u \in Tools \ {t} : tool'[u] = tool[u]
    BY <1>4, <1>s DEF ToolFreeze, ToolUnfreeze, cr_detect_callbacks, kernVars
  <2>2. /\ tool'[t].pc \in {"idle", "resume", "msgget", "freeze"} /\ ~tool'[t].valid
        /\ tool'[t].pc = "freeze" => ~tool'[t].detected
    <3>1. IdleTool.pc = "idle" /\ ~IdleTool.valid
      BY DEF IdleTool
    <3>2. LET r == [IdleTool EXCEPT !.pc = "resume"] IN r.pc = "resume" /\ ~r.valid
      BY DEF IdleTool
    <3>3. LET r == [IdleTool EXCEPT !.pc = "msgget", !.detected = TRUE] IN
            r.pc = "msgget" /\ ~r.valid
      BY DEF IdleTool
    <3>4. LET r == [IdleTool EXCEPT !.pc = "freeze"] IN
            r.pc = "freeze" /\ ~r.valid /\ ~r.detected
      BY DEF IdleTool
    <3> QED BY <2>1, <3>1, <3>2, <3>3, <3>4
  <2> QED BY <2>1, <2>2 DEF ValidOf
<1>5. ASSUME NEW hook \in {"cnt", "rst"}, ToolResume(t, hook)
      PROVE  /\ \A u \in Tools \ {t} : tool'[u] = tool[u]
             /\ tool'[t].pc = "unfreeze" /\ ~tool'[t].valid /\ queue' = queue
  <2>1. /\ tool'[t] = [tool[t] EXCEPT !.pc = "unfreeze"] /\ queue' = queue
        /\ \A u \in Tools \ {t} : tool'[u] = tool[u] /\ tool[t].pc = "resume"
    BY <1>5, <1>s DEF ToolResume
  <2>2. ~tool[t].valid
    BY <1>5 DEF ToolResume, ValidOf
  <2> QED BY <1>0, <2>1, <2>2 DEF ToolState
<1>6. CASE \E hook \in {"cnt", "rst"} : ToolResume(t, hook)
  BY <1>5, <1>6 DEF ValidOf
<1> QED BY <1>1, <1>2, <1>3, <1>4, <1>6 DEF ToolAction, ToolStep, Returns

(* The removal of the queue, for the tool that removes it and the others.  *)
LEMMA RmidEffect ==
  ASSUME TypeInv, NEW t \in Tools, ToolRmid(t)
  PROVE  /\ UNCHANGED <<pending, disturbed>>
         /\ \A u \in Tools : ~tool'[u].valid
         /\ \A u \in Tools \ {t} : /\ tool'[u].pc = tool[u].pc /\ tool'[u].mtype = tool[u].mtype
                                   /\ tool'[u].detected = tool[u].detected
                                   /\ due'[u] = due[u]
         /\ tool[t].mtype = "err" => tool'[t] = IdleTool
         /\ tool[t].mtype # "err" => /\ tool'[t].pc = "freeze" /\ due'[t] = due[t]
                                     /\ tool'[t].detected = tool[t].detected
<1>0. tool \in [Tools -> ToolState] /\ due \in [Tools -> SUBSET (Hooks \X Nat)]
  BY DEF TypeInv, TypeOK
<1>1. ASSUME NEW u \in Tools \ {t}
      PROVE  /\ ~tool'[u].valid /\ tool'[u].pc = tool[u].pc /\ tool'[u].mtype = tool[u].mtype
             /\ tool'[u].detected = tool[u].detected /\ due'[u] = due[u]
  <2>1. tool'[u] = [tool[u] EXCEPT !.valid = FALSE] /\ tool[u] \in ToolState
    BY <1>0, <1>1 DEF ToolRmid
  <2>2. due'[u] = due[u]
    BY <1>0, <1>1 DEF ToolRmid
  <2> QED BY <2>1, <2>2 DEF ToolState
<1>2. CASE tool[t].mtype = "err"
  <2>1. tool'[t] = IdleTool
    BY <1>2 DEF ToolRmid
  <2>2. ~tool'[t].valid
    BY <2>1 DEF IdleTool
  <2> QED BY <1>1, <1>2, <2>1, <2>2 DEF ToolRmid
<1>3. CASE tool[t].mtype # "err"
  <2>1. tool'[t] = [tool[t] EXCEPT !.pc = "freeze", !.valid = FALSE] /\ tool[t] \in ToolState
    BY <1>0, <1>3 DEF ToolRmid
  <2>2. tool'[t].pc = "freeze" /\ ~tool'[t].valid /\ tool'[t].detected = tool[t].detected
    BY <2>1 DEF ToolState
  <2> QED BY <1>1, <1>3, <2>2 DEF ToolRmid
<1> QED BY <1>2, <1>3

(* ValidInv is inductive.                                                  *)
LEMMA ValidStep == TypeInv /\ ValidInv /\ [Next]_vars => ValidInv'
<1> SUFFICES ASSUME TypeInv, ValidInv, [Next]_vars PROVE ValidInv'
  OBVIOUS
<1>1. ASSUME NEW u \in Tools, ToolAction(u), NEW t \in Tools PROVE ValidOf(t)'
  <2>0. ValidOf(t) /\ ValidOf(u)
    BY <1>1 DEF ValidInv
  <2>1. CASE Returns(u)
    <3>1. CASE t = u
      BY <1>1, <2>1, <3>1, ReturnEffect DEF IdleTool, ValidOf
    <3>2. CASE t # u
      BY <1>1, <2>0, <2>1, <3>2, ReturnEffect DEF ValidOf
    <3> QED BY <3>1, <3>2
  <2>2. CASE ToolRmid(u)
    <3>1. CASE t = u
      <4>1. ~tool'[t].valid /\ tool'[t].pc # "rmid"
        BY <1>1, <2>2, <3>1, RmidEffect DEF IdleTool
      <4> QED BY <4>1 DEF ValidOf
    <3>2. CASE t # u
      BY <1>1, <2>0, <2>2, <3>2, RmidEffect DEF ValidOf
    <3> QED BY <3>1, <3>2
  <2>3. CASE ~Returns(u) /\ ~ToolRmid(u)
    BY <1>1, <2>0, <2>3, GoesOn DEF ValidOf
  <2> QED BY <2>1, <2>2, <2>3
<1>2. CASE UNCHANGED vars
  BY <1>2 DEF ValidInv, ValidOf, vars, kernVars
<1>3. CASE AppStep \/ ApiStep
  BY <1>3, AppKeepsQueue DEF ValidInv, ValidOf
<1> QED BY <1>1, <1>2, <1>3 DEF Next, ToolAction, ValidInv

(* A step of a tool that sends a signal, or does not.                      *)
LEMMA SignalOrNot ==
  ASSUME NEW t \in Tools, ToolAction(t)
  PROVE  \/ \E hook \in Hooks : Signal(t, hook) /\ ~ToolRmid(t) /\ ~Returns(t)
         \/ UNCHANGED <<pending, disturbed>>
<1>1. CASE ToolKill(t)
  <2>1. (Signal(t, "chkpt") /\ ~ToolRmid(t)) \/ UNCHANGED <<pending, disturbed>>
    BY <1>1 DEF ToolKill, ToolRmid
  <2>2. Returns(t) => UNCHANGED <<pending, disturbed>>
    BY DEF Returns, ToolInterrupted, ToolResumeFails, ToolMsggetFails, ToolKillFails,
         ToolMsgrcvRemoved, ToolRmidFails, ToolFreezeFails, SessionFails, kernVars
  <2> QED BY <2>1, <2>2 DEF Hooks
<1>2. ASSUME NEW hook \in {"cnt", "rst"}, ToolResume(t, hook)
      PROVE  \/ \E h \in Hooks : Signal(t, h) /\ ~ToolRmid(t) /\ ~Returns(t)
             \/ UNCHANGED <<pending, disturbed>>
  <2>1. (Signal(t, hook) /\ ~ToolRmid(t)) \/ UNCHANGED <<pending, disturbed>>
    BY <1>2 DEF ToolResume, ToolRmid, history
  <2>2. Returns(t) => UNCHANGED <<pending, disturbed>>
    BY DEF Returns, ToolInterrupted, ToolResumeFails, ToolMsggetFails, ToolKillFails,
         ToolMsgrcvRemoved, ToolRmidFails, ToolFreezeFails, SessionFails, kernVars
  <2>3. hook \in Hooks
    BY <1>2 DEF Hooks
  <2> QED BY <2>1, <2>2, <2>3
<1>3. CASE \/ ToolMsgget(t) \/ ToolMsgrcv(t) \/ ToolRmid(t) \/ ToolFreeze(t)
           \/ ToolUnfreeze(t) \/ cr_detect_callbacks(t)
  BY <1>3 DEF ToolMsgget, ToolMsgrcv, ToolRmid, ToolFreeze, ToolUnfreeze,
       cr_detect_callbacks, kernVars, history
<1>4. CASE Returns(t)
  BY <1>4 DEF Returns, ToolInterrupted, ToolResumeFails, ToolMsggetFails, ToolKillFails,
       ToolMsgrcvRemoved, ToolRmidFails, ToolFreezeFails, SessionFails, kernVars
<1> QED BY <1>1, <1>2, <1>3, <1>4 DEF ToolAction, ToolStep, Returns

(* A step that sends no signal leaves what is due to other tools alone.    *)
LEMMA QuietDue ==
  ASSUME TypeInv, NEW u \in Tools, ToolAction(u), ~ \E hook \in Hooks : Signal(u, hook),
         NEW t \in Tools, t # u
  PROVE  due'[t] = due[t]
<1>0. due \in [Tools -> SUBSET (Hooks \X Nat)]
  BY DEF TypeInv, TypeOK
<1>1. CASE Returns(u)
  BY <1>1, ReturnEffect
<1>2. CASE ToolRmid(u)
  BY <1>0, <1>2 DEF ToolRmid
<1>3. CASE ToolKill(u)
  BY <1>3 DEF ToolKill, Hooks
<1>4. ASSUME NEW hook \in {"cnt", "rst"}, ToolResume(u, hook) PROVE due' = due
  BY <1>4 DEF ToolResume, Hooks, history
<1>5. CASE \/ ToolMsgget(u) \/ ToolMsgrcv(u) \/ ToolFreeze(u) \/ ToolUnfreeze(u)
           \/ cr_detect_callbacks(u)
  BY <1>5 DEF ToolMsgget, ToolMsgrcv, ToolFreeze, ToolUnfreeze, cr_detect_callbacks, history
<1> QED BY <1>1, <1>2, <1>3, <1>4, <1>5 DEF ToolAction, ToolStep, Returns

(* A signal that finds the library at rest: all that is due is awaited.    *)
LEMMA SignalAwaits ==
  ASSUME TypeInv, NEW t \in Tools, Undisturbed(t), Signal(t, "chkpt"), UNCHANGED appVars,
         NEW d \in due'[t]
  PROVE  Awaited(d)'
<1>0. /\ due \in [Tools -> SUBSET (Hooks \X Nat)] /\ pending \in [Hooks -> Nat]
      /\ handler \in [Threads -> Frame] /\ loop \in [Workers -> Frame]
  BY Views DEF TypeInv, TypeOK
<1>u. UNCHANGED <<info, threadRunning, currentHook, mutexLocked, frame>>
  BY DEF appVars, libVars
<1>v. handler' = handler /\ loop' = loop
  BY <1>u, SameViews
<1>1. info # NULL /\ d \in {"chkpt"} \X (1 .. Len(info["chkpt"]))
  BY <1>0 DEF Signal
<1>2. Entry(d)'
  BY <1>1, <1>u DEF Entry
<1>3. pending'["chkpt"] = 1 /\ pending'["rst"] = 0 /\ pending'["cnt"] = 0
  BY <1>0 DEF Signal, Undisturbed, Quiescent, Hooks
<1>4. \A th \in Threads : handler[th].pc \notin Busy \cup {"wake"}
  BY Activity DEF Undisturbed, Quiescent, handler, Busy
<1>5. \A w \in Workers : /\ loop[w].pc \in {"off", "lock", "ended"}
                         /\ loop[w].pc = "lock" => mutexLocked
  BY Activity DEF Undisturbed, Quiescent, loop
<1>6. ~WorkerMayRun
  BY <1>5 DEF WorkerMayRun, Undisturbed, Quiescent
<1>7. ~WorkerMayRun'
  BY <1>6, <1>u, <1>v DEF WorkerMayRun
<1>8. Sent'
  BY <1>3, <1>4, <1>5, <1>7, <1>v DEF Sent, Busy
<1>9. ASSUME NEW th \in Threads PROVE HandlerFor(handler[th], d)'
  BY <1>4, <1>v, <1>9 DEF HandlerFor, Busy
<1>10. ASSUME NEW w \in Workers PROVE LoopFor(loop[w], d)'
  BY <1>5, <1>v, <1>10 DEF LoopFor, Busy
<1> QED BY <1>2, <1>3, <1>7, <1>8, <1>9, <1>10 DEF Awaited

(* What the steps of one tool mean for another.                            *)
LEMMA OthersSession ==
  ASSUME AckInv, NEW u \in Tools, ToolAction(u), NEW t \in Tools, t # u
  PROVE  SessionOf(t)'
<1>0. /\ TypeInv /\ ValidOf(u) /\ ValidOf(t) /\ SessionOf(t) /\ UNCHANGED appVars
      /\ due \in [Tools -> SUBSET (Hooks \X Nat)]
  BY ToolKeepsApp DEF AckInv, ValidInv, SessionInv, TypeInv, TypeOK
<1>1. CASE \E hook \in Hooks : Signal(u, hook)
  <2>1. disturbed'[t] = TRUE
    BY <1>1 DEF Signal
  <2> QED BY <2>1 DEF SessionOf
<1>2. CASE UNCHANGED <<pending, disturbed>> /\ ~ \E hook \in Hooks : Signal(u, hook)
  <2>a. \A d : Awaited(d) => Awaited(d)'
    BY <1>0, <1>2, AwaitedSame
  <2>k. ~ToolKill(u)
    BY <1>2 DEF ToolKill, Hooks
  <2>1. CASE Returns(u)
    <3>1. /\ queue' = queue /\ tool'[t] = tool[t] /\ due'[t] = due[t]
          /\ \A v \in Tools : tool'[v].pc = "msgrcv" => tool[v].pc = "msgrcv"
      BY <1>0, <2>1, ReturnEffect DEF IdleTool
    <3> QED BY <1>0, <1>2, <2>a, <3>1 DEF SessionOf, Waits, Acknowledged
  <2>2. CASE ToolRmid(u)
    <3>1. /\ ~tool'[t].valid /\ tool'[t].pc = tool[t].pc /\ tool'[t].mtype = tool[t].mtype
          /\ tool'[t].detected = tool[t].detected /\ due'[t] = due[t]
          /\ tool'[u].pc # "msgrcv"
          /\ \A v \in Tools \ {u} : tool'[v].pc = tool[v].pc
      BY <1>0, <2>2, RmidEffect DEF IdleTool
    <3> QED BY <1>0, <1>2, <3>1 DEF SessionOf, Waits, Acknowledged
  <2>3. CASE ~Returns(u) /\ ~ToolRmid(u)
    <3>1. /\ tool'[t] = tool[t] /\ tool'[u].pc # "msgrcv"
          /\ \A v \in Tools \ {u} : tool'[v] = tool[v]
          /\ queue'.msgs = queue.msgs \/ tool[u].pc = "msgrcv"
      BY <1>0, <2>3, <2>k, GoesOn DEF ToolMsgrcv
    <3>2. due'[t] = due[t]
      BY <1>0, <1>2, QuietDue
    <3>3. CASE queue'.msgs = queue.msgs
      BY <1>0, <1>2, <2>a, <3>1, <3>2, <3>3 DEF SessionOf, Waits, Acknowledged
    <3>4. CASE tool[u].pc = "msgrcv"
      <4>1. ~disturbed[t] /\ tool[t].detected => tool[t].pc # "msgrcv"
        BY <1>0, <3>4 DEF SessionOf
      <4> QED BY <1>0, <1>2, <3>1, <3>2, <4>1 DEF SessionOf, Waits, Acknowledged
    <3> QED BY <3>1, <3>3, <3>4
  <2> QED BY <2>1, <2>2, <2>3
<1> QED BY <1>1, <1>2, SignalOrNot

(* What its own steps mean for a tool.                                     *)
LEMMA OwnSession ==
  ASSUME AckInv, NEW t \in Tools, ToolAction(t)
  PROVE  SessionOf(t)'
<1>0. /\ TypeInv /\ ValidOf(t) /\ SessionOf(t) /\ UNCHANGED appVars
      /\ due \in [Tools -> SUBSET (Hooks \X Nat)] /\ tool \in [Tools -> ToolState]
  BY ToolKeepsApp DEF AckInv, ValidInv, SessionInv, TypeInv, TypeOK
<1>1. CASE Returns(t)
  <2>1. ~tool'[t].detected
    BY <1>0, <1>1, ReturnEffect DEF IdleTool
  <2> QED BY <2>1 DEF SessionOf
<1>2. CASE ToolRmid(t)
  <2>1. CASE tool[t].mtype = "err"
    <3>1. ~tool'[t].detected
      BY <1>0, <1>2, <2>1, RmidEffect DEF IdleTool
    <3> QED BY <3>1 DEF SessionOf
  <2>2. CASE tool[t].mtype # "err"
    <3>1. tool[t].pc = "rmid" /\ tool[t].mtype = "ok"
      BY <1>0, <1>2, <2>2 DEF ToolRmid, ValidOf
    <3>2. /\ tool'[t].pc = "freeze" /\ ~tool'[t].valid /\ due'[t] = due[t]
          /\ tool'[t].detected = tool[t].detected /\ disturbed' = disturbed
      BY <1>0, <1>2, <2>2, RmidEffect
    <3> QED BY <1>0, <3>1, <3>2 DEF SessionOf, Waits, Acknowledged
  <2> QED BY <2>1, <2>2
<1>3. CASE ~Returns(t) /\ ~ToolRmid(t) /\ ~ToolKill(t) /\ ~ToolMsgrcv(t)
  <2>1. tool'[t].pc \notin {"msgrcv", "rmid"} /\ (tool'[t].pc = "freeze" => ~tool'[t].detected)
    BY <1>0, <1>3, GoesOn
  <2> QED BY <2>1 DEF SessionOf, Waits, Acknowledged
<1>4. CASE ToolMsgrcv(t)
  <2>1. /\ tool'[t] = [tool[t] EXCEPT !.pc = "rmid", !.mtype = Head(queue.msgs)]
        /\ Waits(t) /\ queue.msgs # <<>> /\ UNCHANGED <<due, disturbed>>
    BY <1>0, <1>4 DEF ToolMsgrcv, SetTool, Waits, history
  <2>2. /\ tool'[t].pc = "rmid" /\ tool'[t].mtype = Head(queue.msgs)
        /\ tool'[t].detected = tool[t].detected
    BY <1>0, <2>1 DEF ToolState
  <2>3. Acknowledged(t)' => Acknowledged(t)
    BY <2>1, <2>2 DEF Acknowledged, Waits
  <2> QED BY <1>0, <2>1, <2>2, <2>3 DEF SessionOf, Waits
<1>5. CASE ToolKill(t)
  <2>1. /\ tool'[t] = [tool[t] EXCEPT !.pc = "msgrcv"] /\ UNCHANGED queue
        /\ Signal(t, "chkpt") /\ \A u \in Tools \ {t} : tool'[u] = tool[u]
    BY <1>0, <1>5 DEF ToolKill, SetTool
  <2>2. tool'[t].pc = "msgrcv"
    BY <1>0, <2>1 DEF ToolState
  <2>3. disturbed'[t] = ~Undisturbed(t)
    BY <2>1 DEF Signal
  <2>4. ASSUME Undisturbed(t), NEW d \in due'[t]
        PROVE  Awaited(d)'
    BY <1>0, <2>1, <2>4, SignalAwaits
  <2>5. Undisturbed(t) => queue'.msgs = <<>> /\ \A u \in Tools \ {t} : tool'[u].pc # "msgrcv"
    BY <2>1 DEF Undisturbed
  <2> QED BY <2>2, <2>3, <2>4, <2>5 DEF SessionOf, Waits, Acknowledged
<1> QED BY <1>1, <1>2, <1>3, <1>4, <1>5

(* AckInv is inductive.                                                    *)
LEMMA AckStep == AckInv /\ [Next]_vars => AckInv'
<1> SUFFICES ASSUME AckInv, [Next]_vars PROVE AckInv'
  OBVIOUS
<1>1. TypeInv' /\ LibInv' /\ ValidInv'
  BY TypeStep, LibStep, ValidStep DEF AckInv
<1>2. ASSUME NEW t \in Tools PROVE SessionOf(t)'
  <2>1. CASE UNCHANGED vars
    <3>1. UNCHANGED <<appVars, pending, tool, queue, due, disturbed>>
      BY <2>1 DEF vars, kernVars, history
    <3>2. \A d : Awaited(d) => Awaited(d)'
      BY <3>1, AwaitedSame
    <3>3. SessionOf(t)
      BY DEF AckInv, SessionInv
    <3> QED BY <3>1, <3>2, <3>3 DEF SessionOf, Waits, Acknowledged
  <2>2. ASSUME NEW u \in Tools, ToolAction(u) PROVE SessionOf(t)'
    BY <1>2, <2>2, OwnSession, OthersSession
  <2> QED BY <1>2, <2>1, <2>2, SessionApp DEF Next, ToolAction
<1> QED BY <1>1, <1>2 DEF AckInv, SessionInv

(* A checkpoint call that returns 0 has had every callback run that was    *)
(* registered when it sent its signal, for any number of tools, workers,   *)
(* callbacks, failures, interruptions and calls of the library: unless the *)
(* library was not at rest when the signal came, an answer was left in the *)
(* queue, another call was waiting, another tool has sent a signal since   *)
(* or the application has replaced its tables.                             *)
THEOREM AckIsTrue == Spec => []AckMeansPrepared
<1>1. Init => AckInv
  <2> SUFFICES ASSUME Init PROVE AckInv
    OBVIOUS
  <2>1. \A t \in Tools : tool[t].pc = "idle" /\ ~tool[t].valid /\ ~tool[t].detected
    BY DEF Init, IdleTool
  <2>2. ValidInv /\ SessionInv
    BY <2>1 DEF ValidInv, ValidOf, SessionInv, SessionOf
  <2> QED BY <2>2, TypeInit, LibInit DEF AckInv
<1>2. AckInv => AckMeansPrepared
  BY DEF AckInv, SessionInv, SessionOf, Acknowledged, AckMeansPrepared
<1> QED BY <1>1, <1>2, AckStep, PTL DEF Spec

=============================================================================
