# A verification of kerrighed-tools

kerrighed-tools is the user space of the Kerrighed single-system-image kernel:
the commands and libraries with which applications are frozen, checkpointed and
restarted, and with which nodes are added to and removed from a cluster. The
kernel itself is another repository. This directory models the parts that hold
the logic - the callback protocol of libkrgcb, the checkpoint and restart
commands, the memory exclusion of libkrgcheckpoint, the cluster administration
of krgadm, the capabilities of processes with krgcapset and the launcher
krgcr-run, and the IPC checkpoint commands - in TLA+, checks small instances
with TLC, and proves with TLAPS, for instances of every size, each of the safety
properties that the passing runs check.

Line numbers of every modelled definition are in `PROJECT.json` ("map"); the
hazards each property is aimed at are there too ("hazards").

## 1. Inventory

| Part | State it keeps | Operations | Interacts with | What is hard |
|---|---|---|---|---|
| libkrgcb (`libs/libkrgcb`) | `info` (three tables of callbacks), `thread_running`, `current_hook`, a mutex used as a wake-up, the application's userdata, a System V queue keyed by the pid | `cr_callback_init/exit`, `cr_register_*_callback`, signal handler, worker thread, `cr_execute_{chkpt,continue,restart}_callbacks` | called by the application on one side and by `checkpoint`/`restart` on the other; signals 37-39 and one message in between | signals on any thread, in the order of their numbers; a worker that shares `current_hook` with the handler; a receive without a timeout; a queue that outlives its creator |
| checkpoint (`tools/checkpoint.c`) | options, `interrupted_by_signal`, result | freeze, checkpoint, unfreeze, or all three; clean-up of a half-written version | libproc, libkrgcb, `/var/chkpt/<appid>` | SIGINT/SIGTERM at any step, failure of one step of several, other commands on the same application |
| restart (`tools/restart.c`) | options, the root of the restarted application | restart, restart callbacks, unfreeze, wait in the foreground and relay signals | libproc, libkrgcb | `wait` interrupted by a relayed signal, death between restart and unfreeze |
| libproc (`libs/libkerrighed/libproc.c`) | none | one kernel request each | kernel | what the kernel answers depends on the application's state |
| krgadm (`tools/krgadm.c`) and libhotplug | a snapshot of the nodes' status, a node set | `nodes add/del` (all, count, total, list), `cluster poweroff/reboot`, status | kernel's node table, shared by all administrators | decision taken on a snapshot, unbounded polling, boundaries of counts and ranges |
| libkrgcheckpoint | lists of excluded regions and of children, a pipe | `cr_exclude_on/off`, fork handlers, SIGCHLD handler, checkpoint and restart callbacks | libkrgcb (registers callbacks, and calls those of the children), the application's forks | list updates and reads interrupted by a signal; state copied by fork |
| krgcapset / libcapability | four capability sets of every process, in the kernel; the copy a command works on | get, apply the options, ask, set | the processes it is used on, the father among them; krgcr-run, which works on its own sets | read-modify-write with a user in the middle; a father that ends meanwhile |
| krgcr-run | options, the child's pid, a pipe, its own capability sets, the `-o` file | raise CHECKPOINTABLE, vfork, wait, relay, read the pipe | libcapability, the application it launches, scripts that read the file | signals before, between and after the calls of sigaction; unset `sa_flags`; `wait` interrupted; who holds the pipe open |
| ipccheckpoint, ipcrestart, libipc | a file | create, save, unlink on failure; open, restore | kernel, the directory shared with other commands and users | path and descriptor that no longer lead to the same file; a request that fails half way |
| migrate | none | one request | kernel | nothing stateful |
| krgboot, krginit, init scripts | boot-time environment | one pass of set-up | shell, mount, kernel | order of set-up |
| schedulers set-up, Python bindings, `kerrighed_tools.h` | none | glue | kernel | - |

What makes them correct:

* libkrgcb: a tool told "done" has a *prepared* application; every tool is
  answered; no callback asked for is lost; no queue is left behind; registering
  a callback does not block.
* checkpoint/restart: whatever fails or interrupts, the application is not left
  frozen; a half-written version is removed and no complete one is; success is
  reported only for an image that exists; `-k` never kills unsaved work; a
  restart brings back a saved state.
* libkrgcheckpoint: the list is the set of regions asked for, whatever comes and
  goes; the kernel gets it with this process's pid; the callbacks are passed on
  to children of this process and of no other, and the list of them can be
  walked.

The code does not keep all of this in every case. Where it does not, the
property names the cases in which it fails, by what has to come together for
them, and says that there are no others (section 3).

* capabilities: no process loses the capability to change its capabilities
  without a user having agreed; a command writes what its options say and
  nothing else; an application that was launched can be checkpointed.
* krgcr-run: signals reach the application; its status is reported; with `-b`
  the file is there when the command has returned; the launcher ends.
* IPC commands: what is at a path is an image, and stays one.
* krgadm: a command works on exactly the nodes asked for, never removes the node
  it runs on, reaches the total it was given, and ends.

## 2. Modules

| Module | Models | State <-> code |
|---|---|---|
| `KrgCallback` | libkrgcb and the freeze/unfreeze around it | `info`, `threadRunning`, `currentHook`, `mutexLocked` are the library's globals; `frame[a]` is the stack of one activity (`run_callbacks` in the handler of a thread, or in the worker's loop) with its table, index and result; `pending` is the kernel's queue of real-time signals, `queue` the System V queue, `udata` the application's userdata; `tool[t]` is a process inside `cr_execute_*_callbacks`; `due`, `disturbed`, `abandoned`, `exited` are history |
| `AppControl` | libproc and, external, the kernel's behaviour for one application and its `/var/chkpt` directory | `app`, `image`, `appDir`; `app.answer` is the message queue of libkrgcb when a command has left it behind; epochs, `frozenBy` and `refused` are history |
| `CheckpointTool` | `checkpoint.c` | `ck[p]` is the globals of process `p` and its place in `main`; `failedUnfreeze` is history |
| `RestartTool` | `restart.c` | `rs[q]` likewise |
| `CheckpointRestart` | the two commands on one application, any number of each | composes the three modules above; holds the properties |
| `AppLife` | abstract specification: what checkpoint/restart promises about an application | refined by `CheckpointRestart` (`LifeSpec`) |
| `MemExclusion` | libkrgcheckpoint in a process with one thread, followed through its forks as the parent or as the child | `cell` is malloc's heap, `first` and `children` the two lists, `main` the place of the application in the library, `cb` a callback that interrupts it; `kid`, `sigchld` are the kernel's; `excluded`, `newest`, `spoilt` and `raced` are history |
| `KrgAdm` | `krgadm.c` on libhotplug | `state` and `up` are the kernel's; `adm[a]` is a process: command, mode, `node_set`, snapshot, place |
| `Capabilities` | libcapability and, external, the kernel's rules for it | `alive`, and `caps[p]` with the four members of `krg_cap_t` |
| `KrgCapset` | `krgcapset.c` | `kset[k]`: place in `main`, options, `new` is `initial_caps` after the second pass |
| `KrgcrRun` | `krgcr-run.c` | `run[l]` is the launcher (options, its end of the pipe, signals pending and handled, `sa_flags`), `app[l]` its child, `file[l]` the `-o` file |
| `CapSession` | the last two on the same processes | composes them; `stale` is history: have the sets a command is about to write changed since it read them? |
| `IpcTools` | `ipccheckpoint.c`, `ipcrestart.c`, libipc | `dir` leads from paths to files, `content` says what is in them, `cmd[c]` is a process with its `fd`; `robbed` is history |
| `MC*` | small instances: symmetry sets, node lists, counts | |
| `CheckpointRestart_proofs` | type correctness and the duty to unfreeze | |
| `CheckpointImages_proofs` | images, clean-up, refinement of AppLife, what the commands report, what `-k` ends | |
| `KrgCallback_proofs` | type correctness, the queue, the mutex, what an acknowledgement means | |
| `KrgAdm_proofs` | type correctness, what add and del select, the total | |
| `CapSession_proofs` | the capabilities, krgcapset and krgcr-run | |
| `MemExclusion_proofs` | the lists of children and of regions | |
| `IpcTools_proofs` | type correctness, no half-written file, images stay | |
| `Induction` | induction over the naturals in the form the proofs about loops use | |

The modules are at the granularity of the system calls: an action is the code
between two points where another process, thread or signal can be seen. In
KrgCallback that is one turn of the loop of `run_callbacks`, because the
worker and the handler share `current_hook`; in the commands it is one kernel
request or one test of `interrupted_by_signal`. In MemExclusion, `add_child` is
cut where SIGCHLD can come between its accesses to `first_child`: the test, the
dereference and the store are three actions. The SIGCHLD handler itself is one:
a second SIGCHLD waits until it returns, and a callback that could interrupt the
few instructions of `remove_child` comes before or after them.

The callbacks appear twice. KrgCallback has the protocol; CheckpointTool uses it
as one call that succeeds, fails, or waits as long as the application is frozen
and no old answer is in the queue (`answer`): a call that was interrupted leaves
the queue behind, and the next one may return 0 on what it finds there, with the
application prepared or not. The continue and the restart callbacks are no part
of the unfreeze: the commands only queue their signal, and the application runs
them later, when the command may have ended. What they do to its state is
therefore said in KrgCallback alone.

Undefined behaviour is a choice, made anew each time and never switched off:
`sigh.sa_flags` of `checkpoint.c` is never set (the second signal may have its
default effect), nor is that of `restart.c` (`restartWait`) or of `krgcr-run.c`
(`flags`, any of SA_RESTART and SA_RESETHAND); the `exit_status` of an
interrupted `wait` in `krgcr-run.c` makes it exit either way; a table of
callbacks freed under a running loop ends the process or is skipped; the `next`
of a new excluded region is whatever malloc leaves there (`Leftover`): nothing,
what the cell held when it was a region, or a pointer that leads nowhere, for
which stands one from which a walk does not come back; the pid of an interrupted
read in `parent_after_fork` is "junk"; an element freed under `add_child` keeps
its contents, or leads to "wild", where a walk of the list crashes.

What stands for the kernel (marked external where no line of the repository
does it): freezing a frozen application, unfreezing or checkpointing one that is
not frozen, restarting one that exists or a version that is not there fail; a
request can fail for reasons of its own when `KernelMayFail`. A process's
capabilities can only be changed while it has the effective
CHANGE_KERRIGHED_CAP, and a child gets its father's inheritable sets. An IPC
object is only restored from a complete image of its own type. The tests of
`tests/ktp/cr` expect exactly these answers.

## 3. Runs

Passing runs:

| Run | Instance | Shows |
|---|---|---|
| `cb_thread` | one tool, one worker, two callbacks per hook in any mix of contexts, any of them failing, four library calls, two sessions started when the library is quiescent; fairness | `ToolAnswered`, `ResumeCallbacksRun` |
| `cb_concurrent` | two tools at any time on one application with a worker, that may re-initialise, exit, or die; callbacks and system calls that fail; one interruption | `TypeOK`, `AckMeansPrepared`, `NoOrphanQueue`, `RegisterLocks` |
| `ck_concurrent` | two checkpoint commands and a restart at the same time or one after the other, all actions and options, two versions, two signals to checkpoint and one to restart; kernel, callbacks, clean-up and unfreeze may fail | `TypeOK`, `NotLeftFrozen`, `IncompleteIsCleaned`, `SuccessMeansImage`, `ImagesKept`, `KillLosesNothing`, `LifeSpec` |
| `ck_liveness` | two checkpoint commands at the same time, two signals, the same failures; fairness | `AllUnfreezes` |
| `ex_regions` | one process, two addresses and two cells with anything in them, an initialisation that may fail, two forks as parent or child, two checkpoint or restart signals, children that end, stop or go on at any point | `TypeOK`, `RegionsListed`, `HandedOver`, `OwnChildrenOnly`, `NewestListed`, `ChildrenWalkable` |
| `adm_concurrent` | two administrators at the same time on different nodes of three, all commands and modes, nodes that come and go, every initial state with node 0 online; fairness | `TypeOK`, `SelectsLowest`, `OwnNodeStays`, `AddTotalExact`, `AddEnds` |
| `cap_launch` | a shell that may end, two krgcapset commands with four kinds of arguments on the shell and on the launcher, one launcher in foreground, `-b -o` and `-b -s -o -n`, two signals; fairness | `TypeOK`, `FileNamesApplication`, `StatusReported`, `ConfirmedLoss`, `OptionsApplied`, `LaunchedCheckpointable`, `SignalsRelayed`, `LauncherEnds` |
| `ipc_files` | three commands of either kind, two paths, two types, requests that fail, commands killed, a user who removes files | `TypeOK`, `NoPartialLeft`, `ImageStays` |

Runs that refute what the repository says of itself (each a finding in
`PROJECT.json`):

| Run | Violated | What happens |
|---|---|---|
| `cb_freeze_twice` | `ToolAnswered` | The second freeze of a frozen application that has callbacks waits in `msgrcv` for an application that cannot answer; the test sequence "F, F(fail), U, U(fail)" expects a failure. |
| `ck_second_signal` | `SignalsDoNotStrand` | `checkpoint.c:463` sets neither `sa_flags` nor `sa_mask`: with SA_RESETHAND among what the stack holds, the second SIGINT ends the command between its freeze and its unfreeze, which the comment above it says the handler is there to avoid. |
| `rs_interrupted` | `ForegroundWaits` | `wait` returns -1 on a relayed signal, never `-EINTR`: `restart -f` returns while the application runs. |
| `adm_del_total` | `DelTotalExact` | `del --total n` with fewer than n nodes online succeeds; the manual says it fails. |

### What the properties except, and why

Each exception is something that the code does do; but for the four findings, no
document denies it. It is part of the runs above, and the property says that
nothing else goes wrong.

* `AckMeansPrepared` speaks of a call whose signal finds the library at rest and
  no answer in the queue, and that no other signal, and no replacement of the
  tables, comes between (`disturbed` is its history). Otherwise: a checkpoint
  started before the continue callbacks of the previous one have run gets them
  after its own (signal 37 is handled before 39); the answer of an interrupted
  call is taken for the new one's; a second tool takes the first one's answer;
  and a `cr_callback_init` between signal and handler leaves nothing to run.
* `NoOrphanQueue` excepts the two error paths that return before IPC_RMID, a
  failing `kill` (`libkrgcb.c:211`) and an interrupted `msgrcv`
  (`libkrgcb.c:216`), until some call removes the queue (`abandoned`).
* `RegisterLocks`: once the library has forgotten a worker (`cr_callback_exit`,
  or an initialisation or `pthread_create` that failed, reset `thread_running`
  but not the mutex; `exited`), the next registration of a thread-context
  callback can wait in `libkrgcb.c:400` for ever.
* `ToolAnswered` and `ResumeCallbacksRun` are checked for sessions that start on
  a quiescent library: two signals in a row may wake the worker only once, and
  `cb_freeze_twice` shows a tool that is never answered.
* `NotLeftFrozen` and `AllUnfreezes` except a run whose unfreeze, or the
  continue signal before it (`checkpoint.c:376`), was refused
  (`failedUnfreeze`), and speak of runs that were not killed; the killed ones
  are the subject of `ck_second_signal`.
* `IncompleteIsCleaned` excepts the versions of which a directory could not be
  opened, something could not be removed, or `readdir` does not tell the type
  (`refused`), and a command killed in its clean-up.
* `KillLosesNothing` speaks of an application that the command has frozen itself:
  another command may unfreeze it and a third freeze it again, and `-k` then
  ends it in a state that nobody has saved.
* `RegionsListed` and `HandedOver` except a list that is `spoilt`. `cr_exclude_on`
  never sets `next`, so after on(x), on(y), off(x) a recycled cell still points
  to y and on(x) closes the list to a circle; after on(x), on(y), off(x), off(y)
  an on(z) makes it lead to a freed cell. And an initialisation that fails frees
  a region that is linked (`libkrgcheckpoint.c:337`).
* `ChildrenWalkable` excepts the one race of `add_child` with SIGCHLD between its
  test and its dereference (`raced`), `NewestListed` a child that has been
  stopped: SIGCHLD is sent for that too, removes it from the list, and after
  SIGCONT it runs and is told of no checkpoint.
* `AddTotalExact` and `AddEnds` except the add commands during which another
  administrator has moved nodes (`moved`): the count was computed from a
  snapshot taken before the wait, and a node of the list that somebody else has
  added never is "present" again. `OwnNodeStays` does not keep two
  administrators from removing each other's node.
* `OptionsApplied`, `ConfirmedLoss` and `LaunchedCheckpointable` except writes of
  sets that have changed since they were read (`stale`): a krgcapset overwrites
  a change made during its question, or writes to the process that has adopted
  it when its shell has ended.
* `SignalsRelayed` speaks of a launcher that waits: a signal before the calls of
  sigaction ends krgcr-run and leaves the application. `StatusReported` speaks
  of one that got no signal, `FileNamesApplication` of a file that could be
  written: the results of `fprintf` and `fclose` are not looked at, and the file
  is then empty.
* `ImageStays` excepts an ipccheckpoint whose own file was removed meanwhile
  (`robbed`): it removes whatever is at its path, another command's image too.

Met while modelling and not the subject of a run: `krgcr-run -b` returns 0 when
its child could not exec, and vfork only ensures that the child has exec'ed *or
ended* (`krgcr-run.c:170-173` says "has exec'ed"); the first pass of krgcapset
does not look at the capability lists, so that an unknown name is only reported
after the sets were read, and the rest of the list is still applied; OCTAL VALUE
is read in the base its prefix says; any answer whose first deciding letter is a
`y` counts as a yes to krgcapset's question; the help of the two IPC commands
names `-v`, which is not among their short options.

`ex_regions` also contains, as states and not as violations of a property, a
parent whose interrupted read gives it no pid while its child is ended by
SIGPIPE; a parent that waits for ever for the pid of a child that is gone; a
checkpoint callback that waits for a stopped child; and a list of children that
never has more than one element, since `add_child` links the new one to the
successor of the first.

### Bounds, and why they are enough

* Two tools or two commands: the interactions are pairwise (one queue, one
  application, one snapshot). A command of its own for freeze, checkpoint and
  unfreeze would be a third in a session; the theorems cover any number.
* One worker: a second is only created after `cr_callback_exit` or a failure has reset
  `thread_running`; `cb_concurrent` then finds the identity taken and
  stops there, unless the first worker has ended.
* Two callbacks per hook: order and "the first fails, the second does not
  run" need two; `cb_concurrent` has one, so that the table is full at once.
  `CR_CB_MAX_CALLBACKS` is 40.
* Two versions: one that is complete while another is being cleaned up.
* Two addresses and two cells: a first and a last region, a cell that is
  recycled, a circle, and a walk that leads to a freed cell; a region in the
  middle of a longer list is covered by the theorem. Two forks and two callbacks:
  a second child, a child's own child, and a pid written by a callback before a
  fork and read by one after it.
* Two krgcapset commands and a launcher: a lost update needs two writers, and the
  launcher's own read and write are the third. Four kinds of arguments: show;
  replace with an unknown name and with a number, remove and add; add to the
  launcher's set; and remove with `-f`. Of the capabilities the two that the tools name are kept: all others are
  treated alike; one bit stands for those that a number may have and that mean
  nothing.
* Three IPC commands on two paths: one that is robbed, one that takes its path,
  and one that restores; two types, one right and one wrong.
* `MaxLeaves = 1`: a node that leaves between a snapshot and a request. Nodes that
  left for ever and again would make every wait endless.
* Three nodes, counts from -1 to 5: below, at and above every boundary,
  with the command's own node among the lowest.
* `MaxSignals`, `MaxInterrupts`, `MaxSessions`, `MaxApiCalls` are bounds on what users and
  the environment do; every order of them is explored. The signal handler only
  sets a flag, so one signal to a checkpoint command is as good as many unless
  SA_RESETHAND is set, where two are needed. A launcher gets two:
  the first can take the handler away, the second then ends it.

Deadlock is not checked: commands end, and users may stop giving them.

### Fairness

Weak fairness of the code's own steps: a thread that can run does, a queued
signal is delivered to some thread, a process goes on to its next call. Nothing
is assumed of users: calling the library, starting a command, resuming a frozen
application, answering a question, writing to the pipe of `krgcr-run -s`, sending
a signal. Of a launcher and of its child the steps they take by themselves are
fair. `adm_concurrent` also assumes that a node of
the network joins (`NodeJoins`), which is what `krgadm nodes add` says it waits
for; the library calls return (`StatusFails` and `RequestFails` carry no
fairness, nor do failures elsewhere).

## 4. Theorems

Every theorem holds for every value of the constants that satisfies the `ASSUME`
of the module (TLC evaluates these on each run): any set of processes, tools,
threads, nodes or files, any bound, any choice of what may fail. None has a
further condition.

The assumptions are types of the constants and that things which are different
are different: checkpoint and restart processes are disjoint and none is "none";
shells, launchers, the launched applications and the process that adopts orphans
are different processes, and no krgcapset is a launcher; no child's pid and no
address is the value that stands for "not there" or for what an interrupted read
leaves; malloc's heap has finitely many cells; no worker thread is the main thread; there is a node.

| Module | Theorem | Property |
|---|---|---|
| `CheckpointRestart_proofs` | `TypeCorrect` | `TypeOK` |
| | `NeverLeftFrozen` | `NotLeftFrozen` |
| `CheckpointImages_proofs` | `ImagesNeverLost` | `ImagesKept` |
| | `HalfWrittenIsCleaned` | `IncompleteIsCleaned` |
| | `ImplementsLife` | `LifeSpec` |
| | `SuccessIsTrue` | `SuccessMeansImage` |
| | `KillIsSafe` | `KillLosesNothing` |
| `KrgCallback_proofs` | `CallbackTypes` | `TypeOK` |
| | `QueueIsRemoved` | `NoOrphanQueue` |
| | `RegistrationLocks` | `RegisterLocks` |
| | `AckIsTrue` | `AckMeansPrepared` |
| `KrgAdm_proofs` | `AdmTypes` | `TypeOK` |
| | `LowestSelected` | `SelectsLowest` |
| | `OwnNodeNeverRemoved` | `OwnNodeStays` |
| | `AddTotalIsExact` | `AddTotalExact` |
| `CapSession_proofs` | `SessionTypes` | `TypeOK` |
| | `FileIsWritten` | `FileNamesApplication` |
| | `StatusIsReported` | `StatusReported` |
| | `LossIsConfirmed` | `ConfirmedLoss` |
| | `OptionsAreApplied` | `OptionsApplied` |
| | `ChildrenCheckpointable` | `LaunchedCheckpointable` |
| | `SignalsAreRelayed` | `SignalsRelayed` |
| `MemExclusion_proofs` | `ExclusionTypes` | `TypeOK` |
| | `CallbacksToOwnChildren` | `OwnChildrenOnly` |
| | `LastChildListed` | `NewestListed` |
| | `ChildListWalkable` | `ChildrenWalkable` |
| | `ListHoldsExcluded` | `RegionsListed` |
| | `KernelToldExcluded` | `HandedOver` |
| `IpcTools_proofs` | `TypeCorrect` | `TypeOK` |
| | `PartialFilesAccountedFor` | `NoPartialLeft` |
| | `ImagesStay` | `ImageStays` |

The larger of the inductive invariants below were checked with TLC as invariants
of the runs: `AckInv` on the instance of `cb_concurrent` (789,797 states),
`FreezeInv`, `CleanedInv`, `ReportInv` and `SavedInv` on that of `ck_concurrent`
(1,581,106 states), `ChildrenInv`, `WalkInv` and `Told` on that of `ex_regions`
(1,787,701 states), `IInv` on that of `ipc_files`.

### The commands on one application

`TypeOK` is inductive with one conjunct more than types: a restart about to make
its request has a version (`RsTypeOK`), without which `image[version]` has no
type.

`NotLeftFrozen` speaks of commands that have ended and is not inductive: nothing
in it prevents a command in the middle of its run from ending with the
application frozen. `FreezeInv` adds who has to unfreeze what. A complete run
whose freeze is in force is between its freeze and its unfreeze, was killed
there, or has had its unfreeze refused (`CkOwnsFreeze`, `Accounted`), and every
step from there stays there or unfreezes; a restart likewise until its unfreeze,
unless it was told not to, was killed or reports a failure (`RsOwnsFreeze`). The
proof has one step per action: most only have to show that the process keeps its
duty (`Keeps`, `RsKeeps`), and the unfreeze and the two requests that freeze are
done by hand.

For the images, `CleanInv` says that a command that is removing files holds a
version of its own that is not complete (`CleansOwn`); the lemma `CkImageEffect`
sorts the steps by what they do to the versions: save one, fail half way, empty
it, remove it, or find its removal refused. `CleanedInv` adds to
`IncompleteIsCleaned` that a directory is empty when it is removed, if nothing
of it has been refused (`RmdirEmpty`).

For the refinement, `EpochInv` says that neither the application's state nor a
complete image is the 0 that stands for no image, and the lemma `AppEffect`
sorts the steps by what they do to the application; each sort is a step of
AppLife or a stutter.

`SuccessMeansImage` speaks of ended runs. `ReportInv` says of which runs it will:
those that have made an image and not failed since (`Claim`) have a version that
is there, and no two the same; the action a process was started with says where
in the program it can be (`Phase`).

For `KillLosesNothing`, `SavedInv` says of a run that is going to end the
application: as long as the application is in the frozen state into which this
run has put it, one of the complete images holds that very state. Others may
unfreeze the application at any time (`FrozenBy` then no longer holds, and only
this run could make it hold again, by a freeze that it does not come back to);
nobody can change the state while it is frozen, and nobody removes the image.

### The callback protocol

`CallbackTypes` needs that a table is there whenever one is read
(`PointersInv`): the main thread that waits in `initialize_cb_thread` has tested
`info`, and only the main thread resets it. `QueueIsRemoved` is inductive with
the types: whoever makes the queue is a tool that will remove it, the one that
removes it takes the identifier from all others, and the two error paths that
leave it are remembered. `RegistrationLocks` follows from `LibInv`: as long as
the library has not forgotten a worker, the mutex is free and no worker exists
until `thread_running` is set, and only the main thread sets it.

An acknowledgement takes the steps of four actors: the tool that sends the
signal, the thread that handles it, the worker, and the tool that receives the
message. `AckInv`, the invariant of `AckIsTrue`, has no condition on what the
others do, because the history marks the calls of which it does not speak
(`disturbed`). Of the rest, `SessionInv` says that no other call waits for a
message, that each callback still due is awaited while there is no message, and
that a message, or a return value, of success means that none is due.
`Awaited(d)` says how far callback `d` has to wait: its signal is queued and
nobody is at work (`Sent`), or it has been received, and then every handler that
runs has not passed `d`, or leaves it to the worker because its context is the
thread's (`HandlerFor`); a worker that runs has not passed it either
(`LoopFor`). Neither sends "ok" before. `ValidInv` says who holds an identifier
of the queue, and `LibInv` is needed for the answer of a handler that finds no
worker to wait for: then no table has a callback of the thread context.

### krgadm

The loops of `nodes_add` and `nodes_remove` are a recursive function over the
nodes (`Walk`). What it selects is proved by induction over its turns, with
`SetInduction`: the set of those turns up to which the loop has selected the
lowest candidates contains 0 and with each turn the next one. (The induction
theorems of the library take a predicate as a parameter; stated about a set they
can be used.) `CommandsInv` carries the selection and the mode's count from the
decision to the request while others change the table. For `AddTotalExact`,
`SinceSnapshot` says that while no other request has come between, what the
command waits for is what was missing when it took its snapshot.

### Capabilities and the launcher

`SessionInv` has, beside the types, what is known of a launcher and its child at
each of its steps (`LaunchedInv`: which handlers are installed, that the file is
written, or has failed to be, before the father goes on, that what it reports is
the child's status), that a krgcapset about to write without `-f` and without an
answer does not lose the capability (`AskedInv`), and which processes exist.
`ReadInv` says that the copy a command is going to write is what its options make
of the sets as they are, unless these have changed since (`stale`). `Applied`,
the second pass over the options, is a recursive function; `PassExists` gives its
values and the induction over the options (`PassSays`) shows that the last one on
a capability decides.

### Memory exclusion

`TypeInv` and `ChildrenInv` follow a fork through its steps and the SIGCHLD
handler that may run between any two: neither the list of children nor the
element that `add_child` is making has a pid of somebody else's child, and an
interrupted `add_child` has not lost the new one. `WalkInv` says that, until
SIGCHLD has come between the test and the dereference of `add_child`, the
element that was tested is still the first, and that no list leads into freed
memory.

`RegionsInv` says that, until it is spoilt, the cells reached from the first are
a list: there are n of them in this order, each used, no address twice, and the
addresses are the excluded ones. Its steps are the insertion at the end and the
removal of one in the middle (`OnKeepsList`, `OffKeepsList`); `WalkIsList`, by
induction over the positions, connects it to the walk that the code makes
(`Nth`). For `HandedOver`, `Told` says that what a callback has collected is
still what is excluded while it passes the callbacks on to the children: the
application does not run meanwhile.

### IPC

`NoPartialLeft` is not inductive: nothing in it says that the command whose
failure removes what is at its path finds its own file there, or that a file of
which the path was lost does not come back. `IInv` adds that a command at work
holds the file it has created, and how much is in it (`OwnFile`); that a path
leads to the file of a command that was given this path (`PathOfOwner`); and
that, until it is robbed, the path of a command at work leads to its own file
(`RobbedOrThere`). The last is what makes the unlink of `ImageStays` harmless but
for the robbed.

### Only model-checked

Liveness under fairness (`ToolAnswered`, `ResumeCallbacksRun`, `AllUnfreezes`,
`AddEnds`, `LauncherEnds`), which the prover does not handle, and the four
violations of section 3.

## 5. Plan

Done in this order, the most important behaviour first: KrgCallback;
AppControl, CheckpointTool, RestartTool and their composition with AppLife;
KrgAdm; type correctness and `NeverLeftFrozen`; the theorems about images and the
refinement; MemExclusion; KrgAdm with administrators at the same time; the
capabilities, krgcapset and krgcr-run in one session; the IPC commands and the
theorems about them; the theorems about krgadm, the capabilities, memory
exclusion and the callback protocol.

No further module is planned: what is left holds no logic of this repository
(section 6).

Next theorems: the safety part of the liveness properties, such as that a tool
waiting in `msgrcv` of a library that was at rest always has a signal, a handler
or a worker at work for it, or a message; and that the implementation of AppLife
carries over to what KrgCallback says of a prepared application, which needs the
two modules composed on one application.

## 6. Not modelled

* The kernel, beyond what its callers see; the data in an image; migration
  and file descriptor substitution, which are single requests.
* krgboot and krginit: one straight pass of requests to the kernel
  (`krg_check_hotplug`, `krg_check_container`, `krg_set_cluster_creator`,
  `krg_node_ready`), whose meaning, also when two of them run at once, is the
  kernel's and cannot be told from this repository.
* Text: messages, the description file's content, the tables of the status
  commands, option parsing beyond the options' effects.
* Threads of an application that uses libkrgcheckpoint, a signal between its
  destructor and its end, `cr_disable` and `cr_enable`.
* Shell scripts, the Python bindings, configfs set-up.
* `krg_nodes_fail` and `krg_nodes_poweroff`, which nothing calls.
