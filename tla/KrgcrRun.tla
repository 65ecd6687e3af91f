------------------------------ MODULE KrgcrRun ------------------------------
(***************************************************************************)
(* tools/krgcr-run.c: a launcher raises the inheritable CHECKPOINTABLE     *)
(* capability of its own process, makes a child with vfork, and waits:     *)
(* in the foreground for the application, whose signals it relays; with    *)
(* -b -s for the application to write to, or to close, a pipe; with -b     *)
(* for nothing.  The child starts a session, writes its identifier to the  *)
(* -o file and becomes the application.                                    *)
(***************************************************************************)
EXTENDS Capabilities

CONSTANTS
  RunOptions,   \* the options given
  MaxSignals    \* how many signals a launcher is sent

Signals == {"SIGINT", "SIGTERM"}

ASSUME RunAssumption ==
  /\ RunOptions \subseteq [b : BOOLEAN, s : BOOLEAN, o : BOOLEAN, n : BOOLEAN]
  /\ MaxSignals \in Nat

VARIABLES
  run,    \* for each launcher: where it is, its options, its pipe and signals
  app,    \* for each launcher, its child
  file    \* for each launcher, the process its -o file names: "none" before
          \* the file is opened, "empty" when writing to it has failed

runVars == <<run, app, file>>

IdleRun == [pc |-> "idle", b |-> FALSE, s |-> FALSE, o |-> FALSE, n |-> FALSE,
            read |-> NoCaps, writer |-> FALSE, pending |-> {},
            handled |-> {}, flags |-> {}, hits |-> 0, r |-> "ok"]
NoApp == [pc |-> "none", writer |-> FALSE, wrote |-> FALSE, got |-> {}, status |-> 0]

SetRun(l, rec) == run' = [run EXCEPT ![l] = rec]
SetApp(l, rec) == app' = [app EXCEPT ![l] = rec]
Go(l, pc) == SetRun(l, [run[l] EXCEPT !.pc = pc])

Ends(l, pc, r) ==
  /\ SetRun(l, [IdleRun EXCEPT !.pc = pc, !.r = r, !.b = run[l].b, !.o = run[l].o,
                               !.hits = run[l].hits])
  /\ Dies(l)
ExitRun(l, r) == Ends(l, "done", r)
Killed(l) == Ends(l, "killed", "fail")

-----------------------------------------------------------------------------
(* parse_args: -s only counts with -b.                                     *)
krgcr_run(l) ==
  /\ run[l].pc = "idle"
  /\ \E s \in Shells \cap alive, opt \in RunOptions :
       /\ Forks(s, l)
       /\ SetRun(l, [IdleRun EXCEPT !.pc = IF opt.n THEN "pipe" ELSE "capget",
                       !.b = opt.b, !.s = opt.b /\ opt.s, !.o = opt.o, !.n = opt.n])
  /\ UNCHANGED <<app, file>>

(* Mutant: the capability is raised in the launcher's effective set.       *)
RaisedInEffective(c) == [c EXCEPT !["effective"] = @ \cup {Checkpointable}]

Raised(c) == [c EXCEPT !["inheritable_effective"] = @ \cup {Checkpointable}]

(* give_checkpointable_capability: krg_capget, and krg_capset.             *)
CapGet(l) ==
  /\ run[l].pc = "capget"
  /\ SetRun(l, [run[l] EXCEPT !.pc = "capset", !.read = Raised(caps[l])])
  /\ UNCHANGED <<capVars, app, file>>

CapSet(l) ==
  /\ run[l].pc = "capset" /\ CanSet(l)
  /\ Set(l, run[l].read)
  /\ SetRun(l, [run[l] EXCEPT !.pc = "pipe", !.read = IdleRun.read])
  /\ UNCHANGED <<app, file>>

Pipe(l) ==
  /\ run[l].pc = "pipe"
  /\ SetRun(l, [run[l] EXCEPT !.pc = "vfork", !.writer = run[l].s])
  /\ UNCHANGED <<capVars, app, file>>

(* A request, pipe or vfork fails; an option is unknown.                   *)
RunFails(l) ==
  /\ \/ run[l].pc \in {"idle", "capget", "capset", "vfork"}
     \/ run[l].pc = "pipe" /\ run[l].s
  /\ ExitRun(l, "fail")
  /\ UNCHANGED <<app, file>>

(* vfork: the child has the launcher's descriptors, and the launcher does  *)
(* not run until the child has left the program.                           *)
Vfork(l) ==
  /\ run[l].pc = "vfork"
  /\ Forks(l, App[l])
  /\ SetApp(l, [NoApp EXCEPT !.pc = "child", !.writer = run[l].writer])
  /\ Go(l, "suspended")
  /\ UNCHANGED file

(* Mutant: with fork the launcher does not wait for its child.             *)
ChildHasForked(l) == TRUE

ChildHasLeft(l) == app[l].pc \in {"running", "ended"}

(* The launcher's side of the switch after vfork.  Signals that came while *)
(* it was suspended are delivered now, and nothing handles them yet.       *)
Resumes(l) ==
  /\ run[l].pc = "suspended" /\ ChildHasLeft(l)
  /\ \/ run[l].pending # {} /\ Killed(l)
     \/ /\ run[l].pending = {} /\ UNCHANGED capVars
        /\ \/ ~run[l].b /\ Go(l, "sigint")
           \/ run[l].s /\ Go(l, "close")
     \/ run[l].pending = {} /\ run[l].b /\ ~run[l].s /\ ExitRun(l, "ok")
  /\ UNCHANGED <<app, file>>

(* The child: setsid and the file.  It does not look at what fprintf and   *)
(* fclose return.                                                          *)
WriteFile(l) ==
  /\ app[l].pc = "child"
  /\ SetApp(l, [app[l] EXCEPT !.pc = "exec"])
  /\ \E written \in {App[l], "empty"} :
       file' = [file EXCEPT ![l] = IF run[l].o THEN written ELSE @]
  /\ UNCHANGED <<capVars, run>>

Execs(l) ==
  /\ app[l].pc = "exec"
  /\ SetApp(l, [app[l] EXCEPT !.pc = "running"])
  /\ UNCHANGED <<capVars, run, file>>

(* setsid, fopen or execvp fails, and the child exits.                     *)
ChildFails(l) ==
  /\ app[l].pc \in {"child", "exec"}
  /\ SetApp(l, [app[l] EXCEPT !.pc = "ended", !.writer = FALSE, !.status = 1])
  /\ Dies(App[l])
  /\ UNCHANGED <<run, file>>

-----------------------------------------------------------------------------
(* The two calls of sigaction share one action, whose sa_flags is not set: *)
(* the handler may restart system calls or not, and be good for one signal *)
(* or for all.                                                             *)
SigactionInt(l) ==
  /\ run[l].pc = "sigint"
  /\ \E flags \in SUBSET {"SA_RESTART", "SA_RESETHAND"} :
       SetRun(l, [run[l] EXCEPT !.pc = "sigterm", !.flags = flags,
                                !.handled = {"SIGINT"}])
  /\ UNCHANGED <<capVars, app, file>>

(* Mutant: only SIGINT is relayed.                                         *)
SigtermLeft(l) ==
  /\ run[l].pc = "sigterm" /\ Go(l, "wait")
  /\ UNCHANGED <<capVars, app, file>>

SigactionTerm(l) ==
  /\ run[l].pc = "sigterm"
  /\ SetRun(l, [run[l] EXCEPT !.pc = "wait", !.handled = @ \cup {"SIGTERM"}])
  /\ UNCHANGED <<capVars, app, file>>

(* Mutant: what wait says of the application is not looked at.             *)
WaitUnchecked(l) ==
  /\ run[l].pc = "wait" /\ app[l].pc = "ended"
  /\ ExitRun(l, "ok")
  /\ UNCHANGED <<app, file>>

(* wait, and the test of exit_status.                                      *)
Wait(l) ==
  /\ run[l].pc = "wait" /\ app[l].pc = "ended"
  /\ ExitRun(l, IF app[l].status = 0 THEN "ok" ELSE "fail")
  /\ UNCHANGED <<app, file>>

(* Mutant: the launcher keeps its own end of the pipe open.                *)
CloseForgotten(l) ==
  /\ run[l].pc = "close" /\ Go(l, "read")
  /\ UNCHANGED <<capVars, app, file>>

ClosePipe(l) ==
  /\ run[l].pc = "close"
  /\ SetRun(l, [run[l] EXCEPT !.pc = "read", !.writer = FALSE])
  /\ UNCHANGED <<capVars, app, file>>

ReadPipe(l) ==
  /\ run[l].pc = "read"
  /\ app[l].wrote \/ ~(run[l].writer \/ app[l].writer)
  /\ ExitRun(l, "ok")
  /\ UNCHANGED <<app, file>>

(* SIGINT or SIGTERM comes.  While the launcher is suspended it has to     *)
(* wait; a signal that nothing handles ends the launcher.                  *)
Sent(l, sig) ==
  /\ run[l].pc \notin {"idle", "done", "killed"} /\ run[l].hits < MaxSignals
  /\ \/ /\ run[l].pc = "suspended" /\ UNCHANGED capVars
        /\ SetRun(l, [run[l] EXCEPT !.pending = @ \cup {sig}, !.hits = @ + 1])
     \/ /\ run[l].pc # "suspended" /\ sig \notin run[l].handled
        /\ Killed(l)
  /\ UNCHANGED <<app, file>>

(* relay_signal sends the signal on to the child.  A wait that it finds    *)
(* blocked goes on only with SA_RESTART: otherwise exit_status is read     *)
(* though nothing has been written to it, and the launcher exits one way   *)
(* or the other.                                                           *)
relay_signal(l, sig) ==
  /\ sig \in run[l].handled /\ run[l].hits < MaxSignals
  /\ run[l].pc \in {"sigterm", "wait"}
  /\ SetApp(l, [app[l] EXCEPT !.got = IF app[l].pc = "running" THEN @ \cup {sig} ELSE @])
  /\ LET rec == [run[l] EXCEPT !.hits = @ + 1,
                   !.handled = IF "SA_RESETHAND" \in run[l].flags THEN @ \ {sig} ELSE @]
     IN \/ SetRun(l, rec) /\ UNCHANGED capVars
        \/ /\ run[l].pc = "wait" /\ app[l].pc # "ended"
           /\ "SA_RESTART" \notin run[l].flags
           /\ \E r \in {"ok", "fail"} :
                SetRun(l, [rec EXCEPT !.pc = "done", !.r = r])
           /\ Dies(l)
  /\ UNCHANGED file

-----------------------------------------------------------------------------
(* The application writes to the pipe, closes it, or ends.                 *)
AppReleases(l) ==
  /\ app[l].pc = "running" /\ app[l].writer
  /\ \E wrote \in BOOLEAN : SetApp(l, [app[l] EXCEPT !.wrote = wrote, !.writer = wrote])
  /\ UNCHANGED <<capVars, run, file>>

AppEnds(l) ==
  /\ app[l].pc = "running"
  /\ \E status \in {0, 1} :
       SetApp(l, [app[l] EXCEPT !.pc = "ended", !.writer = FALSE, !.got = {}, !.status = status])
  /\ Dies(App[l])
  /\ UNCHANGED <<run, file>>

(* What the launcher and its child do by themselves.                       *)
LauncherStep(l) ==
  \/ CapGet(l) \/ CapSet(l) \/ Pipe(l) \/ Vfork(l) \/ Resumes(l)
  \/ SigactionInt(l) \/ SigactionTerm(l) \/ Wait(l) \/ ClosePipe(l) \/ ReadPipe(l)
ChildStep(l) == WriteFile(l) \/ Execs(l)

RunStep(l) ==
  \/ krgcr_run(l) \/ LauncherStep(l) \/ RunFails(l)
  \/ ChildStep(l) \/ ChildFails(l) \/ AppReleases(l) \/ AppEnds(l)
  \/ \E sig \in Signals : Sent(l, sig) \/ relay_signal(l, sig)
=============================================================================
