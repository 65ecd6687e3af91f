----------------------------- MODULE CapSession -----------------------------
(***************************************************************************)
(* A user's session: shells, krgcapset commands that change capabilities,  *)
(* and krgcr-run commands whose applications inherit them, at the same     *)
(* time and on the same processes.                                         *)
(***************************************************************************)
EXTENDS KrgCapset, KrgcrRun

CONSTANT InitialCaps   \* the capability sets a shell may start with

ASSUME SessionAssumption ==
  InitialCaps \subseteq CapSets /\ Setters \cap Launchers = {}

VARIABLE stale   \* history: since it has read the capability sets it is to
                 \* write, has somebody else changed them?

vars == <<capVars, kset, runVars, stale>>

Commands == Setters \cup Launchers

Init ==
  /\ alive = Shells \cup {Init1}
  /\ \E c \in InitialCaps : caps = [p \in Procs |-> IF p \in alive THEN c ELSE NoCaps]
  /\ kset = [k \in Setters |-> IdleSet]
  /\ run = [l \in Launchers |-> IdleRun]
  /\ app = [l \in Launchers |-> NoApp]
  /\ file = [l \in Launchers |-> "none"]
  /\ stale = [c \in Commands |-> FALSE]

(* A shell ends while its commands go on.                                  *)
ShellEnds(s) ==
  /\ s \in alive /\ Dies(s)
  /\ UNCHANGED <<kset, runVars>>

Reads(c)  == IF c \in Setters THEN kset[c].pc = "get" /\ kset'[c].pc # "get"
             ELSE run[c].pc = "capget"
Writes(c) == IF c \in Setters THEN kset[c].pc = "set" /\ kset'[c].pc # "set"
             ELSE run[c].pc = "capset" /\ run'[c].pc # "capset"
Subject(c) == IF c \in Setters THEN Target(c) ELSE c

Remember ==
  stale' = [c \in Commands |->
     CASE Reads(c)  -> FALSE
       [] Writes(c) -> stale[c]
       [] OTHER -> stale[c] \/ Subject(c) # Subject(c)'
                            \/ caps[Subject(c)] # caps'[Subject(c)]]

Next ==
  /\ \/ \E k \in Setters : KsetStep(k) /\ UNCHANGED runVars
     \/ \E l \in Launchers : RunStep(l) /\ UNCHANGED kset
     \/ \E s \in Shells : ShellEnds(s)
  /\ Remember

Spec == Init /\ [][Next]_vars

(* Launchers and their children go on; shells, the users who are asked,    *)
(* applications and signals need not.                                      *)
Fairness == \A l \in Launchers : /\ WF_vars(LauncherStep(l) /\ UNCHANGED kset /\ Remember)
                                 /\ WF_vars(ChildStep(l) /\ UNCHANGED kset /\ Remember)
FairSpec == Spec /\ Fairness

-----------------------------------------------------------------------------
KsetState == [pc : {"idle", "get", "ask", "set", "done"}, father : Shells \cup {Init1},
              pid : Procs \cup {"father"}, force : BOOLEAN, opts : Seq(Options),
              new : CapSets, asked : BOOLEAN, r : {"ok", "fail"}]
RunState == [pc : {"idle", "capget", "capset", "pipe", "vfork", "suspended", "sigint",
                   "sigterm", "wait", "close", "read", "done", "killed"},
             b : BOOLEAN, s : BOOLEAN, o : BOOLEAN, n : BOOLEAN, read : CapSets,
             writer : BOOLEAN, pending : SUBSET Signals, handled : SUBSET Signals,
             flags : SUBSET {"SA_RESTART", "SA_RESETHAND"}, hits : 0 .. MaxSignals,
             r : {"ok", "fail"}]
AppState == [pc : {"none", "child", "exec", "running", "ended"}, writer : BOOLEAN,
             wrote : BOOLEAN, got : SUBSET Signals, status : {0, 1}]

(* Types of the processes' capability sets and of the commands' variables: *)
(* a mistyped name leaves nothing in a set, though a number may leave bits *)
(* that mean nothing.                                                      *)
TypeOK == /\ alive \subseteq Procs /\ caps \in [Procs -> CapSets]
          /\ kset \in [Setters -> KsetState]
          /\ run \in [Launchers -> RunState] /\ app \in [Launchers -> AppState]
          /\ file \in [Launchers -> Apps \cup {"none", "empty"}]
          /\ stale \in [Commands -> BOOLEAN]

(* A process that could have its capabilities changed only loses that by a *)
(* krgcapset that was forced or whose user has said yes, whatever other    *)
(* commands have written since that user was asked; or by a launcher that  *)
(* writes back its own sets after somebody has changed them.               *)
MayChange(c) == Change \in c["permitted"] \cap c["effective"]
ConfirmedLoss ==
  [][\A p \in alive \cap alive' : MayChange(caps[p]) /\ ~MayChange(caps'[p]) =>
       \/ \E k \in Setters : /\ Target(k) = p /\ kset[k].pc = "set" /\ kset'[k].pc = "done"
                             /\ kset[k].force \/ kset[k].asked
       \/ p \in Launchers /\ stale[p] /\ Writes(p)]_vars

(* A bit is in a member of the sets of a process after a krgcapset command *)
(* if the last of its options that speaks of it says so, or none does and  *)
(* it was there: unless somebody has changed the sets since they were      *)
(* read, or the father has ended and the sets of another process are       *)
(* written.                                                                *)
Speaks(o, m, c) == o.set = m /\ (o.kind \in {"=", "number"} \/ c \in o.names)
After(opts, old, m, c) ==
  LET said == {i \in DOMAIN opts : Speaks(opts[i], m, c)}
      last == CHOOSE i \in said : \A j \in said : j <= i
  IN IF said = {} THEN c \in old[m]
     ELSE opts[last].kind # "-" /\ c \in opts[last].names
OptionsApplied ==
  [][\A k \in Setters : LET t == Target(k) IN
       kset[k].pc = "set" /\ kset'[k].pc = "done" /\ kset'[k].r = "ok" /\ ~stale[k] =>
         \A m \in Members, c \in Bits :
           c \in caps'[t][m] <=> After(kset[k].opts, caps[t], m, c)]_vars

(* The child of a launcher that was told to give the capability can be     *)
(* checkpointed, if its launcher may pass CHECKPOINTABLE on: unless some   *)
(* krgcapset has changed the launcher's sets under its hands.              *)
LaunchedCheckpointable ==
  [][\A l \in Launchers :
       app[l].pc = "none" /\ app'[l].pc = "child" /\ ~run[l].n /\ ~stale[l]
         /\ Checkpointable \in caps[l]["inheritable_permitted"] =>
         Checkpointable \in caps'[App[l]]["effective"]]_vars

(* When krgcr-run -b -o has returned, the file is as it will stay: it      *)
(* names the application, or is empty for a write that failed unnoticed.   *)
(* The scripts that checkpoint the application read the file at once,      *)
(* without waiting for anything.                                           *)
FileNamesApplication ==
  \A l \in Launchers : run[l].b /\ run[l].o /\ run[l].pc = "done" /\ run[l].r = "ok" =>
    file[l] \in {App[l], "empty"} \/ app[l].pc = "ended"

(* krgcr-run in the foreground, left alone by signals, returns once the    *)
(* application has ended, and reports its success or failure.              *)
StatusReported ==
  \A l \in Launchers : ~run[l].b /\ run[l].pc = "done" /\ run[l].hits = 0
    /\ app[l].pc # "none" =>
    app[l].pc = "ended" /\ (run[l].r = "ok" <=> app[l].status = 0)

(* Once krgcr-run waits for its application no SIGINT and no SIGTERM ends  *)
(* it: both reach the application; unless what happened to be in sa_flags  *)
(* makes the handler one for a single signal.                              *)
SignalsRelayed ==
  [][\A l \in Launchers :
       run[l].pc = "wait" /\ "SA_RESETHAND" \notin run[l].flags =>
         /\ run'[l].pc # "killed"
         /\ run'[l].hits > run[l].hits /\ app[l].pc = "running" => app'[l].got # {}]_vars

(* A launcher that runs with its child ends when the child has ended, and, *)
(* with -b -s, when the application has written to the pipe or closed it.  *)
Released(l) == \/ app[l].pc = "ended"
               \/ run[l].s /\ app[l].pc = "running" /\ (app[l].wrote \/ ~app[l].writer)
LauncherEnds == \A l \in Launchers : Released(l) ~> run[l].pc \in {"done", "killed"}
=============================================================================
