-------------------------- MODULE CapSession_proofs --------------------------
(***************************************************************************)
(* Proofs about a user's session: krgcapset and krgcr-run commands that    *)
(* change, inherit and write back capability sets at the same time.        *)
(***************************************************************************)
EXTENDS CapSession, Induction

-----------------------------------------------------------------------------
(* The second pass of krgcapset over its options: one option, the equation *)
(* that defines the sets after each of them, and the same option by option.*)
Option(t, o) == [t EXCEPT ![o.set] = update_capability(o, t[o.set])]

Pass(f, opts, c) ==
  f = [i \in 0 .. Len(opts) |-> IF i = 0 THEN c ELSE Option(f[i - 1], opts[i])]

PassTurns(f, opts, c) ==
  f[0] = c /\ \A i \in 1 .. Len(opts) : f[i] = Option(f[i - 1], opts[i])

(* An option makes capability sets of capability sets: it changes a single *)
(* member, and a mistyped name is left out.                                *)
LEMMA OptionType ==
  ASSUME NEW o \in Options, NEW t \in CapSets
  PROVE  /\ Option(t, o) \in CapSets
         /\ \A m \in Members : Option(t, o)[m] = IF m = o.set THEN update_capability(o, t[m])
                                                 ELSE t[m]
<1>1. o.set \in Members /\ t[o.set] \in SUBSET Bits /\ t \in [Members -> SUBSET Bits]
  BY DEF Options, CapSets
<1>2. update_capability(o, t[o.set]) \in SUBSET Bits
  BY <1>1 DEF update_capability, construct_capability, Options, Bits
<1> QED
  BY <1>1, <1>2 DEF Option, CapSets

(* A function that satisfies the pass's equation goes option by option.    *)
LEMMA PassValues ==
  ASSUME NEW opts \in Seq(Options), NEW c, NEW f, Pass(f, opts, c)
  PROVE  PassTurns(f, opts, c)
<1>0. Len(opts) \in Nat
  OBVIOUS
<1>1. f[0] = c
  BY <1>0 DEF Pass
<1>2. ASSUME NEW i \in 1 .. Len(opts) PROVE f[i] = Option(f[i - 1], opts[i])
  <2>1. i \in 0 .. Len(opts) /\ i # 0
    BY <1>0
  <2>2. f[i] = IF i = 0 THEN c ELSE Option(f[i - 1], opts[i])
    BY <2>1, Zenon DEF Pass
  <2> QED
    BY <2>1, <2>2
<1> QED
  BY <1>1, <1>2 DEF PassTurns

(* There is such a function.                                               *)
LEMMA PassExists ==
  ASSUME NEW opts \in Seq(Options), NEW c \in CapSets
  PROVE  \E f : Pass(f, opts, c)
<1> DEFINE n == Len(opts)
           body == [k \in 1 .. n |-> [t \in CapSets |-> Option(t, opts[k])]]
<1>0. n \in Nat /\ \A k \in 1 .. n : opts[k] \in Options
  OBVIOUS
<1> HIDE DEF n
<1>1. \A k \in 1 .. n, t \in CapSets : Option(t, opts[k]) \in CapSets
  BY <1>0, OptionType
<1>2. body \in [1 .. n -> [CapSets -> CapSets]]
  BY <1>1
<1> HIDE DEF body
<1>3. PICK f \in [0 .. n -> CapSets] : Iterates(f, n, c, body)
  BY <1>0, <1>2, IterationExists
<1>4. ASSUME NEW k \in 0 .. n
      PROVE  f[k] = IF k = 0 THEN c ELSE Option(f[k - 1], opts[k])
  <2>1. CASE k = 0
    BY <1>3, <2>1 DEF Iterates
  <2>2. CASE k # 0
    <3>1. k \in 1 .. n /\ k - 1 \in 0 .. n
      BY <1>0, <2>2
    <3>2. f[k] = body[k][f[k - 1]] /\ f[k - 1] \in CapSets
      BY <1>3, <3>1 DEF Iterates
    <3> QED
      BY <2>2, <3>1, <3>2 DEF body
  <2> QED
    BY <2>1, <2>2
<1>5. Pass(f, opts, c)
  BY <1>4 DEF Pass, n
<1> QED
  BY <1>5

(* Applied is what the pass has made of the sets after the last option.    *)
LEMMA AppliedTurns ==
  ASSUME NEW opts \in Seq(Options), NEW c \in CapSets
  PROVE  \E f : Applied(opts, c) = f[Len(opts)] /\ PassTurns(f, opts, c)
<1> DEFINE acc == CHOOSE f : Pass(f, opts, c)
<1>1. Pass(acc, opts, c)
  BY PassExists, Zenon
<1>2. Applied(opts, c) = acc[Len(opts)]
  BY DEF Applied, Option, Pass
<1> HIDE DEF acc
<1>3. PassTurns(acc, opts, c)
  BY <1>1, PassValues
<1> QED
  BY <1>2, <1>3

(* The options up to the n-th that speak of capability c in member m, and  *)
(* what the last of them says of it, or the old sets when none does.       *)
Said(opts, n, m, c) == {i \in 1 .. n : Speaks(opts[i], m, c)}
LastSays(opts, n, old, m, c, has) ==
  /\ Said(opts, n, m, c) = {} => (has <=> c \in old[m])
  /\ Said(opts, n, m, c) # {} => \E i \in Said(opts, n, m, c) :
       \A j \in Said(opts, n, m, c) : j <= i
  /\ \A i \in Said(opts, n, m, c) : (\A j \in Said(opts, n, m, c) : j <= i) =>
       (has <=> opts[i].kind # "-" /\ c \in opts[i].names)

(* After n options, a member has a capability as the last of them says.    *)
LEMMA PassSays ==
  ASSUME NEW opts \in Seq(Options), NEW old \in CapSets, NEW f, PassTurns(f, opts, old)
  PROVE  \A n \in 0 .. Len(opts) :
           /\ f[n] \in CapSets
           /\ \A m \in Members, c \in Bits : LastSays(opts, n, old, m, c, c \in f[n][m])
<1> DEFINE S == {n \in Nat : n <= Len(opts) =>
                   /\ f[n] \in CapSets
                   /\ \A m \in Members, c \in Bits : LastSays(opts, n, old, m, c, c \in f[n][m])}
<1>0. Len(opts) \in Nat
  OBVIOUS
<1>1. 0 \in S
  <2>1. \A m, c : Said(opts, 0, m, c) = {}
    BY DEF Said
  <2> QED
    BY <2>1 DEF LastSays, PassTurns
<1>2. ASSUME NEW n \in Nat, n \in S PROVE n + 1 \in S
  <2> SUFFICES ASSUME n + 1 <= Len(opts)
               PROVE  /\ f[n + 1] \in CapSets
                      /\ \A m \in Members, c \in Bits :
                           LastSays(opts, n + 1, old, m, c, c \in f[n + 1][m])
    OBVIOUS
  <2>1. f[n] \in CapSets /\ \A m \in Members, c \in Bits : LastSays(opts, n, old, m, c, c \in f[n][m])
    BY <1>0, <1>2
  <2> DEFINE o == opts[n + 1]
  <2>2. o \in Options /\ f[n + 1] = Option(f[n], o)
    BY <1>0 DEF PassTurns
  <2> HIDE DEF o
  <2>3. /\ f[n + 1] \in CapSets
        /\ \A m \in Members : f[n + 1][m] = IF m = o.set THEN update_capability(o, f[n][m])
                                            ELSE f[n][m]
    BY <2>1, <2>2, OptionType
  <2>4. ASSUME NEW m \in Members, NEW c \in Bits
        PROVE  LastSays(opts, n + 1, old, m, c, c \in f[n + 1][m])
    <3>1. CASE ~ Speaks(o, m, c)
      <4>1. Said(opts, n + 1, m, c) = Said(opts, n, m, c)
        BY <3>1 DEF Said, o
      <4>2. c \in f[n + 1][m] <=> c \in f[n][m]
        BY <2>2, <2>3, <3>1 DEF Speaks, update_capability, construct_capability, Options
      <4> QED
        BY <2>1, <4>1, <4>2 DEF LastSays
    <3>2. CASE Speaks(o, m, c)
      <4>1. n + 1 \in Said(opts, n + 1, m, c)
        BY <3>2 DEF Said, o
      <4>2. \A j \in Said(opts, n + 1, m, c) : j <= n + 1
        BY DEF Said
      <4>3. ASSUME NEW i \in Said(opts, n + 1, m, c),
                   \A j \in Said(opts, n + 1, m, c) : j <= i
            PROVE  i = n + 1
        <5>1. i \in Nat /\ i <= n + 1 /\ n + 1 <= i
          BY <4>1, <4>2, <4>3 DEF Said
        <5> QED
          BY <5>1
      <4>4. c \in f[n + 1][m] <=> o.kind # "-" /\ c \in o.names
        <5>1. m = o.set /\ f[n + 1][m] = update_capability(o, f[n][m])
          BY <2>3, <3>2 DEF Speaks
        <5>2. CASE o.kind = "number"
          BY <5>1, <5>2 DEF update_capability
        <5>3. CASE o.kind # "number"
          <6>1. o.kind \in {"+", "-", "="} /\ o.names \subseteq Caps \cup {"mistyped"}
            BY <2>2, <5>3 DEF Options
          <6>2. c \in o.names => c \in Caps
            BY <6>1 DEF Bits
          <6>3. o.kind = "=" \/ c \in o.names
            BY <3>2, <6>1 DEF Speaks
          <6> QED
            BY <5>1, <6>1, <6>2, <6>3 DEF update_capability, construct_capability
        <5> QED
          BY <5>2, <5>3
      <4> QED
        BY <4>1, <4>2, <4>3, <4>4 DEF LastSays, o
    <3> QED
      BY <3>1, <3>2
  <2> QED
    BY <2>3, <2>4
<1>3. Nat \subseteq S
  <2> HIDE DEF S
  <2> QED
    BY <1>1, <1>2, SetInduction
<1> QED
  BY <1>0, <1>3

(* krgcapset writes capability sets, and the last option that speaks of a  *)
(* capability decides.                                                     *)
LEMMA AppliedIs ==
  ASSUME NEW opts \in Seq(Options), NEW old \in CapSets
  PROVE  /\ Applied(opts, old) \in CapSets
         /\ \A m \in Members, c \in Bits :
              c \in Applied(opts, old)[m] <=> After(opts, old, m, c)
<1>1. PICK f : Applied(opts, old) = f[Len(opts)] /\ PassTurns(f, opts, old)
  BY AppliedTurns
<1>2. Len(opts) \in 0 .. Len(opts) /\ DOMAIN opts = 1 .. Len(opts)
  OBVIOUS
<1>3. /\ f[Len(opts)] \in CapSets
      /\ \A m \in Members, c \in Bits :
           LastSays(opts, Len(opts), old, m, c, c \in f[Len(opts)][m])
  BY <1>1, <1>2, PassSays
<1>4. ASSUME NEW m \in Members, NEW c \in Bits
      PROVE  c \in f[Len(opts)][m] <=> After(opts, old, m, c)
  <2> DEFINE said == Said(opts, Len(opts), m, c)
             last == CHOOSE i \in said : \A j \in said : j <= i
  <2>1. said = {i \in DOMAIN opts : Speaks(opts[i], m, c)}
    BY <1>2 DEF Said
  <2>2. After(opts, old, m, c) = IF said = {} THEN c \in old[m]
                                 ELSE opts[last].kind # "-" /\ c \in opts[last].names
    BY <2>1 DEF After
  <2>3. LastSays(opts, Len(opts), old, m, c, c \in f[Len(opts)][m])
    BY <1>3
  <2>4. CASE said = {}
    BY <2>2, <2>3, <2>4 DEF LastSays
  <2>5. CASE said # {}
    <3>1. \E i \in said : \A j \in said : j <= i
      BY <2>3, <2>5 DEF LastSays
    <3>2. last \in said /\ \A j \in said : j <= last
      BY <3>1, Zenon
    <3>3. c \in f[Len(opts)][m] <=> opts[last].kind # "-" /\ c \in opts[last].names
      <4> HIDE DEF last
      <4> QED
        BY <2>3, <3>2 DEF LastSays
    <3> QED
      BY <2>2, <2>5, <3>3
  <2> QED
    BY <2>4, <2>5
<1> QED
  BY <1>1, <1>3, <1>4

-----------------------------------------------------------------------------
(* The launchers.  What holds of a launcher, its child and its -o file,    *)
(* whatever happens to the capabilities:                                   *)
(*  - there is a child once vfork has returned, and a launcher that goes   *)
(*    on after it has a child that has left the program;                   *)
(*  - the file is written before the child leaves;                         *)
(*  - the handlers are installed one after the other, and stay.            *)
Left(p) == p.pc \in {"running", "ended"}

Launched(c, p, f, l) ==
  /\ c.s => c.b
  /\ c.pc \in {"idle", "capget", "capset", "pipe", "vfork"} => p.pc = "none"
  /\ c.pc = "suspended" => p.pc # "none"
  /\ c.pc \in {"sigint", "sigterm", "wait"} => ~c.b /\ Left(p)
  /\ c.pc \in {"close", "read"} => c.b /\ Left(p)
  /\ c.b /\ c.pc = "done" /\ c.r = "ok" => Left(p)
  /\ c.o /\ p.pc \in {"exec", "running"} => f \in {App[l], "empty"}
  /\ c.pc \in {"sigterm", "wait"} /\ "SA_RESETHAND" \notin c.flags => "SIGINT" \in c.handled
  /\ c.pc = "wait" /\ "SA_RESETHAND" \notin c.flags => "SIGTERM" \in c.handled
  /\ ~c.b /\ c.pc = "done" /\ c.hits = 0 /\ p.pc # "none" =>
       p.pc = "ended" /\ (c.r = "ok" <=> p.status = 0)

LaunchedInv == \A l \in Launchers : Launched(run[l], app[l], file[l], l)

RunTypes == /\ run \in [Launchers -> RunState] /\ app \in [Launchers -> AppState]
            /\ file \in [Launchers -> Apps \cup {"none", "empty"}]

(* The values that a step gives to launcher l have their types and satisfy *)
(* its invariant, and neither is it started nor its child made again.      *)
Fits(l) == /\ run'[l] \in RunState /\ app'[l] \in AppState
           /\ file'[l] \in Apps \cup {"none", "empty"}
           /\ Launched(run'[l], app'[l], file'[l], l)
           /\ (run'[l].pc = "idle" => run[l].pc = "idle")
           /\ (app'[l].pc = "none" => app[l].pc = "none")

(* The records that the commands start from have their types.              *)
LEMMA IdleTypes == /\ NoCaps \in CapSets /\ IdleSet \in KsetState
                   /\ IdleRun \in RunState /\ NoApp \in AppState
<1>1. NoCaps \in CapSets
  BY DEF NoCaps, CapSets
<1>2. IdleSet \in KsetState
  BY <1>1 DEF IdleSet, KsetState
<1>3. IdleRun \in RunState
  BY <1>1, RunAssumption DEF IdleRun, RunState
<1>4. NoApp \in AppState
  BY DEF NoApp, AppState
<1> QED
  BY <1>1, <1>2, <1>3, <1>4

(* What the assignments to a launcher, its child and its file do.          *)
LEMMA Assigned ==
  ASSUME RunTypes, NEW l \in Launchers
  PROVE  /\ \A rec : SetRun(l, rec) => run'[l] = rec
         /\ \A rec : SetApp(l, rec) => app'[l] = rec
         /\ UNCHANGED run => run'[l] = run[l]
         /\ UNCHANGED app => app'[l] = app[l]
         /\ UNCHANGED file => file'[l] = file[l]
BY DEF RunTypes, SetRun, SetApp

(* A launcher that ends, whatever the reason: if it reports a success, its *)
(* child has left; in the foreground with the status of the application.   *)
LEMMA EndsFits ==
  ASSUME RunTypes, NEW l \in Launchers, Launched(run[l], app[l], file[l], l),
         NEW pc \in {"done", "killed"}, NEW r \in {"ok", "fail"}, Ends(l, pc, r),
         UNCHANGED <<app, file>>,
         run[l].b /\ pc = "done" /\ r = "ok" => Left(app[l]),
         ~run[l].b /\ pc = "done" /\ app[l].pc # "none" =>
           app[l].pc = "ended" /\ (r = "ok" <=> app[l].status = 0)
  PROVE  Fits(l)
<1>1. run[l] \in RunState /\ app[l] \in AppState /\ file[l] \in Apps \cup {"none", "empty"}
  BY DEF RunTypes
<1> DEFINE rec == [IdleRun EXCEPT !.pc = pc, !.r = r, !.b = run[l].b, !.o = run[l].o,
                                  !.hits = run[l].hits]
<1>2. run'[l] = rec /\ app'[l] = app[l] /\ file'[l] = file[l]
  BY Assigned DEF Ends
<1>3. rec \in RunState
  BY <1>1, IdleTypes DEF RunState
<1>4. /\ rec.pc = pc /\ rec.r = r /\ rec.b = run[l].b /\ rec.o = run[l].o
      /\ rec.s = FALSE
  BY DEF IdleRun
<1> HIDE DEF rec
<1>5. Launched(rec, app[l], file[l], l)
  BY <1>4 DEF Launched, Left
<1> QED
  BY <1>1, <1>2, <1>3, <1>4, <1>5 DEF Fits

(* The launcher, up to vfork.                                              *)
LEMMA BeforeVforkFits ==
  ASSUME RunTypes, caps \in [Procs -> CapSets], NEW l \in Launchers,
         Launched(run[l], app[l], file[l], l),
         krgcr_run(l) \/ CapGet(l) \/ CapSet(l) \/ Pipe(l) \/ Vfork(l) \/ RunFails(l)
  PROVE  Fits(l)
<1>0. run[l] \in RunState /\ app[l] \in AppState /\ file[l] \in Apps \cup {"none", "empty"}
  BY DEF RunTypes
<1>1. CASE krgcr_run(l)
  <2>1. PICK opt \in RunOptions :
          SetRun(l, [IdleRun EXCEPT !.pc = IF opt.n THEN "pipe" ELSE "capget",
                       !.b = opt.b, !.s = opt.b /\ opt.s, !.o = opt.o, !.n = opt.n])
    BY <1>1 DEF krgcr_run
  <2> DEFINE pc == IF opt.n THEN "pipe" ELSE "capget"
             s == opt.b /\ opt.s
             rec == [IdleRun EXCEPT !.pc = pc, !.b = opt.b, !.s = s, !.o = opt.o, !.n = opt.n]
  <2>2. opt \in [b : BOOLEAN, s : BOOLEAN, o : BOOLEAN, n : BOOLEAN]
    BY RunAssumption
  <2>3. pc \in {"pipe", "capget"} /\ s \in BOOLEAN /\ (s => opt.b)
    OBVIOUS
  <2>4. run'[l] = rec /\ app'[l] = app[l] /\ file'[l] = file[l] /\ app[l].pc = "none"
    BY <1>1, <2>1, Assigned DEF krgcr_run, Launched
  <2> HIDE DEF pc, s
  <2>5. rec \in RunState
    BY <2>2, <2>3, IdleTypes DEF RunState
  <2>6. rec.pc = pc /\ rec.b = opt.b /\ rec.s = s
    BY DEF IdleRun
  <2> HIDE DEF rec
  <2>7. Launched(rec, app[l], file[l], l)
    BY <2>3, <2>4, <2>6 DEF Launched
  <2> QED
    BY <1>0, <2>3, <2>4, <2>5, <2>6, <2>7 DEF Fits
<1>2. CASE CapGet(l)
  <2> DEFINE rec == [run[l] EXCEPT !.pc = "capset", !.read = Raised(caps[l])]
  <2>0. Raised(caps[l]) \in CapSets
    <3>1. caps[l] \in [Members -> SUBSET Bits]
      BY DEF Procs, CapSets
    <3>2. Checkpointable \in Bits
      BY DEF Bits, Caps
    <3> QED
      BY <3>1, <3>2 DEF Raised, CapSets
  <2>1. /\ run'[l] = rec /\ app'[l] = app[l] /\ file'[l] = file[l] /\ app[l].pc = "none"
        /\ (run[l].s => run[l].b)
    BY <1>2, Assigned DEF CapGet, Launched
  <2>2. rec \in RunState /\ rec.pc = "capset" /\ rec.s = run[l].s /\ rec.b = run[l].b
    BY <1>0, <2>0 DEF RunState
  <2> HIDE DEF rec
  <2>3. Launched(rec, app[l], file[l], l)
    BY <2>1, <2>2 DEF Launched
  <2> QED
    BY <1>0, <2>1, <2>2, <2>3 DEF Fits
<1>3. CASE CapSet(l)
  <2> DEFINE rec == [run[l] EXCEPT !.pc = "pipe", !.read = IdleRun.read]
  <2>1. /\ run'[l] = rec /\ app'[l] = app[l] /\ file'[l] = file[l] /\ app[l].pc = "none"
        /\ (run[l].s => run[l].b)
    BY <1>3, Assigned DEF CapSet, Launched
  <2>2. rec \in RunState /\ rec.pc = "pipe" /\ rec.s = run[l].s /\ rec.b = run[l].b
    BY <1>0, IdleTypes DEF RunState
  <2> HIDE DEF rec
  <2>3. Launched(rec, app[l], file[l], l)
    BY <2>1, <2>2 DEF Launched
  <2> QED
    BY <1>0, <2>1, <2>2, <2>3 DEF Fits
<1>4. CASE Pipe(l)
  <2> DEFINE rec == [run[l] EXCEPT !.pc = "vfork", !.writer = run[l].s]
  <2>1. /\ run'[l] = rec /\ app'[l] = app[l] /\ file'[l] = file[l] /\ app[l].pc = "none"
        /\ (run[l].s => run[l].b)
    BY <1>4, Assigned DEF Pipe, Launched
  <2>2. rec \in RunState /\ rec.pc = "vfork" /\ rec.s = run[l].s /\ rec.b = run[l].b
    BY <1>0 DEF RunState
  <2> HIDE DEF rec
  <2>3. Launched(rec, app[l], file[l], l)
    BY <2>1, <2>2 DEF Launched
  <2> QED
    BY <1>0, <2>1, <2>2, <2>3 DEF Fits
<1>5. CASE Vfork(l)
  <2> DEFINE rec == [run[l] EXCEPT !.pc = "suspended"]
             child == [NoApp EXCEPT !.pc = "child", !.writer = run[l].writer]
  <2>1. /\ run'[l] = rec /\ app'[l] = child /\ file'[l] = file[l]
        /\ (run[l].s => run[l].b)
    BY <1>5, Assigned DEF Vfork, Go, Launched
  <2>2. rec \in RunState /\ rec.pc = "suspended" /\ rec.s = run[l].s /\ rec.b = run[l].b
    BY <1>0 DEF RunState
  <2>3. child \in AppState /\ child.pc = "child"
    BY <1>0, IdleTypes DEF RunState, AppState, NoApp
  <2> HIDE DEF rec, child
  <2>4. Launched(rec, child, file[l], l)
    BY <2>1, <2>2, <2>3 DEF Launched
  <2> QED
    BY <1>0, <2>1, <2>2, <2>3, <2>4 DEF Fits
<1>6. CASE RunFails(l)
  BY <1>0, <1>6, EndsFits DEF RunFails, ExitRun, Launched
<1> QED
  BY <1>1, <1>2, <1>3, <1>4, <1>5, <1>6

(* The launcher after vfork.                                               *)
LEMMA AfterVforkFits ==
  ASSUME RunTypes, NEW l \in Launchers, Launched(run[l], app[l], file[l], l),
         \/ Resumes(l) \/ SigactionInt(l) \/ SigactionTerm(l)
         \/ Wait(l) \/ ClosePipe(l) \/ ReadPipe(l)
  PROVE  Fits(l)
<1>0. run[l] \in RunState /\ app[l] \in AppState /\ file[l] \in Apps \cup {"none", "empty"}
  BY DEF RunTypes
<1>1. ASSUME NEW pc \in {"sigint", "close"}, Go(l, pc), UNCHANGED <<app, file>>, Left(app[l]),
             (pc = "close") <=> run[l].b
      PROVE  Fits(l)
  <2> DEFINE rec == [run[l] EXCEPT !.pc = pc]
  <2>1. run'[l] = rec /\ app'[l] = app[l] /\ file'[l] = file[l]
    BY <1>1, Assigned DEF Go
  <2>2. /\ rec \in RunState /\ rec.pc = pc /\ rec.s = run[l].s /\ rec.b = run[l].b
        /\ rec.o = run[l].o
    BY <1>0 DEF RunState
  <2> HIDE DEF rec
  <2>3. Launched(rec, app[l], file[l], l)
    BY <1>1, <2>2 DEF Launched, Left
  <2> QED
    BY <1>0, <2>1, <2>2, <2>3 DEF Fits
<1>2. CASE Resumes(l)
  <2>1. Left(app[l]) /\ UNCHANGED <<app, file>> /\ (run[l].s => run[l].b)
    BY <1>2 DEF Resumes, ChildHasLeft, Left, Launched
  <2>2. CASE Killed(l)
    BY <2>1, <2>2, EndsFits DEF Killed
  <2>3. CASE run[l].b /\ ExitRun(l, "ok")
    BY <2>1, <2>3, EndsFits DEF ExitRun
  <2>4. CASE ~run[l].b /\ Go(l, "sigint")
    BY <1>1, <2>1, <2>4
  <2>5. CASE run[l].s /\ Go(l, "close")
    BY <1>1, <2>1, <2>5
  <2> QED
    BY <1>2, <2>2, <2>3, <2>4, <2>5 DEF Resumes
<1>3. CASE SigactionInt(l)
  <2>1. PICK flags \in SUBSET {"SA_RESTART", "SA_RESETHAND"} :
          SetRun(l, [run[l] EXCEPT !.pc = "sigterm", !.flags = flags, !.handled = {"SIGINT"}])
    BY <1>3 DEF SigactionInt
  <2> DEFINE rec == [run[l] EXCEPT !.pc = "sigterm", !.flags = flags, !.handled = {"SIGINT"}]
  <2>2. /\ run'[l] = rec /\ app'[l] = app[l] /\ file'[l] = file[l]
        /\ Left(app[l]) /\ ~run[l].b
    BY <1>3, <2>1, Assigned DEF SigactionInt, Launched
  <2>3. /\ rec \in RunState /\ rec.pc = "sigterm" /\ rec.s = run[l].s /\ rec.b = run[l].b
        /\ rec.o = run[l].o /\ rec.handled = {"SIGINT"}
    BY <1>0 DEF RunState, Signals
  <2> HIDE DEF rec
  <2>4. Launched(rec, app[l], file[l], l)
    BY <2>2, <2>3 DEF Launched, Left
  <2> QED
    BY <1>0, <2>2, <2>3, <2>4 DEF Fits
<1>4. CASE SigactionTerm(l)
  <2> DEFINE rec == [run[l] EXCEPT !.pc = "wait", !.handled = @ \cup {"SIGTERM"}]
  <2>1. /\ run'[l] = rec /\ app'[l] = app[l] /\ file'[l] = file[l]
        /\ Left(app[l]) /\ ~run[l].b
        /\ "SA_RESETHAND" \notin run[l].flags => "SIGINT" \in run[l].handled
    BY <1>4, Assigned DEF SigactionTerm, Launched
  <2>2. /\ rec \in RunState /\ rec.pc = "wait" /\ rec.s = run[l].s /\ rec.b = run[l].b
        /\ rec.o = run[l].o /\ rec.handled = run[l].handled \cup {"SIGTERM"}
        /\ rec.flags = run[l].flags
    BY <1>0 DEF RunState, Signals
  <2> HIDE DEF rec
  <2>3. Launched(rec, app[l], file[l], l)
    BY <2>1, <2>2 DEF Launched, Left
  <2> QED
    BY <1>0, <2>1, <2>2, <2>3 DEF Fits
<1>5. CASE Wait(l)
  <2> DEFINE r == IF app[l].status = 0 THEN "ok" ELSE "fail"
  <2>1. /\ Ends(l, "done", r) /\ UNCHANGED <<app, file>>
        /\ app[l].pc = "ended" /\ ~run[l].b
    BY <1>5 DEF Wait, ExitRun, Launched
  <2>2. r \in {"ok", "fail"} /\ (r = "ok" <=> app[l].status = 0)
    OBVIOUS
  <2> HIDE DEF r
  <2> QED
    BY <2>1, <2>2, EndsFits
<1>6. CASE ClosePipe(l)
  <2> DEFINE rec == [run[l] EXCEPT !.pc = "read", !.writer = FALSE]
  <2>1. /\ run'[l] = rec /\ app'[l] = app[l] /\ file'[l] = file[l]
        /\ Left(app[l]) /\ run[l].b
    BY <1>6, Assigned DEF ClosePipe, Launched
  <2>2. /\ rec \in RunState /\ rec.pc = "read" /\ rec.s = run[l].s /\ rec.b = run[l].b
        /\ rec.o = run[l].o
    BY <1>0 DEF RunState
  <2> HIDE DEF rec
  <2>3. Launched(rec, app[l], file[l], l)
    BY <2>1, <2>2 DEF Launched, Left
  <2> QED
    BY <1>0, <2>1, <2>2, <2>3 DEF Fits
<1>7. CASE ReadPipe(l)
  BY <1>7, EndsFits DEF ReadPipe, ExitRun, Launched
<1> QED
  BY <1>2, <1>3, <1>4, <1>5, <1>6, <1>7

(* The child, and the application that it becomes.                         *)
LEMMA ChildFits ==
  ASSUME RunTypes, NEW l \in Launchers, Launched(run[l], app[l], file[l], l),
         WriteFile(l) \/ Execs(l) \/ ChildFails(l) \/ AppReleases(l) \/ AppEnds(l)
  PROVE  Fits(l)
<1>0. run[l] \in RunState /\ app[l] \in AppState /\ file[l] \in Apps \cup {"none", "empty"}
  BY DEF RunTypes
<1>1. CASE WriteFile(l)
  <2> DEFINE rec == [app[l] EXCEPT !.pc = "exec"]
  <2>1. run'[l] = run[l] /\ app'[l] = rec /\ app[l].pc = "child"
    BY <1>1, Assigned DEF WriteFile
  <2>2. PICK written \in {App[l], "empty"} :
             file' = [file EXCEPT ![l] = IF run[l].o THEN written ELSE @]
    BY <1>1 DEF WriteFile
  <2>3. /\ file'[l] \in Apps \cup {"none", "empty"}
        /\ run[l].o => file'[l] \in {App[l], "empty"}
    BY <1>0, <2>2 DEF Apps, RunTypes
  <2>4. rec \in AppState /\ rec.pc = "exec"
    BY <1>0 DEF AppState
  <2> HIDE DEF rec
  <2>5. Launched(run[l], rec, file'[l], l)
    BY <2>1, <2>3, <2>4 DEF Launched, Left
  <2> QED
    BY <1>0, <2>1, <2>3, <2>4, <2>5 DEF Fits
<1>2. CASE Execs(l)
  <2> DEFINE rec == [app[l] EXCEPT !.pc = "running"]
  <2>1. run'[l] = run[l] /\ app'[l] = rec /\ file'[l] = file[l] /\ app[l].pc = "exec"
    BY <1>2, Assigned DEF Execs
  <2>2. rec \in AppState /\ rec.pc = "running"
    BY <1>0 DEF AppState
  <2> HIDE DEF rec
  <2>3. Launched(run[l], rec, file[l], l)
    BY <2>1, <2>2 DEF Launched, Left
  <2> QED
    BY <1>0, <2>1, <2>2, <2>3 DEF Fits
<1>3. CASE ChildFails(l)
  <2> DEFINE rec == [app[l] EXCEPT !.pc = "ended", !.writer = FALSE, !.status = 1]
  <2>1. /\ run'[l] = run[l] /\ app'[l] = rec /\ file'[l] = file[l]
        /\ app[l].pc \in {"child", "exec"}
    BY <1>3, Assigned DEF ChildFails
  <2>2. rec \in AppState /\ rec.pc = "ended"
    BY <1>0 DEF AppState
  <2> HIDE DEF rec
  <2>3. Launched(run[l], rec, file[l], l)
    BY <2>1, <2>2 DEF Launched, Left
  <2> QED
    BY <1>0, <2>1, <2>2, <2>3 DEF Fits
<1>4. CASE AppReleases(l)
  <2>1. PICK wrote \in BOOLEAN : SetApp(l, [app[l] EXCEPT !.wrote = wrote, !.writer = wrote])
    BY <1>4 DEF AppReleases
  <2> DEFINE rec == [app[l] EXCEPT !.wrote = wrote, !.writer = wrote]
  <2>2. run'[l] = run[l] /\ app'[l] = rec /\ file'[l] = file[l] /\ app[l].pc = "running"
    BY <1>4, <2>1, Assigned DEF AppReleases
  <2>3. rec \in AppState /\ rec.pc = "running"
    BY <1>0, <2>2 DEF AppState
  <2> HIDE DEF rec
  <2>4. Launched(run[l], rec, file[l], l)
    BY <2>2, <2>3 DEF Launched, Left
  <2> QED
    BY <1>0, <2>2, <2>3, <2>4 DEF Fits
<1>5. CASE AppEnds(l)
  <2>1. PICK status \in {0, 1} :
          SetApp(l, [app[l] EXCEPT !.pc = "ended", !.writer = FALSE, !.got = {},
                                   !.status = status])
    BY <1>5 DEF AppEnds
  <2> DEFINE rec == [app[l] EXCEPT !.pc = "ended", !.writer = FALSE, !.got = {},
                                   !.status = status]
  <2>2. run'[l] = run[l] /\ app'[l] = rec /\ file'[l] = file[l] /\ app[l].pc = "running"
    BY <1>5, <2>1, Assigned DEF AppEnds
  <2>3. rec \in AppState /\ rec.pc = "ended"
    BY <1>0 DEF AppState
  <2> HIDE DEF rec
  <2>4. Launched(run[l], rec, file[l], l)
    BY <2>2, <2>3 DEF Launched, Left
  <2> QED
    BY <1>0, <2>2, <2>3, <2>4 DEF Fits
<1> QED
  BY <1>1, <1>2, <1>3, <1>4, <1>5

(* Signals: kept for a suspended launcher, fatal, or relayed.              *)
LEMMA SignalFits ==
  ASSUME RunTypes, NEW l \in Launchers, Launched(run[l], app[l], file[l], l),
         NEW sig \in Signals, Sent(l, sig) \/ relay_signal(l, sig)
  PROVE  Fits(l)
<1>0. run[l] \in RunState /\ app[l] \in AppState /\ file[l] \in Apps \cup {"none", "empty"}
  BY DEF RunTypes
<1>h. run[l].hits < MaxSignals /\ run[l].hits + 1 \in 0 .. MaxSignals /\ run[l].hits + 1 # 0
  <2>1. run[l].hits < MaxSignals /\ run[l].hits \in Nat
    BY <1>0 DEF Sent, relay_signal, RunState
  <2> QED
    BY <2>1, RunAssumption
<1>1. CASE Sent(l, sig)
  <2> DEFINE rec == [run[l] EXCEPT !.pending = @ \cup {sig}, !.hits = @ + 1]
  <2>1. CASE run[l].pc = "suspended" /\ SetRun(l, rec)
    <3>1. run'[l] = rec /\ app'[l] = app[l] /\ file'[l] = file[l]
      BY <1>1, <2>1, Assigned DEF Sent
    <3>2. /\ rec \in RunState /\ rec.pc = "suspended" /\ rec.s = run[l].s /\ rec.b = run[l].b
          /\ rec.o = run[l].o
      BY <1>0, <1>h, <2>1 DEF RunState
    <3> HIDE DEF rec
    <3>3. Launched(rec, app[l], file[l], l)
      BY <2>1, <3>2 DEF Launched, Left
    <3> QED
      BY <1>0, <3>1, <3>2, <3>3 DEF Fits
  <2>2. CASE Killed(l)
    BY <1>1, <2>2, EndsFits DEF Sent, Killed
  <2> QED
    BY <1>1, <2>1, <2>2 DEF Sent
<1>2. CASE relay_signal(l, sig)
  <2> DEFINE got == IF app[l].pc = "running" THEN app[l].got \cup {sig} ELSE app[l].got
             child == [app[l] EXCEPT !.got = got]
             handled == IF "SA_RESETHAND" \in run[l].flags THEN run[l].handled \ {sig}
                        ELSE run[l].handled
             rec == [run[l] EXCEPT !.hits = @ + 1, !.handled = handled]
  <2>1. /\ app'[l] = child /\ file'[l] = file[l] /\ run[l].pc \in {"sigterm", "wait"}
        /\ ~run[l].b /\ Left(app[l])
    BY <1>2, Assigned DEF relay_signal, Launched
  <2>2. got \in SUBSET Signals /\ handled \in SUBSET Signals
    BY <1>0 DEF AppState, RunState
  <2>3. "SA_RESETHAND" \notin run[l].flags => handled = run[l].handled
    OBVIOUS
  <2>4. \/ run'[l] = rec
        \/ \E r \in {"ok", "fail"} : run'[l] = [rec EXCEPT !.pc = "done", !.r = r]
    BY <1>2, Assigned DEF relay_signal
  <2> HIDE DEF got, handled
  <2>5. child \in AppState /\ child.pc = app[l].pc
    BY <1>0, <2>2 DEF AppState
  <2>6. /\ rec \in RunState /\ rec.pc = run[l].pc /\ rec.s = run[l].s /\ rec.b = run[l].b
        /\ rec.o = run[l].o /\ rec.handled = handled /\ rec.flags = run[l].flags
        /\ rec.hits = run[l].hits + 1
    BY <1>0, <1>h, <2>2 DEF RunState
  <2> HIDE DEF child, rec
  <2>7. CASE run'[l] = rec
    <3>1. Launched(rec, child, file[l], l)
      BY <2>1, <2>3, <2>5, <2>6 DEF Launched, Left
    <3> QED
      BY <1>0, <2>1, <2>5, <2>6, <2>7, <3>1 DEF Fits
  <2>8. ASSUME NEW r \in {"ok", "fail"}, run'[l] = [rec EXCEPT !.pc = "done", !.r = r]
        PROVE  Fits(l)
    <3> DEFINE last == [rec EXCEPT !.pc = "done", !.r = r]
    <3>1. /\ last \in RunState /\ last.pc = "done" /\ last.s = run[l].s /\ last.b = run[l].b
          /\ last.o = run[l].o /\ last.hits = run[l].hits + 1
      BY <2>6 DEF RunState
    <3>2. run'[l] = last
      BY <2>8
    <3> HIDE DEF last
    <3>3. Launched(last, child, file[l], l)
      BY <1>h, <2>1, <2>5, <3>1 DEF Launched, Left
    <3> QED
      BY <1>0, <2>1, <2>5, <3>1, <3>2, <3>3 DEF Fits
  <2> QED
    BY <2>4, <2>7, <2>8
<1> QED
  BY <1>1, <1>2

(* Any step of a launcher, its child or its application.                   *)
LEMMA RunStepFits ==
  ASSUME RunTypes, caps \in [Procs -> CapSets], NEW l \in Launchers,
         Launched(run[l], app[l], file[l], l), RunStep(l)
  PROVE  Fits(l)
BY BeforeVforkFits, AfterVforkFits, ChildFits, SignalFits DEF RunStep, LauncherStep, ChildStep

(* It changes nothing of the other launchers.                              *)
LEMMA RunStepAlone ==
  ASSUME RunTypes, NEW l \in Launchers, RunStep(l)
  PROVE  /\ run' = [run EXCEPT ![l] = run'[l]]
         /\ app' = [app EXCEPT ![l] = app'[l]]
         /\ file' = [file EXCEPT ![l] = file'[l]]
<1>1. run' = run \/ \E rec : SetRun(l, rec)
  BY DEF RunStep, LauncherStep, ChildStep, krgcr_run, CapGet, CapSet, Pipe, Vfork, Resumes,
         SigactionInt, SigactionTerm, Wait, ClosePipe, ReadPipe, RunFails, WriteFile, Execs,
         ChildFails, AppReleases, AppEnds, Sent, relay_signal, Go, Killed, ExitRun, Ends
<1>2. app' = app \/ \E rec : SetApp(l, rec)
  BY DEF RunStep, LauncherStep, ChildStep, krgcr_run, CapGet, CapSet, Pipe, Vfork, Resumes,
         SigactionInt, SigactionTerm, Wait, ClosePipe, ReadPipe, RunFails, WriteFile, Execs,
         ChildFails, AppReleases, AppEnds, Sent, relay_signal
<1>3. file' = file \/ \E f : file' = [file EXCEPT ![l] = f]
  BY DEF RunStep, LauncherStep, ChildStep, krgcr_run, CapGet, CapSet, Pipe, Vfork, Resumes,
         SigactionInt, SigactionTerm, Wait, ClosePipe, ReadPipe, RunFails, WriteFile, Execs,
         ChildFails, AppReleases, AppEnds, Sent, relay_signal
<1>4. run' = [run EXCEPT ![l] = run'[l]]
  BY <1>1 DEF RunTypes, SetRun
<1>5. app' = [app EXCEPT ![l] = app'[l]]
  BY <1>2 DEF RunTypes, SetApp
<1>6. file' = [file EXCEPT ![l] = file'[l]]
  BY <1>3 DEF RunTypes
<1> QED
  BY <1>4, <1>5, <1>6

(* So it keeps the types and the invariant of all of them.                 *)
LEMMA RunStepKeeps ==
  ASSUME RunTypes, caps \in [Procs -> CapSets], LaunchedInv, NEW l \in Launchers, RunStep(l)
  PROVE  RunTypes' /\ LaunchedInv'
<1>1. Fits(l)
  BY RunStepFits DEF LaunchedInv
<1>2. /\ run' = [run EXCEPT ![l] = run'[l]] /\ app' = [app EXCEPT ![l] = app'[l]]
      /\ file' = [file EXCEPT ![l] = file'[l]]
  BY RunStepAlone
<1>3. RunTypes'
  BY <1>1, <1>2 DEF RunTypes, Fits
<1>4. ASSUME NEW m \in Launchers PROVE Launched(run'[m], app'[m], file'[m], m)
  <2>1. CASE m = l
    BY <1>1, <2>1 DEF Fits
  <2>2. CASE m # l
    <3>1. run'[m] = run[m] /\ app'[m] = app[m] /\ file'[m] = file[m]
      BY <1>2, <2>2 DEF RunTypes
    <3> QED
      BY <3>1 DEF LaunchedInv
  <2> QED
    BY <2>1, <2>2
<1> QED
  BY <1>3, <1>4 DEF LaunchedInv, Launched, Left

-----------------------------------------------------------------------------
(* The processes and their capability sets.                                *)
CapTypes == alive \subseteq Procs /\ caps \in [Procs -> CapSets]

(* A launcher that has not been started, and a child that has not been     *)
(* made, do not exist.                                                     *)
Existing ==
  \A l \in Launchers : /\ (run[l].pc = "idle" => l \notin alive)
                       /\ (app[l].pc = "none" => App[l] \notin alive)

(* What a child inherits are capability sets.                              *)
LEMMA InheritedType ==
  ASSUME NEW c \in CapSets
  PROVE  Inherited(c) \in CapSets
BY DEF Inherited, CapSets, Members

(* The requests and events that change the sets.                           *)
LEMMA CapOperations ==
  ASSUME CapTypes, NEW p \in Procs
  PROVE  /\ UNCHANGED capVars => CapTypes'
         /\ \A q \in Procs : Forks(q, p) => CapTypes'
         /\ \A c \in CapSets : Set(p, c) => CapTypes'
         /\ Dies(p) => CapTypes'
<1>1. ASSUME NEW q \in Procs, Forks(q, p) PROVE CapTypes'
  <2>1. Inherited(caps[q]) \in CapSets
    BY InheritedType DEF CapTypes
  <2> QED
    BY <1>1, <2>1 DEF CapTypes, Forks
<1>2. ASSUME NEW c \in CapSets, Set(p, c) PROVE CapTypes'
  BY <1>2 DEF CapTypes, Set
<1>3. ASSUME Dies(p) PROVE CapTypes'
  BY <1>3, IdleTypes DEF CapTypes, Dies
<1>4. ASSUME UNCHANGED capVars PROVE CapTypes'
  BY <1>4 DEF CapTypes, capVars
<1> QED
  BY <1>1, <1>2, <1>3, <1>4

(* What a step of a launcher, its child or its application does to them.   *)
LEMMA RunCapCases ==
  ASSUME RunTypes, LaunchedInv, NEW l \in Launchers, RunStep(l)
  PROVE  \/ UNCHANGED capVars
         \/ run[l].pc = "idle" /\ run'[l].pc # "idle" /\ \E s \in Shells : Forks(s, l)
         \/ app[l].pc = "none" /\ app'[l].pc # "none" /\ Forks(l, App[l])
         \/ Dies(l) \/ Dies(App[l])
         \/ CapSet(l)
<1>0. run[l] \in RunState
  BY DEF RunTypes
<1>1. CASE krgcr_run(l)
  <2>1. PICK s \in Shells, opt \in RunOptions :
          /\ Forks(s, l)
          /\ SetRun(l, [IdleRun EXCEPT !.pc = IF opt.n THEN "pipe" ELSE "capget",
                          !.b = opt.b, !.s = opt.b /\ opt.s, !.o = opt.o, !.n = opt.n])
    BY <1>1 DEF krgcr_run
  <2> DEFINE pc == IF opt.n THEN "pipe" ELSE "capget"
             s2 == opt.b /\ opt.s
             rec == [IdleRun EXCEPT !.pc = pc, !.b = opt.b, !.s = s2, !.o = opt.o, !.n = opt.n]
  <2>2. run'[l] = rec /\ pc # "idle"
    BY <2>1, Assigned
  <2> HIDE DEF pc, s2
  <2>3. rec.pc = pc
    BY DEF IdleRun
  <2>4. run'[l].pc # "idle" /\ run[l].pc = "idle"
    BY <1>1, <2>2, <2>3 DEF krgcr_run
  <2> QED
    BY <2>1, <2>4
<1>2. CASE Vfork(l)
  <2>1. app'[l] = [NoApp EXCEPT !.pc = "child", !.writer = run[l].writer]
    BY <1>2, Assigned DEF Vfork
  <2>2. app'[l].pc = "child"
    BY <2>1 DEF NoApp
  <2> QED
    BY <1>2, <2>2 DEF Vfork, LaunchedInv, Launched
<1>3. CASE ~(krgcr_run(l) \/ Vfork(l) \/ CapSet(l))
  BY <1>3, Zenon DEF RunStep, LauncherStep, ChildStep, CapGet, Pipe, Resumes, SigactionInt,
         SigactionTerm, Wait, ClosePipe, ReadPipe, RunFails, WriteFile, Execs,
         ChildFails, AppReleases, AppEnds, Sent, relay_signal, Killed, ExitRun, Ends, capVars
<1> QED
  BY <1>1, <1>2, <1>3

-----------------------------------------------------------------------------
(* The krgcapset commands: what one writes without -f, and without having  *)
(* asked its user, does not lose CHANGE_KERRIGHED_CAP.                     *)
Asked(c) == c.pc = "set" /\ ~c.force /\ ~c.asked => ~Loses(c.new)
AskedInv == \A k \in Setters : Asked(kset[k])

KsetTypes == kset \in [Setters -> KsetState]

(* The process a command works on is one of the processes.                 *)
LEMMA TargetType ==
  ASSUME KsetTypes, NEW k \in Setters
  PROVE  Target(k) \in Procs
<1>1. kset[k].father \in Shells \cup {Init1} /\ kset[k].pid \in Procs \cup {"father"}
  BY DEF KsetTypes, KsetState
<1>2. Father(k) \in Procs
  BY <1>1 DEF Father, Procs
<1> QED
  BY <1>1, <1>2 DEF Target

(* A command that is given a state with its type, and of which Asked holds.*)
LEMMA SetKsetKeeps ==
  ASSUME KsetTypes, AskedInv, NEW k \in Setters, NEW rec \in KsetState, Asked(rec),
         SetKset(k, rec)
  PROVE  KsetTypes' /\ AskedInv' /\ kset'[k] = rec
<1>1. kset' = [kset EXCEPT ![k] = rec]
  BY DEF SetKset
<1>2. KsetTypes' /\ kset'[k] = rec
  BY <1>1 DEF KsetTypes
<1>3. ASSUME NEW j \in Setters PROVE Asked(kset'[j])
  BY <1>1 DEF KsetTypes, AskedInv
<1> QED
  BY <1>2, <1>3 DEF AskedInv, Asked, Loses

(* A command that ends.                                                    *)
LEMMA ExitKeeps ==
  ASSUME KsetTypes, AskedInv, NEW k \in Setters, NEW r \in {"ok", "fail"}, Exit(k, r)
  PROVE  KsetTypes' /\ AskedInv' /\ kset'[k].pc = "done"
<1> DEFINE rec == [IdleSet EXCEPT !.pc = "done", !.r = r]
<1>1. rec \in KsetState /\ rec.pc = "done"
  BY IdleTypes DEF KsetState
<1>2. SetKset(k, rec)
  BY DEF Exit
<1> HIDE DEF rec
<1>3. Asked(rec)
  BY <1>1 DEF Asked
<1> QED
  BY <1>1, <1>2, <1>3, SetKsetKeeps

(* The steps of a command.                                                 *)
LEMMA KsetStepKeeps ==
  ASSUME KsetTypes, AskedInv, CapTypes, NEW k \in Setters, KsetStep(k)
  PROVE  /\ KsetTypes' /\ AskedInv'
         /\ kset'[k].pc \in {"ask", "set"} =>
              \/ /\ kset[k].pc = "get" /\ UNCHANGED capVars
                 /\ kset'[k].opts = kset[k].opts
                 /\ kset'[k].pid = kset[k].pid /\ kset'[k].father = kset[k].father
                 /\ kset'[k].new = Applied(kset[k].opts, caps[Target(k)])
              \/ /\ kset[k].pc \in {"ask", "set"} /\ UNCHANGED capVars
                 /\ kset'[k].opts = kset[k].opts /\ kset'[k].new = kset[k].new
                 /\ kset[k].pc = "set" => kset'[k].pc = "set"
<1>0. kset[k] \in KsetState
  BY DEF KsetTypes
<1>1. ASSUME NEW r \in {"ok", "fail"}, Exit(k, r)
      PROVE  KsetTypes' /\ AskedInv' /\ kset'[k].pc = "done"
  BY <1>1, ExitKeeps
<1>2. CASE krgcapset(k)
  <2>1. PICK s \in Shells, arg \in Invocations :
          SetKset(k, [IdleSet EXCEPT !.pc = "get", !.father = s, !.pid = arg.pid,
                                     !.force = arg.force, !.opts = arg.opts])
    BY <1>2 DEF krgcapset
  <2> DEFINE rec == [IdleSet EXCEPT !.pc = "get", !.father = s, !.pid = arg.pid,
                                    !.force = arg.force, !.opts = arg.opts]
  <2>2. arg \in [pid : Procs \cup {"father"}, force : BOOLEAN, opts : Seq(Options)]
    BY SetterAssumption
  <2>3. rec \in KsetState /\ rec.pc = "get"
    BY <2>2, IdleTypes DEF KsetState
  <2>4. SetKset(k, rec)
    BY <2>1
  <2> HIDE DEF rec
  <2>5. Asked(rec)
    BY <2>3 DEF Asked
  <2> QED
    BY <2>3, <2>4, <2>5, SetKsetKeeps
<1>3. CASE KsetFails(k) \/ set_caps_for_pid(k)
  BY <1>1, <1>3 DEF KsetFails, set_caps_for_pid
<1>4. CASE get_caps_for_pid(k)
  <2> DEFINE new == Applied(kset[k].opts, caps[Target(k)])
             pc == IF ~kset[k].force /\ Loses(new) THEN "ask" ELSE "set"
             rec == [kset[k] EXCEPT !.new = new, !.pc = pc]
  <2>1. new \in CapSets
    BY <1>0, TargetType, AppliedIs DEF CapTypes, KsetState
  <2>2. pc \in {"ask", "set"} /\ (pc = "set" => kset[k].force \/ ~Loses(new))
    OBVIOUS
  <2>3. CASE Exit(k, "ok")
    BY <1>1, <2>3
  <2>4. CASE SetKset(k, rec)
    <3> HIDE DEF new, pc
    <3>1. /\ rec \in KsetState /\ rec.pc = pc /\ rec.new = new /\ rec.force = kset[k].force
          /\ rec.opts = kset[k].opts /\ rec.pid = kset[k].pid /\ rec.father = kset[k].father
      BY <1>0, <2>1, <2>2 DEF KsetState
    <3>2. SetKset(k, rec)
      BY <2>4
    <3> HIDE DEF rec
    <3>3. Asked(rec)
      BY <2>2, <3>1 DEF Asked
    <3>4. KsetTypes' /\ AskedInv' /\ kset'[k] = rec
      BY <3>1, <3>2, <3>3, SetKsetKeeps
    <3> QED
      BY <1>4, <3>1, <3>4 DEF get_caps_for_pid, new
  <2> QED
    BY <1>4, <2>3, <2>4 DEF get_caps_for_pid
<1>5. ASSUME NEW yes \in BOOLEAN, Answer(k, yes)
      PROVE  /\ KsetTypes' /\ AskedInv'
             /\ kset'[k].pc \in {"ask", "set"} =>
                  /\ kset[k].pc = "ask" /\ UNCHANGED capVars
                  /\ kset'[k].opts = kset[k].opts /\ kset'[k].new = kset[k].new
  <2> DEFINE rec == [kset[k] EXCEPT !.pc = "set", !.asked = TRUE]
  <2>1. CASE Exit(k, "ok")
    BY <1>1, <2>1
  <2>2. CASE SetKset(k, rec)
    <3>1. /\ rec \in KsetState /\ rec.asked = TRUE
          /\ rec.opts = kset[k].opts /\ rec.new = kset[k].new
      BY <1>0 DEF KsetState
    <3> HIDE DEF rec
    <3>2. Asked(rec)
      BY <3>1 DEF Asked
    <3>3. KsetTypes' /\ AskedInv' /\ kset'[k] = rec
      BY <2>2, <3>1, <3>2, SetKsetKeeps
    <3> QED
      BY <1>5, <3>1, <3>3 DEF Answer
  <2> QED
    BY <1>5, <2>1, <2>2 DEF Answer
<1> QED
  BY <1>2, <1>3, <1>4, <1>5 DEF KsetStep

(* It changes nothing of the other commands.                               *)
LEMMA KsetStepAlone ==
  ASSUME KsetTypes, NEW k \in Setters, KsetStep(k), NEW j \in Setters, j # k
  PROVE  kset'[j] = kset[j]
<1>1. \E rec : SetKset(k, rec)
  BY DEF KsetStep, krgcapset, KsetFails, get_caps_for_pid, set_caps_for_pid, Answer, Exit
<1> QED
  BY <1>1 DEF SetKset, KsetTypes

(* And to the capability sets it does nothing before it writes them.       *)
LEMMA KsetCapCases ==
  ASSUME NEW k \in Setters, KsetStep(k)
  PROVE  UNCHANGED capVars \/ set_caps_for_pid(k)
BY DEF KsetStep, krgcapset, KsetFails, get_caps_for_pid, Answer

-----------------------------------------------------------------------------
(* Types, the launchers' and the setters' invariants, and which processes  *)
(* exist, through every step.                                              *)
SessionInv == TypeOK /\ LaunchedInv /\ AskedInv /\ Existing

(* The parts of the type invariant.                                        *)
LEMMA TypeParts ==
  TypeOK <=> CapTypes /\ KsetTypes /\ RunTypes /\ stale \in [Commands -> BOOLEAN]
BY DEF TypeOK, CapTypes, KsetTypes, RunTypes

(* One step of the session, whoever makes it.                              *)
LEMMA SessionStep ==
  ASSUME SessionInv, [Next]_vars
  PROVE  SessionInv'
<1>0. CapTypes /\ KsetTypes /\ RunTypes /\ stale \in [Commands -> BOOLEAN]
  BY TypeParts DEF SessionInv
<1>c. LaunchedInv /\ AskedInv /\ Existing /\ caps \in [Procs -> CapSets]
  BY <1>0 DEF SessionInv, CapTypes
<1>p. /\ Launchers \subseteq Procs /\ Shells \subseteq Procs
      /\ \A l \in Launchers : App[l] \in Procs
  BY DEF Procs, Apps
<1>1. stale' \in [Commands -> BOOLEAN]
  <2>1. CASE UNCHANGED vars
    BY <1>0, <2>1 DEF vars
  <2>2. CASE Remember
    <3>1. \A c \in Commands : stale'[c] \in BOOLEAN
      BY <1>0, <2>2 DEF Remember
    <3> QED
      BY <2>2, <3>1 DEF Remember
  <2> QED
    BY <2>1, <2>2 DEF Next
<1>2. ASSUME NEW k \in Setters, KsetStep(k), UNCHANGED runVars PROVE SessionInv'
  <2>1. KsetTypes' /\ AskedInv'
    BY <1>0, <1>2, <1>c, KsetStepKeeps
  <2>2. RunTypes' /\ LaunchedInv'
    BY <1>0, <1>2, <1>c DEF runVars, RunTypes, LaunchedInv, Launched, Left
  <2>3. CapTypes' /\ alive' = alive
    <3>1. CASE UNCHANGED capVars
      BY <1>0, <3>1 DEF capVars, CapTypes
    <3>2. CASE set_caps_for_pid(k)
      <4>1. Target(k) \in Procs /\ kset[k].new \in CapSets
        BY <1>0, TargetType DEF KsetTypes, KsetState
      <4>2. Set(Target(k), kset[k].new)
        BY <3>2 DEF set_caps_for_pid
      <4> QED
        BY <1>0, <4>1, <4>2, CapOperations DEF Set
    <3> QED
      BY <1>2, <3>1, <3>2, KsetCapCases
  <2>4. Existing'
    BY <1>2, <1>c, <2>3 DEF Existing, runVars
  <2> QED
    BY <1>1, <2>1, <2>2, <2>3, <2>4 DEF SessionInv, TypeOK, CapTypes, KsetTypes, RunTypes
<1>3. ASSUME NEW l \in Launchers, RunStep(l), UNCHANGED kset PROVE SessionInv'
  <2>1. KsetTypes' /\ AskedInv'
    BY <1>0, <1>3, <1>c DEF KsetTypes, AskedInv, Asked, Loses
  <2>2. RunTypes' /\ LaunchedInv' /\ Fits(l)
    BY <1>0, <1>3, <1>c, RunStepKeeps, RunStepFits DEF LaunchedInv
  <2>3. ASSUME NEW m \in Launchers, m # l PROVE run'[m] = run[m] /\ app'[m] = app[m]
    BY <1>0, <1>3, <2>3, RunStepAlone DEF RunTypes
  <2>4. CASE alive' \subseteq alive /\ CapTypes'
    <3>1. Existing'
      BY <1>c, <2>2, <2>3, <2>4 DEF Existing, Fits
    <3> QED
      BY <1>1, <2>1, <2>2, <2>4, <3>1 DEF SessionInv, TypeOK, CapTypes, KsetTypes, RunTypes
  <2>5. CASE run'[l].pc # "idle" /\ \E s \in Shells : Forks(s, l)
    <3>1. CapTypes' /\ alive' = alive \cup {l}
      BY <1>0, <1>p, <2>5, CapOperations DEF Forks
    <3>2. Existing'
      BY <1>c, <2>2, <2>3, <2>5, <3>1, CapAssumption DEF Existing, Fits
    <3> QED
      BY <1>1, <2>1, <2>2, <3>1, <3>2 DEF SessionInv, TypeOK, CapTypes, KsetTypes, RunTypes
  <2>6. CASE app'[l].pc # "none" /\ Forks(l, App[l])
    <3>1. CapTypes' /\ alive' = alive \cup {App[l]}
      BY <1>0, <1>p, <2>6, CapOperations DEF Forks
    <3>2. Existing'
      BY <1>c, <2>2, <2>3, <2>6, <3>1, CapAssumption DEF Existing, Fits
    <3> QED
      BY <1>1, <2>1, <2>2, <3>1, <3>2 DEF SessionInv, TypeOK, CapTypes, KsetTypes, RunTypes
  <2>7. CASE UNCHANGED capVars
    BY <1>0, <2>4, <2>7 DEF capVars, CapTypes
  <2>8. CASE Dies(l) \/ Dies(App[l])
    BY <1>0, <1>p, <2>4, <2>8, CapOperations DEF Dies
  <2>9. CASE CapSet(l)
    <3>1. Set(l, run[l].read) /\ run[l].read \in CapSets
      BY <1>0, <2>9 DEF CapSet, RunTypes, RunState
    <3> QED
      BY <1>0, <1>p, <2>4, <3>1, CapOperations DEF Set
  <2> QED
    BY <1>0, <1>3, <1>c, <2>5, <2>6, <2>7, <2>8, <2>9, RunCapCases
<1>4. ASSUME NEW s \in Shells, ShellEnds(s) PROVE SessionInv'
  <2>1. /\ KsetTypes' /\ AskedInv' /\ RunTypes' /\ LaunchedInv'
        /\ alive' \subseteq alive /\ UNCHANGED <<run, app>>
    BY <1>0, <1>4, <1>c DEF ShellEnds, KsetTypes, AskedInv, Asked, Loses, runVars, RunTypes,
       LaunchedInv, Launched, Left, Dies
  <2>2. CapTypes'
    BY <1>0, <1>4, <1>p, CapOperations DEF ShellEnds
  <2>3. Existing'
    BY <1>c, <2>1 DEF Existing
  <2> QED
    BY <1>1, <2>1, <2>2, <2>3 DEF SessionInv, TypeOK, CapTypes, KsetTypes, RunTypes
<1>5. CASE UNCHANGED vars
  BY <1>5 DEF SessionInv, vars, capVars, runVars, TypeOK, LaunchedInv, Launched, Left,
     AskedInv, Asked, Loses, Existing
<1> QED
  BY <1>2, <1>3, <1>4, <1>5 DEF Next

(* They hold when the session starts.                                      *)
LEMMA SessionInit ==
  ASSUME Init
  PROVE  SessionInv
<1>1. CapTypes
  BY IdleTypes, SessionAssumption DEF Init, CapTypes, Procs
<1>2. KsetTypes /\ RunTypes /\ stale \in [Commands -> BOOLEAN]
  BY IdleTypes DEF Init, KsetTypes, RunTypes
<1>3. LaunchedInv
  BY DEF Init, LaunchedInv, Launched, IdleRun, NoApp
<1>4. AskedInv
  BY DEF Init, AskedInv, Asked, IdleSet
<1>5. Existing
  BY CapAssumption DEF Init, Existing
<1> QED
  BY <1>1, <1>2, <1>3, <1>4, <1>5, TypeParts DEF SessionInv

(* They hold of every session.                                             *)
LEMMA SessionAlways == Spec => []SessionInv
<1>1. Init => SessionInv
  BY SessionInit
<1>2. SessionInv /\ [Next]_vars => SessionInv'
  BY SessionStep
<1> QED
  BY <1>1, <1>2, PTL DEF Spec

-----------------------------------------------------------------------------
(* Types of the capability sets and of the commands' variables: whatever   *)
(* names krgcapset is given, a mistyped one leaves nothing in a set; the   *)
(* bits that mean nothing come from numbers.                               *)
THEOREM SessionTypes == Spec => []TypeOK
<1>1. SessionInv => TypeOK
  BY DEF SessionInv
<1> QED
  BY <1>1, SessionAlways, PTL

(* When krgcr-run -b -o has returned, the file names the application, or   *)
(* is empty for a write that has failed.                                   *)
THEOREM FileIsWritten == Spec => []FileNamesApplication
<1>1. SessionInv => FileNamesApplication
  <2> SUFFICES ASSUME SessionInv, NEW l \in Launchers, run[l].b, run[l].o,
                      run[l].pc = "done", run[l].r = "ok"
               PROVE  file[l] \in {App[l], "empty"} \/ app[l].pc = "ended"
    BY DEF FileNamesApplication
  <2> QED
    BY DEF SessionInv, LaunchedInv, Launched, Left
<1> QED
  BY <1>1, SessionAlways, PTL

(* krgcr-run in the foreground reports how its application has ended.      *)
THEOREM StatusIsReported == Spec => []StatusReported
<1>1. SessionInv => StatusReported
  <2> SUFFICES ASSUME SessionInv, NEW l \in Launchers, ~run[l].b, run[l].pc = "done",
                      run[l].hits = 0, app[l].pc # "none"
               PROVE  app[l].pc = "ended" /\ (run[l].r = "ok" <=> app[l].status = 0)
    BY DEF StatusReported
  <2>1. Launched(run[l], app[l], file[l], l)
    BY DEF SessionInv, LaunchedInv
  <2> QED
    BY <2>1 DEF Launched
<1> QED
  BY <1>1, SessionAlways, PTL

-----------------------------------------------------------------------------
(* Who changes what.  A step that is not one of launcher l, its child or   *)
(* its application leaves all of them as they are.                         *)
LEMMA OtherLaunchers ==
  ASSUME SessionInv, [Next]_vars, NEW l \in Launchers
  PROVE  RunStep(l) \/ (run'[l] = run[l] /\ app'[l] = app[l])
<1>1. RunTypes
  BY TypeParts DEF SessionInv
<1>2. ASSUME NEW m \in Launchers, RunStep(m)
      PROVE  RunStep(l) \/ (run'[l] = run[l] /\ app'[l] = app[l])
  <2>1. CASE m = l
    BY <1>2, <2>1
  <2>2. CASE m # l
    BY <1>1, <1>2, <2>2, RunStepAlone DEF RunTypes
  <2> QED
    BY <2>1, <2>2
<1>3. CASE UNCHANGED runVars
  BY <1>3 DEF runVars
<1> QED
  BY <1>2, <1>3, Zenon DEF Next, vars, ShellEnds

(* The steps that bring a launcher to where it reads, writes, and forks.   *)
LEMMA RunPcCases ==
  ASSUME RunTypes, NEW l \in Launchers, Launched(run[l], app[l], file[l], l), RunStep(l),
         run'[l].pc \in {"capset", "pipe", "vfork"}
  PROVE  \/ run'[l].pc = "capset" /\ CapGet(l)
         \/ run'[l].pc = "pipe" /\ (CapSet(l) \/ run'[l].n)
         \/ run'[l].pc = "vfork" /\ Pipe(l)
<1>0. run[l] \in RunState /\ app[l] \in AppState
  BY DEF RunTypes
<1>e. ASSUME NEW pc, NEW r, Ends(l, pc, r), pc \in {"done", "killed"} PROVE FALSE
  BY <1>e, Assigned, ZenonT(30) DEF Ends, IdleRun
<1>g. ASSUME NEW pc, Go(l, pc), pc \notin {"capset", "pipe", "vfork"} PROVE FALSE
  BY <1>0, <1>g, Assigned DEF Go, RunState
<1>1. CASE krgcr_run(l)
  <2>1. PICK opt \in RunOptions :
          SetRun(l, [IdleRun EXCEPT !.pc = IF opt.n THEN "pipe" ELSE "capget",
                       !.b = opt.b, !.s = opt.b /\ opt.s, !.o = opt.o, !.n = opt.n])
    BY <1>1 DEF krgcr_run
  <2> DEFINE pc == IF opt.n THEN "pipe" ELSE "capget"
             s == opt.b /\ opt.s
             rec == [IdleRun EXCEPT !.pc = pc, !.b = opt.b, !.s = s, !.o = opt.o, !.n = opt.n]
  <2>2. run'[l] = rec
    BY <2>1, Assigned
  <2>3. pc = "capget" \/ (pc = "pipe" /\ opt.n)
    OBVIOUS
  <2> HIDE DEF pc, s
  <2>4. rec.pc = pc /\ rec.n = opt.n
    BY DEF IdleRun
  <2> HIDE DEF rec
  <2> QED
    BY <2>2, <2>3, <2>4
<1>2. CASE CapGet(l)
  <2>1. run'[l] = [run[l] EXCEPT !.pc = "capset", !.read = Raised(caps[l])]
    BY <1>2, Assigned DEF CapGet
  <2> QED
    BY <1>0, <1>2, <2>1 DEF RunState
<1>3. CASE CapSet(l)
  <2>1. run'[l] = [run[l] EXCEPT !.pc = "pipe", !.read = IdleRun.read]
    BY <1>3, Assigned DEF CapSet
  <2> QED
    BY <1>0, <1>3, <2>1 DEF RunState
<1>4. CASE Pipe(l)
  <2>1. run'[l] = [run[l] EXCEPT !.pc = "vfork", !.writer = run[l].s]
    BY <1>4, Assigned DEF Pipe
  <2> QED
    BY <1>0, <1>4, <2>1 DEF RunState
<1>5. CASE Vfork(l)
  BY <1>5, <1>g DEF Vfork
<1>6. CASE RunFails(l) \/ Wait(l) \/ ReadPipe(l)
  BY <1>6, <1>e DEF RunFails, Wait, ReadPipe, ExitRun
<1>7. CASE Resumes(l)
  BY <1>7, <1>e, <1>g DEF Resumes, ExitRun, Killed
<1>8. CASE SigactionInt(l) \/ SigactionTerm(l) \/ ClosePipe(l)
  <2>1. run'[l].pc \in {"sigterm", "wait", "read"}
    <3>1. CASE SigactionInt(l)
      <4>1. \E flags : run'[l] = [run[l] EXCEPT !.pc = "sigterm", !.flags = flags,
                                               !.handled = {"SIGINT"}]
        BY <3>1, Assigned DEF SigactionInt
      <4> QED
        BY <1>0, <4>1 DEF RunState
    <3>2. CASE SigactionTerm(l)
      <4>1. run'[l] = [run[l] EXCEPT !.pc = "wait", !.handled = @ \cup {"SIGTERM"}]
        BY <3>2, Assigned DEF SigactionTerm
      <4> QED
        BY <1>0, <4>1 DEF RunState
    <3>3. CASE ClosePipe(l)
      <4>1. run'[l] = [run[l] EXCEPT !.pc = "read", !.writer = FALSE]
        BY <3>3, Assigned DEF ClosePipe
      <4> QED
        BY <1>0, <4>1 DEF RunState
    <3> QED
      BY <1>8, <3>1, <3>2, <3>3
  <2> QED
    BY <2>1
<1>9. CASE WriteFile(l) \/ Execs(l) \/ ChildFails(l) \/ AppReleases(l) \/ AppEnds(l)
  <2>1. run'[l] = run[l] /\ app[l].pc # "none"
    BY <1>9 DEF WriteFile, Execs, ChildFails, AppReleases, AppEnds
  <2> QED
    BY <2>1 DEF Launched
<1>10. ASSUME NEW sig \in Signals, Sent(l, sig) \/ relay_signal(l, sig) PROVE FALSE
  <2>1. CASE Sent(l, sig)
    <3>1. CASE run[l].pc = "suspended"
      <4>1. CASE Killed(l)
        BY <1>e, <4>1 DEF Killed
      <4>2. CASE SetRun(l, [run[l] EXCEPT !.pending = @ \cup {sig}, !.hits = @ + 1])
        <5>1. run'[l] = [run[l] EXCEPT !.pending = @ \cup {sig}, !.hits = @ + 1]
          BY <4>2, Assigned
        <5> QED
          BY <1>0, <3>1, <5>1 DEF RunState
      <4> QED
        BY <2>1, <4>1, <4>2 DEF Sent
    <3>2. CASE run[l].pc # "suspended"
      BY <1>e, <2>1, <3>2 DEF Sent, Killed
    <3> QED
      BY <3>1, <3>2
  <2>2. CASE relay_signal(l, sig)
    <3> DEFINE handled == IF "SA_RESETHAND" \in run[l].flags THEN run[l].handled \ {sig}
                          ELSE run[l].handled
               rec == [run[l] EXCEPT !.hits = @ + 1, !.handled = handled]
    <3>1. /\ run[l].pc \in {"sigterm", "wait"}
          /\ \/ run'[l] = rec
             \/ \E r \in {"ok", "fail"} : run'[l] = [rec EXCEPT !.pc = "done", !.r = r]
      BY <2>2, Assigned DEF relay_signal
    <3> HIDE DEF handled
    <3> QED
      BY <1>0, <3>1 DEF RunState
  <2> QED
    BY <1>10, <2>1, <2>2
<1> QED
  BY <1>1, <1>2, <1>3, <1>4, <1>5, <1>6, <1>7, <1>8, <1>9, <1>10
     DEF RunStep, LauncherStep, ChildStep

(* Only vfork makes a child.                                               *)
LEMMA ChildIsForked ==
  ASSUME RunTypes, NEW l \in Launchers, RunStep(l),
         app[l].pc = "none", app'[l].pc = "child"
  PROVE  Vfork(l)
<1>0. app[l] \in AppState
  BY DEF RunTypes
<1>1. ASSUME NEW sig \in Signals, relay_signal(l, sig) PROVE FALSE
  <2> DEFINE got == IF app[l].pc = "running" THEN app[l].got \cup {sig} ELSE app[l].got
  <2>1. app'[l] = [app[l] EXCEPT !.got = got]
    BY <1>1, Assigned DEF relay_signal
  <2> HIDE DEF got
  <2> QED
    BY <1>0, <2>1 DEF AppState
<1>2. ~(app' = app)
  OBVIOUS
<1> QED
  BY <1>1, <1>2, Zenon
     DEF RunStep, LauncherStep, ChildStep, krgcr_run, CapGet, CapSet, Pipe, Resumes,
         SigactionInt, SigactionTerm, Wait, ClosePipe, ReadPipe, RunFails, WriteFile, Execs,
         ChildFails, AppReleases, AppEnds, Sent

(* The sets of a process that goes on existing are only changed by a       *)
(* krgcapset that works on it and by a launcher that writes its own.       *)
LEMMA WhoWrites ==
  ASSUME SessionInv, [Next]_vars, NEW p \in alive \cap alive', caps'[p] # caps[p]
  PROVE  \/ \E k \in Setters : set_caps_for_pid(k) /\ Target(k) = p
         \/ p \in Launchers /\ CapSet(p)
<1>0. CapTypes /\ KsetTypes /\ RunTypes /\ LaunchedInv /\ Existing
  BY TypeParts DEF SessionInv
<1>p. p \in Procs /\ caps \in [Procs -> CapSets]
  BY <1>0 DEF CapTypes
<1>1. ~ UNCHANGED capVars
  BY DEF capVars
<1>2. ASSUME NEW q, Dies(q) PROVE FALSE
  BY <1>2, <1>p DEF Dies
<1>3. ASSUME NEW q, NEW f, q \notin alive, Forks(f, q) PROVE FALSE
  BY <1>3, <1>p DEF Forks
<1>4. ASSUME NEW k \in Setters, KsetStep(k)
      PROVE  set_caps_for_pid(k) /\ Target(k) = p
  <2>1. set_caps_for_pid(k)
    BY <1>1, <1>4, KsetCapCases
  <2>2. caps' = [caps EXCEPT ![Target(k)] = kset[k].new]
    BY <2>1 DEF set_caps_for_pid, Set
  <2> QED
    BY <1>p, <2>1, <2>2
<1>5. ASSUME NEW l \in Launchers, RunStep(l)
      PROVE  CapSet(l) /\ l = p
  <2>1. CapSet(l)
    BY <1>0, <1>1, <1>2, <1>3, <1>5, RunCapCases DEF Existing
  <2>2. caps' = [caps EXCEPT ![l] = run[l].read]
    BY <2>1 DEF CapSet, Set
  <2> QED
    BY <1>p, <2>1, <2>2
<1>6. ASSUME NEW l \in Launchers, RunStep(l) PROVE p \in Launchers /\ CapSet(p)
  BY <1>5, <1>6
<1> QED
  BY <1>1, <1>2, <1>4, <1>6 DEF Next, vars, ShellEnds

(* What a command has read, and is to write, is what the process still has *)
(* as long as nobody else has changed it.                                  *)
LauncherRead(l) ==
  ~stale[l] => /\ (run[l].pc = "capset" => run[l].read = Raised(caps[l]))
               /\ (run[l].pc \in {"pipe", "vfork"} /\ ~run[l].n =>
                     Checkpointable \in caps[l]["inheritable_effective"])
SetterRead(k) ==
  ~stale[k] /\ kset[k].pc \in {"ask", "set"} =>
    kset[k].new = Applied(kset[k].opts, caps[Target(k)])
ReadInv == /\ \A l \in Launchers : LauncherRead(l)
           /\ \A k \in Setters : SetterRead(k)

(* Raising CHECKPOINTABLE takes nothing away.                              *)
LEMMA RaisedAdds ==
  ASSUME NEW c \in CapSets
  PROVE  /\ Checkpointable \in Raised(c)["inheritable_effective"]
         /\ MayChange(c) => MayChange(Raised(c))
BY DEF Raised, CapSets, Members, MayChange

(* The launchers' part of it.                                              *)
LEMMA LauncherReadStep ==
  ASSUME SessionInv, ReadInv, [Next]_vars, NEW l \in Launchers
  PROVE  LauncherRead(l)'
<1>0. CapTypes /\ RunTypes /\ LaunchedInv
  BY TypeParts DEF SessionInv
<1>l. l \in Procs /\ l \in Commands /\ l \notin Setters /\ run[l] \in RunState /\ caps[l] \in CapSets
  BY <1>0, SessionAssumption DEF Procs, Commands, RunTypes, CapTypes
<1>1. CASE UNCHANGED vars
  BY <1>1 DEF ReadInv, LauncherRead, vars, capVars, runVars
<1>2. CASE Remember
  <2>0. LauncherRead(l)
    BY DEF ReadInv
  <2>1. /\ Reads(l) <=> run[l].pc = "capget"
        /\ Writes(l) <=> run[l].pc = "capset" /\ run'[l].pc # "capset"
        /\ Subject(l) = l
    BY <1>l DEF Reads, Writes, Subject
  <2>2. ~Reads(l) /\ ~Writes(l) /\ ~stale'[l] => ~stale[l] /\ caps'[l] = caps[l]
    BY <1>2, <1>l, <2>1 DEF Remember
  <2>3. ~Reads(l) /\ Writes(l) => stale'[l] = stale[l]
    BY <1>2, <1>l DEF Remember
  <2> SUFFICES ASSUME ~stale'[l]
               PROVE  /\ run'[l].pc = "capset" => run'[l].read = Raised(caps'[l])
                      /\ run'[l].pc \in {"pipe", "vfork"} /\ ~run'[l].n =>
                           Checkpointable \in caps'[l]["inheritable_effective"]
    BY DEF LauncherRead, Raised
  <2>4. CASE run'[l] = run[l]
    BY <2>0, <2>1, <2>2, <2>4 DEF LauncherRead
  <2>5. CASE RunStep(l)
    <3> SUFFICES ASSUME run'[l].pc \in {"capset", "pipe", "vfork"}
                 PROVE  /\ run'[l].pc = "capset" => run'[l].read = Raised(caps'[l])
                        /\ run'[l].pc \in {"pipe", "vfork"} /\ ~run'[l].n =>
                             Checkpointable \in caps'[l]["inheritable_effective"]
      OBVIOUS
    <3>1. CASE run'[l].pc = "capset" /\ CapGet(l)
      <4>1. run'[l] = [run[l] EXCEPT !.pc = "capset", !.read = Raised(caps[l])]
        BY <1>0, <3>1, Assigned DEF CapGet
      <4>2. caps' = caps
        BY <3>1 DEF CapGet, capVars
      <4>3. run'[l].read = Raised(caps[l])
        BY <1>l, <4>1 DEF RunState
      <4> QED
        BY <3>1, <4>2, <4>3
    <3>2. CASE run'[l].pc = "pipe" /\ CapSet(l)
      <4>1. run[l].pc = "capset" /\ caps' = [caps EXCEPT ![l] = run[l].read]
        BY <3>2 DEF CapSet, Set
      <4>2. ~stale[l]
        BY <2>1, <2>3, <3>2, <4>1
      <4>3. caps'[l] = Raised(caps[l])
        BY <1>0, <1>l, <2>0, <4>1, <4>2 DEF CapTypes, LauncherRead
      <4> QED
        BY <1>l, <3>2, <4>3, RaisedAdds
    <3>3. CASE run'[l].pc = "pipe" /\ run'[l].n
      BY <3>3
    <3>4. CASE run'[l].pc = "vfork" /\ Pipe(l)
      <4>1. run'[l] = [run[l] EXCEPT !.pc = "vfork", !.writer = run[l].s] /\ run[l].pc = "pipe"
        BY <1>0, <3>4, Assigned DEF Pipe
      <4>2. run'[l].n = run[l].n
        BY <1>l, <4>1 DEF RunState
      <4>3. ~stale[l] /\ caps'[l] = caps[l]
        BY <2>1, <2>2, <4>1
      <4> QED
        BY <2>0, <3>4, <4>1, <4>2, <4>3 DEF LauncherRead
    <3> QED
      BY <1>0, <2>5, <3>1, <3>2, <3>3, <3>4, RunPcCases DEF LaunchedInv
  <2> QED
    BY <2>4, <2>5, OtherLaunchers
<1> QED
  BY <1>1, <1>2 DEF Next

(* The setters' part of it.                                                *)
LEMMA SetterReadStep ==
  ASSUME SessionInv, ReadInv, [Next]_vars, NEW k \in Setters
  PROVE  SetterRead(k)'
<1>0. CapTypes /\ KsetTypes /\ AskedInv
  BY TypeParts DEF SessionInv
<1>k. k \in Commands
  BY DEF Commands
<1>1. CASE UNCHANGED vars
  BY <1>1 DEF ReadInv, SetterRead, vars, capVars, Target, Father
<1>2. CASE Remember
  <2>0. SetterRead(k)
    BY DEF ReadInv
  <2>1. /\ Reads(k) <=> kset[k].pc = "get" /\ kset'[k].pc # "get"
        /\ Writes(k) <=> kset[k].pc = "set" /\ kset'[k].pc # "set"
        /\ Subject(k) = Target(k) /\ Subject(k)' = Target(k)'
    BY DEF Reads, Writes, Subject
  <2>2. ~Reads(k) /\ ~Writes(k) /\ ~stale'[k] =>
          ~stale[k] /\ Target(k)' = Target(k) /\ caps'[Target(k)] = caps[Target(k)]
    <3>1. stale'[k] = CASE Reads(k)  -> FALSE
                        [] Writes(k) -> stale[k]
                        [] OTHER -> stale[k] \/ Subject(k) # Subject(k)'
                                             \/ caps[Subject(k)] # caps'[Subject(k)]
      BY <1>2, <1>k, Zenon DEF Remember
    <3>2. ASSUME ~Reads(k), ~Writes(k), ~stale'[k]
          PROVE  ~(stale[k] \/ Subject(k) # Subject(k)' \/ caps[Subject(k)] # caps'[Subject(k)])
      BY <3>1, <3>2, Zenon
    <3>3. ASSUME ~Reads(k), ~Writes(k), ~stale'[k]
          PROVE  ~stale[k] /\ Target(k)' = Target(k) /\ caps'[Target(k)] = caps[Target(k)]
      BY <2>1, <3>2, <3>3, Zenon
    <3> QED
      BY <3>3
  <2> SUFFICES ASSUME ~stale'[k], kset'[k].pc \in {"ask", "set"}
               PROVE  kset'[k].new = Applied(kset'[k].opts, caps'[Target(k)'])
    BY DEF SetterRead, Applied, update_capability, construct_capability
  <2>3. CASE kset'[k] = kset[k]
    BY <2>0, <2>1, <2>2, <2>3 DEF SetterRead
  <2>4. CASE KsetStep(k)
    <3>1. CASE /\ kset[k].pc = "get" /\ UNCHANGED capVars
               /\ kset'[k].opts = kset[k].opts
               /\ kset'[k].pid = kset[k].pid /\ kset'[k].father = kset[k].father
               /\ kset'[k].new = Applied(kset[k].opts, caps[Target(k)])
      <4>1. Target(k)' = Target(k) /\ caps' = caps
        BY <3>1 DEF Target, Father, capVars
      <4> QED
        BY <3>1, <4>1
    <3>2. CASE /\ kset[k].pc \in {"ask", "set"} /\ UNCHANGED capVars
               /\ kset'[k].opts = kset[k].opts /\ kset'[k].new = kset[k].new
               /\ kset[k].pc = "set" => kset'[k].pc = "set"
      <4>1. ~stale[k] /\ Target(k)' = Target(k) /\ caps'[Target(k)] = caps[Target(k)]
        BY <2>1, <2>2, <3>2
      <4> QED
        BY <2>0, <3>2, <4>1 DEF SetterRead
    <3> QED
      BY <1>0, <2>4, <3>1, <3>2, KsetStepKeeps
  <2>5. KsetStep(k) \/ kset'[k] = kset[k]
    BY <1>0, KsetStepAlone DEF Next, vars, ShellEnds
  <2> QED
    BY <2>3, <2>4, <2>5
<1> QED
  BY <1>1, <1>2 DEF Next

(* ReadInv holds of every session.                                         *)
LEMMA ReadAlways == Spec => [](SessionInv /\ ReadInv)
<1>1. ASSUME Init PROVE ReadInv
  <2>1. \A l \in Launchers : run[l].pc = "idle"
    BY <1>1 DEF Init, IdleRun
  <2>2. \A k \in Setters : kset[k].pc = "idle"
    BY <1>1 DEF Init, IdleSet
  <2> QED
    BY <2>1, <2>2 DEF ReadInv, LauncherRead, SetterRead
<1>2. ASSUME SessionInv, ReadInv, [Next]_vars PROVE ReadInv'
  <2>1. \A l \in Launchers : LauncherRead(l)'
    BY <1>2, LauncherReadStep
  <2>2. \A k \in Setters : SetterRead(k)'
    BY <1>2, SetterReadStep
  <2> QED
    BY <2>1, <2>2 DEF ReadInv
<1>3. SessionInv /\ ReadInv /\ [Next]_vars => ReadInv'
  BY <1>2
<1> QED
  BY <1>1, <1>3, SessionAlways, PTL DEF Spec

-----------------------------------------------------------------------------
(* A process only loses the capability to have its capabilities changed by *)
(* a krgcapset with -f or whose user has said yes, or by a launcher that   *)
(* writes back sets that somebody has changed since it read them.          *)
THEOREM LossIsConfirmed == Spec => ConfirmedLoss
<1> DEFINE Confirmed == \A p \in alive \cap alive' : MayChange(caps[p]) /\ ~MayChange(caps'[p]) =>
       \/ \E k \in Setters : /\ Target(k) = p /\ kset[k].pc = "set" /\ kset'[k].pc = "done"
                             /\ kset[k].force \/ kset[k].asked
       \/ p \in Launchers /\ stale[p] /\ Writes(p)
<1>1. ASSUME SessionInv, ReadInv, [Next]_vars PROVE Confirmed
  <2> SUFFICES ASSUME NEW p \in alive \cap alive', MayChange(caps[p]), ~MayChange(caps'[p])
               PROVE  \/ \E k \in Setters : /\ Target(k) = p /\ kset[k].pc = "set"
                                            /\ kset'[k].pc = "done"
                                            /\ kset[k].force \/ kset[k].asked
                      \/ p \in Launchers /\ stale[p] /\ Writes(p)
    OBVIOUS
  <2>0. CapTypes /\ KsetTypes /\ RunTypes /\ AskedInv
    BY <1>1, TypeParts DEF SessionInv
  <2>p. p \in Procs /\ caps[p] \in CapSets /\ caps \in [Procs -> CapSets]
    BY <2>0 DEF CapTypes
  <2>1. caps'[p] # caps[p]
    BY DEF MayChange
  <2>2. ASSUME NEW k \in Setters, set_caps_for_pid(k), Target(k) = p
        PROVE  /\ Target(k) = p /\ kset[k].pc = "set" /\ kset'[k].pc = "done"
               /\ kset[k].force \/ kset[k].asked
    <3>1. kset[k].pc = "set" /\ Exit(k, "ok") /\ caps' = [caps EXCEPT ![p] = kset[k].new]
      BY <2>2 DEF set_caps_for_pid, Set
    <3>2. kset'[k].pc = "done"
      BY <2>0, <3>1, ExitKeeps
    <3>3. caps'[p] = kset[k].new
      BY <2>p, <3>1
    <3>4. Loses(kset[k].new)
      BY <3>3 DEF Loses, MayChange
    <3>5. kset[k].force \/ kset[k].asked
      BY <2>0, <3>1, <3>4 DEF AskedInv, Asked
    <3> QED
      BY <2>2, <3>1, <3>2, <3>5
  <2>3. ASSUME p \in Launchers, CapSet(p) PROVE stale[p] /\ Writes(p)
    <3>1. run[p].pc = "capset" /\ caps' = [caps EXCEPT ![p] = run[p].read]
          /\ run'[p] = [run[p] EXCEPT !.pc = "pipe", !.read = IdleRun.read]
      BY <2>0, <2>3, Assigned DEF CapSet, Set
    <3>2. run'[p].pc = "pipe"
      BY <2>0, <2>3, <3>1 DEF RunTypes, RunState
    <3>3. Writes(p)
      BY <2>3, <3>1, <3>2, SessionAssumption DEF Writes
    <3>4. caps'[p] = run[p].read
      BY <2>p, <3>1
    <3>5. stale[p]
      BY <1>1, <2>3, <2>p, <3>1, <3>4, RaisedAdds DEF ReadInv, LauncherRead
    <3> QED
      BY <3>3, <3>5
  <2> QED
    BY <1>1, <2>1, <2>2, <2>3, WhoWrites
<1>2. SessionInv /\ ReadInv /\ [Next]_vars => [Confirmed]_vars
  BY <1>1
<1> QED
  BY <1>2, ReadAlways, PTL DEF Spec, ConfirmedLoss

(* A krgcapset that succeeds, and that nobody has come between, leaves the *)
(* sets that its options describe, the last one deciding.                  *)
THEOREM OptionsAreApplied == Spec => OptionsApplied
<1> DEFINE Follows == \A k \in Setters : LET t == Target(k) IN
       kset[k].pc = "set" /\ kset'[k].pc = "done" /\ kset'[k].r = "ok" /\ ~stale[k] =>
         \A m \in Members, c \in Bits :
           c \in caps'[t][m] <=> After(kset[k].opts, caps[t], m, c)
<1>1. ASSUME SessionInv, ReadInv, [Next]_vars PROVE Follows
  <2> SUFFICES ASSUME NEW k \in Setters, kset[k].pc = "set", kset'[k].pc = "done",
                      kset'[k].r = "ok", ~stale[k],
                      NEW m \in Members, NEW c \in Bits
               PROVE  c \in caps'[Target(k)][m] <=>
                        After(kset[k].opts, caps[Target(k)], m, c)
    OBVIOUS
  <2>0. CapTypes /\ KsetTypes
    BY <1>1, TypeParts DEF SessionInv
  <2>1. KsetStep(k)
    <3>1. kset'[k] # kset[k]
      OBVIOUS
    <3>2. ASSUME NEW j \in Setters, KsetStep(j) PROVE KsetStep(k)
      <4>1. j = k
        BY <2>0, <3>1, <3>2, KsetStepAlone
      <4> QED
        BY <3>2, <4>1
    <3> QED
      BY <1>1, <3>1, <3>2 DEF Next, vars, ShellEnds
  <2>2. set_caps_for_pid(k)
    <3>1. ASSUME Exit(k, "fail") PROVE FALSE
      <4>1. kset'[k] = [IdleSet EXCEPT !.pc = "done", !.r = "fail"]
        BY <2>0, <3>1 DEF Exit, SetKset, KsetTypes
      <4> QED
        BY <4>1 DEF IdleSet
    <3> QED
      BY <2>1, <3>1 DEF KsetStep, krgcapset, KsetFails, get_caps_for_pid, Answer
  <2>3. Target(k) \in Procs
    BY <2>0, TargetType
  <2>4. caps'[Target(k)] = kset[k].new
    BY <2>0, <2>2, <2>3 DEF set_caps_for_pid, Set, CapTypes
  <2>5. kset[k].new = Applied(kset[k].opts, caps[Target(k)])
    BY <1>1 DEF ReadInv, SetterRead
  <2>6. kset[k].opts \in Seq(Options) /\ caps[Target(k)] \in CapSets
    BY <2>0, <2>3 DEF KsetTypes, KsetState, CapTypes
  <2> QED
    BY <2>4, <2>5, <2>6, AppliedIs
<1>2. SessionInv /\ ReadInv /\ [Next]_vars => [Follows]_vars
  BY <1>1
<1> QED
  BY <1>2, ReadAlways, PTL DEF Spec, OptionsApplied

(* The child of a launcher that nobody has come between can be             *)
(* checkpointed, if the launcher may pass CHECKPOINTABLE on.               *)
THEOREM ChildrenCheckpointable == Spec => LaunchedCheckpointable
<1> DEFINE Gives == \A l \in Launchers :
       app[l].pc = "none" /\ app'[l].pc = "child" /\ ~run[l].n /\ ~stale[l]
         /\ Checkpointable \in caps[l]["inheritable_permitted"] =>
         Checkpointable \in caps'[App[l]]["effective"]
<1>1. ASSUME SessionInv, ReadInv, [Next]_vars PROVE Gives
  <2> SUFFICES ASSUME NEW l \in Launchers, app[l].pc = "none", app'[l].pc = "child",
                      ~run[l].n, ~stale[l],
                      Checkpointable \in caps[l]["inheritable_permitted"]
               PROVE  Checkpointable \in caps'[App[l]]["effective"]
    OBVIOUS
  <2>0. CapTypes /\ RunTypes
    BY <1>1, TypeParts DEF SessionInv
  <2>1. RunStep(l)
    BY <1>1, OtherLaunchers
  <2>2. Vfork(l)
    BY <2>0, <2>1, ChildIsForked
  <2>3. run[l].pc = "vfork" /\ caps' = [caps EXCEPT ![App[l]] = Inherited(caps[l])]
    BY <2>2 DEF Vfork, Forks
  <2>4. Checkpointable \in caps[l]["inheritable_effective"]
    BY <1>1, <2>3 DEF ReadInv, LauncherRead
  <2>5. caps'[App[l]] = Inherited(caps[l])
    BY <2>0, <2>3 DEF CapTypes, Procs, Apps
  <2>6. Inherited(caps[l])["effective"] =
          caps[l]["inheritable_effective"] \cap caps[l]["inheritable_permitted"]
    BY DEF Inherited, Members
  <2> QED
    BY <2>4, <2>5, <2>6
<1>2. SessionInv /\ ReadInv /\ [Next]_vars => [Gives]_vars
  BY <1>1
<1> QED
  BY <1>2, ReadAlways, PTL DEF Spec, LaunchedCheckpointable

(* Once krgcr-run waits, SIGINT and SIGTERM do not end it but reach the    *)
(* application, unless the handler is one for a single signal.             *)
THEOREM SignalsAreRelayed == Spec => SignalsRelayed
<1> DEFINE Relays == \A l \in Launchers :
       run[l].pc = "wait" /\ "SA_RESETHAND" \notin run[l].flags =>
         /\ run'[l].pc # "killed"
         /\ run'[l].hits > run[l].hits /\ app[l].pc = "running" => app'[l].got # {}
<1>1. ASSUME SessionInv, [Next]_vars PROVE Relays
  <2> SUFFICES ASSUME NEW l \in Launchers, run[l].pc = "wait",
                      "SA_RESETHAND" \notin run[l].flags
               PROVE  /\ run'[l].pc # "killed"
                      /\ run'[l].hits > run[l].hits /\ app[l].pc = "running" =>
                           app'[l].got # {}
    OBVIOUS
  <2>0. RunTypes /\ run[l] \in RunState /\ app[l] \in AppState /\ run[l].hits \in Nat
    BY <1>1, TypeParts DEF SessionInv, RunTypes, RunState
  <2>1. CASE run'[l] = run[l]
    BY <2>0, <2>1
  <2>2. CASE Wait(l)
    <3> DEFINE r == IF app[l].status = 0 THEN "ok" ELSE "fail"
    <3>1. run'[l] = [IdleRun EXCEPT !.pc = "done", !.r = r, !.b = run[l].b, !.o = run[l].o,
                                    !.hits = run[l].hits]
      BY <2>0, <2>2, Assigned DEF Wait, ExitRun, Ends
    <3> HIDE DEF r
    <3>2. run'[l].pc = "done" /\ run'[l].hits = run[l].hits
      BY <3>1 DEF IdleRun
    <3> QED
      BY <2>0, <3>2
  <2>3. ASSUME NEW sig \in Signals, Sent(l, sig) PROVE FALSE
    <3>1. sig \notin run[l].handled
      BY <2>3 DEF Sent
    <3>2. "SIGINT" \in run[l].handled /\ "SIGTERM" \in run[l].handled
      BY <1>1 DEF SessionInv, LaunchedInv, Launched
    <3> QED
      BY <3>1, <3>2 DEF Signals
  <2>4. ASSUME NEW sig \in Signals, relay_signal(l, sig)
        PROVE  run'[l].pc # "killed" /\ (app[l].pc = "running" => app'[l].got # {})
    <3> DEFINE got == IF app[l].pc = "running" THEN app[l].got \cup {sig} ELSE app[l].got
               handled == IF "SA_RESETHAND" \in run[l].flags THEN run[l].handled \ {sig}
                          ELSE run[l].handled
               rec == [run[l] EXCEPT !.hits = @ + 1, !.handled = handled]
    <3>1. /\ app'[l] = [app[l] EXCEPT !.got = got]
          /\ \/ run'[l] = rec
             \/ \E r \in {"ok", "fail"} : run'[l] = [rec EXCEPT !.pc = "done", !.r = r]
      BY <2>0, <2>4, Assigned DEF relay_signal
    <3>2. app[l].pc = "running" => got # {}
      OBVIOUS
    <3> HIDE DEF got, handled
    <3>3. app'[l].got = got
      BY <2>0, <3>1 DEF AppState
    <3>4. run'[l].pc \in {"wait", "done"}
      BY <2>0, <3>1 DEF RunState
    <3> QED
      BY <3>2, <3>3, <3>4
  <2>5. CASE RunStep(l)
    BY <2>1, <2>2, <2>3, <2>4, <2>5
       DEF RunStep, LauncherStep, ChildStep, krgcr_run, CapGet, CapSet, Pipe, Vfork, Resumes,
           SigactionInt, SigactionTerm, ClosePipe, ReadPipe, RunFails, WriteFile, Execs,
           ChildFails, AppReleases, AppEnds
  <2> QED
    BY <1>1, <2>1, <2>5, OtherLaunchers
<1>2. SessionInv /\ [Next]_vars => [Relays]_vars
  BY <1>1
<1> QED
  BY <1>2, SessionAlways, PTL DEF Spec, SignalsRelayed
=============================================================================
