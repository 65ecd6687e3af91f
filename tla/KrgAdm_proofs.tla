---------------------------- MODULE KrgAdm_proofs ----------------------------
(***************************************************************************)
(* Proofs about krgadm: which nodes the selection loops take, and what the *)
(* commands leave of the cluster when other administrators, and the nodes  *)
(* themselves, act between a command's snapshot and its request.           *)
(***************************************************************************)
EXTENDS KrgAdm, Induction, FiniteSetTheorems

-----------------------------------------------------------------------------
(* The loop of Walk: one turn of it, the equation that defines what it has *)
(* taken after each turn, and the same turn by turn.                       *)
Turn(t, k, set, n, skip) ==
  IF k - 1 \in set /\ k - 1 # skip /\ Cardinality(t) < n THEN t \cup {k - 1} ELSE t

Loop(f, set, n, skip) ==
  f = [k \in 0 .. MaxNodes |-> IF k = 0 THEN {} ELSE Turn(f[k - 1], k, set, n, skip)]

Turns(f, set, n, skip) ==
  /\ f[0] = {}
  /\ \A i \in 1 .. MaxNodes : f[i] = Turn(f[i - 1], i, set, n, skip)

(* What a function that satisfies the loop's equation holds at each turn.  *)
LEMMA LoopValues ==
  ASSUME NEW set, NEW n, NEW skip, NEW f, Loop(f, set, n, skip)
  PROVE  Turns(f, set, n, skip)
<1>0. MaxNodes \in Nat
  BY AdmAssumption
<1>1. f[0] = {}
  BY <1>0 DEF Loop
<1>2. ASSUME NEW i \in 1 .. MaxNodes PROVE f[i] = Turn(f[i - 1], i, set, n, skip)
  <2>1. i \in 0 .. MaxNodes /\ i # 0
    BY <1>0
  <2>2. f[i] = IF i = 0 THEN {} ELSE Turn(f[i - 1], i, set, n, skip)
    BY <2>1, Zenon DEF Loop
  <2> QED
    BY <2>1, <2>2
<1> QED
  BY <1>1, <1>2 DEF Turns

(* There is such a function.                                               *)
LEMMA LoopExists ==
  ASSUME NEW set, NEW n, NEW skip
  PROVE  \E f : Loop(f, set, n, skip)
<1> DEFINE body == [k \in 1 .. MaxNodes |-> [t \in SUBSET Nodes |-> Turn(t, k, set, n, skip)]]
<1>0. MaxNodes \in Nat
  BY AdmAssumption
<1>1. \A k \in 1 .. MaxNodes, t \in SUBSET Nodes : Turn(t, k, set, n, skip) \in SUBSET Nodes
  BY <1>0 DEF Turn, Nodes
<1>2. body \in [1 .. MaxNodes -> [SUBSET Nodes -> SUBSET Nodes]]
  BY <1>1
<1> HIDE DEF body
<1>3. PICK f \in [0 .. MaxNodes -> SUBSET Nodes] : Iterates(f, MaxNodes, {}, body)
  BY <1>0, <1>2, IterationExists
<1>4. ASSUME NEW k \in 0 .. MaxNodes
      PROVE  f[k] = IF k = 0 THEN {} ELSE Turn(f[k - 1], k, set, n, skip)
  <2>1. CASE k = 0
    BY <1>3, <2>1 DEF Iterates
  <2>2. CASE k # 0
    <3>1. k \in 1 .. MaxNodes /\ k - 1 \in 0 .. MaxNodes
      BY <1>0, <2>2
    <3>2. f[k] = body[k][f[k - 1]] /\ f[k - 1] \in SUBSET Nodes
      BY <1>3, <3>1 DEF Iterates
    <3> QED
      BY <2>2, <3>1, <3>2 DEF body
  <2> QED
    BY <2>1, <2>2
<1>5. Loop(f, set, n, skip)
  BY <1>4 DEF Loop
<1> QED
  BY <1>5

(* Walk is the value that the loop has reached after the last node.        *)
LEMMA WalkTurns ==
  ASSUME NEW set, NEW n, NEW skip
  PROVE  \E f : Walk(set, n, skip) = f[MaxNodes] /\ Turns(f, set, n, skip)
<1> DEFINE took == CHOOSE f : Loop(f, set, n, skip)
<1>1. Loop(took, set, n, skip)
  BY LoopExists, Zenon
<1>2. Walk(set, n, skip) = took[MaxNodes]
  BY DEF Walk, Turn, Loop
<1> HIDE DEF took
<1>3. Turns(took, set, n, skip)
  BY <1>1, LoopValues
<1> QED
  BY <1>2, <1>3

(* The loop only takes nodes of the set, and never the one it skips.       *)
LEMMA WalkWithin ==
  ASSUME NEW set, NEW n, NEW skip
  PROVE  Walk(set, n, skip) \subseteq set \ {skip}
<1>1. PICK took : Walk(set, n, skip) = took[MaxNodes] /\ Turns(took, set, n, skip)
  BY WalkTurns
<1>2. MaxNodes \in Nat
  BY AdmAssumption
<1> DEFINE S == {m \in Nat : m <= MaxNodes => took[m] \subseteq set \ {skip}}
<1>3. 0 \in S
  BY <1>1 DEF Turns
<1>4. ASSUME NEW i \in Nat, i \in S PROVE i + 1 \in S
  <2> SUFFICES ASSUME i + 1 <= MaxNodes PROVE took[i + 1] \subseteq set \ {skip}
    OBVIOUS
  <2>1. took[i + 1] = Turn(took[i], i + 1, set, n, skip)
    BY <1>1, <1>2 DEF Turns
  <2>2. took[i] \subseteq set \ {skip}
    BY <1>2, <1>4
  <2> QED
    BY <2>1, <2>2 DEF Turn
<1>5. Nat \subseteq S
  <2> HIDE DEF S
  <2> QED
    BY <1>3, <1>4, SetInduction
<1> QED
  BY <1>1, <1>2, <1>5

(* Sets of nodes are finite, so that they can be counted.                  *)
LEMMA NodesFinite ==
  ASSUME NEW set \in SUBSET Nodes
  PROVE  IsFiniteSet(set) /\ Cardinality(set) \in Nat
<1>1. IsFiniteSet(Nodes)
  BY AdmAssumption, FS_Interval DEF Nodes
<1>2. IsFiniteSet(set)
  BY <1>1, FS_Subset
<1> QED
  BY <1>2, FS_CardinalityType

(* t holds the first n nodes of all, as far as the nodes below m go.       *)
Lowest(t, all, n, m) ==
  /\ t \subseteq all
  /\ Cardinality(t) <= n
  /\ Cardinality(t) < n => t = {x \in all : x < m}
  /\ \A x \in t, y \in all \ t : x < y

(* The loop takes the first n nodes of the set: it stops short of n only   *)
(* when it has taken them all, and what it leaves is above all it took.    *)
LEMMA WalkLowest ==
  ASSUME NEW set \in SUBSET Nodes, NEW n \in Nat, NEW skip
  PROVE  /\ Cardinality(Walk(set, n, skip)) <= n
         /\ Cardinality(Walk(set, n, skip)) < n => Walk(set, n, skip) = set \ {skip}
         /\ \A x \in Walk(set, n, skip), y \in (set \ {skip}) \ Walk(set, n, skip) : x < y
<1>1. PICK took : Walk(set, n, skip) = took[MaxNodes] /\ Turns(took, set, n, skip)
  BY WalkTurns
<1>2. MaxNodes \in Nat /\ \A x \in Nodes : x \in Nat /\ x < MaxNodes
  BY AdmAssumption DEF Nodes
<1> DEFINE All == set \ {skip}
           S == {m \in Nat : m <= MaxNodes => Lowest(took[m], All, n, m)}
<1>0. All \in SUBSET Nodes /\ \A x \in All : x \in Nat /\ x < MaxNodes
  BY <1>2
<1> HIDE DEF All
<1>3. 0 \in S
  <2>1. Cardinality({}) = 0
    BY FS_EmptySet
  <2>2. {} = {x \in All : x < 0}
    BY <1>0, <1>2
  <2> QED
    BY <1>1, <2>1, <2>2 DEF Lowest, Turns
<1>4. ASSUME NEW i \in Nat, i \in S PROVE i + 1 \in S
  <2> SUFFICES ASSUME i + 1 <= MaxNodes PROVE Lowest(took[i + 1], All, n, i + 1)
    OBVIOUS
  <2>1. took[i + 1] = Turn(took[i], i + 1, set, n, skip)
    BY <1>1, <1>2 DEF Turns
  <2>2. Lowest(took[i], All, n, i)
    BY <1>2, <1>4
  <2>3. IsFiniteSet(took[i]) /\ Cardinality(took[i]) \in Nat
    BY <1>0, <2>2, NodesFinite DEF Lowest
  <2> DEFINE t == took[i]
  <2> HIDE DEF t
  <2>4. CASE i \in All /\ Cardinality(t) < n
    <3>1. took[i + 1] = t \cup {i}
      BY <2>1, <2>4 DEF Turn, t, All
    <3>2. t = {x \in All : x < i}
      BY <2>2, <2>4 DEF t, Lowest
    <3>3. Cardinality(t \cup {i}) = Cardinality(t) + 1
      <4>1. i \notin t /\ IsFiniteSet(t)
        BY <2>3, <3>2 DEF t
      <4> QED
        BY <4>1, FS_AddElement
    <3>4. t \cup {i} = {x \in All : x < i + 1}
      <4>1. \A x \in All : x < i + 1 <=> x < i \/ x = i
        BY <1>0
      <4> QED
        BY <2>4, <3>2, <4>1, Zenon
    <3>5. Cardinality(t \cup {i}) <= n
      BY <2>3, <2>4, <3>3 DEF t
    <3>6. \A x \in t \cup {i}, y \in All \ (t \cup {i}) : x < y
      BY <1>0, <1>2, <3>4
    <3> QED
      BY <2>4, <3>1, <3>2, <3>4, <3>5, <3>6 DEF Lowest
  <2>5. CASE ~(i \in All /\ Cardinality(t) < n)
    <3>1. took[i + 1] = t
      BY <2>1, <2>5 DEF Turn, t, All
    <3>2. Cardinality(t) < n => t = {x \in All : x < i + 1}
      BY <1>0, <1>2, <2>2, <2>5 DEF t, Lowest
    <3> QED
      BY <2>2, <3>1, <3>2 DEF t, Lowest
  <2> QED
    BY <2>4, <2>5
<1>5. Nat \subseteq S
  <2> HIDE DEF S
  <2> QED
    BY <1>3, <1>4, SetInduction
<1>6. Lowest(took[MaxNodes], All, n, MaxNodes)
  BY <1>2, <1>5
<1>7. All = {x \in All : x < MaxNodes}
  BY <1>0, <1>2
<1> QED
  BY <1>1, <1>6, <1>7 DEF Lowest, All

(* When the set holds n nodes besides the one it skips, it takes exactly n.*)
LEMMA WalkCount ==
  ASSUME NEW set \in SUBSET Nodes, NEW n \in Nat, NEW skip,
         Cardinality(set \ {skip}) >= n
  PROVE  Cardinality(Walk(set, n, skip)) = n
<1>1. Walk(set, n, skip) \in SUBSET Nodes
  BY WalkWithin
<1>2. Cardinality(Walk(set, n, skip)) \in Nat
  BY <1>1, NodesFinite
<1>3. Cardinality(set \ {skip}) \in Nat
  BY NodesFinite
<1>4. /\ Cardinality(Walk(set, n, skip)) <= n
      /\ Cardinality(Walk(set, n, skip)) < n => Walk(set, n, skip) = set \ {skip}
  BY WalkLowest
<1> QED
  BY <1>2, <1>3, <1>4

-----------------------------------------------------------------------------
(* A command that has chosen how many nodes it wants has that many, those  *)
(* with the lowest identifiers.                                            *)
Selected(c, a) ==
  LET from == IF c.cmd = "del" THEN c.snap \ {Here[a]} ELSE c.snap
  IN /\ Cardinality(c.set) = c.n /\ c.set \subseteq from
     /\ \A x \in c.set, y \in from \ c.set : x < y

(* What holds of a command at each of its steps, whatever the others do.   *)
Command(c, a) ==
  /\ c.pc = "wait" => c.cmd = "add"
  /\ c.pc = "check" => c.mode = "all"
  /\ c.pc = "call" /\ c.cmd = "del" => Here[a] \notin c.set
  /\ c.mode \in {"count", "total"} =>
       /\ c.pc = "decide" => c.set = {} /\ c.n = c.asked
       /\ c.pc = "wait" => c.n > 0
       /\ c.pc = "call" /\ c.cmd = "add" /\ c.n < 0 => c.set = {}
       /\ c.pc = "call" /\ c.cmd \in {"add", "del"} /\ c.n >= 0 => Selected(c, a)

CommandsInv == \A a \in Admins : Command(adm[a], a)

(* Types and the commands' own invariant are kept by a step that gives one *)
(* command a state of which they hold.                                     *)
LEMMA SetAdmKeeps ==
  ASSUME adm \in [Admins -> AdmState], CommandsInv, NEW a \in Admins,
         NEW rec \in AdmState, Command(rec, a), SetAdm(a, rec)
  PROVE  adm' \in [Admins -> AdmState] /\ CommandsInv'
<1>1. adm' = [adm EXCEPT ![a] = rec]
  BY DEF SetAdm
<1>2. adm' \in [Admins -> AdmState]
  BY <1>1
<1>3. ASSUME NEW b \in Admins PROVE Command(adm'[b], b)
  BY <1>1 DEF CommandsInv
<1> QED
  BY <1>2, <1>3 DEF CommandsInv, Command, Selected

(* The nodes with a status are nodes, and their number a natural.          *)
LEMMA WithNodes ==
  ASSUME NEW st, NEW s
  PROVE  With(st, s) \in SUBSET Nodes /\ Num(st, s) \in Nat
BY NodesFinite DEF With, Num

(* A command that ends.                                                    *)
LEMMA ReturnKeeps ==
  ASSUME adm \in [Admins -> AdmState], CommandsInv, NEW a \in Admins,
         NEW r \in {"ok", "fail"}, Return(a, r)
  PROVE  adm' \in [Admins -> AdmState] /\ CommandsInv'
<1> DEFINE rec == [adm[a] EXCEPT !.pc = "done", !.r = r]
<1>1. rec \in AdmState /\ rec.pc = "done"
  BY ZenonT(30) DEF AdmState
<1>2. SetAdm(a, rec)
  BY DEF Return
<1> HIDE DEF rec
<1>3. Command(rec, a)
  BY <1>1 DEF Command
<1> QED
  BY <1>1, <1>2, <1>3, SetAdmKeeps

(* A command that has just been given, or that could not be parsed.        *)
Started(c) ==
  /\ c.pc \in {"decide", "check", "done"}
  /\ c.pc = "check" => c.mode = "all"
  /\ c.pc = "done" => c.r = "fail"
  /\ c.mode \in {"count", "total"} => c.set = {} /\ c.n = c.asked

(* nodes and cluster: the command and its arguments.                       *)
LEMMA StartRecord ==
  ASSUME NEW a \in Admins, NEW cmd \in Commands, nodes(a, cmd) \/ cluster(a, cmd)
  PROVE  \E rec \in AdmState : SetAdm(a, rec) /\ Started(rec)
<1>0. IdleAdm \in AdmState /\ Counts \subseteq Int
  BY AdmAssumption DEF IdleAdm, AdmState
<1>2. CASE cluster(a, cmd)
  <2> DEFINE rec == [IdleAdm EXCEPT !.pc = "check", !.cmd = cmd]
  <2>1. SetAdm(a, rec) /\ cmd \in {"poweroff", "reboot"}
    BY <1>2 DEF cluster
  <2>2. rec \in AdmState /\ Started(rec)
    BY <1>0, <2>1 DEF Started, IdleAdm, AdmState
  <2> HIDE DEF rec
  <2> QED
    BY <2>1, <2>2
<1>3. CASE nodes(a, cmd)
  <2>0. cmd \in {"add", "del"}
    BY <1>3 DEF nodes
  <2>1. CASE SetAdm(a, [IdleAdm EXCEPT !.pc = "decide", !.cmd = cmd])
    <3> DEFINE rec == [IdleAdm EXCEPT !.pc = "decide", !.cmd = cmd]
    <3>1. rec \in AdmState /\ Started(rec)
      BY <1>0, <2>0 DEF Started, IdleAdm, AdmState
    <3> HIDE DEF rec
    <3> QED
      BY <2>1, <3>1 DEF rec
  <2>2. ASSUME NEW n \in Counts, NEW mode \in {"count", "total"},
               SetAdm(a, [IdleAdm EXCEPT !.pc = "decide", !.cmd = cmd, !.mode = mode,
                                         !.n = n, !.asked = n])
        PROVE  \E rec \in AdmState : SetAdm(a, rec) /\ Started(rec)
    <3> DEFINE rec == [IdleAdm EXCEPT !.pc = "decide", !.cmd = cmd, !.mode = mode,
                                      !.n = n, !.asked = n]
    <3>1. rec \in AdmState /\ Started(rec)
      BY <1>0, <2>0 DEF Started, IdleAdm, AdmState
    <3> HIDE DEF rec
    <3> QED
      BY <2>2, <3>1 DEF rec
  <2>3. ASSUME NEW list \in Lists,
               SetAdm(a, [IdleAdm EXCEPT !.pc = "decide", !.cmd = cmd,
                                         !.mode = "list", !.set = parse_nodes(list)])
        PROVE  \E rec \in AdmState : SetAdm(a, rec) /\ Started(rec)
    <3> DEFINE rec == [IdleAdm EXCEPT !.pc = "decide", !.cmd = cmd,
                                      !.mode = "list", !.set = parse_nodes(list)]
    <3>1. parse_nodes(list) \in SUBSET Nodes
      BY DEF parse_nodes, InTable
    <3>2. rec \in AdmState /\ Started(rec)
      BY <1>0, <2>0, <3>1 DEF Started, IdleAdm, AdmState
    <3> HIDE DEF rec
    <3> QED
      BY <2>3, <3>2 DEF rec
  <2>4. ASSUME SetAdm(a, [IdleAdm EXCEPT !.pc = "done", !.cmd = cmd,
                                         !.mode = "list", !.r = "fail"])
        PROVE  \E rec \in AdmState : SetAdm(a, rec) /\ Started(rec)
    <3> DEFINE rec == [IdleAdm EXCEPT !.pc = "done", !.cmd = cmd,
                                      !.mode = "list", !.r = "fail"]
    <3>1. rec \in AdmState /\ Started(rec)
      BY <1>0, <2>0 DEF Started, IdleAdm, AdmState
    <3> HIDE DEF rec
    <3> QED
      BY <2>4, <3>1 DEF rec
  <2>5. \/ SetAdm(a, [IdleAdm EXCEPT !.pc = "decide", !.cmd = cmd])
        \/ \E n \in Counts, mode \in {"count", "total"} :
             SetAdm(a, [IdleAdm EXCEPT !.pc = "decide", !.cmd = cmd, !.mode = mode,
                                       !.n = n, !.asked = n])
        \/ \E list \in Lists :
             \/ SetAdm(a, [IdleAdm EXCEPT !.pc = "decide", !.cmd = cmd,
                                          !.mode = "list", !.set = parse_nodes(list)])
             \/ SetAdm(a, [IdleAdm EXCEPT !.pc = "done", !.cmd = cmd,
                                          !.mode = "list", !.r = "fail"])
    BY <1>3, Zenon DEF nodes
  <2> QED
    BY <2>1, <2>2, <2>3, <2>4, <2>5
<1> QED
  BY <1>2, <1>3

(* The commands' invariant when one is given.                              *)
LEMMA StartKeeps ==
  ASSUME adm \in [Admins -> AdmState], CommandsInv,
         NEW a \in Admins, NEW cmd \in Commands, nodes(a, cmd) \/ cluster(a, cmd)
  PROVE  adm' \in [Admins -> AdmState] /\ CommandsInv'
<1>1. PICK rec \in AdmState : SetAdm(a, rec) /\ Started(rec)
  BY StartRecord
<1>2. Command(rec, a)
  BY <1>1 DEF Command, Started
<1> QED
  BY <1>1, <1>2, SetAdmKeeps


(* nodes_add: a count that is not positive is passed on with no node, one  *)
(* above the number of nodes refused, and the others are waited for.       *)
LEMMA AddKeeps ==
  ASSUME adm \in [Admins -> AdmState], CommandsInv, NEW a \in Admins, nodes_add(a)
  PROVE  adm' \in [Admins -> AdmState] /\ CommandsInv'
<1>0. adm[a] \in AdmState /\ adm[a].pc = "decide" /\ adm[a].cmd = "add" /\ Command(adm[a], a)
  BY DEF nodes_add, CommandsInv
<1>1. Online(state) \in SUBSET Nodes /\ Present(state) \in SUBSET Nodes
  BY WithNodes DEF Online, Present
<1>2. ASSUME adm[a].mode = "all",
             SetAdm(a, [[adm[a] EXCEPT !.snap = Online(state)]
                          EXCEPT !.pc = "call", !.set = Present(state)])
      PROVE  adm' \in [Admins -> AdmState] /\ CommandsInv'
  <2> DEFINE rec == [[adm[a] EXCEPT !.snap = Online(state)]
                       EXCEPT !.pc = "call", !.set = Present(state)]
  <2>1. rec \in AdmState /\ rec.mode = "all" /\ rec.pc = "call" /\ rec.cmd = "add"
    BY <1>0, <1>1, <1>2 DEF AdmState
  <2>2. SetAdm(a, rec)
    BY <1>2
  <2> HIDE DEF rec
  <2>3. Command(rec, a)
    BY <2>1 DEF Command
  <2> QED
    BY <2>1, <2>2, <2>3, SetAdmKeeps
<1>3. ASSUME adm[a].mode = "list",
             SetAdm(a, [[adm[a] EXCEPT !.snap = Online(state)]
                          EXCEPT !.pc = "wait", !.set = AddList(a)])
      PROVE  adm' \in [Admins -> AdmState] /\ CommandsInv'
  <2> DEFINE rec == [[adm[a] EXCEPT !.snap = Online(state)]
                       EXCEPT !.pc = "wait", !.set = AddList(a)]
  <2>0. AddList(a) \in SUBSET Nodes
    BY <1>0 DEF AddList, AdmState
  <2>1. rec \in AdmState /\ rec.mode = "list" /\ rec.pc = "wait" /\ rec.cmd = "add"
    BY <1>0, <1>1, <1>3, <2>0 DEF AdmState
  <2>2. SetAdm(a, rec)
    BY <1>3
  <2> HIDE DEF rec
  <2>3. Command(rec, a)
    BY <2>1 DEF Command
  <2> QED
    BY <2>1, <2>2, <2>3, SetAdmKeeps
<1>4. ASSUME adm[a].mode \in {"count", "total"},
             SetAdm(a, [[adm[a] EXCEPT !.snap = Online(state)]
                          EXCEPT !.n = AddCount(a),
                                 !.pc = IF AddCount(a) <= 0 THEN "call"
                                        ELSE IF AddCount(a) > MaxNodes THEN "done"
                                        ELSE "wait",
                                 !.r = IF AddCount(a) > MaxNodes THEN "fail" ELSE "ok"])
      PROVE  adm' \in [Admins -> AdmState] /\ CommandsInv'
  <2> DEFINE n == AddCount(a)
  <2>0. n \in Int
    BY <1>0, WithNodes DEF AddCount, AdmState
  <2> DEFINE pc == IF n <= 0 THEN "call" ELSE IF n > MaxNodes THEN "done" ELSE "wait"
             r == IF n > MaxNodes THEN "fail" ELSE "ok"
             rec == [[adm[a] EXCEPT !.snap = Online(state)] EXCEPT !.n = n, !.pc = pc, !.r = r]
  <2>1. SetAdm(a, rec)
    BY <1>4
  <2>2. pc \in {"wait", "call", "done"} /\ r \in {"ok", "fail"}
        /\ (pc = "wait" => n > 0) /\ (pc = "call" => n <= 0)
    BY <2>0, AdmAssumption
  <2> HIDE DEF n, pc, r
  <2>3. rec \in AdmState /\ rec.pc = pc /\ rec.cmd = "add" /\ rec.n = n /\ rec.set = {}
    BY <1>0, <1>1, <1>4, <2>0, <2>2 DEF AdmState, Command
  <2> HIDE DEF rec
  <2>4. Command(rec, a)
    <3>1. n = 0 => Selected(rec, a)
      BY <2>3, FS_EmptySet DEF Selected
    <3> QED BY <2>0, <2>2, <2>3, <3>1 DEF Command
  <2> QED
    BY <2>1, <2>3, <2>4, SetAdmKeeps
<1> QED
  BY <1>2, <1>3, <1>4 DEF nodes_add

(* The polling loops: a list, or the nodes with the lowest identifiers.    *)
LEMMA WaitKeeps ==
  ASSUME adm \in [Admins -> AdmState], CommandsInv, NEW a \in Admins,
         wait_for_nodes_count(a) \/ wait_for_nodes(a)
  PROVE  adm' \in [Admins -> AdmState] /\ CommandsInv'
<1>0. adm[a] \in AdmState /\ adm[a].pc = "wait" /\ Command(adm[a], a)
  BY DEF wait_for_nodes_count, wait_for_nodes, CommandsInv
<1>1. CASE wait_for_nodes(a)
  <2> DEFINE rec == [adm[a] EXCEPT !.pc = "call", !.set = adm[a].set]
  <2>1. SetAdm(a, rec) /\ adm[a].mode = "list"
    BY <1>1 DEF wait_for_nodes, Call
  <2>2. rec \in AdmState /\ rec.pc = "call" /\ rec.mode = "list" /\ rec.cmd = "add"
    BY <1>0, <2>1 DEF AdmState, Command
  <2> HIDE DEF rec
  <2>3. Command(rec, a)
    BY <2>2 DEF Command
  <2> QED
    BY <2>1, <2>2, <2>3, SetAdmKeeps
<1>2. CASE wait_for_nodes_count(a)
  <2> DEFINE W == Walk(Present(state), adm[a].n, -1)
             rec == [adm[a] EXCEPT !.pc = "call", !.snap = Present(state), !.set = W]
  <2>1. /\ SetAdm(a, rec) /\ adm[a].mode \in {"count", "total"}
        /\ Cardinality(Present(state)) >= adm[a].n
    BY <1>2 DEF wait_for_nodes_count, Num, Present
  <2>2. adm[a].n \in Nat /\ adm[a].n > 0 /\ adm[a].cmd = "add"
    BY <1>0, <2>1 DEF AdmState, Command
  <2>3. Present(state) \in SUBSET Nodes
    BY WithNodes DEF Present
  <2>4. Present(state) \ {-1} = Present(state)
    BY <2>3 DEF Nodes
  <2>5. Cardinality(W) = adm[a].n
    BY <2>1, <2>2, <2>3, <2>4, WalkCount
  <2>6. W \in SUBSET Nodes /\ W \subseteq Present(state)
    BY <2>3, WalkWithin
  <2>l. \A x \in W, y \in Present(state) \ W : x < y
    BY <2>2, <2>3, <2>4, WalkLowest
  <2> HIDE DEF W
  <2>7. /\ rec \in AdmState /\ rec.pc = "call" /\ rec.cmd = "add"
        /\ rec.n = adm[a].n /\ rec.set = W /\ rec.snap = Present(state)
    BY <1>0, <2>2, <2>3, <2>6 DEF AdmState
  <2> HIDE DEF rec
  <2>8. Command(rec, a)
    <3>1. Selected(rec, a)
      BY <2>5, <2>6, <2>7, <2>l DEF Selected
    <3> QED BY <2>2, <2>7, <3>1 DEF Command
  <2> QED
    BY <2>1, <2>7, <2>8, SetAdmKeeps
<1> QED
  BY <1>1, <1>2

(* nodes_remove: the own node is left out in every mode.                   *)
LEMMA RemoveKeeps ==
  ASSUME adm \in [Admins -> AdmState], CommandsInv, NEW a \in Admins, nodes_remove(a)
  PROVE  adm' \in [Admins -> AdmState] /\ CommandsInv'
<1> DEFINE online == Online(state)
           n == IF adm[a].mode = "total" THEN Num(state, "online") - adm[a].n ELSE adm[a].n
<1>0. adm[a] \in AdmState /\ adm[a].pc = "decide" /\ adm[a].cmd = "del"
  BY DEF nodes_remove
<1>1. online \in SUBSET Nodes /\ n \in Int /\ Cardinality(online) \in Nat
  BY <1>0, WithNodes, NodesFinite DEF Online, AdmState
<1>2. \/ /\ adm[a].mode = "all"
         /\ SetAdm(a, [[adm[a] EXCEPT !.snap = online]
                         EXCEPT !.pc = "call", !.set = online \ {Here[a]}])
      \/ /\ adm[a].mode = "list"
         /\ SetAdm(a, [[adm[a] EXCEPT !.snap = online]
                         EXCEPT !.pc = "call", !.set = (adm[a].set \cap online) \ {Here[a]}])
      \/ /\ adm[a].mode \in {"count", "total"} /\ n < Cardinality(online)
         /\ SetAdm(a, [[adm[a] EXCEPT !.snap = online]
                         EXCEPT !.pc = "call", !.n = n, !.set = Walk(online, n, Here[a])])
      \/ /\ adm[a].mode \in {"count", "total"}
         /\ SetAdm(a, [[adm[a] EXCEPT !.snap = online] EXCEPT !.pc = "done", !.r = "fail"])
  BY <1>0 DEF nodes_remove, AdmState
<1> HIDE DEF online, n
<1>3. ASSUME NEW set \in SUBSET Nodes, Here[a] \notin set, adm[a].mode \in {"all", "list"},
             SetAdm(a, [[adm[a] EXCEPT !.snap = online] EXCEPT !.pc = "call", !.set = set])
      PROVE  adm' \in [Admins -> AdmState] /\ CommandsInv'
  <2> DEFINE rec == [[adm[a] EXCEPT !.snap = online] EXCEPT !.pc = "call", !.set = set]
  <2>1. /\ rec \in AdmState /\ rec.pc = "call" /\ rec.cmd = "del" /\ rec.set = set
        /\ rec.mode \in {"all", "list"}
    BY <1>0, <1>1, <1>3 DEF AdmState
  <2>2. SetAdm(a, rec)
    BY <1>3
  <2> HIDE DEF rec
  <2>3. Command(rec, a)
    BY <1>3, <2>1 DEF Command
  <2> QED
    BY <2>1, <2>2, <2>3, SetAdmKeeps
<1>4. ASSUME adm[a].mode \in {"count", "total"}, n < Cardinality(online),
             SetAdm(a, [[adm[a] EXCEPT !.snap = online]
                          EXCEPT !.pc = "call", !.n = n, !.set = Walk(online, n, Here[a])])
      PROVE  adm' \in [Admins -> AdmState] /\ CommandsInv'
  <2> DEFINE W == Walk(online, n, Here[a])
             rec == [[adm[a] EXCEPT !.snap = online] EXCEPT !.pc = "call", !.n = n, !.set = W]
  <2>1. SetAdm(a, rec)
    BY <1>4
  <2>2. W \subseteq online \ {Here[a]}
    BY WalkWithin
  <2>3. ASSUME n >= 0
        PROVE  Cardinality(W) = n /\ \A x \in W, y \in online \ (W \cup {Here[a]}) : x < y
    <3>1. n \in Nat /\ IsFiniteSet(online)
      BY <1>1, <2>3, NodesFinite
    <3>2. Cardinality(online \ {Here[a]}) >= n
      <4>1. Cardinality(online \ {Here[a]}) =
              IF Here[a] \in online THEN Cardinality(online) - 1 ELSE Cardinality(online)
        BY <3>1, FS_RemoveElement
      <4> QED
        BY <1>1, <1>4, <3>1, <4>1
    <3>3. Cardinality(W) = n
      BY <1>1, <3>1, <3>2, WalkCount
    <3>4. \A x \in W, y \in (online \ {Here[a]}) \ W : x < y
      BY <1>1, <3>1, WalkLowest
    <3> HIDE DEF W
    <3> QED
      BY <3>3, <3>4
  <2> HIDE DEF W
  <2>4. /\ rec \in AdmState /\ rec.pc = "call" /\ rec.cmd = "del" /\ rec.set = W
        /\ rec.n = n /\ rec.snap = online
    BY <1>0, <1>1, <2>2 DEF AdmState
  <2> HIDE DEF rec
  <2>5. Command(rec, a)
    <3>1. n >= 0 => Selected(rec, a)
      BY <2>2, <2>3, <2>4 DEF Selected
    <3> QED BY <2>2, <2>4, <3>1 DEF Command
  <2> QED
    BY <2>1, <2>4, <2>5, SetAdmKeeps
<1>5. ASSUME SetAdm(a, [[adm[a] EXCEPT !.snap = online] EXCEPT !.pc = "done", !.r = "fail"])
      PROVE  adm' \in [Admins -> AdmState] /\ CommandsInv'
  <2> DEFINE rec == [[adm[a] EXCEPT !.snap = online] EXCEPT !.pc = "done", !.r = "fail"]
  <2>1. rec \in AdmState /\ rec.pc = "done"
    BY <1>0, <1>1 DEF AdmState
  <2>2. SetAdm(a, rec)
    BY <1>5
  <2> HIDE DEF rec
  <2>3. Command(rec, a)
    BY <2>1 DEF Command
  <2> QED
    BY <2>1, <2>2, <2>3, SetAdmKeeps
<1>6. online \ {Here[a]} \in SUBSET Nodes /\ (adm[a].set \cap online) \ {Here[a]} \in SUBSET Nodes
  BY <1>1
<1> QED
  BY <1>2, <1>3, <1>4, <1>5, <1>6

(* The steps that end commands, and those of the nodes.                    *)
LEMMA EndKeeps ==
  ASSUME adm \in [Admins -> AdmState], CommandsInv,
         \/ \E a \in Admins : \/ krg_nodes_add(a) \/ krg_nodes_remove(a) \/ ClusterCall(a)
                              \/ cluster_status(a) \/ StatusFails(a) \/ RequestFails(a)
         \/ UNCHANGED adm
  PROVE  adm' \in [Admins -> AdmState] /\ CommandsInv'
<1>1. ASSUME NEW a \in Admins, Return(a, "ok") \/ Return(a, "fail")
      PROVE  adm' \in [Admins -> AdmState] /\ CommandsInv'
  BY <1>1, ReturnKeeps
<1>2. ASSUME NEW a \in Admins, cluster_status(a), Call(a, {})
      PROVE  adm' \in [Admins -> AdmState] /\ CommandsInv'
  <2> DEFINE rec == [adm[a] EXCEPT !.pc = "call", !.set = {}]
  <2>1. SetAdm(a, rec) /\ adm[a].pc = "check"
    BY <1>2 DEF Call, cluster_status
  <2>2. rec \in AdmState /\ rec.pc = "call" /\ rec.set = {} /\ rec.mode = adm[a].mode
        /\ rec.cmd = adm[a].cmd
    BY ZenonT(30) DEF AdmState
  <2>3. adm[a].mode = "all"
    BY <1>2, <2>1 DEF CommandsInv, Command
  <2> HIDE DEF rec
  <2>4. Command(rec, a)
    BY <2>2, <2>3 DEF Command
  <2> QED
    BY <2>1, <2>2, <2>4, SetAdmKeeps
<1>3. ASSUME NEW a \in Admins, ClusterCall(a)
      PROVE  adm' \in [Admins -> AdmState] /\ CommandsInv'
  <2>1. adm' = [b \in Admins |->
                 [adm[b] EXCEPT !.pc = "done", !.r = IF b = a THEN "ok" ELSE "fail"]]
    BY <1>3 DEF ClusterCall
  <2>2. ASSUME NEW b \in Admins PROVE adm'[b] \in AdmState /\ adm'[b].pc = "done"
    <3>1. adm'[b] = [adm[b] EXCEPT !.pc = "done", !.r = IF b = a THEN "ok" ELSE "fail"]
      BY <2>1
    <3>2. CASE b = a
      BY <3>1, <3>2, ZenonT(30) DEF AdmState
    <3>3. CASE b # a
      BY <3>1, <3>3 DEF AdmState
    <3> QED
      BY <3>2, <3>3
  <2>3. adm' \in [Admins -> AdmState]
    <3>1. adm' = [b \in Admins |-> adm'[b]]
      BY <2>1
    <3> QED
      BY <2>2, <3>1
  <2> QED
    BY <2>2, <2>3 DEF CommandsInv, Command
<1>4. CASE UNCHANGED adm
  BY <1>4 DEF CommandsInv, Command, Selected
<1> QED
  BY <1>1, <1>2, <1>3, <1>4
     DEF krg_nodes_add, krg_nodes_remove, cluster_status, StatusFails, RequestFails

-----------------------------------------------------------------------------
(* The commands' part of the state through every step.                     *)
LEMMA CommandsStep ==
  ASSUME adm \in [Admins -> AdmState], CommandsInv, [Next]_vars
  PROVE  adm' \in [Admins -> AdmState] /\ CommandsInv'
<1>1. ASSUME NEW a \in Admins, NEW cmd \in Commands, nodes(a, cmd) \/ cluster(a, cmd)
      PROVE  adm' \in [Admins -> AdmState] /\ CommandsInv'
  BY <1>1, StartKeeps
<1>2. ASSUME NEW a \in Admins, AdmStep(a)
      PROVE  adm' \in [Admins -> AdmState] /\ CommandsInv'
  BY <1>2, AddKeeps, WaitKeeps, RemoveKeeps, EndKeeps DEF AdmStep
<1>3. ASSUME NEW a \in Admins, StatusFails(a) \/ RequestFails(a)
      PROVE  adm' \in [Admins -> AdmState] /\ CommandsInv'
  BY <1>3, EndKeeps
<1>4. ASSUME NEW x \in Nodes, NodeJoins(x) \/ NodeLeaves(x)
      PROVE  adm' \in [Admins -> AdmState] /\ CommandsInv'
  BY <1>4, EndKeeps DEF NodeJoins, NodeLeaves
<1>5. CASE UNCHANGED vars
  BY <1>5, EndKeeps DEF vars
<1> QED
  BY <1>1, <1>2, <1>3, <1>4, <1>5 DEF Next

(* The rest of the type invariant.                                         *)
LEMMA TypeStep ==
  ASSUME TypeOK, CommandsInv, [Next]_vars
  PROVE  TypeOK'
<1>0. adm' \in [Admins -> AdmState]
  BY CommandsStep DEF TypeOK
<1>1. state' \in [Nodes -> {"possible", "present", "online"}]
  BY ZenonT(30) DEF TypeOK, Next, vars, nodes, cluster, AdmStep, nodes_add, wait_for_nodes_count,
         wait_for_nodes, krg_nodes_add, nodes_remove, krg_nodes_remove, cluster_status,
         ClusterCall, StatusFails, RequestFails, NodeJoins, NodeLeaves
<1>2. up' = up \/ up' = FALSE
  BY Zenon DEF Next, vars, nodes, cluster, AdmStep, nodes_add, wait_for_nodes_count,
         wait_for_nodes, krg_nodes_add, nodes_remove, krg_nodes_remove, cluster_status,
         ClusterCall, StatusFails, RequestFails, NodeJoins, NodeLeaves
<1>3. leaves' = leaves \/ \E x \in Nodes : NodeLeaves(x)
  BY Zenon DEF Next, vars, nodes, cluster, AdmStep, nodes_add, wait_for_nodes_count,
         wait_for_nodes, krg_nodes_add, nodes_remove, krg_nodes_remove, cluster_status,
         ClusterCall, StatusFails, RequestFails, NodeJoins
<1>4. moved' = moved \/ \E a \in Admins : Moves(a)
  BY DEF Next, vars, nodes, cluster, AdmStep, nodes_add, wait_for_nodes_count,
         wait_for_nodes, krg_nodes_add, nodes_remove, krg_nodes_remove, cluster_status,
         ClusterCall, StatusFails, RequestFails, NodeJoins, NodeLeaves
<1>5. moved' \in [Admins -> SUBSET Nodes]
  BY <1>4 DEF TypeOK, Moves, AdmState
<1>6. leaves' \in 0 .. MaxLeaves
  BY <1>3, AdmAssumption DEF TypeOK, NodeLeaves
<1> QED
  BY <1>0, <1>1, <1>2, <1>5, <1>6 DEF TypeOK

(* The types, and what holds of each command, hold of every behaviour.     *)
LEMMA CommandsAlways == Spec => [](TypeOK /\ CommandsInv)
<1>1. Init => TypeOK /\ CommandsInv
  <2> SUFFICES ASSUME Init PROVE TypeOK /\ CommandsInv
    OBVIOUS
  <2>1. IdleAdm \in AdmState /\ IdleAdm.pc = "idle"
    BY DEF IdleAdm, AdmState
  <2>2. TypeOK
    BY <2>1, AdmAssumption DEF Init, TypeOK
  <2>3. CommandsInv
    BY <2>1 DEF Init, CommandsInv, Command
  <2> QED
    BY <2>2, <2>3
<1>2. TypeOK /\ CommandsInv /\ [Next]_vars => (TypeOK /\ CommandsInv)'
  BY CommandsStep, TypeStep DEF TypeOK
<1> QED
  BY <1>1, <1>2, PTL DEF Spec

(* Types of the kernel's table of nodes and of the commands' variables.    *)
THEOREM AdmTypes == Spec => []TypeOK
BY CommandsAlways, PTL

(* Whatever administrators and nodes do, krgadm nodes add and del work on  *)
(* as many nodes as they have to: those with the lowest identifiers of the *)
(* nodes that the last poll of add found present, or that del found online *)
(* besides its own.                                                        *)
THEOREM LowestSelected == Spec => []SelectsLowest
<1>1. TypeOK /\ CommandsInv => SelectsLowest
  <2> SUFFICES ASSUME TypeOK, CommandsInv, NEW a \in Admins, adm[a].pc = "call",
                      adm[a].cmd \in {"add", "del"}, adm[a].mode \in {"count", "total"},
                      adm[a].n > 0
               PROVE  LET c == adm[a]
                          from == IF c.cmd = "del" THEN c.snap \ {Here[a]} ELSE c.snap
                      IN /\ Cardinality(c.set) = c.n /\ c.set \subseteq from
                         /\ \A x \in c.set, y \in from \ c.set : x < y
    BY DEF SelectsLowest
  <2>1. adm[a].n \in Int
    BY DEF TypeOK, AdmState
  <2>2. Selected(adm[a], a)
    BY <2>1 DEF CommandsInv, Command
  <2> QED
    BY <2>1, <2>2 DEF Selected
<1> QED
  BY <1>1, CommandsAlways, PTL

(* No del command removes the node it runs on.                             *)
THEOREM OwnNodeNeverRemoved == Spec => OwnNodeStays
<1> DEFINE Stays == \A a \in Admins :
       adm[a].cmd = "del" /\ adm[a].pc = "call" /\ adm'[a].pc = "done" /\ up'
         /\ state[Here[a]] = "online" => state'[Here[a]] = "online"
<1>1. ASSUME TypeOK, CommandsInv, [Next]_vars PROVE [Stays]_vars
  <2> SUFFICES ASSUME NEW a \in Admins, adm[a].cmd = "del", adm[a].pc = "call",
                      adm'[a].pc = "done", up', state[Here[a]] = "online"
               PROVE  state'[Here[a]] = "online"
    OBVIOUS
  <2>0. Here[a] \in Nodes /\ Here[a] \notin adm[a].set
    BY <1>1, AdmAssumption DEF CommandsInv, Command
  <2>1. CASE UNCHANGED state
    BY <2>1
  <2>2. ASSUME NEW b \in Admins, krg_nodes_add(b) PROVE state'[Here[a]] = "online"
    BY <2>0, <2>2 DEF krg_nodes_add
  <2>3. ASSUME NEW b \in Admins, krg_nodes_remove(b) PROVE state'[Here[a]] = "online"
    <3>1. CASE b = a
      BY <2>0, <2>3, <3>1 DEF krg_nodes_remove
    <3>2. CASE b # a
      <4>1. adm'[a] = adm[a]
        BY <1>1, <2>3, <3>2 DEF krg_nodes_remove, Return, SetAdm, TypeOK
      <4> QED
        BY <4>1
    <3> QED
      BY <3>1, <3>2
  <2>4. ASSUME NEW b \in Admins, ClusterCall(b) PROVE FALSE
    BY <2>4 DEF ClusterCall
  <2>5. ASSUME NEW x \in Nodes, NodeJoins(x) \/ NodeLeaves(x)
        PROVE  state'[Here[a]] = "online"
    BY <1>1, <2>0, <2>5 DEF NodeJoins, NodeLeaves, TypeOK
  <2> QED
    BY <1>1, <2>1, <2>2, <2>3, <2>4, <2>5
       DEF Next, vars, nodes, cluster, AdmStep, nodes_add, wait_for_nodes_count,
           wait_for_nodes, nodes_remove, cluster_status, StatusFails, RequestFails
<1>2. TypeOK /\ CommandsInv /\ [Next]_vars => [Stays]_vars
  BY <1>1
<1> QED
  BY <1>2, CommandsAlways, PTL DEF Spec, OwnNodeStays

-----------------------------------------------------------------------------
(* While no other command has added or removed a node, what add --total    *)
(* waits for is what was missing when it took its snapshot.                *)
SinceSnapshot ==
  \A a \in Admins : LET c == adm[a] IN
    c.cmd = "add" /\ c.mode = "total" /\ c.pc \in {"wait", "call"} /\ moved[a] = {}
      => c.n = c.asked - Num(state, "online")

(* The only steps that touch an administrator's command are its own, and   *)
(* the end of the cluster; one that leaves it alone keeps its part of      *)
(* SinceSnapshot unless it changes the nodes that are online.              *)
LEMMA OwnSteps ==
  ASSUME TypeOK, CommandsInv, NEW a \in Admins, NEW b \in Admins,
         \/ \E cmd \in Commands : nodes(b, cmd) \/ cluster(b, cmd)
         \/ nodes_add(b) \/ wait_for_nodes_count(b) \/ wait_for_nodes(b) \/ nodes_remove(b)
         \/ cluster_status(b) \/ StatusFails(b) \/ RequestFails(b),
         adm'[a].cmd = "add", adm'[a].mode = "total", adm'[a].pc \in {"wait", "call"}
  PROVE  /\ UNCHANGED <<state, moved>>
         /\ \/ /\ adm'[a].n = adm[a].n /\ adm'[a].asked = adm[a].asked
               /\ adm[a].cmd = "add" /\ adm[a].mode = "total"
               /\ adm[a].pc \in {"wait", "call"}
            \/ adm'[a].n = adm'[a].asked - Num(state, "online")
<1> DEFINE Same == /\ adm'[a].n = adm[a].n /\ adm'[a].asked = adm[a].asked
                   /\ adm[a].cmd = "add" /\ adm[a].mode = "total"
                   /\ adm[a].pc \in {"wait", "call"}
<1>0. UNCHANGED <<state, moved>>
  BY DEF nodes, cluster, nodes_add, wait_for_nodes_count, wait_for_nodes, nodes_remove,
         cluster_status, StatusFails, RequestFails
<1>1. adm[b] \in AdmState /\ IdleAdm \in AdmState /\ adm \in [Admins -> AdmState]
  BY DEF TypeOK, IdleAdm, AdmState
<1>2. CASE a # b
  <2>1. \E rec : SetAdm(b, rec)
    BY DEF nodes, cluster, nodes_add, wait_for_nodes_count, wait_for_nodes, nodes_remove,
           cluster_status, StatusFails, RequestFails, Return, Call
  <2>2. adm'[a] = adm[a]
    BY <1>1, <1>2, <2>1 DEF SetAdm
  <2> QED
    BY <1>0, <2>2
<1>3. CASE a = b
  <2>0. ASSUME NEW rec, SetAdm(a, rec) PROVE adm'[a] = rec
    BY <1>1, <2>0 DEF SetAdm
  <2>a. adm[a] \in AdmState
    BY <1>1
  <2>1. ASSUME NEW cmd \in Commands, nodes(a, cmd) \/ cluster(a, cmd) PROVE FALSE
    <3>1. PICK rec \in AdmState : SetAdm(a, rec) /\ Started(rec)
      BY <2>1, StartRecord
    <3> QED
      BY <2>0, <3>1 DEF Started
  <2>2. ASSUME nodes_add(a) PROVE adm'[a].n = adm'[a].asked - Num(state, "online")
    <3>1. adm'[a].mode = adm[a].mode /\ adm'[a].asked = adm[a].asked
      BY <2>0, <2>a, <2>2, ZenonT(30) DEF nodes_add, AdmState
    <3>2. adm'[a].n = adm[a].n - Num(state, "online")
      BY <2>0, <2>a, <2>2, <3>1 DEF nodes_add, AdmState, AddCount
    <3>3. adm[a].n = adm[a].asked
      BY <2>2, <3>1 DEF nodes_add, CommandsInv, Command
    <3> QED
      BY <3>1, <3>2, <3>3
  <2>3. ASSUME wait_for_nodes_count(a) \/ wait_for_nodes(a) PROVE Same
    BY <2>0, <2>a, <2>3 DEF wait_for_nodes_count, wait_for_nodes, Call, AdmState
  <2>4. ASSUME nodes_remove(a) PROVE FALSE
    <3>1. adm'[a].cmd = "del"
      BY <2>0, <2>a, <2>4 DEF nodes_remove, AdmState
    <3> QED
      BY <3>1
  <2>5. ASSUME StatusFails(a) \/ RequestFails(a) PROVE FALSE
    <3>1. adm'[a].pc = "done"
      BY <2>0, <2>a, <2>5 DEF StatusFails, RequestFails, Return, AdmState
    <3> QED
      BY <3>1
  <2>6. ASSUME cluster_status(a) PROVE FALSE
    <3>1. adm[a].mode = "all"
      BY <2>6 DEF cluster_status, CommandsInv, Command
    <3>2. adm'[a].mode = adm[a].mode
      BY <2>0, <2>a, <2>6 DEF cluster_status, Return, Call, AdmState
    <3> QED
      BY <3>1, <3>2
  <2> QED
    BY <1>0, <1>3, <2>1, <2>2, <2>3, <2>4, <2>5, <2>6
<1> QED
  BY <1>2, <1>3

(* The nodes that a successful request adds were not online, and join      *)
(* those that were; those that a removal takes were.                       *)
LEMMA OnlineAfterAdd ==
  ASSUME TypeOK, NEW a \in Admins, krg_nodes_add(a), adm[a].set \subseteq Present(state)
  PROVE  /\ Online(state') = Online(state) \cup adm[a].set
         /\ Num(state', "online") = Num(state, "online") + Cardinality(adm[a].set)
<1>1. state' = [x \in Nodes |-> IF x \in adm[a].set THEN "online" ELSE state[x]]
  BY DEF krg_nodes_add
<1>2. adm[a].set \in SUBSET Nodes
  BY DEF TypeOK, AdmState
<1>3. Online(state') = Online(state) \cup adm[a].set
  BY <1>1, <1>2 DEF Online, With
<1>4. Online(state) \cap adm[a].set = {}
  BY DEF Online, Present, With
<1>5. IsFiniteSet(Online(state)) /\ IsFiniteSet(adm[a].set)
  BY <1>2, WithNodes, NodesFinite DEF Online
<1>6. Cardinality(Online(state')) = Cardinality(Online(state)) + Cardinality(adm[a].set)
  <2>1. Cardinality(Online(state) \cup adm[a].set) =
          Cardinality(Online(state)) + Cardinality(adm[a].set)
          - Cardinality(Online(state) \cap adm[a].set)
    BY <1>5, FS_Union
  <2>2. Cardinality(Online(state)) \in Nat /\ Cardinality(adm[a].set) \in Nat
    BY <1>5, FS_CardinalityType
  <2>3. Cardinality(Online(state) \cap adm[a].set) = 0
    BY <1>4, FS_EmptySet
  <2> QED
    BY <1>3, <2>1, <2>2, <2>3
<1> QED
  BY <1>3, <1>6 DEF Num, Online

(* A request for no node, or one that fails, leaves the nodes as they are. *)
LEMMA RequestMoves ==
  ASSUME TypeOK, NEW a \in Admins, NEW b \in Admins, a # b,
         krg_nodes_add(b) \/ krg_nodes_remove(b),
         adm[a].cmd = "add", adm[a].pc \in {"wait", "call"}, moved'[a] = {}
  PROVE  state' = state /\ moved[a] = {} /\ adm'[a] = adm[a]
<1>1. adm'[a] = adm[a]
  BY DEF krg_nodes_add, krg_nodes_remove, Return, SetAdm, TypeOK
<1>2. CASE UNCHANGED <<state, moved>>
  BY <1>1, <1>2
<1>3. CASE Moves(b) /\ \E s \in {"online", "possible"} :
              state' = [x \in Nodes |-> IF x \in adm[b].set THEN s ELSE state[x]]
  <2>1. moved'[a] = moved[a] \cup adm[b].set
    BY <1>3 DEF Moves
  <2>2. adm[b].set = {} /\ moved[a] = {}
    BY <2>1
  <2>3. state' = [x \in Nodes |-> state[x]]
    BY <1>3, <2>2
  <2>4. state' = state
    BY <2>3 DEF TypeOK
  <2> QED
    BY <1>1, <2>2, <2>4
<1> QED
  BY <1>2, <1>3 DEF krg_nodes_add, krg_nodes_remove

(* SinceSnapshot is kept by every step.                                    *)
LEMMA SnapshotStep ==
  ASSUME TypeOK, CommandsInv, SinceSnapshot, [Next]_vars
  PROVE  SinceSnapshot'
<1> SUFFICES ASSUME NEW a \in Admins, adm'[a].cmd = "add", adm'[a].mode = "total",
                    adm'[a].pc \in {"wait", "call"}, moved'[a] = {}
             PROVE  adm'[a].n = adm'[a].asked - Num(state', "online")
  BY DEF SinceSnapshot
<1>1. ASSUME adm'[a] = adm[a], moved'[a] = moved[a], Online(state') = Online(state)
      PROVE  adm'[a].n = adm'[a].asked - Num(state', "online")
  BY <1>1 DEF SinceSnapshot, Num, Online
<1>2. ASSUME NEW b \in Admins,
             \/ \E cmd \in Commands : nodes(b, cmd) \/ cluster(b, cmd)
             \/ nodes_add(b) \/ wait_for_nodes_count(b) \/ wait_for_nodes(b) \/ nodes_remove(b)
             \/ cluster_status(b) \/ StatusFails(b) \/ RequestFails(b)
      PROVE  adm'[a].n = adm'[a].asked - Num(state', "online")
  BY <1>2, OwnSteps DEF SinceSnapshot
<1>3. ASSUME NEW b \in Admins, krg_nodes_add(b) \/ krg_nodes_remove(b)
      PROVE  adm'[a].n = adm'[a].asked - Num(state', "online")
  <2>1. a # b /\ adm'[a] = adm[a]
    <3>1. adm \in [Admins -> AdmState] /\ adm[b] \in AdmState
      BY DEF TypeOK
    <3>2. PICK r \in {"ok", "fail"} : Return(b, r)
      BY <1>3 DEF krg_nodes_add, krg_nodes_remove
    <3>3. adm'[b] = [adm[b] EXCEPT !.pc = "done", !.r = r] /\ (a # b => adm'[a] = adm[a])
      BY <3>1, <3>2 DEF Return, SetAdm
    <3>4. adm'[b].pc = "done"
      BY <3>1, <3>3 DEF AdmState
    <3> QED
      BY <3>3, <3>4
  <2> QED
    BY <1>1, <1>3, <2>1, RequestMoves
<1>4. ASSUME NEW b \in Admins, ClusterCall(b) PROVE FALSE
  BY <1>4, ZenonT(30) DEF ClusterCall, TypeOK, AdmState
<1>5. ASSUME NEW x \in Nodes, NodeJoins(x) \/ NodeLeaves(x)
      PROVE  adm'[a].n = adm'[a].asked - Num(state', "online")
  <2>1. Online(state') = Online(state) /\ UNCHANGED <<adm, moved>>
    BY <1>5 DEF NodeJoins, NodeLeaves, Online, With, TypeOK
  <2> QED
    BY <1>1, <2>1
<1>6. CASE UNCHANGED vars
  BY <1>1, <1>6 DEF vars
<1> QED
  BY <1>2, <1>3, <1>4, <1>5, <1>6 DEF Next, AdmStep

(* add --total n that no other request came between makes a cluster of n   *)
(* nodes, or leaves one that already had n or more as it was.              *)
THEOREM AddTotalIsExact == Spec => AddTotalExact
<1> DEFINE Exact == \A a \in Admins : Completes(a, "add") /\ moved[a] = {} =>
       \/ Num(state', "online") = adm[a].asked
       \/ adm[a].set = {} /\ Num(state', "online") >= adm[a].asked
           Inv == TypeOK /\ CommandsInv /\ SinceSnapshot
<1>1. Init => SinceSnapshot
  BY DEF Init, SinceSnapshot, IdleAdm
<1>2. ASSUME Inv, [Next]_vars PROVE [Exact]_vars
  <2> SUFFICES ASSUME NEW a \in Admins, Completes(a, "add"), moved[a] = {}
               PROVE  \/ Num(state', "online") = adm[a].asked
                      \/ adm[a].set = {} /\ Num(state', "online") >= adm[a].asked
    OBVIOUS
  <2>0. adm[a] \in AdmState
    BY <1>2 DEF TypeOK
  <2>1. krg_nodes_add(a) /\ adm[a].set \subseteq Present(state)
    <3>1. adm'[a].pc = "done" /\ adm[a].pc # "done" /\ adm'[a].r = "ok" /\ adm[a].cmd = "add"
          /\ adm[a].mode = "total"
      BY DEF Completes
    <3>2. ASSUME NEW rec, SetAdm(a, rec) PROVE adm'[a] = rec
      BY <1>2, <3>2 DEF SetAdm, TypeOK
    <3>3. ~ Return(a, "fail") /\ ~ \E set : Call(a, set)
      BY <2>0, <3>1, <3>2 DEF Return, Call, AdmState
    <3>4. ASSUME NEW b \in Admins, b # a, NEW rec, SetAdm(b, rec) PROVE FALSE
      <4>1. adm'[a] = adm[a]
        BY <1>2, <3>4 DEF SetAdm, TypeOK
      <4> QED
        BY <3>1, <4>1
    <3>5. ASSUME NEW b \in Admins, ClusterCall(b) PROVE FALSE
      <4>1. b # a
        BY <3>1, <3>5 DEF ClusterCall
      <4>2. adm'[a] = [adm[a] EXCEPT !.pc = "done", !.r = "fail"]
        BY <3>5, <4>1 DEF ClusterCall
      <4>3. adm'[a].r = "fail"
        BY <2>0, <4>2 DEF AdmState
      <4> QED
        BY <3>1, <4>3
    <3>6. ~ UNCHANGED adm
      BY <3>1
    <3>7. ASSUME NEW b \in Admins, NEW cmd \in Commands, nodes(b, cmd) \/ cluster(b, cmd)
          PROVE  FALSE
      <4>1. PICK rec \in AdmState : SetAdm(b, rec) /\ Started(rec)
        BY <3>7, StartRecord
      <4> QED
        BY <3>1, <3>2, <3>4, <4>1 DEF Started
    <3>8. ~ nodes_add(a)
      <4>1. ASSUME nodes_add(a) PROVE FALSE
        <5>0. AddCount(a) \in Int /\ MaxNodes \in Int
          BY <2>0, WithNodes, AdmAssumption DEF AddCount, AdmState
        <5>1. adm'[a] = [[adm[a] EXCEPT !.snap = Online(state)]
                          EXCEPT !.n = AddCount(a),
                                 !.pc = IF AddCount(a) <= 0 THEN "call"
                                        ELSE IF AddCount(a) > MaxNodes THEN "done"
                                        ELSE "wait",
                                 !.r = IF AddCount(a) > MaxNodes THEN "fail" ELSE "ok"]
          BY <2>0, <3>1, <3>2, <4>1 DEF nodes_add, AdmState
        <5>2. adm'[a].pc = "done" => adm'[a].r = "fail"
          BY <2>0, <5>0, <5>1 DEF AdmState
        <5> QED
          BY <3>1, <5>2
      <4> QED
        BY <4>1
    <3>9. ASSUME NEW b \in Admins, AdmStep(b) \/ StatusFails(b) \/ RequestFails(b)
          PROVE  krg_nodes_add(a) /\ adm[a].set \subseteq Present(state)
      <4>1. CASE b # a
        BY <3>4, <3>5, <3>9, <4>1
           DEF AdmStep, nodes_add, wait_for_nodes_count, wait_for_nodes, krg_nodes_add,
               nodes_remove, krg_nodes_remove, cluster_status, StatusFails, RequestFails,
               Return, Call
      <4>2. CASE b = a
        <5>1. ~ wait_for_nodes_count(a)
          BY <2>0, <3>1, <3>2 DEF wait_for_nodes_count, AdmState
        <5> QED
          BY <3>1, <3>3, <3>5, <3>8, <3>9, <4>2, <5>1, Zenon
           DEF AdmStep, wait_for_nodes, krg_nodes_add,
               nodes_remove, krg_nodes_remove, cluster_status, StatusFails, RequestFails
      <4> QED
        BY <4>1, <4>2
    <3> QED
      BY <1>2, <3>6, <3>7, <3>9 DEF Next, vars, NodeJoins, NodeLeaves
  <2>2. Num(state', "online") = Num(state, "online") + Cardinality(adm[a].set)
    BY <1>2, <2>1, OnlineAfterAdd
  <2>3. adm[a].n = adm[a].asked - Num(state, "online") /\ adm[a].mode = "total"
    BY <1>2, <2>1 DEF SinceSnapshot, Completes, krg_nodes_add
  <2>4. Num(state, "online") \in Nat /\ adm[a].n \in Int /\ adm[a].asked \in Int
    BY <2>0, WithNodes DEF AdmState
  <2>5. CASE adm[a].n >= 0
    <3>1. Cardinality(adm[a].set) = adm[a].n
      BY <1>2, <2>1, <2>3, <2>5 DEF CommandsInv, Command, Selected, krg_nodes_add
    <3> QED
      BY <2>2, <2>3, <2>4, <3>1
  <2>6. CASE adm[a].n < 0
    <3>1. adm[a].set = {}
      BY <1>2, <2>1, <2>3, <2>6 DEF CommandsInv, Command, krg_nodes_add
    <3> QED
      BY <2>2, <2>3, <2>4, <2>6, <3>1, FS_EmptySet
  <2> QED
    BY <2>4, <2>5, <2>6
<1>3. Inv /\ [Next]_vars => SinceSnapshot'
  BY SnapshotStep
<1>4. Inv /\ [Next]_vars => [Exact]_vars
  BY <1>2
<1> QED
  BY <1>1, <1>3, <1>4, CommandsAlways, PTL DEF Spec, AddTotalExact
=============================================================================
