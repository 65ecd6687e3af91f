------------------------------- MODULE KrgAdm -------------------------------
(***************************************************************************)
(* tools/krgadm.c on libhotplug: administrators add nodes to the cluster,  *)
(* remove nodes from it, and power it off or reboot it.  Every command     *)
(* takes a snapshot of the nodes' status, decides, possibly waits, and     *)
(* then makes one request to the kernel: other commands, and the nodes     *)
(* themselves, act in between.                                             *)
(*                                                                         *)
(* A krg_node_set is the set of its nodes.  The kernel is not in this      *)
(* repository: a request to add fails unless every node is present, a      *)
(* request to remove unless every node is online.                          *)
(***************************************************************************)
EXTENDS Integers, FiniteSets

CONSTANTS
  Admins,          \* krgadm processes
  MaxNodes,        \* kerrighed_max_nodes
  Here,            \* get_node_id() of each process
  Counts,          \* node counts given to --count and --total
  Lists,           \* node lists given to --nodes
  Commands,        \* the commands administrators give
  InitialStates,   \* status of the nodes when the administrators start
  MaxLeaves,       \* how often a present node may disappear again
  OneAtATime       \* is a command only given when the others have ended?

Nodes == 0 .. MaxNodes - 1

(* A list is a set of items; an item is a range, a single node being a     *)
(* range of one, or cannot be parsed.                                      *)
Items == [ok : BOOLEAN, lo : Int, hi : Int]

ASSUME AdmAssumption ==
  /\ MaxNodes \in Nat \ {0} /\ Here \in [Admins -> Nodes]
  /\ Counts \subseteq Int /\ Lists \subseteq SUBSET Items
  /\ Commands \subseteq {"add", "del", "poweroff", "reboot"}
  /\ InitialStates \subseteq [Nodes -> {"possible", "present", "online"}]
  /\ MaxLeaves \in Nat /\ OneAtATime \in BOOLEAN

VARIABLES
  state,   \* status of every node, in the kernel
  up,      \* krg_clusters_is_up(0)
  adm,     \* for each process, its command, its node_set and where it is
  leaves,  \* how many nodes have disappeared again
  moved    \* history: for each add command, the nodes that other commands
           \* have added or removed since its snapshot

vars == <<state, up, adm, leaves, moved>>

With(st, s) == {x \in Nodes : st[x] = s}    \* krg_nodes_get
Present(st) == With(st, "present")
Online(st)  == With(st, "online")
Num(st, s)  == Cardinality(With(st, s))     \* krg_nodes_num

IdleAdm == [pc |-> "idle", cmd |-> "add", mode |-> "all", n |-> 0, set |-> {},
            asked |-> 0, snap |-> {}, r |-> "ok"]

Init == /\ state \in InitialStates
        /\ up = (Online(state) # {})
        /\ adm = [a \in Admins |-> IdleAdm]
        /\ leaves = 0 /\ moved = [a \in Admins |-> {}]

SetAdm(a, rec) == adm' = [adm EXCEPT ![a] = rec]
Return(a, r) == SetAdm(a, [adm[a] EXCEPT !.pc = "done", !.r = r])
Call(a, set) == SetAdm(a, [adm[a] EXCEPT !.pc = "call", !.set = set])
Moves(a) == moved' = [b \in Admins |->
  IF b # a /\ adm[b].cmd = "add" /\ adm[b].pc \in {"wait", "call"}
  THEN moved[b] \cup adm[a].set ELSE moved[b]]

-----------------------------------------------------------------------------
(* krg_node_set_add ignores identifiers out of range.                      *)
InTable(ids) == ids \cap Nodes

(* parse_nodes, parse_nodes_interval, parse_node.                          *)
Parses(list) == \A item \in list : item.ok

(* Mutant: krg_node_set_add does not check the identifier.                 *)
ParseUnchecked(list) == UNION {item.lo .. item.hi : item \in list}

parse_nodes(list) == UNION {InTable(item.lo .. item.hi) : item \in list}

(* A command is run inside a running cluster.                              *)
MayStart(a) ==
  /\ adm[a].pc = "idle" /\ up
  /\ OneAtATime => \A b \in Admins : adm[b].pc \in {"idle", "done"}

(* nodes and cluster, up to their switch on the action.                    *)
nodes(a, cmd) ==
  /\ MayStart(a) /\ cmd \in {"add", "del"}
  /\ \/ SetAdm(a, [IdleAdm EXCEPT !.pc = "decide", !.cmd = cmd])
     \/ \E n \in Counts, mode \in {"count", "total"} :
          SetAdm(a, [IdleAdm EXCEPT !.pc = "decide", !.cmd = cmd, !.mode = mode,
                                    !.n = n, !.asked = n])
     \/ \E list \in Lists :
          SetAdm(a, IF Parses(list)
                    THEN [IdleAdm EXCEPT !.pc = "decide", !.cmd = cmd,
                            !.mode = "list", !.set = parse_nodes(list)]
                    ELSE [IdleAdm EXCEPT !.pc = "done", !.cmd = cmd,
                            !.mode = "list", !.r = "fail"])
  /\ UNCHANGED <<state, up, leaves, moved>>

cluster(a, cmd) ==
  /\ MayStart(a) /\ cmd \in {"poweroff", "reboot"}
  /\ SetAdm(a, [IdleAdm EXCEPT !.pc = "check", !.cmd = cmd])
  /\ UNCHANGED <<state, up, leaves, moved>>

-----------------------------------------------------------------------------
(* Mutant: the loop goes on for one node too many.                         *)
WalkOneMore(set, n, skip) ==
  LET took[k \in 0 .. MaxNodes] ==
        IF k = 0 THEN {}
        ELSE IF k - 1 \in set /\ k - 1 # skip /\ Cardinality(took[k - 1]) <= n
             THEN took[k - 1] \cup {k - 1} ELSE took[k - 1]
  IN took[MaxNodes]

(* Mutant: the current node is not left out.                               *)
WalkTakesSelf(set, n, skip) ==
  LET took[k \in 0 .. MaxNodes] ==
        IF k = 0 THEN {}
        ELSE IF k - 1 \in set /\ Cardinality(took[k - 1]) < n
             THEN took[k - 1] \cup {k - 1} ELSE took[k - 1]
  IN took[MaxNodes]

(* The first n nodes of a set in the order of their identifiers, as the    *)
(* loops over krg_nodes_next and krg_node_set_next take them.              *)
Walk(set, n, skip) ==
  LET took[k \in 0 .. MaxNodes] ==
        IF k = 0 THEN {}
        ELSE IF k - 1 \in set /\ k - 1 # skip /\ Cardinality(took[k - 1]) < n
             THEN took[k - 1] \cup {k - 1} ELSE took[k - 1]
  IN took[MaxNodes]

(* Mutant: --total is taken for the number of nodes to add.                *)
AddCountIsTotal(a) == adm[a].n

(* How many nodes nodes_add waits for.                                     *)
AddCount(a) == IF adm[a].mode = "total" THEN adm[a].n - Num(state, "online")
               ELSE adm[a].n

(* Mutant: the nodes of the list that are already online stay in it.       *)
AddListKeepsOnline(a) == adm[a].set

(* Which nodes of the list it waits for.                                   *)
AddList(a) == adm[a].set \ Online(state)

(* nodes_add: the snapshot, and what each mode makes of it.                *)
nodes_add(a) ==
  /\ adm[a].pc = "decide" /\ adm[a].cmd = "add"
  /\ LET rec == [adm[a] EXCEPT !.snap = Online(state)]
         n   == AddCount(a)
     IN \/ /\ rec.mode = "all"
           /\ SetAdm(a, [rec EXCEPT !.pc = "call", !.set = Present(state)])
        \/ /\ rec.mode = "list"
           /\ SetAdm(a, [rec EXCEPT !.pc = "wait", !.set = AddList(a)])
        \/ /\ rec.mode \in {"count", "total"}
           /\ SetAdm(a, [rec EXCEPT !.n = n,
                           !.pc = IF n <= 0 THEN "call"
                                  ELSE IF n > MaxNodes THEN "done" ELSE "wait",
                           !.r = IF n > MaxNodes THEN "fail" ELSE "ok"])
  /\ UNCHANGED <<state, up, leaves, moved>>

(* One turn of the polling loop that ends it: enough nodes are present, or *)
(* all of the list.                                                        *)
wait_for_nodes_count(a) ==
  /\ adm[a].pc = "wait" /\ adm[a].mode \in {"count", "total"}
  /\ Num(state, "present") >= adm[a].n
  /\ SetAdm(a, [adm[a] EXCEPT !.pc = "call", !.snap = Present(state),
                              !.set = Walk(Present(state), adm[a].n, -1)])
  /\ UNCHANGED <<state, up, leaves, moved>>

wait_for_nodes(a) ==
  /\ adm[a].pc = "wait" /\ adm[a].mode = "list"
  /\ \A x \in adm[a].set : state[x] = "present"
  /\ Call(a, adm[a].set)
  /\ UNCHANGED <<state, up, leaves, moved>>

(* KSYS_HOTPLUG_ADD, for a set that is not empty.                          *)
krg_nodes_add(a) ==
  /\ adm[a].pc = "call" /\ adm[a].cmd = "add"
  /\ IF adm[a].set \subseteq Present(state)
     THEN /\ state' = [x \in Nodes |-> IF x \in adm[a].set THEN "online" ELSE state[x]]
          /\ Return(a, "ok") /\ Moves(a)
     ELSE /\ Return(a, "fail") /\ UNCHANGED <<state, moved>>
  /\ UNCHANGED <<up, leaves>>

(* nodes_remove: a count that is not below the number of online nodes is   *)
(* refused.                                                                *)
nodes_remove(a) ==
  /\ adm[a].pc = "decide" /\ adm[a].cmd = "del"
  /\ LET online == Online(state)
         rec == [adm[a] EXCEPT !.snap = online]
         n == IF rec.mode = "total" THEN Num(state, "online") - rec.n ELSE rec.n
     IN \/ /\ rec.mode = "all"
           /\ SetAdm(a, [rec EXCEPT !.pc = "call", !.set = online \ {Here[a]}])
        \/ /\ rec.mode = "list"
           /\ SetAdm(a, [rec EXCEPT !.pc = "call",
                           !.set = (@ \cap online) \ {Here[a]}])
        \/ /\ rec.mode \in {"count", "total"} /\ n < Cardinality(online)
           /\ SetAdm(a, [rec EXCEPT !.pc = "call", !.n = n,
                           !.set = Walk(online, n, Here[a])])
        \/ /\ rec.mode \in {"count", "total"} /\ n >= Cardinality(online)
           /\ SetAdm(a, [rec EXCEPT !.pc = "done", !.r = "fail"])
  /\ UNCHANGED <<state, up, leaves, moved>>

(* KSYS_HOTPLUG_REMOVE: the nodes leave the cluster, and may come back.    *)
krg_nodes_remove(a) ==
  /\ adm[a].pc = "call" /\ adm[a].cmd = "del"
  /\ IF adm[a].set \subseteq Online(state)
     THEN /\ state' = [x \in Nodes |-> IF x \in adm[a].set THEN "possible" ELSE state[x]]
          /\ Return(a, "ok") /\ Moves(a)
     ELSE /\ Return(a, "fail") /\ UNCHANGED <<state, moved>>
  /\ UNCHANGED <<up, leaves>>

(* krg_nodes_status returns NULL, at the snapshot or while polling; an     *)
(* empty list is not polled for.                                           *)
StatusFails(a) ==
  /\ \/ adm[a].pc = "decide"
     \/ adm[a].pc = "wait" /\ (adm[a].mode = "list" => adm[a].set # {})
  /\ Return(a, "fail")
  /\ UNCHANGED <<state, up, leaves, moved>>

(* The kernel refuses a request for a reason of its own.                   *)
RequestFails(a) ==
  /\ adm[a].pc = "call" /\ (adm[a].cmd \in {"add", "del"} => adm[a].set # {})
  /\ Return(a, "fail")
  /\ UNCHANGED <<state, up, leaves, moved>>

-----------------------------------------------------------------------------
(* cluster_status is 0 when the cluster is down (or has no online node);   *)
(* -1, when it cannot be told, does not stop a poweroff.                   *)
cluster_status(a) ==
  /\ adm[a].pc = "check"
  /\ \/ ~(up /\ Online(state) # {}) /\ Return(a, "fail")
     \/ Call(a, {})
  /\ UNCHANGED <<state, up, leaves, moved>>

(* krg_cluster_shutdown, krg_cluster_reboot: every node of the cluster     *)
(* goes, with the processes on it.                                         *)
ClusterCall(a) ==
  /\ adm[a].pc = "call" /\ adm[a].cmd \in {"poweroff", "reboot"}
  /\ up' = FALSE
  /\ state' = [x \in Nodes |-> IF state[x] = "online" THEN "possible" ELSE state[x]]
  /\ adm' = [b \in Admins |->
       [adm[b] EXCEPT !.pc = "done", !.r = IF b = a THEN "ok" ELSE "fail"]]
  /\ UNCHANGED <<leaves, moved>>

(* The nodes' own steps. *)
NodeJoins(x) ==
  /\ state[x] = "possible" /\ state' = [state EXCEPT ![x] = "present"]
  /\ UNCHANGED <<up, adm, leaves, moved>>

NodeLeaves(x) ==
  /\ leaves < MaxLeaves /\ leaves' = leaves + 1
  /\ state[x] = "present" /\ state' = [state EXCEPT ![x] = "possible"]
  /\ UNCHANGED <<up, adm, moved>>

AdmStep(a) ==
  \/ nodes_add(a) \/ wait_for_nodes_count(a) \/ wait_for_nodes(a)
  \/ krg_nodes_add(a) \/ nodes_remove(a) \/ krg_nodes_remove(a)
  \/ cluster_status(a) \/ ClusterCall(a)

Next == \/ \E a \in Admins, cmd \in Commands : nodes(a, cmd) \/ cluster(a, cmd)
        \/ \E a \in Admins : AdmStep(a) \/ StatusFails(a) \/ RequestFails(a)
        \/ \E x \in Nodes : NodeJoins(x) \/ NodeLeaves(x)

Spec == Init /\ [][Next]_vars

(* A command goes on; a node that can join the network does.               *)
Fairness == /\ \A a \in Admins : WF_vars(AdmStep(a))
            /\ \A x \in Nodes : WF_vars(NodeJoins(x))
FairSpec == Spec /\ Fairness

-----------------------------------------------------------------------------
AdmState == [pc : {"idle", "decide", "wait", "call", "check", "done"},
             cmd : {"add", "del", "poweroff", "reboot"},
             mode : {"all", "count", "total", "list"}, n : Int,
             set : SUBSET Nodes, asked : Int, snap : SUBSET Nodes,
             r : {"ok", "fail"}]

(* Types of the kernel's table of nodes and of the commands' variables.    *)
TypeOK == /\ state \in [Nodes -> {"possible", "present", "online"}]
          /\ up \in BOOLEAN
          /\ adm \in [Admins -> AdmState]
          /\ leaves \in 0 .. MaxLeaves /\ moved \in [Admins -> SUBSET Nodes]

(* No del command takes the node it runs on out of the cluster, whatever   *)
(* other administrators do between its snapshot and its request.           *)
OwnNodeStays ==
  [][\A a \in Admins :
       adm[a].cmd = "del" /\ adm[a].pc = "call" /\ adm'[a].pc = "done" /\ up'
         /\ state[Here[a]] = "online" => state'[Here[a]] = "online"]_vars

(* del --count n and add --count n, and --total with the count it amounts  *)
(* to, work on exactly that many nodes: a removal on those with the lowest *)
(* identifiers of the nodes it found online, the one it runs on left out;  *)
(* an addition on the lowest of those its last poll found present.         *)
SelectsLowest ==
  \A a \in Admins :
    LET c == adm[a]
        from == IF c.cmd = "del" THEN c.snap \ {Here[a]} ELSE c.snap
    IN c.pc = "call" /\ c.cmd \in {"add", "del"} /\ c.mode \in {"count", "total"}
         /\ c.n > 0 =>
         /\ Cardinality(c.set) = c.n /\ c.set \subseteq from
         /\ \A x \in c.set, y \in from \ c.set : x < y

(* add --total n makes a cluster of fewer than n nodes one of n nodes, and *)
(* never one of more, however long it has waited for them: unless the      *)
(* requests of other administrators came between its snapshot and its own. *)
Completes(a, cmd) == /\ adm[a].cmd = cmd /\ adm[a].mode = "total"
                     /\ adm[a].pc # "done" /\ adm'[a].pc = "done" /\ adm'[a].r = "ok"
AddTotalExact ==
  [][\A a \in Admins : Completes(a, "add") /\ moved[a] = {} =>
       \/ Num(state', "online") = adm[a].asked
       \/ adm[a].set = {} /\ Num(state', "online") >= adm[a].asked]_vars

(* del --total n that succeeds leaves a cluster of n nodes.                *)
DelTotalExact ==
  [][\A a \in Admins : Completes(a, "del") => Num(state', "online") = adm[a].asked]_vars

(* An add command that waits for the nodes of a list ends once they join,  *)
(* whatever else the administrators do: the only way for it to poll for    *)
(* ever is that another command has taken one of its very nodes meanwhile. *)
AddEnds == \A a \in Admins :
  adm[a].pc = "wait" /\ adm[a].mode = "list"
    ~> adm[a].pc = "done" \/ moved[a] \cap adm[a].set # {}
=============================================================================
