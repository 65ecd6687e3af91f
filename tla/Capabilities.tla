---------------------------- MODULE Capabilities ----------------------------
(***************************************************************************)
(* libcapability: the four Kerrighed capability sets of every process, and *)
(* the requests that read and write them.  What the kernel does with a     *)
(* request is not in this repository: a process that lacks the effective   *)
(* CHANGE_KERRIGHED_CAP cannot have its sets changed, a process that has   *)
(* ended cannot be named, a child inherits at its fork, and a request may  *)
(* fail for reasons of the kernel's own, such as bits that it does not     *)
(* know; or it may take them.                                              *)
(***************************************************************************)
EXTENDS Naturals, Sequences

CONSTANTS
  Shells,      \* processes that give commands
  Init1,       \* the process that adopts the children of a shell that ends
  Launchers,   \* krgcr-run processes
  App          \* App[l]: the process that becomes the application of l

Change         == "CHANGE_KERRIGHED_CAP"
Checkpointable == "CHECKPOINTABLE"
Caps == {Change, Checkpointable}
Bits == Caps \cup {"other bit"}   \* a word also has bits that mean nothing

Apps  == {App[l] : l \in Launchers}
Procs == Shells \cup {Init1} \cup Launchers \cup Apps

ASSUME CapAssumption ==
  /\ Init1 \notin Shells \cup Launchers /\ Shells \cap Launchers = {}
  /\ DOMAIN App = Launchers
  /\ \A l \in Launchers : App[l] \notin Shells \cup {Init1} \cup Launchers
  /\ \A l, m \in Launchers : App[l] = App[m] => l = m

(* krg_cap_t: a word, a set of bits, for each of its four members.         *)
Members == {"effective", "permitted", "inheritable_permitted", "inheritable_effective"}
CapSets == [Members -> SUBSET Bits]

VARIABLES
  alive,   \* the processes that exist
  caps     \* their capability sets

capVars == <<alive, caps>>

(* What a child inherits; its own inheritable sets are its father's.       *)
Inherited(c) ==
  [m \in Members |->
     CASE m = "permitted" -> c["inheritable_permitted"]
       [] m = "effective" -> c["inheritable_effective"] \cap c["inheritable_permitted"]
       [] OTHER -> c[m]]

Forks(father, child) ==
  /\ alive' = alive \cup {child}
  /\ caps' = [caps EXCEPT ![child] = Inherited(caps[father])]

(* krg_capget, krg_pid_capget and krg_father_capget of process p succeed;  *)
(* krg_capset, krg_pid_capset and krg_father_capset of p may.              *)
CanGet(p) == p \in alive
CanSet(p) == p \in alive /\ Change \in caps[p]["effective"]
Set(p, new) == caps' = [caps EXCEPT ![p] = new] /\ UNCHANGED alive

(* A process that does not exist has no capabilities.                      *)
NoCaps == [m \in Members |-> {}]
Dies(p) == /\ alive' = alive \ {p}
           /\ caps' = [caps EXCEPT ![p] = NoCaps]
=============================================================================
