---------------------------- MODULE MemExclusion ----------------------------
(***************************************************************************)
(* libkrgcheckpoint: the memory regions an application keeps out of its    *)
(* checkpoints, and the children it passes the checkpoint and restart      *)
(* callbacks on to.                                                        *)
(*                                                                         *)
(* One process is followed, through its forks: after a fork it is either   *)
(* the parent or the child.  It has one thread, which the callbacks' and   *)
(* the SIGCHLD handlers interrupt; the callbacks' handler blocks every     *)
(* signal (libkrgcb).  The regions are malloc's cells, linked by next.     *)
(***************************************************************************)
EXTENDS Naturals, Sequences, FiniteSets

CONSTANTS
  Addrs,         \* addresses given to cr_exclude_on and cr_exclude_off
  Cells,         \* bound: the cells of malloc's heap
  NULL,
  Kids,          \* pids fork may give, oldest first
  MaxForks,      \* bound: forks
  MaxCallbacks   \* bound: checkpoint and restart signals

NCells == Cardinality(Cells)

ASSUME ExclusionAssumption ==
  /\ IsFiniteSet(Cells) /\ NULL \notin Cells
  /\ MaxForks \in Nat /\ MaxCallbacks \in Nat
  /\ {"none", "junk", "wild"} \cap Kids = {} /\ "junk" \notin Addrs

VARIABLES
  cell,          \* the heap: address, pid and next of every region
  first,         \* first_mm_region_excluded
  children,      \* the list first_child; "wild" is where it leads into
                 \* memory that was freed and is no longer an element
  initialized,
  registered,    \* the callbacks libkrgcb knows
  main,          \* where the application is in the library
  cb,            \* the callback that interrupts it, if any
  kid,           \* state of the children of this process
  sigchld,       \* the pending SIGCHLD's si_pid, or none
  excluded,      \* history: addresses cr_exclude_on has been given, and not
                 \* yet cr_exclude_off
  newest,        \* history: the last child add_child has added
  spoilt,        \* history: has a region been linked whose next malloc left
                 \* set, or a region been freed that is linked?
  raced,         \* history: has SIGCHLD taken the first child away between
                 \* the test and the dereference in add_child?
  forksLeft, cbLeft

regionVars == <<cell, first>>
libVars    == <<initialized, registered, excluded, spoilt>>
vars == <<regionVars, children, initialized, registered, main, cb, kid, sigchld,
          excluded, newest, spoilt, raced, forksLeft, cbLeft>>

FreeCell == [used |-> FALSE, addr |-> "junk", pid |-> "none", next |-> NULL]
InApp == [pc |-> "app", cell |-> NULL, child |-> "none",
          pid |-> "none", list |-> <<>>]
NoCb  == [pc |-> "off", kind |-> "none", left |-> <<>>, seen |-> {}]

Init ==
  /\ cell = [c \in Cells |-> FreeCell] /\ first = NULL /\ children = <<>>
  /\ initialized = FALSE /\ registered = {} /\ main = InApp /\ cb = NoCb
  /\ kid = [k \in Kids |-> "unborn"] /\ sigchld = "none"
  /\ excluded = {} /\ newest = "none" /\ spoilt = FALSE /\ raced = FALSE
  /\ forksLeft = MaxForks /\ cbLeft = MaxCallbacks

-----------------------------------------------------------------------------
(* The list as next_region walks it: the k-th cell, or NULL once it has    *)
(* ended.  A list that has not ended after as many steps as there are      *)
(* cells never does.                                                       *)
Nth[k \in 1 .. NCells + 1] ==
  IF k = 1 THEN first ELSE IF Nth[k - 1] = NULL THEN NULL ELSE cell[Nth[k - 1]].next
WalkEnds == Nth[NCells + 1] = NULL
Walked   == {Nth[k] : k \in 1 .. NCells + 1} \ {NULL}
HasAddr(c, a) == cell[c].used /\ cell[c].addr = a

(* free: the address and the pid are overwritten, next is not.             *)
Freed(heap, c) == [heap EXCEPT ![c].used = FALSE, ![c].addr = "junk", ![c].pid = "none"]

Calls == main.pc = "app" /\ cb.pc = "off"
Spin  == main' = [InApp EXCEPT !.pc = "spin"]
Rest  == <<children, cb, kid, sigchld, newest, raced, forksLeft, cbLeft>>

(* What malloc leaves in the next of a cell, which cr_exclude_on does not  *)
(* set: zero, what the cell has held as a region, or a pointer that leads  *)
(* nowhere, here to the cell itself: a walk does not come back from it.    *)
Leftover(c) == {NULL, cell[c].next, c}

(* malloc, and the link to the last element.  A list already holding the   *)
(* address is EBUSY; so is one that leads to this very cell.               *)
cr_exclude_on(a) ==
  /\ Calls
  /\ \E c \in Cells : \E next \in Leftover(c) :
       LET new == [used |-> TRUE, addr |-> a, pid |-> "none", next |-> next]
           last == CHOOSE x \in Walked : cell[x].next = NULL
           busy == \E x \in Walked : HasAddr(x, a) \/ x = c
       IN /\ ~cell[c].used
          /\ \/ /\ first = NULL
                /\ first' = c /\ cell' = [cell EXCEPT ![c] = new]
                /\ main' = [InApp EXCEPT !.pc = "init", !.cell = c]
                /\ excluded' = excluded \cup {a} /\ spoilt' = (spoilt \/ next # NULL)
             \/ /\ busy /\ cell' = [cell EXCEPT ![c].next = next]
                /\ UNCHANGED <<first, main, excluded, spoilt>>
             \/ /\ first # NULL /\ WalkEnds /\ ~busy
                /\ cell' = [cell EXCEPT ![c] = new, ![last].next = c]
                /\ main' = [InApp EXCEPT !.pc = "init", !.cell = c]
                /\ excluded' = excluded \cup {a} /\ spoilt' = (spoilt \/ next # NULL)
                /\ UNCHANGED first
             \/ /\ ~WalkEnds /\ ~busy
                /\ Spin /\ UNCHANGED <<regionVars, excluded, spoilt>>
  /\ UNCHANGED <<initialized, registered, Rest>>

(* cr_mm_exclusion_init, and the end of cr_exclude_on.  The former may     *)
(* fail before it has registered a callback, or after; cr_exclude_on then  *)
(* frees a region that is in the list.                                     *)
cr_mm_exclusion_init ==
  /\ main.pc = "init" /\ cb.pc = "off"
  /\ \/ /\ initialized' = TRUE /\ registered' = {"chkpt", "rst"}
        /\ UNCHANGED <<cell, excluded, spoilt>>
     \/ /\ ~initialized /\ UNCHANGED initialized
        /\ registered' \in {{}, {"chkpt"}, {"chkpt", "rst"}}
        /\ cell' = Freed(cell, main.cell) /\ spoilt' = TRUE
        /\ excluded' = excluded \ {cell[main.cell].addr}
  /\ main' = InApp
  /\ UNCHANGED <<first, Rest>>

(* Mutant: the predecessor is not linked to the successor.                 *)
ExcludeOffKeepsLink(a) ==
  /\ Calls
  /\ \E x \in Walked :
       /\ HasAddr(x, a) /\ cell' = Freed(cell, x)
       /\ first' = IF x = first THEN cell[x].next ELSE first
  /\ excluded' = excluded \ {a}
  /\ UNCHANGED <<initialized, registered, main, spoilt, Rest>>

(* Mutant: the first region is freed before its next is read.              *)
ExcludeOffFreesFirst(a) ==
  /\ Calls
  /\ first # NULL /\ HasAddr(first, a)
  /\ cell' = Freed(cell, first) /\ first' = "junk"
  /\ excluded' = excluded \ {a}
  /\ UNCHANGED <<initialized, registered, main, spoilt, Rest>>

(* The first region with the address, and the one before it.               *)
cr_exclude_off(a) ==
  /\ Calls
  /\ \/ \E k \in 1 .. NCells :
          LET x == Nth[k] IN
          /\ x # NULL /\ HasAddr(x, a)
          /\ \A j \in 1 .. k - 1 : ~HasAddr(Nth[j], a)
          /\ IF k = 1
             THEN first' = cell[x].next /\ cell' = Freed(cell, x)
             ELSE /\ cell' = Freed([cell EXCEPT ![Nth[k - 1]].next = cell[x].next], x)
                  /\ UNCHANGED first
          /\ excluded' = excluded \ {a} /\ UNCHANGED main
     \/ /\ ~ \E x \in Walked : HasAddr(x, a)
        /\ IF WalkEnds THEN UNCHANGED main ELSE Spin
        /\ UNCHANGED <<regionVars, excluded>>
  /\ UNCHANGED <<initialized, registered, spoilt, Rest>>

-----------------------------------------------------------------------------
(* fork, with the handlers of pthread_atfork.                              *)

Unborn    == {k \in Kids : kid[k] = "unborn"}
Unwritten == {k \in Kids : kid[k] \in {"forked", "held", "lost"}}
Wild(list) == \E i \in DOMAIN list : list[i] = "wild"

Crashed == [InApp EXCEPT !.pc = "crashed"]
Runs    == main.pc \notin {"exited", "crashed"}

(* parent_before_fork and the fork, as the parent sees it: its handler     *)
(* goes on to read the child's pid from the pipe.                          *)
ForkParent ==
  /\ Calls /\ initialized /\ forksLeft > 0
  /\ \E k \in Unborn :
       /\ kid' = [kid EXCEPT ![k] = "forked"]
       /\ main' = [InApp EXCEPT !.pc = "read", !.child = k, !.pid = k]
  /\ forksLeft' = forksLeft - 1
  /\ UNCHANGED <<regionVars, libVars, children, cb, sigchld, newest, raced, cbLeft>>

(* The new child's write of its pid: SIGPIPE ends it once the parent has   *)
(* closed the pipe.                                                        *)
ChildWrites(k) ==
  /\ kid[k] \in {"forked", "held"}
  /\ IF main.pc = "read" /\ main.child = k
     THEN /\ kid' = [kid EXCEPT ![k] = IF @ = "forked" THEN "alive" ELSE "resumed"]
          /\ UNCHANGED sigchld
     ELSE /\ kid' = [kid EXCEPT ![k] = "dead"]
          /\ sigchld' = IF sigchld = "none" THEN k ELSE sigchld
  /\ UNCHANGED <<regionVars, libVars, children, main, cb, newest, raced, forksLeft, cbLeft>>

(* Neither handler has SA_RESTART: a read that one of them interrupts      *)
(* returns EINTR, and pid keeps what the stack holds, here the pid of no   *)
(* process the model follows.                                              *)
Interrupts ==
  \/ UNCHANGED main
  \/ main.pc = "read" /\ main.child \in Unwritten /\ main' = [main EXCEPT !.pid = "junk"]

(* The read returns and the pipe is closed.  The parent has the pipe open  *)
(* for writing too: the read does not end because the child has died.      *)
parent_after_fork ==
  /\ main.pc = "read" /\ cb.pc = "off"
  /\ main.pid = "junk" \/ main.child \notin Unwritten
  /\ main' = [main EXCEPT !.pc = "add_child"]
  /\ UNCHANGED <<regionVars, libVars, children, cb, kid, sigchld, newest, raced,
                 forksLeft, cbLeft>>

(* Mutant: the successor of the first one, which need not exist.           *)
AddChildUntested ==
  /\ main.pc = "add_child" /\ cb.pc = "off"
  /\ main' = [main EXCEPT !.pc = "first_child", !.list =
                <<main.pid>> \o (IF children = <<>> THEN <<"wild">> ELSE Tail(children))]
  /\ UNCHANGED <<regionVars, libVars, children, cb, kid, sigchld, newest, raced,
                 forksLeft, cbLeft>>

(* add_child, up to its test for a first child.                            *)
add_child ==
  /\ main.pc = "add_child" /\ cb.pc = "off"
  /\ \/ main' = InApp    \* malloc fails
     \/ children = <<>> /\ main' = [main EXCEPT !.pc = "first_child", !.list = <<main.pid>>]
     \/ children # <<>> /\ main' = [main EXCEPT !.pc = "next", !.list = children]
  /\ UNCHANGED <<regionVars, libVars, children, cb, kid, sigchld, newest, raced,
                 forksLeft, cbLeft>>

(* The new element is linked to the successor of the first one: of the one *)
(* that was tested, or of the one there is now, as the compiler has it.    *)
LinkChild ==
  /\ main.pc = "next" /\ cb.pc = "off"
  /\ \E list \in {main.list, children} :
       main' = IF list = <<>> \/ (list # <<>> /\ Head(list) = "wild") THEN Crashed
               ELSE [main EXCEPT !.pc = "first_child", !.list = <<main.pid>> \o Tail(list)]
  /\ UNCHANGED <<regionVars, libVars, children, cb, kid, sigchld, newest, raced,
                 forksLeft, cbLeft>>

(* ... and its last store, which makes it the first one.                   *)
Newest == newest' = IF main.pid = "junk" THEN "none" ELSE main.child

(* Mutant: only an empty list gets the new element.                        *)
FirstChildStays ==
  /\ main.pc = "first_child" /\ cb.pc = "off"
  /\ children' = IF children = <<>> THEN main.list ELSE children
  /\ Newest /\ main' = InApp
  /\ UNCHANGED <<regionVars, libVars, cb, kid, sigchld, raced, forksLeft, cbLeft>>

FirstChild ==
  /\ main.pc = "first_child" /\ cb.pc = "off"
  /\ children' = main.list
  /\ Newest /\ main' = InApp
  /\ UNCHANGED <<regionVars, libVars, cb, kid, sigchld, raced, forksLeft, cbLeft>>

(* The child: the children of its parent are not its own, and no signal is *)
(* pending.  The regions are copies with the parent's pid.                 *)
ForkedChild ==
  /\ Calls /\ initialized /\ forksLeft > 0
  /\ cell' = [c \in Cells |-> [cell[c] EXCEPT !.pid = IF @ = "self" THEN "parent" ELSE @]]
  /\ kid' = [k \in Kids |-> IF kid[k] = "unborn" THEN "unborn" ELSE "not mine"]
  /\ sigchld' = "none" /\ newest' = "none"
  /\ forksLeft' = forksLeft - 1
  /\ UNCHANGED <<first, libVars, cb, raced, cbLeft>>

(* Mutant: the list of children is kept.                                   *)
ChildKeepsList == ForkedChild /\ UNCHANGED <<children, main>>

child_after_fork ==
  /\ ForkedChild
  /\ children' = <<>> /\ main' = IF Wild(children) THEN Crashed ELSE main

(* A child dies, perhaps before its write, is stopped, or goes on: SIGCHLD *)
(* is sent, and merged with one that is still pending.                     *)
ChildChanges(k) ==
  /\ \/ /\ kid[k] \in {"alive", "resumed"}
        /\ \E s \in {"dead", "stopped"} : kid' = [kid EXCEPT ![k] = s]
     \/ kid[k] = "stopped" /\ \E s \in {"dead", "resumed"} : kid' = [kid EXCEPT ![k] = s]
     \/ kid[k] \in {"forked", "held"} /\ kid' = [kid EXCEPT ![k] = "lost"]
     \/ kid[k] = "forked" /\ kid' = [kid EXCEPT ![k] = "held"]
  /\ sigchld' = IF sigchld = "none" THEN k ELSE sigchld
  /\ UNCHANGED <<regionVars, libVars, children, main, cb, newest, raced, forksLeft, cbLeft>>

(* remove_child takes the first element with the pid out of the list; it   *)
(* does not get past where the list leads into freed memory.               *)
remove_child(pid) ==
  \/ /\ \A i \in DOMAIN children : children[i] # pid
     /\ UNCHANGED children
  \/ \E i \in DOMAIN children :
       /\ children[i] = pid /\ \A j \in 1 .. i - 1 : children[j] # pid
       /\ children' = SubSeq(children, 1, i - 1) \o SubSeq(children, i + 1, Len(children))

Overruns(pid) == Wild(children) /\ \A i \in DOMAIN children : children[i] # pid

(* The child that sent the signal is removed, whatever the signal was for. *)
(* It may be the one that add_child is about to read, whose memory then    *)
(* keeps its contents or not.                                              *)
handle_sigchild ==
  /\ sigchld # "none" /\ cb.pc = "off" /\ Runs
  /\ remove_child(sigchld)
  /\ sigchld' = "none"
  /\ LET freed == main.pc = "next" /\ Head(main.list) = sigchld
     IN /\ raced' = (raced \/ freed)
        /\ IF Overruns(sigchld) THEN main' = Crashed
           ELSE Interrupts \/ (freed /\ main' = [main EXCEPT !.list = <<sigchld, "wild">>])
  /\ UNCHANGED <<regionVars, libVars, cb, kid, newest, forksLeft, cbLeft>>

-----------------------------------------------------------------------------
(* The callbacks, run by the handler of libkrgcb.                          *)
CallbackStarts(kind) ==
  /\ kind \in registered /\ cb.pc = "off" /\ Runs /\ cbLeft > 0
  /\ cbLeft' = cbLeft - 1
  /\ cb' = [NoCb EXCEPT !.pc = "regions", !.kind = kind]
  /\ Interrupts
  /\ UNCHANGED <<regionVars, libVars, children, kid, sigchld, newest, raced, forksLeft>>

(* Mutant: the pid is only set in regions that have none.                  *)
CheckpointKeepsPid ==
  /\ cb.pc = "regions" /\ cb.kind = "chkpt"
  /\ IF first = NULL THEN cb' = NoCb /\ UNCHANGED cell
     ELSE /\ WalkEnds
          /\ cell' = [c \in Cells |-> IF c \in Walked /\ cell[c].pid = "none"
                                      THEN [cell[c] EXCEPT !.pid = "self"] ELSE cell[c]]
          /\ cb' = [cb EXCEPT !.pc = "children", !.left = children,
                      !.seen = {<<cell'[c].pid, cell'[c].addr>> : c \in Walked}]
  /\ UNCHANGED <<first, libVars, children, main, kid, sigchld, newest, raced,
                 forksLeft, cbLeft>>

(* Without regions the checkpoint callback returns at once.  A list that   *)
(* does not end is walked for ever.                                        *)
cr_mm_exclusion_checkpoint_cb ==
  /\ cb.pc = "regions" /\ cb.kind = "chkpt"
  /\ IF first = NULL THEN cb' = NoCb /\ UNCHANGED cell
     ELSE /\ WalkEnds
          /\ cell' = [c \in Cells |-> IF c \in Walked
                                      THEN [cell[c] EXCEPT !.pid = "self"] ELSE cell[c]]
          /\ cb' = [cb EXCEPT !.pc = "children", !.left = children,
                      !.seen = {<<"self", cell[c].addr>> : c \in Walked}]
  /\ UNCHANGED <<first, libVars, children, main, kid, sigchld, newest, raced,
                 forksLeft, cbLeft>>

cr_mm_exclusion_restart_cb ==
  /\ cb.pc = "regions" /\ cb.kind = "rst" /\ WalkEnds
  /\ cb' = [cb EXCEPT !.pc = "children", !.left = children,
              !.seen = {<<"self", cell[c].addr>> : c \in Walked}]
  /\ UNCHANGED <<regionVars, libVars, children, main, kid, sigchld, newest, raced,
                 forksLeft, cbLeft>>

(* The next child.  One without userdata, because it has died, is passed   *)
(* over; cr_execute_restart_callbacks only sends the signal.               *)
Reachable(k) == k \in Kids /\ kid[k] \in {"alive", "stopped", "resumed"}

TellChild ==
  /\ cb.pc = "children" /\ cb.left # <<>>
  /\ IF Head(cb.left) = "wild" THEN cb' = NoCb /\ main' = Crashed
     ELSE /\ cb' = IF cb.kind = "chkpt" /\ Reachable(Head(cb.left))
                   THEN [cb EXCEPT !.pc = "answer"] ELSE [cb EXCEPT !.left = Tail(@)]
          /\ UNCHANGED main
  /\ UNCHANGED <<regionVars, libVars, children, kid, sigchld, newest, raced,
                 forksLeft, cbLeft>>

(* cr_execute_chkpt_callbacks waits for the answer, which a child that is  *)
(* stopped, or dies meanwhile, does not give.                              *)
ChildAnswers ==
  /\ cb.pc = "answer" /\ kid[Head(cb.left)] \in {"alive", "resumed"}
  /\ cb' = [cb EXCEPT !.pc = "children", !.left = Tail(@)]
  /\ UNCHANGED <<regionVars, libVars, children, main, kid, sigchld, newest, raced,
                 forksLeft, cbLeft>>

CallbackEnds ==
  /\ cb.pc = "children" /\ cb.left = <<>>
  /\ cb' = NoCb
  /\ UNCHANGED <<regionVars, libVars, children, main, kid, sigchld, newest, raced,
                 forksLeft, cbLeft>>

(* The destructor, after which the process ends: first keeps its value.    *)
cr_mm_exclusion_exit ==
  /\ Calls
  /\ \/ /\ WalkEnds /\ main' = IF Wild(children) THEN Crashed ELSE [InApp EXCEPT !.pc = "exited"]
        /\ cell' = [c \in Cells |-> IF c \in Walked THEN FreeCell ELSE cell[c]]
        /\ children' = <<>> /\ newest' = "none" /\ excluded' = {}
     \/ ~WalkEnds /\ Spin /\ UNCHANGED <<cell, children, newest, excluded>>
  /\ UNCHANGED <<first, initialized, registered, spoilt, cb, kid, sigchld, raced,
                 forksLeft, cbLeft>>

Next ==
  \/ \E a \in Addrs : cr_exclude_on(a) \/ cr_exclude_off(a)
  \/ cr_mm_exclusion_init \/ cr_mm_exclusion_exit
  \/ ForkParent \/ parent_after_fork \/ add_child \/ LinkChild \/ FirstChild
  \/ child_after_fork
  \/ \E k \in Kids : ChildWrites(k) \/ ChildChanges(k)
  \/ handle_sigchild
  \/ \E kind \in {"chkpt", "rst"} : CallbackStarts(kind)
  \/ cr_mm_exclusion_checkpoint_cb \/ cr_mm_exclusion_restart_cb
  \/ TellChild \/ ChildAnswers \/ CallbackEnds

Spec == Init /\ [][Next]_vars

-----------------------------------------------------------------------------
(* Types of the heap, of the lists and of the two activities.              *)
TypeOK ==
  /\ cell \in [Cells -> [used : BOOLEAN, addr : Addrs \cup {"junk"},
                         pid : {"none", "parent", "self"}, next : Cells \cup {NULL}]]
  /\ first \in Cells \cup {NULL} /\ children \in Seq(Kids \cup {"junk", "wild"})
  /\ initialized \in BOOLEAN /\ registered \subseteq {"chkpt", "rst"}
  /\ main.pc \in {"app", "init", "read", "add_child", "next", "first_child", "spin",
                  "exited", "crashed"}
  /\ cb.pc \in {"off", "regions", "children", "answer"}
  /\ kid \in [Kids -> {"unborn", "forked", "held", "lost", "alive", "resumed", "dead",
                       "stopped", "not mine"}]
  /\ sigchld \in Kids \cup {"none"} /\ excluded \subseteq Addrs
  /\ spoilt \in BOOLEAN /\ raced \in BOOLEAN

(* The list holds exactly the regions that are excluded, each once, ends,  *)
(* and leads to no freed region, whatever regions come and go: until       *)
(* malloc has left something in the next of a region that is linked, or an *)
(* initialisation that failed has freed one.                               *)
RegionsListed ==
  Runs /\ ~spoilt =>
  /\ WalkEnds
  /\ \A c \in Walked : cell[c].used
  /\ \A a \in Addrs : Cardinality({c \in Walked : cell[c].addr = a})
                        = IF a \in excluded THEN 1 ELSE 0

(* The regions a checkpoint callback gives to the kernel, in the middle of *)
(* any call of the library and after any fork, have the pid of this        *)
(* process ("update pid is needed in case of fork"), even when the list is *)
(* spoilt; and when it is not they are the excluded ones.                  *)
HandedOver ==
  cb.pc \in {"children", "answer"} =>
    /\ \A s \in cb.seen : s[1] = "self"
    /\ ~spoilt => cb.seen = {"self"} \X excluded

(* Of the pids its fork handler has read, a process passes the callbacks   *)
(* on to its own children's only, never to its siblings.                   *)
OwnChildrenOnly ==
  \A k \in Kids : kid[k] = "not mine" =>
    /\ \A i \in DOMAIN children : children[i] # k
    /\ \A i \in DOMAIN cb.left : cb.left[i] # k

(* The last child that add_child was given the pid of is in the list as    *)
(* long as it runs and has never been stopped, however the signals of      *)
(* other children interrupt add_child; one that has been stopped, and      *)
(* continued, is not, since handle_sigchild has removed it.                *)
NewestListed ==
  newest # "none" /\ kid[newest] = "alive" => \E i \in DOMAIN children : children[i] = newest

(* The list of children leads into freed memory, and a walk of it crashes, *)
(* only when SIGCHLD has taken the first child away just between the test  *)
(* of add_child and its dereference.                                       *)
ChildrenWalkable == ~raced => main.pc # "crashed" /\ ~Wild(children)
=============================================================================
