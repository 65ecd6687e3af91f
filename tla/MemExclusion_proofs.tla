------------------------ MODULE MemExclusion_proofs -------------------------
(***************************************************************************)
(* Proofs about libkrgcheckpoint: that the callbacks go to the process's   *)
(* own children, that the list of children is never walked into freed      *)
(* memory but for one race, and that the list of regions holds what is     *)
(* excluded, and a checkpoint is told exactly that, until malloc or a      *)
(* failed initialisation has spoilt it.  The list of regions is followed   *)
(* through a function f from positions to cells that names them in order.  *)
(***************************************************************************)
EXTENDS MemExclusion, Induction, FiniteSetTheorems, SequenceTheorems

(* Where a process is in the library: the pid its fork handler has read is *)
(* its new child's or none at all, and add_child's list begins with it.    *)
Pids == Kids \cup {"junk", "wild"}
KidStates == {"unborn", "forked", "held", "lost", "alive", "resumed", "dead", "stopped",
              "not mine"}
MainTypes ==
  [pc : {"app", "init", "read", "add_child", "next", "first_child", "spin", "exited",
         "crashed"},
   cell : Cells \cup {NULL}, child : Kids \cup {"none"}, pid : Kids \cup {"none", "junk"},
   list : Seq(Pids)]
CbTypes ==
  [pc : {"off", "regions", "children", "answer"}, kind : {"none", "chkpt", "rst"},
   left : Seq(Pids), seen : SUBSET ({"self"} \X (Addrs \cup {"junk"}))]

(* A child that has died, or has been stopped once.                        *)
Gone(k) == kid[k] \in {"lost", "held", "dead", "stopped", "resumed"}
NotMine(s) == \E i \in DOMAIN s : s[i] \in Kids /\ kid[s[i]] = "not mine"

Forking ==
  main.pc \in {"read", "add_child", "next", "first_child"} =>
    /\ main.child \in Kids /\ kid[main.child] \notin {"unborn", "not mine"}
    /\ main.pid \in {main.child, "junk"}
Adding ==
  /\ main.pc \in {"next", "first_child"} => main.list # <<>> /\ ~NotMine(main.list)
  /\ main.pc = "first_child" => main.list[1] = main.pid

TypeInv ==
  /\ TypeOK /\ main \in MainTypes /\ cb \in CbTypes
  /\ newest \in Kids \cup {"none"}
  /\ cb.pc = "off" => cb = NoCb
  /\ cb.pc # "off" => Runs
  /\ cb.pc = "answer" => cb.left # <<>>
ChildrenInv ==
  /\ Forking /\ Adding /\ ~NotMine(children) /\ ~NotMine(cb.left)
  /\ sigchld # "none" => Gone(sigchld)
  /\ newest # "none" => Gone(newest) \/ \E i \in DOMAIN children : children[i] = newest

(* Unless SIGCHLD has come between add_child's test and its dereference,   *)
(* no list leads into freed memory, and the first child is the one tested. *)
WalkInv ==
  ~raced =>
    /\ main.pc # "crashed"
    /\ ~Wild(children) /\ ~Wild(main.list) /\ ~Wild(cb.left)
    /\ main.pc = "next" => children # <<>> /\ children[1] = main.list[1]

(* The regions f[1] .. f[n], in this order, are the list; they are the     *)
(* ones that are excluded, each once.                                      *)
Linked(f, n) ==
  /\ f \in [1 .. n -> Cells]
  /\ first = IF n = 0 THEN NULL ELSE f[1]
  /\ \A i \in 1 .. n : cell[f[i]].next = IF i = n THEN NULL ELSE f[i + 1]
Listed(f, n) ==
  /\ \A i \in 1 .. n : cell[f[i]].used
  /\ \A i, j \in 1 .. n : cell[f[i]].addr = cell[f[j]].addr => i = j
  /\ excluded = {cell[f[i]].addr : i \in 1 .. n}
IsList(f, n) == Linked(f, n) /\ Listed(f, n)
RegionsInv ==
  Runs /\ ~spoilt =>
    main.pc # "spin" /\ \E n \in Nat : \E f \in [1 .. n -> Cells] : IsList(f, n)

-----------------------------------------------------------------------------
(* The walk of the list.                                                   *)

(* The heap has finitely many cells, and none of them is NULL.             *)
LEMMA CellsFinite ==
  NCells \in Nat /\ NULL \notin Cells
BY FS_CardinalityType, ExclusionAssumption DEF NCells
Ptrs == Cells \cup {NULL}
Follow(x) == IF x = NULL THEN NULL ELSE cell[x].next
Walks(f) == f = [k \in 1 .. NCells + 1 |->
                   IF k = 1 THEN first ELSE IF f[k - 1] = NULL THEN NULL ELSE cell[f[k - 1]].next]

(* A pointer followed leads to a cell or nowhere.                          *)
LEMMA FollowType ==
  ASSUME TypeOK PROVE \A x \in Ptrs : Follow(x) \in Ptrs
BY DEF TypeOK, Follow, Ptrs

(* There is a function with next_region's recursion.                       *)
LEMMA WalkExists ==
  ASSUME TypeOK PROVE \E f : Walks(f)
<1> DEFINE body == [k \in 1 .. NCells |-> [t \in Ptrs |-> Follow(t)]]
<1>1. body \in [1 .. NCells -> [Ptrs -> Ptrs]]
  BY FollowType
<1>2. NCells \in Nat /\ first \in Ptrs
  BY CellsFinite DEF TypeOK, Ptrs
<1> HIDE DEF body
<1>3. PICK g \in [0 .. NCells -> Ptrs] : Iterates(g, NCells, first, body)
  BY <1>1, <1>2, IterationExists
<1> DEFINE f == [k \in 1 .. NCells + 1 |-> g[k - 1]]
<1>4. ASSUME NEW k \in 1 .. NCells + 1
      PROVE  f[k] = IF k = 1 THEN first ELSE Follow(f[k - 1])
  <2>1. CASE k = 1
    BY <1>2, <1>3, <2>1 DEF Iterates
  <2>2. CASE k # 1
    <3>1. k - 1 \in 1 .. NCells /\ k - 1 - 1 \in 0 .. NCells /\ k - 1 \in 1 .. NCells + 1
      BY <1>2, <2>2
    <3>2. f[k] = g[k - 1] /\ f[k - 1] = g[k - 1 - 1]
      BY <3>1
    <3>3. g[k - 1] = body[k - 1][g[k - 1 - 1]] /\ g[k - 1 - 1] \in Ptrs
      BY <1>3, <3>1 DEF Iterates
    <3> QED
      BY <2>2, <3>1, <3>2, <3>3 DEF body
  <2> QED
    BY <2>1, <2>2
<1>5. f = [k \in 1 .. NCells + 1 |-> f[k]]
  OBVIOUS
<1> HIDE DEF f
<1>6. Walks(f)
  BY <1>4, <1>5 DEF Walks, Follow
<1> QED
  BY <1>6

(* Nth obeys that recursion.                                               *)
LEMMA NthTurns ==
  ASSUME TypeOK
  PROVE  /\ Nth[1] = first
         /\ \A k \in 1 .. NCells : Nth[k + 1] = Follow(Nth[k])
<1> DEFINE g == CHOOSE f : Walks(f)
<1>1. Walks(g)
  BY WalkExists, Zenon
<1>2. Nth = g
  BY DEF Nth, Walks
<1> HIDE DEF g
<1>3. NCells \in Nat
  BY CellsFinite
<1>4. \A k \in 1 .. NCells + 1 : g[k] = IF k = 1 THEN first ELSE Follow(g[k - 1])
  BY <1>1, Zenon DEF Walks, Follow
<1>5. g[1] = first
  BY <1>3, <1>4
<1>6. ASSUME NEW k \in 1 .. NCells PROVE g[k + 1] = Follow(g[k])
  <2>1. k + 1 \in 1 .. NCells + 1 /\ k + 1 # 1 /\ (k + 1) - 1 = k
    BY <1>3
  <2> QED
    BY <1>4, <2>1
<1> QED
  BY <1>2, <1>5, <1>6

(* The walk visits cells only.                                             *)
LEMMA NthType ==
  ASSUME TypeOK
  PROVE  (\A k \in 1 .. NCells + 1 : Nth[k] \in Ptrs) /\ Walked \subseteq Cells
<1> DEFINE S == {k \in Nat : k < NCells + 1 => Nth[k + 1] \in Ptrs}
<1>0. NCells \in Nat /\ first \in Ptrs
  BY CellsFinite DEF TypeOK, Ptrs
<1>1. 0 \in S
  BY <1>0, NthTurns
<1>2. ASSUME NEW k \in Nat, k \in S PROVE k + 1 \in S
  <2> SUFFICES ASSUME k + 1 < NCells + 1 PROVE Nth[k + 1 + 1] \in Ptrs
    OBVIOUS
  <2>1. Nth[k + 1] \in Ptrs /\ k + 1 \in 1 .. NCells
    BY <1>0, <1>2
  <2> QED
    BY <2>1, NthTurns, FollowType
<1>3. Nat \subseteq S
  <2> HIDE DEF S
  <2> QED
    BY <1>1, <1>2, SetInduction
<1>4. ASSUME NEW k \in 1 .. NCells + 1 PROVE Nth[k] \in Ptrs
  <2>1. k - 1 \in Nat /\ k - 1 < NCells + 1 /\ (k - 1) + 1 = k
    BY <1>0
  <2>2. k - 1 \in S
    BY <1>3, <2>1
  <2> QED
    BY <2>1, <2>2
<1> QED
  BY <1>4 DEF Walked, Ptrs

-----------------------------------------------------------------------------
(* Types.                                                                  *)
CellTypes == [used : BOOLEAN, addr : Addrs \cup {"junk"},
              pid : {"none", "parent", "self"}, next : Ptrs]

(* What a process is at rest, and between the steps of its fork.           *)
LEMMA MainValues ==
  /\ InApp \in MainTypes
  /\ NoCb \in CbTypes
  /\ Crashed \in MainTypes /\ Crashed.pc = "crashed"
  /\ \A p \in {"init", "spin", "exited"}, c \in Ptrs :
       [InApp EXCEPT !.pc = p, !.cell = c] \in MainTypes
  /\ \A p \in {"init", "spin", "exited"} : [InApp EXCEPT !.pc = p] \in MainTypes
  /\ \A k \in Kids : [InApp EXCEPT !.pc = "read", !.child = k, !.pid = k] \in MainTypes
<1>1. <<>> \in Seq(Pids)
  BY DEF Pids
<1> QED
  BY <1>1 DEF InApp, Crashed, NoCb, MainTypes, CbTypes, Ptrs

(* A cell of the heap replaced, or a field of one.                         *)
LEMMA HeapValues ==
  ASSUME NEW heap \in [Cells -> CellTypes]
  PROVE  /\ \A x : Freed(heap, x) \in [Cells -> CellTypes]
         /\ \A x : \A y \in CellTypes : [heap EXCEPT ![x] = y] \in [Cells -> CellTypes]
         /\ \A x : \A p \in Ptrs : [heap EXCEPT ![x].next = p] \in [Cells -> CellTypes]
BY ZenonT(30) DEF Freed, CellTypes

(* cr_exclude_on keeps the types.                                          *)
LEMMA OnTypes ==
  ASSUME TypeInv, NEW a \in Addrs, cr_exclude_on(a) PROVE TypeInv'
<1> USE DEF TypeInv
<1> DEFINE new(p) == [used |-> TRUE, addr |-> a, pid |-> "none", next |-> p]
           last == CHOOSE x \in Walked : cell[x].next = NULL
<1>0. cell \in [Cells -> CellTypes] /\ first \in Ptrs /\ \A p \in Ptrs : new(p) \in CellTypes
  BY DEF TypeOK, CellTypes, Ptrs
<1>1. PICK c \in Cells : \E p \in Leftover(c) :
        \/ cell' = [cell EXCEPT ![c].next = p] /\ UNCHANGED <<first, main, excluded, spoilt>>
        \/ Spin /\ UNCHANGED <<regionVars, excluded, spoilt>>
        \/ /\ (cell' = [cell EXCEPT ![c] = new(p)] \/ cell' = [cell EXCEPT ![c] = new(p), ![last].next = c])
           /\ (first' = first \/ first' = c)
           /\ main' = [InApp EXCEPT !.pc = "init", !.cell = c]
           /\ excluded' = excluded \cup {a} /\ spoilt' = (spoilt \/ p # NULL)
  BY ZenonT(30) DEF cr_exclude_on
<1>a. PICK p \in Leftover(c) :
        \/ cell' = [cell EXCEPT ![c].next = p] /\ UNCHANGED <<first, main, excluded, spoilt>>
        \/ Spin /\ UNCHANGED <<regionVars, excluded, spoilt>>
        \/ /\ (cell' = [cell EXCEPT ![c] = new(p)] \/ cell' = [cell EXCEPT ![c] = new(p), ![last].next = c])
           /\ (first' = first \/ first' = c)
           /\ main' = [InApp EXCEPT !.pc = "init", !.cell = c]
           /\ excluded' = excluded \cup {a} /\ spoilt' = (spoilt \/ p # NULL)
  BY <1>1, Zenon
<1> HIDE DEF last
<1>b. p \in Ptrs
  BY <1>0 DEF Leftover, Ptrs, CellTypes
<1>2. c \in Ptrs /\ new(p) \in CellTypes
  BY <1>0, <1>b DEF Ptrs
<1> HIDE DEF new
<1> DEFINE h == [cell EXCEPT ![c] = new(p)]
<1>3. h \in [Cells -> CellTypes]
  BY <1>0, <1>2
<1> HIDE DEF h
<1>4. /\ [h EXCEPT ![last].next = c] \in [Cells -> CellTypes]
      /\ [cell EXCEPT ![c].next = p] \in [Cells -> CellTypes]
  BY <1>0, <1>b, <1>2, <1>3, HeapValues
<1>5. [cell EXCEPT ![c] = new(p), ![last].next = c] = [h EXCEPT ![last].next = c]
  BY DEF h
<1>6. cell' \in [Cells -> CellTypes] /\ first' \in Ptrs /\ excluded' \subseteq Addrs
  <2>1. \/ cell' = cell \/ cell' = h \/ cell' = [h EXCEPT ![last].next = c]
        \/ cell' = [cell EXCEPT ![c].next = p]
    BY <1>a, <1>5, Zenon DEF h, regionVars
  <2>2. first' = first \/ first' = c
    BY <1>a, Zenon DEF regionVars
  <2>3. excluded' = excluded \/ excluded' = excluded \cup {a}
    BY <1>a, Zenon
  <2> QED
    BY <1>0, <1>2, <1>3, <1>4, <2>1, <2>2, <2>3 DEF TypeOK
<1>7. main' \in MainTypes /\ Runs'
  <2>1. main' = main \/ main' = [InApp EXCEPT !.pc = "spin"] \/ main' = [InApp EXCEPT !.pc = "init", !.cell = c]
    BY <1>a, Zenon DEF Spin
  <2> QED
    BY <1>2, <2>1, MainValues DEF cr_exclude_on, Calls, InApp, Runs
<1>8. spoilt' \in BOOLEAN
  <2>1. spoilt' = spoilt \/ spoilt' = (spoilt \/ p # NULL)
    BY <1>a, Zenon
  <2> QED
    BY <2>1, Zenon DEF TypeOK
<1>9. UNCHANGED <<children, initialized, registered, cb, kid, sigchld, newest, raced>>
  BY DEF cr_exclude_on, Rest
<1> QED
  BY <1>6, <1>7, <1>8, <1>9 DEF TypeOK, CellTypes, Ptrs, MainTypes, CbTypes

(* So does cr_exclude_off ...                                              *)
LEMMA OffTypes ==
  ASSUME TypeInv, NEW a \in Addrs, cr_exclude_off(a) PROVE TypeInv'
<1> USE DEF TypeInv
<1>0. NCells \in Nat
  BY CellsFinite
<1>1. cell \in [Cells -> CellTypes] /\ first \in Ptrs
  BY DEF TypeOK, CellTypes, Ptrs
<1>2. cell' \in [Cells -> CellTypes] /\ first' \in Ptrs /\ excluded' \subseteq excluded
  <2>1. CASE UNCHANGED <<regionVars, excluded>>
    BY <1>1, <2>1 DEF regionVars
  <2>2. ASSUME NEW k \in 1 .. NCells, Nth[k] # NULL, excluded' = excluded \ {a},
               IF k = 1
               THEN first' = cell[Nth[k]].next /\ cell' = Freed(cell, Nth[k])
               ELSE /\ cell' = Freed([cell EXCEPT ![Nth[k - 1]].next = cell[Nth[k]].next], Nth[k])
                    /\ UNCHANGED first
        PROVE  cell' \in [Cells -> CellTypes] /\ first' \in Ptrs /\ excluded' \subseteq excluded
    <3>1. Nth[k] \in Cells
      BY <1>0, <2>2, NthType DEF Ptrs
    <3>2. cell[Nth[k]].next \in Ptrs
      BY <1>1, <3>1 DEF CellTypes
    <3> DEFINE h == [cell EXCEPT ![Nth[k - 1]].next = cell[Nth[k]].next]
    <3>3. h \in [Cells -> CellTypes]
      BY <1>1, <3>2, HeapValues
    <3> HIDE DEF h
    <3>4. CASE k = 1
      BY <1>1, <2>2, <3>2, <3>4, HeapValues
    <3>5. CASE k # 1
      <4>1. cell' = Freed(h, Nth[k])
        BY <2>2, <3>5, Zenon DEF h
      <4> QED
        BY <1>1, <2>2, <3>3, <3>5, <4>1, HeapValues
    <3> QED
      BY <3>4, <3>5
  <2> QED
    BY <2>1, <2>2 DEF cr_exclude_off
<1>3. main' \in MainTypes /\ Runs'
  BY MainValues DEF Spin, cr_exclude_off, Calls, InApp, Runs
<1>4. UNCHANGED <<children, initialized, registered, cb, kid, sigchld, newest, raced, spoilt>>
  BY DEF cr_exclude_off, Rest
<1> QED
  BY <1>2, <1>3, <1>4 DEF TypeOK, CellTypes, Ptrs, MainTypes, CbTypes

(* ... the initialisation, which may free a region, and the destructor.    *)
LEMMA InitTypes ==
  ASSUME TypeInv, cr_mm_exclusion_init \/ cr_mm_exclusion_exit PROVE TypeInv'
<1> USE DEF TypeInv
<1>1. cell \in [Cells -> CellTypes] /\ FreeCell \in CellTypes
  BY DEF TypeOK, CellTypes, Ptrs, FreeCell
<1>2. CASE cr_mm_exclusion_init
  <2>1. cell' \in [Cells -> CellTypes]
    BY <1>1, <1>2, HeapValues DEF cr_mm_exclusion_init
  <2>2. main' \in MainTypes /\ Runs'
    BY <1>2, MainValues DEF cr_mm_exclusion_init, InApp, Runs
  <2>3. registered' \subseteq {"chkpt", "rst"} /\ excluded' \subseteq Addrs
    BY <1>2 DEF cr_mm_exclusion_init, TypeOK
  <2>4. initialized' \in BOOLEAN /\ spoilt' \in BOOLEAN
    BY <1>2, Zenon DEF cr_mm_exclusion_init, TypeOK
  <2>5. UNCHANGED <<first, children, cb, kid, sigchld, newest, raced>>
    BY <1>2 DEF cr_mm_exclusion_init, Rest
  <2> QED
    BY <2>1, <2>2, <2>3, <2>4, <2>5 DEF TypeOK, CellTypes, Ptrs, MainTypes, CbTypes
<1>3. CASE cr_mm_exclusion_exit
  <2>1. cell' \in [Cells -> CellTypes]
    BY <1>1, <1>3 DEF cr_mm_exclusion_exit
  <2>2. main' \in MainTypes
    BY <1>3, MainValues DEF cr_mm_exclusion_exit, Spin
  <2>3. children' \in Seq(Pids) /\ newest' \in Kids \cup {"none"} /\ excluded' \subseteq Addrs
    <3>1. <<>> \in Seq(Pids)
      BY DEF Pids
    <3> QED
      BY <1>3, <3>1 DEF cr_mm_exclusion_exit, TypeOK, Pids
  <2>4. UNCHANGED <<first, initialized, registered, cb, kid, sigchld, raced, spoilt>> /\ cb.pc = "off"
    BY <1>3 DEF cr_mm_exclusion_exit, Calls
  <2> QED
    BY <2>1, <2>2, <2>3, <2>4 DEF TypeOK, CellTypes, Ptrs, MainTypes, CbTypes, Pids
<1> QED
  BY <1>2, <1>3

(* remove_child leaves every other child in the list, and adds none.       *)
LEMMA Removed ==
  ASSUME NEW S, children \in Seq(S), NEW p, remove_child(p)
  PROVE  /\ children' \in Seq(S)
         /\ \A i \in DOMAIN children' : \E j \in DOMAIN children : children'[i] = children[j]
         /\ \A i \in DOMAIN children :
              children[i] # p => \E j \in DOMAIN children' : children'[j] = children[i]
         /\ children # <<>> /\ children[1] # p => children' # <<>> /\ children'[1] = children[1]
<1>1. CASE UNCHANGED children
  BY <1>1, Zenon
<1>2. ASSUME NEW i \in DOMAIN children, children[i] = p,
             children' = SubSeq(children, 1, i - 1) \o SubSeq(children, i + 1, Len(children))
      PROVE  /\ children' \in Seq(S)
             /\ \A m \in DOMAIN children' : \E j \in DOMAIN children : children'[m] = children[j]
             /\ \A m \in DOMAIN children :
                  children[m] # p => \E j \in DOMAIN children' : children'[j] = children[m]
             /\ children # <<>> /\ children[1] # p => children' # <<>> /\ children'[1] = children[1]
  <2> DEFINE n == Len(children)
             u == SubSeq(children, 1, i - 1)
             v == SubSeq(children, i + 1, Len(children))
  <2>1. n \in Nat /\ DOMAIN children = 1 .. n /\ i \in 1 .. n
    BY <1>2
  <2>2. u \in Seq(S) /\ Len(u) = i - 1 /\ \A m \in 1 .. i - 1 : u[m] = children[m]
    BY <2>1
  <2>3. v \in Seq(S) /\ Len(v) = n - i /\ \A m \in 1 .. n - i : v[m] = children[i + m]
    BY <2>1
  <2> HIDE DEF n, u, v
  <2>4. /\ children' \in Seq(S) /\ DOMAIN children' = 1 .. n - 1
        /\ \A m \in 1 .. n - 1 : children'[m] = IF m <= i - 1 THEN u[m] ELSE v[m - (i - 1)]
    <3>1. children' = u \o v
      BY <1>2 DEF u, v
    <3>2. u \o v \in Seq(S) /\ Len(u \o v) = Len(u) + Len(v)
      <4>1. u \in Seq(S) /\ v \in Seq(S)
        BY <2>2, <2>3
      <4> QED
        BY <4>1, ConcatProperties
    <3>4. Len(u \o v) = n - 1
      BY <2>1, <2>2, <2>3, <3>2
    <3>3. \A m \in 1 .. n - 1 : (u \o v)[m] = IF m <= i - 1 THEN u[m] ELSE v[m - (i - 1)]
      BY <2>1, <2>2, <2>3
    <3> QED
      BY <3>1, <3>2, <3>3, <3>4
  <2>5. \A m \in 1 .. n - 1 : children'[m] = IF m < i THEN children[m] ELSE children[m + 1]
    <3> TAKE m \in 1 .. n - 1
    <3>1. CASE m < i
      BY <2>1, <2>2, <2>4, <3>1
    <3>2. CASE ~(m < i)
      <4>1. m - (i - 1) \in 1 .. n - i /\ i + (m - (i - 1)) = m + 1
        BY <2>1, <3>2
      <4> QED
        BY <2>1, <2>3, <2>4, <3>2, <4>1, SMTT(30)
    <3> QED
      BY <3>1, <3>2
  <2>6. ASSUME NEW m \in DOMAIN children'
        PROVE  \E j \in DOMAIN children : children'[m] = children[j]
    <3>1. m \in 1 .. n /\ m + 1 \in 1 .. n /\ m \in 1 .. n - 1
      BY <2>1, <2>4
    <3> QED
      BY <2>1, <2>5, <3>1
  <2>7. ASSUME NEW m \in DOMAIN children, children[m] # p
        PROVE  \E j \in DOMAIN children' : children'[j] = children[m]
    <3>1. CASE m < i
      <4>1. m \in 1 .. n - 1
        BY <2>1, <3>1
      <4> QED
        BY <2>4, <2>5, <3>1, <4>1
    <3>2. CASE ~(m < i)
      <4>1. m - 1 \in 1 .. n - 1 /\ ~(m - 1 < i) /\ (m - 1) + 1 = m
        BY <1>2, <2>1, <2>7, <3>2
      <4> QED
        BY <2>4, <2>5, <4>1
    <3> QED
      BY <3>1, <3>2
  <2>8. ASSUME children # <<>>, children[1] # p
        PROVE  children' # <<>> /\ children'[1] = children[1]
    <3>1. 1 < i /\ 1 \in 1 .. n - 1
      BY <1>2, <2>1, <2>8
    <3>2. children'[1] = children[1] /\ 1 \in DOMAIN children'
      BY <2>4, <2>5, <3>1
    <3> QED
      BY <3>2
  <2> QED
    BY <2>4, <2>6, <2>7, <2>8
<1> QED
  BY <1>1, <1>2, Zenon DEF remove_child

(* What add_child links to the new element: the rest of the list.          *)
LEMMA NewList ==
  ASSUME NEW s \in Seq(Pids), s # <<>>, NEW p \in Pids
  PROVE  /\ <<p>> \o Tail(s) \in Seq(Pids)
         /\ <<p>> \o Tail(s) # <<>> /\ (<<p>> \o Tail(s))[1] = p
         /\ \A i \in DOMAIN (<<p>> \o Tail(s)) :
              (<<p>> \o Tail(s))[i] = p \/ \E j \in DOMAIN s : (<<p>> \o Tail(s))[i] = s[j]
<1> DEFINE t == Tail(s)
           u == <<p>>
           l == u \o t
<1>1. t \in Seq(Pids) /\ \A i \in 1 .. Len(t) : t[i] = s[i + 1] /\ i + 1 \in DOMAIN s
  OBVIOUS
<1>2. u \in Seq(Pids) /\ Len(u) = 1 /\ u[1] = p
  OBVIOUS
<1>a. l = u \o t
  OBVIOUS
<1> HIDE DEF t, u, l
<1>b. u \in Seq(Pids) /\ t \in Seq(Pids) /\ Len(u) = 1
  BY <1>1, <1>2
<1>c. /\ u \o t \in Seq(Pids) /\ Len(u \o t) = Len(u) + Len(t)
      /\ \A i \in 1 .. Len(u) + Len(t) :
           (u \o t)[i] = IF i <= Len(u) THEN u[i] ELSE t[i - Len(u)]
  BY <1>b, ConcatProperties, Zenon
<1>3. /\ l \in Seq(Pids) /\ Len(l) = 1 + Len(t)
      /\ \A i \in 1 .. 1 + Len(t) : l[i] = IF i <= 1 THEN u[i] ELSE t[i - 1]
  BY <1>a, <1>b, <1>c, Zenon
<1>4. Len(t) \in Nat /\ DOMAIN l = 1 .. 1 + Len(t)
  BY <1>1, <1>3
<1>5. l[1] = p /\ l # <<>>
  BY <1>2, <1>3, <1>4
<1>6. ASSUME NEW i \in DOMAIN l PROVE l[i] = p \/ \E j \in DOMAIN s : l[i] = s[j]
  <2>1. CASE i = 1
    BY <1>5, <2>1
  <2>2. CASE i # 1
    <3>1. i - 1 \in 1 .. Len(t) /\ l[i] = t[i - 1]
      BY <1>3, <1>4, <2>2
    <3> QED
      BY <1>1, <3>1
  <2> QED
    BY <2>1, <2>2
<1>7. l \in Seq(Pids) /\ l # <<>> /\ l[1] = p
      /\ \A i \in DOMAIN l : l[i] = p \/ \E j \in DOMAIN s : l[i] = s[j]
  BY <1>3, <1>5, <1>6
<1> QED
  BY <1>7 DEF l, t, u

(* The two halves of add_child: the element that was tested, or the one    *)
(* there is now, is followed.                                              *)
LEMMA AddSteps ==
  ASSUME TypeInv, Forking
  PROVE  /\ add_child =>
              \/ main' = InApp
              \/ children = <<>> /\ main' = [main EXCEPT !.pc = "first_child", !.list = <<main.pid>>]
              \/ children # <<>> /\ main' = [main EXCEPT !.pc = "next", !.list = children]
         /\ LinkChild =>
              \/ main' = Crashed
              \/ \E s \in {main.list, children} :
                   s # <<>> /\ main' = [main EXCEPT !.pc = "first_child", !.list = <<main.pid>> \o Tail(s)]
         /\ add_child \/ LinkChild => main.pid \in Kids \cup {"junk"}
<1>1. add_child =>
              \/ main' = InApp
              \/ children = <<>> /\ main' = [main EXCEPT !.pc = "first_child", !.list = <<main.pid>>]
              \/ children # <<>> /\ main' = [main EXCEPT !.pc = "next", !.list = children]
  BY Zenon DEF add_child
<1>2. LinkChild =>
              \/ main' = Crashed
              \/ \E s \in {main.list, children} :
                   s # <<>> /\ main' = [main EXCEPT !.pc = "first_child", !.list = <<main.pid>> \o Tail(s)]
  BY Zenon DEF LinkChild
<1>3. add_child \/ LinkChild => main.pid \in Kids \cup {"junk"}
  BY DEF add_child, LinkChild, Forking
<1> QED
  BY <1>1, <1>2, <1>3, Zenon

(* The fork and its handlers keep the types ...                            *)
LEMMA ForkTypes ==
  ASSUME TypeInv, Forking,
         \/ ForkParent \/ parent_after_fork \/ add_child \/ LinkChild \/ FirstChild
         \/ child_after_fork
  PROVE  TypeInv'
<1> USE DEF TypeInv
<1> DEFINE Lists == Seq(Pids)
<1>a. <<>> \in Lists /\ \A p \in Pids : <<p>> \in Lists
  OBVIOUS
<1>0. <<>> \in Lists /\ children \in Lists /\ main.list \in Lists
  BY <1>a DEF TypeOK, MainTypes, Pids
<1>1. CASE ForkParent
  <2>1. main' \in MainTypes
    BY <1>1, MainValues, ZenonT(30) DEF ForkParent, Unborn
  <2>5. cb.pc = "off"
    BY <1>1 DEF ForkParent, Calls
  <2>2. kid' \in [Kids -> KidStates]
    BY <1>1 DEF TypeOK, ForkParent, KidStates
  <2>3. UNCHANGED <<regionVars, libVars, children, cb, sigchld, newest, raced>>
    BY <1>1 DEF ForkParent
  <2>4. TypeOK'
    BY <2>1, <2>2, <2>3 DEF TypeOK, regionVars, libVars, MainTypes, KidStates
  <2> QED
    BY <2>1, <2>3, <2>4, <2>5
<1>2. CASE parent_after_fork \/ add_child \/ LinkChild
  <2>1. UNCHANGED <<regionVars, libVars, children, cb, kid, sigchld, newest, raced>> /\ cb.pc = "off"
    BY <1>2 DEF parent_after_fork, add_child, LinkChild
  <2>2. main' \in MainTypes
    <3>1. CASE parent_after_fork
      BY <3>1 DEF parent_after_fork, MainTypes
    <3>2. CASE add_child \/ LinkChild
      <4>1. main.pid \in Pids
        BY <3>2, AddSteps, Zenon DEF Pids
      <4>2. \/ main' = InApp \/ main' = Crashed
            \/ \E l \in Lists : \E p \in {"first_child", "next"} : main' = [main EXCEPT !.pc = p, !.list = l]
        <5>1. <<main.pid>> \in Lists
          BY <1>a, <4>1
        <5>2. \A t \in {main.list, children} : t # <<>> => <<main.pid>> \o Tail(t) \in Lists
          BY <1>0, <4>1, NewList
        <5>3. CASE add_child
          BY <1>0, <5>1, <5>3, AddSteps, Zenon
        <5>4. CASE LinkChild
          BY <5>2, <5>4, AddSteps, Zenon
        <5> QED
          BY <3>2, <5>3, <5>4
      <4>3. \A l \in Lists : \A p \in {"first_child", "next"} : [main EXCEPT !.pc = p, !.list = l] \in MainTypes
        BY DEF MainTypes
      <4> QED
        BY <4>2, <4>3, MainValues, Zenon
    <3> QED
      BY <1>2, <3>1, <3>2
  <2>3. TypeOK'
    BY <2>1, <2>2 DEF TypeOK, regionVars, libVars, MainTypes
  <2> QED
    BY <2>1, <2>2, <2>3
<1>4. CASE FirstChild
  <2>1. newest' \in Kids \cup {"none"}
    BY <1>4 DEF FirstChild, Newest, MainTypes
  <2>2. main' \in MainTypes
    BY <1>4, MainValues DEF FirstChild
  <2>3. UNCHANGED <<regionVars, libVars, cb, kid, sigchld, raced>> /\ cb.pc = "off" /\ children' \in Lists
    BY <1>0, <1>4 DEF FirstChild
  <2>4. TypeOK'
    BY <2>2, <2>3 DEF TypeOK, regionVars, libVars, MainTypes, Pids
  <2> QED
    BY <2>1, <2>2, <2>3, <2>4
<1>5. CASE child_after_fork
  <2>1. cell' \in [Cells -> CellTypes]
    <3>1. ASSUME NEW c \in Cells
          PROVE  [cell[c] EXCEPT !.pid = IF @ = "self" THEN "parent" ELSE @] \in CellTypes
      <4>1. cell[c] \in CellTypes
        BY DEF TypeOK, CellTypes, Ptrs
      <4> QED
        BY <4>1 DEF CellTypes
    <3> QED
      BY <1>5, <3>1 DEF child_after_fork, ForkedChild
  <2>2. kid' \in [Kids -> KidStates]
    BY <1>5 DEF child_after_fork, ForkedChild, KidStates
  <2>3. children' = <<>> /\ sigchld' = "none" /\ newest' = "none" /\ cb.pc = "off"
        /\ UNCHANGED <<first, libVars, cb, raced>>
    BY <1>5 DEF child_after_fork, ForkedChild, Calls
  <2>5. main' \in MainTypes
    BY <1>5, MainValues DEF child_after_fork
  <2>6. children' \in Lists
    BY <1>0, <2>3
  <2>4. TypeOK'
    BY <2>1, <2>2, <2>3, <2>5, <2>6 DEF TypeOK, CellTypes, Ptrs, MainTypes, libVars, KidStates, Pids
  <2> QED
    BY <2>3, <2>4, <2>5
<1> QED
  BY <1>1, <1>2, <1>4, <1>5

(* The handler of SIGCHLD leaves the process where it is, makes it read no *)
(* pid, leaves the element that add_child holds freed, or ends in freed    *)
(* memory.                                                                 *)
LEMMA SigchldMain ==
  ASSUME handle_sigchild
  PROVE  \/ main' = Crashed \/ main' = main
         \/ main.pc = "read" /\ main' = [main EXCEPT !.pid = "junk"]
         \/ /\ main.pc = "next" /\ Head(main.list) = sigchld /\ raced'
            /\ main' = [main EXCEPT !.list = <<sigchld, "wild">>]
<1>1. CASE Interrupts
  BY <1>1, Zenon DEF Interrupts
<1>2. CASE ~Interrupts
  BY <1>2, Zenon DEF handle_sigchild
<1> QED
  BY <1>1, <1>2

(* ... as do what happens to the children and the signal's handler ...     *)
LEMMA ChildTypes ==
  ASSUME TypeInv,
         (\E k \in Kids : ChildWrites(k) \/ ChildChanges(k)) \/ handle_sigchild
  PROVE  TypeInv'
<1> USE DEF TypeInv
<1>1. ASSUME NEW k \in Kids, ChildWrites(k) \/ ChildChanges(k) PROVE TypeInv'
  <2>1. sigchld' \in Kids \cup {"none"}
    BY <1>1 DEF ChildWrites, ChildChanges, TypeOK
  <2>2. kid' \in [Kids -> KidStates]
    <3>1. \E s \in KidStates : kid' = [kid EXCEPT ![k] = s]
      <4>1. CASE ChildWrites(k)
        <5>1. \/ kid' = [kid EXCEPT ![k] = "dead"]
              \/ kid' = [kid EXCEPT ![k] = IF @ = "forked" THEN "alive" ELSE "resumed"]
          BY <4>1, Zenon DEF ChildWrites
        <5>2. \/ kid' = [kid EXCEPT ![k] = "dead"] \/ kid' = [kid EXCEPT ![k] = "alive"]
              \/ kid' = [kid EXCEPT ![k] = "resumed"]
          BY <5>1
        <5> QED
          BY <5>2, Zenon DEF KidStates
      <4>2. CASE ChildChanges(k)
        BY <4>2, Zenon DEF ChildChanges, KidStates
      <4> QED
        BY <1>1, <4>1, <4>2
    <3> QED
      BY <3>1 DEF TypeOK, KidStates
  <2>3. UNCHANGED <<regionVars, libVars, children, main, cb, newest, raced>>
    BY <1>1 DEF ChildWrites, ChildChanges
  <2>4. TypeOK'
    BY <2>1, <2>2, <2>3 DEF TypeOK, regionVars, libVars, KidStates
  <2> QED
    BY <2>3, <2>4 DEF Runs
<1>2. CASE handle_sigchild
  <2>1. children' \in Seq(Pids)
    BY <1>2, Removed DEF handle_sigchild, TypeOK, Pids
  <2>2. main' \in MainTypes
    <3>1. sigchld \in Kids
      BY <1>2 DEF handle_sigchild, TypeOK
    <3>2. <<sigchld, "wild">> \in Seq(Pids)
      BY <3>1 DEF Pids
    <3>3. /\ [main EXCEPT !.pid = "junk"] \in MainTypes
          /\ [main EXCEPT !.list = <<sigchld, "wild">>] \in MainTypes
      BY <3>2 DEF MainTypes
    <3> QED
      BY <1>2, <3>3, SigchldMain, MainValues, Zenon
  <2>3. UNCHANGED <<regionVars, libVars, cb, kid, newest>> /\ sigchld' = "none" /\ cb.pc = "off"
    BY <1>2 DEF handle_sigchild
  <2>4. raced' \in BOOLEAN
    BY <1>2, Zenon DEF handle_sigchild
  <2>5. TypeOK'
    BY <2>1, <2>2, <2>3, <2>4 DEF TypeOK, regionVars, libVars, MainTypes, Pids
  <2> QED
    BY <2>2, <2>3, <2>5
<1> QED
  BY <1>1, <1>2

(* ... and the callbacks.                                                  *)
LEMMA CallbackTypes ==
  ASSUME TypeInv,
         \/ \E kind \in {"chkpt", "rst"} : CallbackStarts(kind)
         \/ cr_mm_exclusion_checkpoint_cb \/ cr_mm_exclusion_restart_cb
         \/ TellChild \/ ChildAnswers \/ CallbackEnds
  PROVE  TypeInv'
<1> USE DEF TypeInv
<1> DEFINE Lists == Seq(Pids)
           seen == {<<"self", cell[c].addr>> : c \in Walked}
<1>0. children \in Lists /\ cb.left \in Lists /\ NoCb \in CbTypes
  BY MainValues DEF TypeOK, CbTypes, Pids
<1>1. seen \in SUBSET ({"self"} \X (Addrs \cup {"junk"}))
  <2>1. \A c \in Walked : cell[c].addr \in Addrs \cup {"junk"}
    BY NthType DEF TypeOK
  <2> QED
    BY <2>1
<1> HIDE DEF seen
<1>2. ASSUME NEW kind \in {"chkpt", "rst"}, CallbackStarts(kind) PROVE TypeInv'
  <2>1. main' \in MainTypes /\ main'.pc = main.pc
    BY <1>2 DEF CallbackStarts, Interrupts, MainTypes
  <2>2. cb' \in CbTypes /\ cb'.pc = "regions" /\ Runs'
    BY <1>0, <1>2, <2>1 DEF CallbackStarts, NoCb, CbTypes, Runs
  <2>3. UNCHANGED <<regionVars, libVars, children, kid, sigchld, newest, raced>>
    BY <1>2 DEF CallbackStarts
  <2>4. TypeOK'
    BY <2>1, <2>2, <2>3 DEF TypeOK, regionVars, libVars, MainTypes, CbTypes
  <2> QED
    BY <2>1, <2>2, <2>3, <2>4
<1>3. CASE cr_mm_exclusion_checkpoint_cb \/ cr_mm_exclusion_restart_cb
  <2>1. cell' \in [Cells -> CellTypes]
    <3>1. \A c \in Cells : cell[c] \in CellTypes /\ [cell[c] EXCEPT !.pid = "self"] \in CellTypes
      BY DEF TypeOK, CellTypes, Ptrs
    <3>2. cell \in [Cells -> CellTypes]
      BY DEF TypeOK, CellTypes, Ptrs
    <3> QED
      BY <1>3, <3>1, <3>2 DEF cr_mm_exclusion_checkpoint_cb, cr_mm_exclusion_restart_cb, regionVars
  <2>2. cb' = NoCb \/ cb' = [cb EXCEPT !.pc = "children", !.left = children, !.seen = seen]
    BY <1>3 DEF cr_mm_exclusion_checkpoint_cb, cr_mm_exclusion_restart_cb, seen
  <2>3. cb' \in CbTypes /\ (cb' = NoCb \/ cb'.pc = "children")
    BY <1>0, <1>1, <2>2 DEF CbTypes
  <2>4. UNCHANGED <<first, libVars, children, main, kid, sigchld, newest, raced>>
    BY <1>3 DEF cr_mm_exclusion_checkpoint_cb, cr_mm_exclusion_restart_cb, regionVars
  <2>5. cb.pc = "regions"
    BY <1>3 DEF cr_mm_exclusion_checkpoint_cb, cr_mm_exclusion_restart_cb
  <2>6. TypeOK'
    BY <2>1, <2>3, <2>4 DEF TypeOK, CellTypes, Ptrs, CbTypes, libVars
  <2> QED
    BY <2>3, <2>4, <2>5, <2>6 DEF NoCb, Runs
<1>4. CASE TellChild \/ ChildAnswers \/ CallbackEnds
  <2>0. cb.left # <<>> => Tail(cb.left) \in Lists
    BY <1>0
  <2>1. cb.pc # "off"
    BY <1>4 DEF TellChild, ChildAnswers, CallbackEnds
  <2>2. \/ cb.left # <<>> /\ cb' = [cb EXCEPT !.pc = "answer"] /\ main' = main
        \/ cb.left # <<>> /\ cb' = [cb EXCEPT !.left = Tail(@)] /\ cb.pc = "children" /\ main' = main
        \/ cb.left # <<>> /\ cb' = [cb EXCEPT !.pc = "children", !.left = Tail(@)] /\ main' = main
        \/ cb' = NoCb /\ main' \in {main, Crashed}
    <3>1. CASE TellChild
      BY <3>1, Zenon DEF TellChild
    <3>2. CASE ChildAnswers
      BY <3>2, Zenon DEF ChildAnswers
    <3>3. CASE CallbackEnds
      BY <3>3, Zenon DEF CallbackEnds
    <3> QED
      BY <1>4, <3>1, <3>2, <3>3
  <2>3. cb' \in CbTypes /\ (cb' = NoCb \/ cb'.pc = "children" \/ (cb'.pc = "answer" /\ cb'.left # <<>>))
    BY <1>0, <2>0, <2>1, <2>2 DEF CbTypes
  <2>4. UNCHANGED <<regionVars, libVars, children, kid, sigchld, newest, raced>>
    BY <1>4 DEF TellChild, ChildAnswers, CallbackEnds
  <2>5. main' \in MainTypes /\ (cb' = NoCb \/ main' = main)
    BY <2>2, MainValues
  <2>6. TypeOK'
    BY <2>3, <2>4, <2>5 DEF TypeOK, regionVars, libVars, CbTypes, MainTypes
  <2> QED
    BY <2>1, <2>3, <2>4, <2>5, <2>6 DEF NoCb, Runs
<1> QED
  BY <1>2, <1>3, <1>4

-----------------------------------------------------------------------------
(* The children.                                                           *)

(* Unless the process becomes the child of a fork, no child of its becomes *)
(* a sibling, and none that is gone comes back.                            *)
KidsGoOn ==
  /\ \A k \in Kids : kid'[k] = "not mine" <=> kid[k] = "not mine"
  /\ \A k \in Kids : kid[k] # "unborn" => kid'[k] # "unborn"
  /\ \A k \in Kids : Gone(k) => Gone(k)'

(* What the children do keeps them.                                        *)
LEMMA KidStep ==
  ASSUME TypeInv, NEW k \in Kids, ChildWrites(k) \/ ChildChanges(k)
  PROVE  /\ KidsGoOn
         /\ sigchld' = sigchld \/ (sigchld' = k /\ Gone(k)')
<1>1. PICK t \in KidStates : /\ kid' = [kid EXCEPT ![k] = t]
                             /\ kid[k] \notin {"unborn", "not mine"}
                             /\ t \notin {"unborn", "not mine", "forked"}
                             /\ kid[k] = "forked" \/ t \in {"lost", "dead", "stopped", "resumed"}
                             /\ t = "alive" => sigchld' = sigchld
                             /\ sigchld' = sigchld \/ (sigchld' = k /\ t # "alive")
  <2>1. CASE ChildWrites(k)
    <3>1. \/ kid' = [kid EXCEPT ![k] = "dead"]
          \/ /\ kid' = [kid EXCEPT ![k] = IF @ = "forked" THEN "alive" ELSE "resumed"]
             /\ sigchld' = sigchld
      BY <2>1, Zenon DEF ChildWrites
    <3>2. (sigchld' = sigchld \/ sigchld' = k) /\ kid[k] \in {"forked", "held"}
      BY <2>1, Zenon DEF ChildWrites
    <3>3. CASE kid' = [kid EXCEPT ![k] = "dead"]
      BY <3>2, <3>3 DEF KidStates
    <3>4. CASE /\ kid' = [kid EXCEPT ![k] = IF @ = "forked" THEN "alive" ELSE "resumed"]
               /\ sigchld' = sigchld
      <4>1. kid[k] = "forked" => kid' = [kid EXCEPT ![k] = "alive"]
        BY <3>4
      <4>2. kid[k] # "forked" => kid' = [kid EXCEPT ![k] = "resumed"]
        BY <3>4
      <4> QED
        BY <3>2, <3>4, <4>1, <4>2, ZenonT(30) DEF KidStates
    <3> QED
      BY <3>1, <3>3, <3>4
  <2>2. CASE ChildChanges(k)
    <3>1. (sigchld' = sigchld \/ sigchld' = k) /\ kid[k] \in KidStates
      BY <2>2, Zenon DEF ChildChanges, KidStates
    <3>2. \/ kid[k] \in {"alive", "resumed", "stopped"}
             /\ \E t \in {"dead", "stopped", "resumed"} : kid' = [kid EXCEPT ![k] = t]
          \/ kid[k] \in {"forked", "held"} /\ kid' = [kid EXCEPT ![k] = "lost"]
          \/ kid[k] = "forked" /\ kid' = [kid EXCEPT ![k] = "held"]
      BY <2>2, Zenon DEF ChildChanges
    <3>3. CASE kid[k] \in {"alive", "resumed", "stopped"}
             /\ \E t \in {"dead", "stopped", "resumed"} : kid' = [kid EXCEPT ![k] = t]
      <4>1. PICK t \in {"dead", "stopped", "resumed"} : kid' = [kid EXCEPT ![k] = t]
        BY <3>3
      <4> QED
        BY <3>1, <3>3, <4>1 DEF KidStates
    <3>4. CASE kid[k] \in {"forked", "held"} /\ kid' = [kid EXCEPT ![k] = "lost"]
      BY <3>1, <3>4 DEF KidStates
    <3>5. CASE kid[k] = "forked" /\ kid' = [kid EXCEPT ![k] = "held"]
      BY <3>1, <3>5 DEF KidStates
    <3> QED
      BY <3>2, <3>3, <3>4, <3>5
  <2> QED
    BY <2>1, <2>2
<1>2. \A m \in Kids : kid'[m] = IF m = k THEN t ELSE kid[m]
  BY <1>1 DEF TypeInv, TypeOK
<1>3. Gone(k) => Gone(k)'
  BY <1>1, <1>2 DEF Gone, KidStates
<1>4. sigchld' = sigchld \/ (sigchld' = k /\ Gone(k)')
  BY <1>1, <1>2 DEF Gone, KidStates
<1>5. KidsGoOn
  BY <1>1, <1>2, <1>3 DEF KidsGoOn, Gone
<1> QED
  BY <1>4, <1>5

(* Steps in which neither the children nor the lists change.               *)
LEMMA ChildrenStay ==
  ASSUME ChildrenInv, UNCHANGED <<children, kid, sigchld>>,
         newest' = newest,
         main' = main \/ main'.pc \in {"app", "init", "spin", "exited", "crashed"},
         cb'.left = cb.left \/ cb'.left = children \/ DOMAIN cb'.left = {}
         \/ \A i \in DOMAIN cb'.left : \E j \in DOMAIN cb.left : cb'.left[i] = cb.left[j]
  PROVE  ChildrenInv'
<1>1. \A s : NotMine(s)' <=> NotMine(s)
  BY DEF NotMine
<1>2. \A k : Gone(k)' <=> Gone(k)
  BY DEF Gone
<1>3. ~NotMine(cb'.left)
  BY DEF NotMine, ChildrenInv
<1>4. ~NotMine(cb.left)'
  BY <1>3 DEF NotMine
<1>5. Forking' /\ Adding'
  BY DEF ChildrenInv, Forking, Adding, NotMine
<1> QED
  BY <1>1, <1>2, <1>4, <1>5 DEF ChildrenInv, NotMine, Gone

(* The calls on regions and the callbacks are such.                        *)
LEMMA CallsKeepChildren ==
  ASSUME TypeInv, ChildrenInv,
         \/ \E a \in Addrs : cr_exclude_on(a) \/ cr_exclude_off(a)
         \/ cr_mm_exclusion_init
         \/ cr_mm_exclusion_checkpoint_cb \/ cr_mm_exclusion_restart_cb
         \/ TellChild \/ ChildAnswers \/ CallbackEnds
  PROVE  ChildrenInv'
<1>1. UNCHANGED <<children, kid, sigchld, newest>>
  BY DEF cr_exclude_on, cr_exclude_off, cr_mm_exclusion_init, Rest, TellChild, ChildAnswers,
         cr_mm_exclusion_checkpoint_cb, cr_mm_exclusion_restart_cb, CallbackEnds
<1>2. main' = main \/ main'.pc \in {"app", "init", "spin", "exited", "crashed"}
  <2>1. ASSUME NEW a \in Addrs, cr_exclude_on(a)
        PROVE  main' = main \/ main'.pc \in {"app", "init", "spin", "exited", "crashed"}
    <3>1. \E c : main' \in {main, [InApp EXCEPT !.pc = "spin"],
                           [InApp EXCEPT !.pc = "init", !.cell = c]}
      BY <2>1, Zenon DEF cr_exclude_on, Spin
    <3> QED
      BY <3>1 DEF InApp
  <2>2. ASSUME NEW a \in Addrs, cr_exclude_off(a)
        PROVE  main' = main \/ main'.pc \in {"app", "init", "spin", "exited", "crashed"}
    BY <2>2 DEF cr_exclude_off, Spin, InApp
  <2>3. CASE cr_mm_exclusion_init
    BY <2>3 DEF cr_mm_exclusion_init, InApp
  <2>5. CASE TellChild
    BY <2>5, MainValues DEF TellChild
  <2>4. CASE \/ ChildAnswers \/ CallbackEnds
             \/ cr_mm_exclusion_checkpoint_cb \/ cr_mm_exclusion_restart_cb
    BY <2>4 DEF ChildAnswers, CallbackEnds,
                cr_mm_exclusion_checkpoint_cb, cr_mm_exclusion_restart_cb
  <2> QED
    BY <2>1, <2>2, <2>3, <2>4, <2>5
<1>3. \A s \in Seq(Pids) : s # <<>> =>
        \A i \in DOMAIN Tail(s) : \E j \in DOMAIN s : Tail(s)[i] = s[j]
  <2> SUFFICES ASSUME NEW s \in Seq(Pids), s # <<>>, NEW i \in DOMAIN Tail(s)
               PROVE  \E j \in DOMAIN s : Tail(s)[i] = s[j]
    OBVIOUS
  <2>1. Tail(s)[i] = s[i + 1] /\ i + 1 \in DOMAIN s
    OBVIOUS
  <2> QED
    BY <2>1
<1>4. cb.left \in Seq(Pids) /\ cb \in CbTypes
  BY DEF TypeInv, CbTypes
<1>5. \/ cb' = cb \/ cb' = NoCb \/ cb'.left = cb.left \/ cb'.left = children
      \/ (cb.left # <<>> /\ cb'.left = Tail(cb.left))
  <2>1. CASE TellChild
    BY <1>4, <2>1 DEF TellChild, CbTypes
  <2>2. CASE ChildAnswers
    <3>1. cb.left # <<>>
      BY <2>2 DEF ChildAnswers, TypeInv
    <3> QED
      BY <1>4, <2>2, <3>1 DEF ChildAnswers, CbTypes
  <2>3. CASE cr_mm_exclusion_checkpoint_cb \/ cr_mm_exclusion_restart_cb
    BY <1>4, <2>3 DEF cr_mm_exclusion_checkpoint_cb, cr_mm_exclusion_restart_cb, CbTypes
  <2>4. CASE CallbackEnds \/ cr_mm_exclusion_init \/ \E a \in Addrs : cr_exclude_on(a) \/ cr_exclude_off(a)
    BY <2>4 DEF CallbackEnds, cr_exclude_on, cr_exclude_off, cr_mm_exclusion_init, Rest
  <2> QED
    BY <2>1, <2>2, <2>3, <2>4
<1>6. NoCb.left = <<>>
  BY DEF NoCb
<1>7. \/ cb'.left = cb.left \/ cb'.left = children \/ DOMAIN cb'.left = {}
      \/ \A i \in DOMAIN cb'.left : \E j \in DOMAIN cb.left : cb'.left[i] = cb.left[j]
  <2>1. CASE cb' = NoCb
    <3>1. cb'.left = <<>>
      BY <1>6, <2>1
    <3>2. DOMAIN cb'.left = {}
      BY <3>1
    <3> QED
      BY <3>2
  <2>2. CASE cb.left # <<>> /\ cb'.left = Tail(cb.left)
    BY <1>3, <1>4, <2>2
  <2> QED
    BY <1>5, <2>1, <2>2
<1> QED
  BY <1>1, <1>2, <1>7, ChildrenStay

(* The destructor forgets the children, and a fork's child has none.       *)
LEMMA EmptyKeeps ==
  ASSUME TypeInv, ChildrenInv, cr_mm_exclusion_exit \/ child_after_fork
  PROVE  ChildrenInv'
<1>1. CASE ~WalkEnds /\ cr_mm_exclusion_exit
  BY <1>1, ChildrenStay DEF cr_mm_exclusion_exit, Spin, InApp
<1>2. CASE child_after_fork \/ (WalkEnds /\ cr_mm_exclusion_exit)
  <2>1. children' = <<>> /\ newest' = "none" /\ cb' = cb /\ cb = NoCb
    BY <1>2 DEF child_after_fork, ForkedChild, cr_mm_exclusion_exit, TypeInv, Calls
  <2>2. main'.pc \in {"app", "exited", "crashed"}
    BY <1>2, MainValues DEF child_after_fork, ForkedChild, cr_mm_exclusion_exit, Calls, InApp
  <2>3. sigchld' = "none" \/ UNCHANGED <<sigchld, kid>>
    BY <1>2 DEF child_after_fork, ForkedChild, cr_mm_exclusion_exit
  <2>4. DOMAIN children' = {} /\ DOMAIN cb'.left = {}
    <3>1. DOMAIN children' = {}
      BY <2>1
    <3>2. cb'.left = <<>>
      BY <2>1 DEF NoCb
    <3> QED
      BY <3>1, <3>2
  <2>5. ~NotMine(children)' /\ ~NotMine(cb.left)'
    BY <2>4 DEF NotMine
  <2>6. (sigchld # "none" => Gone(sigchld))'
    BY <2>3 DEF ChildrenInv, Gone
  <2> QED
    BY <2>1, <2>2, <2>5, <2>6 DEF ChildrenInv, Forking, Adding
<1> QED
  BY <1>1, <1>2

(* What happens to the children is not to the lists ...                    *)
LEMMA KidsKeep ==
  ASSUME TypeInv, ChildrenInv, NEW k \in Kids, ChildWrites(k) \/ ChildChanges(k)
  PROVE  ChildrenInv'
<1>1. UNCHANGED <<children, main, cb, newest>>
  BY DEF ChildWrites, ChildChanges
<1>2. KidsGoOn /\ (sigchld' = sigchld \/ (sigchld' = k /\ Gone(k)'))
  BY KidStep
<1>3. ~NotMine(children)' /\ ~NotMine(cb.left)'
  BY <1>1, <1>2 DEF NotMine, KidsGoOn, ChildrenInv
<1>4. Forking'
  BY <1>1, <1>2 DEF Forking, ChildrenInv, KidsGoOn
<1>5. Adding'
  BY <1>1, <1>2 DEF Adding, ChildrenInv, KidsGoOn, NotMine
<1>6. (sigchld # "none" => Gone(sigchld))'
  BY <1>1, <1>2 DEF ChildrenInv, KidsGoOn, TypeInv, TypeOK, Gone
<1>7. (newest # "none" => Gone(newest) \/ \E i \in DOMAIN children : children[i] = newest)'
  BY <1>1, <1>2 DEF ChildrenInv, KidsGoOn, TypeInv, Gone
<1> QED
  BY <1>3, <1>4, <1>5, <1>6, <1>7 DEF ChildrenInv

(* ... and a handler that interrupts the fork's leaves the pid it reads    *)
(* its child's, or none at all.                                            *)
LEMMA InterruptsKeep ==
  ASSUME TypeInv, ChildrenInv, Interrupts, kid' = kid
  PROVE  Forking' /\ Adding'
<1>1. CASE UNCHANGED main
  BY <1>1 DEF ChildrenInv, Forking, Adding, NotMine
<1>2. CASE main.pc = "read" /\ main' = [main EXCEPT !.pid = "junk"]
  <2>1. main'.pc = "read" /\ main'.child = main.child /\ main'.pid = "junk"
    BY <1>2 DEF TypeInv, MainTypes
  <2> QED
    BY <1>2, <2>1 DEF ChildrenInv, Forking, Adding
<1> QED
  BY <1>1, <1>2 DEF Interrupts

(* The two handlers.                                                       *)
LEMMA HandlersKeep ==
  ASSUME TypeInv, ChildrenInv,
         handle_sigchild \/ \E kind \in {"chkpt", "rst"} : CallbackStarts(kind)
  PROVE  ChildrenInv'
<1>0. UNCHANGED <<kid, newest>> /\ KidsGoOn
  BY DEF handle_sigchild, CallbackStarts, KidsGoOn, Gone
<1>1. Forking' /\ Adding'
  <2>1. CASE \E kind \in {"chkpt", "rst"} : CallbackStarts(kind)
    BY <1>0, <2>1, InterruptsKeep DEF CallbackStarts
  <2>2. CASE handle_sigchild
    <3>1. CASE main' = Crashed
      BY <3>1, MainValues DEF Forking, Adding
    <3>2. CASE main' = main \/ (main.pc = "read" /\ main' = [main EXCEPT !.pid = "junk"])
      <4>1. CASE main' = main
        BY <1>0, <4>1 DEF ChildrenInv, Forking, Adding, NotMine
      <4>2. CASE main.pc = "read" /\ main' = [main EXCEPT !.pid = "junk"]
        <5>1. main'.pc = "read" /\ main'.child = main.child /\ main'.pid = "junk"
          BY <4>2 DEF TypeInv, MainTypes
        <5> QED
          BY <1>0, <4>2, <5>1 DEF ChildrenInv, Forking, Adding
      <4> QED
        BY <3>2, <4>1, <4>2
    <3>3. CASE main.pc = "next" /\ main' = [main EXCEPT !.list = <<sigchld, "wild">>]
      <4> DEFINE l == <<sigchld, "wild">>
      <4>1. sigchld \in Kids /\ Gone(sigchld)
        BY <2>2 DEF handle_sigchild, ChildrenInv, TypeInv, TypeOK
      <4>2. l # <<>> /\ \A i \in DOMAIN l : l[i] = sigchld \/ l[i] = "wild"
        OBVIOUS
      <4>3. /\ main'.pc = "next" /\ main'.child = main.child /\ main'.pid = main.pid
            /\ main'.list = l
        BY <3>3 DEF TypeInv, MainTypes
      <4> HIDE DEF l
      <4>4. ~NotMine(l)
        <5>1. "wild" \notin Kids
          BY ExclusionAssumption
        <5>2. kid[sigchld] # "not mine"
          BY <4>1 DEF Gone
        <5> QED
          BY <4>2, <5>1, <5>2, Zenon DEF NotMine
      <4>5. ~NotMine(main.list)'
        BY <1>0, <4>3, <4>4 DEF NotMine
      <4>6. Forking'
        BY <1>0, <3>3, <4>3 DEF ChildrenInv, Forking
      <4> QED
        BY <4>2, <4>3, <4>5, <4>6 DEF Adding
    <3> QED
      BY <2>2, <3>1, <3>2, <3>3, SigchldMain
  <2> QED
    BY <2>1, <2>2
<1>2. CASE handle_sigchild
  <2>1. remove_child(sigchld) /\ children \in Seq(Pids)
        /\ cb' = cb /\ sigchld' = "none" /\ Gone(sigchld)
    BY <1>2 DEF handle_sigchild, TypeInv, TypeOK, ChildrenInv, Pids
  <2>2. /\ \A i \in DOMAIN children' : \E j \in DOMAIN children : children'[i] = children[j]
        /\ \A i \in DOMAIN children : children[i] # sigchld =>
             \E j \in DOMAIN children' : children'[j] = children[i]
    BY <2>1, Removed
  <2>3. ~NotMine(children)' /\ ~NotMine(cb.left)'
    <3>1. ~NotMine(children) /\ ~NotMine(cb.left)
      BY DEF ChildrenInv
    <3>2. ASSUME NEW i \in DOMAIN children', children'[i] \in Kids
          PROVE  kid'[children'[i]] # "not mine"
      BY <1>0, <2>2, <3>1, <3>2, ZenonT(30) DEF NotMine
    <3>3. ~NotMine(cb.left)'
      BY <1>0, <2>1, <3>1 DEF NotMine
    <3>4. ~NotMine(children)'
      BY <3>2 DEF NotMine
    <3> QED
      BY <3>3, <3>4
  <2>4. (newest # "none" => Gone(newest) \/ \E i \in DOMAIN children : children[i] = newest)'
    BY <1>0, <2>1, <2>2 DEF ChildrenInv, Gone
  <2> QED
    BY <1>1, <2>1, <2>3, <2>4 DEF ChildrenInv
<1>3. ASSUME NEW kind \in {"chkpt", "rst"}, CallbackStarts(kind) PROVE ChildrenInv'
  <2>1. UNCHANGED <<children, sigchld>> /\ cb'.left = <<>>
    BY <1>3 DEF CallbackStarts, NoCb
  <2>2. DOMAIN cb'.left = {}
    BY <2>1
  <2>3. ~NotMine(children)' /\ ~NotMine(cb.left)'
    BY <1>0, <2>1, <2>2 DEF NotMine, ChildrenInv
  <2> QED
    BY <1>0, <1>1, <2>1, <2>3 DEF ChildrenInv, Gone
<1> QED
  BY <1>2, <1>3

(* The fork, as the parent sees it.                                        *)
LEMMA ForkKeeps ==
  ASSUME TypeInv, ChildrenInv,
         ForkParent \/ parent_after_fork \/ add_child \/ LinkChild \/ FirstChild
  PROVE  ChildrenInv'
<1> DEFINE NewestHere == newest # "none" =>
             Gone(newest) \/ \E i \in DOMAIN children : children[i] = newest
<1>0. /\ ~NotMine(children) /\ ~NotMine(cb.left) /\ NewestHere /\ Forking /\ Adding
      /\ (sigchld # "none" => Gone(sigchld))
  BY DEF ChildrenInv
<1>1. CASE ForkParent
  <2>1. PICK k \in Kids : /\ kid[k] = "unborn" /\ kid' = [kid EXCEPT ![k] = "forked"]
                          /\ main' = [InApp EXCEPT !.pc = "read", !.child = k, !.pid = k]
    BY <1>1 DEF ForkParent, Unborn
  <2>2. UNCHANGED <<children, cb, sigchld, newest>>
    BY <1>1 DEF ForkParent
  <2>3. \A m \in Kids : kid'[m] = IF m = k THEN "forked" ELSE kid[m]
    BY <2>1 DEF TypeInv, TypeOK
  <2>4. main'.pc = "read" /\ main'.child = k /\ main'.pid = k
    BY <2>1 DEF InApp
  <2>5. ~NotMine(children)' /\ ~NotMine(cb.left)'
    BY <1>0, <2>2, <2>3 DEF NotMine
  <2>6. (sigchld # "none" => Gone(sigchld))'
    BY <1>0, <2>1, <2>2, <2>3 DEF Gone, TypeInv, TypeOK
  <2>7. NewestHere'
    BY <1>0, <2>1, <2>2, <2>3 DEF Gone, TypeInv
  <2>8. Forking' /\ Adding'
    BY <2>3, <2>4 DEF Forking, Adding
  <2> QED
    BY <2>5, <2>6, <2>7, <2>8 DEF ChildrenInv
<1>2. CASE parent_after_fork
  <2>1. UNCHANGED <<children, cb, sigchld, newest, kid>>
    BY <1>2 DEF parent_after_fork
  <2>2. main.pc = "read" /\ main'.pc = "add_child" /\ main'.child = main.child /\ main'.pid = main.pid
    BY <1>2 DEF parent_after_fork, TypeInv, MainTypes
  <2>3. Forking' /\ Adding'
    BY <1>0, <2>1, <2>2 DEF Forking, Adding
  <2> QED
    BY <1>0, <2>1, <2>3 DEF ChildrenInv, NotMine, Gone
<1>3. CASE add_child
  <2>1. UNCHANGED <<children, cb, sigchld, newest, kid>> /\ main.pc = "add_child"
    BY <1>3 DEF add_child
  <2>2. main.pid \in Kids \cup {"junk"} /\ (main.pid \in Kids => kid[main.pid] # "not mine")
    BY <1>0, <2>1, ExclusionAssumption DEF Forking
  <2>3. CASE main' = InApp
    BY <2>1, <2>3, ChildrenStay DEF InApp
  <2>4. CASE main' = [main EXCEPT !.pc = "first_child", !.list = <<main.pid>>]
    <3> DEFINE l == <<main.pid>>
    <3>1. l # <<>> /\ l[1] = main.pid /\ \A i \in DOMAIN l : l[i] = main.pid
      OBVIOUS
    <3>2. main'.pc = "first_child" /\ main'.child = main.child /\ main'.pid = main.pid /\ main'.list = l
      BY <2>4 DEF TypeInv, MainTypes
    <3> HIDE DEF l
    <3>3. ~NotMine(l)
      BY <2>2, <3>1, Zenon DEF NotMine
    <3>4. ~NotMine(main.list)'
      BY <2>1, <3>2, <3>3 DEF NotMine
    <3>5. Forking'
      BY <1>0, <2>1, <3>2 DEF Forking
    <3>6. Adding'
      BY <3>1, <3>2, <3>4 DEF Adding
    <3> QED
      BY <1>0, <2>1, <3>5, <3>6 DEF ChildrenInv, NotMine, Gone
  <2>5. CASE children # <<>> /\ main' = [main EXCEPT !.pc = "next", !.list = children]
    <3>1. main'.pc = "next" /\ main'.child = main.child /\ main'.pid = main.pid /\ main'.list = children
      BY <2>5 DEF TypeInv, MainTypes
    <3>2. ~NotMine(main.list)'
      BY <1>0, <2>1, <3>1 DEF NotMine
    <3>3. Forking'
      BY <1>0, <2>1, <3>1 DEF Forking
    <3>4. Adding'
      BY <2>5, <3>1, <3>2 DEF Adding
    <3> QED
      BY <1>0, <2>1, <3>3, <3>4 DEF ChildrenInv, NotMine, Gone
  <2> QED
    BY <1>0, <1>3, <2>3, <2>4, <2>5, AddSteps
<1>5. CASE LinkChild
  <2>1. UNCHANGED <<children, cb, sigchld, newest, kid>> /\ main.pc = "next"
    BY <1>5 DEF LinkChild
  <2>2. main.pid \in Kids \cup {"junk"} /\ (main.pid \in Kids => kid[main.pid] # "not mine")
    BY <1>0, <2>1, ExclusionAssumption DEF Forking
  <2>3. CASE main' = Crashed
    BY <2>1, <2>3, ChildrenStay, MainValues
  <2>4. ASSUME NEW t \in {main.list, children}, t # <<>>,
               main' = [main EXCEPT !.pc = "first_child", !.list = <<main.pid>> \o Tail(t)]
        PROVE  ChildrenInv'
    <3> DEFINE l == <<main.pid>> \o Tail(t)
    <3>1. t \in Seq(Pids) /\ main.pid \in Pids /\ ~NotMine(t)
      BY <1>0, <2>1, <2>2, <2>4 DEF TypeInv, TypeOK, MainTypes, Pids, Adding
    <3>2. /\ l # <<>> /\ l[1] = main.pid
          /\ \A i \in DOMAIN l : l[i] = main.pid \/ \E j \in DOMAIN t : l[i] = t[j]
      BY <2>4, <3>1, NewList, Zenon
    <3>3. main'.pc = "first_child" /\ main'.child = main.child /\ main'.pid = main.pid /\ main'.list = l
      BY <2>4 DEF TypeInv, MainTypes
    <3> HIDE DEF l
    <3>4. ~NotMine(l)
      BY <2>2, <3>1, <3>2 DEF NotMine
    <3>5. ~NotMine(main.list)'
      BY <2>1, <3>3, <3>4 DEF NotMine
    <3>6. Forking'
      BY <1>0, <2>1, <3>3 DEF Forking
    <3>7. Adding'
      BY <3>2, <3>3, <3>5 DEF Adding
    <3> QED
      BY <1>0, <2>1, <3>6, <3>7 DEF ChildrenInv, NotMine, Gone
  <2>5. \/ main' = Crashed
        \/ \E t \in {main.list, children} :
             t # <<>> /\ main' = [main EXCEPT !.pc = "first_child", !.list = <<main.pid>> \o Tail(t)]
    BY <1>0, <1>5, AddSteps, Zenon
  <2> QED
    BY <2>3, <2>4, <2>5, Zenon
<1>4. CASE FirstChild
  <2>1. UNCHANGED <<cb, sigchld, kid>> /\ main' = InApp /\ children' = main.list
        /\ newest' = IF main.pid = "junk" THEN "none" ELSE main.child
    BY <1>4 DEF FirstChild, Newest
  <2>2. main.pc = "first_child" /\ main'.pc = "app"
    BY <1>4, <2>1 DEF FirstChild, InApp
  <2>3. main.list \in Seq(Pids) /\ main.list # <<>> /\ main.list[1] = main.pid /\ ~NotMine(main.list)
    BY <1>0, <2>2 DEF Adding, TypeInv, MainTypes
  <2>4. 1 \in DOMAIN main.list
    BY <2>3
  <2>5. newest' # "none" => children'[1] = newest' /\ 1 \in DOMAIN children'
    BY <1>0, <2>1, <2>2, <2>3, <2>4 DEF Forking
  <2>6. ~NotMine(children)' /\ ~NotMine(cb.left)'
    BY <1>0, <2>1, <2>3 DEF NotMine
  <2>7. Forking' /\ Adding'
    BY <2>2 DEF Forking, Adding
  <2>8. (sigchld # "none" => Gone(sigchld))'
    BY <1>0, <2>1 DEF Gone
  <2> QED
    BY <2>5, <2>6, <2>7, <2>8 DEF ChildrenInv
<1> QED
  BY <1>1, <1>2, <1>3, <1>4, <1>5

(* The types and the children through every step.                          *)
LEMMA ChildrenStep ==
  ASSUME TypeInv, ChildrenInv, [Next]_vars
  PROVE  TypeInv' /\ ChildrenInv'
<1>1. ASSUME NEW a \in Addrs, cr_exclude_on(a) PROVE TypeInv' /\ ChildrenInv'
  BY <1>1, OnTypes, CallsKeepChildren
<1>2. ASSUME NEW a \in Addrs, cr_exclude_off(a) PROVE TypeInv' /\ ChildrenInv'
  BY <1>2, OffTypes, CallsKeepChildren
<1>3. CASE cr_mm_exclusion_init
  BY <1>3, InitTypes, CallsKeepChildren
<1>4. CASE cr_mm_exclusion_exit
  BY <1>4, InitTypes, EmptyKeeps
<1>5. CASE ForkParent \/ parent_after_fork \/ add_child \/ LinkChild \/ FirstChild
  BY <1>5, ForkTypes, ForkKeeps DEF ChildrenInv
<1>6. CASE child_after_fork
  BY <1>6, ForkTypes, EmptyKeeps DEF ChildrenInv
<1>7. ASSUME NEW k \in Kids, ChildWrites(k) \/ ChildChanges(k) PROVE TypeInv' /\ ChildrenInv'
  BY <1>7, ChildTypes, KidsKeep
<1>8. CASE handle_sigchild
  BY <1>8, ChildTypes, HandlersKeep
<1>9. ASSUME NEW kind \in {"chkpt", "rst"}, CallbackStarts(kind) PROVE TypeInv' /\ ChildrenInv'
  BY <1>9, CallbackTypes, HandlersKeep
<1>10. CASE \/ cr_mm_exclusion_checkpoint_cb \/ cr_mm_exclusion_restart_cb
            \/ TellChild \/ ChildAnswers \/ CallbackEnds
  BY <1>10, CallbackTypes, CallsKeepChildren
<1>11. CASE UNCHANGED vars
  <2>1. TypeInv'
    <3>1. /\ UNCHANGED <<cell, first, children, initialized, registered, main, cb, kid, sigchld>>
          /\ UNCHANGED <<excluded, newest, spoilt, raced>>
      BY <1>11, Zenon DEF vars, regionVars
    <3>2. TypeOK'
      BY <3>1, Zenon DEF TypeInv, TypeOK
    <3> QED
      BY <3>1, <3>2, Zenon DEF TypeInv, Runs
  <2>2. ChildrenInv'
    BY <1>11, ChildrenStay DEF vars
  <2> QED
    BY <2>1, <2>2
<1> QED
  BY <1>1, <1>2, <1>3, <1>4, <1>5, <1>6, <1>7, <1>8, <1>9, <1>10, <1>11 DEF Next

(* Initially there are no children.                                        *)
LEMMA ChildrenInit ==
  ASSUME Init PROVE TypeInv /\ ChildrenInv
<1>1. <<>> \in Seq(Pids) /\ DOMAIN <<>> = {}
  BY DEF Pids
<1>2. InApp \in MainTypes /\ NoCb \in CbTypes
  BY MainValues
<1>3. TypeInv
  BY <1>1, <1>2 DEF Init, TypeInv, TypeOK, FreeCell, InApp, NoCb, Pids, Runs
<1>4. ChildrenInv
  BY <1>1 DEF Init, ChildrenInv, Forking, Adding, NotMine, InApp, NoCb
<1> QED
  BY <1>3, <1>4

(* The types and the children are as told in every behaviour.              *)
LEMMA ChildrenAlways ==
  Spec => [](TypeInv /\ ChildrenInv)
<1>1. Init => TypeInv /\ ChildrenInv
  BY ChildrenInit
<1>2. (TypeInv /\ ChildrenInv) /\ [Next]_vars => (TypeInv /\ ChildrenInv)'
  BY ChildrenStep
<1> QED
  BY <1>1, <1>2, PTL DEF Spec

(* The heap's cells, the lists of children and the two activities keep     *)
(* their types, whatever malloc leaves in a cell, with an initialisation   *)
(* that fails, and with SIGCHLD between any two steps of add_child, its    *)
(* test and its dereference included, though what follows may crash.       *)
THEOREM ExclusionTypes == Spec => []TypeOK
<1>1. TypeInv => TypeOK
  BY DEF TypeInv
<1> QED
  BY <1>1, ChildrenAlways, PTL

(* A process passes the callbacks on to its own children only, never to    *)
(* its siblings: child_after_fork empties the list it inherits, and no     *)
(* handler that runs meanwhile can bring one of them back.                 *)
THEOREM CallbacksToOwnChildren == Spec => []OwnChildrenOnly
<1>1. ChildrenInv => OwnChildrenOnly
  BY DEF ChildrenInv, NotMine, OwnChildrenOnly
<1> QED
  BY <1>1, ChildrenAlways, PTL

(* The child add_child has last been given is in the list while it runs    *)
(* and has never been stopped, whatever handle_sigchild takes out of it    *)
(* between any two steps of add_child.  The invariant lets a child that    *)
(* was stopped and continued be missing, as it is once handled.            *)
THEOREM LastChildListed == Spec => []NewestListed
<1>1. ChildrenInv => NewestListed
  BY DEF ChildrenInv, Gone, NewestListed
<1> QED
  BY <1>1, ChildrenAlways, PTL

-----------------------------------------------------------------------------
(* Freed memory.                                                           *)

(* The empty list does not lead there, nor does the rest of one that does  *)
(* not.                                                                    *)
LEMMA CleanLists ==
  /\ ~Wild(<<>>)
  /\ \A s \in Seq(Pids) : s # <<>> /\ ~Wild(s) => ~Wild(Tail(s)) /\ Head(s) # "wild" /\ Head(s) = s[1]
<1>1. ~Wild(<<>>)
  BY DEF Wild
<1>2. ASSUME NEW s \in Seq(Pids), s # <<>>, ~Wild(s)
      PROVE  ~Wild(Tail(s)) /\ Head(s) # "wild" /\ Head(s) = s[1]
  <2>1. \A i \in DOMAIN Tail(s) : Tail(s)[i] = s[i + 1] /\ i + 1 \in DOMAIN s
    BY <1>2
  <2>2. Head(s) = s[1] /\ 1 \in DOMAIN s
    BY <1>2
  <2> QED
    BY <1>2, <2>1, <2>2 DEF Wild
<1> QED
  BY <1>1, <1>2

(* What the new list holds leads nowhere the old one did not.              *)
LEMMA CleanAdd ==
  ASSUME TypeInv, ChildrenInv, WalkInv, ~raced, add_child \/ LinkChild
  PROVE  /\ main'.pc # "crashed" /\ ~Wild(main'.list)
         /\ main'.pc = "next" => children # <<>> /\ children[1] = main'.list[1]
<1>0. /\ ~Wild(children) /\ ~Wild(main.list)
      /\ main.pc = "next" => children # <<>> /\ children[1] = main.list[1]
  BY DEF WalkInv
<1>1. main.pid \in Pids /\ main.pid # "wild" /\ children \in Seq(Pids) /\ main.list \in Seq(Pids)
  <2>1. main.pid \in Kids \cup {"junk"}
    BY AddSteps DEF ChildrenInv
  <2> QED
    BY <2>1, ExclusionAssumption DEF TypeInv, TypeOK, MainTypes, Pids
<1>2. CASE add_child
  <2>1. CASE main' = InApp
    <3>1. main'.list = <<>> /\ main'.pc = "app"
      BY <2>1 DEF InApp
    <3> QED
      BY <3>1, CleanLists
  <2>2. CASE main' = [main EXCEPT !.pc = "first_child", !.list = <<main.pid>>]
    <3>1. main'.list = <<main.pid>> /\ main'.pc = "first_child"
      BY <2>2 DEF TypeInv, MainTypes
    <3>2. ~Wild(<<main.pid>>)
      BY <1>1 DEF Wild
    <3> QED
      BY <3>1, <3>2
  <2>3. CASE children # <<>> /\ main' = [main EXCEPT !.pc = "next", !.list = children]
    <3>1. main'.list = children /\ main'.pc = "next"
      BY <2>3 DEF TypeInv, MainTypes
    <3> QED
      BY <1>0, <2>3, <3>1
  <2> QED
    BY <1>2, <2>1, <2>2, <2>3, AddSteps DEF ChildrenInv
<1>3. CASE LinkChild
  <2>1. main.pc = "next" /\ main.list # <<>> /\ children # <<>>
    BY <1>0, <1>3 DEF LinkChild, ChildrenInv, Adding
  <2>2. \A t \in {main.list, children} : t # <<>> /\ Head(t) # "wild"
    BY <1>0, <1>1, <2>1, CleanLists
  <2>3. PICK t \in {main.list, children} :
          main' = [main EXCEPT !.pc = "first_child", !.list = <<main.pid>> \o Tail(t)]
    BY <1>3, <2>2, Zenon DEF LinkChild
  <2> DEFINE l == <<main.pid>> \o Tail(t)
  <2>4. \A i \in DOMAIN l : l[i] = main.pid \/ \E j \in DOMAIN t : l[i] = t[j]
    <3>1. t \in Seq(Pids) /\ t # <<>>
      BY <1>1, <2>2
    <3> QED
      BY <1>1, <3>1, NewList, Zenon
  <2>5. main'.list = l /\ main'.pc = "first_child"
    BY <2>3 DEF TypeInv, MainTypes
  <2> HIDE DEF l
  <2>6. ~Wild(t)
    BY <1>0
  <2>7. ~Wild(l)
    BY <1>1, <2>4, <2>6, Zenon DEF Wild
  <2> QED
    BY <2>5, <2>7
<1> QED
  BY <1>2, <1>3

(* The handler of SIGCHLD does not walk into freed memory, and leaves the  *)
(* first child, unless it is the one add_child has tested.                 *)
LEMMA CleanSigchld ==
  ASSUME TypeInv, ChildrenInv, WalkInv, handle_sigchild, ~raced'
  PROVE  /\ ~raced /\ main'.pc # "crashed" /\ ~Wild(children') /\ ~Wild(main'.list)
         /\ main'.pc = "next" => children' # <<>> /\ children'[1] = main'.list[1]
<1>1. ~raced /\ ~(main.pc = "next" /\ Head(main.list) = sigchld)
  BY Zenon DEF handle_sigchild
<1>2. /\ main.pc # "crashed" /\ ~Wild(children) /\ ~Wild(main.list)
      /\ main.pc = "next" => children # <<>> /\ children[1] = main.list[1]
  BY <1>1 DEF WalkInv
<1>3. main'.list = main.list /\ main'.pc = main.pc
  <2>1. Interrupts
    BY <1>1, <1>2, Zenon DEF handle_sigchild, Overruns
  <2> QED
    BY <2>1 DEF Interrupts, TypeInv, MainTypes
<1>4. /\ \A i \in DOMAIN children' : \E j \in DOMAIN children : children'[i] = children[j]
      /\ children # <<>> /\ children[1] # sigchld => children' # <<>> /\ children'[1] = children[1]
  <2>1. children \in Seq(Pids) /\ remove_child(sigchld)
    BY DEF TypeInv, TypeOK, Pids, handle_sigchild
  <2> QED
    BY <2>1, Removed
<1>5. ~Wild(children')
  BY <1>2, <1>4, Zenon DEF Wild
<1>6. main.pc = "next" => children[1] # sigchld
  <2>1. main.list \in Seq(Pids) /\ (main.pc = "next" => main.list # <<>>)
    BY DEF TypeInv, MainTypes, ChildrenInv, Adding
  <2>2. main.pc = "next" => Head(main.list) = main.list[1]
    BY <1>2, <2>1, CleanLists
  <2> QED
    BY <1>1, <1>2, <2>2
<1> QED
  BY <1>1, <1>2, <1>3, <1>4, <1>5, <1>6

(* Every step keeps the lists out of freed memory.                         *)
LEMMA WalkStep ==
  ASSUME TypeInv, ChildrenInv, WalkInv, [Next]_vars PROVE WalkInv'
<1> DEFINE Goal == /\ main'.pc # "crashed"
                   /\ ~Wild(children') /\ ~Wild(main'.list) /\ ~Wild(cb'.left)
                   /\ main'.pc = "next" => children' # <<>> /\ children'[1] = main'.list[1]
<1> SUFFICES ASSUME ~raced' PROVE Goal
  BY DEF WalkInv, Wild
<1>t. main \in MainTypes /\ cb \in CbTypes /\ cb.left \in Seq(Pids)
  BY DEF TypeInv, CbTypes
<1>1. ASSUME ~raced
      PROVE  /\ main.pc # "crashed" /\ ~Wild(children) /\ ~Wild(main.list) /\ ~Wild(cb.left)
             /\ main.pc = "next" => children # <<>> /\ children[1] = main.list[1]
  BY <1>1 DEF WalkInv
<1>2. ASSUME raced' = raced, UNCHANGED <<children, cb>>,
             main' = main \/ (main'.list = <<>> /\ main'.pc \notin {"crashed", "next"})
      PROVE  Goal
  BY <1>1, <1>2, CleanLists
<1>3. ASSUME NEW a \in Addrs, cr_exclude_on(a) PROVE Goal
  <2>1. raced' = raced /\ UNCHANGED <<children, cb>>
    BY <1>3 DEF cr_exclude_on, Rest
  <2>2. \E c : main' \in {main, [InApp EXCEPT !.pc = "spin"], [InApp EXCEPT !.pc = "init", !.cell = c]}
    BY <1>3, Zenon DEF cr_exclude_on, Spin
  <2>3. main' = main \/ (main'.list = <<>> /\ main'.pc \notin {"crashed", "next"})
    BY <2>2 DEF InApp
  <2> HIDE DEF Goal
  <2> QED
    BY <1>2, <2>1, <2>3
<1>4. ASSUME NEW a \in Addrs, cr_exclude_off(a) PROVE Goal
  <2>1. raced' = raced /\ UNCHANGED <<children, cb>>
    BY <1>4 DEF cr_exclude_off, Rest
  <2>2. main' = main \/ (main'.list = <<>> /\ main'.pc \notin {"crashed", "next"})
    BY <1>4 DEF cr_exclude_off, Spin, InApp
  <2> HIDE DEF Goal
  <2> QED
    BY <1>2, <2>1, <2>2
<1>5. CASE cr_mm_exclusion_init \/ ForkParent
  <2>1. raced' = raced /\ UNCHANGED <<children, cb>>
    BY <1>5 DEF cr_mm_exclusion_init, ForkParent, Rest
  <2>2. main'.list = <<>> /\ main'.pc \notin {"crashed", "next"}
    <3>1. CASE cr_mm_exclusion_init
      BY <3>1 DEF cr_mm_exclusion_init, InApp
    <3>2. CASE ForkParent
      <4>1. PICK k \in Kids : main' = [InApp EXCEPT !.pc = "read", !.child = k, !.pid = k]
        BY <3>2, Zenon DEF ForkParent, Unborn
      <4> QED
        BY <4>1 DEF InApp
    <3> QED
      BY <1>5, <3>1, <3>2
  <2> HIDE DEF Goal
  <2> QED
    BY <1>2, <2>1, <2>2
<1>6. CASE cr_mm_exclusion_exit \/ child_after_fork
  <2>1. raced' = raced /\ UNCHANGED cb /\ (children' = <<>> \/ children' = children)
    BY <1>6 DEF cr_mm_exclusion_exit, child_after_fork, ForkedChild
  <2>2. ~raced /\ ~Wild(children) /\ ~Wild(main.list) /\ main.pc = "app"
    BY <1>1, <1>6, <2>1 DEF cr_mm_exclusion_exit, child_after_fork, ForkedChild, Calls
  <2>3. main' = main \/ (main'.list = <<>> /\ main'.pc \notin {"crashed", "next"})
    BY <1>6, <2>2 DEF cr_mm_exclusion_exit, child_after_fork, Spin, InApp
  <2> QED
    BY <1>1, <2>1, <2>2, <2>3, CleanLists
<1>7. CASE parent_after_fork
  <2>1. raced' = raced /\ UNCHANGED <<children, cb>> /\ main' = [main EXCEPT !.pc = "add_child"]
    BY <1>7 DEF parent_after_fork
  <2>2. main'.list = main.list /\ main'.pc = "add_child"
    BY <1>t, <2>1 DEF MainTypes
  <2> QED
    BY <1>1, <2>1, <2>2
<1>8. CASE add_child \/ LinkChild
  <2>1. raced' = raced /\ UNCHANGED <<children, cb>>
    BY <1>8 DEF add_child, LinkChild
  <2> QED
    BY <1>1, <1>8, <2>1, CleanAdd
<1>9. CASE FirstChild
  <2>1. raced' = raced /\ UNCHANGED cb /\ children' = main.list /\ main' = InApp
    BY <1>9 DEF FirstChild
  <2>2. main'.list = <<>> /\ main'.pc = "app"
    BY <2>1 DEF InApp
  <2> QED
    BY <1>1, <2>1, <2>2, CleanLists
<1>10. CASE handle_sigchild
  <2>1. UNCHANGED cb
    BY <1>10 DEF handle_sigchild
  <2> QED
    BY <1>1, <1>10, <2>1, CleanSigchld
<1>11. ASSUME NEW k \in Kids, ChildWrites(k) \/ ChildChanges(k) PROVE Goal
  <2>1. raced' = raced /\ UNCHANGED <<children, cb, main>>
    BY <1>11 DEF ChildWrites, ChildChanges
  <2> HIDE DEF Goal
  <2> QED
    BY <1>2, <2>1
<1>12. ASSUME NEW kind \in {"chkpt", "rst"}, CallbackStarts(kind) PROVE Goal
  <2>1. raced' = raced /\ UNCHANGED children /\ Interrupts /\ cb'.left = <<>>
    BY <1>12 DEF CallbackStarts, NoCb
  <2>2. main'.list = main.list /\ main'.pc = main.pc
    BY <1>t, <2>1 DEF Interrupts, MainTypes
  <2> QED
    BY <1>1, <2>1, <2>2, CleanLists
<1>13. CASE \/ cr_mm_exclusion_checkpoint_cb \/ cr_mm_exclusion_restart_cb
            \/ TellChild \/ ChildAnswers \/ CallbackEnds
  <2>1. raced' = raced /\ UNCHANGED children
    BY <1>13 DEF cr_mm_exclusion_checkpoint_cb, cr_mm_exclusion_restart_cb, TellChild, ChildAnswers,
                 CallbackEnds
  <2>2. ~raced /\ ~Wild(cb.left) /\ ~Wild(children)
    BY <1>1, <2>1
  <2>3. main' = main
    <3>1. CASE TellChild
      <4>1. Head(cb.left) # "wild"
        BY <1>t, <2>2, <3>1, CleanLists DEF TellChild
      <4> QED
        BY <3>1, <4>1, Zenon DEF TellChild
    <3> QED
      BY <1>13, <3>1 DEF cr_mm_exclusion_checkpoint_cb, cr_mm_exclusion_restart_cb, ChildAnswers,
                         CallbackEnds
  <2>4. cb'.left \in {<<>>, children, cb.left} \/ (cb.left # <<>> /\ cb'.left = Tail(cb.left))
    <3>1. CASE TellChild
      BY <1>t, <3>1 DEF TellChild, CbTypes, NoCb
    <3>2. CASE ChildAnswers
      <4>1. cb.left # <<>>
        BY <3>2 DEF ChildAnswers, TypeInv
      <4> QED
        BY <1>t, <3>2, <4>1 DEF ChildAnswers, CbTypes
    <3>3. CASE cr_mm_exclusion_checkpoint_cb \/ cr_mm_exclusion_restart_cb
      <4> DEFINE seen == {<<"self", cell[c].addr>> : c \in Walked}
      <4>1. cb' = NoCb \/ cb' = [cb EXCEPT !.pc = "children", !.left = children, !.seen = seen]
        BY <3>3, Zenon DEF cr_mm_exclusion_checkpoint_cb, cr_mm_exclusion_restart_cb
      <4> HIDE DEF seen
      <4> QED
        <5>1. CASE cb' = NoCb
          BY <5>1 DEF NoCb
        <5>2. CASE cb' = [cb EXCEPT !.pc = "children", !.left = children, !.seen = seen]
          <6>1. cb'.left = children
            BY <1>t, <5>2 DEF CbTypes
          <6> QED
            BY <6>1
        <5> QED
          BY <4>1, <5>1, <5>2
    <3>4. CASE CallbackEnds
      BY <3>4 DEF CallbackEnds, NoCb
    <3> QED
      BY <1>13, <3>1, <3>2, <3>3, <3>4
  <2>5. ~Wild(cb'.left)
    BY <1>t, <2>2, <2>4, CleanLists
  <2> QED
    BY <1>1, <2>1, <2>2, <2>3, <2>5
<1>14. CASE UNCHANGED vars
  <2>1. raced' = raced /\ UNCHANGED <<children, cb, main>>
    BY <1>14 DEF vars
  <2> HIDE DEF Goal
  <2> QED
    BY <1>2, <2>1
<1> HIDE DEF Goal
<1> QED
  BY <1>3, <1>4, <1>5, <1>6, <1>7, <1>8, <1>9, <1>10, <1>11, <1>12, <1>13, <1>14 DEF Next

(* No walk of the list of children gets into freed memory, in its handlers *)
(* of fork and of SIGCHLD, in its callbacks or in its destructor, unless   *)
(* SIGCHLD has freed the first child between the test of add_child and its *)
(* dereference: every other interleaving of the handlers is harmless.      *)
THEOREM ChildListWalkable == Spec => []ChildrenWalkable
<1>1. Init => WalkInv
  BY CleanLists DEF Init, WalkInv, InApp, NoCb
<1>2. (TypeInv /\ ChildrenInv) /\ WalkInv /\ [Next]_vars => WalkInv'
  BY WalkStep
<1>3. WalkInv => ChildrenWalkable
  BY DEF WalkInv, ChildrenWalkable
<1> QED
  BY <1>1, <1>2, <1>3, ChildrenAlways, PTL DEF Spec

-----------------------------------------------------------------------------
(* The regions, until the list is spoilt.                                  *)

(* The list has no cell twice, so no more regions than the heap has cells. *)
LEMMA ListLength ==
  ASSUME NEW n \in Nat, NEW f, IsList(f, n)
  PROVE  n <= NCells /\ \A i, j \in 1 .. n : f[i] = f[j] => i = j
<1>1. \A i, j \in 1 .. n : f[i] = f[j] => i = j
  BY DEF IsList, Listed
<1>2. f \in Injection(1 .. n, Cells)
  BY <1>1 DEF IsList, Linked, Injection, IsInjective
<1>3. IsFiniteSet(1 .. n) /\ Cardinality(1 .. n) = n
  BY FS_Interval
<1>4. IsFiniteSet(Cells) /\ Cardinality(Cells) = NCells
  BY ExclusionAssumption DEF NCells
<1>5. Cardinality(1 .. n) <= Cardinality(Cells)
  BY <1>2, <1>3, <1>4, FS_Injection
<1> QED
  BY <1>1, <1>3, <1>4, <1>5

(* next_region's walk goes through its regions in order, and ends.         *)
LEMMA WalkIsList ==
  ASSUME TypeOK, NEW n \in Nat, NEW f, IsList(f, n)
  PROVE  /\ \A k \in 1 .. NCells + 1 : Nth[k] = IF k <= n THEN f[k] ELSE NULL
         /\ WalkEnds
         /\ Walked = {f[i] : i \in 1 .. n}
<1> DEFINE S == {k \in Nat : k < NCells + 1 => Nth[k + 1] = IF k + 1 <= n THEN f[k + 1] ELSE NULL}
<1>0. NCells \in Nat /\ n <= NCells
  BY CellsFinite, ListLength
<1>1. 0 \in S
  BY <1>0, NthTurns DEF IsList, Linked
<1>2. ASSUME NEW k \in Nat, k \in S PROVE k + 1 \in S
  <2> SUFFICES ASSUME k + 1 < NCells + 1
               PROVE  Nth[k + 1 + 1] = IF k + 1 + 1 <= n THEN f[k + 1 + 1] ELSE NULL
    OBVIOUS
  <2>1. Nth[k + 1] = (IF k + 1 <= n THEN f[k + 1] ELSE NULL) /\ k + 1 \in 1 .. NCells
    BY <1>0, <1>2
  <2>2. Nth[k + 1 + 1] = Follow(Nth[k + 1])
    BY <2>1, NthTurns
  <2>3. CASE k + 1 <= n
    <3>1. k + 1 \in 1 .. n /\ f[k + 1] # NULL
      BY <2>3, CellsFinite DEF IsList, Linked
    <3>2. cell[f[k + 1]].next = IF k + 1 = n THEN NULL ELSE f[k + 1 + 1]
      BY <3>1 DEF IsList, Linked
    <3> QED
      BY <2>1, <2>2, <2>3, <3>1, <3>2 DEF Follow
  <2>4. CASE ~(k + 1 <= n)
    BY <2>1, <2>2, <2>4 DEF Follow
  <2> QED
    BY <2>3, <2>4
<1>3. Nat \subseteq S
  <2> HIDE DEF S
  <2> QED
    BY <1>1, <1>2, SetInduction
<1>4. ASSUME NEW k \in 1 .. NCells + 1
      PROVE  Nth[k] = IF k <= n THEN f[k] ELSE NULL
  <2>1. k - 1 \in Nat /\ k - 1 < NCells + 1 /\ (k - 1) + 1 = k
    BY <1>0
  <2>2. k - 1 \in S
    BY <1>3, <2>1
  <2> QED
    BY <2>1, <2>2
<1>5. WalkEnds
  BY <1>0, <1>4 DEF WalkEnds
<1>6. Walked = {f[i] : i \in 1 .. n}
  <2>1. \A i \in 1 .. n : f[i] # NULL /\ i \in 1 .. NCells + 1 /\ Nth[i] = f[i]
    BY <1>0, <1>4, CellsFinite DEF IsList, Linked
  <2>2. \A k \in 1 .. NCells + 1 : Nth[k] # NULL => k \in 1 .. n /\ Nth[k] = f[k]
    BY <1>0, <1>4
  <2> QED
    BY <2>1, <2>2 DEF Walked
<1> QED
  BY <1>4, <1>5, <1>6

(* A list of regions satisfies RegionsListed, and its addresses are the    *)
(* excluded ones.                                                          *)
LEMMA ListMeans ==
  ASSUME TypeOK, RegionsInv
  PROVE  /\ RegionsListed
         /\ Runs /\ ~spoilt =>
              {<<"self", cell[c].addr>> : c \in Walked} = {"self"} \X excluded
<1> SUFFICES ASSUME Runs, ~spoilt
             PROVE  /\ WalkEnds
                    /\ \A c \in Walked : cell[c].used
                    /\ \A a \in Addrs : Cardinality({c \in Walked : cell[c].addr = a})
                                            = IF a \in excluded THEN 1 ELSE 0
                    /\ {<<"self", cell[c].addr>> : c \in Walked} = {"self"} \X excluded
  BY DEF RegionsListed
<1>0. PICK n \in Nat : \E f \in [1 .. n -> Cells] : IsList(f, n)
  BY DEF RegionsInv
<1>1. PICK f \in [1 .. n -> Cells] : IsList(f, n)
  BY <1>0
<1>2. WalkEnds /\ Walked = {f[i] : i \in 1 .. n}
  BY <1>1, WalkIsList
<1>3. \A c \in Walked : cell[c].used
  BY <1>1, <1>2 DEF IsList, Listed
<1>4. excluded = {cell[c].addr : c \in Walked}
  BY <1>1, <1>2 DEF IsList, Listed
<1>5. \A c, d \in Walked : cell[c].addr = cell[d].addr => c = d
  BY <1>1, <1>2 DEF IsList, Listed
<1>6. ASSUME NEW a \in Addrs
      PROVE  Cardinality({c \in Walked : cell[c].addr = a}) = IF a \in excluded THEN 1 ELSE 0
  <2>1. CASE a \in excluded
    <3>1. PICK c \in Walked : cell[c].addr = a
      BY <1>4, <2>1
    <3>2. {d \in Walked : cell[d].addr = a} = {c}
      BY <1>5, <3>1
    <3> QED
      BY <2>1, <3>2, FS_Singleton
  <2>2. CASE a \notin excluded
    <3>1. {d \in Walked : cell[d].addr = a} = {}
      BY <1>4, <2>2
    <3> QED
      BY <2>2, <3>1, FS_EmptySet
  <2> QED
    BY <2>1, <2>2
<1>7. {<<"self", cell[c].addr>> : c \in Walked} = {"self"} \X excluded
  BY <1>4
<1> QED
  BY <1>2, <1>3, <1>6, <1>7

(* A step that changes neither address nor link nor use of the regions in  *)
(* the list keeps it.                                                      *)
LEMMA ListStays ==
  ASSUME NEW n \in Nat, NEW f, IsList(f, n), UNCHANGED <<first, excluded>>,
         \A i \in 1 .. n : /\ cell'[f[i]].used = cell[f[i]].used
                           /\ cell'[f[i]].addr = cell[f[i]].addr
                           /\ cell'[f[i]].next = cell[f[i]].next
  PROVE  IsList(f, n)'
<1>2. Linked(f, n)'
  BY DEF IsList, Linked
<1>3. Listed(f, n)'
  BY DEF IsList, Listed
<1> QED
  BY <1>2, <1>3 DEF IsList

(* What is known of a list, in one place.                                  *)
ListIs(f, n) ==
  /\ \A i, j \in 1 .. n : f[i] = f[j] => i = j
  /\ \A i \in 1 .. n : f[i] \in Cells /\ f[i] # NULL
  /\ \A i \in 1 .. n : cell[f[i]].used
  /\ \A i \in 1 .. n : cell[f[i]].next = IF i = n THEN NULL ELSE f[i + 1]
  /\ first = IF n = 0 THEN NULL ELSE f[1]
  /\ \A i, j \in 1 .. n : cell[f[i]].addr = cell[f[j]].addr => i = j
  /\ excluded = {cell[f[i]].addr : i \in 1 .. n}

(* It follows from the definition.                                         *)
LEMMA ListFacts ==
  ASSUME NEW n \in Nat, NEW f, IsList(f, n) PROVE ListIs(f, n)
<1>1. \A i, j \in 1 .. n : f[i] = f[j] => i = j
  BY ListLength
<1>2. \A i \in 1 .. n : f[i] \in Cells /\ f[i] # NULL
  BY CellsFinite DEF IsList, Linked
<1> QED
  BY <1>1, <1>2 DEF IsList, Listed, Linked, ListIs

(* cr_exclude_on links the new region to the last one.                     *)
LEMMA OnKeepsList ==
  ASSUME TypeInv, RegionsInv, NEW a \in Addrs, cr_exclude_on(a)
  PROVE  RegionsInv'
<1> DEFINE made(p) == [used |-> TRUE, addr |-> a, pid |-> "none", next |-> p]
           new == made(NULL)
           last == CHOOSE x \in Walked : cell[x].next = NULL
<1> SUFFICES ASSUME ~spoilt' PROVE RegionsInv'
  BY DEF RegionsInv
<1>0. main.pc = "app" /\ TypeOK /\ cell \in [Cells -> CellTypes] /\ new \in CellTypes
  BY DEF cr_exclude_on, Calls, TypeInv, TypeOK, CellTypes, Ptrs
<1>b. PICK c \in Cells : \E p \in Leftover(c) :
        /\ ~cell[c].used
        /\ \/ /\ first = NULL
              /\ first' = c /\ cell' = [cell EXCEPT ![c] = made(p)]
              /\ main' = [InApp EXCEPT !.pc = "init", !.cell = c]
              /\ excluded' = excluded \cup {a} /\ spoilt' = (spoilt \/ p # NULL)
           \/ cell' = [cell EXCEPT ![c].next = p] /\ UNCHANGED <<first, main, excluded, spoilt>>
           \/ /\ first # NULL /\ \A x \in Walked : ~HasAddr(x, a)
              /\ cell' = [cell EXCEPT ![c] = made(p), ![last].next = c]
              /\ main' = [InApp EXCEPT !.pc = "init", !.cell = c]
              /\ excluded' = excluded \cup {a} /\ spoilt' = (spoilt \/ p # NULL)
              /\ UNCHANGED first
           \/ ~WalkEnds /\ UNCHANGED spoilt
  BY ZenonT(30) DEF cr_exclude_on
<1>c. PICK p \in Leftover(c) :
        /\ ~cell[c].used
        /\ \/ /\ first = NULL
              /\ first' = c /\ cell' = [cell EXCEPT ![c] = made(p)]
              /\ main' = [InApp EXCEPT !.pc = "init", !.cell = c]
              /\ excluded' = excluded \cup {a} /\ spoilt' = (spoilt \/ p # NULL)
           \/ cell' = [cell EXCEPT ![c].next = p] /\ UNCHANGED <<first, main, excluded, spoilt>>
           \/ /\ first # NULL /\ \A x \in Walked : ~HasAddr(x, a)
              /\ cell' = [cell EXCEPT ![c] = made(p), ![last].next = c]
              /\ main' = [InApp EXCEPT !.pc = "init", !.cell = c]
              /\ excluded' = excluded \cup {a} /\ spoilt' = (spoilt \/ p # NULL)
              /\ UNCHANGED first
           \/ ~WalkEnds /\ UNCHANGED spoilt
  BY <1>b, Zenon
<1>d. ~spoilt /\ ~cell[c].used
  <2>1. spoilt' = spoilt \/ spoilt' = (spoilt \/ p # NULL)
    BY <1>c, Zenon
  <2>2. ~spoilt
    BY <2>1
  <2> QED
    BY <1>c, <2>2, Zenon
<1>a. PICK n \in Nat : \E f \in [1 .. n -> Cells] : IsList(f, n)
  BY <1>0, <1>d DEF RegionsInv, Runs
<1>1. PICK f \in [1 .. n -> Cells] : IsList(f, n)
  BY <1>a
<1>2. WalkEnds /\ Walked = {f[i] : i \in 1 .. n}
  BY <1>0, <1>1, WalkIsList
<1>3. ListIs(f, n)
  BY <1>1, ListFacts
<1> USE DEF ListIs
<1>4. \/ /\ first = NULL
         /\ first' = c /\ cell' = [cell EXCEPT ![c] = new]
         /\ main' = [InApp EXCEPT !.pc = "init", !.cell = c]
         /\ excluded' = excluded \cup {a}
      \/ cell' = [cell EXCEPT ![c].next = p] /\ UNCHANGED <<first, main, excluded>>
      \/ /\ first # NULL /\ \A x \in Walked : ~HasAddr(x, a)
         /\ cell' = [cell EXCEPT ![c] = new, ![last].next = c]
         /\ main' = [InApp EXCEPT !.pc = "init", !.cell = c]
         /\ excluded' = excluded \cup {a}
         /\ UNCHANGED first
  <2> HIDE DEF last, made
  <2> QED
    BY <1>2, <1>c, Zenon
<1>5. \A i \in 1 .. n : f[i] # c
  BY <1>3, <1>d
<1>6. CASE cell' = [cell EXCEPT ![c].next = p] /\ UNCHANGED <<first, main, excluded>>
  <2>1. \A i \in 1 .. n : cell'[f[i]] = cell[f[i]]
    BY <1>0, <1>3, <1>5, <1>6
  <2>2. IsList(f, n)'
    BY <1>1, <1>6, <2>1, ListStays
  <2> QED
    BY <1>0, <1>1, <1>6, <2>2 DEF RegionsInv
<1>7. CASE /\ first = NULL
           /\ first' = c /\ cell' = [cell EXCEPT ![c] = new]
           /\ main' = [InApp EXCEPT !.pc = "init", !.cell = c]
           /\ excluded' = excluded \cup {a}
  <2>1. n = 0
    BY <1>3, <1>7
  <2>2. excluded' = {a}
    BY <1>3, <1>7, <2>1
  <2>3. cell'[c].used /\ cell'[c].addr = a /\ cell'[c].next = NULL
    BY <1>0, <1>7
  <2> DEFINE g == [i \in 1 .. 1 |-> c]
  <2>4. g \in [1 .. 1 -> Cells] /\ \A i \in 1 .. 1 : i = 1 /\ g[i] = c
    OBVIOUS
  <2> HIDE DEF g
  <2>5. Linked(g, 1)'
    BY <1>7, <2>3, <2>4 DEF Linked
  <2>6. Listed(g, 1)'
    BY <2>2, <2>3, <2>4 DEF Listed
  <2>7. IsList(g, 1)'
    BY <2>5, <2>6 DEF IsList
  <2>8. main'.pc = "init"
    BY <1>7 DEF InApp
  <2> QED
    BY <2>4, <2>7, <2>8 DEF RegionsInv
<1>8. CASE /\ first # NULL /\ \A x \in Walked : ~HasAddr(x, a)
           /\ cell' = [cell EXCEPT ![c] = new, ![last].next = c]
           /\ main' = [InApp EXCEPT !.pc = "init", !.cell = c]
           /\ excluded' = excluded \cup {a}
           /\ UNCHANGED first
  <2>1. n # 0 /\ n \in 1 .. n
    BY <1>3, <1>8
  <2>2. last = f[n]
    <3>1. f[n] \in Walked /\ cell[f[n]].next = NULL
      BY <1>2, <1>3, <2>1
    <3>2. \A x \in Walked : cell[x].next = NULL => x = f[n]
      <4> SUFFICES ASSUME NEW i \in 1 .. n, cell[f[i]].next = NULL PROVE i = n
        BY <1>2
      <4>1. i # n => i + 1 \in 1 .. n
        OBVIOUS
      <4> QED
        BY <1>3, <4>1
    <3> QED
      BY <3>1, <3>2
  <2> HIDE DEF last
  <2>3. cell' = [cell EXCEPT ![c] = new, ![f[n]].next = c] /\ f[n] \in Cells /\ f[n] # c
    BY <1>3, <1>5, <1>8, <2>1, <2>2
  <2>4. /\ cell'[c] = new
        /\ cell'[f[n]] = [cell[f[n]] EXCEPT !.next = c]
        /\ \A d \in Cells : d # c /\ d # f[n] => cell'[d] = cell[d]
    BY <1>0, <2>3
  <2>5. /\ cell'[c].used /\ cell'[c].addr = a /\ cell'[c].next = NULL
        /\ cell'[f[n]].used = cell[f[n]].used /\ cell'[f[n]].addr = cell[f[n]].addr
        /\ cell'[f[n]].next = c
    <3>1. cell[f[n]] \in CellTypes
      BY <1>0, <2>3
    <3> QED
      BY <2>4, <3>1 DEF CellTypes
  <2> DEFINE g == [i \in 1 .. n + 1 |-> IF i <= n THEN f[i] ELSE c]
  <2>6. g \in [1 .. n + 1 -> Cells] /\ g[n + 1] = c /\ \A i \in 1 .. n : g[i] = f[i]
    BY <1>1
  <2> HIDE DEF g
  <2>7. \A i \in 1 .. n : /\ cell'[g[i]].used /\ cell'[g[i]].addr = cell[f[i]].addr
                          /\ cell'[g[i]].next = IF i = n THEN c ELSE f[i + 1]
    <3> TAKE i \in 1 .. n
    <3>1. CASE i = n
      BY <1>3, <2>5, <2>6, <3>1
    <3>2. CASE i # n
      <4>1. f[i] \in Cells /\ f[i] # c /\ f[i] # f[n] /\ g[i] = f[i]
        BY <1>3, <1>5, <2>1, <2>6, <3>2
      <4>2. cell'[g[i]] = cell[f[i]]
        BY <2>4, <4>1
      <4> QED
        BY <1>3, <3>2, <4>2
    <3> QED
      BY <3>1, <3>2
  <2>8. \A i \in 1 .. n + 1 : i \in 1 .. n \/ i = n + 1
    OBVIOUS
  <2>9. Linked(g, n + 1)'
    <3>1. ASSUME NEW i \in 1 .. n + 1
          PROVE  cell'[g[i]].next = IF i = n + 1 THEN NULL ELSE g[i + 1]
      <4>1. CASE i = n + 1
        BY <2>5, <2>6, <4>1
      <4>2. CASE i = n
        BY <2>1, <2>6, <2>7, <4>2
      <4>3. CASE i # n /\ i # n + 1
        <5>1. i \in 1 .. n /\ i + 1 \in 1 .. n
          BY <4>3
        <5> QED
          BY <2>6, <2>7, <4>3, <5>1
      <4> QED
        BY <4>1, <4>2, <4>3
    <3>2. first' = g[1] /\ n + 1 # 0
      BY <1>3, <1>8, <2>1, <2>6
    <3> QED
      BY <2>6, <3>1, <3>2 DEF Linked
  <2>10. \A i \in 1 .. n : cell[f[i]].addr # a
    BY <1>2, <1>3, <1>8 DEF HasAddr
  <2>11. Listed(g, n + 1)'
    <3>1. \A i \in 1 .. n + 1 : cell'[g[i]].used
      BY <2>5, <2>6, <2>7, <2>8
    <3>2. ASSUME NEW i \in 1 .. n + 1, NEW j \in 1 .. n + 1, cell'[g[i]].addr = cell'[g[j]].addr
          PROVE  i = j
      BY <1>3, <2>5, <2>6, <2>7, <2>8, <2>10, <3>2
    <3>3. excluded' = {cell'[g[i]].addr : i \in 1 .. n + 1}
      <4>1. \A i \in 1 .. n + 1 : cell'[g[i]].addr \in excluded'
        <5> TAKE i \in 1 .. n + 1
        <5>1. CASE i = n + 1
          BY <1>8, <2>5, <2>6, <5>1
        <5>2. CASE i \in 1 .. n
          <6>1. cell[f[i]].addr \in excluded /\ cell'[g[i]].addr = cell[f[i]].addr
            BY <1>3, <2>7, <5>2
          <6> QED
            BY <1>8, <6>1
        <5> QED
          BY <2>8, <5>1, <5>2
      <4>2. \A b \in excluded' : \E i \in 1 .. n + 1 : b = cell'[g[i]].addr
        <5> SUFFICES ASSUME NEW b \in excluded' PROVE \E i \in 1 .. n + 1 : b = cell'[g[i]].addr
          OBVIOUS
        <5>1. CASE b = a
          BY <2>5, <2>6, <5>1
        <5>2. CASE b # a
          <6>1. PICK i \in 1 .. n : b = cell[f[i]].addr
            BY <1>3, <1>8, <5>2
          <6> QED
            BY <2>7, <6>1
        <5> QED
          BY <5>1, <5>2
      <4> QED
        BY <4>1, <4>2
    <3> QED
      BY <3>1, <3>2, <3>3 DEF Listed
  <2>12. IsList(g, n + 1)'
    BY <2>9, <2>11 DEF IsList
  <2>13. main'.pc = "init"
    BY <1>8 DEF InApp
  <2> QED
    BY <2>6, <2>12, <2>13 DEF RegionsInv
<1> QED
  BY <1>4, <1>6, <1>7, <1>8

(* cr_exclude_off links the region's predecessor to its successor.         *)
LEMMA OffKeepsList ==
  ASSUME TypeInv, RegionsInv, NEW a \in Addrs, cr_exclude_off(a)
  PROVE  RegionsInv'
<1>0. main.pc = "app" /\ TypeOK /\ cell \in [Cells -> CellTypes] /\ NCells \in Nat
  BY CellsFinite DEF cr_exclude_off, Calls, TypeInv, TypeOK, CellTypes, Ptrs
<1> SUFFICES ASSUME ~spoilt' PROVE RegionsInv'
  BY DEF RegionsInv
<1>a. PICK n \in Nat : \E f \in [1 .. n -> Cells] : IsList(f, n)
  <2>1. ~spoilt
    BY DEF cr_exclude_off
  <2> QED
    BY <1>0, <2>1 DEF RegionsInv, Runs
<1>1. PICK f \in [1 .. n -> Cells] : IsList(f, n)
  BY <1>a
<1>2. WalkEnds /\ \A k \in 1 .. NCells + 1 : Nth[k] = IF k <= n THEN f[k] ELSE NULL
  BY <1>0, <1>1, WalkIsList
<1>3. ListIs(f, n)
  BY <1>1, ListFacts
<1> USE DEF ListIs
<1>4. CASE UNCHANGED <<regionVars, main, excluded>>
  <2>1. IsList(f, n)'
    BY <1>1, <1>4, ListStays DEF regionVars
  <2> QED
    BY <1>0, <1>1, <1>4, <2>1 DEF RegionsInv
<1>5. ASSUME NEW k \in 1 .. NCells, Nth[k] # NULL, HasAddr(Nth[k], a),
             IF k = 1
             THEN first' = cell[Nth[k]].next /\ cell' = Freed(cell, Nth[k])
             ELSE /\ cell' = Freed([cell EXCEPT ![Nth[k - 1]].next = cell[Nth[k]].next], Nth[k])
                  /\ UNCHANGED first,
             excluded' = excluded \ {a}, UNCHANGED main
      PROVE  RegionsInv'
  <2>1. k \in 1 .. n /\ Nth[k] = f[k] /\ (k # 1 => k - 1 \in 1 .. n /\ Nth[k - 1] = f[k - 1])
    <3>1. k \in 1 .. NCells + 1 /\ (k # 1 => k - 1 \in 1 .. NCells + 1)
      BY <1>0
    <3>2. k <= n
      BY <1>2, <1>5, <3>1
    <3> QED
      BY <1>2, <3>1, <3>2
  <2> DEFINE x == f[k]
             nx == IF k = n THEN NULL ELSE f[k + 1]
             h == IF k = 1 THEN cell ELSE [cell EXCEPT ![f[k - 1]].next = nx]
  <2>2. cell[x].next = nx /\ cell[x].addr = a /\ x \in Cells
    BY <1>3, <1>5, <2>1 DEF HasAddr
  <2>3. cell' = Freed(h, x) /\ first' = IF k = 1 THEN nx ELSE first
    BY <1>5, <2>1, <2>2, Zenon
  <2>4. nx \in Ptrs
    BY <1>3, <2>1 DEF Ptrs
  <2> HIDE DEF x, nx
  <2>5. /\ h \in [Cells -> CellTypes]
        /\ \A d \in Cells : /\ h[d].used = cell[d].used /\ h[d].addr = cell[d].addr
                            /\ h[d].next = IF k # 1 /\ d = f[k - 1] THEN nx ELSE cell[d].next
    <3>1. CASE k = 1
      BY <1>0, <3>1
    <3>2. CASE k # 1
      <4>1. f[k - 1] \in Cells
        BY <1>3, <2>1, <3>2
      <4>2. h = [cell EXCEPT ![f[k - 1]].next = nx]
        BY <3>2
      <4> HIDE DEF h
      <4> DEFINE p == f[k - 1]
      <4>3. p \in Cells /\ h = [cell EXCEPT ![p].next = nx]
        BY <4>1, <4>2
      <4> HIDE DEF p
      <4>4. h \in [Cells -> CellTypes]
        BY <1>0, <2>4, <4>3, HeapValues
      <4>5. ASSUME NEW d \in Cells
            PROVE  /\ h[d].used = cell[d].used /\ h[d].addr = cell[d].addr
                   /\ h[d].next = IF d = p THEN nx ELSE cell[d].next
        <5>1. cell[d] \in CellTypes
          BY <1>0
        <5>2. h[d] = IF d = p THEN [cell[d] EXCEPT !.next = nx] ELSE cell[d]
          BY <1>0, <4>3
        <5> QED
          BY <5>1, <5>2 DEF CellTypes
      <4> QED
        BY <3>2, <4>4, <4>5 DEF p
    <3> QED
      BY <3>1, <3>2
  <2> HIDE DEF h
  <2>6. \A d \in Cells : d # x =>
          /\ cell'[d].used = cell[d].used /\ cell'[d].addr = cell[d].addr
          /\ cell'[d].next = IF k # 1 /\ d = f[k - 1] THEN nx ELSE cell[d].next
    <3>1. \A d \in Cells : d # x => cell'[d] = h[d]
      BY <2>2, <2>3, <2>5 DEF Freed
    <3> QED
      BY <2>5, <3>1
  <2> DEFINE g == [i \in 1 .. n - 1 |-> IF i < k THEN f[i] ELSE f[i + 1]]
             from(i) == IF i < k THEN i ELSE i + 1
  <2>7. n - 1 \in Nat
    BY <2>1
  <2>8. \A i \in 1 .. n - 1 : from(i) \in 1 .. n /\ from(i) # k /\ g[i] = f[from(i)]
    BY <2>1, <2>7
  <2>9. g \in [1 .. n - 1 -> Cells]
    BY <1>3, <2>7, <2>8
  <2>a. \A i, j \in 1 .. n - 1 : from(i) = from(j) => i = j
    BY <2>1, <2>7
  <2>b. \A m \in 1 .. n : m # k => \E i \in 1 .. n - 1 : from(i) = m
    <3> TAKE m \in 1 .. n
    <3>1. CASE m < k
      <4>1. m \in 1 .. n - 1 /\ from(m) = m
        BY <2>1, <3>1
      <4> QED
        BY <4>1
    <3>2. CASE m > k
      <4>1. m - 1 \in 1 .. n - 1 /\ from(m - 1) = m
        BY <2>1, <3>2
      <4> QED
        BY <4>1
    <3> QED
      BY <2>1, <3>1, <3>2
  <2> HIDE DEF g
  <2>10. \A i \in 1 .. n - 1 : /\ g[i] # x /\ g[i] \in Cells
                               /\ cell'[g[i]].used /\ cell'[g[i]].addr = cell[f[from(i)]].addr
    BY <1>3, <2>1, <2>6, <2>8, <2>9, SMTT(30) DEF x
  <2>11. Linked(g, n - 1)'
    <3>1. ASSUME NEW i \in 1 .. n - 1
          PROVE  cell'[g[i]].next = IF i = n - 1 THEN NULL ELSE g[i + 1]
      <4>0. cell'[g[i]].next = IF k # 1 /\ g[i] = f[k - 1] THEN nx ELSE cell[g[i]].next
        BY <2>6, <2>10
      <4>1. CASE i = k - 1
        <5>1. k # 1 /\ g[i] = f[k - 1]
          BY <2>1, <2>8, <4>1
        <5>2. CASE k = n
          BY <4>0, <4>1, <5>1, <5>2 DEF nx
        <5>3. CASE k # n
          <6>1. k \in 1 .. n - 1 /\ from(k) = k + 1 /\ i # n - 1 /\ i + 1 = k
            BY <2>1, <4>1, <5>3
          <6>2. g[k] = f[k + 1]
            BY <2>8, <6>1
          <6> QED
            BY <4>0, <5>1, <5>3, <6>1, <6>2 DEF nx
        <5> QED
          BY <5>2, <5>3
      <4>2. CASE i # k - 1
        <5> DEFINE m == from(i)
        <5>1. m \in 1 .. n /\ g[i] = f[m] /\ m # k /\ (k # 1 => m # k - 1)
          BY <2>1, <2>8, <4>2
        <5>2. k # 1 => f[m] # f[k - 1]
          BY <1>3, <2>1, <5>1
        <5>3. cell'[g[i]].next = IF m = n THEN NULL ELSE f[m + 1]
          BY <1>3, <4>0, <5>1, <5>2
        <5>4. m = n <=> i = n - 1
          BY <2>1, <4>2
        <5>5. i # n - 1 => i + 1 \in 1 .. n - 1 /\ from(i + 1) = m + 1
          BY <2>1, <4>2
        <5> QED
          BY <2>8, <5>3, <5>4, <5>5
      <4> QED
        BY <4>1, <4>2
    <3>2. first' = IF n - 1 = 0 THEN NULL ELSE g[1]
      <4>1. CASE k = 1
        <5>1. CASE n = 1
          BY <2>3, <4>1, <5>1 DEF nx
        <5>2. CASE n # 1
          <6>1. 1 \in 1 .. n - 1 /\ from(1) = 2 /\ n - 1 # 0
            BY <2>1, <4>1, <5>2
          <6> QED
            BY <2>3, <2>8, <4>1, <5>2, <6>1 DEF nx
        <5> QED
          BY <5>1, <5>2
      <4>2. CASE k # 1
        <5>1. 1 \in 1 .. n - 1 /\ from(1) = 1 /\ n - 1 # 0 /\ n # 0
          BY <2>1, <4>2
        <5> QED
          BY <1>3, <2>3, <2>8, <4>2, <5>1
      <4> QED
        BY <4>1, <4>2
    <3> QED
      BY <2>9, <3>1, <3>2 DEF Linked
  <2>12. Listed(g, n - 1)'
    <3>1. ASSUME NEW i \in 1 .. n - 1, NEW j \in 1 .. n - 1, cell'[g[i]].addr = cell'[g[j]].addr
          PROVE  i = j
      <4>1. from(i) = from(j)
        BY <1>3, <2>8, <2>10, <3>1
      <4> QED
        BY <2>a, <4>1
    <3>2. \A i \in 1 .. n - 1 : cell'[g[i]].addr \in excluded'
      <4> TAKE i \in 1 .. n - 1
      <4> DEFINE m == from(i)
      <4>1. m \in 1 .. n /\ m # k /\ cell'[g[i]].addr = cell[f[m]].addr
        BY <2>8, <2>10
      <4> HIDE DEF m
      <4>2. cell[f[m]].addr # a /\ cell[f[m]].addr \in excluded
        BY <1>3, <2>1, <2>2, <4>1 DEF x
      <4> QED
        BY <1>5, <4>1, <4>2
    <3>3. \A b \in excluded' : \E i \in 1 .. n - 1 : b = cell'[g[i]].addr
      <4> SUFFICES ASSUME NEW b \in excluded' PROVE \E i \in 1 .. n - 1 : b = cell'[g[i]].addr
        OBVIOUS
      <4>1. PICK m \in 1 .. n : b = cell[f[m]].addr
        BY <1>3, <1>5
      <4>2. m # k
        BY <1>5, <2>2, <4>1 DEF x
      <4>3. PICK i \in 1 .. n - 1 : from(i) = m
        BY <2>b, <4>2
      <4> QED
        BY <2>10, <4>1, <4>3
    <3>4. excluded' = {cell'[g[i]].addr : i \in 1 .. n - 1}
      BY <3>2, <3>3
    <3> QED
      BY <2>10, <3>1, <3>4 DEF Listed
  <2>13. IsList(g, n - 1)'
    BY <2>11, <2>12 DEF IsList
  <2> QED
    BY <1>0, <1>5, <2>7, <2>9, <2>13 DEF RegionsInv
<1> QED
  BY <1>2, <1>4, <1>5 DEF cr_exclude_off

(* Through every step, the list is one, and what a callback has been told  *)
(* of it is what is excluded, until it is spoilt.                          *)
Told == cb.pc \in {"children", "answer"} /\ ~spoilt => cb.seen = {"self"} \X excluded

(* Proved once for all the steps that leave the regions alone.             *)
LEMMA RegionsStay ==
  ASSUME RegionsInv, Runs, UNCHANGED <<first, excluded, spoilt>>, main'.pc # "spin" \/ main'.pc = main.pc,
         \A c \in Cells : /\ cell'[c].used = cell[c].used
                          /\ cell'[c].addr = cell[c].addr
                          /\ cell'[c].next = cell[c].next
  PROVE  RegionsInv'
<1> SUFFICES ASSUME ~spoilt PROVE RegionsInv'
  BY DEF RegionsInv
<1>a. PICK n \in Nat : \E f \in [1 .. n -> Cells] : IsList(f, n)
  BY DEF RegionsInv
<1>1. PICK f \in [1 .. n -> Cells] : IsList(f, n)
  BY <1>a
<1>2. IsList(f, n)'
  BY <1>1, ListStays
<1> QED
  BY <1>1, <1>2 DEF RegionsInv

(* The steps of the children, of their list and of the callbacks that walk *)
(* it leave the regions, and what was told, alone.                         *)
LEMMA OthersKeep ==
  ASSUME TypeInv, RegionsInv, Told,
         \/ ForkParent \/ parent_after_fork \/ add_child \/ LinkChild \/ FirstChild
         \/ handle_sigchild
         \/ \E k \in Kids : ChildWrites(k) \/ ChildChanges(k)
         \/ \E kind \in {"chkpt", "rst"} : CallbackStarts(kind)
         \/ TellChild \/ ChildAnswers \/ CallbackEnds
         \/ UNCHANGED vars
  PROVE  RegionsInv' /\ Told'
<1>1. UNCHANGED <<first, cell, excluded, spoilt>>
  BY DEF ForkParent, parent_after_fork, add_child, LinkChild, FirstChild, handle_sigchild, ChildWrites,
         ChildChanges, CallbackStarts, TellChild, ChildAnswers, CallbackEnds, vars, regionVars, libVars
<1>2. main' = main \/ (Runs /\ main'.pc # "spin") \/ main'.pc = "crashed"
  <2>1. CASE ForkParent
    <3>1. PICK k \in Kids : main' = [InApp EXCEPT !.pc = "read", !.child = k, !.pid = k]
      BY <2>1, Zenon DEF ForkParent, Unborn
    <3> QED
      BY <2>1, <3>1 DEF ForkParent, Calls, InApp, Runs
  <2>2. CASE parent_after_fork
    BY <2>2 DEF parent_after_fork, TypeInv, MainTypes, Runs
  <2>3. CASE FirstChild
    BY <2>3 DEF FirstChild, InApp, Runs
  <2>4. CASE add_child
    <3>1. Runs
      BY <2>4 DEF add_child, Runs
    <3>2. \/ main' = InApp
          \/ \E q \in {"first_child", "next"} : \E l : main' = [main EXCEPT !.pc = q, !.list = l]
      BY <2>4, Zenon DEF add_child
    <3>3. ASSUME NEW q \in {"first_child", "next"}, NEW l, main' = [main EXCEPT !.pc = q, !.list = l]
          PROVE  main'.pc # "spin"
      BY <3>3 DEF TypeInv, MainTypes
    <3>4. CASE main' = InApp
      BY <3>1, <3>4 DEF InApp
    <3> QED
      BY <3>1, <3>2, <3>3, <3>4
  <2>5. CASE LinkChild
    <3>1. Runs
      BY <2>5 DEF LinkChild, Runs
    <3>2. \/ main' = Crashed
          \/ \E l : main' = [main EXCEPT !.pc = "first_child", !.list = l]
      BY <2>5, Zenon DEF LinkChild
    <3>3. ASSUME NEW l, main' = [main EXCEPT !.pc = "first_child", !.list = l]
          PROVE  main'.pc # "spin"
      BY <3>3 DEF TypeInv, MainTypes
    <3>4. main' = Crashed => main'.pc = "crashed"
      BY MainValues
    <3> QED
      BY <3>1, <3>2, <3>3, <3>4
  <2>6. CASE handle_sigchild
    <3>1. CASE main' = Crashed
      BY <3>1, MainValues
    <3>2. CASE main' = main
      BY <3>2
    <3>3. CASE main.pc = "read" /\ main' = [main EXCEPT !.pid = "junk"]
      BY <3>3 DEF Runs, TypeInv, MainTypes
    <3>4. CASE main.pc = "next" /\ main' = [main EXCEPT !.list = <<sigchld, "wild">>]
      BY <3>4 DEF Runs, TypeInv, MainTypes
    <3> QED
      BY <2>6, <3>1, <3>2, <3>3, <3>4, SigchldMain
  <2>7. CASE \E kind \in {"chkpt", "rst"} : CallbackStarts(kind)
    BY <2>7 DEF CallbackStarts, Interrupts, Runs, TypeInv, MainTypes
  <2>8. CASE TellChild
    BY <2>8, MainValues DEF TellChild
  <2>9. CASE \/ \E k \in Kids : ChildWrites(k) \/ ChildChanges(k)
             \/ ChildAnswers \/ CallbackEnds \/ UNCHANGED vars
    BY <2>9 DEF ChildWrites, ChildChanges, ChildAnswers, CallbackEnds, vars
  <2> QED
    BY <2>1, <2>2, <2>3, <2>4, <2>5, <2>6, <2>7, <2>8, <2>9
<1>3. RegionsInv'
  <2>1. CASE main'.pc = "crashed" \/ (main' = main /\ ~Runs)
    BY <2>1 DEF RegionsInv, Runs
  <2>2. CASE Runs /\ (main' = main \/ main'.pc # "spin")
    BY <1>1, <2>2, RegionsStay
  <2> QED
    BY <1>2, <2>1, <2>2
<1>4. \/ cb' = cb \/ cb'.pc \in {"off", "regions"}
      \/ (cb.pc \in {"children", "answer"} /\ cb'.seen = cb.seen)
  <2>1. CASE TellChild
    BY <2>1 DEF TellChild, TypeInv, CbTypes, NoCb
  <2>2. CASE ChildAnswers
    BY <2>2 DEF ChildAnswers, TypeInv, CbTypes
  <2>3. CASE CallbackEnds
    BY <2>3 DEF CallbackEnds, NoCb
  <2>4. ASSUME NEW kind \in {"chkpt", "rst"}, CallbackStarts(kind) PROVE cb'.pc = "regions"
    BY <2>4 DEF CallbackStarts, NoCb
  <2>5. CASE \/ ForkParent \/ parent_after_fork \/ add_child \/ LinkChild \/ FirstChild
             \/ handle_sigchild
             \/ \E k \in Kids : ChildWrites(k) \/ ChildChanges(k)
             \/ UNCHANGED vars
    BY <2>5 DEF ForkParent, parent_after_fork, add_child, LinkChild, FirstChild, handle_sigchild,
                ChildWrites, ChildChanges, vars
  <2> QED
    BY <2>1, <2>2, <2>3, <2>4, <2>5
<1>5. Told'
  BY <1>1, <1>4 DEF Told
<1> QED
  BY <1>3, <1>5

(* Every step.                                                             *)
LEMMA RegionsStep ==
  ASSUME TypeInv, RegionsInv, Told, [Next]_vars
  PROVE  RegionsInv' /\ Told'
<1> DEFINE seen == {<<"self", cell[c].addr>> : c \in Walked}
<1>0. TypeOK /\ (Runs /\ ~spoilt => seen = {"self"} \X excluded)
  BY ListMeans DEF TypeInv
<1> HIDE DEF seen
<1>1. ASSUME NEW a \in Addrs, cr_exclude_on(a) \/ cr_exclude_off(a)
      PROVE  RegionsInv' /\ Told'
  <2>1. RegionsInv'
    BY <1>1, OnKeepsList, OffKeepsList
  <2>2. cb.pc = "off" /\ cb' = cb
    BY <1>1 DEF cr_exclude_on, cr_exclude_off, Calls, Rest
  <2> QED
    BY <2>1, <2>2 DEF Told
<1>2. CASE cr_mm_exclusion_exit
  <2>1. cb.pc = "off" /\ cb' = cb /\ spoilt' = spoilt
    BY <1>2 DEF cr_mm_exclusion_exit, Calls
  <2>2. ~spoilt => main'.pc \in {"exited", "crashed"}
    <3> SUFFICES ASSUME ~spoilt PROVE main'.pc \in {"exited", "crashed"}
      OBVIOUS
    <3>1. WalkEnds
      BY <1>2, ListMeans DEF TypeInv, RegionsListed, cr_mm_exclusion_exit, Calls, Runs
    <3> QED
      BY <1>2, <3>1, MainValues DEF cr_mm_exclusion_exit, Calls, InApp
  <2> QED
    BY <2>1, <2>2 DEF RegionsInv, Told, Runs
<1>4. CASE child_after_fork
  <2>1. \A c \in Cells : /\ cell'[c].used = cell[c].used
                         /\ cell'[c].addr = cell[c].addr
                         /\ cell'[c].next = cell[c].next
    <3> TAKE c \in Cells
    <3>1. cell[c] \in CellTypes
      BY <1>0 DEF TypeOK, CellTypes, Ptrs
    <3>2. cell'[c] = [cell[c] EXCEPT !.pid = IF @ = "self" THEN "parent" ELSE @]
      BY <1>4 DEF child_after_fork, ForkedChild
    <3> QED
      BY <3>1, <3>2 DEF CellTypes
  <2>2. main.pc = "app" /\ cb.pc = "off" /\ UNCHANGED <<first, excluded, spoilt, cb>>
    BY <1>4 DEF child_after_fork, ForkedChild, Calls, libVars
  <2>3. main'.pc # "spin" /\ Runs
    BY <1>4, <2>2, MainValues DEF child_after_fork, Runs
  <2>4. RegionsInv'
    BY <2>1, <2>2, <2>3, RegionsStay
  <2> QED
    BY <2>2, <2>4 DEF Told
<1>5. CASE cr_mm_exclusion_checkpoint_cb \/ cr_mm_exclusion_restart_cb
  <2>1. cb.pc = "regions" /\ UNCHANGED <<first, excluded, spoilt, main>>
    BY <1>5 DEF cr_mm_exclusion_checkpoint_cb, cr_mm_exclusion_restart_cb, regionVars, libVars
  <2>2. Runs
    BY <2>1 DEF TypeInv
  <2>3. \A c \in Cells : /\ cell'[c].used = cell[c].used
                         /\ cell'[c].addr = cell[c].addr
                         /\ cell'[c].next = cell[c].next
    <3> TAKE c \in Cells
    <3>1. cell[c] \in CellTypes
      BY <1>0 DEF TypeOK, CellTypes, Ptrs
    <3>2. cell'[c] = cell[c] \/ cell'[c] = [cell[c] EXCEPT !.pid = "self"]
      BY <1>5 DEF cr_mm_exclusion_checkpoint_cb, cr_mm_exclusion_restart_cb, regionVars
    <3> QED
      BY <3>1, <3>2 DEF CellTypes
  <2>4. RegionsInv'
    BY <2>1, <2>2, <2>3, RegionsStay
  <2>5. cb' = NoCb \/ cb' = [cb EXCEPT !.pc = "children", !.left = children, !.seen = seen]
    BY <1>5 DEF cr_mm_exclusion_checkpoint_cb, cr_mm_exclusion_restart_cb, seen
  <2>6. Told'
    <3>1. CASE cb' = NoCb
      BY <3>1 DEF Told, NoCb
    <3>2. CASE cb' = [cb EXCEPT !.pc = "children", !.left = children, !.seen = seen]
      <4>1. cb'.seen = seen
        BY <3>2 DEF TypeInv, CbTypes
      <4> QED
        BY <1>0, <2>1, <2>2, <4>1, Zenon DEF Told
    <3> QED
      BY <2>5, <3>1, <3>2
  <2> QED
    BY <2>4, <2>6
<1>6. CASE cr_mm_exclusion_init
  <2>1. main.pc = "init" /\ cb.pc = "off" /\ UNCHANGED <<first, cb>> /\ main'.pc = "app" /\ Runs
    BY <1>6 DEF cr_mm_exclusion_init, InApp, Rest, Runs
  <2>2. spoilt' = TRUE \/ UNCHANGED <<cell, excluded, spoilt>>
    BY <1>6 DEF cr_mm_exclusion_init
  <2>3. RegionsInv'
    <3>1. CASE spoilt' = TRUE
      BY <3>1 DEF RegionsInv
    <3>2. CASE UNCHANGED <<cell, excluded, spoilt>>
      BY <2>1, <3>2, RegionsStay
    <3> QED
      BY <2>2, <3>1, <3>2
  <2> QED
    BY <2>1, <2>3 DEF Told
<1>7. CASE \/ ForkParent \/ parent_after_fork \/ add_child \/ LinkChild \/ FirstChild
           \/ handle_sigchild
           \/ \E k \in Kids : ChildWrites(k) \/ ChildChanges(k)
           \/ \E kind \in {"chkpt", "rst"} : CallbackStarts(kind)
           \/ TellChild \/ ChildAnswers \/ CallbackEnds
           \/ UNCHANGED vars
  BY <1>7, OthersKeep
<1> QED
  BY <1>1, <1>2, <1>4, <1>5, <1>6, <1>7 DEF Next

(* Initially no region is excluded.                                        *)
LEMMA RegionsInit ==
  ASSUME Init PROVE RegionsInv /\ Told
<1> DEFINE g == [i \in 1 .. 0 |-> NULL]
<1>1. g \in [1 .. 0 -> Cells]
  OBVIOUS
<1> HIDE DEF g
<1>2. IsList(g, 0)
  BY <1>1 DEF IsList, Linked, Listed, Init
<1> QED
  BY <1>1, <1>2 DEF Init, RegionsInv, Told, InApp, NoCb

(* Both in every behaviour, with the types they need.                      *)
LEMMA RegionsAlways ==
  Spec => [](TypeInv /\ RegionsInv /\ Told)
<1>1. Init => RegionsInv /\ Told
  BY RegionsInit
<1>2. TypeInv /\ (RegionsInv /\ Told) /\ [Next]_vars => (RegionsInv /\ Told)'
  BY RegionsStep
<1> QED
  BY <1>1, <1>2, ChildrenAlways, PTL DEF Spec

(* The list holds exactly the excluded regions, each once, and ends,       *)
(* through any number of cr_exclude_on and cr_exclude_off that recycle the *)
(* cells, until malloc has left something in the next of a region that is  *)
(* linked, or a failed initialisation has freed one: nothing else that the *)
(* library does spoils it.                                                 *)
THEOREM ListHoldsExcluded == Spec => []RegionsListed
<1>1. TypeInv /\ RegionsInv => RegionsListed
  BY ListMeans DEF TypeInv
<1> QED
  BY <1>1, RegionsAlways, PTL

(* What a callback gives to the kernel has the pid of the process itself,  *)
(* after any fork and in the middle of any call of the library, and is     *)
(* what the application excludes as long as the list is not spoilt.        *)
THEOREM KernelToldExcluded == Spec => []HandedOver
<1>1. TypeInv /\ Told => HandedOver
  <2> SUFFICES ASSUME TypeInv, Told PROVE HandedOver
    OBVIOUS
  <2>1. cb.seen \in SUBSET ({"self"} \X (Addrs \cup {"junk"}))
    BY DEF TypeInv, CbTypes
  <2>2. \A s \in cb.seen : s[1] = "self"
    BY <2>1
  <2> QED
    BY <2>2, Zenon DEF Told, HandedOver
<1> QED
  BY <1>1, RegionsAlways, PTL

=============================================================================
