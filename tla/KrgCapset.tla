----------------------------- MODULE KrgCapset ------------------------------
(***************************************************************************)
(* tools/krgcapset.c: a command reads all four capability sets of a        *)
(* process, applies its options to them in order, asks when the process    *)
(* would lose the capability to change its capabilities, and writes all    *)
(* four sets back.  Other commands, and the processes, act in between.     *)
(***************************************************************************)
EXTENDS Capabilities

CONSTANTS
  Setters,      \* krgcapset processes
  Invocations   \* their arguments: -k or the father, -f, and -e, -p, -d, -i

(* An argument is a list of names that adds to the set ("+"), removes from *)
(* it ("-") or replaces it ("="), and a name may be mistyped; or it is a   *)
(* number, and replaces the set by whatever bits the number has.           *)
Options == [set : Members, kind : {"+", "-", "="}, names : SUBSET (Caps \cup {"mistyped"})]
             \cup [set : Members, kind : {"number"}, names : SUBSET Bits]

ASSUME SetterAssumption ==
  Invocations \subseteq [pid : Procs \cup {"father"}, force : BOOLEAN, opts : Seq(Options)]

VARIABLE kset   \* for each command: where it is, its options, initial_caps

IdleSet == [pc |-> "idle", father |-> Init1, pid |-> "father", force |-> FALSE,
            opts |-> <<>>, new |-> NoCaps, asked |-> FALSE, r |-> "ok"]

SetKset(k, rec) == kset' = [kset EXCEPT ![k] = rec]
Exit(k, r) == SetKset(k, [IdleSet EXCEPT !.pc = "done", !.r = r])

(* krg_father_capget and krg_father_capset act on whoever is the father    *)
(* when they are called.                                                   *)
Father(k) == IF kset[k].father \in alive THEN kset[k].father ELSE Init1
Target(k) == IF kset[k].pid = "father" THEN Father(k) ELSE kset[k].pid

-----------------------------------------------------------------------------
(* Mutant: a name that matches no capability sets a bit all the same.      *)
ConstructUnmatched(names) == names

(* Names that are not those of a capability are reported, and ignored.     *)
construct_capability(names) == names \cap Caps

(* Mutant: a "+" argument forgets the old set.                             *)
UpdateForgets(o, old) ==
  CASE o.kind = "-" -> old \ construct_capability(o.names)
    [] o.kind = "number" -> o.names
    [] OTHER -> construct_capability(o.names)

(* update_capability, and the test for a number before it.                 *)
update_capability(o, old) ==
  CASE o.kind = "+" -> construct_capability(o.names) \cup old
    [] o.kind = "-" -> old \ construct_capability(o.names)
    [] o.kind = "number" -> o.names
    [] OTHER -> construct_capability(o.names)

(* The second pass over the options.                                       *)
Applied(opts, c) ==
  LET acc[i \in 0 .. Len(opts)] ==
        IF i = 0 THEN c
        ELSE [acc[i - 1] EXCEPT ![opts[i].set] = update_capability(opts[i], @)]
  IN acc[Len(opts)]

(* Mutant: the question is only asked when both sets lose it.              *)
LosesBoth(c) == Change \notin c["permitted"] /\ Change \notin c["effective"]

Loses(c) == Change \notin c["permitted"] \/ Change \notin c["effective"]

-----------------------------------------------------------------------------
(* main: the first pass.  Arguments that are refused, or a kernel that     *)
(* does not tell the supported capabilities, end the command at once.      *)
krgcapset(k) ==
  /\ kset[k].pc = "idle"
  /\ \E s \in Shells \cap alive, arg \in Invocations :
       SetKset(k, [IdleSet EXCEPT !.pc = "get", !.father = s, !.pid = arg.pid,
                                  !.force = arg.force, !.opts = arg.opts])
  /\ UNCHANGED capVars

KsetFails(k) ==
  /\ kset[k].pc \in {"idle", "get", "set"}
  /\ Exit(k, "fail")
  /\ UNCHANGED capVars

(* get_caps_for_pid, and then the second pass; without options the sets    *)
(* are shown.                                                              *)
get_caps_for_pid(k) ==
  /\ kset[k].pc = "get" /\ CanGet(Target(k))
  /\ LET c == Applied(kset[k].opts, caps[Target(k)])
     IN \/ kset[k].opts = <<>> /\ Exit(k, "ok")
        \/ /\ kset[k].opts # <<>>
           /\ SetKset(k, [kset[k] EXCEPT !.new = c,
                            !.pc = IF ~kset[k].force /\ Loses(c) THEN "ask" ELSE "set"])
  /\ UNCHANGED capVars

(* The first y, n, newline or end of file decides; only y goes on.         *)
Answer(k, yes) ==
  /\ kset[k].pc = "ask"
  /\ IF yes THEN SetKset(k, [kset[k] EXCEPT !.pc = "set", !.asked = TRUE]) ELSE Exit(k, "ok")
  /\ UNCHANGED capVars

set_caps_for_pid(k) ==
  /\ kset[k].pc = "set" /\ CanSet(Target(k))
  /\ Set(Target(k), kset[k].new)
  /\ Exit(k, "ok")

KsetStep(k) == \/ krgcapset(k) \/ KsetFails(k) \/ get_caps_for_pid(k)
               \/ set_caps_for_pid(k) \/ \E yes \in BOOLEAN : Answer(k, yes)
=============================================================================
