---------------------------- MODULE MCCapSession ----------------------------
(* A small session: one shell, krgcapset commands k1 and k2, launcher l1.  *)
EXTENDS CapSession

CONSTANTS sh, init, k1, k2, l1, a1

AppOf == [l \in Launchers |-> a1]

Opt(set, kind, names) == [set |-> set, kind |-> kind, names |-> names]

Arg(pid, force, opts) == [pid |-> pid, force |-> force, opts |-> opts]

(* Show; sets replaced, after a question, by a list with a mistyped name   *)
(* and by a number with a bit that means nothing; two options on one set;  *)
(* an option on the launcher while it is at work; and one that takes its   *)
(* capability away without a question.                                     *)
SomeInvocations == {
  Arg("father", FALSE, <<>>),
  Arg("father", FALSE, <<Opt("effective", "=", {Checkpointable, "mistyped"}),
                         Opt("permitted", "number", {Checkpointable, "other bit"}),
                         Opt("inheritable_permitted", "-", Caps),
                         Opt("inheritable_permitted", "+", {Change})>>),
  Arg(l1, FALSE, <<Opt("inheritable_effective", "+", {Checkpointable})>>),
  Arg(l1, TRUE, <<Opt("permitted", "-", {Change})>>) }

Run(b, s, o, n) == [b |-> b, s |-> s, o |-> o, n |-> n]
SomeRuns == { Run(FALSE, TRUE, FALSE, FALSE), Run(TRUE, FALSE, TRUE, FALSE),
              Run(TRUE, TRUE, FALSE, TRUE) }

(* CHECKPOINTABLE is permitted everywhere but inherited by no one yet.     *)
SomeCaps == { [m \in Members |-> IF m = "inheritable_effective" THEN {Change} ELSE Caps] }
=============================================================================
