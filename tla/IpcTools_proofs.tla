-------------------------- MODULE IpcTools_proofs ---------------------------
(***************************************************************************)
(* For any number of commands, paths and types: requests are only made on  *)
(* opened files, no failed request leaves a file behind, and no image is   *)
(* lost but to a user or to a command that was robbed of its own file.     *)
(***************************************************************************)
EXTENDS IpcTools, TLAPS

(* A checkpoint command works on the file it has created; how far it has   *)
(* got says what is in that file.                                          *)
OwnFile ==
  \A c \in Cmds :
    /\ cmd[c].pc = "close" => cmd[c].tool = "checkpoint"
    /\ cmd[c].tool = "checkpoint" /\ cmd[c].pc \in {"request", "close"} => cmd[c].fd = c
    /\ cmd[c].tool = "checkpoint" /\ cmd[c].pc = "request" => content[c] = "partial"
    /\ cmd[c].pc = "close" =>
         content[c] = IF cmd[c].r = "ok" THEN "image" ELSE "partial"

(* A path leads to the file of a checkpoint command that was given it and  *)
(* has opened it.                                                          *)
PathOfOwner ==
  \A p \in Paths : dir[p] # None =>
    /\ cmd[dir[p]].tool = "checkpoint" /\ cmd[dir[p]].path = p
    /\ cmd[dir[p]].pc \in {"request", "close", "done", "killed"}

(* The path of a command at work leads to its file until it is robbed.     *)
RobbedOrThere ==
  \A c \in Cmds : cmd[c].tool = "checkpoint" /\ cmd[c].pc \in {"request", "close"} =>
    c \in robbed \/ dir[cmd[c].path] = c

IInv == TypeOK /\ OwnFile /\ PathOfOwner /\ RobbedOrThere /\ NoPartialLeft

(* The record a command starts from is one of its states.                  *)
LEMMA IdleState == Idle \in CmdState
<1>1. \E t \in Types : TRUE
  BY IpcAssumption
<1>2. \E p \in Paths : TRUE
  BY IpcAssumption
<1> QED
  BY <1>1, <1>2 DEF Idle, CmdState

(* The invariant holds when no command has been given.                     *)
LEMMA InitIInv == Init => IInv
<1> SUFFICES ASSUME Init PROVE IInv
  OBVIOUS
<1>1. TypeOK
  BY IdleState DEF Init, TypeOK, Idle
<1> QED
  BY <1>1 DEF Init, IInv, OwnFile, PathOfOwner, RobbedOrThere, NoPartialLeft, Idle

(* A command that exits keeps its arguments.                               *)
LEMMA ExitState ==
  ASSUME NEW x \in CmdState, NEW r \in {"ok", "fail"}
  PROVE  /\ [x EXCEPT !.pc = "done", !.r = r] \in CmdState
         /\ [x EXCEPT !.pc = "done", !.r = r].pc = "done"
         /\ [x EXCEPT !.pc = "done", !.r = r].r = r
         /\ [x EXCEPT !.pc = "done", !.r = r].tool = x.tool
         /\ [x EXCEPT !.pc = "done", !.r = r].path = x.path
  BY DEF CmdState

(* What a command's step makes of the commands, when only its own record   *)
(* changes.                                                                *)
LEMMA OneCommand ==
  ASSUME TypeOK, NEW c \in Cmds, NEW rec \in CmdState, cmd' = [cmd EXCEPT ![c] = rec]
  PROVE  /\ cmd' \in [Cmds -> CmdState] /\ cmd'[c] = rec
         /\ \A d \in Cmds : d # c => cmd'[d] = cmd[d]
  BY DEF TypeOK

(* A command that changes nothing but its own record, and that no path     *)
(* leads to unless it is killed, keeps the invariant.                      *)
LEMMA QuietStep ==
  ASSUME IInv, NEW c \in Cmds, NEW rec \in CmdState, cmd' = [cmd EXCEPT ![c] = rec],
         UNCHANGED <<dir, content, robbed>>,
         \/ rec.pc \in {"open", "done", "killed"}
         \/ rec.pc = "request" /\ rec.tool = "restart" /\ rec.fd \in Cmds,
         \/ \A p \in Paths : dir[p] # c
         \/ rec.pc = "killed" /\ rec.tool = cmd[c].tool /\ rec.path = cmd[c].path
  PROVE  IInv'
<1> USE DEF IInv
<1>1. /\ cmd' \in [Cmds -> CmdState] /\ cmd'[c] = rec
      /\ \A d \in Cmds : d # c => cmd'[d] = cmd[d]
  BY OneCommand
<1>2. TypeOK'
  BY <1>1 DEF TypeOK
<1>3. OwnFile'
  BY <1>1 DEF OwnFile
<1>4. PathOfOwner'
  BY <1>1 DEF TypeOK, PathOfOwner
<1>5. RobbedOrThere'
  BY <1>1 DEF RobbedOrThere
<1>6. NoPartialLeft'
  BY <1>1 DEF TypeOK, NoPartialLeft
<1> QED
  BY <1>2, <1>3, <1>4, <1>5, <1>6

(* No path leads to a command that has not opened its file, or that only   *)
(* reads one.                                                              *)
LEMMA NotThere ==
  ASSUME IInv, NEW c \in Cmds, cmd[c].pc \in {"idle", "open"} \/ cmd[c].tool = "restart"
  PROVE  \A p \in Paths : dir[p] # c
  BY IpcAssumption DEF IInv, PathOfOwner

(* A step of a command and the removal of a file by a user keep the        *)
(* invariant.                                                              *)
LEMMA StepIInv == IInv /\ [Next]_vars => IInv'
<1> SUFFICES ASSUME IInv, [Next]_vars PROVE IInv'
  OBVIOUS
<1> USE IpcAssumption DEF IInv
<1>1. ASSUME NEW c \in Cmds, parse_args(c) PROVE IInv'
  <2>1. \A p \in Paths : dir[p] # c
    BY <1>1, NotThere DEF parse_args
  <2>2. CASE Exit(c, "fail")
    <3> DEFINE rec == [cmd[c] EXCEPT !.pc = "done", !.r = "fail"]
    <3>0. cmd[c] \in CmdState
      BY DEF TypeOK
    <3>1. rec \in CmdState /\ rec.pc = "done"
      BY <3>0, ExitState
    <3>2. cmd' = [cmd EXCEPT ![c] = rec] /\ UNCHANGED <<dir, content, robbed>>
      BY <1>1, <2>2 DEF parse_args, Exit, SetCmd
    <3> HIDE DEF rec
    <3> QED
      BY <2>1, <3>1, <3>2, QuietStep
  <2>3. ASSUME NEW tool \in {"checkpoint", "restart"}, NEW t \in Types, NEW q \in Paths,
               SetCmd(c, [Idle EXCEPT !.pc = "open", !.tool = tool, !.type = t, !.path = q])
        PROVE IInv'
    <3> DEFINE rec == [Idle EXCEPT !.pc = "open", !.tool = tool, !.type = t, !.path = q]
    <3>1. rec \in CmdState /\ rec.pc = "open"
      BY IdleState DEF CmdState
    <3>2. cmd' = [cmd EXCEPT ![c] = rec] /\ UNCHANGED <<dir, content, robbed>>
      BY <1>1, <2>3 DEF parse_args, SetCmd
    <3> HIDE DEF rec
    <3> QED
      BY <2>1, <3>1, <3>2, QuietStep
  <2> QED
    BY <1>1, <2>2, <2>3 DEF parse_args
<1>2. ASSUME NEW c \in Cmds, OpenNew(c) PROVE IInv'
  <2>0. \A p \in Paths : dir[p] # c
    BY <1>2, NotThere DEF OpenNew
  <2> DEFINE rec == [cmd[c] EXCEPT !.pc = "request", !.fd = c]
  <2>1. /\ rec \in CmdState /\ rec.pc = "request" /\ rec.fd = c
        /\ rec.tool = "checkpoint" /\ rec.path = cmd[c].path /\ rec.path \in Paths
    BY <1>2 DEF OpenNew, TypeOK, CmdState
  <2>2. /\ cmd' = [cmd EXCEPT ![c] = rec]
        /\ dir[rec.path] = None /\ dir' = [dir EXCEPT ![rec.path] = c]
        /\ content' = [content EXCEPT ![c] = "partial"] /\ robbed' = robbed
    BY <1>2, <2>1 DEF OpenNew, SetCmd, File
  <2> HIDE DEF rec
  <2>3. /\ cmd' \in [Cmds -> CmdState] /\ cmd'[c] = rec
        /\ \A d \in Cmds : d # c => cmd'[d] = cmd[d]
    BY <2>1, <2>2, OneCommand
  <2>4. TypeOK'
    BY <2>0, <2>1, <2>2, <2>3 DEF TypeOK
  <2>5. OwnFile'
    BY <2>0, <2>1, <2>2, <2>3 DEF TypeOK, OwnFile
  <2>6. PathOfOwner'
    BY <2>0, <2>1, <2>2, <2>3 DEF TypeOK, PathOfOwner
  <2>7. RobbedOrThere'
    BY <2>0, <2>1, <2>2, <2>3 DEF TypeOK, PathOfOwner, RobbedOrThere
  <2>8. NoPartialLeft'
    BY <2>0, <2>1, <2>2, <2>3 DEF TypeOK, OwnFile, PathOfOwner, NoPartialLeft
  <2> QED
    BY <2>4, <2>5, <2>6, <2>7, <2>8
<1>3. ASSUME NEW c \in Cmds, OpenOld(c) PROVE IInv'
  <2> DEFINE rec == [cmd[c] EXCEPT !.pc = "request", !.fd = File(c)]
  <2>1. rec \in CmdState /\ rec.pc = "request" /\ rec.tool = "restart" /\ rec.fd \in Cmds
    BY <1>3 DEF OpenOld, TypeOK, CmdState, File
  <2>2. cmd' = [cmd EXCEPT ![c] = rec] /\ UNCHANGED <<dir, content, robbed>>
    BY <1>3 DEF OpenOld, SetCmd
  <2>3. \A p \in Paths : dir[p] # c
    BY <1>3, NotThere DEF OpenOld
  <2> HIDE DEF rec
  <2> QED
    BY <2>1, <2>2, <2>3, QuietStep
<1>4. ASSUME NEW c \in Cmds, OpenFails(c) PROVE IInv'
  <2> DEFINE rec == [cmd[c] EXCEPT !.pc = "done", !.r = "fail"]
  <2>0. cmd[c] \in CmdState
    BY DEF TypeOK
  <2>1. rec \in CmdState /\ rec.pc = "done"
    BY <2>0, ExitState
  <2>2. cmd' = [cmd EXCEPT ![c] = rec] /\ UNCHANGED <<dir, content, robbed>>
    BY <1>4 DEF OpenFails, Exit, SetCmd
  <2>3. \A p \in Paths : dir[p] # c
    BY <1>4, NotThere DEF OpenFails
  <2> HIDE DEF rec
  <2> QED
    BY <2>1, <2>2, <2>3, QuietStep
<1>5. ASSUME NEW c \in Cmds, Checkpoint(c) PROVE IInv'
  <2>0. cmd[c].pc = "request" /\ cmd[c].tool = "checkpoint" /\ cmd[c].fd = c
    BY <1>5 DEF Checkpoint, ipc_checkpoint, OwnFile
  <2>1. PICK r \in {"ok", "fail"} :
          /\ cmd' = [cmd EXCEPT ![c] = [cmd[c] EXCEPT !.pc = "close", !.r = r]]
          /\ content' = IF r = "ok" THEN [content EXCEPT ![c] = "image"] ELSE content
          /\ dir' = dir /\ robbed' = robbed
    BY <1>5, <2>0 DEF Checkpoint, ipc_checkpoint, SetCmd
  <2> DEFINE rec == [cmd[c] EXCEPT !.pc = "close", !.r = r]
  <2>2. /\ rec \in CmdState /\ rec.pc = "close" /\ rec.fd = c /\ rec.r = r
        /\ rec.tool = "checkpoint" /\ rec.path = cmd[c].path /\ rec.path \in Paths
    BY <2>0 DEF TypeOK, CmdState
  <2>2a. cmd' = [cmd EXCEPT ![c] = rec]
    BY <2>1
  <2> HIDE DEF rec
  <2>3. /\ cmd' \in [Cmds -> CmdState] /\ cmd'[c] = rec
        /\ \A d \in Cmds : d # c => cmd'[d] = cmd[d]
    BY <2>2, <2>2a, OneCommand
  <2>4. TypeOK'
    BY <2>0, <2>1, <2>2, <2>3 DEF TypeOK
  <2>5. OwnFile'
    BY <2>0, <2>1, <2>2, <2>3 DEF TypeOK, OwnFile
  <2>6. PathOfOwner'
    BY <2>0, <2>1, <2>2, <2>3 DEF TypeOK, PathOfOwner
  <2>7. RobbedOrThere'
    BY <2>0, <2>1, <2>2, <2>3 DEF TypeOK, PathOfOwner, RobbedOrThere
  <2>8. NoPartialLeft'
    BY <2>0, <2>1, <2>2, <2>3 DEF TypeOK, OwnFile, PathOfOwner, NoPartialLeft
  <2> QED
    BY <2>4, <2>5, <2>6, <2>7, <2>8
<1>6. ASSUME NEW c \in Cmds, Restart(c) PROVE IInv'
  <2>1. PICK r \in {"ok", "fail"} :
          /\ cmd' = [cmd EXCEPT ![c] = [cmd[c] EXCEPT !.pc = "done", !.r = r]]
          /\ UNCHANGED <<dir, content, robbed>>
    BY <1>6 DEF Restart, Exit, SetCmd
  <2> DEFINE rec == [cmd[c] EXCEPT !.pc = "done", !.r = r]
  <2>1a. cmd[c] \in CmdState
    BY DEF TypeOK
  <2>2. rec \in CmdState /\ rec.pc = "done"
    BY <2>1a, ExitState
  <2>3. \A p \in Paths : dir[p] # c
    BY <1>6, NotThere DEF Restart
  <2>4. cmd' = [cmd EXCEPT ![c] = rec]
    BY <2>1
  <2> HIDE DEF rec
  <2> QED
    BY <2>1, <2>2, <2>3, <2>4, QuietStep
<1>7. ASSUME NEW c \in Cmds, CloseUnlink(c) PROVE IInv'
  <2> DEFINE rec == [cmd[c] EXCEPT !.pc = "done", !.r = cmd[c].r]
  <2>0. cmd[c] \in CmdState /\ cmd[c].r \in {"ok", "fail"} /\ cmd[c].path \in Paths
    BY DEF TypeOK, CmdState
  <2>1. /\ rec \in CmdState /\ rec.pc = "done" /\ rec.r = cmd[c].r
        /\ rec.tool = cmd[c].tool /\ rec.path = cmd[c].path /\ rec.path \in Paths
    BY <2>0, ExitState
  <2>2. /\ cmd' = [cmd EXCEPT ![c] = rec] /\ content' = content /\ cmd[c].pc = "close"
        /\ \/ /\ rec.r = "fail" /\ dir' = [dir EXCEPT ![rec.path] = None]
              /\ robbed' = robbed \cup ({dir[rec.path]} \ {c, None})
           \/ rec.r = "ok" /\ dir' = dir /\ robbed' = robbed
    BY <1>7, <2>1 DEF CloseUnlink, Exit, SetCmd, File
  <2> HIDE DEF rec
  <2>3. /\ cmd' \in [Cmds -> CmdState] /\ cmd'[c] = rec
        /\ \A d \in Cmds : d # c => cmd'[d] = cmd[d]
    BY <2>1, <2>2, OneCommand
  <2>4. TypeOK'
    BY <2>1, <2>2, <2>3 DEF TypeOK
  <2>5. OwnFile'
    BY <2>1, <2>2, <2>3 DEF TypeOK, OwnFile
  <2>6. PathOfOwner'
    BY <2>1, <2>2, <2>3 DEF TypeOK, PathOfOwner
  <2>7. RobbedOrThere'
    <3> SUFFICES ASSUME NEW d \in Cmds, cmd'[d].tool = "checkpoint",
                        cmd'[d].pc \in {"request", "close"}
                 PROVE d \in robbed' \/ dir'[cmd'[d].path] = d
      BY DEF RobbedOrThere
    <3>1. d # c /\ cmd'[d] = cmd[d]
      BY <2>1, <2>3
    <3>2. cmd[d].path \in Paths
      BY DEF TypeOK, CmdState
    <3>3. d \in robbed \/ dir[cmd[d].path] = d
      BY <3>1 DEF RobbedOrThere
    <3> QED
      BY <2>1, <2>2, <3>1, <3>2, <3>3 DEF TypeOK
  <2>8. NoPartialLeft'
    BY <2>1, <2>2, <2>3 DEF TypeOK, OwnFile, PathOfOwner, NoPartialLeft
  <2> QED
    BY <2>4, <2>5, <2>6, <2>7, <2>8
<1>8. ASSUME NEW c \in Cmds, Killed(c) PROVE IInv'
  <2> DEFINE rec == [cmd[c] EXCEPT !.pc = "killed"]
  <2>1. rec \in CmdState /\ rec.pc = "killed" /\ rec.tool = cmd[c].tool
        /\ rec.path = cmd[c].path
    BY <1>8 DEF Killed, TypeOK, CmdState
  <2>2. cmd' = [cmd EXCEPT ![c] = rec] /\ UNCHANGED <<dir, content, robbed>>
    BY <1>8 DEF Killed, SetCmd
  <2> HIDE DEF rec
  <2> QED
    BY <2>1, <2>2, QuietStep
<1>9. ASSUME NEW p \in Paths, UserRemoves(p) PROVE IInv'
  BY <1>9 DEF UserRemoves, TypeOK, OwnFile, PathOfOwner, RobbedOrThere, NoPartialLeft
<1>10. CASE UNCHANGED vars
  BY <1>10 DEF vars, TypeOK, OwnFile, PathOfOwner, RobbedOrThere, NoPartialLeft
<1> QED
  BY <1>1, <1>2, <1>3, <1>4, <1>5, <1>6, <1>7, <1>8, <1>9, <1>10 DEF Next, CmdStep

(* The whole invariant holds of every state of every behaviour.            *)
LEMMA AlwaysIInv == Spec => []IInv
  BY InitIInv, StepIInv, PTL DEF Spec

(* Requests are only made on files that have been opened, and the          *)
(* directory and the commands keep their types.                            *)
THEOREM TypeCorrect == Spec => []TypeOK
<1>1. IInv => TypeOK
  BY DEF IInv
<1> QED
  BY <1>1, AlwaysIInv, PTL

(* A failed ipccheckpoint leaves no file: what is at a path is an image,   *)
(* or belongs to a command at work or killed.                              *)
THEOREM PartialFilesAccountedFor == Spec => []NoPartialLeft
<1>1. IInv => NoPartialLeft
  BY DEF IInv
<1> QED
  BY <1>1, AlwaysIInv, PTL

(* One step and one path: the image there stays.                           *)
ImageKept(p) ==
  dir[p] # None /\ content[dir[p]] = "image" =>
    \/ dir'[p] = dir[p] /\ content'[dir[p]] = "image"
    \/ cmd' = cmd
    \/ \E c \in robbed : cmd[c].pc = "close" /\ cmd[c].path = p

(* Every step keeps what ImageKept says of it.                             *)
LEMMA StepKeepsImage == IInv /\ [Next]_vars => \A p \in Paths : ImageKept(p)
<1> SUFFICES ASSUME IInv, [Next]_vars, NEW p \in Paths,
                    dir[p] # None, content[dir[p]] = "image"
             PROVE ImageKept(p)
  BY DEF ImageKept
<1> USE IpcAssumption DEF IInv, TypeOK, OwnFile, PathOfOwner, RobbedOrThere
<1>1. CASE \E c \in Cmds : parse_args(c) \/ OpenOld(c) \/ OpenFails(c) \/ Restart(c) \/ Killed(c)
  BY <1>1 DEF ImageKept, parse_args, OpenOld, OpenFails, Restart, Killed
<1>2. ASSUME NEW c \in Cmds, OpenNew(c) PROVE ImageKept(p)
  BY <1>2 DEF ImageKept, OpenNew, File, SetCmd, CmdState
<1>3. ASSUME NEW c \in Cmds, Checkpoint(c) PROVE ImageKept(p)
  BY <1>3 DEF ImageKept, Checkpoint, ipc_checkpoint, SetCmd, CmdState
<1>4. ASSUME NEW c \in Cmds, CloseUnlink(c) PROVE ImageKept(p)
  <2>1. CASE cmd[c].path = p /\ cmd[c].r = "fail"
    <3>1. dir[p] # c
      BY <1>4, <2>1 DEF CloseUnlink
    <3>2. c \in robbed
      BY <1>4, <2>1, <3>1 DEF CloseUnlink
    <3> QED
      BY <1>4, <2>1, <3>2 DEF ImageKept, CloseUnlink
  <2>2. CASE ~(cmd[c].path = p /\ cmd[c].r = "fail")
    BY <1>4, <2>2 DEF ImageKept, CloseUnlink, CmdState
  <2> QED
    BY <2>1, <2>2
<1>5. CASE \E q \in Paths : UserRemoves(q)
  BY <1>5 DEF ImageKept, UserRemoves
<1>6. CASE UNCHANGED vars
  BY <1>6 DEF ImageKept, vars
<1> QED
  BY <1>1, <1>2, <1>3, <1>4, <1>5, <1>6 DEF Next, CmdStep

(* No command changes or removes an image, but one that was robbed.        *)
THEOREM ImagesStay == Spec => ImageStays
<1>1. IInv /\ [Next]_vars =>
      [\A p \in Paths : dir[p] # None /\ content[dir[p]] = "image" =>
         \/ dir'[p] = dir[p] /\ content'[dir[p]] = "image"
         \/ cmd' = cmd
         \/ \E c \in robbed : cmd[c].pc = "close" /\ cmd[c].path = p]_vars
  BY StepKeepsImage DEF ImageKept
<1> QED
  BY <1>1, AlwaysIInv, PTL DEF Spec, ImageStays
=============================================================================
