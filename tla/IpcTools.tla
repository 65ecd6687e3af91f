------------------------------ MODULE IpcTools ------------------------------
(***************************************************************************)
(* tools/ipccheckpoint.c and tools/ipcrestart.c on libipc: commands that   *)
(* save a message queue, a semaphore array or a shared memory segment to a *)
(* file, and that restore one from a file.  Commands run at the same time  *)
(* on the same paths, are killed, and users remove files.                  *)
(*                                                                         *)
(* A file is named by the command that created it: a path leads to a file, *)
(* and a descriptor goes on leading to it when the path no longer does.    *)
(* The kernel writes and reads the images; it is not in this repository.   *)
(* It restores an object from a complete image of the same type only.      *)
(***************************************************************************)
EXTENDS Naturals

CONSTANTS
  Cmds,    \* ipccheckpoint and ipcrestart processes
  Paths,   \* the paths they are given
  Types,   \* MSG, SEM and SHM
  None     \* no file

ASSUME IpcAssumption == None \notin Cmds /\ Types # {} /\ Paths # {}

VARIABLES
  dir,       \* the file at each path
  content,   \* of the file each command creates: "absent", "partial", "image"
  cmd,       \* for each command: where it is, its arguments, fd and r
  robbed     \* history: commands whose file somebody else has removed

vars == <<dir, content, cmd, robbed>>

Idle == [pc |-> "idle", tool |-> "checkpoint", type |-> CHOOSE t \in Types : TRUE,
         path |-> CHOOSE p \in Paths : TRUE, fd |-> None, r |-> "ok"]

Init == /\ dir = [p \in Paths |-> None]
        /\ content = [c \in Cmds |-> "absent"]
        /\ cmd = [c \in Cmds |-> Idle]
        /\ robbed = {}

SetCmd(c, rec) == cmd' = [cmd EXCEPT ![c] = rec]
File(c) == dir[cmd[c].path]
Exit(c, r) == SetCmd(c, [cmd[c] EXCEPT !.pc = "done", !.r = r])

(* parse_args, and the test that the type and one file are given.          *)
parse_args(c) ==
  /\ cmd[c].pc = "idle"
  /\ \/ \E tool \in {"checkpoint", "restart"}, t \in Types, p \in Paths :
          SetCmd(c, [Idle EXCEPT !.pc = "open", !.tool = tool, !.type = t, !.path = p])
     \/ Exit(c, "fail")
  /\ UNCHANGED <<dir, content, robbed>>

(* Mutant: the checkpoint is opened without O_EXCL.                        *)
OpenTruncates(c) ==
  /\ cmd[c].pc = "open" /\ cmd[c].tool = "checkpoint"
  /\ LET f == IF File(c) = None THEN c ELSE File(c)
     IN /\ dir' = [dir EXCEPT ![cmd[c].path] = f]
        /\ content' = [content EXCEPT ![f] = "partial"]
        /\ SetCmd(c, [cmd[c] EXCEPT !.pc = "request", !.fd = f])
  /\ UNCHANGED robbed

(* open with O_CREAT | O_EXCL: nothing may be at the path.                 *)
OpenNew(c) ==
  /\ cmd[c].pc = "open" /\ cmd[c].tool = "checkpoint" /\ File(c) = None
  /\ dir' = [dir EXCEPT ![cmd[c].path] = c]
  /\ content' = [content EXCEPT ![c] = "partial"]
  /\ SetCmd(c, [cmd[c] EXCEPT !.pc = "request", !.fd = c])
  /\ UNCHANGED robbed

(* Mutant: the result of open is not tested.                               *)
OpenUntested(c) ==
  /\ cmd[c].pc = "open" /\ cmd[c].tool = "restart"
  /\ SetCmd(c, [cmd[c] EXCEPT !.pc = "request", !.fd = File(c)])
  /\ UNCHANGED <<dir, content, robbed>>

(* open with O_RDONLY.                                                     *)
OpenOld(c) ==
  /\ cmd[c].pc = "open" /\ cmd[c].tool = "restart" /\ File(c) # None
  /\ SetCmd(c, [cmd[c] EXCEPT !.pc = "request", !.fd = File(c)])
  /\ UNCHANGED <<dir, content, robbed>>

(* open fails, for the file that is or is not there, or otherwise.         *)
OpenFails(c) ==
  /\ cmd[c].pc = "open" /\ Exit(c, "fail")
  /\ UNCHANGED <<dir, content, robbed>>

(* ipc_msgq_checkpoint, ipc_sem_checkpoint, ipc_shm_checkpoint: the kernel *)
(* writes the image to the descriptor.  ipc_msgq_restart, ipc_sem_restart, *)
(* ipc_shm_restart: it can take what the descriptor leads to for an image. *)
ipc_checkpoint(c) == content' = [content EXCEPT ![cmd[c].fd] = "image"]
ipc_restart(c) == content[cmd[c].fd] = "image" /\ cmd[cmd[c].fd].type = cmd[c].type

(* msgq_checkpoint, sem_checkpoint, shm_checkpoint: the request succeeds,  *)
(* or fails and leaves a part of the image.                                *)
Checkpoint(c) ==
  /\ cmd[c].pc = "request" /\ cmd[c].tool = "checkpoint"
  /\ \/ /\ ipc_checkpoint(c)
        /\ SetCmd(c, [cmd[c] EXCEPT !.pc = "close", !.r = "ok"])
     \/ /\ SetCmd(c, [cmd[c] EXCEPT !.pc = "close", !.r = "fail"])
        /\ UNCHANGED content
  /\ UNCHANGED <<dir, robbed>>

(* msgq_restart, sem_restart, shm_restart, close and the exit.             *)
Restart(c) ==
  /\ cmd[c].pc = "request" /\ cmd[c].tool = "restart"
  /\ \/ ipc_restart(c) /\ Exit(c, "ok")
     \/ Exit(c, "fail")
  /\ UNCHANGED <<dir, content, robbed>>

(* Mutant: the file is left when the request has failed.                   *)
CloseKeeps(c) ==
  /\ cmd[c].pc = "close" /\ Exit(c, cmd[c].r)
  /\ UNCHANGED <<dir, content, robbed>>

(* close, and unlink when the request has failed: unlink takes the path,   *)
(* whatever file is there.                                                 *)
CloseUnlink(c) ==
  /\ cmd[c].pc = "close"
  /\ \/ /\ cmd[c].r = "fail"
        /\ dir' = [dir EXCEPT ![cmd[c].path] = None]
        /\ robbed' = robbed \cup ({File(c)} \ {c, None})
     \/ cmd[c].r = "ok" /\ UNCHANGED <<dir, robbed>>
  /\ Exit(c, cmd[c].r)
  /\ UNCHANGED content

(* A command is killed; a user removes a file.                             *)
Killed(c) ==
  /\ cmd[c].pc \in {"open", "request", "close"}
  /\ SetCmd(c, [cmd[c] EXCEPT !.pc = "killed"])
  /\ UNCHANGED <<dir, content, robbed>>

UserRemoves(p) ==
  /\ dir[p] # None
  /\ robbed' = robbed \cup {dir[p]}
  /\ dir' = [dir EXCEPT ![p] = None]
  /\ UNCHANGED <<content, cmd>>

CmdStep(c) == \/ parse_args(c) \/ OpenNew(c) \/ OpenOld(c) \/ OpenFails(c)
              \/ Checkpoint(c) \/ Restart(c) \/ CloseUnlink(c) \/ Killed(c)

Next == \/ \E c \in Cmds : CmdStep(c)
        \/ \E p \in Paths : UserRemoves(p)

Spec == Init /\ [][Next]_vars

-----------------------------------------------------------------------------
CmdState == [pc : {"idle", "open", "request", "close", "done", "killed"},
             tool : {"checkpoint", "restart"}, type : Types, path : Paths,
             fd : Cmds \cup {None}, r : {"ok", "fail"}]

(* Types of the directory and of the commands' variables: a request is     *)
(* only ever made on a file that has been opened.                          *)
TypeOK ==
  /\ dir \in [Paths -> Cmds \cup {None}]
  /\ content \in [Cmds -> {"absent", "partial", "image"}]
  /\ cmd \in [Cmds -> CmdState]
  /\ robbed \subseteq Cmds
  /\ \A c \in Cmds : cmd[c].pc \in {"request", "close"} => cmd[c].fd \in Cmds

(* What is found at a path is a complete image, or the file of a command   *)
(* that is still at work or has been killed: a request that fails leaves   *)
(* nothing behind that an ipcrestart could take for an image.              *)
NoPartialLeft ==
  \A p \in Paths : dir[p] # None /\ content[dir[p]] # "image" =>
    cmd[dir[p]].pc \in {"request", "close", "killed"}

(* An ipccheckpoint that has returned 0 has left a complete image, and no  *)
(* command, of those that fail either, changes or removes it: only a user  *)
(* does, or a command whose own file has been removed under its hands and  *)
(* that removes what has taken its place.                                  *)
ImageStays ==
  [][\A p \in Paths : dir[p] # None /\ content[dir[p]] = "image" =>
       \/ dir'[p] = dir[p] /\ content'[dir[p]] = "image"
       \/ cmd' = cmd
       \/ \E c \in robbed : cmd[c].pc = "close" /\ cmd[c].path = p]_vars
=============================================================================
