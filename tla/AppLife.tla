------------------------------ MODULE AppLife ------------------------------
(***************************************************************************)
(* What checkpoint/restart promises about one application, whatever tools  *)
(* are at work: an image is only made of a frozen application, is of the   *)
(* state the application is in, and is never altered or lost; a restart    *)
(* brings back exactly a saved state, frozen.                              *)
(*                                                                         *)
(* The states the application goes through are numbered by the clock; 0    *)
(* stands for no image.                                                    *)
(***************************************************************************)
EXTENDS Naturals

CONSTANT Versions     \* checkpoint version numbers

VARIABLES status,     \* of the application
          epoch,      \* the state it is in
          clock,      \* states it has been in so far
          saved       \* for each version, the state its image holds

lifeVars == <<status, epoch, clock, saved>>

LifeInit == /\ status = "running" /\ epoch = 1 /\ clock = 1
            /\ saved = [v \in Versions |-> 0]

Freeze == status = "running" /\ status' = "frozen" /\ UNCHANGED <<epoch, clock, saved>>

Save(v) == /\ status = "frozen" /\ saved[v] = 0
           /\ saved' = [saved EXCEPT ![v] = epoch]
           /\ UNCHANGED <<status, epoch, clock>>

Resume == /\ status = "frozen" /\ status' = "running"
          /\ clock' = clock + 1 /\ epoch' = clock + 1
          /\ UNCHANGED saved

End == status # "dead" /\ status' = "dead" /\ UNCHANGED <<epoch, clock, saved>>

Restore(v) == /\ status = "dead" /\ saved[v] # 0
              /\ status' = "frozen" /\ epoch' = saved[v]
              /\ UNCHANGED <<clock, saved>>

LifeNext == Freeze \/ Resume \/ End \/ \E v \in Versions : Save(v) \/ Restore(v)

LifeSpec == LifeInit /\ [][LifeNext]_lifeVars
=============================================================================
