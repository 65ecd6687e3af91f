---------------------- MODULE CheckpointImages_proofs ----------------------
(***************************************************************************)
(* Theorems about the versions of an application, for every number of      *)
(* commands, versions and signals: complete images are never lost, those   *)
(* that are not complete are cleaned up, and the commands implement        *)
(* AppLife.                                                                *)
(***************************************************************************)
EXTENDS CheckpointRestart_proofs

Cleaning == {"clean", "rmdir"}

(* What a step of process p does to the version directories.               *)
SameStates == \A v \in Versions : /\ image'[v].state = image[v].state
                                  /\ image'[v].epoch = image[v].epoch
                                  /\ image'[v].refused = image[v].refused
OtherImages(v) == \A u \in Versions \ {v} : image'[u] = image[u]

Still(p) ==
  /\ SameStates
  /\ \/ ck[p].pc \notin Cleaning /\ ck'[p].pc \notin Cleaning
     \/ ck'[p].pc = ck[p].pc /\ ck'[p].sn = ck[p].sn
     \/ ck'[p].pc = "killed" /\ ck'[p].sn = ck[p].sn

Saves(p, v) ==
  /\ ck[p].pc \notin Cleaning /\ ck'[p].pc \notin Cleaning
  /\ image[v].state = "absent" /\ OtherImages(v)
  /\ image'[v].state = "image" /\ image'[v].epoch = app.epoch
  /\ app.status = "frozen" /\ UNCHANGED app

Fails(p, v) ==
  /\ ck[p].pc \notin Cleaning /\ ck'[p].pc = "clean" /\ ck'[p].sn = v
  /\ image[v].state = "absent" /\ OtherImages(v)
  /\ image'[v].state = "partial"

Empties(p) ==
  /\ ck[p].pc = "clean" /\ ck'[p].pc = "rmdir" /\ ck'[p].sn = ck[p].sn
  /\ OtherImages(ck[p].sn)
  /\ ck[p].sn \in Versions => image'[ck[p].sn].state = "empty"

Removes(p) ==
  /\ ck[p].pc = "rmdir" /\ ck'[p].pc = "rmapp"
  /\ OtherImages(ck[p].sn)
  /\ ck[p].sn \in Versions =>
       \/ image[ck[p].sn].state = "empty" /\ image'[ck[p].sn].state = "absent"
       \/ image[ck[p].sn].state # "empty" /\ image'[ck[p].sn] = image[ck[p].sn]

IsRefused(p) ==
  /\ ck[p].pc \in Cleaning
  /\ ck'[p].pc \notin Cleaning \/ (ck'[p].pc = "rmdir" /\ ck'[p].sn = ck[p].sn)
  /\ OtherImages(ck[p].sn)
  /\ ck[p].sn \in Versions => /\ image'[ck[p].sn].state = image[ck[p].sn].state
                               /\ image'[ck[p].sn].epoch = image[ck[p].sn].epoch
                               /\ image'[ck[p].sn].refused

ImageEffect(p) ==
  /\ Others(p)
  /\ \/ Still(p) \/ Empties(p) \/ Removes(p) \/ IsRefused(p)
     \/ \E v \in Versions : Saves(p, v) \/ Fails(p, v)

(* What a signal changes of a command.                                     *)
LEMMA SignalEffect ==
  ASSUME CkTypeOK, NEW p \in Procs, handle_signal(p)
  PROVE  /\ Others(p) /\ ck'[p].sn = ck[p].sn /\ ck'[p].action = ck[p].action
         /\ \/ ck'[p].pc = "killed"
            \/ /\ ck'[p].pc = ck[p].pc /\ ck'[p].r = ck[p].r
               /\ ck'[p].lethal = ck[p].lethal
<1>1. CASE ck' = [ck EXCEPT ![p].interrupted = TRUE]
  BY <1>1 DEF CkTypeOK, CkState, Others
<1>2. CASE ck' = [ck EXCEPT ![p] =
            [IdleCk EXCEPT !.pc = "killed", !.action = ck[p].action, !.sn = ck[p].sn]]
  <2> DEFINE c == [IdleCk EXCEPT !.pc = "killed", !.action = ck[p].action, !.sn = ck[p].sn]
  <2>1. c.pc = "killed" /\ c.action = ck[p].action /\ c.sn = ck[p].sn
    BY DEF IdleCk
  <2>2. ck' = [ck EXCEPT ![p] = c]
    BY <1>2
  <2> HIDE DEF c
  <2> QED BY <2>1, <2>2 DEF CkTypeOK, Others
<1> QED BY <1>1, <1>2 DEF handle_signal

(* Every step of checkpoint has one of these effects.                      *)
LEMMA CkImageEffect ==
  ASSUME TypeOK, NEW p \in Procs, Start(p) \/ handle_signal(p) \/ CkStep(p)
  PROVE  ImageEffect(p)
<1>0. CkTypeOK /\ ControlTypeOK
  BY DEF TypeOK
<1>a. /\ ck[p].sn \in Versions \cup {0} /\ ck[p].r \in {"ok", "fail"}
      /\ image \in [Versions -> ImageState]
  BY <1>0, CkFieldTypes DEF ControlTypeOK
<1>s. ASSUME image' = image PROVE SameStates
  BY <1>s DEF SameStates
<1>e. ASSUME NEW r \in {"ok", "fail"}, Exit(p, r)
      PROVE  Others(p) /\ ck'[p].pc \notin Cleaning
  BY <1>0, <1>e, ExitEffect DEF Cleaning
<1>g. ASSUME NEW pc, Goto(p, pc), pc \notin Cleaning
      PROVE  Others(p) /\ ck'[p].pc \notin Cleaning
  BY <1>0, <1>g, GotoEffect
<1>r. ASSUME NEW r \in {"ok", "fail"}, NEW sn \in Versions \cup {0},
             CheckpointReturns(p, r, sn)
      PROVE  Others(p) /\ ck'[p].pc \notin Cleaning
  BY <1>0, <1>r, ReturnsEffect DEF Cleaning
<1>1. CASE Start(p)
  <2>1. PICK action \in Actions, nocb \in BOOLEAN, lethal \in BOOLEAN :
          ck' = [ck EXCEPT ![p] =
                  [IdleCk EXCEPT !.pc = FirstStep(action), !.action = action,
                     !.noCallbacks = nocb, !.lethal = lethal]]
    BY <1>1, ZenonT(30) DEF Start, parse_args
  <2>2. FirstStep(action) \notin Cleaning
    BY CheckpointAssumption DEF FirstStep, Cleaning
  <2>3. ck'[p].pc = FirstStep(action) /\ Others(p)
    BY <1>0, <2>1 DEF CkTypeOK, IdleCk, Others
  <2>4. ck[p].pc = "idle" /\ image' = image
    BY <1>1 DEF Start, At, controlVars
  <2> QED BY <1>s, <2>2, <2>3, <2>4 DEF ImageEffect, Still, Cleaning
<1>2. CASE handle_signal(p)
  <2>1. image' = image
    BY <1>2 DEF handle_signal, controlVars
  <2>2. /\ Others(p) /\ ck'[p].sn = ck[p].sn
        /\ ck'[p].pc = ck[p].pc \/ ck'[p].pc = "killed"
    BY <1>0, <1>2, SignalEffect
  <2> QED BY <1>s, <2>1, <2>2 DEF ImageEffect, Still
<1>3. CASE \/ freeze_app(p) \/ ChkptCallbacks(p) \/ ChkptCallbacksFail(p) \/ FreezeCall(p)
           \/ unfreeze_app(p) \/ ContinueCallbacks(p) \/ UnfreezeCall(p)
  <2>1. image' = image
    BY <1>3 DEF freeze_app, ChkptCallbacks, ChkptCallbacksFail, FreezeCall,
         unfreeze_app, ContinueCallbacks, UnfreezeCall, application_freeze,
         application_freeze_fails, application_unfreeze,
         application_unfreeze_fails, controlVars
  <2>2. ck[p].pc \notin Cleaning
    BY <1>3 DEF freeze_app, ChkptCallbacks, ChkptCallbacksFail, FreezeCall,
         unfreeze_app, ContinueCallbacks, UnfreezeCall, At, Cleaning
  <2>3. \/ \E r \in {"ok", "fail"} : Exit(p, r)
        \/ \E pc : Goto(p, pc) /\ pc \notin Cleaning
        \/ UnfreezeFails(p)
    <3>1. CASE freeze_app(p) \/ ChkptCallbacks(p) \/ ChkptCallbacksFail(p)
      BY <3>1 DEF freeze_app, ChkptCallbacks, ChkptCallbacksFail, Cleaning
    <3>2. CASE FreezeCall(p)
      BY <3>2 DEF FreezeCall, Cleaning
    <3>3. CASE unfreeze_app(p) \/ ContinueCallbacks(p)
      BY <3>3 DEF unfreeze_app, ContinueCallbacks, Cleaning
    <3>4. CASE UnfreezeCall(p)
      BY <1>a, <3>4 DEF UnfreezeCall
    <3> QED BY <1>3, <3>1, <3>2, <3>3, <3>4
  <2>4. Others(p) /\ ck'[p].pc \notin Cleaning
    BY <1>0, <1>e, <1>g, <2>3, RefusedEffect DEF Cleaning
  <2> QED BY <1>s, <2>1, <2>2, <2>4 DEF ImageEffect, Still
<1>4. CASE CheckpointInterrupted(p)
  <2>1. image' = image /\ ck[p].pc \notin Cleaning
    BY <1>4 DEF CheckpointInterrupted, controlVars, At, Cleaning
  <2>2. Others(p) /\ ck'[p].pc \notin Cleaning
    BY <1>4, <1>r DEF CheckpointInterrupted
  <2> QED BY <1>s, <2>1, <2>2 DEF ImageEffect, Still
<1>5. CASE CheckpointCall(p)
  <2>0. ck[p].pc \notin Cleaning
    BY <1>5 DEF CheckpointCall, At, Cleaning
  <2>1. CASE application_checkpoint_fails /\ CheckpointReturns(p, "fail", 0)
    <3>1. image' = image
      BY <2>1 DEF application_checkpoint_fails, controlVars
    <3> QED BY <1>r, <1>s, <2>0, <2>1, <3>1 DEF ImageEffect, Still
  <2>2. ASSUME NEW v \in Versions, NEW state \in {"image", "partial"},
               application_checkpoint(v, state),
               ck' = [ck EXCEPT ![p].sn = v, ![p].pc =
                       IF state = "image" THEN "write_description" ELSE "clean"]
        PROVE  ImageEffect(p)
    <3>1. /\ Others(p) /\ ck'[p].sn = v
          /\ ck'[p].pc = IF state = "image" THEN "write_description" ELSE "clean"
      BY <1>0, <2>2 DEF CkTypeOK, CkState, Others
    <3>2. /\ image[v].state = "absent" /\ OtherImages(v)
          /\ image'[v].state = state /\ image'[v].epoch = app.epoch
          /\ app.status = "frozen" /\ UNCHANGED app
      BY <1>a, <2>2 DEF application_checkpoint, ImageOf, NoImage, OtherImages
    <3>3. CASE state = "image"
      BY <2>0, <3>1, <3>2, <3>3 DEF ImageEffect, Saves, Cleaning
    <3>4. CASE state = "partial"
      BY <2>0, <3>1, <3>2, <3>4 DEF ImageEffect, Fails, Cleaning
    <3> QED BY <3>3, <3>4
  <2> QED BY <1>5, <2>1, <2>2 DEF CheckpointCall
<1>6. CASE write_description(p)
  <2>1. Others(p) /\ ck'[p].pc \notin Cleaning /\ ck[p].pc \notin Cleaning
    BY <1>6, <1>a, <1>r DEF write_description, At, Cleaning
  <2>2. SameStates
    BY <1>a, <1>6 DEF write_description, SameStates, ImageState
  <2> QED BY <2>1, <2>2 DEF ImageEffect, Still
<1>c. ASSUME Refused(ck[p].sn)
      PROVE  /\ OtherImages(ck[p].sn)
             /\ ck[p].sn \in Versions => /\ image'[ck[p].sn].state = image[ck[p].sn].state
                                          /\ image'[ck[p].sn].epoch = image[ck[p].sn].epoch
                                          /\ image'[ck[p].sn].refused
  BY <1>a, <1>c DEF Refused, OtherImages, ImageState
<1>7. CASE CleanFiles(p)
  <2>0. ck[p].pc = "clean"
    BY <1>7 DEF CleanFiles, At
  <2>1. CASE /\ image' = [image EXCEPT ![ck[p].sn].state = "empty"]
             /\ Goto(p, "rmdir")
    <3>1. Others(p) /\ ck'[p].pc = "rmdir" /\ ck'[p].sn = ck[p].sn
      BY <1>0, <2>1, GotoEffect
    <3>2. OtherImages(ck[p].sn) /\ (ck[p].sn \in Versions => image'[ck[p].sn].state = "empty")
      BY <1>a, <2>1 DEF OtherImages, ImageState
    <3> QED BY <2>0, <3>1, <3>2 DEF ImageEffect, Empties
  <2>2. CASE Refused(ck[p].sn) /\ Goto(p, "rmdir")
    <3>1. Others(p) /\ ck'[p].pc = "rmdir" /\ ck'[p].sn = ck[p].sn
      BY <1>0, <2>2, GotoEffect
    <3> QED BY <1>c, <2>0, <2>2, <3>1 DEF ImageEffect, IsRefused, Cleaning
  <2>3. CASE Refused(ck[p].sn) /\ CheckpointReturns(p, "fail", ck[p].sn)
    <3>1. Others(p) /\ ck'[p].pc \notin Cleaning
      BY <1>a, <1>r, <2>3
    <3> QED BY <1>c, <2>0, <2>3, <3>1 DEF ImageEffect, IsRefused, Cleaning
  <2> QED BY <1>7, <2>1, <2>2, <2>3 DEF CleanFiles
<1>8. CASE CleanVersion(p)
  <2>1. Others(p) /\ ck[p].pc = "rmdir" /\ ck'[p].pc = "rmapp"
    BY <1>0, <1>8, GotoEffect DEF CleanVersion, At
  <2>2. CASE Refused(ck[p].sn)
    BY <1>c, <2>1, <2>2 DEF ImageEffect, IsRefused, Cleaning
  <2>3. CASE image' = IF image[ck[p].sn].state = "empty"
                      THEN [image EXCEPT ![ck[p].sn] = NoImage] ELSE image
    <3>1. OtherImages(ck[p].sn)
      BY <1>a, <2>3 DEF OtherImages
    <3>2. ck[p].sn \in Versions =>
            \/ image[ck[p].sn].state = "empty" /\ image'[ck[p].sn].state = "absent"
            \/ image[ck[p].sn].state # "empty" /\ image'[ck[p].sn] = image[ck[p].sn]
      BY <1>a, <2>3 DEF NoImage
    <3> QED BY <2>1, <3>1, <3>2 DEF ImageEffect, Removes
  <2> QED BY <1>8, <2>2, <2>3 DEF CleanVersion
<1>9. CASE CleanApp(p)
  <2>1. image' = image /\ ck[p].pc \notin Cleaning
    BY <1>9 DEF CleanApp, At, Cleaning
  <2>2. Others(p) /\ ck'[p].pc \notin Cleaning
    BY <1>9, <1>a, <1>r DEF CleanApp
  <2> QED BY <1>s, <2>1, <2>2 DEF ImageEffect, Still
<1> QED BY <1>1, <1>2, <1>3, <1>4, <1>5, <1>6, <1>7, <1>8, <1>9 DEF CkStep

(* The other steps leave the directories, and the checkpoint commands,     *)
(* alone.                                                                  *)
LEMMA OtherImageEffect ==
  ASSUME (\E q \in RProcs : Restart(q)) \/ Exits \/ UNCHANGED vars
  PROVE  image' = image /\ ck' = ck
<1>1. CASE \E q \in RProcs : Restart(q)
  <2> PICK q \in RProcs : Restart(q)
    BY <1>1
  <2>1. ck' = ck
    BY DEF Restart, ckVars
  <2>2. CASE RsStart(q) \/ relay_signal(q) \/ RsKilled(q)
    BY <2>1, <2>2 DEF RsStart, relay_signal, RsKilled, controlVars
  <2>3. CASE RsStep(q)
    BY <2>1, <2>3 DEF RsStep, replace_stdin_stdout_stderr, RestartCall,
         RestartCallbacks, RsUnfreezeCall, WaitReturns, application_restart,
         application_restart_fails, application_unfreeze,
         application_unfreeze_fails, controlVars
  <2> QED BY <2>2, <2>3 DEF Restart
<1>2. CASE Exits
  BY <1>2 DEF Exits, AppExits, ckVars
<1>3. CASE UNCHANGED vars
  BY <1>3 DEF vars, controlVars, ckVars
<1> QED BY <1>1, <1>2, <1>3

-----------------------------------------------------------------------------
(* A process that cleans up works on a version which is not complete, and  *)
(* which nobody else cleans up.                                            *)
CleansOwn ==
  /\ \A p \in Procs : ck[p].pc \in Cleaning =>
       ck[p].sn \in Versions /\ image[ck[p].sn].state \in {"partial", "empty"}
  /\ \A p, o \in Procs : ck[p].pc \in Cleaning /\ ck[o].pc \in Cleaning /\ p # o =>
       ck[p].sn # ck[o].sn

CleanInv == TypeOK /\ CleansOwn

(* Nothing is there to be cleaned at first.                                *)
LEMMA CleanInit == Init => CleanInv
  BY InitType DEF CleanInv, CleansOwn, Init, CkInit, IdleCk, Cleaning

(* A step of checkpoint keeps CleansOwn, and every complete image.         *)
LEMMA CkCleanStep ==
  ASSUME CleanInv, NEW p \in Procs, ImageEffect(p)
  PROVE  CleansOwn' /\ \A v \in Versions : SameImage(v)
<1>0. CleansOwn /\ Others(p)
  BY DEF CleanInv, ImageEffect
<1>1. CASE Still(p)
  <2>1. \A v \in Versions : SameImage(v)
    BY <1>1 DEF Still, SameStates, SameImage
  <2>2. \A o \in Procs : ck'[o].pc \in Cleaning => ck[o].pc \in Cleaning /\ ck'[o].sn = ck[o].sn
    BY <1>0, <1>1 DEF Still, Others, Cleaning
  <2> QED BY <1>0, <1>1, <2>1, <2>2 DEF CleansOwn, Still, SameStates
<1>2. CASE Empties(p)
  <2>1. ck[p].sn \in Versions /\ image[ck[p].sn].state \in {"partial", "empty"}
    BY <1>0, <1>2 DEF CleansOwn, Empties, Cleaning
  <2>2. \A v \in Versions : SameImage(v)
    BY <1>2, <2>1 DEF Empties, SameImage, OtherImages
  <2>3. \A o \in Procs : ck'[o].pc \in Cleaning => ck[o].pc \in Cleaning /\ ck'[o].sn = ck[o].sn
    BY <1>0, <1>2 DEF Empties, Others, Cleaning
  <2>4. \A v \in Versions : image[v].state \in {"partial", "empty"} =>
                             image'[v].state \in {"partial", "empty"}
    BY <1>2, <2>1 DEF Empties, OtherImages
  <2> QED BY <1>0, <2>2, <2>3, <2>4 DEF CleansOwn
<1>3. CASE Removes(p)
  <2>1. \A v \in Versions : SameImage(v)
    BY <1>3 DEF Removes, SameImage, OtherImages
  <2>2. \A o \in Procs : ck'[o].pc \in Cleaning => o # p /\ ck'[o] = ck[o]
    BY <1>0, <1>3 DEF Removes, Others, Cleaning
  <2>3. \A o \in Procs \ {p} : ck[o].pc \in Cleaning =>
          ck[o].sn \in Versions /\ image'[ck[o].sn] = image[ck[o].sn]
    BY <1>0, <1>3 DEF Removes, CleansOwn, OtherImages, Cleaning
  <2> QED BY <1>0, <2>1, <2>2, <2>3 DEF CleansOwn
<1>6. CASE IsRefused(p)
  <2>1. ck[p].sn \in Versions
    BY <1>0, <1>6 DEF CleansOwn, IsRefused
  <2>2. \A v \in Versions : /\ image'[v].state = image[v].state
                             /\ image'[v].epoch = image[v].epoch
    BY <1>6, <2>1 DEF IsRefused, OtherImages
  <2>3. \A o \in Procs : ck'[o].pc \in Cleaning => ck[o].pc \in Cleaning /\ ck'[o].sn = ck[o].sn
    BY <1>0, <1>6 DEF IsRefused, Others, Cleaning
  <2> QED BY <1>0, <2>2, <2>3 DEF CleansOwn, SameImage
<1>4. ASSUME NEW v \in Versions, Saves(p, v)
      PROVE  CleansOwn' /\ \A u \in Versions : SameImage(u)
  <2>1. \A u \in Versions : SameImage(u)
    BY <1>4 DEF Saves, SameImage, OtherImages
  <2>2. \A o \in Procs : ck'[o].pc \in Cleaning => o # p /\ ck'[o] = ck[o]
    BY <1>0, <1>4 DEF Saves, Others
  <2>3. \A o \in Procs \ {p} : ck[o].pc \in Cleaning =>
          ck[o].sn \in Versions /\ image'[ck[o].sn] = image[ck[o].sn]
    BY <1>0, <1>4 DEF Saves, CleansOwn, OtherImages
  <2> QED BY <1>0, <2>1, <2>2, <2>3 DEF CleansOwn
<1>5. ASSUME NEW v \in Versions, Fails(p, v)
      PROVE  CleansOwn' /\ \A u \in Versions : SameImage(u)
  <2>1. \A u \in Versions : SameImage(u)
    BY <1>5 DEF Fails, SameImage, OtherImages
  <2>2. \A o \in Procs : ck'[o].pc \in Cleaning => o = p \/ ck'[o] = ck[o]
    BY <1>0, <1>5 DEF Fails, Others
  <2>3. \A o \in Procs \ {p} : ck[o].pc \in Cleaning =>
          /\ ck[o].sn \in Versions /\ ck[o].sn # v
          /\ image'[ck[o].sn] = image[ck[o].sn]
    BY <1>0, <1>5 DEF Fails, CleansOwn, OtherImages
  <2> QED BY <1>0, <1>5, <2>1, <2>2, <2>3 DEF CleansOwn, Fails, Others
<1> QED BY <1>1, <1>2, <1>3, <1>4, <1>5, <1>6 DEF ImageEffect

(* CleanInv is inductive, and no step harms a complete image.              *)
LEMMA CleanStep ==
  ASSUME CleanInv, [Next]_vars
  PROVE  CleanInv' /\ \A v \in Versions : SameImage(v)
<1>0. TypeOK /\ TypeOK'
  BY NextType DEF CleanInv
<1>1. CASE \E p \in Procs : Checkpoint(p)
  <2> PICK p \in Procs : Checkpoint(p)
    BY <1>1
  <2>1. ImageEffect(p)
    BY <1>0, CkImageEffect DEF Checkpoint
  <2> QED BY <1>0, <2>1, CkCleanStep DEF CleanInv
<1>2. CASE (\E q \in RProcs : Restart(q)) \/ Exits \/ UNCHANGED vars
  BY <1>0, <1>2, OtherImageEffect DEF CleanInv, CleansOwn, SameImage
<1> QED BY <1>1, <1>2 DEF Next

(* No step of any command removes or alters a complete image: the clean-up *)
(* after a failed checkpoint works on its own version only, however many   *)
(* commands run and whatever fails.                                        *)
THEOREM ImagesNeverLost == Spec => ImagesKept
<1>1. Init => CleanInv
  BY CleanInit
<1>2. CleanInv /\ [Next]_vars => CleanInv'
  BY CleanStep
<1>3. CleanInv /\ [Next]_vars => [\A v \in Versions : SameImage(v)]_vars
  BY CleanStep
<1> QED BY <1>1, <1>2, <1>3, PTL DEF Spec, ImagesKept

-----------------------------------------------------------------------------
(* Between the removal of the files and that of the directory, the version *)
(* is empty and rmdir succeeds, unless a file could not be removed.        *)
RmdirEmpty == \A p \in Procs : ck[p].pc = "rmdir" =>
                image[ck[p].sn].state = "empty" \/ image[ck[p].sn].refused

CleanedInv == CleanInv /\ RmdirEmpty /\ IncompleteIsCleaned

(* What becomes of a version that a step does not touch: nobody stops      *)
(* cleaning it up, unless killed.                                          *)
LEMMA OthersCleaned ==
  ASSUME CleanedInv, NEW p \in Procs, Others(p), NEW v \in Versions,
         image'[v] = image[v], ck[p].pc \in Cleaning \cup {"killed"} => ck[p].sn # v
  PROVE  /\ \A o \in Procs \ {p} : ck'[o].pc = "rmdir" /\ ck'[o].sn = v =>
               image'[v].state = "empty" \/ image'[v].refused
         /\ image'[v].state \in {"partial", "empty"} =>
               \/ image'[v].refused
               \/ \E o \in Procs : ck'[o].sn = v /\ ck'[o].pc \in {"clean", "rmdir", "killed"}
  BY DEF CleanedInv, RmdirEmpty, IncompleteIsCleaned, Others, Cleaning

(* A step of checkpoint leaves no incomplete image unattended.             *)
LEMMA CkCleanedStep ==
  ASSUME CleanedInv, NEW p \in Procs, ImageEffect(p), ck[p].pc # "killed"
  PROVE  RmdirEmpty' /\ IncompleteIsCleaned'
<1>0. CleansOwn /\ RmdirEmpty /\ IncompleteIsCleaned /\ Others(p)
  BY DEF CleanedInv, CleanInv, ImageEffect
<1>1. CASE Still(p)
  <2>1. \A o \in Procs : ck'[o].pc \in Cleaning => ck'[o].pc = ck[o].pc /\ ck'[o].sn = ck[o].sn
    BY <1>0, <1>1 DEF Still, Others, Cleaning
  <2>2. \A o \in Procs : ck[o].pc \in {"clean", "rmdir", "killed"} =>
                           /\ ck'[o].pc \in {"clean", "rmdir", "killed"} /\ ck'[o].sn = ck[o].sn
    BY <1>0, <1>1 DEF Still, Others, Cleaning
  <2>3. RmdirEmpty'
    BY <1>0, <1>1, <2>1 DEF RmdirEmpty, CleansOwn, Still, SameStates, Cleaning
  <2>4. ASSUME NEW v \in Versions, image'[v].state \in {"partial", "empty"}, ~image'[v].refused
        PROVE  \E o \in Procs : ck'[o].sn = v /\ ck'[o].pc \in {"clean", "rmdir", "killed"}
    <3>1. image[v].state \in {"partial", "empty"} /\ ~image[v].refused
      BY <1>1, <2>4 DEF Still, SameStates
    <3>2. PICK o \in Procs : ck[o].sn = v /\ ck[o].pc \in {"clean", "rmdir", "killed"}
      BY <1>0, <3>1 DEF IncompleteIsCleaned
    <3> QED BY <2>2, <3>2
  <2> QED BY <2>3, <2>4 DEF IncompleteIsCleaned
<1>u. ASSUME NEW v \in Versions, NEW u \in Versions \ {v}, OtherImages(v),
             ck[p].pc \in Cleaning => ck[p].sn = v
      PROVE  /\ \A o \in Procs \ {p} : ck'[o].pc = "rmdir" /\ ck'[o].sn = u =>
                   image'[u].state = "empty" \/ image'[u].refused
             /\ image'[u].state \in {"partial", "empty"} =>
                   \/ image'[u].refused
                   \/ \E o \in Procs : ck'[o].sn = u /\ ck'[o].pc \in {"clean", "rmdir", "killed"}
  <2>1. image'[u] = image[u] /\ (ck[p].pc \in Cleaning \cup {"killed"} => ck[p].sn # u)
    BY <1>u DEF OtherImages
  <2> QED BY <1>0, <2>1, OthersCleaned
<1>v. ASSUME NEW v \in Versions, OtherImages(v), ck[p].pc \in Cleaning => ck[p].sn = v,
             \A o \in Procs \ {p} : ck[o].pc = "rmdir" => ck[o].sn # v,
             ck'[p].pc = "rmdir" =>
               ck'[p].sn = v /\ (image'[v].state = "empty" \/ image'[v].refused),
             image'[v].state \in {"partial", "empty"} =>
               \/ image'[v].refused
               \/ ck'[p].sn = v /\ ck'[p].pc \in {"clean", "rmdir", "killed"}
      PROVE  RmdirEmpty' /\ IncompleteIsCleaned'
  <2>1. ASSUME NEW o \in Procs, ck'[o].pc = "rmdir"
        PROVE  image'[ck'[o].sn].state = "empty" \/ image'[ck'[o].sn].refused
    <3>1. CASE o = p
      BY <1>v, <2>1, <3>1
    <3>2. CASE o # p
      <4>1. ck'[o] = ck[o] /\ ck[o].sn \in Versions /\ ck[o].sn # v
        BY <1>0, <1>v, <2>1, <3>2 DEF Others, CleansOwn, Cleaning
      <4> QED BY <1>u, <1>v, <2>1, <3>2, <4>1
    <3> QED BY <3>1, <3>2
  <2>2. ASSUME NEW u \in Versions, image'[u].state \in {"partial", "empty"}
        PROVE  \/ image'[u].refused
               \/ \E o \in Procs : ck'[o].sn = u /\ ck'[o].pc \in {"clean", "rmdir", "killed"}
    <3>1. CASE u = v
      BY <1>v, <2>2, <3>1
    <3>2. CASE u # v
      BY <1>u, <1>v, <2>2, <3>2
    <3> QED BY <3>1, <3>2
  <2> QED BY <2>1, <2>2 DEF RmdirEmpty, IncompleteIsCleaned
<1>p. ASSUME ck[p].pc \in Cleaning
      PROVE  /\ ck[p].sn \in Versions
             /\ \A o \in Procs \ {p} : ck[o].pc = "rmdir" => ck[o].sn # ck[p].sn
  BY <1>0, <1>p DEF CleansOwn, Cleaning
<1>2. CASE Empties(p)
  BY <1>2, <1>p, <1>v DEF Empties, Cleaning
<1>3. CASE Removes(p)
  <2>1. \/ image'[ck[p].sn].state = "absent"
        \/ image'[ck[p].sn].refused
    BY <1>0, <1>3, <1>p DEF Removes, RmdirEmpty, Cleaning
  <2> QED BY <1>3, <1>p, <1>v, <2>1 DEF Removes, Cleaning
<1>4. CASE IsRefused(p)
  BY <1>4, <1>p, <1>v DEF IsRefused, Cleaning
<1>5. ASSUME NEW v \in Versions, Saves(p, v) \/ Fails(p, v)
      PROVE  RmdirEmpty' /\ IncompleteIsCleaned'
  <2>1. image[v].state = "absent" /\ OtherImages(v) /\ ck[p].pc \notin Cleaning
    BY <1>5 DEF Saves, Fails
  <2>2. \A o \in Procs \ {p} : ck[o].pc = "rmdir" => ck[o].sn # v
    BY <1>0, <2>1 DEF CleansOwn, Cleaning
  <2>3. CASE Saves(p, v)
    BY <1>v, <2>1, <2>2, <2>3 DEF Saves, Cleaning
  <2>4. CASE Fails(p, v)
    BY <1>v, <2>1, <2>2, <2>4 DEF Fails
  <2> QED BY <1>5, <2>3, <2>4
<1> QED BY <1>1, <1>2, <1>3, <1>4, <1>5 DEF ImageEffect

(* A process that has been killed takes no step.                           *)
LEMMA KilledStops ==
  ASSUME NEW p \in Procs, Start(p) \/ handle_signal(p) \/ CkStep(p)
  PROVE  ck[p].pc # "killed"
  BY DEF Start, handle_signal, CkActive, CkStep, freeze_app, ChkptCallbacks,
         ChkptCallbacksFail, FreezeCall, CheckpointInterrupted, CheckpointCall,
         write_description, CleanFiles, CleanVersion, CleanApp, unfreeze_app,
         ContinueCallbacks, UnfreezeCall, At

(* Every version that is not complete belongs to a command that is still   *)
(* cleaning it up, or was killed while it did, unless the file system has  *)
(* refused to remove something of it: a checkpoint that fails, or that is  *)
(* interrupted, leaves nothing else behind.                                *)
THEOREM HalfWrittenIsCleaned == Spec => []IncompleteIsCleaned
<1>1. Init => CleanedInv
  BY CleanInit DEF Init, CkInit, IdleCk, ControlInit, NoImage, CleanedInv,
                   RmdirEmpty, IncompleteIsCleaned
<1>2. CleanedInv /\ [Next]_vars => CleanedInv'
  <2> SUFFICES ASSUME CleanedInv, [Next]_vars PROVE CleanedInv'
    OBVIOUS
  <2>1. CleanInv'
    BY CleanStep DEF CleanedInv
  <2>2. CASE \E p \in Procs : Checkpoint(p)
    <3> PICK p \in Procs : Checkpoint(p)
      BY <2>2
    <3>1. ImageEffect(p) /\ ck[p].pc # "killed"
      BY CkImageEffect, KilledStops DEF Checkpoint, CleanedInv, CleanInv
    <3> QED BY <2>1, <3>1, CkCleanedStep DEF CleanedInv
  <2>3. CASE (\E q \in RProcs : Restart(q)) \/ Exits \/ UNCHANGED vars
    <3>1. image' = image /\ ck' = ck
      BY <2>3, OtherImageEffect
    <3> QED BY <2>1, <3>1 DEF CleanedInv, RmdirEmpty, IncompleteIsCleaned
  <2> QED BY <2>2, <2>3 DEF Next
<1>3. CleanedInv => IncompleteIsCleaned
  BY DEF CleanedInv
<1> QED BY <1>1, <1>2, <1>3, PTL DEF Spec

-----------------------------------------------------------------------------
(* The commands implement AppLife.                                         *)

SameApp == /\ app'.status = app.status /\ app'.epoch = app.epoch
           /\ app'.clock = app.clock
Freezes == /\ app.status = "running" /\ app'.status = "frozen"
           /\ app'.epoch = app.epoch /\ app'.clock = app.clock
Resumes == /\ app.status = "frozen" /\ app'.status = "running"
           /\ app'.clock = app.clock + 1 /\ app'.epoch = app.clock + 1
Ends == /\ app.status # "dead" /\ app'.status = "dead"
        /\ app'.epoch = app.epoch /\ app'.clock = app.clock
Restores(v) == /\ app.status = "dead" /\ image[v].state = "image"
               /\ app'.status = "frozen" /\ app'.epoch = image[v].epoch
               /\ app'.clock = app.clock

(* What a step does to the application.                                    *)
AppEffect == SameApp \/ Freezes \/ Resumes \/ Ends \/ \E v \in Versions : Restores(v)

(* What the kernel's requests do to the application.                       *)
LEMMA ControlEffect ==
  ASSUME ControlTypeOK
  PROVE  /\ \A p : application_freeze(p) => Freezes
         /\ \A lethal : application_unfreeze(lethal) => Resumes \/ Ends
         /\ \A q, v : application_restart(q, v) => Restores(v)
         /\ AppExits => Ends
         /\ UNCHANGED app => SameApp
<1>0. app \in AppState
  BY DEF ControlTypeOK
<1>1. ASSUME NEW p, application_freeze(p) PROVE Freezes
  BY <1>0, <1>1 DEF AppState, application_freeze, Freezes
<1>2. ASSUME NEW lethal, application_unfreeze(lethal) PROVE Resumes \/ Ends
  BY <1>0, <1>2 DEF AppState, application_unfreeze, Resumes, Ends
<1>3. ASSUME NEW q, NEW v, application_restart(q, v) PROVE Restores(v)
  BY <1>0, <1>3 DEF AppState, application_restart, Restores
<1>4. AppExits => Ends
  BY <1>0 DEF AppState, AppExits, Ends
<1>5. UNCHANGED app => SameApp
  BY DEF SameApp
<1> QED BY <1>1, <1>2, <1>3, <1>4, <1>5

(* Every step of the system does one of these, or none.                    *)
LEMMA StepAppEffect ==
  ASSUME TypeOK, [Next]_vars
  PROVE  AppEffect
<1>0. ControlTypeOK /\ RsTypeOK
  BY DEF TypeOK
<1> USE ControlEffect
<1>1. ASSUME NEW p \in Procs, Checkpoint(p) PROVE AppEffect
  <2>1. CASE Start(p) \/ handle_signal(p)
    BY <1>0, <2>1 DEF Start, handle_signal, controlVars, AppEffect
  <2>2. CASE \/ freeze_app(p) \/ CheckpointInterrupted(p) \/ write_description(p)
             \/ CleanFiles(p) \/ CleanVersion(p) \/ CleanApp(p) \/ unfreeze_app(p)
    BY <1>0, <2>2 DEF freeze_app, CheckpointInterrupted,
         write_description, CleanFiles, CleanVersion, CleanApp, unfreeze_app,
         controlVars, AppEffect
  <2>3. CASE ChkptCallbacks(p) \/ ChkptCallbacksFail(p)
    BY <1>0, <2>3 DEF ChkptCallbacks, ChkptCallbacksFail, ControlTypeOK, AppState, SameApp, AppEffect
  <2>4. CASE FreezeCall(p)
    BY <1>0, <2>4 DEF FreezeCall, application_freeze_fails, controlVars, AppEffect
  <2>5. CASE CheckpointCall(p)
    BY <1>0, <2>5 DEF CheckpointCall, application_checkpoint,
         application_checkpoint_fails, controlVars, AppEffect
  <2>6. CASE ContinueCallbacks(p)
    BY <1>0, <2>6 DEF ContinueCallbacks, controlVars, AppEffect
  <2>7. CASE UnfreezeCall(p)
    BY <1>0, <2>7 DEF UnfreezeCall, application_unfreeze_fails, controlVars, AppEffect
  <2> QED BY <1>1, <2>1, <2>2, <2>3, <2>4, <2>5, <2>6, <2>7 DEF Checkpoint, CkStep
<1>2. ASSUME NEW q \in RProcs, Restart(q) PROVE AppEffect
  <2>1. CASE RsStart(q) \/ RsKilled(q) \/ replace_stdin_stdout_stderr(q) \/ WaitReturns(q)
    BY <1>0, <2>1 DEF RsStart, RsKilled, replace_stdin_stdout_stderr, WaitReturns,
         controlVars, AppEffect
  <2>2. CASE relay_signal(q)
    BY <1>0, <2>2 DEF relay_signal, ControlTypeOK, AppState, Ends, AppEffect
  <2>3. CASE RestartCall(q)
    <3>1. rs[q].version \in Versions
      BY <1>0, <2>3 DEF RestartCall, RsTypeOK, RsState
    <3> QED BY <1>0, <2>3, <3>1 DEF RestartCall, application_restart_fails,
                                    controlVars, AppEffect
  <2>4. CASE RestartCallbacks(q)
    BY <1>0, <2>4 DEF RestartCallbacks, controlVars, AppEffect
  <2>5. CASE RsUnfreezeCall(q)
    BY <1>0, <2>5 DEF RsUnfreezeCall, application_unfreeze_fails, controlVars, AppEffect
  <2> QED BY <1>2, <2>1, <2>2, <2>3, <2>4, <2>5 DEF Restart, RsStep
<1>3. CASE Exits
  BY <1>0, <1>3 DEF Exits, AppEffect
<1>4. CASE UNCHANGED vars
  BY <1>0, <1>4 DEF vars, controlVars, AppEffect
<1> QED BY <1>1, <1>2, <1>3, <1>4 DEF Next

(* States are numbered from 1, so that 0 can stand for no image.           *)
EpochInv == /\ CleanInv /\ app.epoch # 0
            /\ \A v \in Versions : image[v].state = "image" => image[v].epoch # 0

Saved == [v \in Versions |-> IF image[v].state = "image" THEN image[v].epoch ELSE 0]

(* A step of the system is a step of the application's life.               *)
LEMMA LifeStep ==
  ASSUME EpochInv, [Next]_vars
  PROVE  EpochInv' /\ [Life!LifeNext]_(Life!lifeVars)
<1>0. TypeOK /\ CleansOwn /\ CleanInv'
  BY CleanStep DEF EpochInv, CleanInv
<1>1. AppEffect
  BY <1>0, StepAppEffect
<1>2. app.clock \in Nat
  BY <1>0 DEF TypeOK, ControlTypeOK, AppState
<1>3. app'.epoch # 0
  BY <1>1, <1>2 DEF EpochInv, AppEffect, SameApp, Freezes, Resumes, Ends, Restores
<1>4. CASE \E p \in Procs, v \in Versions : Saves(p, v)
  <2>1. PICK p \in Procs, v \in Versions : Saves(p, v)
    BY <1>4
  <2>2. EpochInv'
    BY <1>0, <1>3, <2>1 DEF EpochInv, Saves, OtherImages
  <2>3. Saved' = [Saved EXCEPT ![v] = app.epoch] /\ Saved[v] = 0
    BY <2>1 DEF Saved, Saves, OtherImages
  <2>4. Life!Save(v)
    BY <2>1, <2>3 DEF Life!Save, Saves, Saved
  <2> QED BY <2>2, <2>4 DEF Life!LifeNext
<1>5. CASE Saved' = Saved /\ \A v \in Versions : image'[v].state = "image" => image'[v].epoch # 0
  <2>1. EpochInv'
    BY <1>0, <1>3, <1>5 DEF EpochInv
  <2>2. CASE SameApp
    BY <1>5, <2>1, <2>2 DEF SameApp, Life!lifeVars, Saved
  <2>3. CASE Freezes
    BY <1>5, <2>1, <2>3 DEF Freezes, Life!Freeze, Life!LifeNext, Saved
  <2>4. CASE Resumes
    BY <1>5, <2>1, <2>4 DEF Resumes, Life!Resume, Life!LifeNext, Saved
  <2>5. CASE Ends
    BY <1>5, <2>1, <2>5 DEF Ends, Life!End, Life!LifeNext, Saved
  <2>6. ASSUME NEW v \in Versions, Restores(v) PROVE Life!Restore(v)
    BY <1>5, <2>6 DEF Restores, Life!Restore, Saved, EpochInv
  <2> QED BY <1>1, <2>1, <2>2, <2>3, <2>4, <2>5, <2>6 DEF AppEffect, Life!LifeNext
<1>6. ASSUME \A v \in Versions :
               \/ /\ image'[v].state = image[v].state /\ image'[v].epoch = image[v].epoch
               \/ image[v].state # "image" /\ image'[v].state # "image"
      PROVE  Saved' = Saved /\ \A v \in Versions : image'[v].state = "image" => image'[v].epoch # 0
  BY <1>6 DEF Saved, EpochInv
<1>7. ASSUME NEW p \in Procs, ImageEffect(p), ~ \E v \in Versions : Saves(p, v)
      PROVE  EpochInv' /\ [Life!LifeNext]_(Life!lifeVars)
  <2>1. CASE Still(p)
    BY <1>5, <1>6, <2>1 DEF Still, SameStates
  <2>2. CASE Empties(p)
    <3>1. ck[p].sn \in Versions /\ image[ck[p].sn].state \in {"partial", "empty"}
      BY <1>0, <2>2 DEF CleansOwn, Empties, Cleaning
    <3> QED BY <1>5, <1>6, <2>2, <3>1 DEF Empties, OtherImages
  <2>3. CASE Removes(p)
    BY <1>5, <1>6, <2>3 DEF Removes, OtherImages
  <2>5. CASE IsRefused(p)
    BY <1>5, <1>6, <2>5 DEF IsRefused, OtherImages
  <2>4. CASE \E v \in Versions : Fails(p, v)
    BY <1>5, <1>6, <2>4 DEF Fails, OtherImages
  <2> QED BY <1>7, <2>1, <2>2, <2>3, <2>4, <2>5 DEF ImageEffect
<1>8. CASE \E p \in Procs : Checkpoint(p)
  BY <1>0, <1>4, <1>7, <1>8, CkImageEffect DEF Checkpoint
<1>9. CASE (\E q \in RProcs : Restart(q)) \/ Exits \/ UNCHANGED vars
  BY <1>5, <1>6, <1>9, OtherImageEffect
<1> QED BY <1>8, <1>9 DEF Next

(* The checkpoint and restart commands, in any number and order and with   *)
(* any failures, implement AppLife: an image is of the state in which the  *)
(* application was frozen when it was made, stays as it is, and a restart  *)
(* brings back exactly that state.                                         *)
THEOREM ImplementsLife == Spec => LifeSpec
<1>1. Init => EpochInv
  BY CleanInit DEF Init, ControlInit, NoImage, EpochInv
<1>2. Init => Life!LifeInit
  BY DEF Init, ControlInit, NoImage, Life!LifeInit
<1>3. EpochInv /\ [Next]_vars => EpochInv' /\ [Life!LifeNext]_(Life!lifeVars)
  BY LifeStep
<1> QED BY <1>1, <1>2, <1>3, PTL DEF Spec, LifeSpec, Life!LifeSpec

-----------------------------------------------------------------------------
(* What the commands report.                                               *)

(* The action a process was started with says where it can be, and one     *)
(* that makes no image has no version.                                     *)
Phase(c) ==
  /\ c.pc \in {"freeze_app", "callbacks", "freeze"} => c.action \in {"ALL", "FREEZE"}
  /\ c.pc \in {"checkpoint_app", "write_description", "clean", "rmdir", "rmapp"} =>
       c.action \in {"ALL", "CHECKPOINT"}
  /\ c.action \in {"FREEZE", "UNFREEZE"} => c.sn = 0

(* A process that has made an image and has not failed since.              *)
Claim(c) ==
  \/ c.pc = "write_description"
  \/ /\ c.pc \in {"unfreeze_app", "continue", "unfreeze", "done"}
     /\ c.r = "ok" /\ c.action \in {"ALL", "CHECKPOINT"}

ReportInv ==
  /\ CleanInv
  /\ \A p \in Procs : Phase(ck[p])
  /\ \A p \in Procs : Claim(ck[p]) =>
       ck[p].sn \in Versions /\ image[ck[p].sn].state = "image"
  /\ \A p, o \in Procs : Claim(ck[p]) /\ Claim(ck[o]) /\ p # o => ck[p].sn # ck[o].sn

(* What a process becomes when it exits ...                                *)
LEMMA ExitResult ==
  ASSUME CkTypeOK, NEW p \in Procs, NEW r \in {"ok", "fail"}, Exit(p, r)
  PROVE  /\ ck'[p].pc = "done" /\ ck'[p].action = ck[p].action
         /\ ck'[p].r = r /\ ck'[p].sn = ck[p].sn /\ Others(p)
  BY DEF Exit, Ended, IdleCk, CkTypeOK, CkState, Others

(* ... goes on ...                                                         *)
LEMMA GotoResult ==
  ASSUME CkTypeOK, NEW p \in Procs, NEW pc, Goto(p, pc)
  PROVE  /\ ck'[p].pc = pc /\ ck'[p].action = ck[p].action
         /\ ck'[p].r = ck[p].r /\ ck'[p].sn = ck[p].sn
         /\ ck'[p].lethal = ck[p].lethal /\ ck'[p].noCallbacks = ck[p].noCallbacks
         /\ Others(p)
  BY DEF Goto, CkTypeOK, CkState, Others

(* ... and returns from checkpoint_app.                                    *)
LEMMA ReturnsResult ==
  ASSUME CkTypeOK, NEW p \in Procs, NEW r \in {"ok", "fail"},
         NEW sn \in Versions \cup {0}, CheckpointReturns(p, r, sn)
  PROVE  /\ ck'[p].pc = IF ck[p].action = "ALL" THEN "unfreeze_app" ELSE "done"
         /\ ck'[p].action = ck[p].action /\ ck'[p].r = r /\ ck'[p].sn = sn
         /\ ck'[p].lethal => ck[p].lethal /\ r = "ok"
         /\ Others(p)
<1>1. CASE ck[p].action = "ALL"
  <2> DEFINE on == [ck[p] EXCEPT !.pc = "unfreeze_app", !.r = r, !.sn = sn,
                                 !.lethal = ck[p].lethal /\ r = "ok"]
  <2>1. /\ on.pc = "unfreeze_app" /\ on.action = ck[p].action /\ on.r = r /\ on.sn = sn
        /\ on.lethal = (ck[p].lethal /\ r = "ok")
    BY DEF CkTypeOK, CkState
  <2>2. ck' = [ck EXCEPT ![p] = on]
    BY <1>1 DEF CheckpointReturns
  <2> HIDE DEF on
  <2> QED BY <1>1, <2>1, <2>2 DEF CkTypeOK, Others
<1>2. CASE ck[p].action # "ALL"
  <2> DEFINE off == Ended(p, r, sn)
  <2>1. off.pc = "done" /\ off.action = ck[p].action /\ off.r = r /\ off.sn = sn /\ off.lethal = FALSE
    BY DEF Ended, IdleCk, CkTypeOK, CkState
  <2>2. ck' = [ck EXCEPT ![p] = off]
    BY <1>2 DEF CheckpointReturns
  <2> HIDE DEF off
  <2> QED BY <1>2, <2>1, <2>2 DEF CkTypeOK, Others
<1> QED BY <1>1, <1>2

(* A step of checkpoint makes no claim but by saving an image in a version *)
(* that did not exist.                                                     *)
NoNewClaim(p) == Claim(ck'[p]) => Claim(ck[p]) /\ ck'[p].sn = ck[p].sn
NewClaim(p) == /\ ck'[p].sn \in Versions
               /\ image[ck'[p].sn].state = "absent" /\ image'[ck'[p].sn].state = "image"

(* checkpoint makes a new claim only where it has an image.                *)
LEMMA CkReports ==
  ASSUME TypeOK, NEW p \in Procs, Phase(ck[p]), Start(p) \/ handle_signal(p) \/ CkStep(p)
  PROVE  Others(p) /\ Phase(ck'[p]) /\ (NoNewClaim(p) \/ NewClaim(p))
<1>0. CkTypeOK /\ ControlTypeOK
  BY DEF TypeOK
<1>a. /\ ck[p].sn \in Versions \cup {0} /\ ck[p].r \in {"ok", "fail"}
      /\ image \in [Versions -> ImageState]
  BY <1>0, CkFieldTypes DEF ControlTypeOK
<1>f. ASSUME Exit(p, "fail") PROVE Others(p) /\ Phase(ck'[p]) /\ NoNewClaim(p)
  BY <1>0, <1>f, ExitResult DEF Phase, NoNewClaim, Claim
<1>u. ASSUME UnfreezeFails(p) PROVE Others(p) /\ Phase(ck'[p]) /\ NoNewClaim(p)
  BY <1>0, <1>u, RefusedEffect DEF Phase, NoNewClaim, Claim
<1>r. ASSUME NEW sn \in Versions \cup {0}, CheckpointReturns(p, "fail", sn),
             ck[p].action \in {"ALL", "CHECKPOINT"}
      PROVE  Others(p) /\ Phase(ck'[p]) /\ NoNewClaim(p)
  BY <1>0, <1>r, ReturnsResult DEF Phase, NoNewClaim, Claim
<1>1. CASE Start(p)
  <2>1. PICK action \in Actions, nocb \in BOOLEAN, lethal \in BOOLEAN :
          ck' = [ck EXCEPT ![p] =
                  [IdleCk EXCEPT !.pc = FirstStep(action), !.action = action,
                     !.noCallbacks = nocb, !.lethal = lethal]]
    BY <1>1, ZenonT(30) DEF Start, parse_args
  <2>2. ck'[p].pc = FirstStep(action) /\ ck'[p].action = action /\ ck'[p].sn = 0 /\ Others(p)
    BY <1>0, <2>1 DEF CkTypeOK, IdleCk, Others
  <2> QED BY <2>2, CheckpointAssumption DEF Phase, NoNewClaim, Claim, FirstStep
<1>2. CASE handle_signal(p)
  <2>1. /\ Others(p) /\ ck'[p].sn = ck[p].sn /\ ck'[p].action = ck[p].action
        /\ ck'[p].pc = "killed" \/ (ck'[p].pc = ck[p].pc /\ ck'[p].r = ck[p].r)
    BY <1>0, <1>2, SignalEffect
  <2> QED BY <2>1 DEF Phase, NoNewClaim, Claim
<1>3. CASE freeze_app(p) \/ ChkptCallbacks(p) \/ ChkptCallbacksFail(p)
  <2>1. ck[p].action \in {"ALL", "FREEZE"}
    BY <1>3 DEF freeze_app, ChkptCallbacks, ChkptCallbacksFail, At, Phase
  <2>2. Exit(p, "fail") \/ Goto(p, "freeze") \/ Goto(p, "callbacks")
    BY <1>3 DEF freeze_app, ChkptCallbacks, ChkptCallbacksFail
  <2>3. ASSUME NEW pc \in {"freeze", "callbacks"}, Goto(p, pc)
        PROVE  Others(p) /\ Phase(ck'[p]) /\ NoNewClaim(p)
    BY <1>0, <2>1, <2>3, GotoResult DEF Phase, NoNewClaim, Claim
  <2> QED BY <1>f, <2>2, <2>3
<1>4. CASE FreezeCall(p)
  <2>1. ck[p].action \in {"ALL", "FREEZE"}
    BY <1>4 DEF FreezeCall, At, Phase
  <2>2. CASE Exit(p, "fail")
    BY <1>f, <2>2
  <2>3. CASE ck[p].action = "ALL" /\ Goto(p, "checkpoint_app")
    BY <1>0, <2>3, GotoResult DEF Phase, NoNewClaim, Claim
  <2>4. CASE ck[p].action # "ALL" /\ Exit(p, "ok")
    BY <1>0, <2>1, <2>4, ExitResult DEF Phase, NoNewClaim, Claim
  <2> QED BY <1>4, <2>2, <2>3, <2>4 DEF FreezeCall
<1>5. CASE CheckpointInterrupted(p) \/ CleanApp(p)
  <2>1. ck[p].action \in {"ALL", "CHECKPOINT"}
    BY <1>5 DEF CheckpointInterrupted, CleanApp, At, Phase
  <2> QED BY <1>5, <1>a, <1>r, <2>1 DEF CheckpointInterrupted, CleanApp
<1>6. CASE CheckpointCall(p)
  <2>1. ck[p].action \in {"ALL", "CHECKPOINT"}
    BY <1>6 DEF CheckpointCall, At, Phase
  <2>2. ASSUME NEW v \in Versions, NEW state \in {"image", "partial"},
               application_checkpoint(v, state),
               ck' = [ck EXCEPT ![p].sn = v, ![p].pc =
                       IF state = "image" THEN "write_description" ELSE "clean"]
        PROVE  Others(p) /\ Phase(ck'[p]) /\ (NoNewClaim(p) \/ NewClaim(p))
    <3>1. /\ Others(p) /\ ck'[p].sn = v /\ ck'[p].action = ck[p].action
          /\ ck'[p].pc = IF state = "image" THEN "write_description" ELSE "clean"
      BY <1>0, <2>2 DEF CkTypeOK, CkState, Others
    <3>2. image[v].state = "absent" /\ image'[v].state = state
      BY <1>a, <2>2 DEF application_checkpoint, ImageOf, NoImage
    <3> QED BY <2>1, <3>1, <3>2 DEF Phase, NoNewClaim, NewClaim, Claim
  <2> QED BY <1>6, <1>r, <2>1, <2>2 DEF CheckpointCall
<1>7. CASE write_description(p)
  <2>1. ck[p].action \in {"ALL", "CHECKPOINT"} /\ ck[p].pc = "write_description"
        /\ CheckpointReturns(p, "ok", ck[p].sn)
    BY <1>7 DEF write_description, At, Phase
  <2> QED BY <1>0, <1>a, <2>1, ReturnsResult DEF Phase, NoNewClaim, Claim
<1>8. CASE CleanFiles(p) \/ CleanVersion(p)
  <2>1. /\ ck[p].action \in {"ALL", "CHECKPOINT"}
        /\ \/ \E pc \in {"rmdir", "rmapp"} : Goto(p, pc)
           \/ CheckpointReturns(p, "fail", ck[p].sn)
    BY <1>8 DEF CleanFiles, CleanVersion, At, Phase
  <2> QED BY <1>0, <1>a, <1>r, <2>1, GotoResult DEF Phase, NoNewClaim, Claim
<1>9. CASE unfreeze_app(p) \/ ContinueCallbacks(p)
  <2>1. ck[p].pc \in {"unfreeze_app", "continue"}
    BY <1>9 DEF unfreeze_app, ContinueCallbacks, At
  <2>2. \/ Exit(p, "fail") \/ UnfreezeFails(p)
        \/ \E pc \in {"continue", "unfreeze"} : Goto(p, pc)
    BY <1>9 DEF unfreeze_app, ContinueCallbacks
  <2>3. ASSUME NEW pc \in {"continue", "unfreeze"}, Goto(p, pc)
        PROVE  Others(p) /\ Phase(ck'[p]) /\ NoNewClaim(p)
    BY <1>0, <2>1, <2>3, GotoResult DEF Phase, NoNewClaim, Claim
  <2> QED BY <1>f, <1>u, <2>2, <2>3
<1>10. CASE UnfreezeCall(p)
  <2>1. ck[p].pc = "unfreeze" /\ (UnfreezeFails(p) \/ Exit(p, ck[p].r))
    BY <1>10 DEF UnfreezeCall, At
  <2>2. CASE Exit(p, ck[p].r)
    BY <1>0, <1>a, <2>1, <2>2, ExitResult DEF Phase, NoNewClaim, Claim
  <2> QED BY <1>u, <2>1, <2>2
<1> QED BY <1>1, <1>2, <1>3, <1>4, <1>5, <1>6, <1>7, <1>8, <1>9, <1>10 DEF CkStep

(* Every step keeps ReportInv.                                             *)
LEMMA ReportStep ==
  ASSUME ReportInv, [Next]_vars PROVE ReportInv'
<1>0. TypeOK /\ CleanInv' /\ \A v \in Versions : SameImage(v)
  BY CleanStep DEF ReportInv, CleanInv
<1>1. CASE \E p \in Procs : Checkpoint(p)
  <2> PICK p \in Procs : Checkpoint(p)
    BY <1>1
  <2>1. Others(p) /\ Phase(ck'[p]) /\ (NoNewClaim(p) \/ NewClaim(p))
    BY <1>0, CkReports DEF Checkpoint, ReportInv
  <2>2. \A o \in Procs : Phase(ck'[o])
    BY <2>1 DEF ReportInv, Others
  <2>3. ASSUME NEW o \in Procs, Claim(ck'[o])
        PROVE  \/ /\ Claim(ck[o]) /\ ck'[o].sn = ck[o].sn
               \/ o = p /\ NewClaim(p)
    BY <2>1, <2>3 DEF Others, NoNewClaim
  <2>4. ASSUME NEW o \in Procs, Claim(ck'[o])
        PROVE  ck'[o].sn \in Versions /\ image'[ck'[o].sn].state = "image"
    BY <1>0, <2>3, <2>4 DEF ReportInv, SameImage, NewClaim
  <2>5. ASSUME NEW o \in Procs, NEW u \in Procs, Claim(ck'[o]), Claim(ck'[u]), o # u
        PROVE  ck'[o].sn # ck'[u].sn
    BY <2>3, <2>5 DEF ReportInv, NewClaim
  <2> QED BY <1>0, <2>2, <2>4, <2>5 DEF ReportInv
<1>2. CASE (\E q \in RProcs : Restart(q)) \/ Exits \/ UNCHANGED vars
  BY <1>0, <1>2, OtherImageEffect DEF ReportInv
<1> QED BY <1>1, <1>2 DEF Next

(* Exit status 0 of a run that checkpoints means that its image is there,  *)
(* and that no other run claims the same version: for any number of        *)
(* commands at the same time, whatever is interrupted or fails.            *)
THEOREM SuccessIsTrue == Spec => []SuccessMeansImage
<1>1. Init => ReportInv
  BY CleanInit DEF Init, CkInit, IdleCk, ReportInv, Phase, Claim
<1>2. ReportInv /\ [Next]_vars => ReportInv'
  BY ReportStep
<1>3. ReportInv => SuccessMeansImage
  <2> SUFFICES ASSUME ReportInv, NEW p \in Procs, ck[p].pc = "done", ck[p].r = "ok",
                      ck[p].action \in {"ALL", "CHECKPOINT"}
               PROVE  /\ ck[p].sn \in Versions /\ image[ck[p].sn].state = "image"
                      /\ \A o \in Procs \ {p} : ck[o].pc = "done" /\ ck[o].r = "ok" =>
                                                   ck[o].sn # ck[p].sn
    BY DEF SuccessMeansImage
  <2>1. Claim(ck[p]) /\ ck[p].sn \in Versions /\ image[ck[p].sn].state = "image" /\ ck[p].sn # 0
    BY DEF ReportInv, Claim, Versions
  <2>2. ASSUME NEW o \in Procs \ {p}, ck[o].pc = "done", ck[o].r = "ok"
        PROVE  ck[o].sn # ck[p].sn
    <3>1. ck[o].action \in {"CHECKPOINT", "FREEZE", "UNFREEZE", "ALL"}
      BY DEF ReportInv, CleanInv, TypeOK, CkTypeOK, CkState
    <3> QED BY <2>1, <2>2, <3>1 DEF ReportInv, Phase, Claim
  <2> QED BY <2>1, <2>2
<1> QED BY <1>1, <1>2, <1>3, PTL DEF Spec

-----------------------------------------------------------------------------
(* What checkpoint -k ends.                                                *)

(* A run that will end the application, if it has been frozen all the time *)
(* since this run froze it, has saved the state it is in.                  *)
WillEnd(c) ==
  /\ c.action = "ALL"
  /\ \/ c.pc = "write_description"
     \/ c.pc \in {"unfreeze_app", "continue", "unfreeze"} /\ c.lethal
FrozenBy(p) == app.status = "frozen" /\ app.frozenBy = p
StateSaved(v) == /\ v \in Versions /\ image[v].state = "image"
                 /\ image[v].epoch = app.epoch

SavedInv ==
  /\ CleanInv
  /\ \A p \in Procs : FrozenBy(p) /\ WillEnd(ck[p]) => StateSaved(ck[p].sn)

(* An application is in the hands of the run that froze it until it is     *)
(* unfrozen.                                                               *)
LEMMA CkHands ==
  ASSUME TypeOK, NEW o \in Procs, Start(o) \/ handle_signal(o) \/ CkStep(o),
         NEW p \in Procs, FrozenBy(p)'
  PROVE  \/ FrozenBy(p) /\ app'.epoch = app.epoch
         \/ o = p /\ ck'[p].pc \in {"checkpoint_app", "done"}
<1>0. CkTypeOK /\ app \in AppState
  BY DEF TypeOK, ControlTypeOK
<1>1. CASE UNCHANGED app
  BY <1>1 DEF FrozenBy
<1>2. CASE ChkptCallbacks(o) \/ ChkptCallbacksFail(o)
  BY <1>0, <1>2 DEF ChkptCallbacks, ChkptCallbacksFail, AppState, FrozenBy
<1>3. CASE FreezeCall(o)
  <2>1. CASE application_freeze_fails
    BY <1>1, <2>1 DEF application_freeze_fails, controlVars
  <2>2. CASE /\ application_freeze(o)
             /\ IF ck[o].action = "ALL" THEN Goto(o, "checkpoint_app") ELSE Exit(o, "ok")
    <3>1. o = p
      BY <1>0, <2>2 DEF application_freeze, AppState, FrozenBy
    <3> QED BY <1>0, <2>2, <3>1, GotoEffect, ExitEffect
  <2> QED BY <1>3, <2>1, <2>2 DEF FreezeCall
<1>4. CASE UnfreezeCall(o)
  <2>1. CASE application_unfreeze(ck[o].lethal)
    BY <1>0, <2>1 DEF application_unfreeze, AppState, FrozenBy
  <2>2. CASE application_unfreeze_fails
    BY <1>1, <2>2 DEF application_unfreeze_fails, controlVars
  <2> QED BY <1>4, <2>1, <2>2 DEF UnfreezeCall
<1>5. CASE CheckpointCall(o)
  BY <1>1, <1>5 DEF CheckpointCall, application_checkpoint,
       application_checkpoint_fails, controlVars
<1>6. CASE \/ Start(o) \/ handle_signal(o) \/ freeze_app(o) \/ CheckpointInterrupted(o)
           \/ write_description(o) \/ CleanFiles(o) \/ CleanVersion(o)
           \/ CleanApp(o) \/ unfreeze_app(o) \/ ContinueCallbacks(o)
  BY <1>1, <1>6 DEF Start, handle_signal, freeze_app, CheckpointInterrupted,
       write_description, CleanFiles, CleanVersion, CleanApp, unfreeze_app,
       ContinueCallbacks, controlVars
<1> QED BY <1>2, <1>3, <1>4, <1>5, <1>6 DEF CkStep

(* The other steps freeze it, if they do, on behalf of a restart.          *)
LEMMA OtherHands ==
  ASSUME TypeOK, (\E q \in RProcs : Restart(q)) \/ Exits \/ UNCHANGED vars,
         NEW p \in Procs, FrozenBy(p)'
  PROVE  FrozenBy(p) /\ app'.epoch = app.epoch
<1>0. app \in AppState
  BY DEF TypeOK, ControlTypeOK
<1>1. CASE UNCHANGED app
  BY <1>1 DEF FrozenBy
<1>2. ASSUME NEW q \in RProcs, Restart(q) PROVE FrozenBy(p) /\ app'.epoch = app.epoch
  <2>1. CASE RsStart(q) \/ RsKilled(q) \/ replace_stdin_stdout_stderr(q) \/ WaitReturns(q)
    BY <1>1, <2>1 DEF RsStart, RsKilled, replace_stdin_stdout_stderr, WaitReturns, controlVars
  <2>2. CASE relay_signal(q)
    BY <1>0, <1>1, <2>2 DEF relay_signal, AppState, FrozenBy
  <2>3. CASE RestartCall(q)
    <3>1. CASE application_restart(q, rs[q].version)
      BY <1>0, <3>1, ControlAssumption DEF application_restart, AppState, FrozenBy
    <3>2. CASE application_restart_fails(rs[q].version)
      BY <1>1, <3>2 DEF application_restart_fails, controlVars
    <3> QED BY <2>3, <3>1, <3>2 DEF RestartCall
  <2>4. CASE RestartCallbacks(q)
    BY <1>1, <2>4 DEF RestartCallbacks, controlVars
  <2>5. CASE RsUnfreezeCall(q)
    <3>1. CASE application_unfreeze(FALSE)
      BY <1>0, <3>1 DEF application_unfreeze, AppState, FrozenBy
    <3>2. CASE application_unfreeze_fails
      BY <1>1, <3>2 DEF application_unfreeze_fails, controlVars
    <3> QED BY <2>5, <3>1, <3>2 DEF RsUnfreezeCall
  <2> QED BY <1>2, <2>1, <2>2, <2>3, <2>4, <2>5 DEF Restart, RsStep
<1>3. CASE Exits
  BY <1>0, <1>3 DEF Exits, AppExits, AppState, FrozenBy
<1>4. CASE UNCHANGED vars
  BY <1>1, <1>4 DEF vars, controlVars
<1> QED BY <1>2, <1>3, <1>4

(* A run comes to a point from which it ends the application only by       *)
(* saving it.                                                              *)
LEMMA EndsWhatItSaved ==
  ASSUME TypeOK, NEW p \in Procs, Start(p) \/ handle_signal(p) \/ CkStep(p),
         WillEnd(ck'[p])
  PROVE  \/ WillEnd(ck[p]) /\ ck'[p].sn = ck[p].sn
         \/ StateSaved(ck[p].sn)'
<1>0. CkTypeOK
  BY DEF TypeOK
<1>a. /\ ck[p].sn \in Versions \cup {0} /\ ck[p].r \in {"ok", "fail"}
      /\ image \in [Versions -> ImageState]
  BY <1>0, CkFieldTypes DEF TypeOK, ControlTypeOK
<1>e. ASSUME NEW r \in {"ok", "fail"}, Exit(p, r) PROVE FALSE
  BY <1>0, <1>e, ExitResult DEF WillEnd
<1>u. ASSUME UnfreezeFails(p) PROVE FALSE
  BY <1>0, <1>u, RefusedEffect DEF WillEnd
<1>f. ASSUME NEW sn \in Versions \cup {0}, CheckpointReturns(p, "fail", sn) PROVE FALSE
  BY <1>0, <1>f, ReturnsResult DEF WillEnd
<1>1. CASE Start(p)
  <2>1. PICK action \in Actions, nocb \in BOOLEAN, lethal \in BOOLEAN :
          ck' = [ck EXCEPT ![p] =
                  [IdleCk EXCEPT !.pc = FirstStep(action), !.action = action,
                     !.noCallbacks = nocb, !.lethal = lethal]]
    BY <1>1, ZenonT(30) DEF Start, parse_args
  <2>2. ck'[p].pc = FirstStep(action) /\ ck'[p].action = action
    BY <1>0, <2>1 DEF CkTypeOK, IdleCk
  <2> QED BY <2>2, CheckpointAssumption DEF FirstStep, WillEnd
<1>2. CASE handle_signal(p)
  <2>1. /\ ck'[p].sn = ck[p].sn
        /\ \/ ck'[p].pc = "killed"
           \/ /\ ck'[p].pc = ck[p].pc /\ ck'[p].action = ck[p].action
              /\ ck'[p].lethal = ck[p].lethal
    BY <1>0, <1>2, SignalEffect
  <2> QED BY <2>1 DEF WillEnd
<1>3. CASE freeze_app(p) \/ ChkptCallbacks(p) \/ ChkptCallbacksFail(p) \/ FreezeCall(p)
  <2>1. \/ \E r \in {"ok", "fail"} : Exit(p, r)
        \/ \E pc \in {"callbacks", "freeze", "checkpoint_app"} : Goto(p, pc)
    BY <1>3 DEF freeze_app, ChkptCallbacks, ChkptCallbacksFail, FreezeCall
  <2> QED BY <1>0, <1>e, <2>1, GotoResult DEF WillEnd
<1>4. CASE CheckpointInterrupted(p) \/ CleanApp(p)
  BY <1>a, <1>f, <1>4 DEF CheckpointInterrupted, CleanApp
<1>5. CASE CheckpointCall(p)
  <2>1. ASSUME NEW v \in Versions, NEW state \in {"image", "partial"},
               application_checkpoint(v, state),
               ck' = [ck EXCEPT ![p].sn = v, ![p].pc =
                       IF state = "image" THEN "write_description" ELSE "clean"]
        PROVE  StateSaved(ck[p].sn)'
    <3>1. /\ ck'[p].sn = v
          /\ ck'[p].pc = IF state = "image" THEN "write_description" ELSE "clean"
      BY <1>0, <2>1 DEF CkTypeOK, CkState
    <3>2. image'[v].state = state /\ image'[v].epoch = app.epoch /\ UNCHANGED app
      BY <1>a, <2>1 DEF application_checkpoint, ImageOf, NoImage
    <3> QED BY <3>1, <3>2 DEF WillEnd, StateSaved
  <2> QED BY <1>5, <1>f, <2>1 DEF CheckpointCall
<1>6. CASE write_description(p)
  <2>1. CheckpointReturns(p, "ok", ck[p].sn) /\ ck[p].pc = "write_description"
    BY <1>6 DEF write_description, At
  <2> QED BY <1>0, <1>a, <2>1, ReturnsResult DEF WillEnd
<1>7. CASE CleanFiles(p) \/ CleanVersion(p)
  <2>1. \/ \E pc \in {"rmdir", "rmapp"} : Goto(p, pc)
        \/ CheckpointReturns(p, "fail", ck[p].sn)
    BY <1>7 DEF CleanFiles, CleanVersion
  <2> QED BY <1>0, <1>a, <1>f, <2>1, GotoResult DEF WillEnd
<1>8. CASE unfreeze_app(p) \/ ContinueCallbacks(p)
  <2>1. /\ ck[p].pc \in {"unfreeze_app", "continue"}
        /\ \/ Exit(p, "fail") \/ UnfreezeFails(p)
           \/ \E pc \in {"continue", "unfreeze"} : Goto(p, pc)
    BY <1>8 DEF unfreeze_app, ContinueCallbacks, At
  <2> QED BY <1>0, <1>e, <1>u, <2>1, GotoResult DEF WillEnd
<1>9. CASE UnfreezeCall(p)
  BY <1>a, <1>e, <1>u, <1>9 DEF UnfreezeCall
<1> QED BY <1>1, <1>2, <1>3, <1>4, <1>5, <1>6, <1>7, <1>8, <1>9 DEF CkStep

(* SavedInv is inductive.                                                  *)
LEMMA SavedStep ==
  ASSUME SavedInv, [Next]_vars PROVE SavedInv'
<1>0. TypeOK /\ CleanInv' /\ \A v \in Versions : SameImage(v)
  BY CleanStep DEF SavedInv, CleanInv
<1>1. SUFFICES ASSUME NEW p \in Procs, FrozenBy(p)', WillEnd(ck'[p])
               PROVE  StateSaved(ck[p].sn)'
  BY <1>0 DEF SavedInv
<1>k. ASSUME FrozenBy(p), app'.epoch = app.epoch, WillEnd(ck[p]), ck'[p].sn = ck[p].sn
      PROVE  StateSaved(ck[p].sn)'
  BY <1>0, <1>k DEF SavedInv, StateSaved, SameImage
<1>2. ASSUME NEW o \in Procs, Checkpoint(o) PROVE StateSaved(ck[p].sn)'
  <2>1. FrozenBy(p) /\ app'.epoch = app.epoch
    BY <1>0, <1>1, <1>2, CkHands DEF Checkpoint, WillEnd
  <2>2. CASE o = p
    BY <1>0, <1>1, <1>2, <1>k, <2>1, <2>2, EndsWhatItSaved DEF Checkpoint
  <2>3. CASE o # p
    <3>1. ck'[p] = ck[p]
      BY <1>0, <1>2, <2>3, CkImageEffect DEF Checkpoint, ImageEffect, Others
    <3> QED BY <1>1, <1>k, <2>1, <3>1
  <2> QED BY <2>2, <2>3
<1>3. CASE (\E q \in RProcs : Restart(q)) \/ Exits \/ UNCHANGED vars
  BY <1>0, <1>1, <1>3, <1>k, OtherHands, OtherImageEffect
<1> QED BY <1>2, <1>3 DEF Next

(* checkpoint -k only ends an application it has frozen itself in a state  *)
(* that a complete image holds: no work is lost, however many commands run *)
(* at the same time and whatever fails or is interrupted.  (An application *)
(* which another command has unfrozen meanwhile, and a third has frozen    *)
(* again, may be ended with work that no image holds.)                     *)
THEOREM KillIsSafe == Spec => KillLosesNothing
<1> DEFINE Safe == \A p \in Procs : EndedBy(p) /\ app.frozenBy = p =>
             \E v \in Versions : image[v].state = "image" /\ image[v].epoch = app.epoch
<1>1. Init => SavedInv
  BY CleanInit DEF SavedInv, Init, ControlInit, FrozenBy
<1>2. SavedInv /\ [Next]_vars => SavedInv'
  BY SavedStep
<1>3. ASSUME SavedInv, [Next]_vars, NEW p \in Procs, EndedBy(p), app.frozenBy = p
      PROVE  \E v \in Versions : image[v].state = "image" /\ image[v].epoch = app.epoch
  <2>0. /\ ck[p].pc = "unfreeze" /\ ck'[p].pc = "done" /\ ck[p].action = "ALL"
        /\ app.status = "frozen" /\ app'.status = "dead" /\ TypeOK
        /\ app \in AppState
    BY <1>3 DEF EndedBy, SavedInv, CleanInv, TypeOK, ControlTypeOK
  <2>1. PICK o \in Procs : Checkpoint(o)
    <3>1. ck' # ck
      BY <2>0
    <3> QED BY <1>3, <3>1, OtherImageEffect DEF Next
  <2>2. Others(o)
    BY <2>0, <2>1, CkImageEffect DEF Checkpoint, ImageEffect
  <2>3. o = p
    BY <2>0, <2>2 DEF Others
  <2>4. UnfreezeCall(p) \/ handle_signal(p)
    BY <2>0, <2>1, <2>3 DEF Checkpoint, CkStep, Start, freeze_app, ChkptCallbacks,
         ChkptCallbacksFail, FreezeCall, CheckpointInterrupted, CheckpointCall,
         write_description, CleanFiles, CleanVersion, CleanApp, unfreeze_app,
         ContinueCallbacks, At
  <2>5. ~handle_signal(p)
    BY <2>0 DEF handle_signal, controlVars
  <2>6. ck[p].lethal
    BY <2>0, <2>4, <2>5 DEF UnfreezeCall, application_unfreeze, application_unfreeze_fails,
         controlVars, AppState
  <2>7. StateSaved(ck[p].sn)
    BY <1>3, <2>0, <2>6 DEF SavedInv, WillEnd, FrozenBy
  <2> QED BY <2>7 DEF StateSaved
<1>4. SavedInv /\ [Next]_vars => [Safe]_vars
  BY <1>3
<1> QED BY <1>1, <1>2, <1>4, PTL DEF Spec, KillLosesNothing

=============================================================================
