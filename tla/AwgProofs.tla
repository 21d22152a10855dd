------------------------------- MODULE AwgProofs -------------------------------
(***************************************************************************)
(* Proofs about the AmneziaWG interface, with the archives and restores of *)
(* Backup, for any workers and number of requests and faults.              *)
(***************************************************************************)
EXTENDS Backup, TLAPS

HasKey(c) == c \in {NoFile, Torn} \/ c.key # Placeholder

(* While requests about the interface do not meet and none is cut off, one *)
(* of them is at work at most, every copy of the file has its key, and a   *)
(* save that has not taken the key yet finds the file it takes it from.    *)
OneAtWork == \A v, w \in Workers : AwgBusy(v) /\ AwgBusy(w) => v = w

Carries(w) ==
  /\ pc[w] \in {"import", "importwrite", "savetrunc", "savewrite"} => form[w].key # Placeholder
  /\ pc[w] \in {"savedown", "savedisable", "savekey"} => KeyFound(awgConf)

Copies ==
  /\ HasKey(awgConf) /\ HasKey(extracted)
  /\ \A z \in archives : "awg" \in DOMAIN z /\ HasKey(z.awg)
  /\ \A w \in Workers : "awg" \in DOMAIN zip[w] /\ HasKey(zip[w].awg)

Shape ==
  /\ pc = [w \in Workers |-> pc[w]]
  /\ form = [w \in Workers |-> form[w]] /\ \A w \in Workers : "key" \in DOMAIN form[w]
  /\ zip = [w \in Workers |-> zip[w]]

AwgOK  == OneAtWork /\ Copies /\ \A w \in Workers : Carries(w)
AwgInv == Shape /\ (~odd => AwgOK)

LEMMA NotPlaceholder == \A n : \A k \in {"own", "imported", "unread", "foreign"} : AwgConf(k, n).key # Placeholder
BY AmneziaAssumption DEF AmneziaAssumption, AwgConf

LEMMA InitAwgInv == Init => AwgInv
<1> SUFFICES ASSUME Init PROVE AwgInv
  OBVIOUS
<1>1. \A w \in Workers : pc[w] = "idle" /\ zip[w] = NoArchive
  BY DEF Init
<1>2. HasKey(awgConf) /\ HasKey(extracted) /\ HasKey(NoArchive.awg) /\ "awg" \in DOMAIN NoArchive
  BY NotPlaceholder DEF Init, InitAwg, HasKey, NoArchive
<1>3. \A z \in archives : "awg" \in DOMAIN z /\ HasKey(z.awg)
  BY NotPlaceholder DEF Init, ForeignArchive, HasKey
<1>4. Shape
  BY DEF Init, InitAwg, Shape, NoForm, AwgConf
<1> QED
  BY <1>1, <1>2, <1>3, <1>4 DEF AwgInv, AwgOK, OneAtWork, Copies, Carries, AwgBusy, AwgLabels, RestoreLabels

LEMMA StepShape == Shape /\ [Next]_vars => Shape'
<1> SUFFICES ASSUME Shape, [Next]_vars PROVE Shape'
  OBVIOUS
<1> USE DEF Shape, Begin, Goto, AwgStep, AwgForget, Reset, NextFile, UnpackStep, Manage
<1>1. CASE UNCHANGED vars
  BY <1>1 DEF vars, locals, awgVars, awgLocals
<1>2. ASSUME NEW w \in Workers, AwgRequest(w),
             UNCHANGED <<files, encryptionKey, archives, used, extracted, zip, todo, list, history>>
      PROVE  Shape'
  <2> USE DEF NoForm, AwgConf
  <2>1. CASE ImportBegin(w) \/ ImportTrunc(w) \/ ImportWrite(w) \/ ImportUp(w) \/ ImportUpFails(w)
    <3>1. CASE ImportBegin(w)
      <4> HIDE DEF AwgConf
      <4>1. \A k, n : "key" \in DOMAIN AwgConf(k, n)
        BY DEF AwgConf
      <4>2. PICK key : form' = [form EXCEPT ![w] = AwgConf(key, reqs')]
        BY <3>1 DEF ImportBegin
      <4> QED
        BY <1>2, <3>1, <4>1, <4>2 DEF ImportBegin
    <3>2. CASE ImportTrunc(w) \/ ImportWrite(w) \/ ImportUp(w)
      BY <1>2, <3>2 DEF ImportTrunc, ImportWrite, ImportUp, awgLocals
    <3>3. CASE ImportUpFails(w)
      BY <1>2, <3>3 DEF ImportUpFails
    <3> QED
      BY <2>1, <3>1, <3>2, <3>3
  <2>2. CASE SaveBegin(w) \/ SaveDown(w) \/ SaveDisable(w) \/ SaveKey(w) \/ SaveTrunc(w) \/ SaveWrite(w)
    BY <1>2, <2>2 DEF SaveBegin, SaveDown, SaveDisable, SaveKey, SaveTrunc, SaveWrite, awgLocals
  <2>3. CASE AwgWriteFails(w) \/ AwgUp(w) \/ AwgUpFails(w) \/ AwgEnable(w)
    BY <1>2, <2>3 DEF AwgWriteFails, AwgUp, AwgUpFails, AwgEnable, awgLocals
  <2>4. CASE ManageUp(w) \/ ManageDown(w) \/ ManageDelete(w)
    BY <1>2, <2>4 DEF ManageUp, ManageDown, ManageDelete, awgLocals
  <2>5. CASE AwgDown(w) \/ DeleteDisable(w) \/ DeleteDown(w) \/ DeleteFile(w)
    BY <1>2, <2>5 DEF AwgDown, DeleteDisable, DeleteDown, DeleteFile, awgLocals
  <2> QED
    BY <1>2, <2>1, <2>2, <2>3, <2>4, <2>5 DEF AwgRequest
<1>3. ASSUME NEW w \in Workers, Request(w), UNCHANGED <<extracted, awgVars>> PROVE Shape'
  <2> USE DEF awgVars, awgLocals
  <2>1. CASE EditLoad(w) \/ EditTrunc(w) \/ EditWrite(w) \/ BackupBegin(w) \/ BackupFile(w) \/ BackupConf(w)
    BY <1>3, <2>1 DEF EditLoad, EditTrunc, EditWrite, BackupBegin, BackupFile, BackupConf
  <2>2. CASE RestoreCreate(w) \/ RestoreWrite(w) \/ RestoreFileFails(w) \/ RestoreDown(w) \/ RestoreConf(w)
    BY <1>3, <2>2 DEF RestoreCreate, RestoreWrite, RestoreFileFails, RestoreDown, RestoreConf
  <2>3. CASE RestoreGenerate(w) \/ RestoreCycle(w) \/ RestoreUp(w)
    BY <1>3, <2>3 DEF RestoreGenerate, RestoreCycle, RestoreUp
  <2> QED
    BY <1>3, <2>1, <2>2, <2>3 DEF Request
<1>4. ASSUME NEW w \in Workers, AwgRestore(w) PROVE Shape'
  BY <1>4 DEF AwgRestore, RestoreBegin, UnpackCreate, UnpackWrite, UnpackFails, RestoreCopy, RestoreEnable,
              RestoreAwgUp, awgVars, awgLocals
<1>5. CASE Crash
  <2>1. "key" \in DOMAIN NoForm
    BY DEF NoForm, AwgConf
  <2> QED
    BY <1>5, <2>1 DEF Crash, AwgCut
<1>6. CASE Start
  BY <1>6 DEF Start, locals, awgVars, awgLocals
<1> QED
  BY <1>1, <1>2, <1>3, <1>4, <1>5, <1>6 DEF Next, Worker

(* What a step of one request has to show. *)
Busy == AwgLabels \cup RestoreLabels

LEMMA AwgMovesOn ==
  ASSUME Shape, AwgOK, NEW w \in Workers, NEW p, NEW q,
         pc' = [pc EXCEPT ![w] = p], form' = [form EXCEPT ![w] = q],
         awgConf' = awgConf \/ AwgBusy(w) \/ ~AwgMet(w),
         p \in Busy => AwgBusy(w) \/ ~AwgMet(w),
         p \in {"import", "importwrite", "savetrunc", "savewrite"} => q.key # Placeholder,
         p \in {"savedown", "savedisable", "savekey"} => KeyFound(awgConf'),
         Copies'
  PROVE  AwgOK'
<1>1. /\ pc'[w] = p /\ form'[w] = q
      /\ \A v \in Workers \ {w} : pc'[v] = pc[v] /\ form'[v] = form[v]
  BY DEF Shape
<1>2. OneAtWork'
  BY <1>1 DEF AwgOK, OneAtWork, AwgBusy, AwgMet, Busy
<1>3. Carries(w)'
  BY <1>1 DEF Carries
<1>4. ASSUME NEW v \in Workers, v # w PROVE Carries(v)'
  <2>1. awgConf' = awgConf \/ pc[v] \notin Busy
    BY <1>4 DEF AwgOK, OneAtWork, AwgBusy, AwgMet, Busy
  <2> QED
    BY <1>1, <1>4, <2>1 DEF AwgOK, Carries, Busy, AwgLabels
<1> QED
  BY <1>2, <1>3, <1>4 DEF AwgOK
LEMMA CopiesKept ==
  Copies /\ HasKey(awgConf') /\ UNCHANGED <<extracted, archives, zip>> => Copies'
BY DEF Copies, HasKey

LEMMA ImportKey ==
  ASSUME Shape, AwgOK, ~odd', NEW w \in Workers, UNCHANGED <<extracted, archives, zip>>,
         ImportBegin(w) \/ ImportTrunc(w) \/ ImportWrite(w) \/ ImportUp(w) \/ ImportUpFails(w)
  PROVE  AwgOK'
<1> USE AwgMovesOn, CopiesKept DEF AwgOK, AwgBusy, AwgStep, At, Goto
<1>1. Copies /\ HasKey(awgConf) /\ Carries(w) /\ form = [form EXCEPT ![w] = form[w]]
  BY DEF Copies, Shape
<1>2. CASE ImportBegin(w)
  <2>1. ~AwgMet(w)
    BY <1>2 DEF ImportBegin, AwgMeets
  <2>2. PICK key \in {"imported", "unread"} : form' = [form EXCEPT ![w] = AwgConf(key, reqs')]
    BY <1>2 DEF ImportBegin
  <2>3. pc' = [pc EXCEPT ![w] = "import"] /\ awgConf' = awgConf
    BY <1>2 DEF ImportBegin, Begin
  <2> QED
    BY <1>1, <2>1, <2>2, <2>3, NotPlaceholder
<1>3. CASE ImportTrunc(w)
  <2>1. form' = form /\ pc' = [pc EXCEPT ![w] = "importwrite"] /\ pc[w] = "import" /\ awgConf' = Torn
    BY <1>3 DEF ImportTrunc, awgLocals
  <2> QED
    BY <1>1, <2>1 DEF HasKey, Carries, AwgLabels
<1>4. CASE ImportWrite(w)
  <2>1. form' = form /\ pc' = [pc EXCEPT ![w] = "importup"] /\ pc[w] = "importwrite" /\ awgConf' \in {form[w], awgConf}
    BY <1>4 DEF ImportWrite, AwgWritten, awgLocals
  <2> QED
    BY <1>1, <2>1 DEF HasKey, Carries, AwgLabels
<1>5. CASE ImportUp(w)
  <2>1. form' = form /\ pc' = [pc EXCEPT ![w] = "awgenable"] /\ pc[w] = "importup" /\ awgConf' = awgConf
    BY <1>5 DEF ImportUp, awgLocals
  <2> QED
    BY <1>1, <2>1 DEF AwgLabels
<1>6. CASE ImportUpFails(w)
  <2>1. form' = [form EXCEPT ![w] = NoForm] /\ pc' = [pc EXCEPT ![w] = "idle"] /\ pc[w] = "importup" /\ awgConf' = NoFile
    BY <1>6 DEF ImportUpFails, AwgForget
  <2> QED
    BY <1>1, <2>1 DEF HasKey, AwgLabels, RestoreLabels, Busy
<1> QED
  BY <1>2, <1>3, <1>4, <1>5, <1>6

LEMMA SaveKeeps ==
  ASSUME Shape, AwgOK, ~odd', NEW w \in Workers, UNCHANGED <<extracted, archives, zip>>,
         SaveBegin(w) \/ SaveDown(w) \/ SaveDisable(w) \/ SaveKey(w) \/ SaveTrunc(w) \/ SaveWrite(w)
  PROVE  AwgOK'
<1> USE AwgMovesOn, CopiesKept DEF AwgOK, AwgBusy, AwgStep, At, Goto
<1>1. Copies /\ HasKey(awgConf) /\ Carries(w) /\ form = [form EXCEPT ![w] = form[w]]
  BY DEF Copies, Shape
<1>2. CASE SaveBegin(w)
  <2>1. ~AwgMet(w) /\ KeyFound(awgConf)
    BY <1>2 DEF SaveBegin, AwgMeets
  <2>2. /\ \E p \in {"savedown", "savekey"} : pc' = [pc EXCEPT ![w] = p]
        /\ form' = [form EXCEPT ![w] = AwgConf(Placeholder, reqs')] /\ awgConf' = awgConf
    BY <1>2 DEF SaveBegin, Begin
  <2> QED
    BY <1>1, <2>1, <2>2
<1>3. CASE SaveDown(w) \/ SaveDisable(w)
  <2>1. /\ pc[w] \in {"savedown", "savedisable"} /\ form' = form /\ awgConf' = awgConf
        /\ \E p \in {"savedisable", "savekey"} : pc' = [pc EXCEPT ![w] = p]
    BY <1>3 DEF SaveDown, SaveDisable, awgLocals
  <2>2. PICK p \in {"savedisable", "savekey"} : pc' = [pc EXCEPT ![w] = p]
    BY <2>1
  <2>3. AwgBusy(w) /\ KeyFound(awgConf')
    BY <1>1, <2>1 DEF Carries, AwgLabels
  <2>4. Copies' /\ form' = [form EXCEPT ![w] = form[w]]
    BY <1>1, <2>1
  <2> HIDE DEF AwgOK, AwgBusy
  <2> QED
    BY <2>2, <2>3, <2>4
<1>4. CASE SaveKey(w)
  <2>1. pc[w] = "savekey" /\ pc' = [pc EXCEPT ![w] = "savetrunc"] /\ awgConf' = awgConf
    BY <1>4 DEF SaveKey
  <2>2. KeyFound(awgConf) /\ awgConf.key # Placeholder
    BY <1>1, <2>1 DEF Carries, HasKey, KeyFound
  <2> DEFINE q == [form[w] EXCEPT !.key = awgConf.key]
  <2>3. form' = [form EXCEPT ![w] = q]
    BY <1>4, <2>2 DEF SaveKey, Shape
  <2>4. q.key # Placeholder
    BY <2>2 DEF Shape
  <2> HIDE DEF q
  <2> QED
    BY <1>1, <2>1, <2>3, <2>4 DEF AwgLabels
<1>5. CASE SaveTrunc(w)
  <2>1. form' = form /\ pc' = [pc EXCEPT ![w] = "savewrite"] /\ pc[w] = "savetrunc" /\ awgConf' = Torn
    BY <1>5 DEF SaveTrunc, awgLocals
  <2> QED
    BY <1>1, <2>1 DEF HasKey, Carries, AwgLabels
<1>6. CASE SaveWrite(w)
  <2>1. /\ pc[w] = "savewrite" /\ awgConf' \in {form[w], awgConf}
        /\ \E p \in {"awgup", "idle"} : pc' = [pc EXCEPT ![w] = p]
        /\ \E q : form' = [form EXCEPT ![w] = q]
    BY <1>1, <1>6 DEF SaveWrite, AwgWritten, AwgForget, awgLocals
  <2>2. PICK p, q : p \in {"awgup", "idle"} /\ pc' = [pc EXCEPT ![w] = p] /\ form' = [form EXCEPT ![w] = q]
    BY <2>1
  <2>3. AwgBusy(w) /\ Copies'
    BY <1>1, <2>1 DEF HasKey, Carries, AwgLabels
  <2> HIDE DEF AwgOK, AwgBusy
  <2> QED
    BY <2>2, <2>3
<1> QED
  BY <1>2, <1>3, <1>4, <1>5, <1>6

LEMMA ManageKeeps ==
  ASSUME Shape, AwgOK, ~odd', NEW w \in Workers, UNCHANGED <<extracted, archives, zip>>,
         \/ AwgUp(w) \/ AwgUpFails(w) \/ AwgEnable(w)
         \/ ManageUp(w) \/ ManageDown(w) \/ ManageDelete(w)
         \/ AwgDown(w) \/ DeleteDisable(w) \/ DeleteDown(w) \/ DeleteFile(w)
  PROVE  AwgOK'
<1> USE AwgMovesOn, CopiesKept DEF AwgOK, AwgBusy, AwgStep, At, Goto
<1>1. Copies /\ HasKey(awgConf) /\ form = [form EXCEPT ![w] = form[w]]
  BY DEF Copies, Shape
<1>2. CASE ManageUp(w) \/ ManageDown(w) \/ ManageDelete(w)
  <2>1. ~AwgMet(w)
    BY <1>2 DEF ManageUp, ManageDown, ManageDelete, Manage, AwgMeets
  <2>2. /\ \E p \in {"awgup", "awgdown", "deldisable"} : pc' = [pc EXCEPT ![w] = p]
        /\ form' = form /\ awgConf' = awgConf
    BY <1>2 DEF ManageUp, ManageDown, ManageDelete, Manage, Begin, awgLocals
  <2> QED
    BY <1>1, <2>1, <2>2
<1>3. CASE ~(ManageUp(w) \/ ManageDown(w) \/ ManageDelete(w))
  <2>1. /\ pc[w] \in AwgLabels /\ awgConf' \in {awgConf, NoFile}
        /\ \E p \in {"idle", "awgenable", "deldown", "delfile"} : pc' = [pc EXCEPT ![w] = p]
        /\ \E q : form' = [form EXCEPT ![w] = q]
    <3>1. CASE AwgUp(w) \/ AwgUpFails(w) \/ AwgEnable(w)
      BY <1>1, <3>1 DEF AwgUp, AwgUpFails, AwgEnable, AwgForget, awgLocals, AwgLabels
    <3>2. CASE AwgDown(w) \/ DeleteDisable(w) \/ DeleteDown(w) \/ DeleteFile(w)
      BY <1>1, <3>2 DEF AwgDown, DeleteDisable, DeleteDown, DeleteFile, AwgForget, awgLocals, AwgLabels
    <3> QED
      BY <1>3, <3>1, <3>2
  <2>2. HasKey(awgConf')
    BY <1>1, <2>1 DEF HasKey
  <2> QED
    BY <1>1, <2>1, <2>2
<1> QED
  BY <1>2, <1>3
LEMMA RequestKeeps ==
  ASSUME Shape, AwgOK, NEW w \in Workers, Request(w), UNCHANGED <<extracted, awgVars>>
  PROVE  AwgOK'
<1>1. UNCHANGED <<awgConf, form, extracted>> /\ form' = [form EXCEPT ![w] = form[w]]
  BY DEF awgVars, awgLocals, Shape
<1>2. \E p : /\ pc' = [pc EXCEPT ![w] = p] /\ p \notin AwgLabels
             /\ p \in RestoreLabels => AwgBusy(w)
  <2> USE DEF Begin, At, Goto, Reset, AwgBusy, AwgLabels, RestoreLabels
  <2>1. CASE EditLoad(w) \/ EditTrunc(w) \/ EditWrite(w) \/ BackupBegin(w) \/ BackupConf(w)
    BY <2>1 DEF EditLoad, EditTrunc, EditWrite, BackupBegin, BackupConf
  <2>2. CASE BackupFile(w)
    <3> DEFINE p == IF todo[w] = Len(Files) THEN "zipconf" ELSE "zip"
    <3>1. pc' = [pc EXCEPT ![w] = p]
      BY <2>2 DEF BackupFile, NextFile
    <3>2. p \in {"zip", "zipconf"}
      OBVIOUS
    <3> HIDE DEF p
    <3> QED
      BY <3>1, <3>2
  <2>3. CASE RestoreWrite(w) \/ RestoreFileFails(w)
    <3> DEFINE p == IF todo[w] = Len(Files) THEN Unpack(w) ELSE "create"
    <3>1. pc' = [pc EXCEPT ![w] = p] /\ pc[w] \in {"create", "write"}
      BY <2>3 DEF RestoreWrite, RestoreFileFails, NextFile
    <3>2. p \in {"create", "down", "unpack"}
      BY DEF Unpack
    <3> QED
      BY <3>1, <3>2
  <2>4. CASE RestoreCreate(w) \/ RestoreDown(w) \/ RestoreGenerate(w) \/ RestoreCycle(w)
    BY <2>4 DEF RestoreCreate, RestoreDown, RestoreGenerate, RestoreCycle
  <2>5. CASE RestoreConf(w) \/ RestoreUp(w)
    BY <2>5 DEF RestoreConf, RestoreUp
  <2> QED
    BY <2>1, <2>2, <2>3, <2>4, <2>5 DEF Request
<1>3. Copies'
  <2>1. CASE BackupConf(w)
    <3>1. archives' = archives \cup {[zip[w] EXCEPT !.conf = conf, !.awg = awgConf]}
      BY <2>1 DEF BackupConf
    <3> DEFINE z == [zip[w] EXCEPT !.conf = conf, !.awg = awgConf]
    <3>2. "awg" \in DOMAIN z /\ z.awg = awgConf
      BY DEF AwgOK, Copies
    <3>3. zip' = [zip EXCEPT ![w] = NoArchive] /\ "awg" \in DOMAIN NoArchive /\ HasKey(NoArchive.awg)
      BY <2>1 DEF BackupConf, Reset, NoArchive, HasKey
    <3> HIDE DEF z
    <3>4. \A y \in archives' : "awg" \in DOMAIN y /\ HasKey(y.awg)
      <4>1. archives' = archives \cup {z}
        BY <3>1 DEF z
      <4> QED
        BY <3>2, <4>1 DEF AwgOK, Copies
    <3> QED
      BY <1>1, <3>3, <3>4 DEF AwgOK, Copies, HasKey, Shape
  <2>2. CASE BackupFile(w)
    <3>1. PICK f : zip' = [zip EXCEPT ![w].files[f] = disk[f]]
      BY <2>2 DEF BackupFile
    <3>2. \A v \in Workers : zip'[v].awg = zip[v].awg /\ "awg" \in DOMAIN zip'[v]
      <4>1. zip'[w] = [zip[w] EXCEPT !.files = [zip[w].files EXCEPT ![f] = disk[f]]]
        BY <3>1 DEF Shape
      <4>2. "awg" \in DOMAIN zip[w]
        BY DEF AwgOK, Copies
      <4>3. zip'[w].awg = zip[w].awg /\ "awg" \in DOMAIN zip'[w]
        BY <4>1, <4>2
      <4>4. \A v \in Workers \ {w} : zip'[v] = zip[v]
        BY <3>1 DEF Shape
      <4> QED
        BY <4>3, <4>4 DEF AwgOK, Copies
    <3>3. UNCHANGED archives
      BY <2>2 DEF BackupFile
    <3> QED
      BY <1>1, <3>2, <3>3 DEF AwgOK, Copies, HasKey
  <2>3. CASE ~BackupConf(w) /\ ~BackupFile(w)
    <3>1. UNCHANGED archives /\ (zip' = zip \/ zip' = [zip EXCEPT ![w] = NoArchive])
      <4>1. CASE EditLoad(w) \/ EditTrunc(w) \/ EditWrite(w) \/ BackupBegin(w)
        BY <4>1 DEF EditLoad, EditTrunc, EditWrite, BackupBegin, Reset
      <4>2. CASE RestoreCreate(w) \/ RestoreWrite(w) \/ RestoreFileFails(w) \/ RestoreDown(w) \/ RestoreConf(w)
        BY <4>2 DEF RestoreCreate, RestoreWrite, RestoreFileFails, RestoreDown, RestoreConf
      <4>3. CASE RestoreGenerate(w) \/ RestoreCycle(w) \/ RestoreUp(w)
        BY <4>3 DEF RestoreGenerate, RestoreCycle, RestoreUp, Reset
      <4> QED
        BY <2>3, <4>1, <4>2, <4>3 DEF Request
    <3>2. "awg" \in DOMAIN NoArchive /\ HasKey(NoArchive.awg)
      BY DEF NoArchive, HasKey
    <3> QED
      BY <1>1, <3>1, <3>2 DEF AwgOK, Copies, HasKey, Shape
  <2> QED
    BY <2>1, <2>2, <2>3
<1>4. PICK p : pc' = [pc EXCEPT ![w] = p] /\ p \notin AwgLabels /\ (p \in RestoreLabels => AwgBusy(w))
  BY <1>2
<1>5. p \notin {"import", "importwrite", "savetrunc", "savewrite", "savedown", "savedisable", "savekey"}
  BY <1>4 DEF AwgLabels
<1>6. p \in Busy => AwgBusy(w)
  BY <1>4 DEF Busy
<1> QED
  BY <1>1, <1>3, <1>4, <1>5, <1>6, AwgMovesOn

LEMMA RestoreKeeps ==
  ASSUME Shape, AwgOK, ~odd', NEW w \in Workers, AwgRestore(w)
  PROVE  AwgOK'
<1>1. form' = [form EXCEPT ![w] = form[w]]
  BY DEF AwgRestore, RestoreBegin, UnpackCreate, UnpackWrite, UnpackFails, RestoreCopy, RestoreEnable,
         RestoreAwgUp, awgVars, awgLocals, Shape
<1>2. CASE RestoreBegin(w)
  <2>1. PICK z \in archives : zip' = [zip EXCEPT ![w] = z] /\ AwgRestored(w, z)
    BY <1>2 DEF RestoreBegin
  <2>2. ~AwgMet(w)
    BY <2>1 DEF AwgRestored
  <2>3. pc' = [pc EXCEPT ![w] = "create"] /\ UNCHANGED <<awgConf, extracted, archives>>
    BY <1>2 DEF RestoreBegin, Begin, Goto
  <2>4. "awg" \in DOMAIN z
    BY DEF AwgOK, Copies
  <2>5. Copies'
    BY <2>1, <2>3, <2>4 DEF AwgOK, Copies, HasKey, Shape
  <2> QED
    BY <1>1, <2>2, <2>3, <2>5, AwgMovesOn
<1>3. CASE ~RestoreBegin(w)
  <2>1. /\ AwgBusy(w) /\ UNCHANGED archives
        /\ \E p : pc' = [pc EXCEPT ![w] = p] /\ p \notin AwgLabels
    BY <1>3 DEF AwgRestore, UnpackCreate, UnpackWrite, UnpackFails, RestoreCopy, RestoreEnable, RestoreAwgUp,
           UnpackStep, Reset, At, Goto, AwgBusy, AwgLabels, RestoreLabels
  <2>2. "awg" \in DOMAIN NoArchive /\ HasKey(NoArchive.awg)
    BY DEF NoArchive, HasKey
  <2>3. zip' = zip \/ zip' = [zip EXCEPT ![w] = NoArchive]
    BY <1>3 DEF AwgRestore, UnpackCreate, UnpackWrite, UnpackFails, RestoreCopy, RestoreEnable, RestoreAwgUp,
           UnpackStep, Reset
  <2>4. HasKey(awgConf') /\ HasKey(extracted')
    <3>1. HasKey(awgConf) /\ HasKey(extracted) /\ HasKey(zip[w].awg) /\ HasKey(Torn)
      BY DEF AwgOK, Copies, HasKey
    <3>2. awgConf' \in {awgConf, extracted} /\ extracted' \in {extracted, Torn, zip[w].awg}
      BY <1>3 DEF AwgRestore, UnpackCreate, UnpackWrite, UnpackFails, RestoreCopy, RestoreEnable, RestoreAwgUp,
             awgVars
    <3> QED
      BY <3>1, <3>2
  <2>5. Copies'
    BY <2>1, <2>2, <2>3, <2>4 DEF AwgOK, Copies, HasKey, Shape
  <2>6. PICK p : pc' = [pc EXCEPT ![w] = p] /\ p \notin AwgLabels
    BY <2>1
  <2>7. p \notin {"import", "importwrite", "savetrunc", "savewrite", "savedown", "savedisable", "savekey"}
    BY <2>6 DEF AwgLabels
  <2> QED
    BY <1>1, <2>1, <2>5, <2>6, <2>7, AwgMovesOn
<1> QED
  BY <1>2, <1>3
(* A crash that cuts no request about the interface off leaves the copies. *)
LEMMA CrashKeeps ==
  ASSUME Shape, AwgOK, ~odd', Crash
  PROVE  AwgOK'
<1>1. \A w \in Workers : pc'[w] = "idle" /\ zip'[w] = NoArchive
  BY DEF Crash
<1>2. "awg" \in DOMAIN NoArchive /\ HasKey(NoArchive.awg)
  BY DEF NoArchive, HasKey
<1>3. UNCHANGED <<awgConf, extracted, archives>>
  BY DEF Crash, AwgCut
<1>4. Copies'
  BY <1>1, <1>2, <1>3 DEF AwgOK, Copies, HasKey
<1> QED
  BY <1>1, <1>4 DEF AwgOK, OneAtWork, Carries, AwgBusy, AwgLabels, RestoreLabels

LEMMA Stutters ==
  ASSUME AwgOK, UNCHANGED <<pc, form, zip, archives, awgConf, extracted>>
  PROVE  AwgOK'
BY DEF AwgOK, OneAtWork, Copies, Carries, HasKey, AwgBusy

(* The history variable never forgets. *)
LEMMA OddStays ==
  ASSUME [Next]_vars, ~odd'
  PROVE  ~odd
<1>1. CASE UNCHANGED odd
  BY <1>1
<1>2. ASSUME NEW w \in Workers, AwgRequest(w), odd' # odd PROVE ~odd
  <2>1. CASE ImportBegin(w) \/ SaveBegin(w)
    BY <2>1 DEF ImportBegin, SaveBegin, AwgMeets
  <2>2. CASE ManageUp(w) \/ ManageDown(w) \/ ManageDelete(w)
    BY <2>2 DEF ManageUp, ManageDown, ManageDelete, Manage, AwgMeets
  <2>3. CASE AwgWriteFails(w)
    BY <2>3 DEF AwgWriteFails
  <2>4. ~(ImportTrunc(w) \/ ImportWrite(w) \/ ImportUp(w) \/ ImportUpFails(w))
    BY <1>2 DEF ImportTrunc, ImportWrite, ImportUp, ImportUpFails, awgHist
  <2>5. ~(SaveDown(w) \/ SaveDisable(w) \/ SaveKey(w) \/ SaveTrunc(w) \/ SaveWrite(w))
    BY <1>2 DEF SaveDown, SaveDisable, SaveKey, SaveTrunc, SaveWrite, awgHist
  <2>6. ~(AwgUp(w) \/ AwgUpFails(w) \/ AwgEnable(w))
    BY <1>2 DEF AwgUp, AwgUpFails, AwgEnable, awgHist
  <2>7. ~(AwgDown(w) \/ DeleteDisable(w) \/ DeleteDown(w) \/ DeleteFile(w))
    BY <1>2 DEF AwgDown, DeleteDisable, DeleteDown, DeleteFile, awgHist
  <2> QED
    BY <1>2, <2>1, <2>2, <2>3, <2>4, <2>5, <2>6, <2>7 DEF AwgRequest
<1>3. ASSUME NEW w \in Workers, AwgRestore(w), odd' # odd PROVE ~odd
  <2>1. RestoreBegin(w)
    BY <1>3 DEF AwgRestore, UnpackCreate, UnpackWrite, UnpackFails, RestoreCopy, RestoreEnable, RestoreAwgUp,
                awgVars, awgHist
  <2> QED
    BY <2>1 DEF RestoreBegin, AwgRestored
<1>4. CASE Crash
  BY <1>4 DEF Crash, AwgCut
<1>5. CASE UNCHANGED awgVars
  BY <1>1, <1>5 DEF awgVars, awgHist
<1> QED
  BY <1>1, <1>2, <1>3, <1>4, <1>5 DEF Next, Worker, Start, vars

LEMMA StepAwgInv == AwgInv /\ [Next]_vars => AwgInv'
<1> SUFFICES ASSUME AwgInv, [Next]_vars, ~odd' PROVE AwgOK'
  BY StepShape DEF AwgInv
<1>1. Shape /\ AwgOK
  BY OddStays DEF AwgInv
<1>2. CASE UNCHANGED vars
  BY <1>1, <1>2, Stutters DEF vars, locals, awgVars, awgLocals
<1>3. ASSUME NEW w \in Workers, AwgRequest(w),
             UNCHANGED <<files, encryptionKey, archives, used, extracted, zip, todo, list, history>>
      PROVE  AwgOK'
  <2>1. CASE AwgWriteFails(w)
    BY <2>1 DEF AwgWriteFails
  <2> QED
    BY <1>1, <1>3, <2>1, ImportKey, SaveKeeps, ManageKeeps DEF AwgRequest
<1>4. CASE Crash
  BY <1>1, <1>4, CrashKeeps
<1>5. CASE Start
  BY <1>1, <1>5, Stutters DEF Start, locals, awgVars, awgLocals
<1> QED
  BY <1>1, <1>2, <1>3, <1>4, <1>5, RequestKeeps, RestoreKeeps DEF Next, Worker

(* The form of an AmneziaWG interface has no private key.  However         *)
(* imports, saves, removals, backups and restores follow one another, the  *)
(* placeholder never stays in the file, unless two of them met or one was  *)
(* cut off (saveAmneziaInterfaceConfig takes the key from the file that it *)
(* replaces).                                                              *)
THEOREM AwgKeyAlwaysKept == Spec => []AwgKeyKept
<1>1. AwgInv => AwgKeyKept
  BY DEF AwgInv, AwgOK, Copies, HasKey, AwgKeyKept
<1> QED
  BY <1>1, InitAwgInv, StepAwgInv, PTL DEF Spec

-----------------------------------------------------------------------------
(* What a request leaves running stays.  While an undisturbed request is   *)
(* at work no other is; what it has done so far holds; and once it has     *)
(* ended the interface is as it left it, with nobody at work.              *)
Exclusive(w) == AwgBusy(w) /\ \A v \in Workers : AwgBusy(v) => v = w

Ready(w) ==
  /\ pc[w] = "awgenable" => awg = awgConf /\ Sound(awgConf)
  /\ pc[w] \in RestoreLabels => Sound(zip[w].awg)
  /\ pc[w] \in RestoreLabels \ {"restoreup"} => awg = Down
  /\ pc[w] \in RestoreLabels \ {"create", "write", "unpack", "unpacked"} => extracted = zip[w].awg
  /\ pc[w] \in {"generate", "cycle", "quickup", "restoreenable", "restoreup"} => awgConf = zip[w].awg
  /\ pc[w] = "restoreup" => enabled = TRUE /\ awg \in {Down, zip[w].awg}

Stuck == kept # NoFile =>
  /\ awgConf = kept /\ awg = kept /\ Sound(kept) /\ enabled = TRUE
  /\ \A v \in Workers : ~AwgBusy(v)

SticksOK == Stuck /\ awgAlone \subseteq Workers /\ \A w \in awgAlone : Exclusive(w) /\ Ready(w)

LEMMA InitSticks == Init => SticksOK
<1> SUFFICES ASSUME Init PROVE SticksOK
  OBVIOUS
<1>1. Sound(awgConf) \/ awgConf = NoFile
  BY NotPlaceholder DEF Init, InitAwg, Sound
<1>2. \A w \in Workers : ~AwgBusy(w)
  BY DEF Init, AwgBusy, AwgLabels, RestoreLabels
<1> QED
  BY <1>1, <1>2 DEF Init, InitAwg, SticksOK, Stuck

(* A step of a request that is not about the interface. *)
LEMMA OutsideSticks ==
  ASSUME Shape, SticksOK, NEW w \in Workers, NEW p, NEW z, ~AwgBusy(w), p \notin Busy,
         pc' = [pc EXCEPT ![w] = p], zip' = [zip EXCEPT ![w] = z],
         UNCHANGED <<extracted, awgConf, awg, enabled, awgAlone, kept>>
  PROVE  SticksOK'
<1>1. /\ pc'[w] = p
      /\ \A v \in Workers \ {w} : pc'[v] = pc[v] /\ zip'[v] = zip[v]
  BY DEF Shape
<1>2. \A v \in Workers : AwgBusy(v)' <=> AwgBusy(v)
  BY <1>1 DEF AwgBusy, Busy
<1>3. Stuck'
  BY <1>2 DEF SticksOK, Stuck, Sound
<1>4. ASSUME NEW v \in awgAlone PROVE Exclusive(v)' /\ Ready(v)'
  <2>1. v \in Workers /\ v # w /\ Exclusive(v) /\ Ready(v)
    BY DEF SticksOK, Exclusive
  <2>2. Exclusive(v)'
    BY <1>2, <2>1 DEF Exclusive
  <2>3. pc'[v] = pc[v] /\ zip'[v] = zip[v]
    BY <1>1, <2>1
  <2>4. Ready(v)'
    BY <2>1, <2>3 DEF Ready, Sound
  <2> QED
    BY <2>2, <2>4
<1> QED
  BY <1>3, <1>4 DEF SticksOK

(* A request about the interface begins. *)
LEMMA BeginSticks ==
  ASSUME Shape, NEW w \in Workers, NEW p, p \in Busy,
         pc' = [pc EXCEPT ![w] = p], kept' = NoFile,
         awgAlone' \subseteq {w}, awgAlone' # {} => ~AwgMet(w) /\ Ready(w)'
  PROVE  SticksOK'
<1>1. pc'[w] = p /\ \A v \in Workers \ {w} : pc'[v] = pc[v]
  BY DEF Shape
<1>2. ~AwgMet(w) => Exclusive(w)'
  BY <1>1 DEF AwgMet, Exclusive, AwgBusy, Busy
<1> QED
  BY <1>2 DEF SticksOK, Stuck

(* A request about the interface goes on, or ends. *)
LEMMA OnSticks ==
  ASSUME Shape, SticksOK, NEW w \in Workers, NEW p, AwgBusy(w),
         pc' = [pc EXCEPT ![w] = p],
         awgAlone' \subseteq awgAlone,
         w \in awgAlone' => p \in Busy /\ Ready(w)',
         kept' = kept \/ (w \in awgAlone /\ p \notin Busy /\ awgConf' = kept' /\ awg' = kept'
                           /\ Sound(kept') /\ enabled' = TRUE)
  PROVE  SticksOK'
<1>1. pc'[w] = p /\ \A v \in Workers \ {w} : pc'[v] = pc[v]
  BY DEF Shape
<1>2. kept = NoFile /\ awgAlone \subseteq {w}
  BY DEF SticksOK, Stuck, Exclusive
<1>3. w \in awgAlone => \A v \in Workers \ {w} : ~AwgBusy(v)'
  BY <1>1 DEF SticksOK, Exclusive, AwgBusy
<1>4. Stuck'
  <2>1. CASE kept' = kept
    BY <1>2, <2>1 DEF Stuck
  <2>2. CASE w \in awgAlone /\ p \notin Busy /\ awgConf' = kept' /\ awg' = kept' /\ Sound(kept') /\ enabled' = TRUE
    <3>1. \A v \in Workers : ~AwgBusy(v)'
      BY <1>1, <1>3, <2>2 DEF AwgBusy, Busy
    <3>2. Sound(kept)'
      BY <2>2 DEF Sound
    <3> QED
      BY <2>2, <3>1, <3>2 DEF Stuck
  <2> QED
    BY <2>1, <2>2
<1>5. w \in awgAlone' => Exclusive(w)'
  BY <1>1, <1>2, <1>3 DEF Exclusive, AwgBusy, Busy
<1> QED
  BY <1>2, <1>4, <1>5 DEF SticksOK
LEMMA AwgBeginSticks ==
  ASSUME Shape, SticksOK, NEW w \in Workers,
         ImportBegin(w) \/ SaveBegin(w) \/ ManageUp(w) \/ ManageDown(w) \/ ManageDelete(w)
  PROVE  SticksOK'
<1>1. \E p \in {"import", "savedown", "savekey", "awgup", "awgdown", "deldisable"} : pc' = [pc EXCEPT ![w] = p]
  BY DEF ImportBegin, SaveBegin, ManageUp, ManageDown, ManageDelete, Manage, Begin, Goto
<1>2. PICK p : pc' = [pc EXCEPT ![w] = p] /\ p \in {"import", "savedown", "savekey", "awgup", "awgdown", "deldisable"}
  BY <1>1
<1>3. kept' = NoFile /\ awgAlone' = IF AwgMet(w) THEN {} ELSE {w}
  BY DEF ImportBegin, SaveBegin, ManageUp, ManageDown, ManageDelete, Manage, AwgMeets
<1>4. Ready(w)'
  BY <1>2 DEF Shape, Ready, RestoreLabels
<1>5. p \in Busy
  BY <1>2 DEF Busy, AwgLabels
<1> QED
  BY <1>2, <1>3, <1>4, <1>5, BeginSticks

(* Up to the moment an interface is up, and where a request gives up.      *)
LEMMA AwgOnSticks ==
  ASSUME Shape, SticksOK, NEW w \in Workers,
         \/ ImportTrunc(w) \/ ImportWrite(w) \/ ImportUpFails(w)
         \/ SaveDown(w) \/ SaveDisable(w) \/ SaveKey(w) \/ SaveTrunc(w) \/ SaveWrite(w)
         \/ AwgWriteFails(w) \/ AwgUpFails(w)
         \/ AwgDown(w) \/ DeleteDisable(w) \/ DeleteDown(w) \/ DeleteFile(w)
  PROVE  SticksOK'
<1> DEFINE Labels == {"importwrite", "importup", "savedisable", "savekey", "savetrunc", "savewrite", "awgup",
                      "deldown", "delfile"}
<1> USE DEF AwgStep, At, Goto, AwgForget, awgHist, awgVars
<1>1. /\ pc[w] \in AwgLabels /\ kept' = kept
      /\ \E p : /\ pc' = [pc EXCEPT ![w] = p]
                 /\ \/ p \in Labels /\ awgAlone' = awgAlone
                    \/ p = "idle" /\ awgAlone' = awgAlone \ {w}
  <2>1. CASE ImportTrunc(w) \/ ImportWrite(w) \/ SaveDown(w) \/ SaveDisable(w) \/ SaveKey(w) \/ SaveTrunc(w)
    BY <2>1 DEF ImportTrunc, ImportWrite, SaveDown, SaveDisable, SaveKey, SaveTrunc, AwgLabels
  <2>2. CASE ImportUpFails(w) \/ AwgWriteFails(w) \/ AwgUpFails(w) \/ AwgDown(w) \/ DeleteFile(w)
    BY <2>2 DEF ImportUpFails, AwgWriteFails, AwgUpFails, AwgDown, DeleteFile, AwgLabels
  <2>3. CASE DeleteDisable(w) \/ DeleteDown(w)
    BY <2>3 DEF DeleteDisable, DeleteDown, AwgLabels
  <2>4. CASE SaveWrite(w)
    BY <2>4 DEF SaveWrite, AwgLabels
  <2> QED
    BY <2>1, <2>2, <2>3, <2>4
<1>2. PICK p : /\ pc' = [pc EXCEPT ![w] = p]
               /\ \/ p \in Labels /\ awgAlone' = awgAlone
                  \/ p = "idle" /\ awgAlone' = awgAlone \ {w}
  BY <1>1
<1>3. p \in Labels => Ready(w)' /\ p \in Busy
  BY <1>2 DEF Shape, Ready, RestoreLabels, Busy, AwgLabels
<1>4. AwgBusy(w)
  BY <1>1 DEF AwgBusy
<1> HIDE DEF Labels
<1> QED
  BY <1>1, <1>2, <1>3, <1>4, OnSticks

LEMMA AwgUpSticks ==
  ASSUME Shape, SticksOK, NEW w \in Workers, ImportUp(w) \/ AwgUp(w) \/ AwgEnable(w)
  PROVE  SticksOK'
<1> USE DEF AwgStep, At, Goto
<1>1. AwgBusy(w)
  BY DEF ImportUp, AwgUp, AwgEnable, AwgBusy, AwgLabels
<1>2. CASE ImportUp(w) \/ AwgUp(w)
  <2>1. /\ pc' = [pc EXCEPT ![w] = "awgenable"] /\ awg' = awgConf /\ awgConf' = awgConf /\ Sound(awgConf)
        /\ awgAlone' = awgAlone /\ kept' = kept
    BY <1>2 DEF ImportUp, AwgUp, CanUp, awgHist
  <2>2. Sound(awgConf)'
    BY <2>1 DEF Sound
  <2>3. Ready(w)'
    BY <2>1, <2>2 DEF Shape, Ready, RestoreLabels
  <2> QED
    BY <1>1, <2>1, <2>3, OnSticks DEF Busy, AwgLabels
<1>3. CASE AwgEnable(w)
  <2>1. /\ pc[w] = "awgenable" /\ pc' = [pc EXCEPT ![w] = "idle"] /\ awgConf' = awgConf /\ enabled' = TRUE
        /\ awg' \in {awg, awgConf} /\ awgAlone' = awgAlone \ {w}
        /\ kept' = IF w \in awgAlone THEN awgConf ELSE kept
    BY <1>3 DEF AwgEnable, EnableNow, AwgForget
  <2>2. w \in awgAlone => awg = awgConf /\ Sound(awgConf)
    BY <2>1 DEF SticksOK, Ready
  <2>3. w \in awgAlone => awgConf' = kept' /\ awg' = kept' /\ Sound(kept')
    BY <2>1, <2>2
  <2>4. "idle" \notin Busy
    BY DEF Busy, AwgLabels, RestoreLabels
  <2> QED
    BY <1>1, <2>1, <2>3, <2>4, OnSticks
<1> QED
  BY <1>2, <1>3
LEMMA RestoreBeginSticks ==
  ASSUME Shape, SticksOK, NEW w \in Workers, RestoreBegin(w)
  PROVE  SticksOK'
<1>1. PICK z \in archives : zip' = [zip EXCEPT ![w] = z] /\ AwgRestored(w, z)
  BY DEF RestoreBegin
<1>2. pc' = [pc EXCEPT ![w] = "create"] /\ awg' = awg
  BY DEF RestoreBegin, Begin, Goto
<1>3. kept' = NoFile /\ awgAlone' \subseteq {w}
  BY <1>1 DEF AwgRestored
<1>4. awgAlone' # {} => ~AwgMet(w) /\ awg = Down /\ Sound(z.awg)
  BY <1>1 DEF AwgRestored
<1>5. zip'[w] = z /\ pc'[w] = "create"
  BY <1>1, <1>2 DEF Shape
<1>6. awg = Down /\ Sound(z.awg) => Ready(w)'
  BY <1>2, <1>5 DEF Ready, RestoreLabels, Sound
<1>7. "create" \in Busy
  BY DEF Busy, RestoreLabels
<1> QED
  BY <1>2, <1>3, <1>4, <1>6, <1>7, BeginSticks

(* The steps of a restore before the interface is brought up. *)
LEMMA RestoreOnSticks ==
  ASSUME Shape, SticksOK, NEW w \in Workers, NEW p, p \in RestoreLabels, pc[w] \in RestoreLabels,
         pc' = [pc EXCEPT ![w] = p], UNCHANGED <<zip, kept>>, awgAlone' \subseteq awgAlone,
         w \in awgAlone' /\ Ready(w) => Ready(w)'
  PROVE  SticksOK'
<1>1. p \in Busy /\ AwgBusy(w)
  BY DEF Busy, AwgBusy
<1>2. w \in awgAlone' => Ready(w)
  BY DEF SticksOK
<1> QED
  BY <1>1, <1>2, OnSticks

LEMMA SoundIsFile == ~Sound(NoFile)
BY AmneziaAssumption DEF AmneziaAssumption, Sound

LEMMA RestoreFilesSticks ==
  ASSUME Shape, SticksOK, NEW w \in Workers, UNCHANGED <<extracted, awgVars>>,
         \/ RestoreCreate(w) \/ RestoreWrite(w) \/ RestoreFileFails(w)
         \/ RestoreDown(w) \/ RestoreConf(w) \/ RestoreGenerate(w) \/ RestoreCycle(w)
  PROVE  SticksOK'
<1> USE DEF At, Goto
<1>1. UNCHANGED <<extracted, awgConf, awg, enabled, awgAlone, kept>>
  BY DEF awgVars, awgHist
<1>2. zip' = zip
  BY DEF RestoreCreate, RestoreWrite, RestoreFileFails, RestoreDown, RestoreConf, RestoreGenerate, RestoreCycle
<1>3. CASE RestoreCreate(w)
  <2>1. pc[w] = "create" /\ pc' = [pc EXCEPT ![w] = "write"]
    BY <1>3 DEF RestoreCreate
  <2>2. Ready(w) => Ready(w)'
    BY <1>1, <1>2, <2>1 DEF Shape, Ready, RestoreLabels, Sound
  <2> QED
    BY <1>1, <1>2, <2>1, <2>2, RestoreOnSticks DEF RestoreLabels
<1>4. CASE RestoreWrite(w) \/ RestoreFileFails(w)
  <2> DEFINE p == IF todo[w] = Len(Files) THEN Unpack(w) ELSE "create"
  <2>1. pc[w] \in {"create", "write"} /\ pc' = [pc EXCEPT ![w] = p]
    BY <1>4 DEF RestoreWrite, RestoreFileFails, NextFile
  <2>2. p \in {"create", "unpack", "down"} /\ (p = "down" => zip[w].awg = NoFile)
    BY DEF Unpack
  <2> HIDE DEF p
  <2>3. Ready(w) => p # "down"
    BY <2>1, <2>2, SoundIsFile DEF Ready, RestoreLabels
  <2>4. Ready(w) => Ready(w)'
    BY <1>1, <1>2, <2>1, <2>2, <2>3 DEF Shape, Ready, RestoreLabels, Sound
  <2> QED
    BY <1>1, <1>2, <2>1, <2>2, <2>4, RestoreOnSticks DEF RestoreLabels
<1>5. CASE RestoreDown(w)
  <2>1. pc[w] = "down" /\ pc' = [pc EXCEPT ![w] = "conf"]
    BY <1>5 DEF RestoreDown
  <2>2. Ready(w) => Ready(w)'
    BY <1>1, <1>2, <2>1 DEF Shape, Ready, RestoreLabels, Sound
  <2> QED
    BY <1>1, <1>2, <2>1, <2>2, RestoreOnSticks DEF RestoreLabels
<1>6. CASE RestoreConf(w)
  <2> DEFINE p == IF extracted = NoFile THEN "generate" ELSE "restorecopy"
  <2>1. pc[w] = "conf" /\ pc' = [pc EXCEPT ![w] = p]
    BY <1>6 DEF RestoreConf
  <2>2. p \in {"generate", "restorecopy"} /\ (extracted # NoFile => p = "restorecopy")
    OBVIOUS
  <2> HIDE DEF p
  <2>3. Ready(w) => p = "restorecopy"
    BY <2>1, <2>2, SoundIsFile DEF Ready, RestoreLabels
  <2>4. Ready(w) => Ready(w)'
    BY <1>1, <1>2, <2>1, <2>3 DEF Shape, Ready, RestoreLabels, Sound
  <2> QED
    BY <1>1, <1>2, <2>1, <2>2, <2>4, RestoreOnSticks DEF RestoreLabels
<1>7. CASE RestoreGenerate(w) \/ RestoreCycle(w)
  <2>1. PICK p : pc[w] \in {"generate", "cycle"} /\ pc' = [pc EXCEPT ![w] = p] /\ p \in {"cycle", "quickup"}
    BY <1>7 DEF RestoreGenerate, RestoreCycle
  <2>2. Ready(w) => Ready(w)'
    BY <1>1, <1>2, <2>1 DEF Shape, Ready, RestoreLabels, Sound
  <2> QED
    BY <1>1, <1>2, <2>1, <2>2, RestoreOnSticks DEF RestoreLabels
<1> QED
  BY <1>3, <1>4, <1>5, <1>6, <1>7

LEMMA RestoreUpSticks ==
  ASSUME Shape, SticksOK, NEW w \in Workers, UNCHANGED <<extracted, awgVars>>, RestoreUp(w)
  PROVE  SticksOK'
<1> USE DEF At, Goto
<1>1. UNCHANGED <<extracted, awgConf, awg, enabled, awgAlone, kept>> /\ pc[w] = "quickup"
  BY DEF awgVars, awgHist, RestoreUp
<1>2. CASE extracted = NoFile
  <2>1. pc' = [pc EXCEPT ![w] = "idle"]
    BY <1>2 DEF RestoreUp, Reset
  <2>2. w \notin awgAlone
    BY <1>1, <1>2, SoundIsFile DEF SticksOK, Ready, RestoreLabels
  <2> QED
    BY <1>1, <2>1, <2>2, OnSticks DEF AwgBusy, RestoreLabels
<1>3. CASE extracted # NoFile
  <2>1. pc' = [pc EXCEPT ![w] = "restoreenable"] /\ zip' = zip
    BY <1>3 DEF RestoreUp
  <2>2. Ready(w) => Ready(w)'
    BY <1>1, <2>1 DEF Shape, Ready, RestoreLabels, Sound
  <2> QED
    BY <1>1, <2>1, <2>2, RestoreOnSticks DEF RestoreLabels
<1> QED
  BY <1>2, <1>3
LEMMA RestoreAwgSticks ==
  ASSUME Shape, SticksOK, NEW w \in Workers,
         UnpackCreate(w) \/ UnpackWrite(w) \/ UnpackFails(w) \/ RestoreCopy(w) \/ RestoreEnable(w)
  PROVE  SticksOK'
<1> USE DEF UnpackStep, At, Goto
<1>1. CASE UnpackCreate(w)
  <2>1. /\ pc[w] = "unpack" /\ pc' = [pc EXCEPT ![w] = "unpacked"]
        /\ UNCHANGED <<zip, awgConf, awg, enabled, awgAlone, kept>>
    BY <1>1 DEF UnpackCreate, awgVars, awgHist
  <2>2. Ready(w) => Ready(w)'
    BY <2>1 DEF Shape, Ready, RestoreLabels, Sound
  <2> QED
    BY <2>1, <2>2, RestoreOnSticks DEF RestoreLabels
<1>2. CASE UnpackWrite(w)
  <2>1. /\ pc[w] = "unpacked" /\ pc' = [pc EXCEPT ![w] = "down"] /\ extracted' = zip[w].awg
        /\ UNCHANGED <<zip, awgConf, awg, enabled, awgAlone, kept>>
    BY <1>2 DEF UnpackWrite, awgVars, awgHist
  <2>2. Ready(w) => Ready(w)'
    BY <2>1 DEF Shape, Ready, RestoreLabels, Sound
  <2> QED
    BY <2>1, <2>2, RestoreOnSticks DEF RestoreLabels
<1>3. CASE UnpackFails(w)
  <2>1. /\ pc[w] \in {"unpack", "unpacked"} /\ pc' = [pc EXCEPT ![w] = "down"] /\ awgAlone' = {}
        /\ UNCHANGED <<zip, kept>>
    BY <1>3 DEF UnpackFails
  <2> QED
    BY <2>1, RestoreOnSticks DEF RestoreLabels
<1>4. CASE RestoreCopy(w)
  <2>1. /\ pc[w] = "restorecopy" /\ pc' = [pc EXCEPT ![w] = "generate"] /\ awgConf' = extracted
        /\ UNCHANGED <<zip, extracted, awg, enabled, awgAlone, kept>>
    BY <1>4 DEF RestoreCopy, awgHist
  <2>2. Ready(w) => Ready(w)'
    BY <2>1 DEF Shape, Ready, RestoreLabels, Sound
  <2> QED
    BY <2>1, <2>2, RestoreOnSticks DEF RestoreLabels
<1>5. CASE RestoreEnable(w)
  <2>1. /\ pc[w] = "restoreenable" /\ pc' = [pc EXCEPT ![w] = "restoreup"]
        /\ enabled' = TRUE /\ awg' \in {awg, awgConf}
        /\ UNCHANGED <<zip, extracted, awgConf, awgAlone, kept>>
    BY <1>5 DEF RestoreEnable, EnableNow, awgHist
  <2>2. Ready(w) => Ready(w)'
    BY <2>1 DEF Shape, Ready, RestoreLabels, Sound
  <2> QED
    BY <2>1, <2>2, RestoreOnSticks DEF RestoreLabels
<1> QED
  BY <1>1, <1>2, <1>3, <1>4, <1>5

LEMMA RestoreAwgUpSticks ==
  ASSUME Shape, SticksOK, NEW w \in Workers, RestoreAwgUp(w)
  PROVE  SticksOK'
<1> DEFINE z == zip[w].awg
<1>1. /\ pc[w] = "restoreup" /\ pc' = [pc EXCEPT ![w] = "idle"] /\ UNCHANGED <<awgConf, enabled>>
      /\ awg' = IF CanUp THEN awgConf ELSE awg
      /\ kept' = IF w \in awgAlone THEN z ELSE kept
      /\ awgAlone' = awgAlone \ {w}
  BY DEF RestoreAwgUp, At, Reset, Goto
<1>2. w \in awgAlone => awgConf = z /\ Sound(z) /\ awg \in {Down, z} /\ enabled = TRUE
  BY <1>1 DEF SticksOK, Ready, RestoreLabels
<1>3. w \in awgAlone => awg' = z
  BY <1>1, <1>2 DEF CanUp
<1>4. AwgBusy(w) /\ "idle" \notin Busy
  BY <1>1 DEF AwgBusy, Busy, AwgLabels, RestoreLabels
<1>5. w \in awgAlone => enabled' = TRUE /\ awgConf' = z /\ kept' = z
  BY <1>1, <1>2
<1>6. w \in awgAlone => Sound(kept')
  BY <1>2, <1>5
<1> HIDE DEF z
<1>7. w \notin awgAlone => kept' = kept
  BY <1>1
<1> QED
  BY <1>1, <1>3, <1>4, <1>5, <1>6, <1>7, OnSticks

LEMMA RequestSticks ==
  ASSUME Shape, SticksOK, NEW w \in Workers, UNCHANGED <<extracted, awgVars>>,
         EditLoad(w) \/ EditTrunc(w) \/ EditWrite(w) \/ BackupBegin(w) \/ BackupFile(w) \/ BackupConf(w)
  PROVE  SticksOK'
<1>1. UNCHANGED <<extracted, awgConf, awg, enabled, awgAlone, kept>>
  BY DEF awgVars, awgHist
<1>2. ~AwgBusy(w)
  BY DEF EditLoad, EditTrunc, EditWrite, BackupBegin, BackupFile, BackupConf, Begin, At, AwgBusy, AwgLabels, RestoreLabels
<1>3. \E p \in {"idle", "edit", "save", "zip", "zipconf"} : pc' = [pc EXCEPT ![w] = p]
  <2>1. CASE BackupFile(w)
    <3> DEFINE p == IF todo[w] = Len(Files) THEN "zipconf" ELSE "zip"
    <3>1. pc' = [pc EXCEPT ![w] = p]
      BY <2>1 DEF BackupFile, NextFile, Goto
    <3>2. p \in {"zip", "zipconf"}
      OBVIOUS
    <3> HIDE DEF p
    <3> QED
      BY <3>1, <3>2
  <2> QED
    BY <2>1 DEF EditLoad, EditTrunc, EditWrite, BackupBegin, BackupConf, Begin, Goto, Reset
<1>4. \E z : zip' = [zip EXCEPT ![w] = z]
  <2>1. zip = [zip EXCEPT ![w] = zip[w]]
    BY DEF Shape
  <2>2. CASE BackupFile(w)
    <3>1. PICK f : zip' = [zip EXCEPT ![w].files[f] = disk[f]]
      BY <2>2 DEF BackupFile
    <3>2. zip' = [zip EXCEPT ![w] = [zip[w] EXCEPT !.files = [zip[w].files EXCEPT ![f] = disk[f]]]]
      BY <3>1
    <3> QED
      BY <3>2
  <2> QED
    BY <2>1, <2>2 DEF EditLoad, EditTrunc, EditWrite, BackupBegin, BackupConf, Reset
<1>5. PICK p, z : /\ p \in {"idle", "edit", "save", "zip", "zipconf"} /\ pc' = [pc EXCEPT ![w] = p]
                  /\ zip' = [zip EXCEPT ![w] = z]
  BY <1>3, <1>4
<1>6. p \notin Busy
  BY <1>5 DEF Busy, AwgLabels, RestoreLabels
<1> QED
  BY <1>1, <1>2, <1>5, <1>6, OutsideSticks

LEMMA CrashSticks ==
  ASSUME SticksOK, Crash
  PROVE  SticksOK'
<1>1. /\ \A w \in Workers : pc'[w] = "idle"
      /\ awgAlone' = {} /\ UNCHANGED <<awgConf, kept>> /\ enabled' = enabled
      /\ enabled = TRUE /\ Sound(awgConf) => awg' \in {awg, awgConf}
  BY DEF Crash, AwgCut
<1>2. kept # NoFile => awg' = kept
  BY <1>1 DEF SticksOK, Stuck
<1>3. \A w \in Workers : ~AwgBusy(w)'
  BY <1>1 DEF AwgBusy, AwgLabels, RestoreLabels
<1> QED
  BY <1>1, <1>2, <1>3 DEF SticksOK, Stuck, Sound

LEMMA StillSticks ==
  ASSUME SticksOK, UNCHANGED <<pc, zip, extracted, awgConf, awg, awgAlone, kept>>, enabled' = enabled
  PROVE  SticksOK'
<1>1. Stuck'
  BY DEF SticksOK, Stuck, Sound, AwgBusy
<1>2. ASSUME NEW w \in awgAlone PROVE Exclusive(w)' /\ Ready(w)'
  BY DEF SticksOK, Exclusive, Ready, Sound, AwgBusy
<1> QED
  BY <1>1, <1>2 DEF SticksOK

LEMMA StepSticks == Shape /\ SticksOK /\ [Next]_vars => SticksOK'
<1> SUFFICES ASSUME Shape, SticksOK, [Next]_vars PROVE SticksOK'
  OBVIOUS
<1>1. CASE UNCHANGED vars
  BY <1>1, StillSticks DEF vars, locals, awgVars, awgHist
<1>2. ASSUME NEW w \in Workers, Request(w), UNCHANGED <<extracted, awgVars>> PROVE SticksOK'
  BY <1>2, RequestSticks, RestoreFilesSticks, RestoreUpSticks DEF Request
<1>3. ASSUME NEW w \in Workers, AwgRestore(w) PROVE SticksOK'
  BY <1>3, RestoreBeginSticks, RestoreAwgSticks, RestoreAwgUpSticks DEF AwgRestore
<1>4. ASSUME NEW w \in Workers, AwgRequest(w) PROVE SticksOK'
  BY <1>4, AwgBeginSticks, AwgOnSticks, AwgUpSticks DEF AwgRequest
<1>5. CASE Crash
  BY <1>5, CrashSticks
<1>6. CASE Start
  BY <1>6, StillSticks DEF Start, locals, awgVars, awgHist
<1> QED
  BY <1>1, <1>2, <1>3, <1>4, <1>5, <1>6 DEF Next, Worker

(* An interface that an undisturbed import, save, "up" or restore left     *)
(* running is the one in the file, runs and is enabled, through every      *)
(* crash, restart and reboot, until the next request about it              *)
(* (importAmneziaConfig, saveAmneziaInterfaceConfig,                       *)
(* manageAmneziaInterface, restoreBackup).                                 *)
THEOREM AwgAlwaysSticks == Spec => []AwgSticks
<1>1. Init => Shape
  BY DEF Init, InitAwg, Shape, NoForm, AwgConf
<1>2. SticksOK => AwgSticks
  BY DEF SticksOK, Stuck, AwgSticks
<1> QED
  BY <1>1, <1>2, InitSticks, StepShape, StepSticks, PTL DEF Spec
==============================================================================
