----------------------------- MODULE BackupProofs -----------------------------
(***************************************************************************)
(* Proofs about Backup for any workers, keys and number of requests and    *)
(* faults.                                                                 *)
(***************************************************************************)
EXTENDS Backup, SequenceTheorems, FiniteSetTheorems, TLAPS

FileNames == {"config", "peers", "srvkey", "key"}
Before    == {"idle", "edit", "save"} \cup AwgLabels   \* no archive is at work

(* How far each request has come with its archive, and that only one of    *)
(* them restores.                                                          *)
PosOK ==
  /\ pc = [w \in Workers |-> pc[w]] /\ todo \in [Workers -> 1 .. 5]
  /\ \A w \in Workers :
       /\ pc[w] \in {"zip", "create", "write"} => todo[w] \in 1 .. 4
       /\ pc[w] \in Before => todo[w] = 1
  /\ \A v, w \in Workers : Restoring(v) /\ Restoring(w) => v = w
  /\ proc \in {"up", "down"}
  /\ proc = "down" => \A w \in Workers : pc[w] = "idle"

LEMMA FilesInOrder ==
  /\ Len(Files) = 4
  /\ \A i \in 1 .. 4 : Files[i] \in FileNames
  /\ Files[4] = "key" /\ \A i \in 1 .. 3 : Files[i] # "key"
BY DEF Files, FileNames

LEMMA InitPos == Init => PosOK
BY DEF Init, PosOK, Before, AwgLabels, Restoring, RestoreLabels

(* Requests about the AmneziaWG interface keep to their own positions. *)
LEMMA AwgMoves ==
  ASSUME NEW w \in Workers, AwgRequest(w)
  PROVE  /\ proc = "up" /\ proc' = proc
         /\ pc[w] \in AwgLabels \cup {"idle"}
         /\ \E label \in AwgLabels \cup {"idle"} : pc' = [pc EXCEPT ![w] = label]
<1> USE DEF AwgStep, Begin, At, Goto, AwgLabels
<1>1. CASE ImportBegin(w) \/ ImportTrunc(w) \/ ImportWrite(w) \/ ImportUp(w) \/ ImportUpFails(w)
  BY <1>1 DEF ImportBegin, ImportTrunc, ImportWrite, ImportUp, ImportUpFails
<1>2. CASE SaveBegin(w) \/ SaveDown(w) \/ SaveDisable(w) \/ SaveKey(w) \/ SaveTrunc(w) \/ SaveWrite(w)
  BY <1>2 DEF SaveBegin, SaveDown, SaveDisable, SaveKey, SaveTrunc, SaveWrite
<1>3. CASE AwgWriteFails(w) \/ AwgUp(w) \/ AwgUpFails(w) \/ AwgEnable(w)
  BY <1>3 DEF AwgWriteFails, AwgUp, AwgUpFails, AwgEnable
<1>4. CASE ManageUp(w) \/ ManageDown(w) \/ ManageDelete(w)
  BY <1>4 DEF ManageUp, ManageDown, ManageDelete, Manage
<1>5. CASE AwgDown(w) \/ DeleteDisable(w) \/ DeleteDown(w) \/ DeleteFile(w)
  BY <1>5 DEF AwgDown, DeleteDisable, DeleteDown, DeleteFile
<1> QED
  BY <1>1, <1>2, <1>3, <1>4, <1>5 DEF AwgRequest

LEMMA EditPos ==
  ASSUME PosOK, NEW w \in Workers,
         \/ EditLoad(w) \/ EditTrunc(w) \/ EditWrite(w)
         \/ BackupBegin(w) \/ BackupFile(w) \/ BackupConf(w)
  PROVE  PosOK'
<1> USE FilesInOrder DEF PosOK, Begin, At, Goto, Reset, NextFile, Before, AwgLabels, Restoring, RestoreLabels
<1>1. CASE EditLoad(w) \/ EditTrunc(w) \/ EditWrite(w)
  BY <1>1 DEF EditLoad, EditTrunc, EditWrite
<1>2. CASE BackupBegin(w)
  BY <1>2 DEF BackupBegin
<1>3. CASE BackupFile(w)
  BY <1>3 DEF BackupFile
<1>4. CASE BackupConf(w)
  BY <1>4 DEF BackupConf
<1> QED
  BY <1>1, <1>2, <1>3, <1>4

LEMMA RestorePos ==
  ASSUME PosOK, NEW w \in Workers,
         \/ RestoreCreate(w) \/ RestoreWrite(w) \/ RestoreFileFails(w)
         \/ RestoreDown(w) \/ RestoreConf(w) \/ RestoreGenerate(w)
         \/ RestoreCycle(w) \/ RestoreUp(w) \/ AwgRestore(w)
  PROVE  PosOK'
<1> USE FilesInOrder DEF PosOK, Begin, At, Goto, Reset, Before, AwgLabels, Restoring, RestoreLabels
<1>1. CASE RestoreCreate(w)
  BY <1>1 DEF RestoreCreate
<1>2. CASE RestoreWrite(w)
  BY <1>2 DEF RestoreWrite, NextFile, Unpack
<1>3. CASE RestoreFileFails(w)
  BY <1>3 DEF RestoreFileFails, NextFile, Unpack
<1>4. CASE RestoreDown(w) \/ RestoreConf(w) \/ RestoreGenerate(w) \/ RestoreCycle(w)
  BY <1>4 DEF RestoreDown, RestoreConf, RestoreGenerate, RestoreCycle
<1>5. CASE RestoreUp(w) \/ RestoreAwgUp(w)
  BY <1>5 DEF RestoreUp, RestoreAwgUp
<1>6. CASE RestoreBegin(w)
  BY <1>6 DEF RestoreBegin
<1>7. CASE UnpackCreate(w) \/ UnpackWrite(w) \/ UnpackFails(w) \/ RestoreCopy(w) \/ RestoreEnable(w)
  BY <1>7 DEF UnpackCreate, UnpackWrite, UnpackFails, RestoreCopy, RestoreEnable, UnpackStep
<1> QED
  BY <1>1, <1>2, <1>3, <1>4, <1>5, <1>6, <1>7 DEF AwgRestore

LEMMA StepPos == PosOK /\ [Next]_vars => PosOK'
<1> SUFFICES ASSUME PosOK, [Next]_vars PROVE PosOK'
  OBVIOUS
<1>1. CASE UNCHANGED vars
  BY <1>1 DEF vars, locals, PosOK, Restoring
<1>2. ASSUME NEW w \in Workers, Worker(w) PROVE PosOK'
  <2>1. CASE AwgRequest(w) /\ UNCHANGED <<files, encryptionKey, archives, used, extracted, zip, todo, list, history>>
    BY <2>1, AwgMoves DEF PosOK, Before, AwgLabels, Restoring, RestoreLabels
  <2> QED
    BY <1>2, <2>1, EditPos, RestorePos DEF Worker, Request
<1>3. CASE Crash
  BY <1>3 DEF Crash, PosOK, Before, AwgLabels, Restoring, RestoreLabels
<1>4. CASE Start
  BY <1>4 DEF Start, PosOK, Restoring, locals
<1> QED
  BY <1>1, <1>2, <1>3, <1>4 DEF Next

-----------------------------------------------------------------------------
(* The passwords.  As long as every restore was whole and of an archive of *)
(* this server, its key is the only one there is: in memory, on disk but   *)
(* while a restore rewrites the file, and in every archive; and every list *)
(* on disk or in an archive is sealed with it once.                        *)
OwnKey == Secret[Here].key

OwnFiles(f) ==
  /\ f = [n \in FileNames |-> f[n]]
  /\ f["key"] \in {OwnKey, Torn}
  /\ f["peers"] = Torn \/ f["peers"].sealed = <<OwnKey>>

OwnArchive(z) == "files" \in DOMAIN z /\ OwnFiles(z.files)

DiskOK ==
  /\ encryptionKey = OwnKey
  /\ OwnFiles(disk)
  /\ disk["key"] = Torn => \E w \in Workers : pc[w] = "write" /\ Files[todo[w]] = "key"

ArchivesOK == \A z \in archives : z = ForeignArchive \/ OwnArchive(z)

WorkerOK(z, l, p) ==
  /\ OwnArchive(z)
  /\ p \in RestoreLabels => z.files["key"] = OwnKey
  /\ p \in {"edit", "save"} => l = Peers(l.of, l.rev, <<>>)

WorkersOK ==
  /\ zip = [w \in Workers |-> zip[w]] /\ list = [w \in Workers |-> list[w]]
  /\ \A w \in Workers : WorkerOK(zip[w], list[w], pc[w])

OnlyOwnKey == DiskOK /\ ArchivesOK /\ WorkersOK
KeyInv == whole /\ ~abroad => OnlyOwnKey

LEMMA OwnKeyIsKey == OwnKey \in Keys /\ OwnKey # Torn
BY BackupAssumption DEF BackupAssumption, OwnKey, Sites

(* What is sealed once with the key in memory is opened by it. *)
LEMMA Opened ==
  ASSUME encryptionKey = OwnKey
  PROVE  DecryptPassword(<<OwnKey>>) = <<>> /\ EncryptPassword(<<>>) = <<OwnKey>>
<1>1. <<OwnKey>> \in Seq(Keys) /\ Len(<<OwnKey>>) = 1 /\ <<OwnKey>>[1] = OwnKey
  BY OwnKeyIsKey
<1>2. SubSeq(<<OwnKey>>, 1, 0) = <<>>
  BY <1>1, SubSeqEmpty
<1>3. DecryptPassword(<<OwnKey>>) = SubSeq(<<OwnKey>>, 1, 0)
  BY <1>1 DEF DecryptPassword
<1> QED
  BY <1>2, <1>3 DEF EncryptPassword

LEMMA OwnUpdate ==
  ASSUME NEW f, OwnFiles(f), NEW n \in FileNames, NEW v,
         n = "key" => v \in {OwnKey, Torn},
         n = "peers" => v = Torn \/ v.sealed = <<OwnKey>>
  PROVE  /\ OwnFiles([f EXCEPT ![n] = v])
         /\ n # "key" => [f EXCEPT ![n] = v]["key"] = f["key"]
         /\ n = "key" => [f EXCEPT ![n] = v]["key"] = v
BY DEF OwnFiles, FileNames

LEMMA OwnSettings ==
  ASSUME NEW f, OwnFiles(f), NEW v
  PROVE  /\ OwnFiles([f EXCEPT !.srvkey = v]) /\ [f EXCEPT !.srvkey = v]["key"] = f["key"]
         /\ OwnFiles([f EXCEPT !.config = v]) /\ [f EXCEPT !.config = v]["key"] = f["key"]
BY OwnUpdate DEF FileNames

LEMMA InitKey == Init => KeyInv
<1> SUFFICES ASSUME Init PROVE KeyInv
  OBVIOUS
<1>1. OwnFiles(disk) /\ disk["key"] = OwnKey
  BY DEF Init, SiteFiles, OwnFiles, OwnKey, FileNames, Peers
<1>2. OwnArchive(NoArchive)
  BY DEF NoArchive, NoFiles, OwnArchive, OwnFiles, FileNames
<1>3. \A z \in archives : z = ForeignArchive
  BY DEF Init
<1>4. \A w \in Workers : pc[w] = "idle" /\ zip[w] = NoArchive
  BY DEF Init
<1>5. zip = [w \in Workers |-> zip[w]] /\ list = [w \in Workers |-> list[w]] /\ encryptionKey = OwnKey
  BY DEF Init, OwnKey
<1> QED
  BY <1>1, <1>2, <1>3, <1>4, <1>5, OwnKeyIsKey DEF KeyInv, OnlyOwnKey, DiskOK, ArchivesOK, WorkersOK, WorkerOK, RestoreLabels
LEMMA EmptyArchive == OwnArchive(NoArchive)
BY DEF NoArchive, NoFiles, OwnArchive, OwnFiles, FileNames

(* One request moves, with an archive and a list that are in order. *)
LEMMA WorkerMoves ==
  ASSUME PosOK, WorkersOK, NEW w \in Workers, NEW z, NEW l, NEW p, WorkerOK(z, l, p),
         zip' = [zip EXCEPT ![w] = z], list' = [list EXCEPT ![w] = l], pc' = [pc EXCEPT ![w] = p]
  PROVE  WorkersOK'
<1>1. /\ zip' = [v \in Workers |-> zip'[v]] /\ list' = [v \in Workers |-> list'[v]]
      /\ zip'[w] = z /\ list'[w] = l /\ pc'[w] = p
      /\ \A v \in Workers \ {w} : zip'[v] = zip[v] /\ list'[v] = list[v] /\ pc'[v] = pc[v]
  BY DEF WorkersOK, PosOK
<1>2. ASSUME NEW v \in Workers PROVE WorkerOK(zip'[v], list'[v], pc'[v])
  BY <1>1 DEF WorkersOK
<1> QED
  BY <1>1, <1>2 DEF WorkersOK, WorkerOK, OwnArchive, OwnFiles

(* It keeps both. *)
LEMMA WorkerKeeps ==
  ASSUME PosOK, WorkersOK, NEW w \in Workers, NEW p,
         p \in RestoreLabels => Restoring(w), p \in {"edit", "save"} => pc[w] \in {"edit", "save"},
         UNCHANGED <<zip, list>>, pc' = [pc EXCEPT ![w] = p]
  PROVE  WorkersOK'
<1>1. zip' = [zip EXCEPT ![w] = zip[w]] /\ list' = [list EXCEPT ![w] = list[w]]
  BY DEF WorkersOK
<1>2. WorkerOK(zip[w], list[w], p)
  BY DEF WorkersOK, WorkerOK, Restoring
<1> QED
  BY <1>1, <1>2, WorkerMoves

(* It ends. *)
LEMMA WorkerEnds ==
  ASSUME PosOK, WorkersOK, NEW w \in Workers, Reset(w)
  PROVE  WorkersOK'
BY EmptyArchive, WorkerMoves DEF WorkerOK, Reset, Goto, RestoreLabels

(* A step that neither writes a file nor ends the writing of one. *)
LEMMA DiskFrame ==
  ASSUME PosOK, DiskOK, NEW w \in Workers, NEW p, pc[w] # "write", pc' = [pc EXCEPT ![w] = p],
         todo' = [todo EXCEPT ![w] = todo'[w]], OwnFiles(disk'), disk'["key"] = disk["key"],
         UNCHANGED encryptionKey
  PROVE  DiskOK'
<1>1. \A v \in Workers \ {w} : todo'[v] = todo[v] /\ pc'[v] = pc[v]
  BY DEF PosOK
<1> QED
  BY <1>1 DEF DiskOK, OwnFiles

LEMMA ArchivesFrame == ArchivesOK /\ UNCHANGED archives => ArchivesOK'
BY DEF ArchivesOK, OwnArchive, OwnFiles

LEMMA EditKey ==
  ASSUME PosOK, OnlyOwnKey, NEW w \in Workers, EditLoad(w) \/ EditTrunc(w) \/ EditWrite(w)
  PROVE  OnlyOwnKey'
<1> USE ArchivesFrame, DiskFrame DEF PosOK, OnlyOwnKey, Begin, At, Goto
<1>1. CASE EditLoad(w)
  <2>0. DecryptPassword(disk.peers.sealed) = <<>>
    BY <1>1, Opened DEF EditLoad, DiskOK, OwnFiles
  <2>1. PICK s, n : list' = [list EXCEPT ![w] = Peers(s, n, <<>>)]
    <3> HIDE DEF PosOK, OnlyOwnKey, Begin, At, Goto
    <3> QED
      BY <1>1, <2>0 DEF EditLoad
  <2>2. WorkerOK(zip[w], Peers(s, n, <<>>), "edit")
    BY DEF WorkersOK, WorkerOK, Peers, RestoreLabels
  <2>3. zip' = [zip EXCEPT ![w] = zip[w]] /\ pc' = [pc EXCEPT ![w] = "edit"]
    BY <1>1 DEF EditLoad, WorkersOK
  <2>4. WorkersOK'
    BY <2>1, <2>2, <2>3, WorkerMoves
  <2> QED
    BY <1>1, <2>4 DEF EditLoad, files, DiskOK
<1>2. CASE EditTrunc(w)
  <2>1. OwnFiles(disk') /\ disk'["key"] = disk["key"]
    BY <1>2, OwnUpdate DEF EditTrunc, DiskOK, FileNames
  <2>2. WorkersOK'
    BY <1>2, WorkerKeeps DEF EditTrunc, RestoreLabels
  <2> QED
    BY <1>2, <2>1, <2>2 DEF EditTrunc
<1>3. CASE EditWrite(w)
  <2>1. [list[w] EXCEPT !.sealed = EncryptPassword(@)].sealed = <<OwnKey>>
    BY <1>3, Opened DEF EditWrite, WorkersOK, WorkerOK, DiskOK, Peers
  <2>2. OwnFiles(disk') /\ disk'["key"] = disk["key"]
    BY <1>3, <2>1, OwnUpdate DEF EditWrite, DiskOK, FileNames
  <2>3. WorkersOK'
    BY <1>3, WorkerEnds DEF EditWrite
  <2> QED
    BY <1>3, <2>2, <2>3 DEF EditWrite, Reset
<1> QED
  BY <1>1, <1>2, <1>3

LEMMA BackupKey ==
  ASSUME PosOK, OnlyOwnKey, NEW w \in Workers, BackupBegin(w) \/ BackupFile(w) \/ BackupConf(w)
  PROVE  OnlyOwnKey'
<1> USE ArchivesFrame, DiskFrame DEF PosOK, OnlyOwnKey, Begin, At, Goto
<1>1. OwnFiles(disk)
  BY DEF DiskOK
<1>2. CASE BackupBegin(w)
  BY <1>1, <1>2, WorkerKeeps DEF BackupBegin, files, RestoreLabels
<1>3. CASE BackupFile(w)
  <2>1. PICK f \in FileNames : zip' = [zip EXCEPT ![w].files[f] = disk[f]]
    BY <1>3, FilesInOrder DEF BackupFile
  <2> DEFINE z == [zip[w] EXCEPT !.files[f] = disk[f]]
  <2>2. OwnFiles([zip[w].files EXCEPT ![f] = disk[f]])
    <3>1. /\ f = "key" => disk[f] \in {OwnKey, Torn}
          /\ f = "peers" => disk[f] = Torn \/ disk[f].sealed = <<OwnKey>>
      BY <1>1 DEF OwnFiles
    <3>2. OwnFiles(zip[w].files)
      BY DEF WorkersOK, WorkerOK, OwnArchive
    <3> QED
      BY <3>1, <3>2, OwnUpdate
  <2>3. OwnArchive(z)
    <3>1. "files" \in DOMAIN zip[w]
      BY DEF WorkersOK, WorkerOK, OwnArchive
    <3>2. "files" \in DOMAIN z /\ z.files = [zip[w].files EXCEPT ![f] = disk[f]]
      BY <3>1
    <3> HIDE DEF z
    <3> QED
      BY <2>2, <3>2 DEF OwnArchive
  <2>4. zip' = [zip EXCEPT ![w] = z] /\ list' = [list EXCEPT ![w] = list[w]]
    BY <1>3, <2>1 DEF BackupFile, WorkersOK
  <2>5. PICK p : pc' = [pc EXCEPT ![w] = p] /\ p \in {"zip", "zipconf"}
    BY <1>3 DEF BackupFile, NextFile
  <2>6. WorkerOK(z, list[w], p)
    BY <2>3, <2>5 DEF WorkerOK, RestoreLabels
  <2>7. WorkersOK'
    BY <2>4, <2>5, <2>6, WorkerMoves
  <2> QED
    BY <1>1, <1>3, <2>5, <2>7 DEF BackupFile, NextFile, files
<1>4. CASE BackupConf(w)
  <2>1. OwnArchive([zip[w] EXCEPT !.conf = conf, !.awg = awgConf])
    <3>1. OwnArchive(zip[w])
      BY DEF WorkersOK, WorkerOK
    <3> DEFINE z == [zip[w] EXCEPT !.conf = conf, !.awg = awgConf]
    <3>2. "files" \in DOMAIN z /\ z.files = zip[w].files
      BY <3>1 DEF OwnArchive
    <3> HIDE DEF z
    <3>3. OwnArchive(z)
      BY <3>1, <3>2 DEF OwnArchive
    <3> QED
      BY <3>3 DEF z
  <2>2. ArchivesOK'
    BY <1>4, <2>1 DEF BackupConf, ArchivesOK, OwnArchive, OwnFiles
  <2>3. WorkersOK'
    BY <1>4, WorkerEnds DEF BackupConf
  <2> QED
    BY <1>1, <1>4, <2>2, <2>3 DEF BackupConf, Reset, files
<1> QED
  BY <1>2, <1>3, <1>4

(* A restore brings in an archive of this server, with a key in it. *)
LEMMA RestoreBeginKey ==
  ASSUME PosOK, OnlyOwnKey, NEW w \in Workers, RestoreBegin(w), whole', ~abroad'
  PROVE  OnlyOwnKey'
<1>1. PICK z \in archives : zip' = [zip EXCEPT ![w] = z] /\ Whole(z) /\ z # ForeignArchive
  BY DEF RestoreBegin
<1>2. OwnArchive(z)
  BY <1>1 DEF OnlyOwnKey, ArchivesOK
<1>3. z.files["key"] = OwnKey
  <2>1. z.files[Files[4]] # Torn
    BY <1>1 DEF Whole, Files
  <2> QED
    BY <1>2, <2>1, FilesInOrder DEF OwnArchive, OwnFiles
<1>4. WorkerOK(z, list[w], "create")
  BY <1>2, <1>3 DEF WorkerOK
<1>5. list' = [list EXCEPT ![w] = list[w]] /\ pc' = [pc EXCEPT ![w] = "create"]
  BY DEF RestoreBegin, Begin, Goto, OnlyOwnKey, WorkersOK
<1>6. WorkersOK'
  BY <1>1, <1>4, <1>5, WorkerMoves DEF OnlyOwnKey
<1>7. OwnFiles(disk) /\ UNCHANGED <<disk, encryptionKey, archives, todo>> /\ todo' = [todo EXCEPT ![w] = todo'[w]]
  BY DEF OnlyOwnKey, DiskOK, RestoreBegin, files, PosOK
<1>8. DiskOK'
  BY <1>5, <1>7, DiskFrame DEF OnlyOwnKey, RestoreBegin, Begin, At
<1> QED
  BY <1>6, <1>7, <1>8, ArchivesFrame DEF OnlyOwnKey

(* The key file is empty between its creation and its writing only. *)
LEMMA RestoreFileKey ==
  ASSUME PosOK, OnlyOwnKey, NEW w \in Workers, RestoreCreate(w) \/ RestoreWrite(w)
  PROVE  OnlyOwnKey'
<1> USE ArchivesFrame DEF OnlyOwnKey
<1> DEFINE f == Files[todo[w]]
<1>1. f \in FileNames
  BY FilesInOrder DEF RestoreCreate, RestoreWrite, At, PosOK
<1>2. Restoring(w)
  BY DEF RestoreCreate, RestoreWrite, At, Restoring, RestoreLabels
<1>3. \A v \in Workers \ {w} : pc[v] # "write"
  BY <1>2 DEF PosOK, Restoring, RestoreLabels
<1>4. CASE RestoreCreate(w)
  <2>1. disk' = [disk EXCEPT ![f] = Torn] /\ pc' = [pc EXCEPT ![w] = "write"] /\ pc[w] = "create"
    BY <1>4 DEF RestoreCreate, Goto, At
  <2>2. UNCHANGED <<todo, encryptionKey, archives, zip, list>>
    BY <1>4 DEF RestoreCreate
  <2>3. WorkersOK'
    BY <1>2, <2>1, <2>2, WorkerKeeps
  <2> HIDE DEF f
  <2>4. OwnFiles(disk') /\ (f # "key" => disk'["key"] = disk["key"])
    BY <1>1, <2>1, OwnUpdate DEF DiskOK
  <2>5. f # "key" => disk'["key"] # Torn
    BY <1>3, <2>1, <2>4 DEF DiskOK
  <2>6. f = "key" => pc'[w] = "write" /\ Files[todo'[w]] = "key"
    BY <2>1, <2>2 DEF PosOK, f
  <2>7. DiskOK'
    BY <2>2, <2>4, <2>5, <2>6 DEF DiskOK, OwnFiles
  <2> QED
    BY <2>2, <2>3, <2>7
<1>5. CASE RestoreWrite(w)
  <2>1. disk' = [disk EXCEPT ![f] = zip[w].files[f]]
    BY <1>5 DEF RestoreWrite
  <2>2. UNCHANGED <<encryptionKey, archives, zip, list>>
    BY <1>5 DEF RestoreWrite
  <2>3. PICK p : pc' = [pc EXCEPT ![w] = p] /\ p \notin {"edit", "save"}
    <3> DEFINE p == IF todo[w] = Len(Files) THEN Unpack(w) ELSE "create"
    <3>1. pc' = [pc EXCEPT ![w] = p]
      BY <1>5 DEF RestoreWrite, NextFile, Goto
    <3>2. p \notin {"edit", "save"}
      BY DEF Unpack
    <3> QED
      BY <3>1, <3>2
  <2>4. WorkersOK'
    BY <1>2, <2>2, <2>3, WorkerKeeps
  <2> HIDE DEF f
  <2>5. OwnFiles(zip[w].files) /\ zip[w].files["key"] = OwnKey
    BY <1>2 DEF WorkersOK, WorkerOK, OwnArchive, Restoring
  <2>6. /\ f = "key" => zip[w].files[f] \in {OwnKey, Torn}
        /\ f = "peers" => zip[w].files[f] = Torn \/ zip[w].files[f].sealed = <<OwnKey>>
    BY <2>5 DEF OwnFiles
  <2>7. /\ OwnFiles(disk')
        /\ f # "key" => disk'["key"] = disk["key"]
        /\ f = "key" => disk'["key"] = zip[w].files["key"]
    <3>1. OwnFiles(disk)
      BY DEF DiskOK
    <3> DEFINE v == zip[w].files[f]
               g == [disk EXCEPT ![f] = v]
    <3>2. OwnFiles(g) /\ (f # "key" => g["key"] = disk["key"]) /\ (f = "key" => g["key"] = v)
      <4> HIDE DEF v
      <4> QED
        BY <1>1, <2>6, <3>1, OwnUpdate DEF v
    <3>3. disk' = g
      BY <2>1
    <3> HIDE DEF g
    <3> QED
      BY <3>2, <3>3, Zenon
  <2>8. f # "key" => disk["key"] # Torn
    BY <1>3 DEF DiskOK, f
  <2>9. disk'["key"] # Torn
    BY <2>5, <2>7, <2>8, OwnKeyIsKey
  <2> QED
    BY <2>2, <2>4, <2>7, <2>9 DEF DiskOK, OwnFiles
<1> QED
  BY <1>4, <1>5

(* The rest of a restore leaves the key and the passwords alone. *)
LEMMA RestoreKey ==
  ASSUME PosOK, OnlyOwnKey, NEW w \in Workers,
         \/ RestoreDown(w) \/ RestoreConf(w) \/ RestoreGenerate(w) \/ RestoreCycle(w) \/ RestoreUp(w)
         \/ UnpackCreate(w) \/ UnpackWrite(w) \/ UnpackFails(w)
         \/ RestoreCopy(w) \/ RestoreEnable(w) \/ RestoreAwgUp(w)
  PROVE  OnlyOwnKey'
<1> USE ArchivesFrame DEF OnlyOwnKey
<1>1. OwnFiles(disk') /\ disk'["key"] = disk["key"] /\ UNCHANGED <<encryptionKey, archives>>
  <2>1. CASE RestoreGenerate(w)
    <3>1. disk' = disk \/ \E k : disk' = [disk EXCEPT !.srvkey = k]
      BY <2>1 DEF RestoreGenerate, GenerateWgConfig
    <3>2. UNCHANGED <<encryptionKey, archives>> /\ OwnFiles(disk)
      BY <2>1 DEF RestoreGenerate, DiskOK
    <3>3. \A k : OwnFiles([disk EXCEPT !.srvkey = k]) /\ [disk EXCEPT !.srvkey = k]["key"] = disk["key"]
      BY <3>2, OwnSettings
    <3> QED
      BY <3>1, <3>2, <3>3, Zenon
  <2> QED
    BY <2>1 DEF RestoreDown, RestoreConf, RestoreCycle, RestoreUp, UnpackCreate, UnpackWrite, UnpackFails,
                RestoreCopy, RestoreEnable, RestoreAwgUp, UnpackStep, files, DiskOK
<1>2. /\ pc[w] # "write" /\ todo' = [todo EXCEPT ![w] = todo'[w]]
      /\ \E p : pc' = [pc EXCEPT ![w] = p]
  BY DEF RestoreDown, RestoreConf, RestoreGenerate, RestoreCycle, RestoreUp, UnpackCreate, UnpackWrite,
         UnpackFails, RestoreCopy, RestoreEnable, RestoreAwgUp, UnpackStep, At, Goto, Reset, PosOK
<1>3. DiskOK'
  BY <1>1, <1>2, DiskFrame
<1>4. CASE Reset(w)
  BY <1>1, <1>3, <1>4, WorkerEnds
<1>5. CASE ~Reset(w)
  <2>1. /\ UNCHANGED <<zip, list>> /\ Restoring(w)
        /\ \E p : pc' = [pc EXCEPT ![w] = p] /\ p \notin {"edit", "save"}
    BY <1>5 DEF RestoreDown, RestoreConf, RestoreGenerate, RestoreCycle, RestoreUp, UnpackCreate, UnpackWrite,
           UnpackFails, RestoreCopy, RestoreEnable, RestoreAwgUp, UnpackStep, At, Goto, Restoring, RestoreLabels
  <2> QED
    BY <1>1, <1>3, <2>1, WorkerKeeps
<1> QED
  BY <1>4, <1>5

(* A process that starts again reads the key that it had. *)
LEMMA CrashKey ==
  ASSUME PosOK, OnlyOwnKey, Crash, whole'
  PROVE  OnlyOwnKey'
<1>1. disk["key"] # Torn
  BY DEF Crash, OnlyOwnKey, DiskOK, Restoring, RestoreLabels
<1>2. DiskOK' /\ ArchivesOK'
  BY <1>1, ArchivesFrame DEF Crash, OnlyOwnKey, DiskOK, OwnFiles
<1>3. zip' = [w \in Workers |-> zip'[w]] /\ list' = [w \in Workers |-> list'[w]]
  BY DEF Crash
<1>4. ASSUME NEW w \in Workers PROVE WorkerOK(zip'[w], list'[w], pc'[w])
  BY EmptyArchive DEF Crash, WorkerOK, RestoreLabels
<1> QED
  BY <1>2, <1>3, <1>4 DEF OnlyOwnKey, WorkersOK, WorkerOK, OwnArchive, OwnFiles

LEMMA StartKey ==
  ASSUME PosOK, OnlyOwnKey, Start
  PROVE  OnlyOwnKey'
<1>1. disk["key"] = OwnKey /\ OwnFiles(disk)
  BY DEF Start, OnlyOwnKey, DiskOK, PosOK, OwnFiles
<1>2. InitEncryptionKey(disk) = {disk}
  BY <1>1, OwnKeyIsKey DEF InitEncryptionKey
<1>3. PICK g \in LoadConfig(disk) : \E k, s :
         /\ encryptionKey' = disk.key
         /\ disk' = [g EXCEPT !.srvkey = k] \/ disk' = [[g EXCEPT !.srvkey = k] EXCEPT !.srvkey = s]
  <2>1. PICK g \in LoadConfig(disk) : \E k :
          /\ encryptionKey' = disk.key
          /\ disk' = IF wg0 = Down THEN [g EXCEPT !.srvkey = k] ELSE [[g EXCEPT !.srvkey = k] EXCEPT !.srvkey = wg0.srvkey]
    BY <1>2 DEF Start
  <2> QED
    BY <2>1
<1>4. OwnFiles(g) /\ g["key"] = OwnKey
  <2>1. g = disk \/ \E k : g = [disk EXCEPT !.config = Default, !.srvkey = k]
    BY DEF LoadConfig
  <2>2. ASSUME NEW k
        PROVE  LET h == [disk EXCEPT !.config = Default, !.srvkey = k] IN OwnFiles(h) /\ h["key"] = disk["key"]
    BY <1>1 DEF OwnFiles, FileNames
  <2> QED
    BY <1>1, <2>1, <2>2, Zenon
<1>5. OwnFiles(disk') /\ disk'["key"] = OwnKey
  <2> DEFINE Sub(h, k) == [h EXCEPT !.srvkey = k]
  <2>1. \E k, s : disk' \in {Sub(g, k), Sub(Sub(g, k), s)}
    BY <1>3
  <2>2. ASSUME NEW h, NEW k, OwnFiles(h), h["key"] = OwnKey
        PROVE  OwnFiles(Sub(h, k)) /\ Sub(h, k)["key"] = OwnKey
    BY <2>2, OwnSettings
  <2> HIDE DEF Sub
  <2> QED
    BY <1>4, <2>1, <2>2
<1>6. DiskOK'
  BY <1>1, <1>3, <1>5, OwnKeyIsKey DEF DiskOK, OwnFiles
<1>7. WorkersOK' /\ ArchivesOK'
  BY ArchivesFrame DEF Start, OnlyOwnKey, locals, WorkersOK, WorkerOK, OwnArchive, OwnFiles
<1> QED
  BY <1>6, <1>7 DEF OnlyOwnKey

LEMMA StepKey == PosOK /\ KeyInv /\ [Next]_vars => KeyInv'
<1> SUFFICES ASSUME PosOK, KeyInv, [Next]_vars, whole', ~abroad' PROVE OnlyOwnKey'
  BY DEF KeyInv
<1>1. CASE UNCHANGED vars
  BY <1>1, ArchivesFrame DEF vars, files, locals, history, KeyInv, OnlyOwnKey, DiskOK, WorkersOK, WorkerOK,
                             OwnArchive, OwnFiles
<1>2. ASSUME NEW w \in Workers, Worker(w) PROVE OnlyOwnKey'
  <2>1. ~RestoreFileFails(w)
    BY DEF RestoreFileFails
  <2>2. whole /\ ~abroad
    <3>1. CASE Request(w)
      <4>1. whole' = whole /\ abroad' = abroad
        <5>1. CASE EditLoad(w) \/ EditTrunc(w) \/ EditWrite(w) \/ BackupBegin(w) \/ BackupFile(w) \/ BackupConf(w)
          BY <5>1 DEF history, EditLoad, EditTrunc, EditWrite, BackupBegin, BackupFile, BackupConf
        <5>2. CASE RestoreCreate(w) \/ RestoreWrite(w) \/ RestoreDown(w) \/ RestoreConf(w)
          BY <5>2 DEF history, RestoreCreate, RestoreWrite, RestoreDown, RestoreConf
        <5>3. CASE RestoreGenerate(w) \/ RestoreCycle(w) \/ RestoreUp(w)
          BY <5>3 DEF history, RestoreGenerate, RestoreCycle, RestoreUp
        <5> QED
          BY <2>1, <3>1, <5>1, <5>2, <5>3 DEF Request
      <4> QED
        BY <4>1
    <3>2. CASE RestoreBegin(w)
      BY <3>2 DEF RestoreBegin
    <3>3. CASE AwgRestore(w) /\ ~RestoreBegin(w)
      <4>1. whole' = whole /\ abroad' = abroad
        BY <3>3 DEF AwgRestore, history, UnpackCreate, UnpackWrite, UnpackFails, UnpackStep,
             RestoreCopy, RestoreEnable, RestoreAwgUp
      <4> QED
        BY <4>1
    <3>4. CASE UNCHANGED history
      BY <3>4 DEF history
    <3> QED
      BY <1>2, <3>1, <3>2, <3>3, <3>4 DEF Worker
  <2>3. OnlyOwnKey
    BY <2>2 DEF KeyInv
  <2>4. CASE AwgRequest(w) /\ UNCHANGED <<files, encryptionKey, archives, used, extracted, zip, todo, list, history>>
    <3>1. PICK p : pc' = [pc EXCEPT ![w] = p] /\ p \notin RestoreLabels \cup {"edit", "save"}
      BY <2>4, AwgMoves DEF AwgLabels, RestoreLabels
    <3>2. WorkersOK'
      BY <2>3, <2>4, <3>1, WorkerKeeps DEF OnlyOwnKey
    <3>3. pc[w] # "write"
      BY <2>4, AwgMoves DEF AwgLabels
    <3>4. OwnFiles(disk) /\ todo' = [todo EXCEPT ![w] = todo'[w]]
      BY <2>3, <2>4 DEF OnlyOwnKey, DiskOK, PosOK
    <3> QED
      BY <2>3, <2>4, <3>1, <3>2, <3>3, <3>4, ArchivesFrame, DiskFrame DEF OnlyOwnKey, files
  <2> QED
    BY <1>2, <2>1, <2>3, <2>4, EditKey, BackupKey, RestoreBeginKey, RestoreFileKey, RestoreKey
       DEF Worker, Request, AwgRestore
<1>3. CASE Crash
  <2>1. OnlyOwnKey
    BY <1>3 DEF Crash, KeyInv
  <2> QED
    BY <1>3, <2>1, CrashKey
<1>4. CASE Start
  <2>1. OnlyOwnKey
    BY <1>4 DEF Start, KeyInv
  <2> QED
    BY <1>4, <2>1, StartKey
<1> QED
  BY <1>1, <1>2, <1>3, <1>4 DEF Next

(* Through any number of edits, backups, restores of this server's own     *)
(* archives, crashes and restarts, of any number of requests at once, the  *)
(* stored passwords are sealed once with the key the next start will read  *)
(* (crypto.go against createBackup and restoreBackup).                     *)
THEOREM PasswordsAlwaysReadable == Spec => []PasswordsReadable
<1>1. PosOK /\ KeyInv => PasswordsReadable
  BY DEF KeyInv, OnlyOwnKey, DiskOK, OwnFiles, PasswordsReadable, Readable, Restoring, RestoreLabels
<1> QED
  BY <1>1, InitPos, InitKey, StepPos, StepKey, PTL DEF Spec

-----------------------------------------------------------------------------
(* What a restore has installed.  While one is at work that nothing has    *)
(* disturbed, the files up to the one it is at are those of the archive;   *)
(* once it is over, disk, wg0.conf and wg0 are, and no request is at work  *)
(* that would change them.                                                 *)
FileSet(f) == f = [n \in FileNames |-> f[n]]

FileSets ==
  /\ FileSet(disk)
  /\ \A z \in archives : "files" \in DOMAIN z /\ FileSet(z.files)
  /\ zip = [w \in Workers |-> zip[w]]
  /\ \A w \in Workers : "files" \in DOMAIN zip[w] /\ FileSet(zip[w].files)

Full(f)   == \A n \in FileNames : f[n] # Torn
NoEditor  == \A w \in Workers : pc[w] \notin {"edit", "save"}
Late      == {"restoreenable", "restoreup"}

Progress(w) ==
  /\ Restoring(w) /\ pc[w] \notin Late /\ NoEditor
  /\ Full(zip[w].files)
  /\ pc[w] \in {"create", "write"} => \A i \in 1 .. 4 : i < todo[w] => disk[Files[i]] = zip[w].files[Files[i]]
  /\ pc[w] \notin {"create", "write"} => disk = zip[w].files
  /\ pc[w] \in {"cycle", "quickup"} => conf = Rendered(zip[w].files)
  /\ pc[w] = "quickup" => wg0 = Down

Installed ==
  moved # None =>
    /\ disk = moved /\ Full(moved) /\ conf = Rendered(moved)
    /\ wg0 = conf \/ (proc = "down" /\ wg0 = Down)
    /\ NoEditor /\ \A w \in Workers : Restoring(w) => pc[w] \in Late

StuckInv == FileSets /\ Installed /\ alone \subseteq Workers /\ \A w \in alone : Progress(w)

LEMMA InitStuck == Init => StuckInv
<1> SUFFICES ASSUME Init PROVE StuckInv
  OBVIOUS
<1>1. \A s \in Sites : FileSet(SiteFiles(s))
  BY DEF FileSet, SiteFiles, FileNames
<1>2. "files" \in DOMAIN NoArchive /\ FileSet(NoArchive.files)
  BY DEF NoArchive, NoFiles, FileSet, FileNames
<1>3. "files" \in DOMAIN ForeignArchive /\ FileSet(ForeignArchive.files)
  BY <1>1 DEF ForeignArchive, Sites
<1>4. FileSets
  BY <1>1, <1>2, <1>3 DEF Init, FileSets, Sites
<1> QED
  BY <1>4 DEF Init, StuckInv, Installed

(* A request that restores nothing and edits nothing. *)
LEMMA OutsideStuck ==
  ASSUME PosOK, StuckInv, NEW w \in Workers, NEW p, pc' = [pc EXCEPT ![w] = p],
         ~Restoring(w), p \notin RestoreLabels \cup {"edit", "save"},
         \A v \in Workers \ {w} : zip'[v] = zip[v] /\ todo'[v] = todo[v],
         FileSets', UNCHANGED <<disk, conf, wg0, proc, alone, moved>>
  PROVE  StuckInv'
<1>1. pc'[w] = p /\ \A v \in Workers \ {w} : pc'[v] = pc[v]
  BY DEF PosOK
<1>2. NoEditor => NoEditor'
  BY <1>1 DEF NoEditor
<1>3. \A v \in Workers : Restoring(v)' => Restoring(v) /\ v # w
  BY <1>1 DEF Restoring
<1>4. Installed'
  BY <1>1, <1>2, <1>3 DEF StuckInv, Installed, Full, Rendered
<1>5. ASSUME NEW v \in alone PROVE Progress(v)'
  <2>1. v \in Workers \ {w} /\ Progress(v)
    BY DEF StuckInv, Progress
  <2>2. pc'[v] = pc[v] /\ zip'[v] = zip[v] /\ todo'[v] = todo[v]
    BY <1>1, <2>1
  <2> QED
    BY <1>2, <2>1, <2>2 DEF Progress, Restoring, Full, Rendered
<1> QED
  BY <1>4, <1>5 DEF StuckInv

LEMMA FileSetsKept ==
  FileSets /\ FileSet(disk') /\ UNCHANGED <<archives, zip>> => FileSets'
BY DEF FileSets, FileSet

LEMMA FileSetsEnd ==
  ASSUME FileSets, NEW w \in Workers, FileSet(disk'), archives' = archives, zip' = [zip EXCEPT ![w] = NoArchive]
  PROVE  FileSets'
<1>1. "files" \in DOMAIN NoArchive /\ FileSet(NoArchive.files)
  BY DEF NoArchive, NoFiles, FileSet, FileNames
<1> QED
  BY <1>1 DEF FileSets, FileSet

LEMMA EditStuck ==
  ASSUME PosOK, StuckInv, NEW w \in Workers, EditLoad(w) \/ EditTrunc(w) \/ EditWrite(w)
  PROVE  StuckInv'
<1> USE DEF At, Goto, Begin
<1>1. CASE EditLoad(w)
  BY <1>1, FileSetsKept DEF EditLoad, files, StuckInv, FileSets, Installed
<1>2. CASE EditTrunc(w) \/ EditWrite(w)
  <2>1. pc[w] \in {"edit", "save"} /\ alone' = alone /\ moved' = moved
    BY <1>2 DEF EditTrunc, EditWrite, history
  <2>2. alone = {} /\ moved = None
    BY <2>1 DEF StuckInv, Installed, Progress, NoEditor
  <2>3. FileSet(disk') /\ archives' = archives
    BY <1>2 DEF EditTrunc, EditWrite, StuckInv, FileSets, FileSet
  <2>4. FileSets'
    BY <1>2, <2>3, FileSetsKept, FileSetsEnd DEF EditTrunc, EditWrite, Reset, StuckInv
  <2> QED
    BY <2>1, <2>2, <2>4 DEF StuckInv, Installed
<1> QED
  BY <1>1, <1>2

LEMMA BackupStuck ==
  ASSUME PosOK, StuckInv, NEW w \in Workers, BackupBegin(w) \/ BackupFile(w) \/ BackupConf(w)
  PROVE  StuckInv'
<1> USE DEF At, Goto, Begin
<1>1. ~Restoring(w) /\ UNCHANGED <<disk, conf, wg0, proc, alone, moved>>
  BY DEF BackupBegin, BackupFile, BackupConf, Restoring, RestoreLabels, files, history
<1>2. CASE BackupBegin(w)
  BY <1>1, <1>2, OutsideStuck, FileSetsKept DEF BackupBegin, StuckInv, FileSets, RestoreLabels
<1>3. CASE BackupFile(w)
  <2>1. PICK f \in FileNames : zip' = [zip EXCEPT ![w].files[f] = disk[f]]
    BY <1>3, FilesInOrder DEF BackupFile, PosOK
  <2>2. zip'[w] = [zip[w] EXCEPT !.files = [zip[w].files EXCEPT ![f] = disk[f]]]
    BY <2>1 DEF StuckInv, FileSets
  <2>3. "files" \in DOMAIN zip[w] /\ FileSet(zip[w].files)
    BY DEF StuckInv, FileSets
  <2>4. "files" \in DOMAIN zip'[w] /\ zip'[w].files = [zip[w].files EXCEPT ![f] = disk[f]]
    BY <2>2, <2>3
  <2>5. FileSet([zip[w].files EXCEPT ![f] = disk[f]])
    BY <2>3 DEF FileSet
  <2>6. zip' = [v \in Workers |-> zip'[v]] /\ \A v \in Workers \ {w} : zip'[v] = zip[v]
    BY <2>1 DEF StuckInv, FileSets
  <2>7. FileSet(zip'[w].files)
    BY <2>4, <2>5, Zenon
  <2>8. archives' = archives
    BY <1>3 DEF BackupFile
  <2>9. FileSets'
    BY <1>1, <2>4, <2>6, <2>7, <2>8 DEF StuckInv, FileSets, FileSet
  <2>10. todo' = [todo EXCEPT ![w] = todo[w] + 1] /\ \E p \in {"zip", "zipconf"} : pc' = [pc EXCEPT ![w] = p]
    BY <1>3 DEF BackupFile, NextFile
  <2>11. \A v \in Workers \ {w} : todo'[v] = todo[v]
    BY <2>10 DEF PosOK
  <2>12. PICK p : p \in {"zip", "zipconf"} /\ pc' = [pc EXCEPT ![w] = p]
    BY <2>10
  <2> QED
    BY <1>1, <2>6, <2>9, <2>11, <2>12, OutsideStuck DEF RestoreLabels
<1>4. CASE BackupConf(w)
  <2> DEFINE z == [zip[w] EXCEPT !.conf = conf, !.awg = awgConf]
  <2>1. "files" \in DOMAIN z /\ z.files = zip[w].files
    BY DEF StuckInv, FileSets
  <2>2. archives' = archives \cup {z} /\ zip' = [zip EXCEPT ![w] = NoArchive]
    BY <1>4 DEF BackupConf, Reset
  <2>3. "files" \in DOMAIN NoArchive /\ FileSet(NoArchive.files)
    BY DEF NoArchive, NoFiles, FileSet, FileNames
  <2> HIDE DEF z
  <2>4. FileSets'
    BY <1>1, <2>1, <2>2, <2>3 DEF StuckInv, FileSets, FileSet
  <2> QED
    BY <1>1, <1>4, <2>4, OutsideStuck DEF BackupConf, Reset, StuckInv, FileSets, PosOK, RestoreLabels
<1> QED
  BY <1>2, <1>3, <1>4
LEMMA RestoreBeginStuck ==
  ASSUME PosOK, StuckInv, NEW w \in Workers, RestoreBegin(w)
  PROVE  StuckInv'
<1>1. PICK z \in archives : /\ zip' = [zip EXCEPT ![w] = z]
                           /\ alone' = IF Whole(z) /\ \A v \in Workers : pc[v] \notin {"edit", "save"} THEN {w} ELSE {}
  BY DEF RestoreBegin
<1>2. /\ pc' = [pc EXCEPT ![w] = "create"] /\ pc[w] = "idle" /\ UNCHANGED <<disk, archives, todo>> /\ moved' = None
  BY DEF RestoreBegin, Begin, At, Goto, files
<1>3. pc'[w] = "create" /\ zip'[w] = z /\ \A v \in Workers \ {w} : pc'[v] = pc[v] /\ zip'[v] = zip[v]
  BY <1>1, <1>2 DEF PosOK, StuckInv, FileSets
<1>4. "files" \in DOMAIN z /\ FileSet(z.files)
  BY DEF StuckInv, FileSets
<1>5. FileSets'
  BY <1>1, <1>2, <1>3, <1>4 DEF StuckInv, FileSets, FileSet
<1>6. Whole(z) => Full(z.files)
  <2>1. \A n \in FileNames : \E i \in 1 .. 4 : Files[i] = n
    BY DEF FileNames, Files
  <2> QED
    BY <2>1, FilesInOrder DEF Whole, Full, Files
<1>7. ASSUME w \in alone' PROVE Progress(w)'
  <2>1. Full(z.files) /\ NoEditor'
    BY <1>1, <1>3, <1>6, <1>7 DEF NoEditor
  <2>2. todo'[w] = 1
    BY <1>2 DEF PosOK, Before
  <2> QED
    BY <1>3, <2>1, <2>2 DEF Progress, Restoring, RestoreLabels, Late, Full
<1> QED
  BY <1>1, <1>2, <1>5, <1>7 DEF StuckInv, Installed

(* A restore on its way: it is the only one, and nothing is installed yet. *)
LEMMA OnStuck ==
  ASSUME PosOK, StuckInv, NEW w \in Workers, Restoring(w), pc[w] \notin Late,
         FileSets', moved' = moved \/ moved' = None, alone' \subseteq alone, w \in alone' => Progress(w)'
  PROVE  StuckInv'
<1>1. alone \subseteq {w} /\ moved = None
  BY DEF StuckInv, Installed, Progress, PosOK
<1> QED
  BY <1>1 DEF StuckInv, Installed

LEMMA FilesStuck ==
  ASSUME PosOK, StuckInv, NEW w \in Workers, RestoreCreate(w) \/ RestoreWrite(w) \/ RestoreFileFails(w)
  PROVE  StuckInv'
<1> USE DEF At, Goto
<1> DEFINE f == zip[w].files
           n == Files[todo[w]]
<1>1. /\ pc[w] \in {"create", "write"} /\ todo[w] \in 1 .. 4 /\ Restoring(w) /\ pc[w] \notin Late
      /\ UNCHANGED <<archives, zip>> /\ moved' = moved
  BY DEF RestoreCreate, RestoreWrite, RestoreFileFails, Restoring, RestoreLabels, Late, PosOK, history
<1>2. n \in FileNames /\ FileSet(disk) /\ FileSet(f)
  BY <1>1, FilesInOrder DEF StuckInv, FileSets
<1>3. CASE RestoreFileFails(w)
  <2>1. disk' = disk /\ alone' = {}
    BY <1>3 DEF RestoreFileFails, files
  <2>2. FileSets'
    BY <1>1, <1>2, <2>1, FileSetsKept DEF StuckInv
  <2> QED
    BY <1>1, <2>1, <2>2, OnStuck
<1>4. CASE RestoreCreate(w)
  <2>1. disk' = [disk EXCEPT ![n] = Torn] /\ pc' = [pc EXCEPT ![w] = "write"] /\ pc[w] = "create"
        /\ UNCHANGED <<todo, alone>>
    BY <1>4 DEF RestoreCreate, history
  <2>2. FileSet(disk')
    BY <1>2, <2>1 DEF FileSet
  <2>3. FileSets'
    BY <1>1, <2>2, FileSetsKept DEF StuckInv
  <2>4. \A i \in 1 .. 4 : i < todo[w] => disk'[Files[i]] = disk[Files[i]]
    <3>1. \A i, j \in 1 .. 4 : Files[i] = Files[j] => i = j
      BY DEF Files
    <3>2. \A m \in FileNames : m # n => disk'[m] = disk[m]
      BY <1>2, <2>1 DEF FileSet
    <3> QED
      BY <1>1, <3>1, <3>2, FilesInOrder
  <2>5. ASSUME w \in alone' PROVE Progress(w)'
    <3>1. Progress(w)
      BY <2>1, <2>5 DEF StuckInv
    <3>2. NoEditor' /\ pc'[w] = "write"
      BY <2>1, <3>1 DEF Progress, NoEditor, PosOK
    <3>3. \A i \in 1 .. 4 : i < todo'[w] => disk'[Files[i]] = zip'[w].files[Files[i]]
      BY <1>1, <2>1, <2>4, <3>1 DEF Progress
    <3> QED
      BY <1>1, <3>1, <3>2, <3>3 DEF Progress, Restoring, RestoreLabels, Late, Full
  <2> QED
    BY <1>1, <2>1, <2>3, <2>5, OnStuck
<1>5. CASE RestoreWrite(w)
  <2>1. disk' = [disk EXCEPT ![n] = f[n]] /\ todo' = [todo EXCEPT ![w] = todo[w] + 1] /\ alone' = alone
    BY <1>5 DEF RestoreWrite, NextFile, history
  <2>2. FileSet(disk')
    BY <1>2, <2>1 DEF FileSet
  <2>3. FileSets'
    BY <1>1, <2>2, FileSetsKept DEF StuckInv
  <2>4. PICK p : pc' = [pc EXCEPT ![w] = p] /\ IF todo[w] = 4 THEN p \in {"unpack", "down"} ELSE p = "create"
    <3> DEFINE p == IF todo[w] = Len(Files) THEN Unpack(w) ELSE "create"
    <3>1. pc' = [pc EXCEPT ![w] = p]
      BY <1>5 DEF RestoreWrite, NextFile
    <3>2. IF todo[w] = 4 THEN p \in {"unpack", "down"} ELSE p = "create"
      BY FilesInOrder DEF Unpack
    <3> HIDE DEF p
    <3> QED
      BY <3>1, <3>2
  <2>5. ASSUME w \in alone' PROVE Progress(w)'
    <3>1. Progress(w)
      BY <2>1, <2>5 DEF StuckInv
    <3>2. /\ pc'[w] = p /\ p \in {"create", "unpack", "down"} /\ todo'[w] = todo[w] + 1
      BY <2>1, <2>4 DEF PosOK
    <3>3. NoEditor'
      BY <2>4, <3>1, <3>2 DEF Progress, NoEditor, PosOK
    <3>4. \A m \in FileNames : disk'[m] = IF m = n THEN f[m] ELSE disk[m]
      BY <1>2, <2>1 DEF FileSet
    <3>5. \A i \in 1 .. 4 : i < todo[w] + 1 => disk'[Files[i]] = f[Files[i]]
      <4>1. \A i \in 1 .. 4 : i < todo[w] => disk[Files[i]] = f[Files[i]]
        BY <1>1, <3>1 DEF Progress
      <4> HIDE DEF f
      <4> QED
        BY <1>1, <3>4, <4>1, FilesInOrder
    <3>6. todo[w] = 4 => disk' = f
      <4>1. \A m \in FileNames : \E i \in 1 .. 4 : Files[i] = m
        BY DEF FileNames, Files
      <4>2. todo[w] = 4 => \A m \in FileNames : disk'[m] = f[m]
        BY <3>5, <4>1
      <4> HIDE DEF f
      <4> QED
        BY <1>2, <2>2, <4>2 DEF FileSet
    <3>7. \A i \in 1 .. 4 : i < todo'[w] => disk'[Files[i]] = zip'[w].files[Files[i]]
      BY <1>1, <3>2, <3>5
    <3>8. p \notin {"create", "write"} => disk' = zip'[w].files
      BY <1>1, <2>4, <3>6
    <3> QED
      BY <1>1, <3>1, <3>2, <3>3, <3>7, <3>8 DEF Progress, Restoring, RestoreLabels, Late, Full
  <2> QED
    BY <1>1, <2>1, <2>3, <2>5, OnStuck
<1> QED
  BY <1>3, <1>4, <1>5
(* The files are restored; an archive that is whole has its server key, so *)
(* that generateWgConfig makes none.                                       *)
LEMMA ServeStuck ==
  ASSUME PosOK, StuckInv, NEW w \in Workers,
         \/ RestoreDown(w) \/ RestoreConf(w) \/ RestoreGenerate(w) \/ RestoreCycle(w)
         \/ UnpackCreate(w) \/ UnpackWrite(w) \/ UnpackFails(w) \/ RestoreCopy(w)
  PROVE  StuckInv'
<1> USE DEF At, Goto
<1>1. /\ pc[w] \in RestoreLabels \ {"create", "write", "restoreenable", "restoreup", "quickup"}
      /\ \E p \in RestoreLabels \ {"create", "write", "restoreenable", "restoreup"} : pc' = [pc EXCEPT ![w] = p]
      /\ UNCHANGED <<archives, zip>> /\ moved' = moved /\ alone' = alone
  BY DEF RestoreDown, RestoreConf, RestoreGenerate, RestoreCycle, UnpackCreate, UnpackWrite, UnpackFails, RestoreCopy,
         UnpackStep, RestoreLabels, history
<1>2. PICK p : /\ pc' = [pc EXCEPT ![w] = p]
               /\ p \in RestoreLabels \ {"create", "write", "restoreenable", "restoreup"}
  BY <1>1
<1>3. Restoring(w) /\ pc[w] \notin Late
  BY <1>1 DEF Restoring, Late
<1>4. /\ p = "cycle" => RestoreGenerate(w)
      /\ p = "quickup" => RestoreCycle(w)
  BY <1>2 DEF RestoreDown, RestoreConf, RestoreGenerate, RestoreCycle, UnpackCreate, UnpackWrite, UnpackFails,
              RestoreCopy, UnpackStep, PosOK
<1>5. FileSet(disk)
  BY DEF StuckInv, FileSets
<1>6. FileSet(disk')
  BY <1>5 DEF RestoreDown, RestoreConf, RestoreGenerate, RestoreCycle, UnpackCreate, UnpackWrite, UnpackFails,
              RestoreCopy, UnpackStep, GenerateWgConfig, files, FileSet
<1>7. FileSets'
  BY <1>1, <1>6, FileSetsKept DEF StuckInv
<1>8. ASSUME w \in alone' PROVE Progress(w)'
  <2>1. Progress(w)
    BY <1>1, <1>8 DEF StuckInv
  <2>2. disk = zip[w].files /\ Full(disk)
    BY <1>1, <2>1 DEF Progress
  <2>3. disk' = disk
    <3>1. CASE RestoreGenerate(w)
      <4>1. disk' = [disk EXCEPT !.srvkey = disk.srvkey] \/ disk' = disk
        BY <2>2, <3>1 DEF RestoreGenerate, GenerateWgConfig, Full, FileNames
      <4> QED
        BY <1>5, <4>1 DEF FileSet, FileNames
    <3> QED
      BY <3>1 DEF RestoreDown, RestoreConf, RestoreCycle, UnpackCreate, UnpackWrite, UnpackFails,
                  RestoreCopy, UnpackStep, files
  <2>4. p = "cycle" => conf' = Rendered(disk')
    BY <1>4, <2>2 DEF RestoreGenerate, GenerateWgConfig, Full, FileNames
  <2>5. p = "quickup" => pc[w] = "cycle" /\ conf' = conf /\ wg0' = Down
    BY <1>4 DEF RestoreCycle
  <2>6. p \in {"cycle", "quickup"} => conf' = Rendered(disk')
    BY <2>1, <2>2, <2>3, <2>4, <2>5, Zenon DEF Progress
  <2>7. pc'[w] = p /\ NoEditor'
    BY <1>2, <2>1 DEF Progress, NoEditor, PosOK, RestoreLabels
  <2>8. disk' = zip'[w].files
    BY <1>1, <2>2, <2>3
  <2>9. Full(zip'[w].files)
    BY <1>1, <2>2
  <2>10. p \in {"cycle", "quickup"} => conf' = Rendered(zip'[w].files)
    BY <2>6, <2>8, Zenon
  <2>11. Restoring(w)' /\ pc'[w] \notin Late /\ pc'[w] \notin {"create", "write"}
    BY <1>2, <2>7 DEF Restoring, Late
  <2> QED
    BY <2>5, <2>7, <2>8, <2>9, <2>10, <2>11 DEF Progress, Full, Rendered
<1> QED
  BY <1>1, <1>3, <1>7, <1>8, OnStuck

LEMMA UpStuck ==
  ASSUME PosOK, StuckInv, NEW w \in Workers, RestoreUp(w)
  PROVE  StuckInv'
<1>1. /\ pc[w] = "quickup" /\ Restoring(w) /\ pc[w] \notin Late
      /\ disk' = disk /\ conf' = conf /\ archives' = archives /\ proc' = proc
      /\ wg0' = IF wg0 = Down THEN conf ELSE wg0
      /\ moved' = IF w \in alone THEN zip[w].files ELSE None
      /\ alone' = alone \ {w}
  BY DEF RestoreUp, At, Restoring, RestoreLabels, Late
<1>2. FileSets'
  BY <1>1, FileSetsKept, FileSetsEnd DEF RestoreUp, Reset, StuckInv, FileSets
<1>3. PICK p \in {"idle", "restoreenable"} : pc' = [pc EXCEPT ![w] = p]
  BY DEF RestoreUp, Reset, Goto
<1>4. alone' = {}
  BY <1>1 DEF StuckInv, Progress, PosOK
<1>5. CASE w \in alone
  <2>1. disk = zip[w].files /\ Full(zip[w].files) /\ conf = Rendered(zip[w].files) /\ wg0 = Down /\ NoEditor
    BY <1>1, <1>5 DEF StuckInv, Progress
  <2>2. moved' = zip[w].files /\ disk' = moved' /\ conf' = Rendered(moved') /\ wg0' = conf' /\ Full(moved')
    BY <1>1, <1>5, <2>1
  <2>3. NoEditor'
    BY <1>3, <2>1 DEF NoEditor, PosOK
  <2>4. \A v \in Workers : Restoring(v)' => pc'[v] \in Late
    BY <1>1, <1>3 DEF PosOK, Restoring, RestoreLabels, Late
  <2>5. Installed'
    BY <2>2, <2>3, <2>4 DEF Installed, Full, Rendered
  <2> QED
    BY <1>2, <1>4, <2>5 DEF StuckInv
<1>6. CASE w \notin alone
  BY <1>1, <1>2, <1>4, <1>6 DEF StuckInv, Installed
<1> QED
  BY <1>5, <1>6

(* The AmneziaWG interface comes last. *)
LEMMA LateStuck ==
  ASSUME PosOK, StuckInv, NEW w \in Workers, RestoreEnable(w) \/ RestoreAwgUp(w)
  PROVE  StuckInv'
<1>1. /\ pc[w] \in Late /\ Restoring(w)
      /\ UNCHANGED <<disk, conf, wg0, archives, proc>> /\ moved' = moved /\ alone' = alone
  BY DEF RestoreEnable, RestoreAwgUp, UnpackStep, At, files, history, Late, Restoring, RestoreLabels
<1>2. FileSets'
  BY <1>1, FileSetsKept, FileSetsEnd DEF RestoreEnable, RestoreAwgUp, UnpackStep, Reset, StuckInv, FileSets
<1>3. PICK p \in {"idle", "restoreup"} : pc' = [pc EXCEPT ![w] = p]
  BY DEF RestoreEnable, RestoreAwgUp, UnpackStep, Reset, Goto
<1>4. alone = {}
  BY <1>1 DEF StuckInv, Progress, PosOK
<1>5. NoEditor => NoEditor'
  BY <1>3 DEF NoEditor, PosOK
<1>6. \A v \in Workers : Restoring(v)' => pc'[v] \in Late
  BY <1>1, <1>3 DEF PosOK, Restoring, RestoreLabels, Late
<1>7. Installed'
  BY <1>1, <1>5, <1>6 DEF StuckInv, Installed, Full, Rendered
<1> QED
  BY <1>1, <1>2, <1>4, <1>7 DEF StuckInv

LEMMA CrashStuck ==
  ASSUME PosOK, StuckInv, Crash
  PROVE  StuckInv'
<1>1. /\ \A w \in Workers : pc'[w] = "idle" /\ zip'[w] = NoArchive
      /\ zip' = [w \in Workers |-> zip'[w]]
      /\ UNCHANGED <<disk, conf, archives>> /\ moved' = moved /\ alone' = {}
      /\ proc = "up" /\ proc' = "down" /\ wg0' \in {wg0, Down}
  BY DEF Crash
<1>2. "files" \in DOMAIN NoArchive /\ FileSet(NoArchive.files)
  BY DEF NoArchive, NoFiles, FileSet, FileNames
<1>3. FileSets'
  BY <1>1, <1>2 DEF StuckInv, FileSets, FileSet
<1>4. NoEditor' /\ \A w \in Workers : ~Restoring(w)'
  BY <1>1 DEF NoEditor, Restoring, RestoreLabels
<1>5. Installed'
  BY <1>1, <1>4 DEF StuckInv, Installed, Full, Rendered
<1> QED
  BY <1>1, <1>3, <1>5 DEF StuckInv
(* A start finds whole files and gives wg0 what it has. *)
LEMMA StartStuck ==
  ASSUME PosOK, StuckInv, Start
  PROVE  /\ StuckInv'
         /\ moved # None => encryptionKey' = moved["key"]
<1>1. /\ UNCHANGED <<pc, zip, todo, archives>> /\ moved' = moved /\ alone' = alone
      /\ proc = "down" /\ proc' = "up"
  BY DEF Start, locals
<1>2. alone = {}
  BY <1>1 DEF StuckInv, Progress, PosOK, Restoring, RestoreLabels
<1>3. PICK f \in InitEncryptionKey(disk) : \E g \in LoadConfig(f) :
        \E k \in IF g.srvkey = Torn THEN Keys \ (used \cup {g.key}) ELSE {g.srvkey} :
          LET h == [g EXCEPT !.srvkey = k] IN
            /\ encryptionKey' = f.key /\ conf' = Rendered(h)
            /\ wg0' = IF wg0 = Down THEN conf' ELSE [conf' EXCEPT !.config = wg0.config]
            /\ disk' = IF wg0 = Down THEN h ELSE [h EXCEPT !.srvkey = wg0.srvkey]
  BY DEF Start
<1>4. PICK g \in LoadConfig(f) :
        \E k \in IF g.srvkey = Torn THEN Keys \ (used \cup {g.key}) ELSE {g.srvkey} :
          LET h == [g EXCEPT !.srvkey = k] IN
            /\ encryptionKey' = f.key /\ conf' = Rendered(h)
            /\ wg0' = IF wg0 = Down THEN conf' ELSE [conf' EXCEPT !.config = wg0.config]
            /\ disk' = IF wg0 = Down THEN h ELSE [h EXCEPT !.srvkey = wg0.srvkey]
  BY <1>3
<1>5. FileSet(disk')
  <2>1. FileSet(f)
    BY DEF InitEncryptionKey, FileSet, StuckInv, FileSets
  <2>2. FileSet(g)
    BY <2>1 DEF LoadConfig, FileSet
  <2> QED
    BY <1>4, <2>2 DEF FileSet
<1>6. FileSets'
  BY <1>1, <1>5, FileSetsKept DEF StuckInv
<1>7. ASSUME moved # None
      PROVE  disk' = moved /\ conf' = Rendered(moved) /\ wg0' = conf' /\ encryptionKey' = moved["key"]
  <2>1. /\ disk = moved /\ Full(disk) /\ conf = Rendered(disk) /\ FileSet(disk)
        /\ wg0 \in {conf, Down}
    BY <1>7 DEF StuckInv, Installed, FileSets
  <2>2. f = disk
    BY <2>1 DEF InitEncryptionKey, Full, FileNames
  <2>3. g = disk
    BY <2>1, <2>2 DEF LoadConfig, Full, FileNames
  <2>4. [disk EXCEPT !.srvkey = disk.srvkey] = disk
    BY <2>1 DEF FileSet, FileNames
  <2>5. disk["srvkey"] # Torn
    BY <2>1 DEF Full, FileNames
  <2>6. /\ encryptionKey' = disk.key /\ conf' = Rendered(disk)
        /\ wg0' = IF wg0 = Down THEN conf' ELSE [conf' EXCEPT !.config = wg0.config]
        /\ disk' = IF wg0 = Down THEN disk ELSE [disk EXCEPT !.srvkey = wg0.srvkey]
    BY <1>4, <2>2, <2>3, <2>4, <2>5
  <2>7. Rendered(disk).srvkey = disk.srvkey
    BY DEF Rendered
  <2>8. [Rendered(disk) EXCEPT !.config = Rendered(disk).config] = Rendered(disk)
    BY DEF Rendered
  <2>9. CASE wg0 = Down
    BY <2>1, <2>6, <2>9
  <2>10. CASE wg0 # Down
    <3>1. wg0 = Rendered(disk)
      BY <2>1, <2>10
    <3>2. wg0' = [Rendered(disk) EXCEPT !.config = Rendered(disk).config]
      BY <2>6, <2>10, <3>1
    <3>3. disk' = [disk EXCEPT !.srvkey = Rendered(disk).srvkey]
      BY <2>6, <2>10, <3>1
    <3>4. disk' = disk
      BY <2>4, <2>7, <3>3
    <3> QED
      BY <2>1, <2>6, <2>8, <3>2, <3>4
  <2> QED
    BY <2>9, <2>10
<1>8. Installed'
  BY <1>1, <1>7 DEF StuckInv, Installed, NoEditor, Restoring, Full, Rendered
<1> QED
  BY <1>1, <1>2, <1>6, <1>7, <1>8 DEF StuckInv

LEMMA StepStuck == PosOK /\ StuckInv /\ [Next]_vars => StuckInv'
<1> SUFFICES ASSUME PosOK, StuckInv, [Next]_vars PROVE StuckInv'
  OBVIOUS
<1>1. CASE UNCHANGED vars
  BY <1>1 DEF vars, files, locals, history, StuckInv, FileSets, FileSet, Installed, Progress, NoEditor, Restoring,
              Full, Rendered
<1>2. ASSUME NEW w \in Workers, AwgRequest(w),
             UNCHANGED <<files, encryptionKey, archives, used, extracted, zip, todo, list, history>>
      PROVE  StuckInv'
  <2>1. PICK p \in AwgLabels \cup {"idle"} : pc' = [pc EXCEPT ![w] = p]
    BY <1>2, AwgMoves
  <2>2. p \notin RestoreLabels \cup {"edit", "save"} /\ ~Restoring(w) /\ proc' = proc
    BY <1>2, AwgMoves DEF AwgLabels, RestoreLabels, Restoring
  <2>3. UNCHANGED <<disk, conf, wg0, alone, moved, archives, zip, todo>>
    BY <1>2 DEF files, history
  <2>4. FileSets'
    BY <2>3, FileSetsKept DEF StuckInv, FileSets
  <2> QED
    BY <2>1, <2>2, <2>3, <2>4, OutsideStuck
<1>3. ASSUME NEW w \in Workers, Request(w) \/ AwgRestore(w) PROVE StuckInv'
  BY <1>3, EditStuck, BackupStuck, RestoreBeginStuck, FilesStuck, ServeStuck, UpStuck, LateStuck DEF Request, AwgRestore
<1>4. CASE Crash
  BY <1>4, CrashStuck
<1>5. CASE Start
  BY <1>5, StartStuck
<1> QED
  BY <1>1, <1>2, <1>3, <1>4, <1>5 DEF Next, Worker

(* The key in memory is the archive's from the first start on. *)
KeyRead == restarted /\ moved # None => encryptionKey = moved["key"]

LEMMA StepRead == PosOK /\ StuckInv /\ KeyRead /\ [Next]_vars => KeyRead'
<1> SUFFICES ASSUME PosOK, StuckInv, KeyRead, [Next]_vars PROVE KeyRead'
  OBVIOUS
<1>1. CASE Start
  BY <1>1, StartStuck DEF KeyRead, Start
<1>2. ASSUME NEW w \in Workers, RestoreUp(w) PROVE KeyRead'
  BY <1>2 DEF KeyRead, RestoreUp
<1>3. ASSUME moved' = None PROVE KeyRead'
  BY <1>3 DEF KeyRead
<1>4. ASSUME encryptionKey' = encryptionKey, moved' = moved, restarted' = restarted PROVE KeyRead'
  BY <1>4 DEF KeyRead
<1>5. CASE UNCHANGED vars
  <2>1. encryptionKey' = encryptionKey /\ moved' = moved /\ restarted' = restarted
    BY <1>5 DEF vars, history
  <2> QED
    BY <1>4, <2>1
<1>6. CASE Crash
  <2>1. encryptionKey' = encryptionKey /\ moved' = moved /\ restarted' = restarted
    BY <1>6 DEF Crash
  <2> QED
    BY <1>4, <2>1
<1>7. ASSUME NEW w \in Workers, EditLoad(w) \/ RestoreBegin(w) PROVE KeyRead'
  BY <1>3, <1>7 DEF EditLoad, RestoreBegin
<1>8. ASSUME NEW w \in Workers, Request(w), ~EditLoad(w), ~RestoreUp(w) PROVE KeyRead'
  <2>1. encryptionKey' = encryptionKey /\ moved' = moved /\ restarted' = restarted
    <3>1. CASE EditTrunc(w) \/ EditWrite(w) \/ BackupBegin(w) \/ BackupFile(w) \/ BackupConf(w)
      BY <3>1 DEF history, EditTrunc, EditWrite, BackupBegin, BackupFile, BackupConf
    <3>2. CASE RestoreCreate(w) \/ RestoreWrite(w) \/ RestoreFileFails(w)
      BY <3>2 DEF history, RestoreCreate, RestoreWrite, RestoreFileFails
    <3>3. CASE RestoreDown(w) \/ RestoreConf(w) \/ RestoreGenerate(w) \/ RestoreCycle(w)
      BY <3>3 DEF history, RestoreDown, RestoreConf, RestoreGenerate, RestoreCycle
    <3> QED
      BY <1>8, <3>1, <3>2, <3>3 DEF Request
  <2> QED
    BY <1>4, <2>1
<1>9. ASSUME NEW w \in Workers, AwgRestore(w), ~RestoreBegin(w) PROVE KeyRead'
  <2>1. encryptionKey' = encryptionKey /\ moved' = moved /\ restarted' = restarted
    BY <1>9 DEF AwgRestore, history, UnpackStep, UnpackCreate, UnpackWrite, UnpackFails, RestoreCopy, RestoreEnable,
                RestoreAwgUp
  <2> QED
    BY <1>4, <2>1
<1>10. ASSUME UNCHANGED <<files, encryptionKey, archives, used, extracted, zip, todo, list, history>> PROVE KeyRead'
  <2>1. encryptionKey' = encryptionKey /\ moved' = moved /\ restarted' = restarted
    BY <1>10 DEF history
  <2> QED
    BY <1>4, <2>1
<1> QED
  BY <1>1, <1>2, <1>5, <1>6, <1>7, <1>8, <1>9, <1>10 DEF Next, Worker

(* A restore that nothing disturbs leaves the files of the archive, of     *)
(* whichever server, and wg0 made from them, whatever the process and the  *)
(* machine do up to the next edit; after the first start the key of the    *)
(* archive is the one in memory (restoreBackup, main()).                   *)
THEOREM RestoreAlwaysSticks == Spec => []RestoreSticks
<1>1. PosOK /\ StuckInv /\ KeyRead => RestoreSticks
  <2>1. ASSUME PosOK, StuckInv, moved # None, proc = "up"
        PROVE  disk = moved /\ conf = Rendered(moved) /\ wg0 = conf
    BY <2>1 DEF StuckInv, Installed
  <2> QED
    BY <2>1 DEF KeyRead, RestoreSticks
<1>2. Init => KeyRead
  BY DEF Init, KeyRead
<1> QED
  BY <1>1, <1>2, InitPos, InitStuck, StepPos, StepStuck, StepRead, PTL DEF Spec

-----------------------------------------------------------------------------
(* The types.  A list of peers is sealed again only if its last key is not *)
(* the one in memory, and that one changes only at a start, of which each  *)
(* had its crash: so a list is sealed at most once more often than there   *)
(* were faults, and twice more only with the key in memory.                *)
PlainOK(l) ==
  /\ l \in [of : Sites, rev : Nat, sealed : Seq(Keys)]
  /\ l.rev <= reqs /\ Len(l.sealed) <= 1 + faults

PeersOK(l) ==
  /\ l \in [of : Sites, rev : Nat, sealed : Seq(Keys)]
  /\ l.rev <= reqs /\ Len(l.sealed) >= 1
  /\ \/ Len(l.sealed) <= 1 + faults
     \/ proc = "up" /\ Len(l.sealed) <= 2 + faults /\ l.sealed[Len(l.sealed)] = encryptionKey

FileOK(n, v) ==
  \/ v = Torn
  \/ n = "config" /\ v \in Sites \cup {Default}
  \/ n = "peers" /\ PeersOK(v)
  \/ n \in {"srvkey", "key"} /\ v \in Keys

FilesOK(f) == f = [n \in FileNames |-> f[n]] /\ \A n \in FileNames : FileOK(n, f[n])

AwgConfOK(c) == c \in [key : AwgKeys, rev : Nat] /\ c.rev <= reqs
AwgFileOK(c) == c \in {Torn, NoFile} \/ AwgConfOK(c)

ArchiveOK(z) ==
  /\ z = [files |-> z.files, conf |-> z.conf, awg |-> z.awg]
  /\ FilesOK(z.files) /\ z.conf.srvkey \in Keys \cup {Torn} /\ AwgFileOK(z.awg)

Bounds == reqs \in 0 .. MaxRequests /\ faults \in 0 .. MaxFaults

FileTypes ==
  /\ encryptionKey \in Keys /\ used \subseteq Keys
  /\ FilesOK(disk)
  /\ conf.srvkey \in Keys \cup {Torn} /\ (wg0 = Down \/ wg0.srvkey \in Keys \cup {Torn})
  /\ \A z \in archives : ArchiveOK(z)
  /\ zip = [w \in Workers |-> zip[w]] /\ \A w \in Workers : ArchiveOK(zip[w])
  /\ list = [w \in Workers |-> list[w]]
  /\ \A w \in Workers : IF pc[w] \in {"edit", "save"} THEN PlainOK(list[w]) ELSE list[w] = Torn

InterfaceTypes ==
  /\ AwgFileOK(awgConf) /\ AwgFileOK(extracted) /\ AwgFileOK(kept)
  /\ awg \in {Down, Torn} \/ AwgConfOK(awg)
  /\ enabled \in BOOLEAN

AwgTypes ==
  /\ InterfaceTypes
  /\ form = [w \in Workers |-> form[w]]
  /\ \A w \in Workers : AwgConfOK(form[w])
  /\ \A w \in Workers : pc[w] \notin AwgLabels => form[w] = NoForm

(* What no step undoes: the key in memory changes only between two runs of *)
(* the process.                                                            *)
Grows ==
  /\ Bounds /\ Bounds' /\ reqs <= reqs' /\ faults <= faults'
  /\ faults < faults' \/ proc = "down" \/ (proc' = proc /\ encryptionKey' = encryptionKey)

LEMMA PlainGrows ==
  ASSUME Grows, NEW l, PlainOK(l)
  PROVE  PlainOK(l)'
BY BackupAssumption DEF BackupAssumption, Grows, Bounds, PlainOK

LEMMA PeersGrows ==
  ASSUME Grows, NEW l, PeersOK(l)
  PROVE  PeersOK(l)'
<1>1. Len(l.sealed) \in Nat /\ l.rev \in Nat /\ reqs \in Nat /\ reqs' \in Nat /\ faults \in Nat /\ faults' \in Nat
  BY LenProperties, BackupAssumption DEF BackupAssumption, Grows, Bounds, PeersOK
<1> QED
  BY <1>1 DEF Grows, PeersOK

LEMMA FilesGrow ==
  ASSUME Grows, NEW f, FilesOK(f)
  PROVE  FilesOK(f)'
BY PeersGrows DEF FilesOK, FileOK

LEMMA AwgGrows ==
  ASSUME Grows, NEW c
  PROVE  (AwgConfOK(c) => AwgConfOK(c)') /\ (AwgFileOK(c) => AwgFileOK(c)')
BY BackupAssumption DEF BackupAssumption, Grows, Bounds, AwgConfOK, AwgFileOK

LEMMA ArchiveGrows ==
  ASSUME Grows, NEW z, ArchiveOK(z)
  PROVE  ArchiveOK(z)'
BY FilesGrow, AwgGrows DEF ArchiveOK

LEMMA RequestGrows ==
  ASSUME PosOK, Bounds, NEW w \in Workers, Request(w)
  PROVE  Grows
<1> USE BackupAssumption DEF BackupAssumption, Bounds, Grows, Begin
<1>1. CASE EditLoad(w) \/ EditTrunc(w) \/ EditWrite(w)
  BY <1>1 DEF EditLoad, EditTrunc, EditWrite
<1>2. CASE BackupBegin(w) \/ BackupFile(w) \/ BackupConf(w)
  BY <1>2 DEF BackupBegin, BackupFile, BackupConf
<1>3. CASE RestoreCreate(w) \/ RestoreWrite(w) \/ RestoreFileFails(w)
  BY <1>3 DEF RestoreCreate, RestoreWrite, RestoreFileFails
<1>4. CASE RestoreDown(w) \/ RestoreConf(w) \/ RestoreGenerate(w)
  BY <1>4 DEF RestoreDown, RestoreConf, RestoreGenerate
<1>5. CASE RestoreCycle(w) \/ RestoreUp(w)
  BY <1>5 DEF RestoreCycle, RestoreUp
<1> QED
  BY <1>1, <1>2, <1>3, <1>4, <1>5 DEF Request

LEMMA BeginBounds ==
  ASSUME Bounds, NEW w, NEW label, Begin(w, label), faults' = faults
  PROVE  Bounds' /\ reqs <= reqs' /\ faults <= faults'
BY BackupAssumption DEF BackupAssumption, Bounds, Begin

LEMMA StillBounds ==
  Bounds /\ UNCHANGED <<reqs, faults>> => Bounds' /\ reqs <= reqs' /\ faults <= faults'
BY BackupAssumption DEF BackupAssumption, Bounds

LEMMA AwgBounds ==
  ASSUME Bounds, NEW w \in Workers, AwgRequest(w)
  PROVE  Bounds' /\ reqs <= reqs' /\ faults <= faults'
<1>1. CASE ImportBegin(w) \/ SaveBegin(w)
  BY <1>1, BeginBounds DEF ImportBegin, SaveBegin
<1>2. CASE ImportTrunc(w) \/ ImportWrite(w) \/ ImportUp(w) \/ ImportUpFails(w)
  BY <1>2, StillBounds DEF ImportTrunc, ImportWrite, ImportUp, ImportUpFails, AwgStep
<1>3. CASE SaveDown(w) \/ SaveDisable(w) \/ SaveKey(w) \/ SaveTrunc(w) \/ SaveWrite(w)
  BY <1>3, StillBounds DEF SaveDown, SaveDisable, SaveKey, SaveTrunc, SaveWrite, AwgStep
<1>4. CASE AwgWriteFails(w)
  BY <1>4, BackupAssumption DEF BackupAssumption, Bounds, AwgWriteFails
<1>5. CASE AwgUp(w) \/ AwgUpFails(w) \/ AwgEnable(w)
  BY <1>5, StillBounds DEF AwgUp, AwgUpFails, AwgEnable, AwgStep
<1>6. CASE ManageUp(w) \/ ManageDown(w) \/ ManageDelete(w)
  BY <1>6, BeginBounds DEF ManageUp, ManageDown, ManageDelete, Manage
<1>7. CASE AwgDown(w) \/ DeleteDisable(w) \/ DeleteDown(w) \/ DeleteFile(w)
  BY <1>7, StillBounds DEF AwgDown, DeleteDisable, DeleteDown, DeleteFile, AwgStep
<1> QED
  BY <1>1, <1>2, <1>3, <1>4, <1>5, <1>6, <1>7 DEF AwgRequest

LEMMA StepGrows == ASSUME PosOK, Bounds, Next PROVE Grows
<1> USE BackupAssumption DEF BackupAssumption
<1>1. ASSUME NEW w \in Workers, Worker(w) PROVE Grows
  <2>1. CASE Request(w)
    BY <2>1, RequestGrows
  <2>2. CASE AwgRestore(w)
    BY <2>2 DEF AwgRestore, RestoreBegin, Begin, UnpackCreate, UnpackWrite, UnpackFails, RestoreCopy,
                RestoreEnable, RestoreAwgUp, UnpackStep, Bounds, Grows
  <2>3. CASE AwgRequest(w) /\ encryptionKey' = encryptionKey
    BY <2>3, AwgBounds, AwgMoves DEF Grows
  <2> QED
    BY <1>1, <2>1, <2>2, <2>3 DEF Worker
<1>2. CASE Crash
  BY <1>2 DEF Crash, Bounds, Grows
<1>3. CASE Start
  BY <1>3 DEF Start, Bounds, Grows
<1> QED
  BY <1>1, <1>2, <1>3 DEF Next

-----------------------------------------------------------------------------
LEMMA FileUpdate ==
  ASSUME NEW f, FilesOK(f), NEW n \in FileNames, NEW v, FileOK(n, v)
  PROVE  FilesOK([f EXCEPT ![n] = v])
BY DEF FilesOK, FileNames

LEMMA EmptyFilesOK == FilesOK(NoFiles) /\ ArchiveOK(NoArchive)
BY DEF NoArchive, NoFiles, Rendered, FilesOK, FileOK, ArchiveOK, AwgFileOK, FileNames

LEMMA SiteOK ==
  ASSUME NEW s \in Sites, Bounds
  PROVE  FilesOK(SiteFiles(s)) /\ Rendered(SiteFiles(s)).srvkey \in Keys
<1>1. Secret[s].key \in Keys /\ Secret[s].srvkey \in Keys
  BY BackupAssumption DEF BackupAssumption
<1>2. <<Secret[s].key>> \in Seq(Keys) /\ Len(<<Secret[s].key>>) = 1
  BY <1>1
<1>3. reqs \in Nat /\ faults \in Nat
  BY BackupAssumption DEF BackupAssumption, Bounds
<1>4. Peers(s, 0, <<Secret[s].key>>) \in [of : Sites, rev : Nat, sealed : Seq(Keys)]
  BY <1>2 DEF Peers
<1>5. PeersOK(Peers(s, 0, <<Secret[s].key>>))
  <2> DEFINE l == Peers(s, 0, <<Secret[s].key>>)
  <2>1. l.rev = 0 /\ Len(l.sealed) = 1
    BY <1>2 DEF Peers
  <2>2. l \in [of : Sites, rev : Nat, sealed : Seq(Keys)]
    BY <1>4
  <2> HIDE DEF l
  <2>3. l.rev <= reqs /\ Len(l.sealed) >= 1 /\ Len(l.sealed) <= 1 + faults
    BY <1>3, <2>1
  <2>4. PeersOK(l)
    BY <2>2, <2>3 DEF PeersOK
  <2> QED
    BY <2>4 DEF l
<1> HIDE DEF Peers
<1> QED
  BY <1>1, <1>5 DEF SiteFiles, FilesOK, FileOK, FileNames, Rendered

LEMMA InitTypes == Init => Bounds /\ FileTypes /\ AwgTypes
<1> SUFFICES ASSUME Init PROVE Bounds /\ FileTypes /\ AwgTypes
  OBVIOUS
<1>1. Bounds
  BY BackupAssumption DEF BackupAssumption, Init, Bounds
<1>2. \A n \in Nat, k \in {"own", "imported", "foreign", Placeholder} :
        n <= reqs => AwgConfOK(AwgConf(k, n))
  BY DEF AwgConfOK, AwgConf, AwgKeys
<1>3. 0 \in Nat /\ 0 <= reqs
  BY <1>1, BackupAssumption DEF BackupAssumption, Bounds
<1>4. ArchiveOK(ForeignArchive)
  BY <1>1, <1>2, <1>3, SiteOK DEF Sites, ForeignArchive, ArchiveOK, AwgFileOK
<1>5. FileTypes
  <2>1. FilesOK(disk) /\ conf.srvkey \in Keys /\ wg0 = conf
    BY <1>1, SiteOK DEF Init, Sites
  <2>2. encryptionKey \in Keys /\ used \subseteq Keys
    BY BackupAssumption DEF BackupAssumption, Init, Sites
  <2>3. \A w \in Workers : pc[w] = "idle" /\ zip[w] = NoArchive /\ list[w] = Torn
    BY DEF Init
  <2>4. zip = [w \in Workers |-> zip[w]] /\ list = [w \in Workers |-> list[w]]
    BY DEF Init
  <2>5. \A z \in archives : z = ForeignArchive
    BY DEF Init
  <2> QED
    BY <1>4, <2>1, <2>2, <2>3, <2>4, <2>5, EmptyFilesOK DEF FileTypes
<1>6. AwgTypes
  BY <1>2, <1>3 DEF Init, InitAwg, AwgTypes, InterfaceTypes, AwgFileOK, NoForm
<1> QED
  BY <1>1, <1>5, <1>6

(* One request moves on. *)
LEMMA TypesMove ==
  ASSUME PosOK, FileTypes, Grows, NEW w \in Workers, NEW p, pc' = [pc EXCEPT ![w] = p],
         encryptionKey' \in Keys, used' \subseteq Keys,
         FilesOK(disk)', conf'.srvkey \in Keys \cup {Torn}, wg0' = Down \/ wg0'.srvkey \in Keys \cup {Torn},
         \A z \in archives' : z \in archives \/ ArchiveOK(z),
         NEW z0, zip' = [zip EXCEPT ![w] = z0], ArchiveOK(z0),
         NEW l0, list' = [list EXCEPT ![w] = l0],
         IF p \in {"edit", "save"} THEN PlainOK(l0) \/ PlainOK(l0)' ELSE l0 = Torn
  PROVE  FileTypes'
<1>1. pc'[w] = p /\ zip'[w] = z0 /\ list'[w] = l0
  BY DEF PosOK, FileTypes
<1>2. \A v \in Workers \ {w} : pc'[v] = pc[v] /\ zip'[v] = zip[v] /\ list'[v] = list[v]
  BY DEF PosOK, FileTypes
<1>3. \A z : ArchiveOK(z) => ArchiveOK(z)'
  BY ArchiveGrows
<1>4. \A z \in archives' : ArchiveOK(z)'
  BY <1>3 DEF FileTypes
<1>5. \A v \in Workers : ArchiveOK(zip[v])'
  BY <1>1, <1>2, <1>3 DEF FileTypes
<1>6. \A v \in Workers : IF pc'[v] \in {"edit", "save"} THEN PlainOK(list[v])' ELSE list'[v] = Torn
  BY <1>1, <1>2, PlainGrows DEF FileTypes
<1>7. zip' = [v \in Workers |-> zip'[v]] /\ list' = [v \in Workers |-> list'[v]]
  BY DEF FileTypes
<1> QED
  BY <1>4, <1>5, <1>6, <1>7 DEF FileTypes

(* A list is opened to what was there before its last key, if that is the  *)
(* key in memory; if not, it was not sealed that often.                    *)
LEMMA Decrypted ==
  ASSUME Bounds, NEW l, PeersOK(l)
  PROVE  DecryptPassword(l.sealed) \in Seq(Keys) /\ Len(DecryptPassword(l.sealed)) <= 1 + faults
<1> DEFINE s == l.sealed
<1>1. s \in Seq(Keys) /\ Len(s) \in Nat /\ Len(s) >= 1 /\ faults \in Nat
  BY LenProperties, BackupAssumption DEF BackupAssumption, Bounds, PeersOK
<1>2. Len(s) <= 1 + faults \/ (Len(s) <= 2 + faults /\ s[Len(s)] = encryptionKey)
  BY DEF PeersOK
<1> HIDE DEF s
<1>3. CASE s # <<>> /\ s[Len(s)] = encryptionKey
  <2>1. \A i \in 1 .. Len(s) - 1 : s[i] \in Keys
    BY <1>1
  <2>2. SubSeq(s, 1, Len(s) - 1) \in Seq(Keys)
        /\ Len(SubSeq(s, 1, Len(s) - 1)) = IF 1 <= Len(s) - 1 THEN (Len(s) - 1) - 1 + 1 ELSE 0
    BY <1>1, <2>1, SubSeqProperties
  <2>3. DecryptPassword(s) = SubSeq(s, 1, Len(s) - 1)
    BY <1>3 DEF DecryptPassword
  <2>4. Len(SubSeq(s, 1, Len(s) - 1)) <= 1 + faults
    BY <1>1, <1>2, <2>2
  <2>5. DecryptPassword(s) \in Seq(Keys) /\ Len(DecryptPassword(s)) <= 1 + faults
    BY <2>2, <2>3, <2>4
  <2> QED
    BY <2>5 DEF s
<1>4. CASE s = <<>> \/ s[Len(s)] # encryptionKey
  <2>1. s # <<>>
    BY <1>1
  <2>2. DecryptPassword(s) = s /\ Len(s) <= 1 + faults
    BY <1>2, <1>4, <2>1 DEF DecryptPassword
  <2> QED
    BY <1>1, <2>2 DEF s
<1> QED
  BY <1>3, <1>4

LEMMA Encrypted ==
  ASSUME Bounds, proc = "up", encryptionKey \in Keys, NEW l, PlainOK(l)
  PROVE  PeersOK([l EXCEPT !.sealed = EncryptPassword(@)])
<1> DEFINE s == l.sealed
           e == [l EXCEPT !.sealed = EncryptPassword(@)]
<1>1. s \in Seq(Keys) /\ Len(s) \in Nat /\ Len(s) <= 1 + faults /\ faults \in Nat
  BY LenProperties, BackupAssumption DEF BackupAssumption, Bounds, PlainOK
<1>2. EncryptPassword(s) = Append(s, encryptionKey)
  BY DEF EncryptPassword
<1>3. /\ Append(s, encryptionKey) \in Seq(Keys)
      /\ Len(Append(s, encryptionKey)) = Len(s) + 1
      /\ Append(s, encryptionKey)[Len(s) + 1] = encryptionKey
  <2> HIDE DEF s
  <2> QED
    BY <1>1
<1>4. /\ e \in [of : Sites, rev : Nat, sealed : Seq(Keys)]
      /\ e.sealed = Append(s, encryptionKey) /\ e.rev = l.rev /\ l.rev <= reqs
  BY <1>2, <1>3 DEF PlainOK
<1> HIDE DEF s, e
<1>5. Len(e.sealed) >= 1 /\ Len(e.sealed) <= 2 + faults /\ e.sealed[Len(e.sealed)] = encryptionKey
  BY <1>1, <1>3, <1>4
<1>6. PeersOK(e)
  BY <1>4, <1>5 DEF PeersOK
<1> QED
  BY <1>6 DEF e

LEMMA EditTypes ==
  ASSUME PosOK, Bounds, FileTypes, NEW w \in Workers, EditLoad(w) \/ EditTrunc(w) \/ EditWrite(w)
  PROVE  FileTypes'
<1> USE DEF At, Goto, Begin
<1>g. Grows
  BY RequestGrows DEF Request
<1>f. FilesOK(disk) /\ encryptionKey \in Keys /\ used \subseteq Keys /\ ArchiveOK(zip[w])
  BY DEF FileTypes
<1>c. conf.srvkey \in Keys \cup {Torn} /\ (wg0 = Down \/ wg0.srvkey \in Keys \cup {Torn})
  BY DEF FileTypes
<1>z. zip = [zip EXCEPT ![w] = zip[w]] /\ list = [list EXCEPT ![w] = list[w]]
  BY DEF FileTypes
<1>1. CASE EditLoad(w)
  <2> DEFINE l == disk.peers
  <2>1. PeersOK(l)
    BY <1>1, <1>f DEF EditLoad, FilesOK, FileOK, FileNames
  <2>2. PICK keys \in {<<>>, DecryptPassword(l.sealed)} : list' = [list EXCEPT ![w] = Peers(l.of, l.rev + 1, keys)]
    BY <1>1 DEF EditLoad
  <2>3. PICK l0 : l0 = Peers(l.of, l.rev + 1, keys)
    OBVIOUS
  <2>4. l.of \in Sites /\ l.rev \in Nat /\ l.rev <= reqs /\ reqs \in Nat /\ faults \in Nat
    BY <2>1, BackupAssumption DEF BackupAssumption, Bounds, PeersOK
  <2>5. reqs' = reqs + 1 /\ faults' = faults
    BY <1>1 DEF EditLoad
  <2> HIDE DEF l
  <2>6. keys = <<>> \/ keys = DecryptPassword(l.sealed)
    BY <2>2
  <2>7. keys \in Seq(Keys) /\ Len(keys) <= 1 + faults
    <3>1. <<>> \in Seq(Keys) /\ Len(<<>>) <= 1 + faults
      BY <2>4
    <3> QED
      BY <2>1, <2>6, <3>1, Decrypted
  <2>8. l0 \in [of : Sites, rev : Nat, sealed : Seq(Keys)] /\ l0.rev = l.rev + 1 /\ l0.sealed = keys
    BY <2>3, <2>4, <2>7 DEF Peers
  <2>9. PlainOK(l0)'
    BY <2>4, <2>5, <2>7, <2>8 DEF PlainOK
  <2>10. list' = [list EXCEPT ![w] = l0]
    BY <2>2, <2>3
  <2>11. UNCHANGED <<disk, conf, wg0, encryptionKey, archives, used, zip>> /\ pc' = [pc EXCEPT ![w] = "edit"]
    BY <1>1 DEF EditLoad, files
  <2>12. FilesOK(disk)'
    BY <1>f, <1>g, <2>11, FilesGrow
  <2> QED
    BY <1>f, <1>g, <1>c, <1>z, <2>9, <2>10, <2>11, <2>12, TypesMove
<1>2. CASE EditTrunc(w)
  <2>1. /\ UNCHANGED <<conf, wg0, encryptionKey, archives, used, zip, list>> /\ pc' = [pc EXCEPT ![w] = "save"]
        /\ disk' = [disk EXCEPT !.peers = Torn] /\ pc[w] = "edit"
    BY <1>2 DEF EditTrunc
  <2>2. FilesOK([disk EXCEPT !.peers = Torn])
    BY <1>f, FileUpdate DEF FileOK, FileNames
  <2>3. FilesOK(disk)'
    BY <1>g, <2>1, <2>2, FilesGrow
  <2>4. PlainOK(list[w])
    BY <2>1 DEF FileTypes
  <2> QED
    BY <1>f, <1>g, <1>c, <1>z, <2>1, <2>3, <2>4, TypesMove
<1>3. CASE EditWrite(w)
  <2> DEFINE e == [list[w] EXCEPT !.sealed = EncryptPassword(@)]
  <2>1. /\ UNCHANGED <<conf, wg0, encryptionKey, archives, used>> /\ pc' = [pc EXCEPT ![w] = "idle"]
        /\ zip' = [zip EXCEPT ![w] = NoArchive] /\ list' = [list EXCEPT ![w] = Torn]
        /\ disk' = [disk EXCEPT !.peers = e] /\ pc[w] = "save" /\ proc = "up"
    BY <1>3 DEF EditWrite, Reset
  <2>2. PlainOK(list[w])
    BY <2>1 DEF FileTypes
  <2>3. PeersOK(e)
    BY <1>f, <2>1, <2>2, Encrypted
  <2> HIDE DEF e
  <2>4. FilesOK([disk EXCEPT !.peers = e])
    BY <1>f, <2>3, FileUpdate DEF FileOK, FileNames
  <2>5. FilesOK(disk)' /\ ArchiveOK(NoArchive)
    BY <1>g, <2>1, <2>4, FilesGrow, EmptyFilesOK
  <2>6. "idle" \notin {"edit", "save"} /\ pc' = [pc EXCEPT ![w] = "idle"] /\ zip' = [zip EXCEPT ![w] = NoArchive]
    BY <2>1
  <2>7. \A z \in archives' : z \in archives
    BY <2>1
  <2>8. encryptionKey' \in Keys /\ used' \subseteq Keys /\ conf'.srvkey \in Keys \cup {Torn}
        /\ (wg0' = Down \/ wg0'.srvkey \in Keys \cup {Torn})
    BY <1>f, <1>c, <2>1
  <2>9. list' = [list EXCEPT ![w] = Torn]
    BY <2>1
  <2> HIDE <2>1
  <2> QED
    BY <1>g, <2>5, <2>6, <2>7, <2>8, <2>9, TypesMove
<1> QED
  BY <1>1, <1>2, <1>3

(* A request that is not about to save a list moves on. *)
LEMMA FilesMove ==
  ASSUME PosOK, FileTypes, Grows, NEW w \in Workers, pc[w] \notin {"edit", "save"},
         NEW p, pc' = [pc EXCEPT ![w] = p], p \notin {"edit", "save"},
         encryptionKey' = encryptionKey, used' \subseteq Keys, FilesOK(disk)',
         conf'.srvkey \in Keys \cup {Torn}, wg0' = Down \/ wg0'.srvkey \in Keys \cup {Torn},
         \A z \in archives' : z \in archives \/ ArchiveOK(z),
         zip' = zip \/ \E z0 : ArchiveOK(z0) /\ zip' = [zip EXCEPT ![w] = z0],
         list' = list \/ list' = [list EXCEPT ![w] = Torn]
  PROVE  FileTypes'
<1>1. PICK z0 : ArchiveOK(z0) /\ zip' = [zip EXCEPT ![w] = z0]
  <2>1. CASE zip' = zip
    <3>1. ArchiveOK(zip[w]) /\ zip = [zip EXCEPT ![w] = zip[w]]
      BY DEF FileTypes
    <3> QED
      BY <2>1, <3>1
  <2> QED
    BY <2>1
<1>2. list' = [list EXCEPT ![w] = Torn]
  <2>1. list[w] = Torn /\ list = [list EXCEPT ![w] = list[w]]
    BY DEF FileTypes
  <2> QED
    BY <2>1
<1>3. encryptionKey' \in Keys
  BY DEF FileTypes
<1> QED
  BY <1>1, <1>2, <1>3, TypesMove

(* What the state holds before a step is still of the right kind after it. *)
LEMMA FilesStay ==
  ASSUME Grows, FileTypes
  PROVE  /\ FilesOK(disk) /\ (disk' = disk => FilesOK(disk)')
         /\ conf.srvkey \in Keys \cup {Torn} /\ (wg0 = Down \/ wg0.srvkey \in Keys \cup {Torn})
         /\ used \subseteq Keys /\ \A w \in Workers : ArchiveOK(zip[w])
BY FilesGrow DEF FileTypes

LEMMA BackupTypes ==
  ASSUME PosOK, Bounds, FileTypes, AwgTypes, NEW w \in Workers,
         BackupBegin(w) \/ BackupFile(w) \/ BackupConf(w)
  PROVE  FileTypes'
<1> USE DEF At, Goto, Begin
<1>g. Grows
  BY RequestGrows DEF Request
<1>f. /\ FilesOK(disk) /\ (disk' = disk => FilesOK(disk)')
      /\ conf.srvkey \in Keys \cup {Torn} /\ (wg0 = Down \/ wg0.srvkey \in Keys \cup {Torn})
      /\ used \subseteq Keys /\ ArchiveOK(zip[w])
  BY <1>g, FilesStay
<1>1. CASE BackupBegin(w)
  <2>1. /\ UNCHANGED <<disk, conf, wg0, encryptionKey, archives, used, zip, list>>
        /\ pc[w] = "idle" /\ pc' = [pc EXCEPT ![w] = "zip"]
    BY <1>1 DEF BackupBegin, files
  <2> QED
    BY <1>f, <1>g, <2>1, FilesMove
<1>2. CASE BackupFile(w)
  <2>1. PICK f \in FileNames : zip' = [zip EXCEPT ![w].files[f] = disk[f]]
    BY <1>2, FilesInOrder DEF BackupFile, PosOK
  <2>2. PICK p : pc' = [pc EXCEPT ![w] = p] /\ p \in {"zip", "zipconf"}
    BY <1>2 DEF BackupFile, NextFile
  <2>3. UNCHANGED <<disk, conf, wg0, encryptionKey, archives, used, list>> /\ pc[w] = "zip"
    BY <1>2 DEF BackupFile, files
  <2>4. FilesOK([zip[w].files EXCEPT ![f] = disk[f]])
    <3>1. FilesOK(zip[w].files) /\ FileOK(f, disk[f])
      BY <1>f DEF ArchiveOK, FilesOK
    <3> QED
      BY <3>1, FileUpdate
  <2>5. PICK z0 : z0 = [zip[w] EXCEPT !.files[f] = disk[f]]
    OBVIOUS
  <2>6. zip' = [zip EXCEPT ![w] = z0]
    BY <2>1, <2>5
  <2>7. ArchiveOK(z0)
    <3>1. zip[w] = [files |-> zip[w].files, conf |-> zip[w].conf, awg |-> zip[w].awg]
      BY <1>f DEF ArchiveOK
    <3>2. z0 = [files |-> [zip[w].files EXCEPT ![f] = disk[f]], conf |-> zip[w].conf, awg |-> zip[w].awg]
      BY <2>5, <3>1
    <3> QED
      BY <1>f, <2>4, <3>2 DEF ArchiveOK
  <2>8. p \notin {"edit", "save"}
    BY <2>2
  <2> QED
    BY <1>f, <1>g, <2>2, <2>3, <2>6, <2>7, <2>8, FilesMove
<1>3. CASE BackupConf(w)
  <2>1. PICK z0 : z0 = [zip[w] EXCEPT !.conf = conf, !.awg = awgConf]
    OBVIOUS
  <2>2. archives' = archives \cup {z0}
    BY <1>3, <2>1 DEF BackupConf
  <2>3. ArchiveOK(z0)
    <3>1. zip[w] = [files |-> zip[w].files, conf |-> zip[w].conf, awg |-> zip[w].awg]
      BY <1>f DEF ArchiveOK
    <3>2. z0 = [files |-> zip[w].files, conf |-> conf, awg |-> awgConf]
      BY <2>1, <3>1
    <3>3. AwgFileOK(awgConf)
      BY DEF AwgTypes, InterfaceTypes
    <3> QED
      BY <1>f, <3>2, <3>3 DEF ArchiveOK
  <2>4. /\ UNCHANGED <<disk, conf, wg0, encryptionKey, used>>
        /\ pc[w] = "zipconf" /\ pc' = [pc EXCEPT ![w] = "idle"]
        /\ zip' = [zip EXCEPT ![w] = NoArchive] /\ list' = [list EXCEPT ![w] = Torn]
    BY <1>3 DEF BackupConf, Reset, files
  <2>5. \A z \in archives' : z \in archives \/ ArchiveOK(z)
    BY <2>2, <2>3
  <2> QED
    BY <1>f, <1>g, <2>4, <2>5, EmptyFilesOK, FilesMove
<1> QED
  BY <1>1, <1>2, <1>3

LEMMA RestoreFileTypes ==
  ASSUME PosOK, Bounds, FileTypes, NEW w \in Workers,
         RestoreCreate(w) \/ RestoreWrite(w) \/ RestoreFileFails(w)
  PROVE  FileTypes'
<1> USE DEF At, Goto
<1>g. Grows
  BY RequestGrows DEF Request
<1>f. /\ FilesOK(disk) /\ (disk' = disk => FilesOK(disk)')
      /\ conf.srvkey \in Keys \cup {Torn} /\ (wg0 = Down \/ wg0.srvkey \in Keys \cup {Torn})
      /\ used \subseteq Keys /\ ArchiveOK(zip[w])
  BY <1>g, FilesStay
<1>p. /\ UNCHANGED <<conf, wg0, encryptionKey, archives, used, zip, list>>
      /\ pc[w] \notin {"edit", "save"} /\ Files[todo[w]] \in FileNames
  BY FilesInOrder DEF RestoreCreate, RestoreWrite, RestoreFileFails, files, PosOK
<1>1. PICK p : pc' = [pc EXCEPT ![w] = p] /\ p \in {"create", "write", "down", "unpack"}
  BY DEF RestoreCreate, RestoreWrite, RestoreFileFails, NextFile, Unpack
<1>2. FilesOK(disk)'
  <2>1. CASE RestoreCreate(w)
    <3>1. FilesOK([disk EXCEPT ![Files[todo[w]]] = Torn])
      BY <1>f, <1>p, FileUpdate DEF FileOK
    <3> QED
      BY <1>g, <2>1, <3>1, FilesGrow DEF RestoreCreate
  <2>2. CASE RestoreWrite(w)
    <3>1. FileOK(Files[todo[w]], zip[w].files[Files[todo[w]]])
      BY <1>f, <1>p DEF ArchiveOK, FilesOK
    <3>2. FilesOK([disk EXCEPT ![Files[todo[w]]] = zip[w].files[Files[todo[w]]]])
      BY <1>f, <1>p, <3>1, FileUpdate
    <3> QED
      BY <1>g, <2>2, <3>2, FilesGrow DEF RestoreWrite
  <2>3. CASE RestoreFileFails(w)
    BY <1>f, <2>3 DEF RestoreFileFails, files
  <2> QED
    BY <2>1, <2>2, <2>3
<1>3. p \notin {"edit", "save"}
  BY <1>1
<1> QED
  BY <1>f, <1>g, <1>p, <1>1, <1>2, <1>3, FilesMove

(* A server key that is made or kept. *)
LEMMA KeyMade ==
  ASSUME NEW f, FilesOK(f), NEW S, NEW k \in (IF f.srvkey = Torn THEN Keys \ S ELSE {f.srvkey})
  PROVE  k \in Keys /\ FilesOK([f EXCEPT !.srvkey = k])
<1>1. f["srvkey"] = Torn \/ f["srvkey"] \in Keys
  BY DEF FilesOK, FileOK, FileNames
<1>2. k \in Keys
  BY <1>1
<1> QED
  BY <1>2, FileUpdate DEF FileOK, FileNames

LEMMA GenerateTypes ==
  ASSUME Grows, NEW f, FilesOK(f), GenerateWgConfig(f), used \subseteq Keys
  PROVE  FilesOK(disk)' /\ conf'.srvkey \in Keys /\ used' \subseteq Keys
<1>1. PICK k \in (IF f.srvkey = Torn THEN Keys \ used ELSE {f.srvkey}) :
        disk' = [f EXCEPT !.srvkey = k] /\ conf' = Rendered(disk') /\ used' = used \cup {k}
  BY DEF GenerateWgConfig
<1>2. k \in Keys /\ FilesOK([f EXCEPT !.srvkey = k])
  BY <1>1, KeyMade
<1>3. FilesOK(disk)'
  BY <1>1, <1>2, FilesGrow
<1>4. conf'.srvkey = disk'.srvkey /\ disk'.srvkey = k
  BY <1>1 DEF Rendered, FilesOK, FileNames
<1> QED
  BY <1>1, <1>2, <1>3, <1>4

LEMMA RestoreTypes ==
  ASSUME PosOK, Bounds, FileTypes, NEW w \in Workers,
         RestoreDown(w) \/ RestoreConf(w) \/ RestoreGenerate(w) \/ RestoreCycle(w) \/ RestoreUp(w)
  PROVE  FileTypes'
<1> USE DEF At, Goto
<1>g. Grows
  BY RequestGrows DEF Request
<1>f. /\ FilesOK(disk) /\ (disk' = disk => FilesOK(disk)')
      /\ conf.srvkey \in Keys \cup {Torn} /\ (wg0 = Down \/ wg0.srvkey \in Keys \cup {Torn})
      /\ used \subseteq Keys /\ ArchiveOK(zip[w])
  BY <1>g, FilesStay
<1>1. /\ UNCHANGED <<encryptionKey, archives>> /\ pc[w] \notin {"edit", "save"}
      /\ zip' = zip \/ zip' = [zip EXCEPT ![w] = NoArchive]
      /\ list' = list \/ list' = [list EXCEPT ![w] = Torn]
  BY DEF RestoreDown, RestoreConf, RestoreGenerate, RestoreCycle, RestoreUp, Reset
<1>2. zip' = zip \/ \E z0 : ArchiveOK(z0) /\ zip' = [zip EXCEPT ![w] = z0]
  BY <1>1, EmptyFilesOK
<1>3. PICK p : pc' = [pc EXCEPT ![w] = p] /\ p \in {"conf", "generate", "restorecopy", "cycle", "quickup", "idle", "restoreenable"}
  BY DEF RestoreDown, RestoreConf, RestoreGenerate, RestoreCycle, RestoreUp, Reset
<1>4. p \notin {"edit", "save"}
  BY <1>3
<1>5. /\ used' \subseteq Keys /\ FilesOK(disk)' /\ conf'.srvkey \in Keys \cup {Torn}
      /\ wg0' = Down \/ wg0'.srvkey \in Keys \cup {Torn}
  <2>1. CASE RestoreDown(w) \/ RestoreCycle(w)
    BY <1>f, <2>1 DEF RestoreDown, RestoreCycle
  <2>2. CASE RestoreConf(w)
    BY <1>f, <2>2 DEF RestoreConf, ArchiveOK
  <2>3. CASE RestoreGenerate(w)
    <3>1. CASE disk.config = Torn
      BY <1>f, <2>3, <3>1 DEF RestoreGenerate
    <3>2. CASE disk.config # Torn
      BY <1>f, <1>g, <2>3, <3>2, GenerateTypes DEF RestoreGenerate
    <3> QED
      BY <3>1, <3>2
  <2>4. CASE RestoreUp(w)
    BY <1>f, <2>4 DEF RestoreUp
  <2> QED
    BY <2>1, <2>2, <2>3, <2>4
<1> QED
  BY <1>g, <1>1, <1>2, <1>3, <1>4, <1>5, FilesMove

LEMMA AwgRestoreTypes ==
  ASSUME PosOK, Bounds, FileTypes, NEW w \in Workers, AwgRestore(w), Grows
  PROVE  FileTypes'
<1> USE DEF At, Goto
<1>f. /\ FilesOK(disk) /\ (disk' = disk => FilesOK(disk)')
      /\ conf.srvkey \in Keys \cup {Torn} /\ (wg0 = Down \/ wg0.srvkey \in Keys \cup {Torn})
      /\ used \subseteq Keys /\ ArchiveOK(zip[w])
  BY FilesStay
<1>1. CASE RestoreBegin(w)
  <2>1. /\ UNCHANGED <<disk, conf, wg0, encryptionKey, archives, used, list>>
        /\ pc[w] = "idle" /\ pc' = [pc EXCEPT ![w] = "create"]
    BY <1>1 DEF RestoreBegin, Begin, files
  <2>2. \E z0 : ArchiveOK(z0) /\ zip' = [zip EXCEPT ![w] = z0]
    BY <1>1 DEF RestoreBegin, FileTypes
  <2>3. /\ used' \subseteq Keys /\ FilesOK(disk)' /\ conf'.srvkey \in Keys \cup {Torn}
        /\ wg0' = Down \/ wg0'.srvkey \in Keys \cup {Torn}
    BY <1>f, <2>1
  <2>4. pc[w] \notin {"edit", "save"} /\ "create" \notin {"edit", "save"} /\ \A z \in archives' : z \in archives
    BY <2>1
  <2> QED
    BY <2>1, <2>2, <2>3, <2>4, FilesMove
<1>2. CASE UnpackCreate(w) \/ UnpackWrite(w) \/ UnpackFails(w) \/ RestoreCopy(w) \/ RestoreEnable(w)
  <2>1. UNCHANGED <<disk, conf, wg0, encryptionKey, archives, used, zip, list>> /\ pc[w] \notin {"edit", "save"}
    BY <1>2 DEF UnpackCreate, UnpackWrite, UnpackFails, RestoreCopy, RestoreEnable, UnpackStep, files
  <2>2. PICK p : pc' = [pc EXCEPT ![w] = p] /\ p \in {"unpacked", "down", "generate", "restoreup"}
    BY <1>2 DEF UnpackCreate, UnpackWrite, UnpackFails, RestoreCopy, RestoreEnable, UnpackStep
  <2>3. p \notin {"edit", "save"}
    BY <2>2
  <2> QED
    BY <1>f, <2>1, <2>2, <2>3, FilesMove
<1>3. CASE RestoreAwgUp(w)
  <2>1. /\ UNCHANGED <<disk, conf, wg0, encryptionKey, archives, used>>
        /\ pc[w] = "restoreup" /\ pc' = [pc EXCEPT ![w] = "idle"]
        /\ zip' = [zip EXCEPT ![w] = NoArchive] /\ list' = [list EXCEPT ![w] = Torn]
    BY <1>3 DEF RestoreAwgUp, Reset, files
  <2> QED
    BY <1>f, <2>1, EmptyFilesOK, FilesMove
<1> QED
  BY <1>1, <1>2, <1>3 DEF AwgRestore

LEMMA CrashTypes ==
  ASSUME PosOK, Bounds, FileTypes, Crash, Grows
  PROVE  FileTypes'
<1>f. /\ FilesOK(disk) /\ (disk' = disk => FilesOK(disk)')
      /\ conf.srvkey \in Keys \cup {Torn} /\ (wg0 = Down \/ wg0.srvkey \in Keys \cup {Torn})
      /\ used \subseteq Keys
  BY FilesStay
<1>1. UNCHANGED <<disk, conf, encryptionKey, archives, used>> /\ (wg0' = Down \/ wg0' = wg0)
  BY DEF Crash
<1>2. \A w \in Workers : pc'[w] = "idle" /\ zip'[w] = NoArchive /\ list'[w] = Torn
  BY DEF Crash
<1>3. zip' = [w \in Workers |-> zip'[w]] /\ list' = [w \in Workers |-> list'[w]]
  BY DEF Crash
<1>4. ArchiveOK(NoArchive)'
  BY EmptyFilesOK, ArchiveGrows
<1>5. \A z \in archives' : ArchiveOK(z)'
  BY <1>1, ArchiveGrows DEF FileTypes
<1>6. \A w \in Workers : ArchiveOK(zip[w])'
  BY <1>2, <1>4
<1> QED
  BY <1>f, <1>1, <1>2, <1>3, <1>5, <1>6 DEF FileTypes

LEMMA StartTypes ==
  ASSUME PosOK, Bounds, FileTypes, Start, Grows
  PROVE  FileTypes'
<1>f. /\ FilesOK(disk)
      /\ conf.srvkey \in Keys \cup {Torn} /\ (wg0 = Down \/ wg0.srvkey \in Keys \cup {Torn})
      /\ used \subseteq Keys
  BY FilesStay
<1> DEFINE Made(f, g, k) ==
      LET h == [g EXCEPT !.srvkey = k] IN
        /\ encryptionKey' = f.key
        /\ conf' = Rendered(h)
        /\ wg0' = IF wg0 = Down THEN conf' ELSE [conf' EXCEPT !.config = wg0.config]
        /\ disk' = IF wg0 = Down THEN h ELSE [h EXCEPT !.srvkey = wg0.srvkey]
        /\ used' = used \cup {h.key, h.srvkey}
      KeyFor(g) == IF g.srvkey = Torn THEN Keys \ (used \cup {g.key}) ELSE {g.srvkey}
<1>0. PICK f \in InitEncryptionKey(disk) : \E g \in LoadConfig(f) : \E k \in KeyFor(g) : Made(f, g, k)
  BY DEF Start
<1>1. PICK g \in LoadConfig(f) : \E k \in KeyFor(g) : Made(f, g, k)
  BY <1>0
<1>2. FilesOK(f) /\ f["key"] \in Keys
  <2>1. CASE disk.key = Torn
    <3>1. PICK k \in Keys : f = [disk EXCEPT !.key = k]
      BY <1>0, <2>1 DEF InitEncryptionKey
    <3>2. FilesOK(f)
      BY <1>f, <3>1, FileUpdate DEF FileOK, FileNames
    <3> QED
      BY <1>f, <3>1, <3>2 DEF FilesOK, FileNames
  <2>2. CASE disk.key # Torn
    BY <1>0, <1>f, <2>2 DEF InitEncryptionKey, FilesOK, FileOK, FileNames
  <2> QED
    BY <2>1, <2>2
<1>3. FilesOK(g) /\ g["key"] = f["key"]
  <2>1. CASE f.config = Torn
    <3>1. PICK k \in Keys : g = [f EXCEPT !.config = Default, !.srvkey = k]
      BY <1>1, <2>1 DEF LoadConfig
    <3>2. FilesOK([f EXCEPT !.config = Default])
      BY <1>2, FileUpdate DEF FileOK, FileNames
    <3>3. FilesOK([[f EXCEPT !.config = Default] EXCEPT !.srvkey = k])
      BY <3>1, <3>2, FileUpdate DEF FileOK, FileNames
    <3>4. g = [[f EXCEPT !.config = Default] EXCEPT !.srvkey = k]
      BY <3>1
    <3> QED
      BY <1>2, <3>1, <3>3, <3>4 DEF FilesOK, FileNames
  <2>2. CASE f.config # Torn
    BY <1>1, <1>2, <2>2 DEF LoadConfig
  <2> QED
    BY <2>1, <2>2
<1>4. PICK k \in KeyFor(g) : Made(f, g, k)
  BY <1>1
<1>5. PICK h : h = [g EXCEPT !.srvkey = k]
  OBVIOUS
<1>6. k \in Keys /\ FilesOK(h)
  BY <1>3, <1>4, <1>5, KeyMade
<1>7. h.srvkey = k /\ h.key = f.key
  BY <1>3, <1>5 DEF FilesOK, FileNames
<1>8. /\ encryptionKey' = f.key /\ conf' = Rendered(h)
      /\ wg0' = IF wg0 = Down THEN conf' ELSE [conf' EXCEPT !.config = wg0.config]
      /\ disk' = IF wg0 = Down THEN h ELSE [h EXCEPT !.srvkey = wg0.srvkey]
      /\ used' = used \cup {h.key, h.srvkey}
  BY <1>4, <1>5
<1>9. FilesOK(disk)'
  <2>1. CASE wg0 = Down
    BY <1>6, <1>8, <2>1, FilesGrow
  <2>2. CASE wg0 # Down
    <3>1. FilesOK([h EXCEPT !.srvkey = wg0.srvkey])
      BY <1>f, <1>6, <2>2, FileUpdate DEF FileOK, FileNames
    <3> QED
      BY <1>8, <2>2, <3>1, FilesGrow
  <2> QED
    BY <2>1, <2>2
<1>10. conf'.srvkey \in Keys /\ wg0'.srvkey \in Keys
  BY <1>6, <1>7, <1>8 DEF Rendered
<1>11. encryptionKey' \in Keys /\ used' \subseteq Keys
  BY <1>f, <1>2, <1>6, <1>7, <1>8
<1>12. \A z \in archives' : ArchiveOK(z)'
  BY ArchiveGrows DEF Start, FileTypes
<1>13. UNCHANGED <<pc, zip, list>>
  BY DEF Start, locals
<1>14. \A w \in Workers : ArchiveOK(zip[w])'
  BY <1>13, ArchiveGrows DEF FileTypes
<1>15. \A w \in Workers : pc'[w] = "idle" /\ list'[w] = Torn
  BY <1>13 DEF Start, PosOK, FileTypes
<1> QED
  BY <1>9, <1>10, <1>11, <1>12, <1>13, <1>14, <1>15 DEF FileTypes

LEMMA StepFileTypes ==
  ASSUME PosOK, Bounds, FileTypes, AwgTypes, Next
  PROVE  FileTypes'
<1>g. Grows
  BY StepGrows
<1>1. ASSUME NEW w \in Workers, Worker(w) PROVE FileTypes'
  <2>1. CASE Request(w)
    BY <2>1, EditTypes, BackupTypes, RestoreFileTypes, RestoreTypes DEF Request
  <2>2. CASE AwgRestore(w)
    BY <1>g, <2>2, AwgRestoreTypes
  <2>3. CASE AwgRequest(w) /\ UNCHANGED <<files, encryptionKey, archives, used, extracted, zip, todo, list, history>>
    <3>1. PICK label \in AwgLabels \cup {"idle"} : pc[w] \in AwgLabels \cup {"idle"} /\ pc' = [pc EXCEPT ![w] = label]
      BY <2>3, AwgMoves
    <3>2. pc[w] \notin {"edit", "save"} /\ label \notin {"edit", "save"}
      BY <3>1 DEF AwgLabels
    <3>3. UNCHANGED <<disk, conf, wg0, encryptionKey, archives, used, zip, list>>
      BY <2>3 DEF files
    <3>4. /\ used' \subseteq Keys /\ FilesOK(disk)' /\ conf'.srvkey \in Keys \cup {Torn}
          /\ wg0' = Down \/ wg0'.srvkey \in Keys \cup {Torn}
      BY <1>g, <3>3, FilesStay
    <3> QED
      BY <1>g, <3>1, <3>2, <3>3, <3>4, FilesMove
  <2> QED
    BY <1>1, <2>1, <2>2, <2>3 DEF Worker
<1>2. CASE Crash
  BY <1>g, <1>2, CrashTypes
<1>3. CASE Start
  BY <1>g, <1>3, StartTypes
<1> QED
  BY <1>1, <1>2, <1>3 DEF Next

-----------------------------------------------------------------------------
(* The AmneziaWG interface. *)
(* What can be brought up is there. *)
LEMMA SoundOK ==
  ASSUME NEW c, AwgFileOK(c), Sound(c)
  PROVE  c = Torn \/ AwgConfOK(c)
BY AmneziaAssumption DEF AmneziaAssumption, Sound, AwgFileOK

LEMMA EnableKeeps ==
  ASSUME InterfaceTypes, EnableNow \/ DisableNow
  PROVE  /\ awg' \in {Down, Torn} \/ AwgConfOK(awg')
         /\ enabled' \in BOOLEAN
BY SoundOK DEF InterfaceTypes, EnableNow, DisableNow, CanUp

(* A request moves on, and its form with it. *)
FormMove(w) ==
  \E p, c : /\ pc' = [pc EXCEPT ![w] = p] /\ form' = [form EXCEPT ![w] = c]
            /\ AwgConfOK(c)' /\ (p \notin AwgLabels => c = NoForm)

LEMMA FormOK ==
  ASSUME Bounds, NEW k \in AwgKeys, NEW n \in Nat, n <= reqs
  PROVE  AwgConfOK(AwgConf(k, n))
BY DEF AwgConfOK, AwgConf

LEMMA NoFormOK == Bounds => AwgConfOK(NoForm)
BY BackupAssumption DEF BackupAssumption, Bounds, AwgConfOK, AwgConf, NoForm, AwgKeys

LEMMA AwgMoveTypes ==
  ASSUME PosOK, Grows, AwgTypes, NEW w \in Workers, InterfaceTypes', FormMove(w)
  PROVE  AwgTypes'
<1>1. PICK p, c : /\ pc' = [pc EXCEPT ![w] = p] /\ form' = [form EXCEPT ![w] = c]
                  /\ AwgConfOK(c)' /\ (p \notin AwgLabels => c = NoForm)
  BY DEF FormMove
<1>2. pc'[w] = p /\ form'[w] = c /\ \A v \in Workers \ {w} : pc'[v] = pc[v] /\ form'[v] = form[v]
  BY <1>1 DEF PosOK, AwgTypes
<1>3. form' = [v \in Workers |-> form'[v]]
  BY <1>1 DEF AwgTypes
<1>4. ASSUME NEW v \in Workers PROVE AwgConfOK(form[v])' /\ (pc'[v] \notin AwgLabels => form'[v] = NoForm)
  <2>1. CASE v = w
    BY <1>1, <1>2, <2>1
  <2>2. CASE v # w
    BY <1>2, <2>2, AwgGrows DEF AwgTypes
  <2> QED
    BY <2>1, <2>2
<1> QED
  BY <1>3, <1>4 DEF AwgTypes

(* The form stays as it is, or is forgotten. *)
LEMMA FormKept ==
  ASSUME Grows, AwgTypes, NEW w \in Workers, form' = form,
         NEW p \in AwgLabels, pc' = [pc EXCEPT ![w] = p]
  PROVE  FormMove(w)
<1>1. form' = [form EXCEPT ![w] = form[w]] /\ AwgConfOK(form[w])
  BY DEF AwgTypes
<1>2. PICK c : c = form[w]
  OBVIOUS
<1>3. AwgConfOK(c)'
  BY <1>1, <1>2, AwgGrows
<1> QED
  BY <1>1, <1>2, <1>3 DEF FormMove

LEMMA FormForgotten ==
  ASSUME Grows, NEW w \in Workers, AwgForget(w), NEW p, pc' = [pc EXCEPT ![w] = p]
  PROVE  FormMove(w)
<1>1. AwgConfOK(NoForm)'
  BY NoFormOK, AwgGrows DEF Grows
<1> QED
  BY <1>1 DEF AwgForget, FormMove

LEMMA FormNew ==
  ASSUME Grows, NEW w \in Workers, NEW k \in AwgKeys,
         NEW p \in AwgLabels, pc' = [pc EXCEPT ![w] = p], form' = [form EXCEPT ![w] = AwgConf(k, reqs')]
  PROVE  FormMove(w)
<1>1. PICK c : c = AwgConf(k, reqs')
  OBVIOUS
<1>2. reqs' \in Nat
  BY BackupAssumption DEF BackupAssumption, Grows, Bounds
<1>3. AwgConfOK(c)'
  BY <1>1, <1>2 DEF AwgConfOK, AwgConf
<1> QED
  BY <1>1, <1>3 DEF FormMove

LEMMA FormMoves ==
  ASSUME Grows, AwgTypes, NEW w \in Workers, AwgRequest(w)
  PROVE  FormMove(w)
<1> USE DEF AwgStep, At, Goto, Begin
<1>l. {"imported", "unread"} \subseteq AwgKeys /\ Placeholder \in AwgKeys
  BY DEF AwgKeys
<1>1. CASE ImportBegin(w)
  <2>1. "import" \in AwgLabels /\ pc' = [pc EXCEPT ![w] = "import"]
    BY <1>1 DEF ImportBegin, AwgLabels
  <2>2. PICK key \in AwgKeys : form' = [form EXCEPT ![w] = AwgConf(key, reqs')]
    BY <1>1, <1>l DEF ImportBegin
  <2> QED
    BY <2>1, <2>2, FormNew
<1>2. CASE SaveBegin(w)
  <2>1. PICK p \in AwgLabels : pc' = [pc EXCEPT ![w] = p]
    BY <1>2 DEF SaveBegin, AwgLabels
  <2>2. form' = [form EXCEPT ![w] = AwgConf(Placeholder, reqs')]
    BY <1>2 DEF SaveBegin
  <2> QED
    BY <1>l, <2>1, <2>2, FormNew
<1>3. CASE \/ ImportTrunc(w) \/ ImportWrite(w) \/ ImportUp(w) \/ SaveDown(w) \/ SaveDisable(w) \/ SaveTrunc(w)
           \/ AwgUp(w) \/ ManageUp(w) \/ ManageDown(w) \/ ManageDelete(w) \/ DeleteDisable(w) \/ DeleteDown(w)
  <2>1. form' = form
    BY <1>3 DEF ImportTrunc, ImportWrite, ImportUp, SaveDown, SaveDisable, SaveTrunc, AwgUp, ManageUp, ManageDown,
                ManageDelete, Manage, DeleteDisable, DeleteDown, awgLocals
  <2>2. \E p \in {"importwrite", "importup", "awgenable", "savedisable", "savekey", "savewrite", "awgup", "awgdown",
                  "deldisable", "deldown", "delfile"} : pc' = [pc EXCEPT ![w] = p]
    BY <1>3 DEF ImportTrunc, ImportWrite, ImportUp, SaveDown, SaveDisable, SaveTrunc, AwgUp, ManageUp, ManageDown,
                ManageDelete, Manage, DeleteDisable, DeleteDown
  <2>3. PICK p \in AwgLabels : pc' = [pc EXCEPT ![w] = p]
    BY <2>2 DEF AwgLabels
  <2> QED
    BY <2>1, <2>3, FormKept
<1>4. CASE \/ ImportUpFails(w) \/ AwgWriteFails(w) \/ AwgUpFails(w) \/ AwgEnable(w) \/ AwgDown(w) \/ DeleteFile(w)
  <2>1. AwgForget(w) /\ pc' = [pc EXCEPT ![w] = "idle"]
    BY <1>4 DEF ImportUpFails, AwgWriteFails, AwgUpFails, AwgEnable, AwgDown, DeleteFile
  <2> QED
    BY <2>1, FormForgotten
<1>5. CASE SaveWrite(w)
  <2>1. CASE ran[w]
    BY <1>5, <2>1, FormKept DEF SaveWrite, awgLocals, AwgLabels
  <2>2. CASE ~ran[w]
    BY <1>5, <2>2, FormForgotten DEF SaveWrite
  <2> QED
    BY <2>1, <2>2
<1>6. CASE SaveKey(w)
  <2>1. "savetrunc" \in AwgLabels /\ pc' = [pc EXCEPT ![w] = "savetrunc"]
    BY <1>6 DEF SaveKey, AwgLabels
  <2>2. CASE ~KeyFound(awgConf)
    BY <1>6, <2>1, <2>2, FormKept DEF SaveKey
  <2>3. CASE KeyFound(awgConf)
    <3>1. PICK c : c = [form[w] EXCEPT !.key = awgConf.key]
      OBVIOUS
    <3>2. form' = [form EXCEPT ![w] = c]
      BY <1>6, <2>3, <3>1 DEF SaveKey
    <3>3. AwgConfOK(awgConf) /\ AwgConfOK(form[w])
      BY <2>3 DEF KeyFound, AwgTypes, InterfaceTypes, AwgFileOK
    <3>4. c \in [key : AwgKeys, rev : Nat] /\ c.rev <= reqs
      BY <3>1, <3>3 DEF AwgConfOK
    <3>5. AwgConfOK(c)'
      BY <3>4, AwgGrows DEF AwgConfOK
    <3> QED
      BY <2>1, <3>2, <3>5 DEF FormMove
  <2> QED
    BY <2>2, <2>3
<1> QED
  BY <1>1, <1>2, <1>3, <1>4, <1>5, <1>6 DEF AwgRequest

LEMMA InterfaceStays ==
  ASSUME Grows, InterfaceTypes
  PROVE  /\ awgConf' = awgConf => AwgFileOK(awgConf)'
         /\ awg' = awg => (awg' \in {Down, Torn} \/ AwgConfOK(awg)')
         /\ extracted' = extracted => AwgFileOK(extracted)'
         /\ kept' \in {kept, awgConf, NoFile} => AwgFileOK(kept)'
BY AwgGrows DEF InterfaceTypes, AwgFileOK

(* The steps of systemctl and awg-quick. *)
LEMMA InterfaceUp ==
  ASSUME Grows, InterfaceTypes, \/ EnableNow \/ DisableNow
                                \/ awg' \in {awg, Down} /\ enabled' = enabled
                                \/ CanUp /\ awg' = awgConf /\ enabled' = enabled
  PROVE  (awg' \in {Down, Torn} \/ AwgConfOK(awg)') /\ enabled' \in BOOLEAN
<1>1. awg' \in {Down, Torn} \/ AwgConfOK(awg')
  BY EnableKeeps, SoundOK DEF InterfaceTypes, CanUp
<1>2. AwgConfOK(awg') => AwgConfOK(awg)'
  BY AwgGrows
<1> QED
  BY <1>1, <1>2, EnableKeeps DEF InterfaceTypes

LEMMA AwgRequestTypes ==
  ASSUME Grows, AwgTypes, NEW w \in Workers, AwgRequest(w), extracted' = extracted
  PROVE  InterfaceTypes'
<1>1. Grows /\ InterfaceTypes
  BY DEF AwgTypes
<1>2. /\ awg' \in {Down, Torn} \/ AwgConfOK(awg)'
      /\ enabled' \in BOOLEAN
  <2>1. CASE \/ ImportBegin(w) \/ ImportTrunc(w) \/ ImportWrite(w) \/ ImportUpFails(w) \/ SaveBegin(w) \/ SaveKey(w)
             \/ SaveTrunc(w) \/ SaveWrite(w) \/ AwgWriteFails(w) \/ AwgUpFails(w)
             \/ ManageUp(w) \/ ManageDown(w) \/ ManageDelete(w) \/ DeleteFile(w)
    <3>1. awg' = awg /\ enabled' = enabled
      BY <2>1 DEF ImportBegin, ImportTrunc, ImportWrite, ImportUpFails, SaveBegin, SaveKey, SaveTrunc, SaveWrite,
                  AwgWriteFails, AwgUpFails, ManageUp, ManageDown, ManageDelete, Manage, DeleteFile
    <3> QED
      BY <1>1, <3>1, InterfaceUp
  <2>2. CASE ImportUp(w) \/ AwgUp(w)
    BY <1>1, <2>2, InterfaceUp DEF ImportUp, AwgUp
  <2>3. CASE SaveDown(w) \/ AwgDown(w) \/ DeleteDown(w)
    <3>1. awg' \in {awg, Down} /\ enabled' = enabled
      BY <2>3 DEF SaveDown, AwgDown, DeleteDown
    <3> QED
      BY <1>1, <3>1, InterfaceUp
  <2>4. CASE SaveDisable(w) \/ AwgEnable(w) \/ DeleteDisable(w)
    BY <1>1, <2>4, InterfaceUp DEF SaveDisable, AwgEnable, DeleteDisable
  <2> QED
    BY <2>1, <2>2, <2>3, <2>4 DEF AwgRequest
<1>3. AwgFileOK(kept)'
  <2>1. kept' \in {kept, NoFile, awgConf}
    <3>1. CASE ImportBegin(w) \/ SaveBegin(w) \/ ManageUp(w) \/ ManageDown(w) \/ ManageDelete(w) \/ AwgEnable(w)
      BY <3>1 DEF ImportBegin, SaveBegin, ManageUp, ManageDown, ManageDelete, Manage, AwgMeets, AwgEnable
    <3>2. CASE \/ ImportTrunc(w) \/ ImportWrite(w) \/ ImportUp(w) \/ ImportUpFails(w) \/ SaveDown(w) \/ SaveDisable(w)
               \/ SaveKey(w) \/ SaveTrunc(w) \/ SaveWrite(w) \/ AwgWriteFails(w) \/ AwgUp(w) \/ AwgUpFails(w)
               \/ AwgDown(w) \/ DeleteDisable(w) \/ DeleteDown(w) \/ DeleteFile(w)
      BY <3>2 DEF ImportTrunc, ImportWrite, ImportUp, ImportUpFails, SaveDown, SaveDisable, SaveKey, SaveTrunc, SaveWrite,
                  AwgWriteFails, AwgUp, AwgUpFails, AwgDown, DeleteDisable, DeleteDown, DeleteFile, awgHist
    <3> QED
      BY <3>1, <3>2 DEF AwgRequest
  <2> QED
    BY <1>1, <2>1, InterfaceStays
<1>4. AwgFileOK(awgConf)'
  <2>1. CASE ImportTrunc(w) \/ SaveTrunc(w) \/ ImportUpFails(w) \/ DeleteFile(w)
    BY <2>1 DEF ImportTrunc, SaveTrunc, ImportUpFails, DeleteFile, AwgFileOK
  <2>2. CASE ImportWrite(w) \/ SaveWrite(w)
    <3>1. awgConf' \in {form[w], awgConf}
      BY <2>2 DEF ImportWrite, SaveWrite, AwgWritten
    <3>2. AwgFileOK(form[w]) /\ AwgFileOK(awgConf)
      BY DEF AwgTypes, InterfaceTypes, AwgFileOK
    <3> QED
      BY <3>1, <3>2, AwgGrows
  <2>3. CASE \/ ImportBegin(w) \/ ImportUp(w) \/ SaveBegin(w) \/ SaveDown(w) \/ SaveDisable(w) \/ SaveKey(w)
             \/ AwgWriteFails(w) \/ AwgUp(w) \/ AwgUpFails(w) \/ AwgEnable(w)
             \/ ManageUp(w) \/ ManageDown(w) \/ ManageDelete(w) \/ AwgDown(w) \/ DeleteDisable(w) \/ DeleteDown(w)
    <3>1. awgConf' = awgConf
      BY <2>3 DEF ImportBegin, ImportUp, SaveBegin, SaveDown, SaveDisable, SaveKey, AwgWriteFails, AwgUp, AwgUpFails,
                  AwgEnable, ManageUp, ManageDown, ManageDelete, Manage, AwgDown, DeleteDisable, DeleteDown
    <3> QED
      BY <1>1, <3>1, InterfaceStays
  <2> QED
    BY <2>1, <2>2, <2>3 DEF AwgRequest
<1>5. AwgFileOK(extracted)'
  BY <1>1, InterfaceStays
<1> QED
  BY <1>2, <1>3, <1>4, <1>5 DEF InterfaceTypes

LEMMA AwgRestoreInterface ==
  ASSUME Grows, FileTypes, AwgTypes, NEW w \in Workers, AwgRestore(w)
  PROVE  InterfaceTypes'
<1>1. Grows /\ InterfaceTypes /\ AwgFileOK(zip[w].awg)
  BY DEF AwgTypes, FileTypes, ArchiveOK
<1>2. /\ awg' \in {Down, Torn} \/ AwgConfOK(awg)'
      /\ enabled' \in BOOLEAN
  <2>1. CASE RestoreBegin(w) \/ UnpackCreate(w) \/ UnpackWrite(w) \/ UnpackFails(w) \/ RestoreCopy(w)
    <3>1. awg' = awg /\ enabled' = enabled
      BY <2>1 DEF RestoreBegin, UnpackCreate, UnpackWrite, UnpackFails, RestoreCopy, awgVars
    <3> QED
      BY <1>1, <3>1, InterfaceUp
  <2>2. CASE RestoreEnable(w)
    BY <1>1, <2>2, InterfaceUp DEF RestoreEnable
  <2>3. CASE RestoreAwgUp(w)
    <3>1. enabled' = enabled /\ (awg' = awg \/ (CanUp /\ awg' = awgConf))
      BY <2>3 DEF RestoreAwgUp
    <3> QED
      BY <1>1, <3>1, InterfaceUp
  <2> QED
    BY <2>1, <2>2, <2>3 DEF AwgRestore
<1>3. AwgFileOK(kept)'
  <2>1. kept' \in {kept, NoFile, zip[w].awg}
    BY DEF AwgRestore, RestoreBegin, AwgRestored, UnpackCreate, UnpackWrite, UnpackFails, RestoreCopy, RestoreEnable,
           RestoreAwgUp, awgVars, awgHist
  <2>2. CASE kept' = zip[w].awg
    BY <1>1, <2>2, AwgGrows
  <2> QED
    BY <1>1, <2>1, <2>2, InterfaceStays
<1>4. AwgFileOK(awgConf)'
  <2>1. awgConf' \in {awgConf, extracted}
    BY DEF AwgRestore, RestoreBegin, UnpackCreate, UnpackWrite, UnpackFails, RestoreCopy, RestoreEnable,
           RestoreAwgUp, awgVars
  <2>2. AwgFileOK(extracted) /\ AwgFileOK(awgConf)
    BY <1>1 DEF InterfaceTypes
  <2> QED
    BY <2>1, <2>2, AwgGrows
<1>5. AwgFileOK(extracted)'
  <2>1. extracted' \in {extracted, Torn, zip[w].awg}
    BY DEF AwgRestore, RestoreBegin, UnpackCreate, UnpackWrite, UnpackFails, RestoreCopy, RestoreEnable, RestoreAwgUp
  <2>2. AwgFileOK(extracted) /\ AwgFileOK(Torn)
    BY <1>1 DEF InterfaceTypes, AwgFileOK
  <2> QED
    BY <1>1, <2>1, <2>2, AwgGrows
<1> QED
  BY <1>2, <1>3, <1>4, <1>5 DEF InterfaceTypes

(* Every other request leaves its form alone, for it has none. *)
LEMMA FormIdle ==
  ASSUME Grows, AwgTypes, NEW w \in Workers, pc[w] \notin AwgLabels,
         NEW p, pc' = [pc EXCEPT ![w] = p], form' = form
  PROVE  FormMove(w)
<1>1. form' = [form EXCEPT ![w] = NoForm]
  BY DEF AwgTypes
<1>2. AwgConfOK(NoForm)'
  BY NoFormOK, AwgGrows DEF Grows
<1> QED
  BY <1>1, <1>2 DEF FormMove

LEMMA RequestMoves ==
  ASSUME NEW w \in Workers, Request(w)
  PROVE  pc[w] \notin AwgLabels /\ \E p : pc' = [pc EXCEPT ![w] = p]
<1> USE DEF AwgLabels, At, Goto, Begin, Reset
<1>1. CASE EditLoad(w) \/ EditTrunc(w) \/ EditWrite(w) \/ BackupBegin(w)
  BY <1>1 DEF EditLoad, EditTrunc, EditWrite, BackupBegin
<1>2. CASE BackupFile(w) \/ BackupConf(w)
  BY <1>2 DEF BackupFile, BackupConf, NextFile
<1>3. CASE RestoreCreate(w) \/ RestoreWrite(w) \/ RestoreFileFails(w)
  BY <1>3 DEF RestoreCreate, RestoreWrite, RestoreFileFails, NextFile
<1>4. CASE RestoreDown(w) \/ RestoreConf(w) \/ RestoreGenerate(w) \/ RestoreCycle(w) \/ RestoreUp(w)
  BY <1>4 DEF RestoreDown, RestoreConf, RestoreGenerate, RestoreCycle, RestoreUp
<1> QED
  BY <1>1, <1>2, <1>3, <1>4 DEF Request

LEMMA AwgRestoreMoves ==
  ASSUME NEW w \in Workers, AwgRestore(w)
  PROVE  pc[w] \notin AwgLabels /\ (\E p : pc' = [pc EXCEPT ![w] = p]) /\ form' = form
<1> USE DEF AwgLabels, At, Goto, Begin, Reset, UnpackStep, awgVars, awgLocals
<1>1. CASE RestoreBegin(w) \/ RestoreAwgUp(w)
  BY <1>1 DEF RestoreBegin, RestoreAwgUp
<1>2. CASE UnpackCreate(w) \/ UnpackWrite(w) \/ UnpackFails(w) \/ RestoreCopy(w) \/ RestoreEnable(w)
  BY <1>2 DEF UnpackCreate, UnpackWrite, UnpackFails, RestoreCopy, RestoreEnable
<1> QED
  BY <1>1, <1>2 DEF AwgRestore

LEMMA StepAwgTypes ==
  ASSUME PosOK, Bounds, FileTypes, AwgTypes, Next
  PROVE  AwgTypes'
<1>g. Grows
  BY StepGrows
<1>1. ASSUME NEW w \in Workers, Worker(w) PROVE AwgTypes'
  <2>1. CASE Request(w) /\ UNCHANGED <<extracted, awgVars>>
    <3>1. InterfaceTypes'
      <4>1. UNCHANGED <<awgConf, awg, enabled, extracted, kept>> /\ InterfaceTypes
        BY <2>1 DEF awgVars, awgHist, AwgTypes
      <4> QED
        BY <1>g, <4>1, InterfaceStays DEF InterfaceTypes
    <3>2. FormMove(w)
      BY <1>g, <2>1, RequestMoves, FormIdle DEF awgVars, awgLocals
    <3> QED
      BY <1>g, <3>1, <3>2, AwgMoveTypes
  <2>2. CASE AwgRestore(w)
    BY <1>g, <2>2, AwgRestoreInterface, AwgRestoreMoves, FormIdle, AwgMoveTypes
  <2>3. CASE AwgRequest(w) /\ extracted' = extracted
    BY <1>g, <2>3, AwgRequestTypes, FormMoves, AwgMoveTypes
  <2> QED
    BY <1>1, <2>1, <2>2, <2>3 DEF Worker
<1>2. CASE Crash
  <2>1. InterfaceTypes'
    <3>1. UNCHANGED <<awgConf, enabled, extracted, kept>> /\ InterfaceTypes
      BY <1>2 DEF Crash, AwgCut, AwgTypes
    <3>2. awg' = awg \/ awg' = Down \/ (Sound(awgConf) /\ awg' = awgConf)
      BY <1>2 DEF Crash, AwgCut
    <3>3. awg' \in {Down, Torn} \/ AwgConfOK(awg')
      BY <3>1, <3>2, SoundOK DEF InterfaceTypes
    <3>4. AwgConfOK(awg') => AwgConfOK(awg)'
      BY <1>g, AwgGrows
    <3> QED
      BY <1>g, <3>1, <3>3, <3>4, InterfaceStays DEF InterfaceTypes
  <2>2. form' = [w \in Workers |-> NoForm]
    BY <1>2 DEF Crash, AwgCut
  <2>3. AwgConfOK(NoForm)'
    BY <1>g, NoFormOK, AwgGrows
  <2> QED
    BY <2>1, <2>2, <2>3 DEF AwgTypes
<1>3. CASE Start
  <2>1. UNCHANGED <<awgConf, awg, enabled, extracted, kept, form, pc>> /\ InterfaceTypes
    BY <1>3 DEF Start, awgVars, awgHist, awgLocals, locals, AwgTypes
  <2>2. InterfaceTypes'
    BY <1>g, <2>1, InterfaceStays DEF InterfaceTypes
  <2>3. \A w \in Workers : AwgConfOK(form[w])'
    BY <1>g, <2>1, AwgGrows DEF AwgTypes
  <2> QED
    BY <2>1, <2>2, <2>3 DEF AwgTypes
<1> QED
  BY <1>1, <1>2, <1>3 DEF Next

TypeInv == PosOK /\ Bounds /\ FileTypes /\ AwgTypes

LEMMA StepTypes == TypeInv /\ [Next]_vars => TypeInv'
<1> SUFFICES ASSUME TypeInv, [Next]_vars PROVE TypeInv'
  OBVIOUS
<1>1. PosOK'
  BY StepPos DEF TypeInv
<1>2. CASE Next
  BY <1>1, <1>2, StepGrows, StepFileTypes, StepAwgTypes DEF TypeInv, Grows
<1>3. CASE UNCHANGED vars
  <2>1. Bounds' /\ FileTypes' /\ AwgTypes'
    BY <1>3 DEF vars, files, locals, awgVars, awgHist, awgLocals, TypeInv, Bounds, FileTypes, FilesOK, FileOK, PeersOK,
                PlainOK, ArchiveOK, AwgTypes, InterfaceTypes, AwgFileOK, AwgConfOK
  <2> QED
    BY <1>1, <2>1 DEF TypeInv
<1> QED
  BY <1>2, <1>3

(* What the invariant says of one file is what TypeOK asks of it. *)
LEMMA FileTyped ==
  ASSUME Bounds, NEW f, FilesOK(f), NEW i \in DOMAIN Files
  PROVE  IsFile(Files[i], f[Files[i]])
<1>1. Files[i] \in FileNames
  BY FilesInOrder DEF Files
<1>2. FileOK(Files[i], f[Files[i]])
  BY <1>1 DEF FilesOK
<1>3. ASSUME NEW l, PeersOK(l)
      PROVE  /\ l.of \in Sites /\ l.rev \in 0 .. MaxRequests
             /\ l.sealed \in Seq(Keys) /\ Len(l.sealed) \in 1 .. 2 + faults
  <2>1. l.of \in Sites /\ l.rev \in Nat /\ l.sealed \in Seq(Keys) /\ Len(l.sealed) \in Nat
    BY <1>3, LenProperties DEF PeersOK
  <2> QED
    BY <1>3, <2>1, BackupAssumption DEF BackupAssumption, Bounds, PeersOK
<1> QED
  BY <1>2, <1>3 DEF FileOK, IsFile

(* A list that was loaded is not mistaken for none. *)
LEMMA ListTyped ==
  ASSUME NEW l, PlainOK(l)
  PROVE  l # Torn
BY BackupAssumption DEF BackupAssumption, PlainOK

LEMMA OneRestores == PosOK => Cardinality({w \in Workers : Restoring(w)}) <= 1
<1> SUFFICES ASSUME PosOK PROVE Cardinality({w \in Workers : Restoring(w)}) <= 1
  OBVIOUS
<1> DEFINE S == {w \in Workers : Restoring(w)}
<1>1. CASE S = {}
  BY <1>1, FS_EmptySet
<1>2. CASE S # {}
  <2>1. PICK w : w \in S
    BY <1>2
  <2>2. S = {w}
    BY <2>1 DEF PosOK
  <2> QED
    BY <2>2, FS_Singleton
<1> QED
  BY <1>1, <1>2

LEMMA AwgTyped ==
  ASSUME TypeInv
  PROVE  /\ \A c \in {awgConf, awg, extracted, kept} \cup {z.awg : z \in archives} :
              c \in {Torn, Down, NoFile} \/ c.rev \in 0 .. MaxRequests
         /\ awgConf # Down /\ awg # NoFile /\ enabled \in BOOLEAN
<1>1. \A c : AwgConfOK(c) => c.rev \in 0 .. MaxRequests /\ c \notin {Down, NoFile}
  BY BackupAssumption, AmneziaAssumption DEF BackupAssumption, AmneziaAssumption, TypeInv, Bounds, AwgConfOK
<1>2. \A z \in archives : AwgFileOK(z.awg)
  BY DEF TypeInv, FileTypes, ArchiveOK
<1>3. InterfaceTypes
  BY DEF TypeInv, AwgTypes
<1>4. ASSUME NEW c \in {awgConf, awg, extracted, kept} \cup {z.awg : z \in archives}
      PROVE  c \in {Torn, Down, NoFile} \/ c.rev \in 0 .. MaxRequests
  <2>1. c \in {Torn, Down} \/ AwgConfOK(c) \/ AwgFileOK(c)
    BY <1>2, <1>3, <1>4 DEF InterfaceTypes
  <2> QED
    BY <1>1, <2>1 DEF AwgFileOK
<1>5. awgConf # Down
  <2>1. AwgFileOK(awgConf)
    BY <1>3 DEF InterfaceTypes
  <2> QED
    BY <1>1, <2>1, AmneziaAssumption DEF AmneziaAssumption, AwgFileOK
<1>6. awg # NoFile
  BY <1>1, <1>3, AmneziaAssumption DEF AmneziaAssumption, InterfaceTypes
<1> QED
  BY <1>3, <1>4, <1>5, <1>6 DEF InterfaceTypes

(* Through edits, backups, restores, AmneziaWG requests, crashes and       *)
(* starts, every file and archive is whole or truncated and holds what its *)
(* writer puts there; at most one request restores; and no stored password *)
(* is in the clear or sealed more often than crashes and one foreign       *)
(* archive explain (savePeers, createBackup, restoreBackup).               *)
THEOREM TypesKept == Spec => []TypeOK
<1>1. Init => TypeInv
  BY InitPos, InitTypes DEF TypeInv
<1>2. TypeInv /\ [Next]_vars => TypeInv'
  BY StepTypes
<1>3. TypeInv => TypeOK
  <2> SUFFICES ASSUME TypeInv PROVE TypeOK
    OBVIOUS
  <2>1. \A i \in DOMAIN Files : IsFile(Files[i], disk[Files[i]])
    BY FileTyped DEF TypeInv, FileTypes
  <2>2. \A z \in archives, i \in DOMAIN Files : IsFile(Files[i], z.files[Files[i]])
    BY FileTyped DEF TypeInv, FileTypes, ArchiveOK
  <2>3. encryptionKey \in Keys /\ used \subseteq Keys /\ reqs \in 0 .. MaxRequests /\ faults \in 0 .. MaxFaults
    BY DEF TypeInv, FileTypes, Bounds
  <2>4. Cardinality({w \in Workers : Restoring(w)}) <= 1
    BY OneRestores DEF TypeInv
  <2>5. ASSUME NEW w \in Workers
        PROVE  /\ todo[w] \in 1 .. Len(Files) + 1
               /\ pc[w] \in {"create", "write", "zip"} => todo[w] <= Len(Files)
    BY FilesInOrder DEF TypeInv, PosOK
  <2>6. ASSUME NEW w \in Workers
        PROVE  /\ pc[w] \in {"edit", "save"} <=> list[w] # Torn
               /\ form[w] # NoForm => pc[w] \in AwgLabels
    BY ListTyped DEF TypeInv, FileTypes, AwgTypes
  <2> QED
    BY <2>1, <2>2, <2>3, <2>4, <2>5, <2>6, AwgTyped DEF TypeOK
<1> QED
  BY <1>1, <1>2, <1>3, PTL DEF Spec
=============================================================================
