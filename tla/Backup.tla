-------------------------------- MODULE Backup --------------------------------
(***************************************************************************)
(* createBackup and restoreBackup (backup.go) against the files they copy  *)
(* one after the other, and the encryption of the router passwords in      *)
(* peers.json (crypto.go): data/.key is read into memory when the process  *)
(* starts and never again, while a restore replaces the file.              *)
(*                                                                         *)
(* A site stands for the settings of one server: Here, the server that     *)
(* runs, or There, another one with an archive of its own.  A password is  *)
(* represented by the keys it is sealed with, the outermost last.          *)
(***************************************************************************)
EXTENDS Amnezia, Sequences, FiniteSets

CONSTANTS
  Here, There, Default, \* whose settings config.json holds; createDefaultConfig's
  Keys, Secret,         \* encryption keys and server keys; each site's own of both
  None,                 \* no archive; no peers in wg0.conf
  Foreign               \* whether There's archive is at hand

VARIABLES
  disk,       \* the files under data/
  conf, wg0,  \* wg0.conf and the running interface
  encryptionKey,        \* crypto.go: the key in memory
  archives,   \* the archives the administrator has
  used,
  extracted,            \* etc/amnezia/amneziawg/awg0.conf below data's directory
  zip, todo, list,      \* per worker: archive, next file, peers loaded
  whole,      \* history: every restore so far was whole
  abroad,     \* history: one was of another server's archive
  alone,      \* history: a restore in progress that nothing has disturbed
  moved,      \* history: the archive restored undisturbed, until the next edit
  restarted   \* history: the process has started since

files   == <<disk, conf, wg0>>
locals  == <<pc, zip, todo, list>>
history == <<whole, abroad, alone, moved, restarted>>
vars    == <<files, encryptionKey, archives, used, reqs, faults, proc, locals, history, extracted, awgVars>>

Files == <<"config", "peers", "srvkey", "key">>   \* in the order of the archive
Sites == {Here, There}

ASSUME BackupAssumption ==
  /\ Here # There /\ Default \notin Sites
  /\ Secret \in [Sites -> [srvkey : Keys, key : Keys]]
  /\ Torn \notin Keys \cup [of : Sites, rev : Nat, sealed : Seq(Keys)]
  /\ Foreign \in BOOLEAN /\ MaxRequests \in Nat /\ MaxFaults \in Nat

Peers(s, n, keys) == [of |-> s, rev |-> n, sealed |-> keys]
Rendered(f) == [config |-> f.config, srvkey |-> f.srvkey,
                peers |-> IF f.peers = Torn THEN None ELSE <<f.peers.of, f.peers.rev>>]

(* What a server's files look like while nothing goes wrong. *)
SiteFiles(s) ==
  [config |-> s, peers |-> Peers(s, 0, <<Secret[s].key>>),
   srvkey |-> Secret[s].srvkey, key |-> Secret[s].key]

NoFiles == [config |-> Torn, peers |-> Torn, srvkey |-> Torn, key |-> Torn]
NoArchive == [files |-> NoFiles, conf |-> Rendered(NoFiles), awg |-> NoFile]
ForeignArchive ==
  [files |-> SiteFiles(There), conf |-> Rendered(SiteFiles(There)), awg |-> AwgConf("foreign", 0)]

-----------------------------------------------------------------------------
Init ==
  /\ disk = SiteFiles(Here)
  /\ conf = Rendered(disk) /\ wg0 = conf
  /\ encryptionKey = Secret[Here].key
  /\ archives = IF Foreign THEN {ForeignArchive} ELSE {}
  /\ used = UNION {{Secret[s].srvkey, Secret[s].key} : s \in Sites}
  /\ reqs = 0 /\ faults = 0
  /\ proc = "up"
  /\ pc = [w \in Workers |-> "idle"]
  /\ zip = [w \in Workers |-> NoArchive]
  /\ todo = [w \in Workers |-> 1]
  /\ list = [w \in Workers |-> Torn]
  /\ whole = TRUE /\ abroad = FALSE /\ alone = {} /\ moved = None /\ restarted = FALSE
  /\ extracted = NoFile /\ InitAwg

Idle == proc = "up" /\ \A w \in Workers : pc[w] = "idle"

Reset(w) ==
  /\ Goto(w, "idle")
  /\ zip' = [zip EXCEPT ![w] = NoArchive]
  /\ todo' = [todo EXCEPT ![w] = 1]
  /\ list' = [list EXCEPT ![w] = Torn]

NextFile(w, again, done) ==
  /\ todo' = [todo EXCEPT ![w] = @ + 1]
  /\ Goto(w, IF todo[w] = Len(Files) THEN done ELSE again)

-----------------------------------------------------------------------------
(* crypto.go.  What cannot be decrypted is passed on as it is. *)

(* Mutant: a list is loaded without its passwords being decrypted. *)
DecryptNothing(sealed) == sealed

DecryptPassword(sealed) ==
  IF sealed # <<>> /\ sealed[Len(sealed)] = encryptionKey
  THEN SubSeq(sealed, 1, Len(sealed) - 1)
  ELSE sealed

EncryptPassword(sealed) == Append(sealed, encryptionKey)

-----------------------------------------------------------------------------
(* updatePeer, the request that changes peers.json and nothing else.  The  *)
(* password field of the form may be left empty, which keeps the old one.  *)

EditLoad(w) ==
  /\ disk.peers # Torn            \* otherwise the peer is not found: 404
  /\ Begin(w, "edit")
  /\ \E keys \in {<<>>, DecryptPassword(disk.peers.sealed)} :
       list' = [list EXCEPT ![w] = Peers(disk.peers.of, disk.peers.rev + 1, keys)]
  /\ alone' = {} /\ moved' = None
  /\ UNCHANGED <<files, encryptionKey, archives, used, faults, proc, zip, todo, whole, abroad, restarted>>

EditTrunc(w) ==
  /\ At(w, "edit")
  /\ disk' = [disk EXCEPT !.peers = Torn]
  /\ Goto(w, "save")
  /\ UNCHANGED <<conf, wg0, encryptionKey, archives, used, reqs, faults, proc, zip, todo, list, history>>

EditWrite(w) ==
  /\ At(w, "save")
  /\ disk' = [disk EXCEPT !.peers = [list[w] EXCEPT !.sealed = EncryptPassword(@)]]
  /\ Reset(w)
  /\ UNCHANGED <<conf, wg0, encryptionKey, archives, used, reqs, faults, proc, history>>

-----------------------------------------------------------------------------
(* createBackup: each file as it is found, an empty one too. *)

BackupBegin(w) ==
  /\ Begin(w, "zip")
  /\ UNCHANGED <<files, encryptionKey, archives, used, faults, proc, zip, todo, list, history>>

BackupFile(w) ==
  /\ At(w, "zip")
  /\ LET f == Files[todo[w]] IN zip' = [zip EXCEPT ![w].files[f] = disk[f]]
  /\ NextFile(w, "zip", "zipconf")
  /\ UNCHANGED <<files, encryptionKey, archives, used, reqs, faults, proc, list, history>>

BackupConf(w) ==
  /\ At(w, "zipconf")
  /\ archives' = archives \cup {[zip[w] EXCEPT !.conf = conf, !.awg = awgConf]}
  /\ Reset(w)
  /\ UNCHANGED <<files, encryptionKey, used, reqs, faults, proc, history>>

-----------------------------------------------------------------------------
(* restoreBackup.  One at a time in this model. *)

Restoring(w) == pc[w] \in RestoreLabels
Whole(z) == \A i \in DOMAIN Files : z.files[Files[i]] # Torn

(* History: the interface does not run and the archive has it whole. *)
AwgRestored(w, z) ==
  /\ odd' = (odd \/ AwgMet(w))
  /\ awgAlone' = IF ~AwgMet(w) /\ awg = Down /\ z.awg # Torn /\ Sound(z.awg) THEN {w} ELSE {}
  /\ kept' = NoFile

(* Mutant: the first file of the archive is skipped. *)
RestoreBeginLate(w) ==
  /\ ~\E v \in Workers : Restoring(v)
  /\ \E z \in archives :
       /\ zip' = [zip EXCEPT ![w] = z]
       /\ whole' = (whole /\ Whole(z))
       /\ abroad' = (abroad \/ z = ForeignArchive)
       /\ alone' = IF Whole(z) /\ \A v \in Workers : pc[v] \notin {"edit", "save"} THEN {w} ELSE {}
       /\ AwgRestored(w, z)
  /\ moved' = None
  /\ Begin(w, "create")
  /\ todo' = [todo EXCEPT ![w] = 2]
  /\ UNCHANGED <<files, encryptionKey, archives, used, faults, proc, list, restarted, extracted, awgConf, awg, enabled, awgLocals>>

RestoreBegin(w) ==
  /\ ~\E v \in Workers : Restoring(v)
  /\ \E z \in archives :
       /\ zip' = [zip EXCEPT ![w] = z]
       /\ whole' = (whole /\ Whole(z))
       /\ abroad' = (abroad \/ z = ForeignArchive)
       /\ alone' = IF Whole(z) /\ \A v \in Workers : pc[v] \notin {"edit", "save"} THEN {w} ELSE {}
       /\ AwgRestored(w, z)
  /\ moved' = None
  /\ Begin(w, "create")
  /\ UNCHANGED <<files, encryptionKey, archives, used, faults, proc, todo, list, restarted, extracted, awgConf, awg, enabled, awgLocals>>

(* os.Create, then io.Copy. *)
RestoreCreate(w) ==
  /\ At(w, "create")
  /\ disk' = [disk EXCEPT ![Files[todo[w]]] = Torn]
  /\ Goto(w, "write")
  /\ UNCHANGED <<conf, wg0, encryptionKey, archives, used, reqs, faults, proc, zip, todo, list, history>>

Unpack(w) == IF zip[w].awg = NoFile THEN "down" ELSE "unpack"

RestoreWrite(w) ==
  /\ At(w, "write")
  /\ LET f == Files[todo[w]] IN disk' = [disk EXCEPT ![f] = zip[w].files[f]]
  /\ NextFile(w, "create", Unpack(w))
  /\ UNCHANGED <<conf, wg0, encryptionKey, archives, used, reqs, faults, proc, zip, list, history>>

(* A file that cannot be created or written is logged and passed over. *)
RestoreFileFails(w) ==
  /\ proc = "up" /\ pc[w] \in {"create", "write"} /\ faults < MaxFaults
  /\ faults' = faults + 1
  /\ NextFile(w, "create", Unpack(w))
  /\ whole' = FALSE /\ alone' = {}
  /\ UNCHANGED <<files, encryptionKey, archives, used, reqs, proc, zip, list, abroad, moved, restarted>>

(* The interface's file is unpacked below the working directory, and stays *)
(* there when the restore is over.                                         *)
UnpackStep(w, from, to) ==
  /\ At(w, from)
  /\ Goto(w, to)
  /\ UNCHANGED <<files, encryptionKey, archives, used, reqs, proc, zip, todo, list, history>>

UnpackCreate(w) ==
  /\ UnpackStep(w, "unpack", "unpacked")
  /\ extracted' = Torn
  /\ UNCHANGED <<faults, awgVars>>

UnpackWrite(w) ==
  /\ UnpackStep(w, "unpacked", "down")
  /\ extracted' = zip[w].awg
  /\ UNCHANGED <<faults, awgVars>>

UnpackFails(w) ==
  /\ UnpackStep(w, pc[w], "down")
  /\ pc[w] \in {"unpack", "unpacked"} /\ faults < MaxFaults
  /\ faults' = faults + 1
  /\ awgAlone' = {}
  /\ UNCHANGED <<extracted, awgConf, awg, enabled, awgLocals, odd, kept>>

(* awg-quick down is called with the name of the file, awg0.conf, which is *)
(* not the name of an interface, so that only wg0 goes down.               *)
RestoreDown(w) ==
  /\ At(w, "down")
  /\ wg0' = Down
  /\ Goto(w, "conf")
  /\ UNCHANGED <<disk, conf, encryptionKey, archives, used, reqs, faults, proc, zip, todo, list, history>>

RestoreConf(w) ==
  /\ At(w, "conf")
  /\ conf' = zip[w].conf
  /\ Goto(w, IF extracted = NoFile THEN "generate" ELSE "restorecopy")
  /\ UNCHANGED <<disk, wg0, encryptionKey, archives, used, reqs, faults, proc, zip, todo, list, history>>

(* Whatever lies below the working directory is installed. *)
RestoreCopy(w) ==
  /\ UnpackStep(w, "restorecopy", "generate")
  /\ awgConf' = extracted
  /\ UNCHANGED <<faults, extracted, awg, enabled, awgLocals, awgHist>>

(* generateWgConfig: an empty key file gets a new key. *)
GenerateWgConfig(f) ==
  \E k \in IF f.srvkey = Torn THEN Keys \ used ELSE {f.srvkey} :
    /\ disk' = [f EXCEPT !.srvkey = k]
    /\ conf' = Rendered(disk')
    /\ used' = used \cup {k}

RestoreGenerate(w) ==
  /\ At(w, "generate")
  /\ IF disk.config = Torn THEN UNCHANGED <<disk, conf, used>> ELSE GenerateWgConfig(disk)
  /\ Goto(w, "cycle")
  /\ UNCHANGED <<wg0, encryptionKey, archives, reqs, faults, proc, zip, todo, list, history>>

(* restartServerDirect. *)
RestoreCycle(w) ==
  /\ At(w, "cycle")
  /\ wg0' = Down
  /\ Goto(w, "quickup")
  /\ UNCHANGED <<disk, conf, encryptionKey, archives, used, reqs, faults, proc, zip, todo, list, history>>

RestoreUp(w) ==
  /\ At(w, "quickup")
  /\ wg0' = IF wg0 = Down THEN conf ELSE wg0
  /\ moved' = IF w \in alone THEN zip[w].files ELSE None
  /\ restarted' = FALSE /\ alone' = alone \ {w}
  /\ IF extracted = NoFile
     THEN Reset(w)
     ELSE Goto(w, "restoreenable") /\ UNCHANGED <<zip, todo, list>>
  /\ UNCHANGED <<disk, conf, encryptionKey, archives, used, reqs, faults, proc, whole, abroad>>

RestoreEnable(w) ==
  /\ UnpackStep(w, "restoreenable", "restoreup")
  /\ EnableNow
  /\ UNCHANGED <<faults, extracted, awgConf, awgLocals, awgHist>>

RestoreAwgUp(w) ==
  /\ At(w, "restoreup")
  /\ awg' = IF CanUp THEN awgConf ELSE awg
  /\ kept' = IF w \in awgAlone THEN zip[w].awg ELSE kept
  /\ awgAlone' = awgAlone \ {w}
  /\ Reset(w)
  /\ UNCHANGED <<files, encryptionKey, archives, used, reqs, faults, proc, history,
                 extracted, awgConf, enabled, awgLocals, odd>>

-----------------------------------------------------------------------------
(* The process is killed, or the machine reboots and wg0 is gone. *)
Crash ==
  /\ proc = "up" /\ faults < MaxFaults
  /\ faults' = faults + 1
  /\ proc' = "down"
  /\ \E reboot \in BOOLEAN :
       /\ wg0' = IF reboot THEN Down ELSE wg0
       /\ AwgCut(reboot)
  /\ pc' = [w \in Workers |-> "idle"]
  /\ zip' = [w \in Workers |-> NoArchive]
  /\ todo' = [w \in Workers |-> 1]
  /\ list' = [w \in Workers |-> Torn]
  /\ whole' = (whole /\ ~\E w \in Workers : Restoring(w))
  /\ alone' = {}
  /\ UNCHANGED <<disk, conf, encryptionKey, archives, used, reqs, extracted, abroad, moved, restarted>>

(* InitEncryptionKey: a key file without a whole key gets a new one. *)
InitEncryptionKey(f) ==
  IF f.key = Torn
  THEN {[f EXCEPT !.key = k] : k \in Keys \ (used \cup {f.srvkey})}
  ELSE {f}

(* createDefaultConfig also makes a new server key. *)
LoadConfig(f) ==
  IF f.config = Torn
  THEN {[f EXCEPT !.config = Default, !.srvkey = k] : k \in Keys \ (used \cup {f.key})}
  ELSE {f}

(* main() in one step, for ServerConfig has it piece by piece; here it can *)
(* be cut off before it begins.  A wg0 that runs keeps its address and     *)
(* gives its key to the file once wg0.conf has been written.               *)
Start ==
  /\ proc = "down"
  /\ proc' = "up"
  /\ \E f \in InitEncryptionKey(disk) : \E g \in LoadConfig(f) :
       \E k \in IF g.srvkey = Torn THEN Keys \ (used \cup {g.key}) ELSE {g.srvkey} :
         LET h == [g EXCEPT !.srvkey = k] IN
           /\ encryptionKey' = f.key
           /\ conf' = Rendered(h)
           /\ wg0' = IF wg0 = Down THEN conf' ELSE [conf' EXCEPT !.config = wg0.config]
           /\ disk' = IF wg0 = Down THEN h ELSE [h EXCEPT !.srvkey = wg0.srvkey]
           /\ used' = used \cup {h.key, h.srvkey}
  /\ restarted' = TRUE
  /\ UNCHANGED <<archives, reqs, faults, extracted, awgVars, locals, whole, abroad, alone, moved>>

-----------------------------------------------------------------------------
Request(w) ==
  \/ EditLoad(w) \/ EditTrunc(w) \/ EditWrite(w)
  \/ BackupBegin(w) \/ BackupFile(w) \/ BackupConf(w)
  \/ RestoreCreate(w) \/ RestoreWrite(w) \/ RestoreFileFails(w)
  \/ RestoreDown(w) \/ RestoreConf(w) \/ RestoreGenerate(w)
  \/ RestoreCycle(w) \/ RestoreUp(w)

AwgRestore(w) ==
  \/ RestoreBegin(w) \/ UnpackCreate(w) \/ UnpackWrite(w) \/ UnpackFails(w)
  \/ RestoreCopy(w) \/ RestoreEnable(w) \/ RestoreAwgUp(w)

Worker(w) ==
  \/ Request(w) /\ UNCHANGED <<extracted, awgVars>>
  \/ AwgRestore(w)
  \/ AwgRequest(w) /\ UNCHANGED <<files, encryptionKey, archives, used, extracted, zip, todo, list, history>>

Next == (\E w \in Workers : Worker(w)) \/ Crash \/ Start

Spec == Init /\ [][Next]_vars

-----------------------------------------------------------------------------
(***************************************************************************)
(* Properties.                                                             *)
(***************************************************************************)

IsFile(f, v) ==
  \/ v = Torn
  \/ f = "config" /\ v \in Sites \cup {Default}
  \/ f = "peers" /\ /\ v.of \in Sites /\ v.rev \in 0 .. MaxRequests
                    /\ v.sealed \in Seq(Keys) /\ Len(v.sealed) \in 1 .. 2 + faults
  \/ f \in {"srvkey", "key"} /\ v \in Keys

(* The variables hold what the code can put there.  A stored password is   *)
(* never in the clear, nor sealed more often than the starts of the        *)
(* process, each with the key it found, and one foreign archive explain.   *)
TypeOK ==
  /\ \A i \in DOMAIN Files : IsFile(Files[i], disk[Files[i]])
  /\ \A z \in archives, i \in DOMAIN Files : IsFile(Files[i], z.files[Files[i]])
  /\ encryptionKey \in Keys /\ used \subseteq Keys
  /\ reqs \in 0 .. MaxRequests /\ faults \in 0 .. MaxFaults
  /\ Cardinality({w \in Workers : Restoring(w)}) <= 1
  /\ \A w \in Workers :
       /\ todo[w] \in 1 .. Len(Files) + 1
       /\ pc[w] \in {"create", "write", "zip"} => todo[w] <= Len(Files)
       /\ pc[w] \in {"edit", "save"} <=> list[w] # Torn
       /\ form[w] # NoForm => pc[w] \in AwgLabels
  /\ \A c \in {awgConf, awg, extracted, kept} \cup {z.awg : z \in archives} :
       c \in {Torn, Down, NoFile} \/ c.rev \in 0 .. MaxRequests
  /\ awgConf # Down /\ awg # NoFile /\ enabled \in BOOLEAN

Readable == disk.peers.sealed = <<disk.key>>

(* Through any number of edits, backups, restores of this server's own     *)
(* archives, restarts and crashes elsewhere, a stored password is sealed   *)
(* exactly once, with the key the next start will read (loadPeers and      *)
(* savePeers decrypt and encrypt the whole list every time).               *)
PasswordsReadable ==
  whole /\ ~abroad /\ proc = "up" /\ disk.peers # Torn /\ ~(\E w \in Workers : Restoring(w))
    => Readable /\ disk.key = encryptionKey

(* A restore during which nothing else edited or failed leaves the files   *)
(* of the archive, of whichever server, and wg0 made from them; every      *)
(* restart or reboot up to the next edit keeps them, and from the first    *)
(* one on the passwords are decrypted with the archive's key.              *)
RestoreSticks ==
  moved # None /\ proc = "up" =>
    /\ disk = moved
    /\ conf = Rendered(moved) /\ wg0 = conf
    /\ restarted => encryptionKey = moved.key

(* The form of an AmneziaWG interface has no private key, and a save must  *)
(* carry it over from the file that it replaces: while requests about the  *)
(* interface do not meet, none is cut off and none saves a file in which   *)
(* the code finds no key (there is none, or "PrivateKey = " is written in  *)
(* another way), the placeholder never stays.                              *)
AwgKeyKept ==
  ~odd /\ awgConf \notin {NoFile, Torn} => awgConf.key # Placeholder

(* An interface that was imported, brought up, saved while it ran, or      *)
(* restored onto a server where it did not run, is the one in the file,    *)
(* runs, and runs again after every restart and reboot, until the next     *)
(* request about it (README, autostart; CHANGELOG, persistence).           *)
AwgSticks ==
  kept # NoFile => awgConf = kept /\ enabled /\ awg = kept

(* What the repository says, and the code does not do: the state restored  *)
(* on another server is complete (README, section on backups), so that its *)
(* passwords can be read after the next restart.                           *)
PasswordSurvivesRestore ==
  whole /\ restarted /\ Idle /\ disk.peers # Torn => Readable
=============================================================================
