-------------------------------- MODULE Amnezia --------------------------------
(***************************************************************************)
(* One AmneziaWG interface: its file below /etc/amnezia/amneziawg, the     *)
(* running interface, whether systemd starts it at boot, and the handlers  *)
(* importAmneziaConfig, saveAmneziaInterfaceConfig and                     *)
(* manageAmneziaInterface (src/main.go), which no lock keeps apart.        *)
(* Backup extends this module with archives and restores.                  *)
(*                                                                         *)
(* awg-quick and systemctl are external.  awg-quick wants the name of an   *)
(* interface whose file exists; up fails if the interface runs or the file *)
(* has no private key, down if it does not run.                            *)
(***************************************************************************)
EXTENDS Naturals

CONSTANTS
  Workers,              \* request goroutines that may run at once
  MaxRequests,          \* bound: requests in one behaviour
  MaxFaults,            \* bound: crashes and files that fail to be written
  Torn,                 \* a file truncated and not yet written
  Down,                 \* an interface that does not exist
  NoFile,               \* no such file
  Placeholder           \* the private key writeAmneziaConfig prints

(* "unread" is a private key that awg-quick reads and the code does not    *)
(* find, since its line does not begin with "PrivateKey = ".               *)
AwgKeys == {"own", "imported", "unread", "foreign", Placeholder}

(* None of what stands for a missing file or interface is a configuration. *)
ASSUME AmneziaAssumption ==
  /\ Placeholder \notin {"own", "imported", "unread", "foreign"}
  /\ NoFile # Torn /\ Down \notin {NoFile, Torn}
  /\ {Down, NoFile} \cap [key : AwgKeys, rev : Nat] = {}

VARIABLES
  pc, proc, reqs, faults,
  awgConf,              \* awg0.conf
  awg,                  \* awg0: the configuration it was brought up with
  enabled,              \* awg-quick@awg0
  form, ran,            \* per worker: configuration to write, wasRunning
  odd,                  \* history: requests met, or one was cut off, or edited no key
  awgAlone,             \* history: the request in progress that no other has met
  kept                  \* history: what the last request, undisturbed, brought up

awgLocals == <<form, ran>>
awgHist   == <<odd, awgAlone, kept>>
awgVars   == <<awgConf, awg, enabled, awgLocals, awgHist>>

(* A configuration: its key, and the request that wrote the rest. *)
AwgConf(key, n) == [key |-> key, rev |-> n]
NoForm == AwgConf(Placeholder, 0)

InitAwg ==
  /\ awgConf = AwgConf("own", 0)
  /\ awg = awgConf /\ enabled = TRUE
  /\ form = [w \in Workers |-> NoForm]
  /\ ran = [w \in Workers |-> FALSE]
  /\ odd = FALSE /\ awgAlone = {} /\ kept = awgConf

At(w, label) == proc = "up" /\ pc[w] = label
Goto(w, label) == pc' = [pc EXCEPT ![w] = label]

Begin(w, label) ==
  /\ At(w, "idle") /\ reqs < MaxRequests
  /\ reqs' = reqs + 1
  /\ Goto(w, label)

AwgLabels == {"import", "importwrite", "importup", "savedown", "savedisable", "savekey", "savetrunc",
              "savewrite", "awgup", "awgenable", "awgdown", "deldisable", "deldown", "delfile"}
RestoreLabels == {"create", "write", "unpack", "unpacked", "down", "conf", "restorecopy",
                  "generate", "cycle", "quickup", "restoreenable", "restoreup"}
AwgBusy(w) == pc[w] \in AwgLabels \cup RestoreLabels
AwgMet(w) == \E v \in Workers \ {w} : AwgBusy(v)

(* History: a request about the interface begins. *)
AwgMeets(w, blind) ==
  /\ odd' = (odd \/ AwgMet(w) \/ blind)
  /\ awgAlone' = IF AwgMet(w) THEN {} ELSE {w}
  /\ kept' = NoFile

AwgStep(w, from, to) ==
  /\ At(w, from)
  /\ Goto(w, to)
  /\ UNCHANGED <<proc, reqs, faults>>

AwgForget(w) ==
  /\ form' = [form EXCEPT ![w] = NoForm]
  /\ ran' = [ran EXCEPT ![w] = FALSE]
  /\ awgAlone' = awgAlone \ {w}

(* What a request wrote into a file that another has meanwhile removed or  *)
(* replaced is lost.                                                       *)
AwgWritten(w) == {form[w]} \cup IF w \in awgAlone THEN {} ELSE {awgConf}

-----------------------------------------------------------------------------
(* awg-quick and systemctl. *)
Sound(c) == IF c \in {NoFile, Torn} THEN c = Torn ELSE c.key # Placeholder
CanUp   == awg = Down /\ Sound(awgConf)
CanDown == awg # Down /\ awgConf # NoFile

(* enable --now starts a unit that systemd does not believe to be active;  *)
(* disable --now stops one that it does.                                   *)
EnableNow  == enabled' = TRUE /\ awg' \in {awg} \cup IF CanUp THEN {awgConf} ELSE {}
DisableNow == enabled' = FALSE /\ awg' \in {awg} \cup IF CanDown THEN {Down} ELSE {}

-----------------------------------------------------------------------------
(* importAmneziaConfig: the file, as it was posted, up, autostart.  When   *)
(* up fails the file is removed, also one that was there before.           *)
ImportBegin(w) ==
  /\ Begin(w, "import")
  /\ \E key \in {"imported", "unread"} : form' = [form EXCEPT ![w] = AwgConf(key, reqs')]
  /\ AwgMeets(w, FALSE)
  /\ UNCHANGED <<proc, faults, awgConf, awg, enabled, ran>>

ImportTrunc(w) ==
  /\ AwgStep(w, "import", "importwrite")
  /\ awgConf' = Torn
  /\ UNCHANGED <<awg, enabled, awgLocals, awgHist>>

ImportWrite(w) ==
  /\ AwgStep(w, "importwrite", "importup")
  /\ awgConf' \in AwgWritten(w)
  /\ UNCHANGED <<awg, enabled, awgLocals, awgHist>>

ImportUp(w) ==
  /\ AwgStep(w, "importup", "awgenable")
  /\ CanUp
  /\ awg' = awgConf
  /\ UNCHANGED <<awgConf, enabled, awgLocals, awgHist>>

ImportUpFails(w) ==
  /\ AwgStep(w, "importup", "idle")
  /\ ~CanUp
  /\ awgConf' = NoFile
  /\ AwgForget(w)
  /\ UNCHANGED <<awg, enabled, odd, kept>>

-----------------------------------------------------------------------------
(* saveAmneziaInterfaceConfig: the form has no private key; it is taken    *)
(* from the file that is about to be replaced, if it is found there.       *)
KeyFound(c) == c \notin {NoFile, Torn} /\ c.key # "unread"

SaveBegin(w) ==
  /\ Begin(w, IF awg # Down THEN "savedown" ELSE "savekey")
  /\ form' = [form EXCEPT ![w] = AwgConf(Placeholder, reqs')]
  /\ ran' = [ran EXCEPT ![w] = awg # Down]
  /\ AwgMeets(w, ~KeyFound(awgConf))
  /\ UNCHANGED <<proc, faults, awgConf, awg, enabled>>

SaveDown(w) ==
  /\ AwgStep(w, "savedown", "savedisable")
  /\ awg' = IF CanDown THEN Down ELSE awg
  /\ UNCHANGED <<awgConf, enabled, awgLocals, awgHist>>

SaveDisable(w) ==
  /\ AwgStep(w, "savedisable", "savekey")
  /\ DisableNow
  /\ UNCHANGED <<awgConf, awgLocals, awgHist>>

(* Mutant: the key is looked for where it has just been overwritten. *)
SaveKeyLate(w) ==
  /\ AwgStep(w, "savekey", "savetrunc")
  /\ UNCHANGED awgVars

SaveKey(w) ==
  /\ AwgStep(w, "savekey", "savetrunc")
  /\ form' = IF KeyFound(awgConf) THEN [form EXCEPT ![w].key = awgConf.key] ELSE form
  /\ UNCHANGED <<awgConf, awg, enabled, ran, awgHist>>

SaveTrunc(w) ==
  /\ AwgStep(w, "savetrunc", "savewrite")
  /\ awgConf' = Torn
  /\ UNCHANGED <<awg, enabled, awgLocals, awgHist>>

SaveWrite(w) ==
  /\ AwgStep(w, "savewrite", IF ran[w] THEN "awgup" ELSE "idle")
  /\ awgConf' \in AwgWritten(w)
  /\ IF ran[w] THEN UNCHANGED <<awgLocals, awgAlone>> ELSE AwgForget(w)
  /\ UNCHANGED <<awg, enabled, odd, kept>>

(* os.WriteFile fails: the file stays truncated, the interface down. *)
AwgWriteFails(w) ==
  /\ proc = "up" /\ pc[w] \in {"importwrite", "savewrite"} /\ faults < MaxFaults
  /\ faults' = faults + 1
  /\ Goto(w, "idle")
  /\ AwgForget(w)
  /\ odd' = TRUE
  /\ UNCHANGED <<proc, reqs, awgConf, awg, enabled, kept>>

-----------------------------------------------------------------------------
(* awg-quick up and the autostart, as a save of a running interface and    *)
(* the action "up" have them.                                              *)
AwgUp(w) ==
  /\ AwgStep(w, "awgup", "awgenable")
  /\ CanUp
  /\ awg' = awgConf
  /\ UNCHANGED <<awgConf, enabled, awgLocals, awgHist>>

AwgUpFails(w) ==
  /\ AwgStep(w, "awgup", "idle")
  /\ ~CanUp
  /\ AwgForget(w)
  /\ UNCHANGED <<awgConf, awg, enabled, odd, kept>>

(* Mutant: the interface is brought up and not enabled. *)
AwgEnableNot(w) ==
  /\ AwgStep(w, "awgenable", "idle")
  /\ AwgForget(w)
  /\ kept' = IF w \in awgAlone THEN awgConf ELSE kept
  /\ UNCHANGED <<awgConf, awg, enabled, odd>>

AwgEnable(w) ==
  /\ AwgStep(w, "awgenable", "idle")
  /\ EnableNow
  /\ AwgForget(w)
  /\ kept' = IF w \in awgAlone THEN awgConf ELSE kept
  /\ UNCHANGED <<awgConf, odd>>

(* manageAmneziaInterface: up, down, delete. *)
Manage(w, label) ==
  /\ Begin(w, label)
  /\ AwgMeets(w, FALSE)
  /\ UNCHANGED <<proc, faults, awgConf, awg, enabled, awgLocals>>

ManageUp(w)     == Manage(w, "awgup")
ManageDown(w)   == Manage(w, "awgdown")
ManageDelete(w) == Manage(w, "deldisable")

AwgDown(w) ==
  /\ AwgStep(w, "awgdown", "idle")
  /\ awg' = IF CanDown THEN Down ELSE awg
  /\ AwgForget(w)
  /\ UNCHANGED <<awgConf, enabled, odd, kept>>

DeleteDisable(w) ==
  /\ AwgStep(w, "deldisable", "deldown")
  /\ DisableNow
  /\ UNCHANGED <<awgConf, awgLocals, awgHist>>

DeleteDown(w) ==
  /\ AwgStep(w, "deldown", "delfile")
  /\ awg' = IF CanDown THEN Down ELSE awg
  /\ UNCHANGED <<awgConf, enabled, awgLocals, awgHist>>

DeleteFile(w) ==
  /\ AwgStep(w, "delfile", "idle")
  /\ awgConf' = NoFile
  /\ AwgForget(w)
  /\ UNCHANGED <<awg, enabled, odd, kept>>

AwgRequest(w) ==
  \/ ImportBegin(w) \/ ImportTrunc(w) \/ ImportWrite(w) \/ ImportUp(w) \/ ImportUpFails(w)
  \/ SaveBegin(w) \/ SaveDown(w) \/ SaveDisable(w) \/ SaveKey(w) \/ SaveTrunc(w) \/ SaveWrite(w)
  \/ AwgWriteFails(w) \/ AwgUp(w) \/ AwgUpFails(w) \/ AwgEnable(w)
  \/ ManageUp(w) \/ ManageDown(w) \/ ManageDelete(w)
  \/ AwgDown(w) \/ DeleteDisable(w) \/ DeleteDown(w) \/ DeleteFile(w)

(* The process dies and the interface stays; or the machine reboots, and   *)
(* systemd brings up what is enabled.                                      *)
AwgCut(reboot) ==
  /\ IF reboot
     THEN awg' = IF enabled /\ Sound(awgConf) THEN awgConf ELSE Down
     ELSE UNCHANGED awg
  /\ form' = [w \in Workers |-> NoForm]
  /\ ran' = [w \in Workers |-> FALSE]
  /\ odd' = (odd \/ \E w \in Workers : AwgBusy(w))
  /\ awgAlone' = {}
  /\ UNCHANGED <<awgConf, enabled, kept>>
=============================================================================
