------------------------------ MODULE Components ------------------------------
(***************************************************************************)
(* The job of configurePeerComponents (src/main.go): it lists the firmware *)
(* components of a peer's router, has the missing ones installed, which    *)
(* reboots the router, waits three minutes and lists them again            *)
(* (src/router_components.go, src/router.go).  The status file is one for  *)
(* all peers.                                                              *)
(***************************************************************************)
EXTENDS KeeneticRouter

VARIABLES
  compStatus,     \* components-apply.status
  missing,        \* per worker: toInstall
  noConfig        \* workers whose loadConfig gave no config

compVars == <<compStatus, missing, noConfig>>

InitComponents ==
  /\ compStatus = "idle"
  /\ missing = [w \in Workers |-> {}]
  /\ noConfig = {}

(* The request reads config.json, which a save may just have truncated;    *)
(* the error is dropped.  The goroutine reads globalCfg.WanInterface.      *)
ComponentsBegin(w) ==
  /\ Begin(w, "c.login")
  /\ compStatus' = "running"
  /\ noConfig' = noConfig \ {w}
  /\ UNCHANGED missing

ComponentsBeginTorn(w) ==
  /\ Comes(w)
  /\ Fault
  /\ Goto(w, "c.login")
  /\ compStatus' = "running"
  /\ noConfig' = noConfig \cup {w}
  /\ UNCHANGED <<router, sessions, clean, missing>>

JobEnds(w, s) ==
  /\ compStatus' = s
  /\ missing' = [missing EXCEPT ![w] = {}]
  /\ UNCHANGED noConfig

ComponentsLogin(w) ==
  /\ At(w, "c.login")
  /\ \/ w \notin noConfig /\ LoggedIn(w, "c.list") /\ UNCHANGED compVars
     \/ LoginFailed(w, "idle") /\ JobEnds(w, "failed")

(* Nobody recovers a panic of a goroutine: the process dies with it. *)
Panics(w) == At(w, "c.login") /\ w \in noConfig

(* keeneticGetComponents; findComponent. *)
GetComponents(w, label) == Read(w, label)

ToInstall == Targets \ comps

ComponentsList(w) ==
  /\ At(w, "c.list")
  /\ \/ /\ GetComponents(w, "c.install")
        /\ ToInstall # {}
        /\ missing' = [missing EXCEPT ![w] = ToInstall]
        /\ UNCHANGED <<compStatus, noConfig>>
     \/ ToInstall = {} /\ GetComponents(w, "idle") /\ JobEnds(w, "completed")
     \/ Failed(w, running, "idle") /\ JobEnds(w, "failed")

(* keeneticBatchInstallComponents; here the body of the answer is read. *)
Install(w) ==
  /\ At(w, "c.install")
  /\ \/ Read(w, "c.commit") /\ UNCHANGED compVars
     \/ Failed(w, running, "idle") /\ JobEnds(w, "failed")

Commit(w) ==
  /\ At(w, "c.commit")
  /\ \/ /\ w \in sessions
        /\ staged' = staged \cup missing[w]
        /\ compStatus' = "waiting_reboot"
        /\ Goto(w, "c.wait")
        /\ UNCHANGED <<running, startup, comps, sessions, clean, reqs, faults, missing, noConfig>>
     \/ /\ w \in sessions /\ Fault
        /\ staged' \in {staged, staged \cup missing[w]}
        /\ Goto(w, "idle")
        /\ clean' = [clean EXCEPT ![w] = FALSE]
        /\ sessions' = sessions \ {w}
        /\ JobEnds(w, "failed")
        /\ UNCHANGED <<running, startup, comps, reqs>>
     \/ w \notin sessions /\ Failed(w, running, "idle") /\ JobEnds(w, "failed")
     \/ Ignored(w, "c.wait") /\ compStatus' = "waiting_reboot" /\ UNCHANGED <<missing, noConfig>>

(* After 180 s the router may be back, or may not have gone down yet; the  *)
(* old client goes on when the new login fails.                            *)
Reconnect(w) ==
  /\ At(w, "c.wait")
  /\ \/ LoggedIn(w, "c.verify")
     \/ Fault /\ Goto(w, "c.verify") /\ clean' = [clean EXCEPT ![w] = FALSE]
        /\ UNCHANGED <<router, sessions, reqs>>
  /\ UNCHANGED compVars

(* Mutant: one of the components being there is enough. *)
VerifyOne(w) ==
  /\ At(w, "c.verify")
  /\ GetComponents(w, "idle")
  /\ JobEnds(w, IF missing[w] \cap comps # {} THEN "completed" ELSE "failed")

Verify(w) ==
  /\ At(w, "c.verify")
  /\ \/ GetComponents(w, "idle") /\ JobEnds(w, IF missing[w] \subseteq comps THEN "completed" ELSE "failed")
     \/ Failed(w, running, "idle") /\ JobEnds(w, "failed")

ComponentsStep(w) ==
  \/ ComponentsBegin(w) \/ ComponentsBeginTorn(w) \/ ComponentsLogin(w)
  \/ ComponentsList(w) \/ Install(w) \/ Commit(w) \/ Reconnect(w) \/ Verify(w)

ComponentsCut ==
  /\ missing' = [w \in Workers |-> {}]
  /\ noConfig' = {}
  /\ UNCHANGED compStatus
=============================================================================
