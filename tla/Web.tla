---------------------------------- MODULE Web ----------------------------------
(***************************************************************************)
(* What one process of the server keeps in memory for its browsers: the    *)
(* password and the secret of Auth and the answers of RouterCache, whose   *)
(* requests are let through by a token of Auth.  They share the workers,   *)
(* the clock, and the death of the process.                                *)
(***************************************************************************)
EXTENDS Auth, RouterCache

vars == <<process, authVars, cacheVars>>

Init == InitProcess /\ InitAuthState /\ InitCache

(* withAuth: what begins, begins with a valid token. *)
CacheRequest(w) == CacheStep(w) /\ (pc[w] = "idle" => Authorized)

Starting ==
  \/ AuthBoot /\ UNCHANGED cacheVars
  \/ BootTtl /\ UNCHANGED authVars

Tick  == Pass /\ CacheTick /\ UNCHANGED authVars
Crash == Die /\ AuthCut /\ CacheCut

Next ==
  \/ Starting
  \/ \E w \in Workers : AuthStep(w) /\ UNCHANGED cacheVars
  \/ \E w \in Workers : CacheRequest(w) /\ UNCHANGED authVars
  \/ Flip /\ UNCHANGED authVars
  \/ Tick \/ Crash

Spec == Init /\ [][Next]_vars

-----------------------------------------------------------------------------
TypeOK ==
  /\ now \in 0 .. MaxTime /\ reqs \in 0 .. MaxRequests /\ faults \in 0 .. MaxFaults
  /\ boot \in {"auth", "authwrite", "secret", "secretwrite", "config", "up"}
  /\ authFile \in Passwords \cup {NoFile, Torn} /\ passwordHash \in Passwords \cup {Torn}
  /\ secretFile \in Secrets \cup {NoFile, Torn} /\ authSecret \in Secrets \cup {NoFile}
  /\ passwordAttempts \in 0 .. MaxRequests /\ blockedUntil \in 0 .. MaxTime + BlockTime
  /\ tokens \subseteq [pw : Passwords, secret : Secrets, expiry : Nat]
  /\ pw \in [Workers -> Passwords] /\ count \in [Workers -> Nat]
  /\ domain \in [Peers -> Domains \cup {Gone}] /\ {cfgTtl, ttl} \subseteq Ttls
  /\ \A p \in Peers : cache[p] # Gone => cache[p] \in Entry
  /\ shaken \subseteq {"auth", "secret"} /\ pick \in [Workers -> Ttls]
  /\ copy \in [Workers -> [Peers -> Domains \cup {Gone}]]
  /\ peer \in [Workers -> Peers] /\ dom \in [Workers -> Domains \cup {Gone}]

Quiet == boot = "up" /\ \A w \in Workers : pc[w] = "idle"

(* The password in force is the one a restart will find, unless two        *)
(* changes have met or one was cut off or could not be written             *)
(* (changePasswordHandler, initAuth).                                      *)
PasswordKept == Quiet /\ "auth" \notin shaken => passwordHash = authFile /\ passwordHash \in Passwords

(* A browser stays logged in: no restart, cut off where it may be, makes a *)
(* token invalid that was issued under the password in force and has not   *)
(* expired, unless a secret could not be written (initAuthSecret,          *)
(* validateToken).                                                         *)
TokensKept ==
  boot = "up" /\ "secret" \notin shaken => \A t \in tokens : t.pw = passwordHash /\ now <= t.expiry => Valid(t)

(* Logins are refused unseen only after as many wrong attempts as the code *)
(* allows since the last right one, however the unlocked counter is        *)
(* interleaved; wrong attempts that a right one met on their way still     *)
(* count (checkPassword).                                                  *)
BlockEarned == now < blockedUntil => wrongs >= MaxAttempts

(* What the browser is told of a peer's router was true, within the        *)
(* lifetime of such an answer and the duration of a check, of a router     *)
(* that was the peer's within that time: across edits of the peer, changes *)
(* of the lifetime and restarts (checkPeerRouter).                         *)
AnswerHonest ==
  last # Gone =>
    LET from == IF last.within > last.at THEN 0 ELSE last.at - last.within
    IN  \E h \in had, s \in states :
          /\ h[2] = last.peer /\ h[3] = s[2] /\ s[3] = last.available
          /\ {h[1], s[1]} \subseteq from .. last.at /\ h[1] <= s[1]

(* The entry of a removed peer leaves the cache with it, unless a check of *)
(* that peer was under way then, or the write that took the peer from the  *)
(* list was not its removal: a list posted, a stale one, or one that could *)
(* not be written (removePeer, clearRouterCache; saveConfig does not       *)
(* clear).                                                                 *)
CacheCleared ==
  \A p \in Peers : domain[p] = Gone /\ cache[p] # Gone =>
    \/ p \in late
    \/ \E w \in Workers : pc[w] = "clear" /\ peer[w] = p
    \/ \E w \in Workers : pc[w] \in {"editwrite", "removewrite"}
=============================================================================
