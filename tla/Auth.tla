--------------------------------- MODULE Auth ---------------------------------
(***************************************************************************)
(* The one password of the server and the tokens a browser keeps           *)
(* (src/main.go): the password in memory and in data/.auth, the signing    *)
(* secret in memory and in data/.secret, the count of wrong attempts.      *)
(* None of them is under a lock.  A hash stands for its password, and a    *)
(* signature for the secret it was made with.                              *)
(***************************************************************************)
EXTENDS ManagerProcess

CONSTANTS
  Passwords, Default,     \* Default: WG_MANAGER_PASSWORD, or "admin"
  Secrets,
  NoFile, Torn,           \* a file that is missing; truncated and not yet written
  Left,                   \* what an earlier process may have left: files, tokens
  TokenTtl,               \* 168 hours
  MaxAttempts, BlockTime  \* five, five minutes

VARIABLES
  passwordHash, authFile,
  authSecret, secretFile,
  passwordAttempts, blockedUntil,
  tokens,               \* issued
  pw, count,            \* per worker: password of the request, attempts it read
  (* history *)
  shaken,               \* files that two changes met at, or whose write was cut off or failed
  spent,                \* secrets that have been made
  wrongs                \* wrong attempts since a right one met none of them

authFiles  == <<authFile, secretFile>>
authMemory == <<passwordHash, authSecret, passwordAttempts, blockedUntil>>
authLocals == <<pw, count>>
authHist   == <<shaken, spent, wrongs>>
authVars   == <<authFiles, authMemory, tokens, authLocals, authHist>>

ASSUME AuthValues ==
  /\ Default \in Passwords
  /\ \A l \in Left : l.auth \in Passwords \cup {NoFile} /\ l.secret \in Secrets \cup {NoFile}
  /\ \A l \in Left : \A t \in l.tokens :
       t \in [pw : Passwords, secret : Secrets, expiry : Nat] /\ t.secret = l.secret
  /\ {TokenTtl, MaxAttempts, BlockTime} \subseteq Nat

(* Files and browsers as an earlier process, or none, has left them. *)
InitAuthState ==
  /\ \E l \in Left :
       authFile = l.auth /\ secretFile = l.secret /\ tokens = l.tokens /\ spent = {l.secret}
  /\ passwordHash = Torn /\ authSecret = NoFile
  /\ passwordAttempts = 0 /\ blockedUntil = 0
  /\ pw = [w \in Workers |-> Default]
  /\ count = [w \in Workers |-> 0]
  /\ shaken = {}
  /\ wrongs = 0

-----------------------------------------------------------------------------
(* Mutant: the error of reading .auth is dropped like the others. *)
ReadAuthAny ==
  /\ Boot("auth", "secret")
  /\ passwordHash' = authFile
  /\ UNCHANGED <<authFiles, authSecret, passwordAttempts, blockedUntil, tokens, authLocals, authHist>>

(* initAuth: an empty .auth is read as the hash of no password. *)
ReadAuth ==
  /\ Boot("auth", "secret")
  /\ authFile # NoFile
  /\ passwordHash' = authFile
  /\ UNCHANGED <<authFiles, authSecret, passwordAttempts, blockedUntil, tokens, authLocals, authHist>>

DefaultAuth ==
  /\ Boot("auth", "authwrite")
  /\ authFile = NoFile
  /\ passwordHash' = Default
  /\ authFile' = Torn
  /\ UNCHANGED <<secretFile, authSecret, passwordAttempts, blockedUntil, tokens, authLocals, authHist>>

DefaultAuthWrite ==
  /\ Boot("authwrite", "secret")
  /\ authFile' = Default
  /\ UNCHANGED <<secretFile, authMemory, tokens, authLocals, authHist>>

(* initAuthSecret: a file of fewer than 32 bytes is as good as none. *)
ReadSecret ==
  /\ Boot("secret", "config")
  /\ secretFile \in Secrets
  /\ authSecret' = secretFile
  /\ UNCHANGED <<authFiles, passwordHash, passwordAttempts, blockedUntil, tokens, authLocals, authHist>>

NewSecret ==
  /\ Boot("secret", "secretwrite")
  /\ secretFile \notin Secrets
  /\ \E s \in Secrets \ spent : authSecret' = s /\ spent' = spent \cup {s}
  /\ secretFile' = Torn
  /\ UNCHANGED <<authFile, passwordHash, passwordAttempts, blockedUntil, tokens, authLocals,
                 shaken, wrongs>>

(* Mutant: the new secret is not stored. *)
NewSecretUnwritten ==
  /\ Boot("secretwrite", "config")
  /\ UNCHANGED authVars

NewSecretWrite ==
  /\ Boot("secretwrite", "config")
  /\ secretFile' = authSecret
  /\ UNCHANGED <<authFile, authMemory, tokens, authLocals, authHist>>

(* The errors of both writes are dropped. *)
WriteFails(file, from, to) ==
  /\ boot = from /\ boot' = to
  /\ Fault
  /\ shaken' = shaken \cup {file}
  /\ UNCHANGED <<now, pc, reqs, authFiles, authMemory, tokens, authLocals, spent, wrongs>>

AuthBoot ==
  \/ ReadAuth \/ DefaultAuth \/ DefaultAuthWrite \/ WriteFails("auth", "authwrite", "secret")
  \/ ReadSecret \/ NewSecret \/ NewSecretWrite \/ WriteFails("secret", "secretwrite", "config")

-----------------------------------------------------------------------------
(* generateToken, validateToken. *)
Token(p) == [pw |-> p, secret |-> authSecret, expiry |-> now + TokenTtl]

Valid(t) == t.secret = authSecret /\ t.pw = passwordHash /\ now <= t.expiry

(* requireAuth: the request carries a token that is valid. *)
Authorized == \E t \in tokens : Valid(t)

(* checkPassword: while blocked nothing is compared. *)
Login(w) ==
  /\ Begin(w, "check")
  /\ \E p \in Passwords : pw' = [pw EXCEPT ![w] = p]
  /\ UNCHANGED <<authFiles, authMemory, tokens, count, authHist>>

Forget(w) ==
  /\ pw' = [pw EXCEPT ![w] = Default]
  /\ count' = [count EXCEPT ![w] = 0]

LoginBlocked(w) ==
  /\ Step(w, "check", "idle")
  /\ now < blockedUntil
  /\ Forget(w)
  /\ UNCHANGED <<authFiles, authMemory, tokens, authHist>>

Met(w) == \E v \in Workers \ {w} : pc[v] = "count"

(* Mutant: a right password leaves the count. *)
LoginRightKept(w) ==
  /\ Step(w, "check", "issue")
  /\ now >= blockedUntil
  /\ pw[w] = passwordHash
  /\ wrongs' = IF Met(w) THEN wrongs ELSE 0
  /\ UNCHANGED <<authFiles, authMemory, tokens, authLocals, shaken, spent>>

LoginRight(w) ==
  /\ Step(w, "check", "issue")
  /\ now >= blockedUntil
  /\ pw[w] = passwordHash
  /\ passwordAttempts' = 0
  /\ wrongs' = IF Met(w) THEN wrongs ELSE 0
  /\ UNCHANGED <<authFiles, passwordHash, authSecret, blockedUntil, tokens, authLocals, shaken, spent>>

LoginIssue(w) ==
  /\ Step(w, "issue", "idle")
  /\ tokens' = tokens \cup {Token(passwordHash)}
  /\ Forget(w)
  /\ UNCHANGED <<authFiles, authMemory, authHist>>

(* passwordAttempts++ reads, and writes, with others in between. *)
LoginWrong(w) ==
  /\ Step(w, "check", "count")
  /\ now >= blockedUntil
  /\ pw[w] # passwordHash
  /\ count' = [count EXCEPT ![w] = passwordAttempts]
  /\ wrongs' = wrongs + 1
  /\ UNCHANGED <<authFiles, authMemory, tokens, pw, shaken, spent>>

LoginCount(w) ==
  /\ Step(w, "count", "block")
  /\ passwordAttempts' = count[w] + 1
  /\ UNCHANGED <<authFiles, passwordHash, authSecret, blockedUntil, tokens, authLocals, authHist>>

LoginAnswer(w) ==
  /\ Step(w, "block", "idle")
  /\ blockedUntil' = IF passwordAttempts >= MaxAttempts THEN now + BlockTime ELSE blockedUntil
  /\ Forget(w)
  /\ UNCHANGED <<authFiles, passwordHash, authSecret, passwordAttempts, tokens, authHist>>

-----------------------------------------------------------------------------
(* changePasswordHandler: memory first, then the file, whose errors are    *)
(* dropped; behind requireAuth.                                            *)
Changing(w) == boot = "up" /\ pc[w] \in {"authtrunc", "authstore"}

ChangePassword(w) ==
  /\ Authorized
  /\ Begin(w, "authtrunc")
  /\ \E p \in Passwords :
       /\ pw' = [pw EXCEPT ![w] = p]
       /\ passwordHash' = p
  /\ shaken' = IF \E v \in Workers \ {w} : Changing(v) THEN shaken \cup {"auth"} ELSE shaken
  /\ UNCHANGED <<authFiles, authSecret, passwordAttempts, blockedUntil, tokens, count,
                 spent, wrongs>>

AuthTrunc(w) ==
  /\ Step(w, "authtrunc", "authstore")
  /\ authFile' = Torn
  /\ UNCHANGED <<secretFile, authMemory, tokens, authLocals, authHist>>

(* Mutant: the file gets the password there was when the process began. *)
AuthStoreDefault(w) ==
  /\ Step(w, "authstore", "idle")
  /\ authFile' = Default
  /\ Forget(w)
  /\ UNCHANGED <<secretFile, authMemory, tokens, authHist>>

AuthStore(w) ==
  /\ Step(w, "authstore", "idle")
  /\ authFile' = pw[w]
  /\ Forget(w)
  /\ UNCHANGED <<secretFile, authMemory, tokens, authHist>>

AuthStoreFails(w) ==
  /\ At(w, "authstore") /\ Fault
  /\ Goto(w, "idle")
  /\ shaken' = shaken \cup {"auth"}
  /\ Forget(w)
  /\ UNCHANGED <<now, boot, reqs, authFiles, authMemory, tokens, spent, wrongs>>

AuthStep(w) ==
  \/ Login(w) \/ LoginBlocked(w) \/ LoginRight(w) \/ LoginIssue(w)
  \/ LoginWrong(w) \/ LoginCount(w) \/ LoginAnswer(w)
  \/ ChangePassword(w) \/ AuthTrunc(w) \/ AuthStore(w) \/ AuthStoreFails(w)

(* The process dies. *)
AuthCut ==
  /\ passwordHash' = Torn /\ authSecret' = NoFile
  /\ passwordAttempts' = 0 /\ blockedUntil' = 0
  /\ pw' = [w \in Workers |-> Default]
  /\ count' = [w \in Workers |-> 0]
  /\ shaken' = IF boot = "authwrite" \/ \E w \in Workers : Changing(w)
                THEN shaken \cup {"auth"} ELSE shaken
  /\ wrongs' = 0
  /\ UNCHANGED <<authFiles, tokens, spent>>
=============================================================================
