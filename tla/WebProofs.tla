------------------------------- MODULE WebProofs -------------------------------
(***************************************************************************)
(* Proofs about Web for any number of requests, passwords, secrets, peers, *)
(* lifetimes and crashes.                                                  *)
(***************************************************************************)
EXTENDS Web, FiniteSetTheorems, TLAPS

(* main() serves no request before it is up. *)
Shape ==
  /\ pc = [w \in Workers |-> pc[w]]
  /\ boot # "up" => \A w \in Workers : pc[w] = "idle"

CheckLabels == {"lookup", "probe", "store"}
EditLabels  == {"edit", "editwrite", "remove", "removewrite"}
CacheLabels == CheckLabels \cup EditLabels \cup {"clear", "ttl"}
AuthLabels  == {"check", "issue", "count", "block", "authtrunc", "authstore"}

Moves(w, label) == boot = "up" /\ boot' = boot /\ pc' = [pc EXCEPT ![w] = label]

LEMMA StepMoves ==
  ASSUME NEW w, NEW label, NEW from, Begin(w, label) \/ Step(w, from, label)
  PROVE  Moves(w, label)
BY DEF Begin, Step, At, Goto, Moves

LEMMA AuthMoves ==
  ASSUME NEW w \in Workers, AuthStep(w)
  PROVE  /\ pc[w] \in AuthLabels \cup {"idle"}
         /\ \E label \in AuthLabels \cup {"idle"} : Moves(w, label)
<1> USE StepMoves DEF AuthLabels, Step, Begin, At
<1>1. CASE Login(w) \/ LoginBlocked(w) \/ LoginRight(w) \/ LoginIssue(w)
  BY <1>1 DEF Login, LoginBlocked, LoginRight, LoginIssue
<1>2. CASE LoginWrong(w) \/ LoginCount(w) \/ LoginAnswer(w)
  BY <1>2 DEF LoginWrong, LoginCount, LoginAnswer
<1>3. CASE ChangePassword(w) \/ AuthTrunc(w) \/ AuthStore(w)
  BY <1>3 DEF ChangePassword, AuthTrunc, AuthStore
<1>4. CASE AuthStoreFails(w)
  BY <1>4 DEF AuthStoreFails, Goto, Moves
<1> QED
  BY <1>1, <1>2, <1>3, <1>4 DEF AuthStep

LEMMA CacheMoves ==
  ASSUME NEW w \in Workers, CacheStep(w)
  PROVE  /\ pc[w] \in CacheLabels \cup {"idle"}
         /\ \E label \in CacheLabels \cup {"idle"} : Moves(w, label)
<1> USE StepMoves DEF CacheLabels, CheckLabels, EditLabels, Step, Begin, At
<1>1. CASE CheckBegin(w) \/ LookupHit(w) \/ LookupMiss(w) \/ Probe(w) \/ Store(w)
  BY <1>1 DEF CheckBegin, LookupHit, LookupMiss, Probe, Store
<1>2. CASE UpdateDomain(w) \/ PostList(w) \/ RemovePeer(w)
  BY <1>2 DEF UpdateDomain, PostList, RemovePeer
<1>3. CASE PeersTrunc(w) \/ PeersWrite(w)
  BY <1>3 DEF PeersTrunc, PeersWrite
<1>4. CASE PeersFailed(w)
  BY <1>4 DEF PeersFailed, Goto, Moves
<1>5. CASE ClearRouterCache(w) \/ SaveTtl(w) \/ SetTtl(w)
  BY <1>5 DEF ClearRouterCache, SaveTtl, SetTtl
<1> QED
  BY <1>1, <1>2, <1>3, <1>4, <1>5 DEF CacheStep

LEMMA AuthBootMoves ==
  ASSUME AuthBoot
  PROVE  boot # "up" /\ boot' # "up" /\ UNCHANGED pc
BY DEF AuthBoot, ReadAuth, DefaultAuth, DefaultAuthWrite, ReadSecret, NewSecret, NewSecretWrite,
       WriteFails, Boot

LEMMA InitShape == Init => Shape
BY DEF Init, InitProcess, Shape

LEMMA StepShape == Shape /\ Next => Shape'
<1> SUFFICES ASSUME Shape, Next PROVE Shape'
  OBVIOUS
<1>1. ASSUME NEW w \in Workers, NEW label \in AuthLabels \cup CacheLabels \cup {"idle"}, Moves(w, label)
      PROVE  Shape'
  BY <1>1 DEF Shape, Moves, AuthLabels, CacheLabels, CheckLabels, EditLabels
<1>2. CASE Starting
  BY <1>2, AuthBootMoves DEF Starting, BootTtl, Boot, Shape
<1>3. CASE Flip \/ Tick
  BY <1>3 DEF Flip, Tick, Pass, process, Shape
<1>4. CASE Crash
  BY <1>4 DEF Crash, Die, Shape
<1> QED
  BY <1>1, <1>2, <1>3, <1>4, AuthMoves, CacheMoves DEF Next, CacheRequest

-----------------------------------------------------------------------------
(* The password.  Between the change in memory and the one on disk the     *)
(* worker holds the password that is in force.                             *)
PasswordInv ==
  /\ pw \in [Workers -> Passwords]
  /\ "auth" \notin shaken =>
       /\ boot = "auth" => authFile \in Passwords \cup {NoFile}
       /\ boot = "authwrite" => passwordHash = Default
       /\ boot \notin {"auth", "authwrite"} => passwordHash \in Passwords
       /\ boot \notin {"auth", "authwrite"} /\ (\A w \in Workers : ~Changing(w)) => authFile = passwordHash
       /\ \A w \in Workers : Changing(w) =>
            pw[w] = passwordHash /\ \A v \in Workers \ {w} : ~Changing(v)

LEMMA PasswordFrame ==
  ASSUME Shape, PasswordInv, NEW w \in Workers, NEW label, label \notin {"authtrunc", "authstore"},
         pc[w] \notin {"authtrunc", "authstore"}, Moves(w, label),
         UNCHANGED <<authFile, passwordHash>>, "auth" \notin shaken' => "auth" \notin shaken,
         pw' \in [Workers -> Passwords], \A v \in Workers \ {w} : pw'[v] = pw[v]
  PROVE  PasswordInv'
BY DEF Shape, PasswordInv, Moves, Changing

LEMMA PasswordRequests ==
  ASSUME Shape, PasswordInv, NEW w \in Workers, AuthStep(w)
  PROVE  PasswordInv'
<1> USE StepMoves DEF authFiles, authMemory, authHist, authLocals, Forget
<1>d. Default \in Passwords
  BY AuthValues
<1>1. CASE Login(w) \/ LoginBlocked(w) \/ LoginRight(w) \/ LoginIssue(w)
  BY <1>1, <1>d, PasswordFrame DEF Login, LoginBlocked, LoginRight, LoginIssue, Step, Begin, At, PasswordInv
<1>2. CASE LoginWrong(w) \/ LoginCount(w) \/ LoginAnswer(w)
  BY <1>2, <1>d, PasswordFrame DEF LoginWrong, LoginCount, LoginAnswer, Step, At, PasswordInv
<1>3. CASE ChangePassword(w)
  BY <1>3 DEF ChangePassword, Begin, At, Goto, Shape, PasswordInv, Changing
<1>4. CASE AuthTrunc(w)
  BY <1>4 DEF AuthTrunc, Step, At, Goto, Shape, PasswordInv, Changing
<1>5. CASE AuthStore(w)
  BY <1>5, <1>d DEF AuthStore, Step, At, Goto, Shape, PasswordInv, Changing
<1>6. CASE AuthStoreFails(w)
  BY <1>6, <1>d DEF AuthStoreFails, PasswordInv
<1> QED
  BY <1>1, <1>2, <1>3, <1>4, <1>5, <1>6 DEF AuthStep

LEMMA PasswordBoot ==
  ASSUME Shape, PasswordInv, AuthBoot
  PROVE  PasswordInv'
<1> USE AuthValues DEF PasswordInv, Boot, Changing, authFiles, authMemory, authHist, authLocals
<1>1. CASE ReadAuth \/ DefaultAuth \/ DefaultAuthWrite
  BY <1>1 DEF ReadAuth, DefaultAuth, DefaultAuthWrite
<1>2. CASE ReadSecret \/ NewSecret \/ NewSecretWrite
  BY <1>2 DEF ReadSecret, NewSecret, NewSecretWrite
<1>3. CASE WriteFails("auth", "authwrite", "secret") \/ WriteFails("secret", "secretwrite", "config")
  BY <1>3 DEF WriteFails
<1> QED
  BY <1>1, <1>2, <1>3 DEF AuthBoot

LEMMA InitPassword == Init => PasswordInv
BY AuthValues DEF Init, InitProcess, InitAuthState, PasswordInv, Changing

(* What the requests of the cache, the clock and the start leave alone. *)
LEMMA PasswordElsewhere ==
  ASSUME Shape, PasswordInv, UNCHANGED authVars,
         \/ Starting \/ Flip \/ Tick
         \/ \E w \in Workers : CacheStep(w)
  PROVE  PasswordInv'
<1> USE DEF authVars, authFiles, authMemory, authLocals, authHist
<1>1. CASE BootTtl
  BY <1>1 DEF BootTtl, Boot, Shape, PasswordInv, Changing
<1>2. CASE Flip \/ Tick
  BY <1>2 DEF Flip, Tick, Pass, process, PasswordInv, Changing
<1>3. ASSUME NEW w \in Workers, CacheStep(w) PROVE PasswordInv'
  <2>1. PICK label \in CacheLabels \cup {"idle"} : Moves(w, label)
    BY <1>3, CacheMoves
  <2> QED
    BY <1>3, <2>1, CacheMoves, PasswordFrame DEF CacheLabels, CheckLabels, EditLabels, PasswordInv
<1>4. CASE AuthBoot
  BY <1>4, PasswordBoot
<1> QED
  BY <1>1, <1>2, <1>3, <1>4 DEF Starting

LEMMA StepPassword ==
  ASSUME Shape, PasswordInv, Next
  PROVE  PasswordInv'
<1>1. CASE Starting
  BY <1>1, PasswordBoot, PasswordElsewhere DEF Starting
<1>2. ASSUME NEW w \in Workers, AuthStep(w) PROVE PasswordInv'
  BY <1>2, PasswordRequests
<1>3. ASSUME NEW w \in Workers, CacheRequest(w), UNCHANGED authVars PROVE PasswordInv'
  BY <1>3, PasswordElsewhere DEF CacheRequest
<1>4. CASE (Flip /\ UNCHANGED authVars) \/ Tick
  BY <1>4, PasswordElsewhere DEF Tick
<1>5. CASE Crash
  BY <1>5, AuthValues DEF Crash, Die, AuthCut, authFiles, PasswordInv, Changing
<1> QED
  BY <1>1, <1>2, <1>3, <1>4, <1>5 DEF Next

(* The password in memory is the one a restart will read, whatever the     *)
(* number of requests and crashes, unless two changes met or a write was   *)
(* cut off or refused (changePasswordHandler, initAuth).                   *)
THEOREM PasswordAlwaysKept == Spec => []PasswordKept
<1>1. Shape /\ PasswordInv /\ UNCHANGED vars => Shape' /\ PasswordInv'
  BY DEF Shape, PasswordInv, Changing, vars, process, authVars, authFiles, authMemory, authLocals, authHist
<1>2. PasswordInv => PasswordKept
  BY DEF PasswordInv, PasswordKept, Quiet, Changing
<1> QED
  BY <1>1, <1>2, InitShape, StepShape, InitPassword, StepPassword, PTL DEF Spec

-----------------------------------------------------------------------------
(* The tokens.  A secret is made only when the file has none, and then     *)
(* there is no token yet that another has signed.                          *)
TokenInv ==
  "secret" \notin shaken =>
    /\ \A t \in tokens : t.secret = secretFile /\ t.secret \in Secrets
    /\ boot \in {"secretwrite", "config", "up"} => authSecret \in Secrets
    /\ boot = "secretwrite" => tokens = {}
    /\ boot \in {"config", "up"} => authSecret = secretFile

LEMMA TokenRequests ==
  ASSUME TokenInv, NEW w \in Workers, AuthStep(w)
  PROVE  TokenInv'
<1>1. boot = "up" /\ boot' = "up"
  BY AuthMoves DEF Moves
<1>2. CASE LoginIssue(w)
  BY <1>1, <1>2 DEF LoginIssue, Token, TokenInv, authFiles, authMemory, authHist
<1>3. CASE ~LoginIssue(w)
  <2>1. UNCHANGED <<secretFile, authSecret, tokens>> /\ ("secret" \in shaken => "secret" \in shaken')
    BY <1>3 DEF AuthStep, Login, LoginBlocked, LoginRight, LoginWrong, LoginCount, LoginAnswer,
                ChangePassword, AuthTrunc, AuthStore, AuthStoreFails, authFiles, authMemory, authHist
  <2> QED
    BY <1>1, <2>1 DEF TokenInv
<1> QED
  BY <1>2, <1>3

LEMMA TokenBoot ==
  ASSUME TokenInv, AuthBoot
  PROVE  TokenInv'
<1> USE AuthValues DEF TokenInv, Boot, authFiles, authMemory, authHist, authLocals
<1>1. CASE ReadAuth \/ DefaultAuth \/ DefaultAuthWrite
  BY <1>1 DEF ReadAuth, DefaultAuth, DefaultAuthWrite
<1>2. CASE ReadSecret
  BY <1>2 DEF ReadSecret
<1>3. CASE NewSecret
  BY <1>3 DEF NewSecret
<1>4. CASE NewSecretWrite
  BY <1>4 DEF NewSecretWrite
<1>5. CASE WriteFails("auth", "authwrite", "secret") \/ WriteFails("secret", "secretwrite", "config")
  BY <1>5 DEF WriteFails
<1> QED
  BY <1>1, <1>2, <1>3, <1>4, <1>5 DEF AuthBoot

LEMMA StepTokens ==
  ASSUME TokenInv, Next
  PROVE  TokenInv'
<1> USE DEF authVars, authFiles, authMemory, authHist
<1>1. CASE Starting
  BY <1>1, TokenBoot DEF Starting, BootTtl, Boot, TokenInv
<1>2. ASSUME NEW w \in Workers, AuthStep(w) PROVE TokenInv'
  BY <1>2, TokenRequests
<1>3. ASSUME NEW w \in Workers, CacheRequest(w), UNCHANGED authVars PROVE TokenInv'
  BY <1>3, CacheMoves DEF CacheRequest, Moves, TokenInv
<1>4. CASE (Flip \/ Tick) /\ UNCHANGED authVars
  BY <1>4 DEF Flip, Tick, Pass, process, TokenInv
<1>5. CASE Crash
  BY <1>5 DEF Crash, Die, AuthCut, TokenInv
<1> QED
  BY <1>1, <1>2, <1>3, <1>4, <1>5 DEF Next, Tick

(* No restart, cut off where it may be, makes a token invalid that was     *)
(* issued under the password in force and has not expired (initAuthSecret, *)
(* validateToken).                                                         *)
THEOREM TokensAlwaysKept == Spec => []TokensKept
<1>1. ASSUME Init PROVE TokenInv
  <2>1. PICK l \in Left : secretFile = l.secret /\ tokens = l.tokens
    BY <1>1 DEF Init, InitAuthState
  <2>2. boot = "auth"
    BY <1>1 DEF Init, InitProcess
  <2> QED
    BY <2>1, <2>2, AuthValues DEF TokenInv
<1>2. TokenInv /\ UNCHANGED vars => TokenInv'
  BY DEF TokenInv, vars, process, authVars, authFiles, authMemory, authHist
<1>3. TokenInv => TokensKept
  BY DEF TokenInv, TokensKept, Valid
<1> QED
  BY <1>1, <1>2, <1>3, StepTokens, PTL DEF Spec

-----------------------------------------------------------------------------
(* The block.  Every count, and every one about to be written, stands for  *)
(* a wrong attempt.                                                        *)
BlockInv ==
  /\ now \in Nat /\ wrongs \in Nat /\ passwordAttempts \in Nat
  /\ count \in [Workers -> Nat]
  /\ blockedUntil \in Nat
  /\ passwordAttempts <= wrongs
  /\ \A w \in Workers : pc[w] = "count" => count[w] + 1 <= wrongs
  /\ now < blockedUntil => wrongs >= MaxAttempts

LEMMA BlockRequests ==
  ASSUME Shape, BlockInv, NEW w \in Workers, AuthStep(w)
  PROVE  BlockInv'
<1> USE AuthValues DEF Shape, BlockInv, Step, Begin, At, Goto, authMemory, authHist, authLocals
<1>1. CASE Login(w)
  BY <1>1 DEF Login
<1>2. CASE LoginBlocked(w) \/ LoginIssue(w)
  BY <1>2 DEF LoginBlocked, LoginIssue, Forget
<1>3. CASE LoginRight(w)
  <2>1. CASE Met(w)
    BY <1>3, <2>1 DEF LoginRight
  <2>2. CASE ~Met(w)
    BY <1>3, <2>2 DEF LoginRight, Met
  <2> QED
    BY <2>1, <2>2
<1>4. CASE LoginWrong(w)
  BY <1>4 DEF LoginWrong
<1>5. CASE LoginCount(w)
  BY <1>5 DEF LoginCount
<1>6. CASE LoginAnswer(w)
  BY <1>6 DEF LoginAnswer, Forget
<1>7. CASE ChangePassword(w) \/ AuthTrunc(w)
  BY <1>7 DEF ChangePassword, AuthTrunc
<1>8. CASE AuthStore(w) \/ AuthStoreFails(w)
  BY <1>8 DEF AuthStore, AuthStoreFails, Forget
<1> QED
  BY <1>1, <1>2, <1>3, <1>4, <1>5, <1>6, <1>7, <1>8 DEF AuthStep

LEMMA StepBlock ==
  ASSUME Shape, BlockInv, Next
  PROVE  BlockInv'
<1> USE DEF authVars, authMemory, authHist, authLocals
<1>1. CASE Starting
  <2>1. UNCHANGED <<now, pc, passwordAttempts, blockedUntil, count, wrongs>>
    BY <1>1 DEF Starting, BootTtl, AuthBoot, ReadAuth, DefaultAuth, DefaultAuthWrite, ReadSecret,
                NewSecret, NewSecretWrite, WriteFails, Boot
  <2> QED
    BY <2>1 DEF BlockInv
<1>2. ASSUME NEW w \in Workers, AuthStep(w) PROVE BlockInv'
  BY <1>2, BlockRequests
<1>3. ASSUME NEW w \in Workers, CacheRequest(w), UNCHANGED authVars PROVE BlockInv'
  <2>1. PICK label \in CacheLabels \cup {"idle"} : Moves(w, label)
    BY <1>3, CacheMoves DEF CacheRequest
  <2>2. now' = now
    BY <1>3 DEF CacheRequest, CacheStep, CheckBegin, LookupHit, LookupMiss, Probe, Store, UpdateDomain,
                PostList, RemovePeer, PeersTrunc, PeersWrite, PeersFailed, ClearRouterCache, SaveTtl, SetTtl,
                Begin, Step
  <2> QED
    BY <1>3, <2>1, <2>2 DEF Shape, BlockInv, Moves, CacheLabels, CheckLabels, EditLabels
<1>4. CASE (Flip \/ Tick) /\ UNCHANGED authVars
  BY <1>4 DEF Flip, Tick, Pass, process, BlockInv
<1>5. CASE Crash
  BY <1>5, AuthValues DEF Crash, Die, AuthCut, BlockInv
<1> QED
  BY <1>1, <1>2, <1>3, <1>4, <1>5 DEF Next, Tick

(* However many logins run at once over the counter nobody locks, they are *)
(* blocked only after as many wrong ones as the code allows                *)
(* (checkPassword).                                                        *)
THEOREM BlockAlwaysEarned == Spec => []BlockEarned
<1>1. Init => BlockInv
  BY AuthValues DEF Init, InitProcess, InitAuthState, BlockInv
<1>2. Shape /\ BlockInv /\ UNCHANGED vars => Shape' /\ BlockInv'
  BY DEF Shape, BlockInv, vars, process, authVars, authMemory, authHist, authLocals
<1>3. BlockInv => BlockEarned
  BY DEF BlockInv, BlockEarned
<1> QED
  BY <1>1, <1>2, <1>3, InitShape, StepShape, StepBlock, PTL DEF Spec

-----------------------------------------------------------------------------
(* The cache.  A check that is under way is about a peer that is there, or *)
(* was when the check was begun; while peers.json is truncated nobody is.  *)
Writing == \E w \in Workers : pc[w] \in {"editwrite", "removewrite"}

CacheInv ==
  /\ peer \in [Workers -> Peers]
  /\ domain \in [Peers -> Domains \cup {Gone}]
  /\ copy \in [Workers -> [Peers -> Domains \cup {Gone}]]
  /\ cache = [p \in Peers |-> cache[p]]
  /\ \A w \in Workers : pc[w] \in CheckLabels => domain[peer[w]] # Gone \/ peer[w] \in late \/ Writing
  /\ CacheCleared

(* The steps after which the peers of the list, the entries and the        *)
(* truncated files are what they were.                                     *)
LEMMA CacheFrame ==
  ASSUME Shape, CacheInv, NEW w \in Workers, NEW label \in {"idle", "lookup", "probe", "store", "edit", "remove", "ttl"},
         pc' = [pc EXCEPT ![w] = label], pc[w] \notin {"editwrite", "removewrite", "clear"},
         UNCHANGED <<domain, cache, late>>, peer' \in [Workers -> Peers],
         copy' \in [Workers -> [Peers -> Domains \cup {Gone}]],
         \A v \in Workers \ {w} : peer'[v] = peer[v],
         label \in CheckLabels => domain[peer'[w]] # Gone \/ (pc[w] \in CheckLabels /\ peer'[w] = peer[w])
  PROVE  CacheInv'
<1>1. \A v \in Workers \ {w} : pc'[v] = pc[v]
  BY DEF Shape
<1>2. Writing => Writing'
  BY <1>1 DEF Writing
<1>4. pc'[w] = label
  BY DEF Shape
<1>3. CacheCleared'
  <2>1. SUFFICES ASSUME NEW p \in Peers, domain[p] = Gone, cache[p] # Gone, p \notin late, ~Writing
                 PROVE  \E v \in Workers : pc'[v] = "clear" /\ peer'[v] = p
    BY <1>2 DEF CacheCleared, Writing
  <2>2. PICK v \in Workers : pc[v] = "clear" /\ peer[v] = p
    BY <2>1 DEF CacheInv, CacheCleared, Writing
  <2> QED
    BY <1>1, <2>2
<1> QED
  BY <1>1, <1>2, <1>3, <1>4 DEF CacheInv

LEMMA CacheChecks ==
  ASSUME Shape, CacheInv, NEW w \in Workers,
         CheckBegin(w) \/ LookupHit(w) \/ LookupMiss(w) \/ Probe(w) \/ Store(w)
  PROVE  CacheInv'
<1> USE CachedPeers DEF Step, Begin, At, Goto, CheckLabels, outside, cacheLocals
<1>n. (CHOOSE p \in Peers : TRUE) \in Peers /\ NoPeers \in [Peers -> Domains \cup {Gone}]
  BY DEF NoPeers
<1>t. peer \in [Workers -> Peers] /\ copy \in [Workers -> [Peers -> Domains \cup {Gone}]]
  BY DEF CacheInv
<1>1. CASE CheckBegin(w)
  <2>1. PICK p \in Peers : domain[p] # Gone /\ peer' = [peer EXCEPT ![w] = p]
    BY <1>1 DEF CheckBegin
  <2> QED
    BY <1>1, <1>t, <2>1, CacheFrame DEF CheckBegin
<1>2. CASE LookupHit(w)
  BY <1>2, <1>n, <1>t, CacheFrame DEF LookupHit, CheckOver
<1>3. CASE LookupMiss(w)
  BY <1>3, <1>t, CacheFrame DEF LookupMiss, cacheVars
<1>4. CASE Probe(w)
  BY <1>4, <1>t, CacheFrame DEF Probe
<1>5. CASE Store(w)
  <2>1. /\ pc[w] = "store" /\ pc' = [pc EXCEPT ![w] = "idle"]
        /\ domain' = domain /\ late' = late
        /\ cache' = [cache EXCEPT ![peer[w]] = [available |-> seen[w], ts |-> now]]
        /\ peer' = [peer EXCEPT ![w] = CHOOSE p \in Peers : TRUE]
        /\ copy' = [copy EXCEPT ![w] = NoPeers]
    BY <1>5 DEF Store, CheckOver
  <2>2. domain[peer[w]] # Gone \/ peer[w] \in late \/ Writing
    BY <2>1 DEF CacheInv
  <2>3. \A v \in Workers \ {w} : pc'[v] = pc[v] /\ peer'[v] = peer[v]
    BY <1>t, <2>1 DEF Shape
  <2>4. Writing => Writing'
    BY <2>1, <2>3 DEF Writing
  <2>5. CacheCleared'
    <3>1. SUFFICES ASSUME NEW p \in Peers, domain[p] = Gone, cache'[p] # Gone, p \notin late, ~Writing
                   PROVE  \E v \in Workers : pc'[v] = "clear" /\ peer'[v] = p
      BY <2>1, <2>4 DEF CacheCleared, Writing
    <3>2. p # peer[w]
      BY <2>2, <3>1
    <3>3. cache[p] # Gone
      BY <2>1, <3>1, <3>2 DEF CacheInv
    <3>4. PICK v \in Workers : pc[v] = "clear" /\ peer[v] = p
      BY <3>1, <3>3 DEF CacheInv, CacheCleared, Writing
    <3> QED
      BY <2>1, <2>3, <3>4
  <2> QED
    BY <1>n, <1>t, <2>1, <2>3, <2>4, <2>5 DEF CacheInv, Shape
<1> QED
  BY <1>1, <1>2, <1>3, <1>4, <1>5

(* A write that loses a peer with an entry has its removal clear the       *)
(* entry, or is one of those that leave it behind.                         *)
LEMMA CacheWrites ==
  ASSUME Shape, CacheInv, NEW w \in Workers,
         PeersTrunc(w) \/ PeersWrite(w) \/ PeersFailed(w)
  PROVE  CacheInv'
<1> USE CachedPeers DEF Step, At, Goto, outside, cacheLocals
<1>n. (CHOOSE p \in Peers : TRUE) \in Peers /\ NoPeers \in [Peers -> Domains \cup {Gone}]
  BY DEF NoPeers
<1>t. /\ peer \in [Workers -> Peers] /\ copy \in [Workers -> [Peers -> Domains \cup {Gone}]]
      /\ domain \in [Peers -> Domains \cup {Gone}] /\ cache = [p \in Peers |-> cache[p]]
  BY DEF CacheInv
<1>1. CASE PeersTrunc(w)
  <2>1. /\ pc' \in {[pc EXCEPT ![w] = "editwrite"], [pc EXCEPT ![w] = "removewrite"]}
        /\ domain' = NoPeers /\ UNCHANGED <<cache, late, peer, copy>>
    BY <1>1 DEF PeersTrunc
  <2>2. Writing'
    BY <2>1 DEF Writing, Shape
  <2> QED
    BY <1>n, <1>t, <2>1, <2>2 DEF CacheInv, CacheCleared, Writing
<1>2. CASE PeersWrite(w)
  <2>1. /\ \/ pc[w] = "editwrite" /\ pc' = [pc EXCEPT ![w] = "idle"] /\ CheckOver(w)
           \/ pc[w] = "removewrite" /\ pc' = [pc EXCEPT ![w] = "clear"] /\ UNCHANGED <<peer, copy>>
        /\ domain' = copy[w] /\ cache' = cache
        /\ late' = late \cup LeftBehind(copy[w], Removing(w))
    BY <1>2 DEF PeersWrite
  <2>2. /\ peer' \in [Workers -> Peers] /\ copy' \in [Workers -> [Peers -> Domains \cup {Gone}]]
        /\ domain' \in [Peers -> Domains \cup {Gone}]
    BY <1>n, <1>t, <2>1 DEF CheckOver
  <2>3. \A v \in Workers : pc'[v] \in CheckLabels => pc[v] = pc'[v] /\ peer'[v] = peer[v]
    BY <1>t, <2>1 DEF CheckOver, CheckLabels, Shape
  <2>4. ASSUME NEW v \in Workers, pc'[v] \in CheckLabels PROVE domain'[peer'[v]] # Gone \/ peer'[v] \in late'
    BY <1>t, <2>1, <2>3, <2>4 DEF LeftBehind, Checking, CheckLabels
  <2>5. CacheCleared'
    <3>1. SUFFICES ASSUME NEW p \in Peers, copy[w][p] = Gone, cache[p] # Gone, p \notin late'
                   PROVE  pc'[w] = "clear" /\ peer'[w] = p
      BY <2>1 DEF CacheCleared
    <3>2. p \in Removing(w)
      BY <2>1, <3>1 DEF LeftBehind
    <3> QED
      BY <2>1, <3>2 DEF Removing, Shape
  <2> QED
    BY <1>t, <2>1, <2>2, <2>4, <2>5 DEF CacheInv
<1>3. CASE PeersFailed(w)
  <2>1. /\ \/ pc[w] \in {"edit", "editwrite"} /\ pc' = [pc EXCEPT ![w] = "idle"] /\ CheckOver(w)
           \/ pc[w] \in {"remove", "removewrite"} /\ pc' = [pc EXCEPT ![w] = "clear"] /\ UNCHANGED <<peer, copy>>
        /\ domain' = domain /\ cache' = cache
        /\ late' = late \cup LeftBehind(domain, {})
    BY <1>3 DEF PeersFailed
  <2>2. /\ peer' \in [Workers -> Peers] /\ copy' \in [Workers -> [Peers -> Domains \cup {Gone}]]
    BY <1>n, <1>t, <2>1 DEF CheckOver
  <2>3. \A v \in Workers : pc'[v] \in CheckLabels => pc[v] = pc'[v] /\ peer'[v] = peer[v]
    BY <1>t, <2>1 DEF CheckOver, CheckLabels, Shape
  <2>4. ASSUME NEW v \in Workers, pc'[v] \in CheckLabels PROVE domain'[peer'[v]] # Gone \/ peer'[v] \in late'
    BY <1>t, <2>1, <2>3, <2>4 DEF LeftBehind, Checking, CheckLabels
  <2>5. CacheCleared'
    BY <2>1 DEF CacheCleared, LeftBehind
  <2> QED
    BY <1>t, <2>1, <2>2, <2>4, <2>5 DEF CacheInv
<1> QED
  BY <1>1, <1>2, <1>3

LEMMA CacheRequests ==
  ASSUME Shape, CacheInv, NEW w \in Workers, CacheStep(w)
  PROVE  CacheInv'
<1> USE CachedPeers DEF Step, Begin, At, Goto, CheckLabels, outside, cacheLocals
<1>n. (CHOOSE p \in Peers : TRUE) \in Peers /\ NoPeers \in [Peers -> Domains \cup {Gone}]
  BY DEF NoPeers
<1>t. /\ peer \in [Workers -> Peers] /\ copy \in [Workers -> [Peers -> Domains \cup {Gone}]]
      /\ domain \in [Peers -> Domains \cup {Gone}] /\ cache = [p \in Peers |-> cache[p]]
  BY DEF CacheInv
<1>1. CASE UpdateDomain(w)
  <2>1. PICK p \in Peers, d \in Domains : copy' = [copy EXCEPT ![w] = [domain EXCEPT ![p] = d]]
    BY <1>1 DEF UpdateDomain
  <2>2. copy' \in [Workers -> [Peers -> Domains \cup {Gone}]]
    BY <1>t, <2>1
  <2> QED
    BY <1>1, <1>t, <2>2, CacheFrame DEF UpdateDomain
<1>2. CASE PostList(w)
  <2>1. copy' \in [Workers -> [Peers -> Domains \cup {Gone}]]
    BY <1>2, <1>t DEF PostList
  <2> QED
    BY <1>2, <1>t, <2>1, CacheFrame DEF PostList
<1>3. CASE RemovePeer(w)
  <2>1. PICK p \in Peers : copy' = [copy EXCEPT ![w] = [domain EXCEPT ![p] = Gone]] /\ peer' = [peer EXCEPT ![w] = p]
    BY <1>3 DEF RemovePeer
  <2>2. copy' \in [Workers -> [Peers -> Domains \cup {Gone}]] /\ peer' \in [Workers -> Peers]
    BY <1>t, <2>1
  <2>3. \A v \in Workers \ {w} : peer'[v] = peer[v]
    BY <1>t, <2>1
  <2> QED
    BY <1>3, <2>2, <2>3, CacheFrame DEF RemovePeer
<1>4. CASE ClearRouterCache(w)
  <2>1. /\ pc[w] = "clear" /\ pc' = [pc EXCEPT ![w] = "idle"] /\ domain' = domain /\ late' = late
        /\ cache' = [cache EXCEPT ![peer[w]] = Gone]
        /\ peer' = [peer EXCEPT ![w] = CHOOSE p \in Peers : TRUE]
        /\ copy' = [copy EXCEPT ![w] = NoPeers]
    BY <1>4 DEF ClearRouterCache, CheckOver
  <2>2. \A v \in Workers \ {w} : pc'[v] = pc[v] /\ peer'[v] = peer[v]
    BY <1>t, <2>1 DEF Shape
  <2>3. Writing => Writing'
    BY <2>1, <2>2 DEF Writing
  <2>4. CacheCleared'
    <3>1. SUFFICES ASSUME NEW p \in Peers, domain[p] = Gone, cache'[p] # Gone, p \notin late, ~Writing
                   PROVE  \E v \in Workers : pc'[v] = "clear" /\ peer'[v] = p
      BY <2>1, <2>3 DEF CacheCleared, Writing
    <3>2. p # peer[w] /\ cache[p] # Gone
      BY <1>t, <2>1, <3>1
    <3>3. PICK v \in Workers : pc[v] = "clear" /\ peer[v] = p
      BY <3>1, <3>2 DEF CacheInv, CacheCleared, Writing
    <3> QED
      BY <2>2, <3>2, <3>3
  <2> QED
    BY <1>n, <1>t, <2>1, <2>2, <2>3, <2>4 DEF CacheInv, Shape
<1>5. CASE SaveTtl(w)
  BY <1>5, <1>t, CacheFrame DEF SaveTtl
<1>6. CASE SetTtl(w)
  BY <1>6, <1>n, <1>t, CacheFrame DEF SetTtl, CheckOver
<1> QED
  BY <1>1, <1>2, <1>3, <1>4, <1>5, <1>6, CacheChecks, CacheWrites DEF CacheStep

LEMMA StepCache ==
  ASSUME Shape, CacheInv, Next
  PROVE  CacheInv'
<1> USE DEF cacheVars, cacheLocals
<1>1. CASE Starting
  BY <1>1, AuthBootMoves DEF Starting, BootTtl, Boot, CacheInv, CacheCleared, Writing
<1>2. ASSUME NEW w \in Workers, AuthStep(w), UNCHANGED cacheVars PROVE CacheInv'
  <2>1. PICK label \in AuthLabels \cup {"idle"} : Moves(w, label)
    BY <1>2, AuthMoves
  <2> QED
    BY <1>2, <2>1, AuthMoves DEF Shape, CacheInv, CacheCleared, Writing, Moves, AuthLabels, CheckLabels
<1>3. ASSUME NEW w \in Workers, CacheRequest(w) PROVE CacheInv'
  BY <1>3, CacheRequests DEF CacheRequest
<1>4. CASE Flip \/ Tick
  BY <1>4 DEF Flip, Tick, Pass, CacheTick, process, CacheInv, CacheCleared, Writing
<1>5. CASE Crash
  BY <1>5, CachedPeers DEF Crash, Die, CacheCut, CacheInv, CacheCleared, Writing, CheckLabels, NoPeers
<1> QED
  BY <1>1, <1>2, <1>3, <1>4, <1>5 DEF Next

(* The cache forgets a removed peer, for any number of checks, edits and   *)
(* removals at once, unless a check of it was under way or what took the   *)
(* peer from the list was not its removal (removePeer, clearRouterCache).  *)
THEOREM CacheAlwaysCleared == Spec => []CacheCleared
<1>1. Init => CacheInv
  BY CachedPeers DEF Init, InitProcess, InitCache, CacheInv, CacheCleared, Writing, CheckLabels, NoPeers
<1>2. Shape /\ CacheInv /\ UNCHANGED vars => Shape' /\ CacheInv'
  BY DEF Shape, CacheInv, CacheCleared, Writing, vars, process, cacheVars, cacheLocals
<1>3. CacheInv => CacheCleared
  BY DEF CacheInv
<1> QED
  BY <1>1, <1>2, <1>3, InitShape, StepShape, StepCache, PTL DEF Spec

-----------------------------------------------------------------------------
(* The types. *)
ProcessTypes ==
  /\ now \in 0 .. MaxTime /\ reqs \in 0 .. MaxRequests /\ faults \in 0 .. MaxFaults
  /\ boot \in {"auth", "authwrite", "secret", "secretwrite", "config", "up"}

(* A token is issued after a right password, by a process with a secret. *)
AuthTypes ==
  /\ authFile \in Passwords \cup {NoFile, Torn} /\ passwordHash \in Passwords \cup {Torn}
  /\ secretFile \in Secrets \cup {NoFile, Torn} /\ authSecret \in Secrets \cup {NoFile}
  /\ boot \in {"secretwrite", "config", "up"} => authSecret \in Secrets
  /\ \A w \in Workers : pc[w] = "issue" => passwordHash \in Passwords
  /\ tokens \subseteq [pw : Passwords, secret : Secrets, expiry : Nat]
  /\ blockedUntil \in 0 .. MaxTime + BlockTime
  /\ pw \in [Workers -> Passwords] /\ shaken \subseteq {"auth", "secret"}

CacheTypes ==
  /\ domain \in [Peers -> Domains \cup {Gone}] /\ {cfgTtl, ttl} \subseteq Ttls
  /\ DOMAIN cache = Peers /\ \A p \in Peers : cache[p] # Gone => cache[p] \in Entry
  /\ reachable \in [Domains -> BOOLEAN]
  /\ peer \in [Workers -> Peers] /\ dom \in [Workers -> Domains \cup {Gone}]
  /\ since \in [Workers -> Nat] /\ seen \in [Workers -> BOOLEAN] /\ pick \in [Workers -> Ttls]
  /\ copy \in [Workers -> [Peers -> Domains \cup {Gone}]]
  /\ \A w \in Workers : pc[w] \in CheckLabels => dom[w] \in Domains

LEMMA RequestTypes ==
  ASSUME ProcessTypes, NEW w, NEW from, NEW to, Begin(w, to) \/ Step(w, from, to)
  PROVE  ProcessTypes'
BY ProcessBounds DEF ProcessTypes, Begin, Step

LEMMA StepProcess == ASSUME ProcessTypes, Next PROVE ProcessTypes'
<1> USE ProcessBounds DEF ProcessTypes
<1>1. CASE Starting
  BY <1>1 DEF Starting, AuthBoot, BootTtl, ReadAuth, DefaultAuth, DefaultAuthWrite, ReadSecret,
              NewSecret, NewSecretWrite, WriteFails, Boot, Fault
<1>2. ASSUME NEW w \in Workers, AuthStep(w) PROVE ProcessTypes'
  <2>1. CASE AuthStoreFails(w)
    BY <2>1 DEF AuthStoreFails, Fault
  <2>2. CASE ~AuthStoreFails(w)
    BY <1>2, <2>2, RequestTypes DEF AuthStep, Login, LoginBlocked, LoginRight, LoginIssue,
       LoginWrong, LoginCount, LoginAnswer, ChangePassword, AuthTrunc, AuthStore
  <2> QED
    BY <2>1, <2>2
<1>3. ASSUME NEW w \in Workers, CacheRequest(w) PROVE ProcessTypes'
  <2>1. CASE PeersFailed(w)
    BY <2>1 DEF PeersFailed, Fault
  <2>2. CASE ~PeersFailed(w)
    BY <1>3, <2>2, RequestTypes DEF CacheRequest, CacheStep, CheckBegin, LookupHit, LookupMiss, Probe,
       Store, UpdateDomain, PostList, RemovePeer, PeersTrunc, PeersWrite, ClearRouterCache, SaveTtl, SetTtl
  <2> QED
    BY <2>1, <2>2
<1>4. CASE Flip \/ Tick \/ Crash
  BY <1>4 DEF Flip, process, Tick, Pass, Crash, Die, Fault
<1> QED
  BY <1>1, <1>2, <1>3, <1>4 DEF Next

LEMMA AuthTyped ==
  ASSUME Shape, ProcessTypes, AuthTypes, NEW w \in Workers, AuthStep(w)
  PROVE  AuthTypes'
<1> USE AuthValues, ProcessBounds DEF AuthTypes, authFiles, authMemory, authLocals, authHist
<1>1. boot = "up" /\ boot' = "up" /\ \E label \in AuthLabels \cup {"idle"} : pc' = [pc EXCEPT ![w] = label]
  BY AuthMoves DEF Moves
<1>2. CASE Login(w) \/ LoginBlocked(w) \/ LoginWrong(w)
  BY <1>1, <1>2 DEF Login, LoginBlocked, LoginWrong, Forget, Begin, Step, Goto, Shape
<1>3. CASE LoginRight(w)
  BY <1>1, <1>3 DEF LoginRight, Step, Goto, Shape
<1>4. CASE LoginIssue(w)
  <2>1. Token(passwordHash) \in [pw : Passwords, secret : Secrets, expiry : Nat]
    BY <1>1, <1>4 DEF Token, LoginIssue, Step, At, ProcessTypes
  <2> QED
    BY <1>1, <1>4, <2>1 DEF LoginIssue, Forget, Step, Goto, Shape
<1>5. CASE LoginCount(w)
  BY <1>1, <1>5 DEF LoginCount, Step, Goto, Shape
<1>6. CASE LoginAnswer(w)
  BY <1>1, <1>6 DEF LoginAnswer, Forget, Step, Goto, Shape, ProcessTypes
<1>7. CASE ChangePassword(w)
  BY <1>1, <1>7 DEF ChangePassword, Begin, Goto, Shape
<1>8. CASE AuthTrunc(w) \/ AuthStore(w)
  BY <1>1, <1>8 DEF AuthTrunc, AuthStore, Forget, Step, Goto, Shape
<1>9. CASE AuthStoreFails(w)
  BY <1>1, <1>9 DEF AuthStoreFails, Forget, Goto, Shape
<1> QED
  BY <1>2, <1>3, <1>4, <1>5, <1>6, <1>7, <1>8, <1>9 DEF AuthStep

LEMMA StepAuthTypes == ASSUME Shape, ProcessTypes, AuthTypes, Next PROVE AuthTypes'
<1> USE DEF authVars, authFiles, authMemory, authLocals, authHist
<1>1. CASE AuthBoot
  <2>0. Default \in Passwords /\ boot # "up" /\ pc' = pc /\ \A w \in Workers : pc[w] # "issue"
    BY <1>1, AuthValues, AuthBootMoves DEF Shape
  <2> USE <2>0 DEF AuthTypes, Boot
  <2>1. CASE ReadAuth
    BY <2>1 DEF ReadAuth
  <2>4. CASE DefaultAuth \/ DefaultAuthWrite
    BY <2>4 DEF DefaultAuth, DefaultAuthWrite
  <2>2. CASE ReadSecret \/ NewSecret \/ NewSecretWrite
    BY <2>2 DEF ReadSecret, NewSecret, NewSecretWrite
  <2>3. CASE WriteFails("auth", "authwrite", "secret") \/ WriteFails("secret", "secretwrite", "config")
    BY <2>3 DEF WriteFails
  <2> QED
    BY <1>1, <2>1, <2>2, <2>3, <2>4 DEF AuthBoot
<1>2. CASE BootTtl /\ UNCHANGED authVars
  BY <1>2 DEF BootTtl, Boot, AuthTypes
<1>3. ASSUME NEW w \in Workers, AuthStep(w) PROVE AuthTypes'
  BY <1>3, AuthTyped
<1>4. ASSUME NEW w \in Workers, CacheRequest(w), UNCHANGED authVars PROVE AuthTypes'
  <2>1. PICK label \in CacheLabels \cup {"idle"} : Moves(w, label)
    BY <1>4, CacheMoves DEF CacheRequest
  <2> QED
    BY <1>4, <2>1 DEF AuthTypes, Moves, Shape, CacheLabels, CheckLabels, EditLabels
<1>5. CASE (Flip \/ Tick) /\ UNCHANGED authVars
  BY <1>5 DEF Flip, Tick, Pass, process, AuthTypes
<1>6. CASE Crash
  BY <1>6, AuthValues, ProcessBounds DEF Crash, Die, AuthCut, AuthTypes
<1> QED
  BY <1>1, <1>2, <1>3, <1>4, <1>5, <1>6 DEF Next, Starting, Tick

LEMMA CacheTyped ==
  ASSUME Shape, ProcessTypes, CacheTypes, NEW w \in Workers, CacheStep(w)
  PROVE  CacheTypes'
<1> USE CachedPeers DEF CacheTypes, Shape, Step, Begin, At, Goto, CheckLabels, outside, cacheLocals
<1>i. InitTtl \in Ttls /\ (CHOOSE p \in Peers : TRUE) \in Peers /\ NoPeers \in [Peers -> Domains \cup {Gone}]
  BY CacheBounds DEF NoPeers
<1>n. now \in Nat /\ now \in 0 .. MaxTime
  BY ProcessBounds DEF ProcessTypes
<1>1. CASE CheckBegin(w)
  <2>1. PICK p \in Peers : domain[p] # Gone /\ peer' = [peer EXCEPT ![w] = p] /\ dom' = [dom EXCEPT ![w] = domain[p]]
    BY <1>1 DEF CheckBegin
  <2>2. domain[p] \in Domains
    BY <2>1
  <2> QED
    BY <1>1, <1>n, <2>1, <2>2 DEF CheckBegin
<1>2. CASE LookupHit(w)
  BY <1>2, <1>i DEF LookupHit, CheckOver
<1>3. CASE LookupMiss(w)
  BY <1>3 DEF LookupMiss, cacheVars
<1>4. CASE Probe(w)
  <2>1. reachable[dom[w]] \in BOOLEAN
    BY <1>4 DEF Probe
  <2> QED
    BY <1>4, <2>1 DEF Probe, Available
<1>5. CASE Store(w)
  <2>1. [available |-> seen[w], ts |-> now] \in Entry
    BY <1>n DEF Entry
  <2>2. peer[w] \in Peers
    OBVIOUS
  <2> QED
    BY <1>5, <1>i, <2>1, <2>2 DEF Store, CheckOver
<1>6. CASE UpdateDomain(w)
  BY <1>6 DEF UpdateDomain
<1>7. CASE PostList(w) \/ RemovePeer(w)
  <2>1. copy' \in [Workers -> [Peers -> Domains \cup {Gone}]]
    <3>1. CASE PostList(w)
      BY <3>1 DEF PostList
    <3>2. CASE RemovePeer(w)
      <4>1. PICK p \in Peers : copy' = [copy EXCEPT ![w] = [domain EXCEPT ![p] = Gone]]
        BY <3>2 DEF RemovePeer
      <4> QED
        BY <4>1
    <3> QED
      BY <1>7, <3>1, <3>2
  <2>2. peer' \in [Workers -> Peers]
    BY <1>7 DEF PostList, RemovePeer
  <2>3. pc' \in {[pc EXCEPT ![w] = "edit"], [pc EXCEPT ![w] = "remove"]}
    BY <1>7 DEF PostList, RemovePeer
  <2>4. UNCHANGED <<domain, cfgTtl, ttl, cache, reachable, dom, since, seen, pick>>
    BY <1>7 DEF PostList, RemovePeer
  <2> QED
    BY <2>1, <2>2, <2>3, <2>4
<1>11. CASE PeersTrunc(w)
  BY <1>11, <1>i DEF PeersTrunc
<1>12. CASE PeersWrite(w)
  <2>1. domain' \in [Peers -> Domains \cup {Gone}]
    BY <1>12 DEF PeersWrite
  <2>2. CASE pc[w] = "editwrite" /\ pc' = [pc EXCEPT ![w] = "idle"] /\ CheckOver(w)
    BY <1>12, <1>i, <2>1, <2>2 DEF PeersWrite, CheckOver
  <2>3. CASE pc' = [pc EXCEPT ![w] = "clear"] /\ UNCHANGED cacheLocals
    BY <1>12, <2>1, <2>3 DEF PeersWrite
  <2> QED
    BY <1>12, <2>2, <2>3 DEF PeersWrite
<1>13. CASE PeersFailed(w)
  <2>1. UNCHANGED <<domain, cfgTtl, ttl, cache, reachable>>
    BY <1>13 DEF PeersFailed
  <2>2. CASE pc' = [pc EXCEPT ![w] = "idle"] /\ CheckOver(w)
    BY <1>i, <2>1, <2>2 DEF CheckOver
  <2>3. CASE pc' = [pc EXCEPT ![w] = "clear"] /\ UNCHANGED cacheLocals
    BY <2>1, <2>3
  <2> QED
    BY <1>13, <2>2, <2>3 DEF PeersFailed
<1>8. CASE ClearRouterCache(w)
  BY <1>8, <1>i DEF ClearRouterCache, CheckOver
<1>9. CASE SaveTtl(w)
  BY <1>9 DEF SaveTtl
<1>10. CASE SetTtl(w)
  <2>1. pick[w] \in Ttls
    OBVIOUS
  <2> QED
    BY <1>10, <1>i, <2>1 DEF SetTtl, CheckOver
<1> QED
  BY <1>1, <1>2, <1>3, <1>4, <1>5, <1>6, <1>7, <1>8, <1>9, <1>10, <1>11, <1>12, <1>13 DEF CacheStep

LEMMA InitCacheTypes == Init => CacheTypes
<1> SUFFICES ASSUME Init PROVE CacheTypes
  OBVIOUS
<1>1. InitTtl \in Ttls /\ (CHOOSE p \in Peers : TRUE) \in Peers
  BY CacheBounds, CachedPeers
<1> QED
  BY <1>1, CachedPeers DEF Init, InitProcess, InitCache, CacheTypes, CheckLabels, NoPeers

LEMMA StepCacheTypes == ASSUME Shape, ProcessTypes, CacheTypes, Next PROVE CacheTypes'
<1> USE DEF cacheVars, outside, cacheLocals
<1>1. CASE Starting
  BY <1>1, AuthBootMoves DEF Starting, BootTtl, Boot, CacheTypes
<1>2. ASSUME NEW w \in Workers, AuthStep(w), UNCHANGED cacheVars PROVE CacheTypes'
  <2>1. PICK label \in AuthLabels \cup {"idle"} : Moves(w, label)
    BY <1>2, AuthMoves
  <2> QED
    BY <1>2, <2>1 DEF CacheTypes, Moves, Shape, AuthLabels, CheckLabels
<1>3. ASSUME NEW w \in Workers, CacheRequest(w) PROVE CacheTypes'
  BY <1>3, CacheTyped DEF CacheRequest
<1>4. CASE Flip
  BY <1>4 DEF Flip, process, CacheTypes
<1>5. CASE Tick
  BY <1>5 DEF Tick, Pass, CacheTick, CacheTypes
<1>6. CASE Crash
  <2>1. InitTtl \in Ttls /\ (CHOOSE p \in Peers : TRUE) \in Peers
    BY CacheBounds, CachedPeers
  <2> QED
    BY <1>6, <2>1 DEF Crash, Die, CacheCut, CacheTypes, CheckLabels, NoPeers
<1> QED
  BY <1>1, <1>2, <1>3, <1>4, <1>5, <1>6 DEF Next

-----------------------------------------------------------------------------
(* The count of wrong attempts.  A login counts once, so what is counted   *)
(* and what may still be counted is within the requests there have been.   *)
Counting == {w \in Workers : pc[w] \in {"check", "count"}}

AttemptsInv ==
  /\ IsFiniteSet(Counting)
  /\ passwordAttempts + Cardinality(Counting) <= reqs
  /\ \A w \in Workers : pc[w] = "count" => count[w] + Cardinality(Counting) <= reqs

(* The counter as the requests of AttemptsInv move it. *)
LEMMA AttemptsMove ==
  ASSUME Shape, BlockInv, ProcessTypes, AttemptsInv, NEW w \in Workers, NEW label, Moves(w, label),
         UNCHANGED reqs, pc[w] \in {"check", "count"} \/ label \notin {"check", "count"},
         passwordAttempts' \in Nat, \A v \in Workers \ {w} : count'[v] = count[v],
         \/ passwordAttempts' \in {0, passwordAttempts}
         \/ pc[w] = "count" /\ label \notin {"check", "count"} /\ passwordAttempts' = count[w] + 1,
         label = "count" => count'[w] = passwordAttempts
  PROVE  AttemptsInv'
<1> DEFINE N == Cardinality(Counting)
<1>1. IsFiniteSet(Counting) /\ N \in Nat
  BY FS_CardinalityType DEF AttemptsInv
<1>2. CASE label \in {"check", "count"}
  <2>1. Counting' = Counting
    BY <1>2 DEF Counting, Moves, Shape
  <2> QED
    BY <1>1, <1>2, <2>1, ProcessBounds DEF AttemptsInv, Moves, Shape, BlockInv, ProcessTypes
<1>3. CASE label \notin {"check", "count"}
  <2>1. Counting' = Counting \ {w}
    BY <1>3 DEF Counting, Moves, Shape
  <2>2. /\ IsFiniteSet(Counting')
        /\ Cardinality(Counting') = IF w \in Counting THEN N - 1 ELSE N
    BY <1>1, <2>1, FS_RemoveElement
  <2>3. Cardinality(Counting') \in Nat
    BY <2>2, FS_CardinalityType
  <2>4. \A v \in Workers : pc'[v] = "count" => v # w /\ pc[v] = "count" /\ count'[v] = count[v]
    BY <1>3 DEF Moves, Shape
  <2>5. pc[w] = "count" => w \in Counting /\ count[w] + N <= reqs
    BY DEF Counting, AttemptsInv
  <2>6. passwordAttempts' + Cardinality(Counting') <= reqs
    BY <1>1, <2>2, <2>3, <2>5, ProcessBounds DEF AttemptsInv, BlockInv, ProcessTypes
  <2>7. ASSUME NEW v \in Workers, pc'[v] = "count" PROVE count'[v] + Cardinality(Counting') <= reqs
    <3>1. count[v] + N <= reqs /\ count[v] \in Nat /\ count'[v] = count[v]
      BY <2>4, <2>7 DEF AttemptsInv, BlockInv
    <3> QED
      BY <1>1, <2>2, <2>3, <3>1, ProcessBounds DEF ProcessTypes
  <2> QED
    BY <2>2, <2>6, <2>7 DEF AttemptsInv
<1> QED
  BY <1>2, <1>3

(* A request that begins makes room for one more. *)
LEMMA AttemptsBegin ==
  ASSUME Shape, BlockInv, ProcessTypes, AttemptsInv, NEW w \in Workers, NEW label, label # "count",
         Begin(w, label), UNCHANGED <<passwordAttempts, count>>
  PROVE  AttemptsInv'
<1> DEFINE N == Cardinality(Counting)
<1>1. IsFiniteSet(Counting) /\ N \in Nat /\ w \notin Counting
  BY FS_CardinalityType DEF AttemptsInv, Counting, Begin, At
<1>2. Counting' \in {Counting, Counting \cup {w}}
  BY DEF Counting, Begin, At, Goto, Shape
<1>3. IsFiniteSet(Counting') /\ Cardinality(Counting') \in {N, N + 1}
  BY <1>1, <1>2, FS_AddElement
<1>4. \A v \in Workers : pc'[v] = "count" => pc[v] = "count" /\ count[v] \in Nat
  BY DEF Begin, At, Goto, Shape, BlockInv
<1>5. reqs' = reqs + 1 /\ reqs \in Nat
  BY ProcessBounds DEF Begin, ProcessTypes
<1> QED
  BY <1>1, <1>3, <1>4, <1>5 DEF AttemptsInv, BlockInv

LEMMA AttemptsRequests ==
  ASSUME Shape, BlockInv, ProcessTypes, AttemptsInv, NEW w \in Workers, AuthStep(w)
  PROVE  AttemptsInv'
<1> USE DEF authFiles, authMemory, authLocals, authHist
<1>n. /\ passwordAttempts \in Nat /\ count \in [Workers -> Nat]
      /\ passwordAttempts' \in Nat /\ count' \in [Workers -> Nat]
  BY BlockRequests DEF BlockInv
<1>1. CASE Login(w)
  BY <1>1, AttemptsBegin DEF Login
<1>2. CASE LoginBlocked(w)
  BY <1>2, <1>n, AttemptsMove, StepMoves DEF LoginBlocked, Forget, Step, At
<1>3. CASE LoginRight(w)
  BY <1>3, <1>n, AttemptsMove, StepMoves DEF LoginRight, Step, At
<1>4. CASE LoginIssue(w)
  BY <1>4, <1>n, AttemptsMove, StepMoves DEF LoginIssue, Forget, Step, At
<1>5. CASE LoginWrong(w)
  BY <1>5, <1>n, AttemptsMove, StepMoves DEF LoginWrong, Step, At
<1>6. CASE LoginCount(w)
  BY <1>6, <1>n, AttemptsMove, StepMoves DEF LoginCount, Step, At
<1>7. CASE LoginAnswer(w)
  BY <1>7, <1>n, AttemptsMove, StepMoves DEF LoginAnswer, Forget, Step, At
<1>8. CASE ChangePassword(w)
  BY <1>8, AttemptsBegin DEF ChangePassword
<1>9. CASE AuthTrunc(w)
  BY <1>9, <1>n, AttemptsMove, StepMoves DEF AuthTrunc, Step, At
<1>10. CASE AuthStore(w)
  BY <1>10, <1>n, AttemptsMove, StepMoves DEF AuthStore, Forget, Step, At
<1>11. CASE AuthStoreFails(w)
  <2>1. Moves(w, "idle")
    BY <1>11, AuthMoves DEF AuthStoreFails, Goto, At, Moves
  <2> QED
    BY <1>11, <2>1, <1>n, AttemptsMove DEF AuthStoreFails, Forget
<1> QED
  BY <1>1, <1>2, <1>3, <1>4, <1>5, <1>6, <1>7, <1>8, <1>9, <1>10, <1>11 DEF AuthStep

LEMMA InitAttempts == Init => AttemptsInv
<1> SUFFICES ASSUME Init PROVE AttemptsInv
  OBVIOUS
<1>1. Counting = {} /\ passwordAttempts = 0 /\ reqs = 0 /\ \A w \in Workers : pc[w] # "count"
  BY DEF Init, InitProcess, InitAuthState, Counting
<1> QED
  BY <1>1, FS_EmptySet DEF AttemptsInv

LEMMA StepAttempts ==
  ASSUME Shape, BlockInv, ProcessTypes, AttemptsInv, Next
  PROVE  AttemptsInv'
<1> USE DEF authVars, authMemory, authLocals
<1>1. CASE Starting \/ (Flip /\ UNCHANGED authVars) \/ Tick
  <2>1. UNCHANGED <<pc, reqs, passwordAttempts, count>>
    BY <1>1 DEF Starting, BootTtl, AuthBoot, ReadAuth, DefaultAuth, DefaultAuthWrite, ReadSecret,
       NewSecret, NewSecretWrite, WriteFails, Boot, Flip, process, Tick, Pass
  <2> QED
    BY <2>1 DEF AttemptsInv, Counting
<1>2. ASSUME NEW w \in Workers, AuthStep(w) PROVE AttemptsInv'
  BY <1>2, AttemptsRequests
<1>3. ASSUME NEW w \in Workers, CacheRequest(w), UNCHANGED authVars PROVE AttemptsInv'
  <2>1. CASE CheckBegin(w) \/ UpdateDomain(w) \/ PostList(w) \/ RemovePeer(w) \/ SaveTtl(w)
    BY <1>3, <2>1, AttemptsBegin DEF CheckBegin, UpdateDomain, PostList, RemovePeer, SaveTtl
  <2>2. CASE ~(CheckBegin(w) \/ UpdateDomain(w) \/ PostList(w) \/ RemovePeer(w) \/ SaveTtl(w))
    <3>1. PICK label \in CacheLabels \cup {"idle"} : Moves(w, label)
      BY <1>3, CacheMoves DEF CacheRequest
    <3>2. UNCHANGED reqs
      BY <1>3, <2>2 DEF CacheRequest, CacheStep, LookupHit, LookupMiss, Probe, Store, PeersTrunc,
         PeersWrite, PeersFailed, ClearRouterCache, SetTtl, Step
    <3>3. passwordAttempts' \in Nat /\ label \notin {"check", "count"}
      BY <1>3, <3>1 DEF BlockInv, CacheLabels, CheckLabels, EditLabels
    <3> QED
      BY <1>3, <3>1, <3>2, <3>3, AttemptsMove
  <2> QED
    BY <2>1, <2>2
<1>4. CASE Crash
  <2>1. Counting' = {} /\ passwordAttempts' = 0 /\ reqs' = reqs /\ \A w \in Workers : pc'[w] # "count"
    BY <1>4 DEF Crash, Die, AuthCut, Counting
  <2> QED
    BY <2>1, FS_EmptySet, ProcessBounds DEF AttemptsInv, ProcessTypes
<1> QED
  BY <1>1, <1>2, <1>3, <1>4 DEF Next, Tick

(* Every variable is what its comment says it is, the count of wrong       *)
(* attempts never above the requests there were: each login counts once,   *)
(* however the unlocked reads and writes fall (checkPassword).             *)
THEOREM TypesKept == Spec => []TypeOK
<1> DEFINE Inv == Shape /\ BlockInv /\ ProcessTypes /\ AuthTypes /\ CacheTypes /\ AttemptsInv
<1>1. Init => Inv
  <2> SUFFICES ASSUME Init PROVE Inv
    OBVIOUS
  <2>1. ProcessTypes
    BY ProcessBounds DEF Init, InitProcess, ProcessTypes
  <2>2. BlockInv
    BY AuthValues DEF Init, InitProcess, InitAuthState, BlockInv
  <2>3. AuthTypes
    <3>1. PICK l \in Left : authFile = l.auth /\ secretFile = l.secret /\ tokens = l.tokens
      BY DEF Init, InitAuthState
    <3> QED
      BY <3>1, AuthValues, ProcessBounds DEF Init, InitProcess, InitAuthState, AuthTypes
  <2> QED
    BY <2>1, <2>2, <2>3, InitShape, InitCacheTypes, InitAttempts
<1>2. Inv /\ Next => Inv'
  BY StepShape, StepBlock, StepProcess, StepAuthTypes, StepCacheTypes, StepAttempts
<1>3. Inv /\ UNCHANGED vars => Inv'
  BY DEF Shape, BlockInv, ProcessTypes, AuthTypes, CacheTypes, AttemptsInv, Counting, vars, process,
         authVars, authFiles, authMemory, authLocals, authHist, cacheVars, outside, cacheLocals
<1>4. Inv => TypeOK
  <2> SUFFICES ASSUME Inv PROVE TypeOK
    OBVIOUS
  <2>1. passwordAttempts \in 0 .. MaxRequests
    <3>1. Cardinality(Counting) \in Nat
      BY FS_CardinalityType DEF AttemptsInv
    <3> QED
      BY <3>1, ProcessBounds DEF AttemptsInv, BlockInv, ProcessTypes
  <2> QED
    BY <2>1 DEF TypeOK, BlockInv, ProcessTypes, AuthTypes, CacheTypes
<1> QED
  BY <1>1, <1>2, <1>3, <1>4, PTL DEF Spec

-----------------------------------------------------------------------------
(* The answers.  A check that is under way began, within the ticks one may *)
(* take, with the domain its peer then had; what it has seen of that       *)
(* domain was true since; and an entry of the cache is what a check saw.   *)
Back(t, n) == IF n > t THEN 0 ELSE t - n

Seen(p, b, from, to) ==
  \E h \in had, s \in states :
    /\ h[2] = p /\ h[3] = s[2] /\ s[3] = b
    /\ {h[1], s[1]} \subseteq from .. to /\ h[1] <= s[1]

Recorded ==
  /\ \A d \in Domains : <<now, d, reachable[d]>> \in states
  /\ \A p \in Peers : domain[p] # Gone => <<now, p, domain[p]>> \in had

CheckHonest(w) ==
  /\ pc[w] \in CheckLabels =>
       since[w] <= now /\ now <= since[w] + MaxCheck /\ <<since[w], peer[w], dom[w]>> \in had
  /\ pc[w] = "store" => \E t \in since[w] .. now : <<t, dom[w], seen[w]>> \in states

EntryHonest(p) ==
  cache[p] # Gone =>
    cache[p].ts <= now /\ Seen(p, cache[p].available, Back(cache[p].ts, MaxCheck), cache[p].ts)

Told == last # Gone => Seen(last.peer, last.available, Back(last.at, last.within), last.at)

HonestInv ==
  /\ Recorded
  /\ \A w \in Workers : CheckHonest(w)
  /\ \A p \in Peers : EntryHonest(p)
  /\ Told

LEMMA SeenLonger ==
  ASSUME NEW p, NEW b, NEW from \in Nat, NEW to \in Nat, NEW from2 \in Nat, NEW to2 \in Nat,
         from2 <= from, to <= to2, Seen(p, b, from, to)
  PROVE  Seen(p, b, from2, to2)
<1>1. PICK h \in had, s \in states :
        /\ h[2] = p /\ h[3] = s[2] /\ s[3] = b
        /\ {h[1], s[1]} \subseteq from .. to /\ h[1] <= s[1]
  BY DEF Seen
<1>2. {h[1], s[1]} \subseteq from2 .. to2
  BY <1>1
<1> QED
  BY <1>1, <1>2 DEF Seen

(* Nothing that was true is forgotten. *)
LEMMA SeenStays ==
  ASSUME had \subseteq had', states \subseteq states', NEW p, NEW b, NEW from, NEW to, Seen(p, b, from, to)
  PROVE  Seen(p, b, from, to)'
BY DEF Seen

LEMMA ToldStays ==
  ASSUME had \subseteq had', states \subseteq states', last' = last, Told
  PROVE  Told'
BY SeenStays DEF Told, Back

LEMMA EntryStays ==
  ASSUME had \subseteq had', states \subseteq states', now \in Nat, now' \in Nat, now <= now',
         NEW p \in Peers, cache'[p] = cache[p], cache[p] # Gone => cache[p] \in Entry, EntryHonest(p)
  PROVE  EntryHonest(p)'
<1> SUFFICES ASSUME cache[p] # Gone PROVE EntryHonest(p)'
  BY DEF EntryHonest
<1>1. cache[p].ts \in Nat /\ cache[p].ts <= now
  BY ProcessBounds DEF Entry, EntryHonest
<1>2. cache[p].ts <= now'
  BY <1>1
<1>3. Seen(p, cache[p].available, Back(cache[p].ts, MaxCheck), cache[p].ts)'
  BY SeenStays DEF EntryHonest, Back
<1> QED
  BY <1>2, <1>3 DEF EntryHonest, Back

(* A step of one worker, at one moment: the others' checks are as they were. *)
LEMMA OthersHonest ==
  ASSUME Shape, HonestInv, NEW w \in Workers, NEW label, Moves(w, label), UNCHANGED now,
         had \subseteq had', states \subseteq states',
         \A v \in Workers \ {w} : peer'[v] = peer[v] /\ dom'[v] = dom[v] /\ since'[v] = since[v] /\ seen'[v] = seen[v],
         CheckHonest(w)'
  PROVE  \A v \in Workers : CheckHonest(v)'
<1> SUFFICES ASSUME NEW v \in Workers, v # w PROVE CheckHonest(v)'
  OBVIOUS
<1>1. pc'[v] = pc[v] /\ peer'[v] = peer[v] /\ dom'[v] = dom[v] /\ since'[v] = since[v] /\ seen'[v] = seen[v]
  BY DEF Moves, Shape
<1> QED
  BY <1>1 DEF HonestInv, CheckHonest

LEMMA BackIn ==
  ASSUME NEW t \in Nat, NEW n \in Nat
  PROVE  /\ Back(t, n) \in Nat /\ Back(t, n) <= t
         /\ \A m \in Nat : m <= t /\ t <= m + n => Back(t, n) <= m
 BY DEF Back

LEMMA BackEarlier ==
  ASSUME NEW t \in Nat, NEW n \in Nat, NEW u \in Nat, NEW m \in Nat, t <= u, u + n <= t + m
  PROVE  Back(u, m) <= Back(t, n)
BY DEF Back

(* A step that answers nothing and leaves the cache alone. *)
LEMMA QuietHonest ==
  ASSUME Shape, ProcessTypes, CacheTypes, HonestInv, NEW w \in Workers, NEW label, Moves(w, label),
         UNCHANGED <<now, last, cache>>, had \subseteq had', states \subseteq states', Recorded',
         \A v \in Workers \ {w} : peer'[v] = peer[v] /\ dom'[v] = dom[v] /\ since'[v] = since[v] /\ seen'[v] = seen[v],
         CheckHonest(w)'
  PROVE  HonestInv'
<1>1. Told'
  BY ToldStays DEF HonestInv
<1>2. ASSUME NEW p \in Peers PROVE EntryHonest(p)'
  BY EntryStays, ProcessBounds DEF HonestInv, ProcessTypes, CacheTypes
<1>3. \A v \in Workers : CheckHonest(v)'
  BY OthersHonest
<1> QED
  BY <1>1, <1>2, <1>3 DEF HonestInv

LEMMA CheckRequests ==
  ASSUME Shape, ProcessTypes, CacheTypes, HonestInv, NEW w \in Workers,
         CheckBegin(w) \/ LookupMiss(w) \/ Probe(w)
  PROVE  HonestInv'
<1> USE DEF outside, cacheLocals, cacheVars
<1>n. now \in Nat /\ MaxCheck \in Nat
  BY ProcessBounds, CacheBounds DEF ProcessTypes
<1>r. ASSUME UNCHANGED <<now, domain, reachable, states, had>> PROVE Recorded'
  BY <1>r DEF Recorded, HonestInv
<1>1. CASE CheckBegin(w)
  <2>1. PICK p \in Peers : domain[p] # Gone /\ peer' = [peer EXCEPT ![w] = p] /\ dom' = [dom EXCEPT ![w] = domain[p]]
    BY <1>1 DEF CheckBegin
  <2>2. Moves(w, "lookup") /\ now' = now /\ since' = [since EXCEPT ![w] = now] /\ seen' = seen /\ had' = had
    BY <1>1, StepMoves DEF CheckBegin, Begin
  <2>3. <<now, p, domain[p]>> \in had
    BY <2>1 DEF HonestInv, Recorded
  <2>4. CheckHonest(w)'
    BY <1>n, <2>1, <2>2, <2>3 DEF CheckHonest, CheckLabels, Moves, Shape, CacheTypes
  <2>5. \A v \in Workers \ {w} : peer'[v] = peer[v] /\ dom'[v] = dom[v] /\ since'[v] = since[v] /\ seen'[v] = seen[v]
    BY <2>1, <2>2 DEF CacheTypes
  <2> QED
    BY <1>1, <1>r, <2>2, <2>4, <2>5, QuietHonest DEF CheckBegin
<1>2. CASE LookupMiss(w)
  <2>1. Moves(w, "probe") /\ now' = now /\ pc[w] = "lookup"
    BY <1>2, StepMoves DEF LookupMiss, Step, At
  <2>2. CheckHonest(w)'
    BY <1>2, <2>1 DEF LookupMiss, CheckHonest, CheckLabels, Moves, Shape, HonestInv
  <2> QED
    BY <1>2, <1>r, <2>1, <2>2, QuietHonest DEF LookupMiss
<1>3. CASE Probe(w)
  <2>1. Moves(w, "store") /\ now' = now /\ pc[w] = "probe"
    BY <1>3, StepMoves DEF Probe, Step, At
  <2>2. /\ since'[w] = since[w] /\ dom'[w] = dom[w] /\ peer'[w] = peer[w]
        /\ seen'[w] = reachable[dom[w]] /\ \A v \in Workers \ {w} : seen'[v] = seen[v]
    BY <1>3 DEF Probe, Available, CacheTypes
  <2>3. <<now, dom[w], reachable[dom[w]]>> \in states
    BY <2>1 DEF HonestInv, Recorded, CacheTypes, CheckLabels
  <2>4. since[w] \in Nat /\ since[w] <= now
    BY <2>1 DEF HonestInv, CheckHonest, CacheTypes, CheckLabels
  <2>5. now \in since[w] .. now
    BY <1>n, <2>4
  <2>6. CheckHonest(w)'
    BY <1>3, <2>1, <2>2, <2>3, <2>5 DEF Probe, CheckHonest, CheckLabels, Moves, Shape, HonestInv
  <2> QED
    BY <1>3, <1>r, <2>1, <2>2, <2>6, QuietHonest DEF Probe
<1> QED
  BY <1>1, <1>2, <1>3

(* An answer from the cache is as old as its entry, and one that has just  *)
(* been looked up as old as the check.                                     *)
LEMMA HitHonest ==
  ASSUME Shape, ProcessTypes, CacheTypes, HonestInv, NEW w \in Workers, LookupHit(w)
  PROVE  HonestInv'
<1> USE DEF outside, cacheLocals, cacheVars
<1> DEFINE p == peer[w]
           e == cache[p]
<1>n. now \in Nat /\ MaxCheck \in Nat
  BY ProcessBounds, CacheBounds DEF ProcessTypes
<1>1. p \in Peers /\ e # Gone /\ e \in Entry /\ e.ts <= now /\ Seen(p, e.available, Back(e.ts, MaxCheck), e.ts)
  BY DEF CacheTypes, LookupHit, Fresh, HonestInv, EntryHonest
<1>2. e.ts \in Nat /\ e.available \in BOOLEAN
  BY <1>1, ProcessBounds DEF Entry
<1>3. Lifetime(e.available) \in Nat /\ Lifetime(e.available) >= 1 /\ now - e.ts < Lifetime(e.available)
  <2>1. ttl \in Nat \ {0} /\ TtlUnavailable \in Nat \ {0}
    BY CacheBounds DEF CacheTypes
  <2>2. now - e.ts < Lifetime(e.available)
    BY DEF LookupHit, Fresh
  <2> QED
    BY <2>1, <2>2 DEF Lifetime
<1> DEFINE L == Lifetime(e.available)
<1>4. /\ last' = [peer |-> p, available |-> e.available, at |-> now, within |-> L - 1 + MaxCheck]
      /\ UNCHANGED <<now, cache, had, states, domain, reachable>> /\ Moves(w, "idle")
  BY StepMoves DEF LookupHit, Answer, Step
<1>5. Back(now, L - 1 + MaxCheck) \in Nat /\ Back(now, L - 1 + MaxCheck) <= Back(e.ts, MaxCheck) /\ Back(e.ts, MaxCheck) \in Nat
  <2>1. L - 1 + MaxCheck \in Nat /\ now + MaxCheck <= e.ts + (L - 1 + MaxCheck)
    BY <1>n, <1>2, <1>3
  <2>2. e.ts <= now
    BY <1>1
  <2> HIDE DEF L, e
  <2>3. Back(now, L - 1 + MaxCheck) \in Nat /\ Back(e.ts, MaxCheck) \in Nat
    BY <1>2, <1>n, <2>1, BackIn
  <2> QED
    BY <1>2, <1>n, <2>1, <2>2, <2>3, BackEarlier
<1>6. Seen(p, e.available, Back(now, L - 1 + MaxCheck), now)
  BY <1>1, <1>2, <1>5, <1>n, SeenLonger
<1>7. Told'
  <2> HIDE DEF L, p, e
  <2> QED
    BY <1>4, <1>6 DEF Told, Seen, Back
<1>8. CheckHonest(w)'
  BY <1>4 DEF CheckHonest, Moves, Shape, CheckLabels
<1>9. \A v \in Workers \ {w} : peer'[v] = peer[v] /\ dom'[v] = dom[v] /\ since'[v] = since[v] /\ seen'[v] = seen[v]
  BY DEF LookupHit, CheckOver, CacheTypes
<1>10. \A v \in Workers : CheckHonest(v)'
  BY <1>4, <1>8, <1>9, OthersHonest
<1>11. Recorded' /\ \A q \in Peers : EntryHonest(q)'
  BY <1>4 DEF HonestInv, Recorded, EntryHonest, Seen, Back
<1> QED
  BY <1>7, <1>10, <1>11 DEF HonestInv

LEMMA StoreHonest ==
  ASSUME Shape, ProcessTypes, CacheTypes, HonestInv, NEW w \in Workers, Store(w)
  PROVE  HonestInv'
<1> USE DEF outside, cacheLocals, cacheVars
<1> DEFINE p == peer[w]
           L == Lifetime(seen[w])
<1>n. now \in Nat /\ MaxCheck \in Nat
  BY ProcessBounds, CacheBounds DEF ProcessTypes
<1>1. pc[w] = "store" /\ p \in Peers /\ since[w] \in Nat /\ seen[w] \in BOOLEAN
  BY DEF CacheTypes, Store, Step, At
<1>2. L \in Nat /\ L >= 1
  <2>1. ttl \in Nat \ {0} /\ TtlUnavailable \in Nat \ {0}
    BY CacheBounds DEF CacheTypes
  <2>2. L \in {ttl, TtlUnavailable}
    BY DEF Lifetime
  <2> QED
    BY <2>1, <2>2
<1>3. since[w] <= now /\ now <= since[w] + MaxCheck /\ <<since[w], p, dom[w]>> \in had
  BY <1>1 DEF HonestInv, CheckHonest, CheckLabels
<1>4. PICK t \in since[w] .. now : <<t, dom[w], seen[w]>> \in states
  BY <1>1 DEF HonestInv, CheckHonest
<1>5. /\ last' = [peer |-> p, available |-> seen[w], at |-> now, within |-> L - 1 + MaxCheck]
      /\ cache' = [cache EXCEPT ![p] = [available |-> seen[w], ts |-> now]]
      /\ UNCHANGED <<now, had, states, domain, reachable>> /\ Moves(w, "idle")
  BY StepMoves DEF Store, Answer, Step
<1>6. Back(now, MaxCheck) \in Nat /\ Back(now, MaxCheck) <= since[w]
  BY <1>1, <1>3, <1>n, BackIn
<1>7. Seen(p, seen[w], Back(now, MaxCheck), now)
  <2> DEFINE h == <<since[w], p, dom[w]>>
             s == <<t, dom[w], seen[w]>>
  <2>1. h \in had /\ s \in states
    BY <1>3, <1>4
  <2>2. h[2] = p /\ h[3] = s[2] /\ s[3] = seen[w] /\ h[1] = since[w] /\ s[1] = t
    OBVIOUS
  <2>3. {since[w], t} \subseteq Back(now, MaxCheck) .. now /\ since[w] <= t
    BY <1>1, <1>3, <1>4, <1>6, <1>n
  <2> HIDE DEF h, s, p
  <2> QED
    BY <2>1, <2>2, <2>3 DEF Seen
<1>8. Back(now, L - 1 + MaxCheck) \in Nat /\ Back(now, L - 1 + MaxCheck) <= Back(now, MaxCheck)
  <2>1. L - 1 + MaxCheck \in Nat /\ MaxCheck <= L - 1 + MaxCheck
    BY <1>2, <1>n
  <2>2. now + MaxCheck <= now + (L - 1 + MaxCheck)
    BY <1>n, <2>1
  <2> HIDE DEF L
  <2> QED
    BY <1>n, <2>1, <2>2, BackIn, BackEarlier
<1>9. Seen(p, seen[w], Back(now, L - 1 + MaxCheck), now)
  <2> HIDE DEF L, p
  <2> QED
    BY <1>6, <1>7, <1>8, <1>n, SeenLonger
<1>10. Told'
  <2> HIDE DEF L, p
  <2> QED
    BY <1>5, <1>9 DEF Told, Seen, Back
<1>11. ASSUME NEW q \in Peers PROVE EntryHonest(q)'
  <2>1. CASE q = p
    <3>1. cache'[q] = [available |-> seen[w], ts |-> now]
      BY <1>1, <1>5, <2>1 DEF CacheTypes
    <3> HIDE DEF p
    <3> QED
      BY <1>5, <1>7, <1>n, <2>1, <3>1 DEF EntryHonest, Seen, Back
  <2>2. CASE q # p
    <3>1. cache'[q] = cache[q]
      BY <1>5, <2>2 DEF CacheTypes
    <3> QED
      BY <1>5, <3>1 DEF HonestInv, EntryHonest, Seen, Back
  <2> QED
    BY <2>1, <2>2
<1>12. CheckHonest(w)'
  BY <1>5 DEF CheckHonest, Moves, Shape, CheckLabels
<1>13. \A v \in Workers \ {w} : peer'[v] = peer[v] /\ dom'[v] = dom[v] /\ since'[v] = since[v] /\ seen'[v] = seen[v]
  BY DEF Store, CheckOver, CacheTypes
<1>14. \A v \in Workers : CheckHonest(v)'
  BY <1>5, <1>12, <1>13, OthersHonest
<1>15. Recorded'
  BY <1>5 DEF HonestInv, Recorded
<1> QED
  BY <1>10, <1>11, <1>14, <1>15 DEF HonestInv

LEMMA EditsHonest ==
  ASSUME Shape, ProcessTypes, CacheTypes, HonestInv, NEW w \in Workers,
         \/ UpdateDomain(w) \/ PostList(w) \/ RemovePeer(w)
         \/ PeersTrunc(w) \/ PeersWrite(w) \/ PeersFailed(w)
         \/ ClearRouterCache(w) \/ SaveTtl(w) \/ SetTtl(w)
  PROVE  HonestInv'
<1> USE DEF outside, cacheLocals, cacheVars
<1>o. \A label \in CacheLabels \cup {"idle"} : Moves(w, label) /\ label \notin CheckLabels => CheckHonest(w)'
  BY DEF CheckHonest, Moves, Shape, CheckLabels
<1>1. CASE UpdateDomain(w) \/ PostList(w) \/ RemovePeer(w)
  <2>1. PICK label \in {"edit", "remove"} : Moves(w, label) /\ now' = now
    BY <1>1, StepMoves DEF UpdateDomain, PostList, RemovePeer, Begin
  <2>2. CheckHonest(w)'
    BY <1>o, <2>1 DEF CheckLabels, CacheLabels, EditLabels
  <2>3. UNCHANGED <<domain, reachable, cache, states, had, last>>
    BY <1>1 DEF UpdateDomain, PostList, RemovePeer
  <2>4. Recorded'
    BY <2>1, <2>3 DEF Recorded, HonestInv
  <2>5. \A v \in Workers \ {w} : peer'[v] = peer[v] /\ dom'[v] = dom[v] /\ since'[v] = since[v] /\ seen'[v] = seen[v]
    BY <1>1 DEF UpdateDomain, PostList, RemovePeer, CacheTypes
  <2> QED
    BY <2>1, <2>2, <2>3, <2>4, <2>5, QuietHonest
<1>2. CASE PeersTrunc(w)
  <2>1. PICK label \in {"editwrite", "removewrite"} : Moves(w, label) /\ now' = now
    BY <1>2, StepMoves DEF PeersTrunc, Step
  <2>2. CheckHonest(w)'
    BY <1>o, <2>1 DEF CheckLabels, CacheLabels, EditLabels
  <2>3. Recorded'
    BY <1>2, <2>1 DEF PeersTrunc, NoPeers, Recorded, HonestInv
  <2> QED
    BY <1>2, <2>1, <2>2, <2>3, QuietHonest DEF PeersTrunc
<1>6. CASE PeersWrite(w)
  <2>1. PICK label \in {"idle", "clear"} : Moves(w, label) /\ now' = now
    BY <1>6, StepMoves DEF PeersWrite, Step
  <2>2. CheckHonest(w)'
    BY <1>o, <2>1 DEF CheckLabels, CacheLabels
  <2>3. Recorded'
    BY <1>6, <2>1 DEF PeersWrite, Recorded, HonestInv
  <2>4. \A v \in Workers \ {w} : peer'[v] = peer[v] /\ dom'[v] = dom[v] /\ since'[v] = since[v] /\ seen'[v] = seen[v]
    BY <1>6 DEF PeersWrite, CheckOver, CacheTypes
  <2>5. UNCHANGED <<cache, last, states>> /\ had \subseteq had'
    BY <1>6 DEF PeersWrite
  <2> QED
    BY <2>1, <2>2, <2>3, <2>4, <2>5, QuietHonest
<1>7. CASE PeersFailed(w)
  <2>1. PICK label \in {"idle", "clear"} : Moves(w, label) /\ now' = now
    BY <1>7 DEF PeersFailed, Goto, Moves
  <2>2. CheckHonest(w)'
    BY <1>o, <2>1 DEF CheckLabels, CacheLabels
  <2>3. UNCHANGED <<domain, reachable, cache, states, had, last>>
    BY <1>7 DEF PeersFailed
  <2>4. Recorded'
    BY <2>1, <2>3 DEF Recorded, HonestInv
  <2>5. \A v \in Workers \ {w} : peer'[v] = peer[v] /\ dom'[v] = dom[v] /\ since'[v] = since[v] /\ seen'[v] = seen[v]
    BY <1>7 DEF PeersFailed, CheckOver, CacheTypes
  <2> QED
    BY <2>1, <2>2, <2>3, <2>4, <2>5, QuietHonest
<1>3. CASE SaveTtl(w)
  <2>1. Moves(w, "ttl") /\ now' = now /\ CheckHonest(w)'
    BY <1>3, <1>o, StepMoves DEF SaveTtl, Begin, CheckLabels, CacheLabels, EditLabels
  <2>2. Recorded'
    BY <1>3, <2>1 DEF SaveTtl, Recorded, HonestInv
  <2> QED
    BY <1>3, <2>1, <2>2, QuietHonest DEF SaveTtl
<1>4. CASE SetTtl(w)
  <2>1. Moves(w, "idle") /\ now' = now /\ CheckHonest(w)'
    BY <1>4, <1>o, StepMoves DEF SetTtl, Step, CheckLabels
  <2>2. Recorded'
    BY <1>4, <2>1 DEF SetTtl, Recorded, HonestInv
  <2> QED
    BY <1>4, <2>1, <2>2, QuietHonest DEF SetTtl, CheckOver, CacheTypes
<1>5. CASE ClearRouterCache(w)
  <2>1. Moves(w, "idle") /\ now' = now /\ CheckHonest(w)'
    BY <1>5, <1>o, StepMoves DEF ClearRouterCache, Step, CheckLabels
  <2>2. Recorded' /\ Told'
    BY <1>5, <2>1, ToldStays DEF ClearRouterCache, Recorded, HonestInv
  <2>3. \A v \in Workers : CheckHonest(v)'
    BY <1>5, <2>1, OthersHonest DEF ClearRouterCache, CheckOver, CacheTypes
  <2>4. \A p \in Peers : cache'[p] \in {cache[p], Gone}
    BY <1>5 DEF ClearRouterCache, CacheTypes
  <2>5. \A p \in Peers : EntryHonest(p)'
    BY <1>5, <2>1, <2>4 DEF ClearRouterCache, HonestInv, EntryHonest, Seen, Back
  <2> QED
    BY <2>2, <2>3, <2>5 DEF HonestInv
<1> QED
  BY <1>1, <1>2, <1>3, <1>4, <1>5, <1>6, <1>7

(* Time passes, but not so far that a check would have timed out. *)
LEMMA TickHonest ==
  ASSUME ProcessTypes, CacheTypes, HonestInv, Tick
  PROVE  HonestInv'
<1> USE DEF cacheVars, outside, cacheLocals
<1>1. /\ now \in Nat /\ now' = now + 1 /\ MaxCheck \in Nat
      /\ UNCHANGED <<pc, domain, reachable, cache, peer, dom, since, seen, last>>
      /\ had \subseteq had' /\ states \subseteq states'
  BY ProcessBounds, CacheBounds DEF Tick, Pass, CacheTick, ProcessTypes
<1>2. Recorded'
  BY <1>1 DEF Tick, CacheTick, Recorded
<1>3. Told'
  BY <1>1, ToldStays DEF HonestInv
<1>4. ASSUME NEW p \in Peers PROVE EntryHonest(p)'
  BY <1>1, EntryStays DEF HonestInv, CacheTypes
<1>5. ASSUME NEW w \in Workers PROVE CheckHonest(w)'
  <2>1. since[w] \in Nat
    BY DEF CacheTypes
  <2>2. pc[w] \in CheckLabels => now < since[w] + MaxCheck
    BY DEF Tick, CacheTick, CheckLabels
  <2>3. pc[w] \in CheckLabels =>
          since[w] <= now' /\ now' <= since[w] + MaxCheck /\ <<since[w], peer[w], dom[w]>> \in had'
    BY <1>1, <2>1, <2>2 DEF HonestInv, CheckHonest
  <2>4. \A t \in since[w] .. now : t \in since[w] .. now'
    BY <1>1, <2>1
  <2>5. pc[w] = "store" => \E t \in since[w] .. now' : <<t, dom[w], seen[w]>> \in states'
    BY <1>1, <2>4 DEF HonestInv, CheckHonest
  <2> QED
    BY <1>1, <2>3, <2>5 DEF CheckHonest
<1> QED
  BY <1>2, <1>3, <1>4, <1>5 DEF HonestInv

(* What happens outside the cache and at no other moment. *)
LEMMA ElsewhereHonest ==
  ASSUME Shape, HonestInv, UNCHANGED <<now, domain, cache, peer, dom, since, seen, had, last>>,
         \A v \in Workers : pc'[v] \in CheckLabels => pc'[v] = pc[v],
         \A d \in Domains : <<now, d, reachable'[d]>> \in states', states \subseteq states'
  PROVE  HonestInv'
<1>1. Recorded' /\ Told'
  BY ToldStays DEF HonestInv, Recorded
<1>2. \A p \in Peers : EntryHonest(p)'
  BY SeenStays DEF HonestInv, EntryHonest, Back
<1>3. \A w \in Workers : CheckHonest(w)'
  BY DEF HonestInv, CheckHonest, CheckLabels
<1> QED
  BY <1>1, <1>2, <1>3 DEF HonestInv

LEMMA StepHonest ==
  ASSUME Shape, ProcessTypes, CacheTypes, HonestInv, Next
  PROVE  HonestInv'
<1> USE DEF cacheVars, outside, cacheLocals
<1>r. \A d \in Domains : <<now, d, reachable[d]>> \in states
  BY DEF HonestInv, Recorded
<1>1. CASE Starting
  <2>1. now' = now /\ pc' = pc
    BY <1>1 DEF Starting, BootTtl, AuthBoot, ReadAuth, DefaultAuth, DefaultAuthWrite, ReadSecret,
       NewSecret, NewSecretWrite, WriteFails, Boot
  <2> QED
    BY <1>1, <1>r, <2>1, ElsewhereHonest DEF Starting, BootTtl
<1>2. ASSUME NEW w \in Workers, AuthStep(w), UNCHANGED cacheVars PROVE HonestInv'
  <2>1. PICK label \in AuthLabels \cup {"idle"} : Moves(w, label)
    BY <1>2, AuthMoves
  <2>2. now' = now
    BY <1>2 DEF AuthStep, Login, LoginBlocked, LoginRight, LoginIssue, LoginWrong, LoginCount,
       LoginAnswer, ChangePassword, AuthTrunc, AuthStore, AuthStoreFails, Begin, Step
  <2>3. \A v \in Workers : pc'[v] \in CheckLabels => pc'[v] = pc[v]
    BY <2>1 DEF Moves, Shape, AuthLabels, CheckLabels
  <2> QED
    BY <1>2, <1>r, <2>2, <2>3, ElsewhereHonest
<1>3. ASSUME NEW w \in Workers, CacheRequest(w) PROVE HonestInv'
  BY <1>3, CheckRequests, HitHonest, StoreHonest, EditsHonest DEF CacheRequest, CacheStep
<1>4. CASE Flip
  <2>1. PICK d \in Domains :
          reachable' = [reachable EXCEPT ![d] = ~@] /\ states' = states \cup {<<now, d, reachable'[d]>>}
    BY <1>4 DEF Flip
  <2>2. \A c \in Domains : <<now, c, reachable'[c]>> \in states'
    BY <1>r, <2>1 DEF CacheTypes
  <2>3. UNCHANGED <<now, pc, domain, cache, peer, dom, since, seen, had, last>>
    BY <1>4 DEF Flip, process
  <2> QED
    BY <2>1, <2>2, <2>3, ElsewhereHonest
<1>5. CASE Tick
  BY <1>5, TickHonest
<1>6. CASE Crash
  <2>1. /\ UNCHANGED <<now, domain, reachable, states, had, last>>
        /\ \A p \in Peers : cache'[p] = Gone
        /\ \A w \in Workers : pc'[w] = "idle"
    BY <1>6 DEF Crash, Die, CacheCut
  <2>2. Recorded' /\ Told'
    BY <2>1, ToldStays DEF HonestInv, Recorded
  <2> QED
    BY <2>1, <2>2 DEF HonestInv, EntryHonest, CheckHonest, CheckLabels
<1> QED
  BY <1>1, <1>2, <1>3, <1>4, <1>5, <1>6 DEF Next

(* A browser is told of a peer's router what was true of a router that was *)
(* the peer's, within the lifetime of the answer and the ticks of a check: *)
(* for any number of checks, edits, changes of the lifetime and restarts   *)
(* (checkPeerRouter).                                                      *)
THEOREM AnswersAlwaysHonest == Spec => []AnswerHonest
<1> DEFINE Inv == Shape /\ ProcessTypes /\ CacheTypes /\ HonestInv
<1>1. Init => Inv
  <2> SUFFICES ASSUME Init PROVE Inv
    OBVIOUS
  <2>1. ProcessTypes
    BY ProcessBounds DEF Init, InitProcess, ProcessTypes
  <2>2. HonestInv
    BY DEF Init, InitProcess, InitCache, HonestInv, Recorded, Told, EntryHonest, CheckHonest, CheckLabels
  <2> QED
    BY <2>1, <2>2, InitShape, InitCacheTypes
<1>2. Inv /\ Next => Inv'
  BY StepShape, StepProcess, StepCacheTypes, StepHonest
<1>3. Inv /\ UNCHANGED vars => Inv'
  <2> SUFFICES ASSUME Inv, UNCHANGED vars PROVE Inv'
    OBVIOUS
  <2> USE DEF vars, process, cacheVars, outside, cacheLocals
  <2>1. Shape' /\ ProcessTypes' /\ CacheTypes'
    BY DEF Shape, ProcessTypes, CacheTypes
  <2>2. HonestInv'
    BY DEF HonestInv, Recorded, Told, EntryHonest, CheckHonest, Seen, Back
  <2> QED
    BY <2>1, <2>2
<1>4. Inv => AnswerHonest
  BY DEF HonestInv, Told, AnswerHonest, Seen, Back
<1> QED
  BY <1>1, <1>2, <1>3, <1>4, PTL DEF Spec
=============================================================================
