------------------------------ MODULE DnsProofs -------------------------------
(***************************************************************************)
(* Proofs about DnsApply for any workers, routers, routes and number of    *)
(* requests and faults.                                                    *)
(***************************************************************************)
EXTENDS DnsApply, FiniteSetTheorems, FunctionTheorems, SequenceTheorems, WellFoundedInduction, TLAPS

(* The compare-and-swap admits one job, and "completed" is written by that *)
(* job when it has no router left.                                         *)
JobInv ==
  /\ pc = [w \in Workers |-> pc[w]]
  /\ dnsApplyRunning \in BOOLEAN
  /\ dnsApplyRunning <=> \E w \in Workers : InJob(w)
  /\ \A v, w \in Workers : InJob(v) /\ InJob(w) => v = w
  /\ StatusHonest

LEMMA InitJob == Init => JobInv
<1> SUFFICES ASSUME Init PROVE JobInv
  OBVIOUS
<1>1. \A w \in Workers : pc[w] = "idle"
  BY DEF Init
<1>2. dnsApplyRunning = FALSE
  BY DEF Init
<1>3. pc = [w \in Workers |-> pc[w]]
  BY DEF Init
<1> QED
  BY <1>1, <1>2, <1>3 DEF JobInv, InJob, StatusHonest

(* A step of a request that is in no job and does not begin one. *)
LEMMA EditKeeps ==
  ASSUME JobInv, NEW w \in Workers, Edit(w) \/ RoutesTrunc(w) \/ RoutesWrite(w) \/ RoutesFailed(w) \/ ApplyBusy(w)
  PROVE  JobInv'
<1> USE DEF Begin, Goto, Reset
<1>1. UNCHANGED <<dnsApplyRunning, status>>
  BY DEF Edit, CreateDnsRoute, UpdateDnsRoute, DeleteDnsRoute, ImportDnsRoutes, RoutesTrunc, RoutesWrite, RoutesFailed,
         ApplyBusy
<1>2. pc[w] \in {"idle", "trunc", "write"}
  BY DEF Edit, CreateDnsRoute, UpdateDnsRoute, DeleteDnsRoute, ImportDnsRoutes, RoutesTrunc, RoutesWrite, RoutesFailed,
         ApplyBusy
<1>3. \E label \in {"idle", "trunc", "write"} : pc' = [pc EXCEPT ![w] = label]
  <2>1. CASE ApplyBusy(w)
    BY <1>2, <2>1 DEF ApplyBusy, locals, JobInv
  <2>2. CASE Edit(w)
    BY <2>2 DEF Edit, CreateDnsRoute, UpdateDnsRoute, DeleteDnsRoute, ImportDnsRoutes
  <2>3. CASE RoutesTrunc(w) \/ RoutesWrite(w) \/ RoutesFailed(w)
    BY <2>3 DEF RoutesTrunc, RoutesWrite, RoutesFailed
  <2> QED
    BY <2>1, <2>2, <2>3
<1> QED
  BY <1>1, <1>2, <1>3 DEF JobInv, InJob, StatusHonest

LEMMA BeginKeeps ==
  ASSUME JobInv, NEW w \in Workers, ApplyBegin(w)
  PROVE  JobInv'
<1>1. ~dnsApplyRunning /\ dnsApplyRunning' /\ status' = status /\ pc' = [pc EXCEPT ![w] = "body"]
  BY DEF ApplyBegin, Goto
<1>2. \A v \in Workers : ~InJob(v)
  BY <1>1 DEF JobInv
<1>3. dnsApplyRunning' = TRUE
  BY DEF ApplyBegin
<1> QED
  BY <1>1, <1>2, <1>3 DEF JobInv, InJob, StatusHonest

LEMMA JobKeeps ==
  ASSUME JobInv, NEW w \in Workers, Body(w) \/ Job(w)
  PROVE  JobInv'
<1> USE DEF Goto, Reset
<1>1. InJob(w) /\ \A v \in Workers \ {w} : ~InJob(v)
  BY DEF Body, BodyRead, Job, ApplyRefused, ApplyNoRoutes, ApplyStart, SkipRouter, ReadGroups, Call, CallFails, Completed,
         Release, InJob, JobInv
<1>2. CASE ApplyRefused(w) \/ ApplyNoRoutes(w) \/ Release(w)
  <2>1. pc' = [pc EXCEPT ![w] = "idle"] /\ status' = status
    BY <1>2 DEF ApplyRefused, ApplyNoRoutes, Release
  <2>2. dnsApplyRunning' = FALSE
    BY <1>2 DEF ApplyRefused, ApplyNoRoutes, Release
  <2> QED
    BY <1>1, <2>1, <2>2 DEF JobInv, InJob, StatusHonest
<1>3. CASE ApplyStart(w)
  <2>1. pc' = [pc EXCEPT ![w] = "next"] /\ status' # "completed" /\ dnsApplyRunning' = dnsApplyRunning
    BY <1>3 DEF ApplyStart
  <2> QED
    BY <1>1, <2>1 DEF JobInv, InJob, StatusHonest
<1>4. CASE SkipRouter(w) \/ ReadGroups(w) \/ Call(w) \/ CallFails(w)
  <2>1. status' = status /\ dnsApplyRunning' = dnsApplyRunning /\ pc[w] \in {"next", "call"}
    BY <1>4 DEF SkipRouter, ReadGroups, Call, CallFails
  <2>2. \E label \in {"next", "call"} : pc' = [pc EXCEPT ![w] = label]
    BY <1>4, <2>1 DEF SkipRouter, ReadGroups, Call, CallFails, Called, JobInv
  <2> QED
    BY <1>1, <2>1, <2>2 DEF JobInv, InJob, StatusHonest
<1>5. CASE Completed(w)
  <2>1. pc' = [pc EXCEPT ![w] = "release"] /\ dnsApplyRunning' = dnsApplyRunning
    BY <1>5 DEF Completed
  <2> QED
    BY <1>1, <2>1 DEF JobInv, InJob, StatusHonest
<1>6. CASE BodyRead(w)
  <2>1. pc' = [pc EXCEPT ![w] = "load"] /\ status' = status /\ dnsApplyRunning' = dnsApplyRunning
    BY <1>6 DEF BodyRead
  <2> QED
    BY <1>1, <2>1 DEF JobInv, InJob, StatusHonest
<1> QED
  BY <1>2, <1>3, <1>4, <1>5, <1>6 DEF Body, Job

LEMMA FaultKeeps ==
  ASSUME JobInv, Crash \/ \E r \in Routers : Reboot(r)
  PROVE  JobInv'
<1>1. CASE Crash
  <2>1. pc' = [w \in Workers |-> "idle"] /\ status' = status
    BY <1>1 DEF Crash
  <2>2. dnsApplyRunning' = FALSE
    BY <1>1 DEF Crash
  <2> QED
    BY <2>1, <2>2 DEF JobInv, InJob, StatusHonest
<1>2. CASE \E r \in Routers : Reboot(r)
  BY <1>2 DEF Reboot, JobInv, InJob, StatusHonest
<1> QED
  BY <1>1, <1>2

LEMMA StepJob == JobInv /\ [Next]_vars => JobInv'
<1> SUFFICES ASSUME JobInv, [Next]_vars PROVE JobInv'
  OBVIOUS
<1>1. CASE UNCHANGED vars
  BY <1>1 DEF vars, locals, JobInv, InJob, StatusHonest
<1>2. CASE Next
  BY <1>2, EditKeeps, BeginKeeps, JobKeeps, FaultKeeps DEF Next
<1> QED
  BY <1>1, <1>2

LEMMA OneJob == Spec => []JobInv
BY InitJob, StepJob, PTL DEF Spec

(* The status says "completed" only while no job is at work on a router,   *)
(* however many requests race for the flag (applyDnsRoutesToRouter).       *)
THEOREM StatusAlwaysHonest == Spec => []StatusHonest
BY OneJob, PTL DEF JobInv

(* Two jobs are never at work at once, from the compare-and-swap to the    *)
(* release of the flag (dnsApplyRunning).                                  *)
THEOREM OneJobAtATime ==
  Spec => [](\A v, w \in Workers : InJob(v) /\ InJob(w) => v = w)
BY OneJob, PTL DEF JobInv

-----------------------------------------------------------------------------
(* Lists: the least of some numbers, by which FlattenSeq, a recursive      *)
(* function, is shown to do what it says.                                  *)
LEMMA Smallest ==
  ASSUME NEW S, S \subseteq Nat, S # {}
  PROVE  \E n \in S : \A m \in S : n <= m
<1>1. PICK n \in S : \A m \in S : <<m, n>> \notin OpToRel(<, Nat)
  BY NatLessThanWellFounded, WFMin
<1>2. ASSUME NEW m \in S, m < n PROVE FALSE
  BY <1>1, <1>2 DEF OpToRel
<1> QED
  BY <1>2

(* FlattenSeq's own recursion, up to n. *)
Flat(s, n, f) == f = [i \in 1 .. n |-> IF i = 1 THEN s[i] ELSE f[i - 1] \o s[i]]

LEMMA FlatExists ==
  ASSUME NEW s, NEW n \in Nat
  PROVE  \E f : Flat(s, n, f)
<1> DEFINE Bad == {m \in Nat : ~ \E f : Flat(s, m, f)}
<1>1. SUFFICES ASSUME Bad # {} PROVE FALSE
  OBVIOUS
<1>2. PICK m \in Bad : \A k \in Bad : m <= k
  BY <1>1, Smallest
<1>3. m # 0
  <2>1. Flat(s, 0, [i \in 1 .. 0 |-> s])
    BY DEF Flat
  <2> QED
    BY <1>2, <2>1
<1>4. PICK f : Flat(s, m - 1, f)
  <2>1. m - 1 \in Nat /\ m - 1 \notin Bad
    BY <1>2, <1>3
  <2> QED
    BY <2>1
<1> DEFINE g == [i \in 1 .. m |-> IF i < m THEN f[i] ELSE IF i = 1 THEN s[i] ELSE f[i - 1] \o s[i]]
<1>5. ASSUME NEW i \in 1 .. m
      PROVE  g[i] = IF i = 1 THEN s[i] ELSE g[i - 1] \o s[i]
  <2>1. CASE i < m
    <3>1. i \in 1 .. m - 1
      BY <2>1
    <3>2. f[i] = IF i = 1 THEN s[i] ELSE f[i - 1] \o s[i]
      BY <1>4, <3>1 DEF Flat
    <3>3. g[i] = f[i] /\ (i # 1 => g[i - 1] = f[i - 1])
      BY <2>1
    <3> HIDE DEF g
    <3> QED
      BY <3>2, <3>3
  <2>2. CASE i = m
    <3>1. i # 1 => g[i - 1] = f[i - 1]
      BY <2>2
    <3>2. g[i] = IF i = 1 THEN s[i] ELSE f[i - 1] \o s[i]
      BY <2>2
    <3> HIDE DEF g
    <3> QED
      BY <3>1, <3>2
  <2> QED
    BY <2>1, <2>2
<1>6. g = [i \in 1 .. m |-> g[i]]
  OBVIOUS
<1> HIDE DEF g
<1>7. Flat(s, m, g)
  BY <1>5, <1>6 DEF Flat
<1> QED
  BY <1>2, <1>7

LEMMA FlatLast ==
  ASSUME NEW s, NEW n \in Nat, n # 0, Len(s) = n
  PROVE  \E f : Flat(s, n, f) /\ FlattenSeq(s) = f[n]
<1> DEFINE F == CHOOSE f : f = [i \in 1 .. n |-> IF i = 1 THEN s[i] ELSE f[i - 1] \o s[i]]
<1>1. Flat(s, n, F)
  BY FlatExists DEF Flat
<1>2. FlattenSeq(s) = F[n]
  BY DEF FlattenSeq
<1> QED
  BY <1>1, <1>2

(* Where each element of a list made of lists comes from: which list, and  *)
(* which of its elements.                                                  *)
Address(q, s, n, blk, off) ==
  /\ \A i \in 1 .. Len(q) : /\ blk[i] \in 1 .. n /\ off[i] \in 1 .. Len(s[blk[i]])
                            /\ q[i] = s[blk[i]][off[i]]
  /\ \A i, j \in 1 .. Len(q) : i < j => blk[i] < blk[j] \/ (blk[i] = blk[j] /\ off[i] < off[j])
  /\ \A a \in 1 .. n : \A b \in 1 .. Len(s[a]) : \E i \in 1 .. Len(q) : blk[i] = a /\ off[i] = b

LEMMA AddressOne ==
  ASSUME NEW T, NEW s, s[1] \in Seq(T)
  PROVE  \E blk, off : Address(s[1], s, 1, blk, off)
<1> DEFINE blk == [i \in 1 .. Len(s[1]) |-> 1]
           off == [i \in 1 .. Len(s[1]) |-> i]
<1>1. Len(s[1]) \in Nat
  BY LenProperties
<1>2. \A i \in 1 .. Len(s[1]) : blk[i] = 1 /\ off[i] = i
  OBVIOUS
<1> HIDE DEF blk, off
<1>3. Address(s[1], s, 1, blk, off)
  BY <1>1, <1>2 DEF Address
<1> QED
  BY <1>3

LEMMA AddressMore ==
  ASSUME NEW T, NEW s, NEW n \in Nat, NEW q \in Seq(T), s[n + 1] \in Seq(T),
         NEW blk, NEW off, Address(q, s, n, blk, off)
  PROVE  \E b, o : Address(q \o s[n + 1], s, n + 1, b, o)
<1> DEFINE t == s[n + 1]
           L == Len(q)
           b == [i \in 1 .. L + Len(t) |-> IF i <= L THEN blk[i] ELSE n + 1]
           o == [i \in 1 .. L + Len(t) |-> IF i <= L THEN off[i] ELSE i - L]
           p == q \o t
<1>1. L \in Nat /\ Len(t) \in Nat
  BY LenProperties
<1>2. /\ Len(p) = L + Len(t)
      /\ \A i \in 1 .. L + Len(t) : p[i] = IF i <= L THEN q[i] ELSE t[i - L]
  BY ConcatProperties
<1>3. \A i \in 1 .. L + Len(t) : b[i] = (IF i <= L THEN blk[i] ELSE n + 1) /\ o[i] = IF i <= L THEN off[i] ELSE i - L
  OBVIOUS
<1> HIDE DEF p, b, o, L
<1>4. ASSUME NEW i \in 1 .. L + Len(t)
      PROVE  b[i] \in 1 .. n + 1 /\ o[i] \in 1 .. Len(s[b[i]]) /\ p[i] = s[b[i]][o[i]]
  <2>1. CASE i <= L
    <3>1. i \in 1 .. L
      BY <1>1, <2>1
    <3>2. blk[i] \in 1 .. n /\ off[i] \in 1 .. Len(s[blk[i]]) /\ q[i] = s[blk[i]][off[i]]
      BY <3>1 DEF Address, L
    <3>3. b[i] = blk[i] /\ o[i] = off[i] /\ p[i] = q[i]
      BY <1>2, <1>3, <2>1
    <3> QED
      BY <3>2, <3>3
  <2>2. CASE i > L
    BY <1>1, <1>2, <1>3, <2>2
  <2> QED
    BY <1>1, <2>1, <2>2
<1>5. ASSUME NEW i \in 1 .. L + Len(t), NEW j \in 1 .. L + Len(t), i < j
      PROVE  b[i] < b[j] \/ (b[i] = b[j] /\ o[i] < o[j])
  <2>1. CASE j <= L
    <3>1. i \in 1 .. L /\ j \in 1 .. L /\ i <= L
      BY <1>1, <1>5, <2>1
    <3>2. blk[i] < blk[j] \/ (blk[i] = blk[j] /\ off[i] < off[j])
      BY <1>5, <3>1 DEF Address, L
    <3> QED
      BY <1>3, <2>1, <3>1, <3>2
  <2>2. CASE i <= L /\ j > L
    <3>1. i \in 1 .. L
      BY <1>1, <2>2
    <3>2. blk[i] \in 1 .. n
      BY <3>1 DEF Address, L
    <3> QED
      BY <1>1, <1>3, <2>2, <3>2
  <2>3. CASE i > L
    BY <1>1, <1>3, <1>5, <2>3
  <2> QED
    BY <1>1, <1>5, <2>1, <2>2, <2>3
<1>6. ASSUME NEW a \in 1 .. n + 1, NEW c \in 1 .. Len(s[a])
      PROVE  \E i \in 1 .. L + Len(t) : b[i] = a /\ o[i] = c
  <2>1. CASE a <= n
    <3>1. PICK i \in 1 .. L : blk[i] = a /\ off[i] = c
      BY <2>1 DEF Address, L
    <3> QED
      BY <1>1, <1>3, <3>1
  <2>2. CASE a = n + 1
    <3>1. L + c \in 1 .. L + Len(t) /\ L + c > L /\ (L + c) - L = c
      BY <1>1, <2>2
    <3> QED
      BY <1>1, <1>3, <2>2, <3>1
  <2> QED
    BY <2>1, <2>2
<1>7. Address(p, s, n + 1, b, o)
  BY <1>2, <1>4, <1>5, <1>6 DEF Address
<1> QED
  BY <1>7 DEF p

LEMMA FlattenAddress ==
  ASSUME NEW T, NEW s \in Seq(Seq(T))
  PROVE  /\ FlattenSeq(s) \in Seq(T)
         /\ \E blk, off : Address(FlattenSeq(s), s, Len(s), blk, off)
<1>1. Len(s) \in Nat /\ \A a \in 1 .. Len(s) : s[a] \in Seq(T)
  BY LenProperties
<1>2. CASE Len(s) = 0
  <2>1. FlattenSeq(s) = <<>> /\ s = <<>>
    BY <1>2, EmptySeq DEF FlattenSeq
  <2>2. Address(<<>>, <<>>, 0, <<>>, <<>>)
    BY DEF Address
  <2> QED
    BY <1>2, <2>1, <2>2
<1>3. CASE Len(s) # 0
  <2>1. PICK f : Flat(s, Len(s), f) /\ FlattenSeq(s) = f[Len(s)]
    BY <1>1, <1>3, FlatLast
  <2> DEFINE OK(m) == f[m] \in Seq(T) /\ \E blk, off : Address(f[m], s, m, blk, off)
             Bad == {m \in 1 .. Len(s) : ~OK(m)}
  <2>2. \A i \in 1 .. Len(s) : f[i] = IF i = 1 THEN s[i] ELSE f[i - 1] \o s[i]
    BY <2>1 DEF Flat
  <2>3. SUFFICES ASSUME Bad # {} PROVE FALSE
    BY <1>1, <1>3, <2>1
  <2>b. Bad \subseteq Nat /\ \A m \in 1 .. Len(s) : m \notin Bad => OK(m)
    BY <1>1
  <2>c. \A m \in Bad : m \in 1 .. Len(s) /\ ~OK(m)
    OBVIOUS
  <2> HIDE DEF Bad, OK
  <2>4. PICK m \in Bad : \A k \in Bad : m <= k
    BY <2>b, <2>3, Smallest
  <2>5. CASE m = 1
    <3>1. f[1] = s[1] /\ s[1] \in Seq(T)
      BY <1>1, <1>3, <2>2
    <3>2. OK(1)
      BY <3>1, AddressOne DEF OK
    <3> QED
      BY <2>c, <2>4, <2>5, <3>2
  <2>6. CASE m # 1
    <3>1. m - 1 \in 1 .. Len(s) /\ m - 1 \notin Bad /\ m \in 1 .. Len(s)
      BY <1>1, <2>c, <2>4, <2>6
    <3>2. OK(m - 1)
      BY <2>b, <3>1
    <3>3. f[m] = f[m - 1] \o s[m] /\ s[m] \in Seq(T)
      BY <1>1, <2>2, <2>6, <3>1
    <3>4. PICK n \in Nat : n = m - 1 /\ m = n + 1
      BY <1>1, <3>1
    <3>5. PICK q \in Seq(T) : q = f[n]
      BY <3>2, <3>4 DEF OK
    <3>6. \E b, o : Address(q \o s[n + 1], s, n + 1, b, o)
      BY <3>2, <3>3, <3>4, <3>5, AddressMore DEF OK
    <3>7. f[m] \in Seq(T)
      BY <3>3, <3>4, <3>5, ConcatProperties
    <3>8. OK(m)
      BY <3>3, <3>4, <3>5, <3>6, <3>7 DEF OK
    <3> QED
      BY <2>c, <2>4, <3>8
  <2> QED
    BY <2>5, <2>6
<1> QED
  BY <1>2, <1>3

(* A set becomes a list of its elements. *)
LEMMA SetToSeqOK ==
  ASSUME NEW S, IsFiniteSet(S)
  PROVE  /\ SetToSeq(S) \in Seq(S)
         /\ \A x \in S : \E i \in 1 .. Len(SetToSeq(S)) : SetToSeq(S)[i] = x
<1> DEFINE n == Cardinality(S)
<1>1. n \in Nat /\ ExistsBijection(1 .. n, S)
  BY FS_CardinalityType
<1>2. \E f \in [1 .. n -> S] : IsInjective(f)
  <2>1. PICK f : f \in Bijection(1 .. n, S)
    BY <1>1 DEF ExistsBijection
  <2> QED
    BY <2>1 DEF Bijection, Injection
<1>3. SetToSeq(S) \in [1 .. n -> S] /\ IsInjective(SetToSeq(S))
  BY <1>2 DEF SetToSeq
<1>4. SetToSeq(S) \in Surjection(1 .. n, S)
  <2>1. SetToSeq(S) \in Injection(1 .. n, S)
    BY <1>3 DEF Injection
  <2>2. Cardinality(1 .. n) = n
    BY <1>1, FS_Interval
  <2> QED
    BY <2>1, <2>2, FS_Injection
<1>5. SetToSeq(S) \in Seq(S) /\ Len(SetToSeq(S)) = n
  BY <1>1, <1>3
<1> QED
  BY <1>4, <1>5 DEF Surjection

-----------------------------------------------------------------------------
(* The calls of an apply. *)
Pieces  == Ids \X (0 .. MaxChunks) \X (1 .. MaxChunks)
CallSet == [do : {"delete", "unbind", "create", "bind", "save"}, gs : SUBSET Names, items : SUBSET Pieces]

Slugged(rs)    == {rs[a].slug : a \in 1 .. Len(rs)}
Old(E, r)      == {g \in E : Own(g) /\ g[1] = r.slug}
Orphans(E, rs) == {g \in E : Own(g) /\ g[1] \notin Slugged(rs)}

(* What creates and binds the k-th chunk of a route. *)
CreateChunk(r, k) == Create(<<r.slug, k>>, Piece(r, k))
BindChunk(r, k)   == Bind(<<r.slug, k>>)

LEMMA NamesFinite == IsFiniteSet(Names)
<1>1. IsFiniteSet(1 .. MaxChunks)
  BY BoundsAssumption, FS_Interval DEF BoundsAssumption
<1> QED
  BY <1>1, NamesAssumption, FS_Product DEF NamesAssumption, Names

LEMMA ChunkTyped ==
  ASSUME NEW r \in Route, NEW k \in 1 .. r.n
  PROVE  /\ <<r.slug, k>> \in Names /\ Piece(r, k) \in Pieces
         /\ CreateChunk(r, k) \in CallSet /\ BindChunk(r, k) \in CallSet
<1>1. r.id \in Ids /\ r.slug \in Slugs /\ r.n \in 0 .. MaxChunks /\ k \in 1 .. MaxChunks
  BY BoundsAssumption DEF BoundsAssumption, Route
<1>2. <<r.slug, k>> \in Names /\ Piece(r, k) \in Pieces
  BY <1>1 DEF Names, Piece, Pieces
<1> QED
  BY <1>2 DEF CreateChunk, BindChunk, Create, Bind, CallSet

LEMMA DropTyped ==
  ASSUME NEW gs, gs \subseteq Names
  PROVE  Delete(gs) \in CallSet /\ \A g \in gs : Unbind(g) \in CallSet
BY DEF Delete, Unbind, CallSet

LEMMA EachUnboundOK ==
  ASSUME NEW gs, gs \subseteq Names
  PROVE  /\ EachUnbound(gs) \in Seq(CallSet)
         /\ \A i \in 1 .. Len(EachUnbound(gs)) : \E g \in gs : EachUnbound(gs)[i] = Unbind(g)
         /\ \A g \in gs : \E i \in 1 .. Len(EachUnbound(gs)) : EachUnbound(gs)[i] = Unbind(g)
<1> DEFINE s == SetToSeq(gs)
           u == [i \in 1 .. Len(s) |-> Unbind(s[i])]
<1>1. s \in Seq(gs) /\ \A x \in gs : \E i \in 1 .. Len(s) : s[i] = x
  <2>1. IsFiniteSet(gs)
    BY NamesFinite, FS_Subset
  <2> QED
    BY <2>1, SetToSeqOK
<1>2. EachUnbound(gs) = u
  BY DEF EachUnbound
<1> HIDE DEF s
<1>3. Len(s) \in Nat /\ \A i \in 1 .. Len(s) : s[i] \in gs
  BY <1>1
<1>4. u \in Seq(CallSet) /\ Len(u) = Len(s)
  <2>1. \A i \in 1 .. Len(s) : Unbind(s[i]) \in CallSet
    BY <1>3, DropTyped
  <2> QED
    BY <1>3, <2>1
<1>5. \A i \in 1 .. Len(s) : u[i] = Unbind(s[i])
  OBVIOUS
<1> HIDE DEF u
<1> QED
  BY <1>1, <1>2, <1>3, <1>4, <1>5

(* The removal of the groups that had a route's slug: one call deletes     *)
(* them, and one each unbinds them.                                        *)
LEMMA DropOldOK ==
  ASSUME NEW E, NEW r \in Route
  PROVE  LET d == DropOld(E, r) IN
         /\ d \in Seq(CallSet)
         /\ \A i \in 1 .. Len(d) : IF i = 1 THEN d[i] = Delete(Old(E, r)) ELSE \E g \in Old(E, r) : d[i] = Unbind(g)
         /\ \A g \in Old(E, r) : 1 \in 1 .. Len(d) /\ \E i \in 2 .. Len(d) : d[i] = Unbind(g)
<1> DEFINE d == DropOld(E, r)
           O == Old(E, r)
           u == EachUnbound(O)
<1>1. O \subseteq Names
  BY DEF Old, Own
<1>2. CASE O = {}
  <2>1. d = <<>>
    BY <1>2 DEF DropOld, Old
  <2> QED
    BY <1>2, <2>1
<1>3. CASE O # {}
  <2>1. d = <<Delete(O)>> \o u
    BY <1>3 DEF DropOld, Old
  <2>2. /\ u \in Seq(CallSet)
        /\ \A i \in 1 .. Len(u) : \E g \in O : u[i] = Unbind(g)
        /\ \A g \in O : \E i \in 1 .. Len(u) : u[i] = Unbind(g)
    BY <1>1, EachUnboundOK
  <2>3. Delete(O) \in CallSet
    BY <1>1, DropTyped
  <2> HIDE DEF d, O, u
  <2>4. <<Delete(O)>> \in Seq(CallSet) /\ Len(<<Delete(O)>>) = 1 /\ <<Delete(O)>>[1] = Delete(O) /\ Len(u) \in Nat
    BY <2>2, <2>3
  <2>5. /\ d \in Seq(CallSet) /\ Len(d) = 1 + Len(u)
        /\ \A i \in 1 .. 1 + Len(u) : d[i] = IF i <= 1 THEN <<Delete(O)>>[i] ELSE u[i - 1]
    BY <2>1, <2>2, <2>4, ConcatProperties
  <2>6. ASSUME NEW i \in 1 .. Len(d)
        PROVE  IF i = 1 THEN d[i] = Delete(O) ELSE \E g \in O : d[i] = Unbind(g)
    <3>1. CASE i = 1
      BY <2>4, <2>5, <3>1
    <3>2. CASE i # 1
      <4>1. i - 1 \in 1 .. Len(u) /\ d[i] = u[i - 1]
        BY <2>4, <2>5, <3>2
      <4> QED
        BY <2>2, <3>2, <4>1
    <3> QED
      BY <3>1, <3>2
  <2>7. ASSUME NEW g \in O
        PROVE  1 \in 1 .. Len(d) /\ \E i \in 2 .. Len(d) : d[i] = Unbind(g)
    <3>1. PICK i \in 1 .. Len(u) : u[i] = Unbind(g)
      BY <2>2
    <3>2. i + 1 \in 2 .. Len(d) /\ d[i + 1] = u[i]
      BY <2>4, <2>5
    <3>3. 1 \in 1 .. Len(d)
      BY <2>4, <2>5
    <3> QED
      BY <3>1, <3>2, <3>3
  <2> QED
    BY <2>5, <2>6, <2>7 DEF d, O
<1> QED
  BY <1>2, <1>3

LEMMA TwoInOne == \A a, b : <<a>> \o <<b>> = <<a, b>>
<1> SUFFICES ASSUME NEW a, NEW b PROVE <<a>> \o <<b>> = <<a, b>>
  OBVIOUS
<1>1. <<a>> \in Seq({a, b}) /\ <<b>> \in Seq({a, b}) /\ <<a, b>> \in Seq({a, b})
  OBVIOUS
<1>2. Len(<<a>> \o <<b>>) = 2 /\ (<<a>> \o <<b>>)[1] = a /\ (<<a>> \o <<b>>)[2] = b /\ <<a>> \o <<b>> \in Seq({a, b})
  <2>1. Len(<<a>>) = 1 /\ Len(<<b>>) = 1 /\ <<a>>[1] = a /\ <<b>>[1] = b
    OBVIOUS
  <2> QED
    BY <1>1, <2>1, ConcatProperties
<1> DEFINE s == <<a>> \o <<b>>
           t == <<a, b>>
<1>3. s \in Seq({a, b}) /\ t \in Seq({a, b}) /\ Len(s) = 2 /\ Len(t) = 2 /\ s[1] = t[1] /\ s[2] = t[2]
  BY <1>1, <1>2
<1> HIDE DEF s, t
<1>4. \A i \in 1 .. Len(s) : s[i] = t[i]
  BY <1>3
<1>5. s = t
  BY <1>3, <1>4, SeqEqual
<1> QED
  BY <1>5 DEF s, t

(* The groups of a route: each chunk is created, and then bound if the     *)
(* route is enabled.                                                       *)
LEMMA CreateChunksOK ==
  ASSUME NEW r \in Route
  PROVE  LET c == CreateChunks(r) IN
         /\ c \in Seq(CallSet)
         /\ \A i \in 1 .. Len(c) : \E k \in 1 .. r.n :
              \/ c[i] = CreateChunk(r, k)
              \/ r.on /\ c[i] = BindChunk(r, k) /\ \E j \in 1 .. i - 1 : c[j] = CreateChunk(r, k)
         /\ \A k \in 1 .. r.n : \E i \in 1 .. Len(c) : c[i] = CreateChunk(r, k)
         /\ r.on => \A k \in 1 .. r.n : \E i \in 1 .. Len(c) : c[i] = BindChunk(r, k)
<1> DEFINE one(k) == <<CreateChunk(r, k)>> \o IF r.on THEN <<BindChunk(r, k)>> ELSE <<>>
           s == [k \in 1 .. r.n |-> one(k)]
           c == FlattenSeq(s)
<1>1. CreateChunks(r) = c
  BY DEF CreateChunks, CreateChunk, BindChunk
<1>2. r.n \in Nat /\ r.on \in BOOLEAN
  BY BoundsAssumption DEF BoundsAssumption, Route
<1>3. ASSUME NEW k \in 1 .. r.n
      PROVE  /\ one(k) \in Seq(CallSet) /\ one(k)[1] = CreateChunk(r, k)
             /\ Len(one(k)) = IF r.on THEN 2 ELSE 1
             /\ r.on => one(k)[2] = BindChunk(r, k)
  <2>1. CreateChunk(r, k) \in CallSet /\ BindChunk(r, k) \in CallSet
    BY ChunkTyped
  <2>2. CASE r.on
    <3>1. one(k) = <<CreateChunk(r, k), BindChunk(r, k)>>
      BY <2>2, TwoInOne
    <3> HIDE DEF one
    <3> QED
      BY <2>1, <2>2, <3>1
  <2>3. CASE ~r.on
    <3>1. one(k) = <<CreateChunk(r, k)>>
      BY <2>3
    <3> HIDE DEF one
    <3> QED
      BY <2>1, <2>3, <3>1
  <2> QED
    BY <1>2, <2>2, <2>3
<1>4. \A k \in 1 .. r.n : s[k] = one(k)
  OBVIOUS
<1> HIDE DEF one
<1>5. s \in Seq(Seq(CallSet)) /\ Len(s) = r.n
  BY <1>2, <1>3
<1> HIDE DEF s
<1>6. c \in Seq(CallSet) /\ \E blk, off : Address(c, s, r.n, blk, off)
  BY <1>5, FlattenAddress
<1>7. PICK blk, off : Address(c, s, r.n, blk, off)
  BY <1>6
<1> HIDE DEF c
<1>8. Len(c) \in Nat
  BY <1>6
<1>9. ASSUME NEW k \in 1 .. r.n
      PROVE  \E i \in 1 .. Len(c) : blk[i] = k /\ off[i] = 1 /\ c[i] = CreateChunk(r, k)
  <2>1. 1 \in 1 .. Len(s[k])
    BY <1>3, <1>4
  <2>2. PICK i \in 1 .. Len(c) : blk[i] = k /\ off[i] = 1
    BY <1>7, <2>1 DEF Address
  <2>3. c[i] = s[k][1]
    BY <1>7, <2>2 DEF Address
  <2> QED
    BY <1>3, <1>4, <2>2, <2>3
<1>10. ASSUME r.on, NEW k \in 1 .. r.n
       PROVE  \E i \in 1 .. Len(c) : c[i] = BindChunk(r, k)
  <2>1. 2 \in 1 .. Len(s[k])
    BY <1>3, <1>4, <1>10
  <2>2. PICK i \in 1 .. Len(c) : blk[i] = k /\ off[i] = 2
    BY <1>7, <2>1 DEF Address
  <2>3. c[i] = s[k][2]
    BY <1>7, <2>2 DEF Address
  <2> QED
    BY <1>3, <1>4, <1>10, <2>2, <2>3
<1>11. ASSUME NEW i \in 1 .. Len(c)
       PROVE  \E k \in 1 .. r.n :
                \/ c[i] = CreateChunk(r, k)
                \/ r.on /\ c[i] = BindChunk(r, k) /\ \E j \in 1 .. i - 1 : c[j] = CreateChunk(r, k)
  <2>1. PICK k \in 1 .. r.n : blk[i] = k /\ off[i] \in 1 .. Len(s[k]) /\ c[i] = s[k][off[i]]
    BY <1>7 DEF Address
  <2>2. CASE off[i] = 1
    BY <1>3, <1>4, <2>1, <2>2
  <2>3. CASE off[i] # 1
    <3>1. off[i] = 2 /\ r.on
      BY <1>2, <1>3, <1>4, <2>1, <2>3
    <3>2. PICK j \in 1 .. Len(c) : blk[j] = k /\ off[j] = 1 /\ c[j] = CreateChunk(r, k)
      BY <1>9
    <3>3. ~(i < j) /\ i # j
      <4>1. i < j => blk[i] < blk[j] \/ (blk[i] = blk[j] /\ off[i] < off[j])
        BY <1>7 DEF Address
      <4> QED
        BY <2>1, <3>1, <3>2, <4>1
    <3>4. j \in 1 .. i - 1
      BY <1>8, <3>2, <3>3
    <3>5. c[i] = BindChunk(r, k)
      BY <1>3, <1>4, <2>1, <3>1
    <3> QED
      BY <3>1, <3>2, <3>4, <3>5
  <2> QED
    BY <2>2, <2>3
<1> QED
  BY <1>1, <1>6, <1>9, <1>10, <1>11

(* The removal of the groups of slugs that no route has: of each group in  *)
(* one call, and its unbinding in a later one.                             *)
Removes(d, i, g) ==
  d[i] = Unbind(g) \/ (d[i] = Delete({g}) /\ \E j \in i + 1 .. Len(d) : d[j] = Unbind(g))

LEMMA DropOrphansOK ==
  ASSUME NEW E, NEW rs \in Seq(Route)
  PROVE  LET d == DropOrphans(E, rs) IN
         /\ d \in Seq(CallSet)
         /\ \A i \in 1 .. Len(d) : \E g \in Orphans(E, rs) : Removes(d, i, g)
         /\ \A g \in Orphans(E, rs) : \E i \in 1 .. Len(d) : d[i] = Delete({g})
<1> DEFINE O == Orphans(E, rs)
           o == SetToSeq(O)
           s == [i \in 1 .. Len(o) |-> <<Delete({o[i]}), Unbind(o[i])>>]
           d == FlattenSeq(s)
<1>1. DropOrphans(E, rs) = d
  <2>1. {r.slug : r \in ToSet(rs)} = Slugged(rs)
    BY DEF ToSet, Slugged
  <2> QED
    BY <2>1 DEF DropOrphans, Orphans
<1>2. O \subseteq Names
  BY DEF Orphans, Own
<1>3. o \in Seq(O) /\ \A g \in O : \E i \in 1 .. Len(o) : o[i] = g
  <2>1. IsFiniteSet(O)
    BY <1>2, NamesFinite, FS_Subset
  <2> QED
    BY <2>1, SetToSeqOK
<1> HIDE DEF O, o
<1>4. Len(o) \in Nat /\ \A i \in 1 .. Len(o) : o[i] \in O
  BY <1>3
<1>5. ASSUME NEW i \in 1 .. Len(o)
      PROVE  /\ s[i] \in Seq(CallSet) /\ Len(s[i]) = 2
             /\ s[i][1] = Delete({o[i]}) /\ s[i][2] = Unbind(o[i])
  <2>1. o[i] \in Names
    BY <1>2, <1>4
  <2>2. Delete({o[i]}) \in CallSet /\ Unbind(o[i]) \in CallSet
    BY <2>1, DropTyped
  <2>3. s[i] = <<Delete({o[i]}), Unbind(o[i])>>
    OBVIOUS
  <2> HIDE DEF s
  <2> QED
    BY <2>2, <2>3
<1>6. s \in Seq(Seq(CallSet)) /\ Len(s) = Len(o)
  BY <1>4, <1>5
<1> HIDE DEF s
<1>7. d \in Seq(CallSet) /\ \E blk, off : Address(d, s, Len(o), blk, off)
  BY <1>6, FlattenAddress
<1>8. PICK blk, off : Address(d, s, Len(o), blk, off)
  BY <1>7
<1> HIDE DEF d
<1>9. Len(d) \in Nat
  BY <1>7
<1>10. ASSUME NEW k \in 1 .. Len(o), NEW p \in {1, 2}
       PROVE  \E i \in 1 .. Len(d) : blk[i] = k /\ off[i] = p /\ d[i] = s[k][p]
  <2>1. p \in 1 .. Len(s[k])
    <3>1. Len(s[k]) = 2
      BY <1>5
    <3> QED
      BY <3>1
  <2>2. PICK i \in 1 .. Len(d) : blk[i] = k /\ off[i] = p
    BY <1>8, <2>1 DEF Address
  <2>3. d[i] = s[k][p]
    BY <1>8, <2>2 DEF Address
  <2> QED
    BY <2>2, <2>3
<1>11. ASSUME NEW i \in 1 .. Len(d)
       PROVE  \E g \in O : Removes(d, i, g)
  <2>1. PICK k \in 1 .. Len(o) : blk[i] = k /\ off[i] \in 1 .. Len(s[k]) /\ d[i] = s[k][off[i]]
    BY <1>8 DEF Address
  <2>2. o[k] \in O
    BY <1>4
  <2>3. CASE off[i] = 2
    BY <1>5, <2>1, <2>2, <2>3 DEF Removes
  <2>4. CASE off[i] # 2
    <3>0. Len(s[k]) = 2 /\ s[k][1] = Delete({o[k]}) /\ s[k][2] = Unbind(o[k])
      BY <1>5
    <3>1. off[i] = 1 /\ d[i] = Delete({o[k]})
      BY <2>1, <2>4, <3>0
    <3>2. PICK j \in 1 .. Len(d) : blk[j] = k /\ off[j] = 2 /\ d[j] = Unbind(o[k])
      <4>1. \E j \in 1 .. Len(d) : blk[j] = k /\ off[j] = 2 /\ d[j] = s[k][2]
        BY <1>10
      <4> QED
        BY <3>0, <4>1
    <3>3. ~(j < i) /\ i # j
      <4>1. j < i => blk[j] < blk[i] \/ (blk[j] = blk[i] /\ off[j] < off[i])
        BY <1>8 DEF Address
      <4> QED
        BY <2>1, <3>1, <3>2, <4>1
    <3>4. j \in i + 1 .. Len(d)
      BY <1>9, <3>2, <3>3
    <3> QED
      BY <2>2, <3>1, <3>2, <3>4 DEF Removes
  <2> QED
    BY <2>3, <2>4
<1>12. ASSUME NEW g \in O
       PROVE  \E i \in 1 .. Len(d) : d[i] = Delete({g})
  <2>1. PICK k \in 1 .. Len(o) : o[k] = g
    BY <1>3
  <2> QED
    BY <1>5, <1>10, <2>1
<1> QED
  BY <1>1, <1>7, <1>11, <1>12 DEF O

(* The calls for one route: first the removals, then the chunks. *)
RouteCalls(E, r) == DropOld(E, r) \o CreateChunks(r)

LEMMA RouteCallsOK ==
  ASSUME NEW E, NEW r \in Route
  PROVE  LET c == RouteCalls(E, r)
             L == Len(DropOld(E, r))
         IN  /\ c \in Seq(CallSet) /\ L \in Nat /\ L <= Len(c)
             /\ \A i \in 1 .. L : IF i = 1 THEN c[i] = Delete(Old(E, r)) ELSE \E g \in Old(E, r) : c[i] = Unbind(g)
             /\ \A g \in Old(E, r) : 1 \in 1 .. L /\ \E i \in 2 .. L : c[i] = Unbind(g)
             /\ \A i \in L + 1 .. Len(c) : \E k \in 1 .. r.n :
                  \/ c[i] = CreateChunk(r, k)
                  \/ r.on /\ c[i] = BindChunk(r, k) /\ \E j \in L + 1 .. i - 1 : c[j] = CreateChunk(r, k)
             /\ \A k \in 1 .. r.n : \E i \in L + 1 .. Len(c) : c[i] = CreateChunk(r, k)
             /\ r.on => \A k \in 1 .. r.n : \E i \in L + 1 .. Len(c) : c[i] = BindChunk(r, k)
<1> DEFINE d == DropOld(E, r)
           m == CreateChunks(r)
           c == RouteCalls(E, r)
           L == Len(d)
<1>1. /\ d \in Seq(CallSet)
      /\ \A i \in 1 .. L : IF i = 1 THEN d[i] = Delete(Old(E, r)) ELSE \E g \in Old(E, r) : d[i] = Unbind(g)
      /\ \A g \in Old(E, r) : 1 \in 1 .. L /\ \E i \in 2 .. L : d[i] = Unbind(g)
  BY DropOldOK
<1>2. /\ m \in Seq(CallSet)
      /\ \A i \in 1 .. Len(m) : \E k \in 1 .. r.n :
           \/ m[i] = CreateChunk(r, k)
           \/ r.on /\ m[i] = BindChunk(r, k) /\ \E j \in 1 .. i - 1 : m[j] = CreateChunk(r, k)
      /\ \A k \in 1 .. r.n : \E i \in 1 .. Len(m) : m[i] = CreateChunk(r, k)
      /\ r.on => \A k \in 1 .. r.n : \E i \in 1 .. Len(m) : m[i] = BindChunk(r, k)
  BY CreateChunksOK
<1>3. c = d \o m
  BY DEF RouteCalls
<1> HIDE DEF d, m, c
<1>4. /\ c \in Seq(CallSet) /\ Len(c) = Len(d) + Len(m)
      /\ \A i \in 1 .. Len(d) + Len(m) : c[i] = IF i <= Len(d) THEN d[i] ELSE m[i - Len(d)]
  BY <1>1, <1>2, <1>3, ConcatProperties
<1>5. Len(d) \in Nat /\ Len(m) \in Nat
  BY <1>1, <1>2
<1>6. \A i \in 1 .. L : i \in 1 .. Len(c) /\ c[i] = d[i]
  BY <1>4, <1>5
<1>7. \A i \in 1 .. Len(m) : i + L \in L + 1 .. Len(c) /\ c[i + L] = m[i]
  BY <1>4, <1>5
<1>8. ASSUME NEW i \in L + 1 .. Len(c)
      PROVE  \E k \in 1 .. r.n :
               \/ c[i] = CreateChunk(r, k)
               \/ r.on /\ c[i] = BindChunk(r, k) /\ \E j \in L + 1 .. i - 1 : c[j] = CreateChunk(r, k)
  <2>1. i - L \in 1 .. Len(m) /\ c[i] = m[i - L]
    BY <1>4, <1>5
  <2>2. PICK k \in 1 .. r.n :
          \/ m[i - L] = CreateChunk(r, k)
          \/ r.on /\ m[i - L] = BindChunk(r, k) /\ \E j \in 1 .. (i - L) - 1 : m[j] = CreateChunk(r, k)
    BY <1>2, <2>1
  <2>3. ASSUME NEW j \in 1 .. (i - L) - 1
        PROVE  j + L \in L + 1 .. i - 1 /\ c[j + L] = m[j]
    BY <1>5, <1>7, <2>1
  <2> QED
    BY <2>1, <2>2, <2>3
<1>9. \A x : (\E i \in 1 .. Len(m) : m[i] = x) => \E i \in L + 1 .. Len(c) : c[i] = x
  BY <1>7
<1>10. ASSUME NEW g \in Old(E, r)
       PROVE  1 \in 1 .. L /\ \E i \in 2 .. L : c[i] = Unbind(g)
  <2>1. PICK i \in 2 .. L : d[i] = Unbind(g)
    BY <1>1
  <2>2. c[i] = d[i]
    BY <1>5, <1>6
  <2> QED
    BY <1>1, <2>1, <2>2
<1>11. L <= Len(c) /\ L \in Nat
  BY <1>4, <1>5
<1>12. \A i \in 1 .. L : IF i = 1 THEN c[i] = Delete(Old(E, r)) ELSE \E g \in Old(E, r) : c[i] = Unbind(g)
  BY <1>1, <1>6
<1>13. /\ \A k \in 1 .. r.n : \E i \in L + 1 .. Len(c) : c[i] = CreateChunk(r, k)
       /\ r.on => \A k \in 1 .. r.n : \E i \in L + 1 .. Len(c) : c[i] = BindChunk(r, k)
  BY <1>2, <1>9
<1>14. c \in Seq(CallSet)
  BY <1>4
<1> HIDE <1>1, <1>2, <1>4
<1> QED
  BY <1>8, <1>10, <1>11, <1>12, <1>13, <1>14 DEF d, c

-----------------------------------------------------------------------------
(* Lists joined and shortened. *)
LEMMA Joined ==
  ASSUME NEW T, NEW x \in Seq(T), NEW y \in Seq(T)
  PROVE  /\ x \o y \in Seq(T) /\ Len(x \o y) = Len(x) + Len(y) /\ Len(x) \in Nat /\ Len(y) \in Nat
         /\ \A i \in 1 .. Len(x) : i \in 1 .. Len(x \o y) /\ (x \o y)[i] = x[i]
         /\ \A i \in 1 .. Len(y) : i + Len(x) \in 1 .. Len(x \o y) /\ (x \o y)[i + Len(x)] = y[i]
         /\ \A i \in 1 .. Len(x \o y) : i \in 1 .. Len(x) \/ (i > Len(x) /\ i - Len(x) \in 1 .. Len(y))
<1> DEFINE z == x \o y
<1>1. /\ z \in Seq(T) /\ Len(z) = Len(x) + Len(y)
      /\ \A i \in 1 .. Len(x) + Len(y) : z[i] = IF i <= Len(x) THEN x[i] ELSE y[i - Len(x)]
  BY ConcatProperties
<1>2. Len(x) \in Nat /\ Len(y) \in Nat
  BY LenProperties
<1> HIDE DEF z
<1>3. \A i \in 1 .. Len(x) : i \in 1 .. Len(z) /\ z[i] = x[i]
  BY <1>1, <1>2
<1>4. ASSUME NEW i \in 1 .. Len(y)
      PROVE  i + Len(x) \in 1 .. Len(z) /\ z[i + Len(x)] = y[i]
  <2>1. i + Len(x) \in 1 .. Len(x) + Len(y) /\ ~(i + Len(x) <= Len(x)) /\ (i + Len(x)) - Len(x) = i
    BY <1>2
  <2> QED
    BY <1>1, <2>1
<1>5. \A i \in 1 .. Len(z) : i \in 1 .. Len(x) \/ (i > Len(x) /\ i - Len(x) \in 1 .. Len(y))
  BY <1>1, <1>2
<1> QED
  BY <1>1, <1>2, <1>3, <1>4, <1>5 DEF z

LEMMA Shorter ==
  ASSUME NEW T, NEW s \in Seq(T), Len(s) >= 1
  PROVE  /\ Head(s) = s[1] /\ Head(s) \in T
         /\ Tail(s) \in Seq(T) /\ Len(Tail(s)) = Len(s) - 1 /\ Len(s) \in Nat
         /\ \A i \in 1 .. Len(Tail(s)) : i + 1 \in 2 .. Len(s) /\ Tail(s)[i] = s[i + 1]
         /\ \A i \in 2 .. Len(s) : i - 1 \in 1 .. Len(Tail(s)) /\ Tail(s)[i - 1] = s[i]
<1>1. Len(s) \in Nat /\ s # <<>>
  BY EmptySeq, LenProperties
<1> DEFINE t == Tail(s)
<1>2. Head(s) = s[1] /\ Head(s) \in T
  BY <1>1, HeadTailProperties
<1>3. t \in Seq(T) /\ Len(t) = Len(s) - 1 /\ \A i \in 1 .. Len(t) : t[i] = s[i + 1]
  BY <1>1, HeadTailProperties
<1> HIDE DEF t
<1>4. \A i \in 1 .. Len(t) : i + 1 \in 2 .. Len(s) /\ t[i] = s[i + 1]
  BY <1>1, <1>3
<1>5. \A i \in 2 .. Len(s) : i - 1 \in 1 .. Len(t) /\ t[i - 1] = s[i]
  BY <1>1, <1>3
<1> QED
  BY <1>1, <1>2, <1>3, <1>4, <1>5 DEF t

LEMMA WithoutTyped ==
  ASSUME NEW rs \in Seq(Route), NEW i
  PROVE  Without(rs, i) \in Seq(Route)
<1> DEFINE s == [k \in 1 .. Len(rs) |-> IF rs[k].id = i THEN <<>> ELSE <<rs[k]>>]
<1>1. Len(rs) \in Nat /\ \A k \in 1 .. Len(rs) : rs[k] \in Route
  BY LenProperties
<1>2. \A k \in 1 .. Len(rs) : s[k] \in Seq(Route)
  BY <1>1
<1>3. s \in Seq(Seq(Route))
  BY <1>1, <1>2
<1> HIDE DEF s
<1>4. FlattenSeq(s) \in Seq(Route)
  BY <1>3, FlattenAddress
<1> QED
  BY <1>4 DEF Without, s

(* The calls for all routes, and with what goes before and after them. *)
Middle(E, rs) == FlattenSeq([i \in 1 .. Len(rs) |-> RouteCalls(E, rs[i])])

LEMMA PlanIs ==
  ASSUME NEW E, NEW rs
  PROVE  Plan(E, rs) = (DropOrphans(E, rs) \o Middle(E, rs)) \o <<Save>>
BY DEF Plan, Middle, RouteCalls

LEMMA MiddleAddress ==
  ASSUME NEW E, NEW rs \in Seq(Route)
  PROVE  LET s == [i \in 1 .. Len(rs) |-> RouteCalls(E, rs[i])] IN
         /\ Middle(E, rs) \in Seq(CallSet)
         /\ \E blk, off : Address(Middle(E, rs), s, Len(rs), blk, off)
<1> DEFINE s == [i \in 1 .. Len(rs) |-> RouteCalls(E, rs[i])]
<1>1. Len(rs) \in Nat /\ \A k \in 1 .. Len(rs) : rs[k] \in Route
  BY LenProperties
<1>2. \A k \in 1 .. Len(rs) : RouteCalls(E, rs[k]) \in Seq(CallSet)
  BY <1>1, RouteCallsOK
<1>3. s \in Seq(Seq(CallSet)) /\ Len(s) = Len(rs)
  BY <1>1, <1>2
<1>4. Middle(E, rs) = FlattenSeq(s)
  BY DEF Middle
<1> HIDE DEF s
<1>5. FlattenSeq(s) \in Seq(CallSet) /\ \E blk, off : Address(FlattenSeq(s), s, Len(s), blk, off)
  BY <1>3, FlattenAddress
<1> QED
  BY <1>3, <1>4, <1>5 DEF s

(* A list of calls still to be made: the last of them saves. *)
Listed(cs) == cs \in Seq(CallSet) /\ Len(cs) >= 1 /\ cs[Len(cs)] = Save

LEMMA PlanListed ==
  ASSUME NEW E, NEW rs \in Seq(Route)
  PROVE  Listed(Plan(E, rs))
<1> DEFINE x == DropOrphans(E, rs) \o Middle(E, rs)
           p == x \o <<Save>>
<1>1. x \in Seq(CallSet)
  BY DropOrphansOK, MiddleAddress, Joined
<1>2. <<Save>> \in Seq(CallSet) /\ Len(<<Save>>) = 1 /\ <<Save>>[1] = Save
  BY DEF Save, CallSet
<1>3. p = Plan(E, rs)
  BY PlanIs
<1> HIDE DEF x
<1>4. /\ p \in Seq(CallSet) /\ Len(p) = Len(x) + 1 /\ Len(x) \in Nat
      /\ \A i \in 1 .. 1 : p[i + Len(x)] = <<Save>>[i]
  BY <1>1, <1>2, Joined
<1>5. p[1 + Len(x)] = Save
  BY <1>2, <1>4
<1> HIDE DEF p
<1>6. Len(p) >= 1 /\ p[Len(p)] = Save
  BY <1>4, <1>5
<1> QED
  BY <1>3, <1>4, <1>6 DEF Listed

-----------------------------------------------------------------------------
(* Types.  A router always has the groups of its owner, and they are       *)
(* empty: no call of an apply names them.                                  *)
Holds(G) ==
  /\ G = [g \in DOMAIN G |-> G[g]]
  /\ Foreign \subseteq DOMAIN G /\ DOMAIN G \subseteq Names \cup Foreign
  /\ \A g \in Foreign : G[g] = {}

OnRouter ==
  /\ groups = [r \in Routers |-> groups[r]] /\ \A r \in Routers : Holds(groups[r])
  /\ bound \in [Routers -> SUBSET Names]
  /\ startup = [r \in Routers |-> startup[r]]
  /\ \A r \in Routers : Holds(startup[r].groups) /\ startup[r].bound \subseteq Names

StoredOK ==
  /\ stored = Torn \/ stored \in Seq(Route)
  /\ status \in {"idle", "running", "completed"}
  /\ faults \in Nat

LocalsOK ==
  /\ pc \in [Workers -> {"idle", "trunc", "write", "body", "load", "next", "call", "release"}]
  /\ routes \in [Workers -> Seq(Route)]
  /\ todo \in [Workers -> SUBSET Routers]
  /\ router = [w \in Workers |-> router[w]]
  /\ calls = [w \in Workers |-> calls[w]]
  /\ clean \in [Workers -> BOOLEAN]
  /\ \A w \in Workers : pc[w] = "call" => router[w] \in Routers /\ Listed(calls[w])

TypeInv == StoredOK /\ LocalsOK /\ OnRouter

LEMMA InitTypes == Init => TypeInv
<1> SUFFICES ASSUME Init PROVE TypeInv
  OBVIOUS
<1> USE DEF Init
<1>1. StoredOK
  BY RoutesAssumption DEF StoredOK, RoutesAssumption
<1>2. LocalsOK
  <2>1. <<>> \in Seq(Route)
    OBVIOUS
  <2> QED
    BY <2>1 DEF LocalsOK
<1>3. OnRouter
  <2> DEFINE none == [g \in Foreign |-> {}]
  <2>1. Holds(none)
    BY DEF Holds
  <2> HIDE DEF none
  <2>2. groups = [r \in Routers |-> none] /\ bound = [r \in Routers |-> {}]
    BY DEF none
  <2>3. startup = [r \in Routers |-> [groups |-> groups[r], bound |-> {}]]
    OBVIOUS
  <2>4. ASSUME NEW r \in Routers
        PROVE  startup[r].groups = none /\ startup[r].bound = {}
    <3>1. startup[r] = [groups |-> groups[r], bound |-> {}] /\ groups[r] = none
      BY <2>2, <2>3
    <3> QED
      BY <3>1
  <2> QED
    BY <2>1, <2>2, <2>3, <2>4 DEF OnRouter
<1> QED
  BY <1>1, <1>2, <1>3 DEF TypeInv

LEMMA LoadTyped == StoredOK => LoadDnsRoutes \in Seq(Route)
BY DEF StoredOK, LoadDnsRoutes

LEMMA ResetTypes ==
  ASSUME LocalsOK, NEW w \in Workers, Reset(w)
  PROVE  LocalsOK'
<1>1. <<>> \in Seq(Route)
  OBVIOUS
<1> QED
  BY <1>1 DEF LocalsOK, Reset, Goto, Listed

LEMMA EditTypes ==
  ASSUME TypeInv, NEW w \in Workers, Edit(w)
  PROVE  TypeInv'
<1>1. LoadDnsRoutes \in Seq(Route)
  BY LoadTyped DEF TypeInv
<1>2. /\ pc' = [pc EXCEPT ![w] = "trunc"]
      /\ UNCHANGED <<stored, status, faults, groups, bound, startup, todo, router, calls, clean>>
  BY DEF Edit, CreateDnsRoute, UpdateDnsRoute, DeleteDnsRoute, ImportDnsRoutes, onRouter, Goto
<1>3. \E rs \in Seq(Route) : routes' = [routes EXCEPT ![w] = rs]
  <2>1. CASE CreateDnsRoute(w)
    <3>1. PICK r \in Route : routes' = [routes EXCEPT ![w] = Append(LoadDnsRoutes, r)]
      BY <2>1 DEF CreateDnsRoute
    <3>2. Append(LoadDnsRoutes, r) \in Seq(Route)
      BY <1>1, AppendProperties
    <3> QED
      BY <3>1, <3>2
  <2>2. CASE UpdateDnsRoute(w)
    <3>1. PICK i \in DOMAIN LoadDnsRoutes, r \in Route : routes' = [routes EXCEPT ![w] = [LoadDnsRoutes EXCEPT ![i] = r]]
      BY <2>2 DEF UpdateDnsRoute
    <3>2. [LoadDnsRoutes EXCEPT ![i] = r] \in Seq(Route)
      BY <1>1, ExceptSeq
    <3> QED
      BY <3>1, <3>2
  <2>3. CASE DeleteDnsRoute(w)
    <3>1. PICK i \in Ids : routes' = [routes EXCEPT ![w] = Without(LoadDnsRoutes, i)]
      BY <2>3 DEF DeleteDnsRoute
    <3> QED
      BY <1>1, <3>1, WithoutTyped
  <2>4. CASE ImportDnsRoutes(w)
    BY <2>4, RoutesAssumption DEF ImportDnsRoutes, RoutesAssumption
  <2> QED
    BY <2>1, <2>2, <2>3, <2>4 DEF Edit
<1>4. StoredOK' /\ OnRouter'
  BY <1>2 DEF TypeInv, StoredOK, OnRouter, Holds
<1>5. LocalsOK'
  BY <1>2, <1>3 DEF TypeInv, LocalsOK, Listed
<1> QED
  BY <1>4, <1>5 DEF TypeInv

(* The steps that neither edit nor touch a router. *)
LEMMA QuietTypes ==
  ASSUME TypeInv, NEW w \in Workers,
         \/ RoutesTrunc(w) \/ RoutesWrite(w) \/ RoutesFailed(w) \/ ApplyBegin(w) \/ ApplyBusy(w)
         \/ BodyRead(w) \/ ApplyRefused(w) \/ ApplyNoRoutes(w) \/ ApplyStart(w) \/ SkipRouter(w)
         \/ Completed(w) \/ Release(w)
  PROVE  TypeInv'
<1> USE DEF TypeInv
<1>1. UNCHANGED <<groups, bound, startup>>
  BY DEF RoutesTrunc, RoutesWrite, RoutesFailed, ApplyBegin, ApplyBusy, BodyRead, ApplyRefused, ApplyNoRoutes, ApplyStart,
         SkipRouter, Completed, Release, onRouter
<1>2. OnRouter'
  BY <1>1 DEF OnRouter, Holds
<1>3. CASE RoutesWrite(w) \/ RoutesFailed(w) \/ ApplyRefused(w) \/ ApplyNoRoutes(w) \/ Release(w)
  <2>1. LocalsOK'
    BY <1>3, ResetTypes DEF RoutesWrite, RoutesFailed, ApplyRefused, ApplyNoRoutes, Release
  <2>2. StoredOK'
    <3>1. status' = status /\ (faults' = faults \/ faults' = faults + 1)
          /\ (stored' = stored \/ stored' = routes[w])
      BY <1>3 DEF RoutesWrite, RoutesFailed, ApplyRefused, ApplyNoRoutes, Release, counters, Fault
    <3> QED
      BY <3>1 DEF StoredOK, LocalsOK
  <2> QED
    BY <1>2, <2>1, <2>2
<1>4. CASE RoutesTrunc(w) \/ ApplyBegin(w) \/ ApplyBusy(w) \/ BodyRead(w) \/ SkipRouter(w) \/ Completed(w)
  <2>1. UNCHANGED <<routes, router, calls, clean>>
    BY <1>4 DEF RoutesTrunc, ApplyBegin, ApplyBusy, BodyRead, SkipRouter, Completed, locals
  <2>2. \E label \in {"idle", "trunc", "write", "body", "load", "next", "release"} : pc' = pc \/ pc' = [pc EXCEPT ![w] = label]
    BY <1>4 DEF RoutesTrunc, ApplyBegin, ApplyBusy, BodyRead, SkipRouter, Completed, locals, Goto
  <2>3. todo' \in [Workers -> SUBSET Routers]
    <3>1. CASE SkipRouter(w)
      <4>1. PICK r : todo' = [todo EXCEPT ![w] = @ \ {r}]
        BY <3>1 DEF SkipRouter
      <4> QED
        BY <4>1 DEF LocalsOK
    <3>2. CASE ~SkipRouter(w)
      BY <1>4, <3>2 DEF RoutesTrunc, ApplyBegin, ApplyBusy, BodyRead, Completed, locals, LocalsOK
    <3> QED
      BY <3>1, <3>2
  <2>4. LocalsOK'
    BY <2>1, <2>2, <2>3 DEF LocalsOK, Listed
  <2>5. StoredOK'
    <3>1. stored' = stored \/ stored' = Torn
      BY <1>4 DEF RoutesTrunc, ApplyBegin, ApplyBusy, BodyRead, SkipRouter, Completed
    <3>2. status' = status \/ status' = "completed"
      BY <1>4 DEF RoutesTrunc, ApplyBegin, ApplyBusy, BodyRead, SkipRouter, Completed
    <3>3. faults' = faults \/ faults' = faults + 1
      BY <1>4 DEF RoutesTrunc, ApplyBegin, ApplyBusy, BodyRead, SkipRouter, Completed, counters, Fault
    <3> QED
      BY <3>1, <3>2, <3>3 DEF StoredOK
  <2> QED
    BY <1>2, <2>4, <2>5
<1>5. CASE ApplyStart(w)
  <2>1. PICK t \in SUBSET Routers : todo' = [todo EXCEPT ![w] = t]
    BY <1>5 DEF ApplyStart
  <2>2. /\ routes' = [routes EXCEPT ![w] = LoadDnsRoutes] /\ pc' = [pc EXCEPT ![w] = "next"]
        /\ UNCHANGED <<router, calls, clean, stored, faults>> /\ status' = "running"
    BY <1>5 DEF ApplyStart, Goto, counters
  <2>3. LocalsOK'
    BY <2>1, <2>2, LoadTyped DEF LocalsOK, Listed
  <2>4. StoredOK'
    BY <2>2 DEF StoredOK
  <2> QED
    BY <1>2, <2>3, <2>4
<1> QED
  BY <1>3, <1>4, <1>5

(* What a call leaves of a router's groups, and of those it routes. *)
After(G, c) ==
  CASE c.do = "delete" -> [g \in DOMAIN G \ c.gs |-> G[g]]
    [] c.do = "create" -> [g \in DOMAIN G \cup c.gs |->
                             (IF g \in DOMAIN G THEN G[g] ELSE {}) \cup (IF g \in c.gs THEN c.items ELSE {})]
    [] OTHER -> G

Routed(B, c) ==
  CASE c.do = "unbind" -> B \ c.gs
    [] c.do = "bind"   -> B \cup c.gs
    [] OTHER -> B

LEMMA EffectIs ==
  ASSUME OnRouter, NEW r \in Routers, NEW c, Effect(r, c)
  PROVE  /\ groups' = [groups EXCEPT ![r] = After(groups[r], c)]
         /\ bound' = [bound EXCEPT ![r] = Routed(bound[r], c)]
         /\ groups'[r] = After(groups[r], c) /\ bound'[r] = Routed(bound[r], c)
         /\ \A q \in Routers \ {r} : groups'[q] = groups[q] /\ bound'[q] = bound[q]
         /\ c.do = "save" => startup' = [startup EXCEPT ![r] = [groups |-> groups[r], bound |-> bound[r]]]
         /\ c.do # "save" => startup' = startup
<1>1. groups' = [groups EXCEPT ![r] = After(groups[r], c)]
  BY DEF Effect, After
<1>2. bound' = [bound EXCEPT ![r] = Routed(bound[r], c)]
  BY DEF Effect, Routed
<1>3. /\ groups'[r] = After(groups[r], c)
      /\ \A q \in Routers \ {r} : groups'[q] = groups[q]
  BY <1>1 DEF OnRouter
<1>4. /\ bound'[r] = Routed(bound[r], c)
      /\ \A q \in Routers \ {r} : bound'[q] = bound[q]
  BY <1>2 DEF OnRouter
<1>5. /\ c.do = "save" => startup' = [startup EXCEPT ![r] = [groups |-> groups[r], bound |-> bound[r]]]
      /\ c.do # "save" => startup' = startup
  BY DEF Effect
<1> QED
  BY <1>1, <1>2, <1>3, <1>4, <1>5

LEMMA AfterHolds ==
  ASSUME NEW G, Holds(G), NEW c \in CallSet
  PROVE  Holds(After(G, c))
<1>1. c.gs \subseteq Names /\ c.gs \cap Foreign = {}
  BY NamesAssumption DEF CallSet, NamesAssumption
<1>2. CASE c.do = "delete"
  <2> DEFINE H == [g \in DOMAIN G \ c.gs |-> G[g]]
  <2>1. After(G, c) = H
    BY <1>2 DEF After
  <2>2. Holds(H)
    BY <1>1 DEF Holds
  <2> QED
    BY <2>1, <2>2
<1>3. CASE c.do = "create"
  <2> DEFINE H == [g \in DOMAIN G \cup c.gs |->
                     (IF g \in DOMAIN G THEN G[g] ELSE {}) \cup (IF g \in c.gs THEN c.items ELSE {})]
  <2>1. After(G, c) = H
    BY <1>3 DEF After
  <2>2. \A g \in Foreign : g \in DOMAIN G /\ g \notin c.gs /\ G[g] = {}
    BY <1>1 DEF Holds
  <2>3. \A g \in Foreign : H[g] = {}
    BY <2>2
  <2>4. DOMAIN H = DOMAIN G \cup c.gs /\ H = [g \in DOMAIN H |-> H[g]]
    OBVIOUS
  <2> HIDE DEF H
  <2>5. Holds(H)
    BY <1>1, <2>2, <2>3, <2>4 DEF Holds
  <2> QED
    BY <2>1, <2>5
<1>4. CASE c.do \notin {"delete", "create"}
  <2>1. After(G, c) = G
    BY <1>4 DEF After
  <2> QED
    BY <2>1
<1> QED
  BY <1>2, <1>3, <1>4

LEMMA RoutedTyped ==
  ASSUME NEW B, B \subseteq Names, NEW c \in CallSet
  PROVE  Routed(B, c) \subseteq Names
<1>1. c.gs \subseteq Names
  BY DEF CallSet
<1> QED
  BY <1>1 DEF Routed

LEMMA EffectTypes ==
  ASSUME OnRouter, NEW r \in Routers, NEW c \in CallSet, Effect(r, c)
  PROVE  OnRouter'
<1>1. /\ groups' = [groups EXCEPT ![r] = After(groups[r], c)]
      /\ bound' = [bound EXCEPT ![r] = Routed(bound[r], c)]
      /\ groups'[r] = After(groups[r], c)
      /\ \A q \in Routers \ {r} : groups'[q] = groups[q]
      /\ c.do = "save" => startup' = [startup EXCEPT ![r] = [groups |-> groups[r], bound |-> bound[r]]]
      /\ c.do # "save" => startup' = startup
  BY EffectIs
<1>2. \A q \in Routers : Holds(groups[q]) /\ bound[q] \subseteq Names
  BY DEF OnRouter
<1>3. groups' = [q \in Routers |-> groups'[q]]
  BY <1>1 DEF OnRouter
<1>4. Holds(After(groups[r], c))
  BY <1>2, AfterHolds
<1>5. ASSUME NEW q \in Routers PROVE Holds(groups'[q])
  <2>1. CASE q = r
    BY <1>1, <1>4, <2>1
  <2>2. CASE q # r
    <3>1. groups'[q] = groups[q]
      BY <1>1, <2>2
    <3> QED
      BY <1>2, <3>1
  <2> QED
    BY <2>1, <2>2
<1>6. bound' \in [Routers -> SUBSET Names]
  <2>1. Routed(bound[r], c) \subseteq Names
    BY <1>2, RoutedTyped
  <2> QED
    BY <1>1, <2>1 DEF OnRouter
<1>7. startup' = [q \in Routers |-> startup'[q]]
  BY <1>1 DEF OnRouter
<1>8. ASSUME NEW q \in Routers
      PROVE  Holds(startup'[q].groups) /\ startup'[q].bound \subseteq Names
  <2>0. Holds(startup[q].groups) /\ startup[q].bound \subseteq Names
    BY DEF OnRouter
  <2>1. CASE c.do = "save" /\ q = r
    <3>1. startup'[q] = [groups |-> groups[r], bound |-> bound[r]]
      BY <1>1, <2>1 DEF OnRouter
    <3>2. startup'[q].groups = groups[r] /\ startup'[q].bound = bound[r]
      BY <3>1
    <3> QED
      BY <1>2, <3>2
  <2>2. CASE ~(c.do = "save" /\ q = r)
    <3>1. startup'[q] = startup[q]
      BY <1>1, <2>2 DEF OnRouter
    <3> QED
      BY <2>0, <3>1
  <2> QED
    BY <2>1, <2>2
<1> HIDE <1>1
<1> QED
  BY <1>3, <1>5, <1>6, <1>7, <1>8 DEF OnRouter

(* A call that is answered, or fails: the rest of the list remains. *)
LEMMA CalledTypes ==
  ASSUME LocalsOK, NEW w \in Workers, pc[w] = "call", Called(w),
         UNCHANGED <<routes, todo, router>>, clean' \in [Workers -> BOOLEAN]
  PROVE  LocalsOK'
<1>1. router[w] \in Routers /\ Listed(calls[w])
  BY DEF LocalsOK
<1>2. calls' = [calls EXCEPT ![w] = Tail(calls[w])] /\ pc' = [pc EXCEPT ![w] = IF Len(calls[w]) = 1 THEN "next" ELSE "call"]
  BY DEF Called, Goto
<1>3. ASSUME Len(calls[w]) # 1
      PROVE  Listed(Tail(calls[w]))
  <2> DEFINE s == calls[w]
             t == Tail(s)
             n == Len(s)
  <2>1. s \in Seq(CallSet) /\ n >= 1 /\ n \in Nat /\ s[n] = Save
    BY <1>1 DEF Listed
  <2>2. /\ t \in Seq(CallSet) /\ Len(t) = n - 1
        /\ \A i \in 1 .. Len(t) : t[i] = s[i + 1]
    BY <2>1, Shorter
  <2>3. n # 1
    BY <1>3
  <2> HIDE DEF t, s, n
  <2>4. n - 1 \in 1 .. Len(t) /\ (n - 1) + 1 = n
    BY <2>1, <2>2, <2>3
  <2>5. t[n - 1] = s[n]
    BY <2>2, <2>4
  <2>6. Listed(t)
    BY <2>1, <2>2, <2>4, <2>5 DEF Listed
  <2> QED
    BY <2>6 DEF t, s
<1>4. ASSUME NEW v \in Workers, pc'[v] = "call"
      PROVE  router'[v] \in Routers /\ Listed(calls'[v])
  <2>1. CASE v = w
    <3>1. pc'[v] = IF Len(calls[w]) = 1 THEN "next" ELSE "call"
      BY <1>2, <2>1 DEF LocalsOK
    <3>2. calls'[v] = Tail(calls[w]) /\ Len(calls[w]) # 1
      BY <1>2, <1>4, <2>1, <3>1 DEF LocalsOK
    <3> QED
      BY <1>1, <1>3, <2>1, <3>2
  <2>2. CASE v # w
    <3>1. pc[v] = "call" /\ calls'[v] = calls[v]
      BY <1>2, <1>4, <2>2 DEF LocalsOK
    <3> QED
      BY <3>1 DEF LocalsOK
  <2> QED
    BY <2>1, <2>2
<1>5. pc' \in [Workers -> {"idle", "trunc", "write", "body", "load", "next", "call", "release"}]
  BY <1>2 DEF LocalsOK
<1>6. calls' = [v \in Workers |-> calls'[v]]
  BY <1>2 DEF LocalsOK
<1> QED
  BY <1>4, <1>5, <1>6 DEF LocalsOK

LEMMA RouterTypes ==
  ASSUME TypeInv, NEW w \in Workers, ReadGroups(w) \/ Call(w) \/ CallFails(w)
  PROVE  TypeInv'
<1> USE DEF TypeInv
<1>1. CASE ReadGroups(w)
  <2>1. PICK r \in todo[w] : /\ todo' = [todo EXCEPT ![w] = @ \ {r}]
                             /\ router' = [router EXCEPT ![w] = r]
                             /\ calls' = [calls EXCEPT ![w] = Plan(DOMAIN groups[r], routes[w])]
    BY <1>1 DEF ReadGroups
  <2>2. /\ clean' = [clean EXCEPT ![w] = TRUE] /\ pc' = [pc EXCEPT ![w] = "call"] /\ routes' = routes
        /\ UNCHANGED <<stored, status, faults, groups, bound, startup>>
    BY <1>1 DEF ReadGroups, Goto, onRouter, counters
  <2>3. r \in Routers /\ Listed(Plan(DOMAIN groups[r], routes[w]))
    BY PlanListed DEF LocalsOK
  <2> DEFINE p == Plan(DOMAIN groups[r], routes[w])
  <2>4. calls' = [calls EXCEPT ![w] = p] /\ Listed(p)
    BY <2>1, <2>3
  <2> HIDE DEF p
  <2>5. LocalsOK'
    BY <2>1, <2>2, <2>3, <2>4 DEF LocalsOK, Listed
  <2> QED
    BY <2>2, <2>5 DEF StoredOK, OnRouter, Holds
<1>2. CASE Call(w)
  <2>1. router[w] \in Routers /\ calls[w] \in Seq(CallSet) /\ Len(calls[w]) >= 1
    BY <1>2 DEF Call, LocalsOK, Listed
  <2>2. Head(calls[w]) \in CallSet
    BY <2>1, Shorter
  <2>3. OnRouter'
    BY <1>2, <2>1, <2>2, EffectTypes DEF Call
  <2>4. LocalsOK'
    BY <1>2, CalledTypes DEF Call, LocalsOK
  <2>5. StoredOK'
    BY <1>2 DEF Call, counters, StoredOK
  <2> QED
    BY <2>3, <2>4, <2>5
<1>3. CASE CallFails(w)
  <2>1. clean' \in [Workers -> BOOLEAN]
    BY <1>3 DEF CallFails, LocalsOK
  <2>2. LocalsOK'
    BY <1>3, <2>1, CalledTypes DEF CallFails
  <2>3. StoredOK' /\ OnRouter'
    BY <1>3 DEF CallFails, Fault, onRouter, StoredOK, OnRouter, Holds
  <2> QED
    BY <2>2, <2>3
<1> QED
  BY <1>1, <1>2, <1>3

LEMMA FaultTypes ==
  ASSUME TypeInv, Crash \/ \E r \in Routers : Reboot(r)
  PROVE  TypeInv'
<1> USE DEF TypeInv
<1>1. CASE Crash
  <2>1. <<>> \in Seq(Route)
    OBVIOUS
  <2>2. LocalsOK'
    BY <1>1, <2>1 DEF Crash, LocalsOK
  <2>3. StoredOK' /\ OnRouter'
    BY <1>1 DEF Crash, Fault, onRouter, StoredOK, OnRouter, Holds
  <2> QED
    BY <2>2, <2>3
<1>2. ASSUME NEW r \in Routers, Reboot(r) PROVE TypeInv'
  <2>1. /\ groups' = [groups EXCEPT ![r] = startup[r].groups]
        /\ bound' = [bound EXCEPT ![r] = startup[r].bound] /\ startup' = startup
    BY <1>2 DEF Reboot
  <2>2. clean' = [w \in Workers |-> clean[w] /\ router[w] # r]
    BY <1>2 DEF Reboot
  <2>3. clean' \in [Workers -> BOOLEAN]
    BY <2>2 DEF LocalsOK
  <2>4. LocalsOK'
    BY <1>2, <2>3 DEF Reboot, LocalsOK, Listed
  <2>5. StoredOK'
    BY <1>2 DEF Reboot, Fault, StoredOK
  <2>6. groups' = [q \in Routers |-> groups'[q]]
    BY <2>1 DEF OnRouter
  <2>7. ASSUME NEW q \in Routers PROVE Holds(groups'[q])
    <3>1. groups'[q] = IF q = r THEN startup[r].groups ELSE groups[q]
      BY <2>1 DEF OnRouter
    <3>2. Holds(startup[r].groups) /\ Holds(groups[q])
      BY DEF OnRouter
    <3> QED
      BY <3>1, <3>2
  <2>8. bound' \in [Routers -> SUBSET Names]
    BY <2>1 DEF OnRouter
  <2>9. \A q \in Routers : Holds(startup[q].groups)' /\ (startup[q].bound \subseteq Names)'
    BY <2>1 DEF OnRouter, Holds
  <2>10. OnRouter'
    BY <2>1, <2>6, <2>7, <2>8, <2>9 DEF OnRouter, Holds
  <2> QED
    BY <2>4, <2>5, <2>10
<1> QED
  BY <1>1, <1>2

LEMMA StepTypes == TypeInv /\ [Next]_vars => TypeInv'
<1> SUFFICES ASSUME TypeInv, [Next]_vars PROVE TypeInv'
  OBVIOUS
<1>1. CASE UNCHANGED vars
  BY <1>1 DEF vars, locals, onRouter, counters, TypeInv, StoredOK, LocalsOK, OnRouter, Holds, Listed
<1>2. CASE Next
  BY <1>2, EditTypes, QuietTypes, RouterTypes, FaultTypes DEF Next, Body, Job
<1> QED
  BY <1>1, <1>2

LEMMA Typed == Spec => []TypeInv
BY InitTypes, StepTypes, PTL DEF Spec

(* The variables hold what the handlers can put there, routers only have   *)
(* groups of their owner and chunks of routes, only chunks are routed into *)
(* the tunnel, and dnsApplyRunning is set exactly while one request is     *)
(* between the compare-and-swap and the release.                           *)
THEOREM TypesKept == Spec => []TypeOK
<1>1. TypeInv /\ JobInv => TypeOK
  BY DEF TypeInv, JobInv, TypeOK, StoredOK, LocalsOK, OnRouter, Holds
<1> QED
  BY <1>1, Typed, OneJob, PTL

-----------------------------------------------------------------------------
(* What a list of calls does to a group, and in what order. *)
Deletes(c, g) == c.do = "delete" /\ g \in c.gs
Drops(c, g)   == c.do \in {"delete", "unbind"} /\ g \in c.gs
Makes(c, g)   == c.do \in {"create", "bind"} /\ g \in c.gs

ToDelete(cs, g) == \E i \in 1 .. Len(cs) : Deletes(cs[i], g)
ToDo(cs, c)     == \E i \in 1 .. Len(cs) : cs[i] = c

(* Only chunks of the routes are created and bound. *)
MakesChunk(c, rs) ==
  /\ c.do = "create" => \E a \in 1 .. Len(rs) : \E k \in 1 .. rs[a].n : c = CreateChunk(rs[a], k)
  /\ c.do = "bind"   => \E a \in 1 .. Len(rs) : rs[a].on /\ \E k \in 1 .. rs[a].n : c = BindChunk(rs[a], k)

OfRoutes(cs, rs) == \A i \in 1 .. Len(cs) : MakesChunk(cs[i], rs)

(* A deleted group is unbound later on. *)
Undone(cs) ==
  \A i \in 1 .. Len(cs) : \A g \in Names : Deletes(cs[i], g) => \E j \in i + 1 .. Len(cs) : cs[j] = Unbind(g)

(* No group is removed after it was made. *)
DropsFirst(cs) ==
  \A i, j \in 1 .. Len(cs) : \A g \in Names : Drops(cs[i], g) /\ Makes(cs[j], g) => i < j

(* A group is bound after it was created, and not deleted in between. *)
MadeAt(cs, i, j, g) == cs[i].do = "create" /\ g \in cs[i].gs /\ \A l \in i .. j - 1 : ~Deletes(cs[l], g)

BindsMade(cs) ==
  \A j \in 1 .. Len(cs) : \A g \in Names : cs[j] = Bind(g) => \E i \in 1 .. j - 1 : MadeAt(cs, i, j, g)

LEMMA CallsDiffer ==
  /\ \A gs : Delete(gs).do = "delete" /\ Delete(gs).gs = gs
  /\ \A g : Unbind(g).do = "unbind" /\ Unbind(g).gs = {g}
  /\ \A g : Bind(g).do = "bind" /\ Bind(g).gs = {g}
  /\ \A r, k : /\ CreateChunk(r, k).do = "create" /\ CreateChunk(r, k).gs = {<<r.slug, k>>}
               /\ CreateChunk(r, k).items = {Piece(r, k)}
  /\ \A r, k : BindChunk(r, k).do = "bind" /\ BindChunk(r, k).gs = {<<r.slug, k>>}
  /\ Save.do = "save"
BY DEF Delete, Unbind, Bind, CreateChunk, BindChunk, Create, Save

(* One route: removals of what had its slug, then its chunks. *)
LEMMA RouteKinds ==
  ASSUME NEW E, NEW r \in Route
  PROVE  LET c == RouteCalls(E, r)
             L == Len(DropOld(E, r))
         IN  /\ L \in Nat /\ L <= Len(c) /\ Len(c) \in Nat
             /\ \A i \in 1 .. L :
                  /\ c[i].do \in {"delete", "unbind"} /\ c[i].gs \subseteq Old(E, r)
                  /\ \A g : Deletes(c[i], g) => \E j \in i + 1 .. L : c[j] = Unbind(g)
             /\ \A i \in L + 1 .. Len(c) : \E k \in 1 .. r.n :
                  \/ c[i] = CreateChunk(r, k)
                  \/ r.on /\ c[i] = BindChunk(r, k) /\ \E j \in L + 1 .. i - 1 : c[j] = CreateChunk(r, k)
             /\ \A g \in Old(E, r) : \E i \in 1 .. L : Deletes(c[i], g)
<1> DEFINE c == RouteCalls(E, r)
           L == Len(DropOld(E, r))
<1>1. /\ c \in Seq(CallSet) /\ L \in Nat /\ L <= Len(c)
      /\ \A i \in 1 .. L : IF i = 1 THEN c[i] = Delete(Old(E, r)) ELSE \E g \in Old(E, r) : c[i] = Unbind(g)
      /\ \A g \in Old(E, r) : 1 \in 1 .. L /\ \E i \in 2 .. L : c[i] = Unbind(g)
      /\ \A i \in L + 1 .. Len(c) : \E k \in 1 .. r.n :
           \/ c[i] = CreateChunk(r, k)
           \/ r.on /\ c[i] = BindChunk(r, k) /\ \E j \in L + 1 .. i - 1 : c[j] = CreateChunk(r, k)
  BY RouteCallsOK
<1> HIDE DEF c, L
<1>2. Len(c) \in Nat
  BY <1>1, LenProperties
<1>3. ASSUME NEW i \in 1 .. L
      PROVE  /\ c[i].do \in {"delete", "unbind"} /\ c[i].gs \subseteq Old(E, r)
             /\ \A g : Deletes(c[i], g) => \E j \in i + 1 .. L : c[j] = Unbind(g)
  <2>1. CASE i = 1
    <3>1. c[i] = Delete(Old(E, r))
      BY <1>1, <2>1
    <3>2. c[i].do = "delete" /\ c[i].gs = Old(E, r)
      BY <3>1, CallsDiffer
    <3>3. \A g \in Old(E, r) : \E j \in i + 1 .. L : c[j] = Unbind(g)
      BY <1>1, <2>1
    <3> QED
      BY <3>2, <3>3 DEF Deletes
  <2>2. CASE i # 1
    <3>1. PICK g \in Old(E, r) : c[i] = Unbind(g)
      BY <1>1, <2>2
    <3>2. c[i].do = "unbind" /\ c[i].gs = {g}
      BY <3>1, CallsDiffer
    <3> QED
      BY <3>2 DEF Deletes
  <2> QED
    BY <2>1, <2>2
<1>4. ASSUME NEW g \in Old(E, r)
      PROVE  \E i \in 1 .. L : Deletes(c[i], g)
  <2>1. 1 \in 1 .. L
    BY <1>1
  <2>2. c[1] = Delete(Old(E, r))
    BY <1>1, <2>1
  <2>3. c[1].do = "delete" /\ c[1].gs = Old(E, r)
    BY <2>2, CallsDiffer
  <2> QED
    BY <2>1, <2>3 DEF Deletes
<1> QED
  BY <1>1, <1>2, <1>3, <1>4 DEF c, L

LEMMA RouteMakes ==
  ASSUME NEW E, NEW r \in Route, NEW k \in 1 .. r.n
  PROVE  LET c == RouteCalls(E, r)
             L == Len(DropOld(E, r))
         IN  /\ L \in Nat /\ L <= Len(c)
             /\ \E i \in L + 1 .. Len(c) : c[i] = CreateChunk(r, k)
             /\ r.on => \E i \in L + 1 .. Len(c) : c[i] = BindChunk(r, k)
<1> DEFINE c == RouteCalls(E, r)
           L == Len(DropOld(E, r))
<1>1. L \in Nat /\ L <= Len(c)
  BY RouteCallsOK
<1>2. \A kk \in 1 .. r.n : \E i \in L + 1 .. Len(c) : c[i] = CreateChunk(r, kk)
  BY RouteCallsOK
<1>3. r.on => \A kk \in 1 .. r.n : \E i \in L + 1 .. Len(c) : c[i] = BindChunk(r, kk)
  BY RouteCallsOK
<1> QED
  BY <1>1, <1>2, <1>3

(* All routes: where each call of the list comes from. *)
At(m, i, E, rs, blk, off) ==
  /\ blk[i] \in 1 .. Len(rs)
  /\ off[i] \in 1 .. Len(RouteCalls(E, rs[blk[i]]))
  /\ m[i] = RouteCalls(E, rs[blk[i]])[off[i]]

Placed(m, E, rs, blk, off) ==
  /\ m \in Seq(CallSet) /\ Len(m) \in Nat
  /\ \A i \in 1 .. Len(m) : At(m, i, E, rs, blk, off)
  /\ \A i, j \in 1 .. Len(m) : blk[i] = blk[j] /\ off[i] < off[j] => i < j
  /\ \A i, j, l \in 1 .. Len(m) : i <= l /\ l <= j /\ blk[i] = blk[j] => blk[l] = blk[i] /\ off[i] <= off[l]
  /\ \A a \in 1 .. Len(rs) : \A p \in 1 .. Len(RouteCalls(E, rs[a])) :
       \E i \in 1 .. Len(m) : blk[i] = a /\ off[i] = p

LEMMA MiddlePlaced ==
  ASSUME NEW E, NEW rs \in Seq(Route)
  PROVE  \E blk, off : Placed(Middle(E, rs), E, rs, blk, off)
<1> DEFINE m == Middle(E, rs)
           s == [i \in 1 .. Len(rs) |-> RouteCalls(E, rs[i])]
           n == Len(rs)
<1>1. m \in Seq(CallSet) /\ \E blk, off : Address(m, s, n, blk, off)
  BY MiddleAddress
<1>2. PICK blk, off : Address(m, s, n, blk, off)
  BY <1>1
<1>3. n \in Nat /\ \A a \in 1 .. n : s[a] = RouteCalls(E, rs[a]) /\ RouteCalls(E, rs[a]) \in Seq(CallSet)
  BY RouteCallsOK, LenProperties
<1> HIDE DEF m, s
<1>4. Len(m) \in Nat
  BY <1>1, LenProperties
<1>5. ASSUME NEW i \in 1 .. Len(m)
      PROVE  At(m, i, E, rs, blk, off) /\ blk[i] \in Nat /\ off[i] \in Nat
  <2>1. blk[i] \in 1 .. n /\ off[i] \in 1 .. Len(s[blk[i]]) /\ m[i] = s[blk[i]][off[i]]
    BY <1>2 DEF Address
  <2>2. s[blk[i]] = RouteCalls(E, rs[blk[i]]) /\ RouteCalls(E, rs[blk[i]]) \in Seq(CallSet)
    BY <1>3, <2>1
  <2> QED
    BY <1>3, <2>1, <2>2 DEF At
<1>6. \A i, j \in 1 .. Len(m) : i < j => blk[i] < blk[j] \/ (blk[i] = blk[j] /\ off[i] < off[j])
  BY <1>2 DEF Address
<1>7. ASSUME NEW i \in 1 .. Len(m), NEW j \in 1 .. Len(m), blk[i] = blk[j], off[i] < off[j]
      PROVE  i < j
  <2>1. blk[i] \in Nat /\ off[i] \in Nat /\ off[j] \in Nat
    BY <1>5
  <2>2. i # j
    BY <1>7, <2>1
  <2>3. ~(j < i)
    <3>1. j < i => blk[j] < blk[i] \/ (blk[j] = blk[i] /\ off[j] < off[i])
      BY <1>6
    <3> QED
      BY <1>7, <2>1, <3>1
  <2> QED
    BY <1>4, <2>2, <2>3
<1>8. ASSUME NEW i \in 1 .. Len(m), NEW j \in 1 .. Len(m), NEW l \in 1 .. Len(m), i <= l, l <= j, blk[i] = blk[j]
      PROVE  blk[l] = blk[i] /\ off[i] <= off[l]
  <2>1. blk[i] \in Nat /\ blk[l] \in Nat /\ off[i] \in Nat /\ off[l] \in Nat
    BY <1>5
  <2>2. i = l \/ i < l
    BY <1>4, <1>8
  <2>3. l = j \/ l < j
    BY <1>4, <1>8
  <2>4. i < l => blk[i] < blk[l] \/ (blk[i] = blk[l] /\ off[i] < off[l])
    BY <1>6
  <2>5. l < j => blk[l] < blk[j] \/ (blk[l] = blk[j] /\ off[l] < off[j])
    BY <1>6
  <2> QED
    BY <1>8, <2>1, <2>2, <2>3, <2>4, <2>5
<1>9. ASSUME NEW a \in 1 .. Len(rs), NEW p \in 1 .. Len(RouteCalls(E, rs[a]))
      PROVE  \E i \in 1 .. Len(m) : blk[i] = a /\ off[i] = p
  <2>1. a \in 1 .. n /\ p \in 1 .. Len(s[a])
    BY <1>3
  <2> HIDE DEF n
  <2> QED
    BY <1>2, <2>1 DEF Address
<1>10. Placed(m, E, rs, blk, off)
  BY <1>1, <1>4, <1>5, <1>7, <1>8, <1>9 DEF Placed
<1> QED
  BY <1>10 DEF m

LEMMA PlacedRemoval ==
  ASSUME NEW E, NEW rs \in Seq(Route), NEW m, NEW blk, NEW off, Placed(m, E, rs, blk, off),
         NEW i \in 1 .. Len(m), off[i] <= Len(DropOld(E, rs[blk[i]]))
  PROVE  /\ m[i].do \in {"delete", "unbind"} /\ m[i].gs \subseteq Old(E, rs[blk[i]])
         /\ \A g : Deletes(m[i], g) => \E j \in i + 1 .. Len(m) : m[j] = Unbind(g)
<1> DEFINE a == blk[i]
           r == rs[a]
           c == RouteCalls(E, r)
           L == Len(DropOld(E, r))
<1>1. a \in 1 .. Len(rs) /\ off[i] \in 1 .. Len(c) /\ m[i] = c[off[i]]
  BY DEF Placed, At
<1>2. r \in Route
  BY <1>1, LenProperties
<1>3. /\ L \in Nat /\ L <= Len(c) /\ Len(c) \in Nat
      /\ \A p \in 1 .. L :
           /\ c[p].do \in {"delete", "unbind"} /\ c[p].gs \subseteq Old(E, r)
           /\ \A g : Deletes(c[p], g) => \E q \in p + 1 .. L : c[q] = Unbind(g)
  BY <1>2, RouteKinds
<1>4. off[i] \in 1 .. L
  <2>1. off[i] <= L
    OBVIOUS
  <2> HIDE DEF L, c
  <2> QED
    BY <1>1, <1>3, <2>1
<1>5. ASSUME NEW g, Deletes(m[i], g)
      PROVE  \E j \in i + 1 .. Len(m) : m[j] = Unbind(g)
  <2>1. PICK q \in off[i] + 1 .. L : c[q] = Unbind(g)
    BY <1>1, <1>3, <1>4, <1>5
  <2>2. q \in 1 .. Len(c) /\ off[i] < q
    <3> HIDE DEF c, L
    <3> QED
      BY <1>1, <1>3, <1>4, <2>1
  <2>3. PICK j \in 1 .. Len(m) : blk[j] = a /\ off[j] = q
    BY <1>1, <2>2 DEF Placed
  <2>4. i < j
    BY <2>2, <2>3 DEF Placed
  <2>5. m[j] = c[q]
    BY <2>3 DEF Placed, At
  <2>6. j \in i + 1 .. Len(m)
    <3>1. Len(m) \in Nat
      BY DEF Placed
    <3> QED
      BY <2>3, <2>4, <3>1
  <2> QED
    BY <2>1, <2>5, <2>6
<1> QED
  BY <1>1, <1>3, <1>4, <1>5

LEMMA PlacedChunk ==
  ASSUME NEW E, NEW rs \in Seq(Route), NEW m, NEW blk, NEW off, Placed(m, E, rs, blk, off),
         NEW i \in 1 .. Len(m), ~(off[i] <= Len(DropOld(E, rs[blk[i]])))
  PROVE  \E k \in 1 .. rs[blk[i]].n :
           \/ m[i] = CreateChunk(rs[blk[i]], k)
           \/ /\ rs[blk[i]].on /\ m[i] = BindChunk(rs[blk[i]], k)
              /\ \E j \in 1 .. i - 1 : MadeAt(m, j, i, <<rs[blk[i]].slug, k>>)
<1> DEFINE a == blk[i]
           r == rs[a]
           c == RouteCalls(E, r)
           L == Len(DropOld(E, r))
<1>1. a \in 1 .. Len(rs) /\ off[i] \in 1 .. Len(c) /\ m[i] = c[off[i]]
  BY DEF Placed, At
<1>2. r \in Route
  BY <1>1, LenProperties
<1>3. /\ L \in Nat /\ L <= Len(c) /\ Len(c) \in Nat
      /\ \A p \in L + 1 .. Len(c) : \E k \in 1 .. r.n :
           \/ c[p] = CreateChunk(r, k)
           \/ r.on /\ c[p] = BindChunk(r, k) /\ \E q \in L + 1 .. p - 1 : c[q] = CreateChunk(r, k)
  BY <1>2, RouteKinds
<1>4. off[i] \in L + 1 .. Len(c)
  <2>1. ~(off[i] <= L)
    OBVIOUS
  <2> HIDE DEF L, c
  <2> QED
    BY <1>1, <1>3, <2>1
<1>5. PICK k \in 1 .. r.n :
        \/ c[off[i]] = CreateChunk(r, k)
        \/ r.on /\ c[off[i]] = BindChunk(r, k) /\ \E q \in L + 1 .. off[i] - 1 : c[q] = CreateChunk(r, k)
  BY <1>3, <1>4
<1>6. ASSUME NEW q \in L + 1 .. off[i] - 1, c[q] = CreateChunk(r, k)
      PROVE  \E j \in 1 .. i - 1 : MadeAt(m, j, i, <<r.slug, k>>)
  <2>1. q \in 1 .. Len(c) /\ q < off[i] /\ q > L /\ q \in Nat
    <3> HIDE DEF c, L
    <3> QED
      BY <1>1, <1>3, <1>4
  <2>2. PICK j \in 1 .. Len(m) : blk[j] = a /\ off[j] = q
    BY <1>1, <2>1 DEF Placed
  <2>3. j < i
    BY <2>1, <2>2 DEF Placed
  <2>4. m[j] = c[q]
    BY <2>2 DEF Placed, At
  <2>5. ASSUME NEW l \in j .. i - 1, NEW g
        PROVE  ~Deletes(m[l], g)
    <3>1. l \in 1 .. Len(m) /\ j <= l /\ l <= i
      <4>1. Len(m) \in Nat
        BY DEF Placed
      <4> QED
        BY <4>1
    <3>2. blk[l] = a /\ q <= off[l]
      BY <2>2, <3>1 DEF Placed
    <3>3. off[l] \in 1 .. Len(c) /\ m[l] = c[off[l]]
      BY <3>1, <3>2 DEF Placed, At
    <3>4. off[l] \in L + 1 .. Len(c)
      <4> HIDE DEF c, L
      <4> QED
        BY <1>3, <2>1, <3>2, <3>3
    <3>5. \E kk : m[l] = CreateChunk(r, kk) \/ m[l] = BindChunk(r, kk)
      BY <1>3, <3>3, <3>4
    <3>6. m[l].do \in {"create", "bind"}
      BY <3>5, CallsDiffer
    <3> QED
      BY <3>6 DEF Deletes
  <2>6. m[j].do = "create" /\ <<r.slug, k>> \in m[j].gs
    BY <1>6, <2>4, CallsDiffer
  <2>7. j \in 1 .. i - 1
    BY <2>2, <2>3
  <2> QED
    BY <2>5, <2>6, <2>7 DEF MadeAt
<1> HIDE DEF c
<1> QED
  BY <1>1, <1>5, <1>6

(* What the calls for all routes do. *)
LEMMA MiddleOK ==
  ASSUME NEW E, NEW rs \in Seq(Route)
  PROVE  LET m == Middle(E, rs) IN
         /\ m \in Seq(CallSet) /\ OfRoutes(m, rs) /\ Undone(m) /\ BindsMade(m)
         /\ SlugsDistinct(rs) => DropsFirst(m)
         /\ \A i \in 1 .. Len(m) : m[i].do \in {"delete", "unbind", "create", "bind"}
         /\ \A a \in 1 .. Len(rs) : \A g \in Old(E, rs[a]) : ToDelete(m, g)
         /\ \A a \in 1 .. Len(rs) : \A k \in 1 .. rs[a].n :
              ToDo(m, CreateChunk(rs[a], k)) /\ (rs[a].on => ToDo(m, BindChunk(rs[a], k)))
<1> DEFINE m == Middle(E, rs)
<1>0. PICK blk, off : Placed(m, E, rs, blk, off)
  BY MiddlePlaced
<1> HIDE DEF m
<1>1. m \in Seq(CallSet) /\ Len(m) \in Nat
  BY <1>0 DEF Placed
<1> DEFINE Removal(i) == off[i] <= Len(DropOld(E, rs[blk[i]]))
<1>2. ASSUME NEW i \in 1 .. Len(m), Removal(i)
      PROVE  /\ m[i].do \in {"delete", "unbind"} /\ m[i].gs \subseteq Old(E, rs[blk[i]])
             /\ \A g : Deletes(m[i], g) => \E j \in i + 1 .. Len(m) : m[j] = Unbind(g)
  BY <1>0, <1>2, PlacedRemoval
<1>3. ASSUME NEW i \in 1 .. Len(m), ~Removal(i)
      PROVE  \E k \in 1 .. rs[blk[i]].n :
               \/ m[i] = CreateChunk(rs[blk[i]], k)
               \/ /\ rs[blk[i]].on /\ m[i] = BindChunk(rs[blk[i]], k)
                  /\ \E j \in 1 .. i - 1 : MadeAt(m, j, i, <<rs[blk[i]].slug, k>>)
  BY <1>0, <1>3, PlacedChunk
<1>4. \A i \in 1 .. Len(m) : blk[i] \in 1 .. Len(rs)
  BY <1>0 DEF Placed, At
<1>5. ASSUME NEW i \in 1 .. Len(m), ~Removal(i)
      PROVE  /\ m[i].do \in {"create", "bind"}
             /\ \A g \in m[i].gs : g[1] = rs[blk[i]].slug
  <2>1. PICK k \in 1 .. rs[blk[i]].n : m[i] = CreateChunk(rs[blk[i]], k) \/ m[i] = BindChunk(rs[blk[i]], k)
    BY <1>3, <1>5
  <2>2. m[i].do \in {"create", "bind"} /\ m[i].gs = {<<rs[blk[i]].slug, k>>}
    BY <2>1, CallsDiffer
  <2> QED
    BY <2>2
<1>6. ASSUME NEW i \in 1 .. Len(m)
      PROVE  MakesChunk(m[i], rs)
  <2>1. CASE Removal(i)
    BY <1>2, <2>1 DEF MakesChunk
  <2>2. CASE ~Removal(i)
    <3>1. PICK k \in 1 .. rs[blk[i]].n : \/ m[i] = CreateChunk(rs[blk[i]], k)
                                         \/ rs[blk[i]].on /\ m[i] = BindChunk(rs[blk[i]], k)
      BY <1>3, <2>2
    <3> QED
      BY <1>4, <3>1, CallsDiffer DEF MakesChunk
  <2> QED
    BY <2>1, <2>2
<1>7. Undone(m)
  <2>1. ASSUME NEW i \in 1 .. Len(m), NEW g \in Names, Deletes(m[i], g)
        PROVE  \E j \in i + 1 .. Len(m) : m[j] = Unbind(g)
    <3>1. Removal(i)
      BY <1>5, <2>1 DEF Deletes
    <3> QED
      BY <1>2, <2>1, <3>1
  <2> QED
    BY <2>1 DEF Undone
<1>8. BindsMade(m)
  <2>1. ASSUME NEW j \in 1 .. Len(m), NEW g \in Names, m[j] = Bind(g)
        PROVE  \E i \in 1 .. j - 1 : MadeAt(m, i, j, g)
    <3>1. m[j].do = "bind" /\ m[j].gs = {g}
      BY <2>1, CallsDiffer
    <3>2. ~Removal(j)
      BY <1>2, <3>1
    <3>3. PICK k \in 1 .. rs[blk[j]].n :
            /\ m[j] = BindChunk(rs[blk[j]], k)
            /\ \E i \in 1 .. j - 1 : MadeAt(m, i, j, <<rs[blk[j]].slug, k>>)
      <4>1. \A k : m[j] # CreateChunk(rs[blk[j]], k)
        BY <3>1, CallsDiffer
      <4> QED
        BY <1>3, <3>2, <4>1
    <3>4. BindChunk(rs[blk[j]], k).gs = {<<rs[blk[j]].slug, k>>}
      BY CallsDiffer
    <3>5. g = <<rs[blk[j]].slug, k>>
      BY <3>1, <3>3, <3>4
    <3> QED
      BY <3>3, <3>5
  <2> QED
    BY <2>1 DEF BindsMade
<1>9. ASSUME SlugsDistinct(rs)
      PROVE  DropsFirst(m)
  <2>1. ASSUME NEW i \in 1 .. Len(m), NEW j \in 1 .. Len(m), NEW g \in Names, Drops(m[i], g), Makes(m[j], g)
        PROVE  i < j
    <3>1. Removal(i) /\ ~Removal(j)
      BY <1>2, <1>5, <2>1 DEF Drops, Makes
    <3>2. g \in Old(E, rs[blk[i]])
      BY <1>2, <2>1, <3>1 DEF Drops
    <3>3. g[1] = rs[blk[i]].slug /\ g[1] = rs[blk[j]].slug
      BY <1>5, <2>1, <3>1, <3>2 DEF Makes, Old
    <3>4. blk[i] = blk[j]
      BY <1>4, <1>9, <3>3, LenProperties DEF SlugsDistinct
    <3>5. off[i] < off[j]
      <4>1. off[i] \in Nat /\ off[j] \in Nat
        BY <1>0 DEF Placed, At
      <4>2. Len(DropOld(E, rs[blk[i]])) \in Nat
        BY <1>4, RouteKinds, LenProperties
      <4> QED
        BY <3>1, <3>4, <4>1, <4>2
    <3> QED
      BY <1>0, <3>4, <3>5 DEF Placed
  <2> QED
    BY <2>1 DEF DropsFirst
<1>10. ASSUME NEW a \in 1 .. Len(rs), NEW g \in Old(E, rs[a])
       PROVE  ToDelete(m, g)
  <2> DEFINE c == RouteCalls(E, rs[a])
             L == Len(DropOld(E, rs[a]))
  <2>1. rs[a] \in Route
    BY LenProperties
  <2>2. L \in Nat /\ L <= Len(c) /\ Len(c) \in Nat /\ \E p \in 1 .. L : Deletes(c[p], g)
    BY <2>1, RouteKinds
  <2> HIDE DEF c, L
  <2>3. PICK p \in 1 .. Len(c) : Deletes(c[p], g)
    BY <2>2
  <2>4. PICK i \in 1 .. Len(m) : blk[i] = a /\ off[i] = p
    BY <1>0, <2>3 DEF Placed, c
  <2>5. m[i] = c[p]
    BY <1>0, <2>4 DEF Placed, At, c
  <2> QED
    BY <2>3, <2>5 DEF ToDelete
<1>11. \A i \in 1 .. Len(m) : m[i].do \in {"delete", "unbind", "create", "bind"}
  BY <1>2, <1>5
<1>12. ASSUME NEW a \in 1 .. Len(rs), NEW k \in 1 .. rs[a].n
       PROVE  ToDo(m, CreateChunk(rs[a], k)) /\ (rs[a].on => ToDo(m, BindChunk(rs[a], k)))
  <2>1. PICK r \in Route : r = rs[a]
    BY LenProperties
  <2> DEFINE c == RouteCalls(E, r)
             L == Len(DropOld(E, r))
  <2>2. /\ L \in Nat /\ L <= Len(c)
        /\ \E p \in L + 1 .. Len(c) : c[p] = CreateChunk(r, k)
        /\ r.on => \E p \in L + 1 .. Len(c) : c[p] = BindChunk(r, k)
    BY <2>1, RouteMakes
  <2> HIDE DEF c, L
  <2>3. ASSUME NEW x, NEW p \in L + 1 .. Len(c), c[p] = x
        PROVE  ToDo(m, x)
    <3>1. p \in 1 .. Len(c)
      BY <2>2
    <3>2. PICK i \in 1 .. Len(m) : blk[i] = a /\ off[i] = p
      BY <1>0, <2>1, <3>1 DEF Placed, c
    <3>3. m[i] = c[p]
      BY <1>0, <2>1, <3>2 DEF Placed, At, c
    <3> QED
      BY <2>3, <3>2, <3>3 DEF ToDo
  <2> QED
    BY <2>1, <2>2, <2>3
<1> HIDE DEF Removal
<1> QED
  BY <1>1, <1>6, <1>7, <1>8, <1>9, <1>10, <1>11, <1>12 DEF OfRoutes, m

(* Two lists in a row. *)
LEMMA JoinedPlace ==
  ASSUME NEW x \in Seq(CallSet), NEW y \in Seq(CallSet)
  PROVE  LET z == x \o y IN
         /\ z \in Seq(CallSet) /\ Len(z) \in Nat /\ Len(x) \in Nat /\ Len(y) \in Nat /\ Len(z) = Len(x) + Len(y)
         /\ \A i \in 1 .. Len(z) :
              \/ i \in 1 .. Len(x) /\ z[i] = x[i]
              \/ i > Len(x) /\ i - Len(x) \in 1 .. Len(y) /\ z[i] = y[i - Len(x)]
         /\ \A i \in 1 .. Len(x) : i \in 1 .. Len(z) /\ z[i] = x[i]
         /\ \A i \in 1 .. Len(y) : i + Len(x) \in 1 .. Len(z) /\ z[i + Len(x)] = y[i]
<1> DEFINE z == x \o y
<1>1. /\ z \in Seq(CallSet) /\ Len(z) = Len(x) + Len(y) /\ Len(x) \in Nat /\ Len(y) \in Nat
      /\ \A i \in 1 .. Len(x) : i \in 1 .. Len(z) /\ z[i] = x[i]
      /\ \A i \in 1 .. Len(y) : i + Len(x) \in 1 .. Len(z) /\ z[i + Len(x)] = y[i]
      /\ \A i \in 1 .. Len(z) : i \in 1 .. Len(x) \/ (i > Len(x) /\ i - Len(x) \in 1 .. Len(y))
  BY Joined
<1> HIDE DEF z
<1>2. ASSUME NEW i \in 1 .. Len(z), i > Len(x), i - Len(x) \in 1 .. Len(y)
      PROVE  z[i] = y[i - Len(x)]
  <2>1. z[(i - Len(x)) + Len(x)] = y[i - Len(x)]
    BY <1>1, <1>2
  <2>2. (i - Len(x)) + Len(x) = i
    BY <1>1
  <2> QED
    BY <2>1, <2>2
<1>3. Len(z) \in Nat
  BY <1>1
<1> QED
  BY <1>1, <1>2, <1>3 DEF z

LEMMA JoinedOf ==
  ASSUME NEW x \in Seq(CallSet), NEW y \in Seq(CallSet), NEW rs, OfRoutes(x, rs), OfRoutes(y, rs)
  PROVE  OfRoutes(x \o y, rs)
<1> DEFINE z == x \o y
<1>1. \A i \in 1 .. Len(z) :
        \/ i \in 1 .. Len(x) /\ z[i] = x[i]
        \/ i > Len(x) /\ i - Len(x) \in 1 .. Len(y) /\ z[i] = y[i - Len(x)]
  BY JoinedPlace
<1> HIDE DEF z
<1>2. OfRoutes(z, rs)
  BY <1>1 DEF OfRoutes
<1> QED
  BY <1>2 DEF z

LEMMA JoinedUndone ==
  ASSUME NEW x \in Seq(CallSet), NEW y \in Seq(CallSet), Undone(x), Undone(y)
  PROVE  Undone(x \o y)
<1> DEFINE z == x \o y
           n == Len(x)
<1>1. /\ Len(z) \in Nat /\ n \in Nat /\ Len(y) \in Nat /\ Len(z) = n + Len(y)
      /\ \A i \in 1 .. Len(z) :
           \/ i \in 1 .. n /\ z[i] = x[i]
           \/ i > n /\ i - n \in 1 .. Len(y) /\ z[i] = y[i - n]
      /\ \A i \in 1 .. n : i \in 1 .. Len(z) /\ z[i] = x[i]
      /\ \A i \in 1 .. Len(y) : i + n \in 1 .. Len(z) /\ z[i + n] = y[i]
  BY JoinedPlace
<1>2. /\ \A i \in 1 .. n : \A g \in Names : Deletes(x[i], g) => \E j \in i + 1 .. n : x[j] = Unbind(g)
      /\ \A i \in 1 .. Len(y) : \A g \in Names : Deletes(y[i], g) => \E j \in i + 1 .. Len(y) : y[j] = Unbind(g)
  BY DEF Undone
<1> HIDE DEF z, n
<1>3. ASSUME NEW i \in 1 .. Len(z), NEW g \in Names, Deletes(z[i], g)
      PROVE  \E j \in i + 1 .. Len(z) : z[j] = Unbind(g)
  <2>1. CASE i \in 1 .. n /\ z[i] = x[i]
    <3>1. PICK j \in i + 1 .. n : x[j] = Unbind(g)
      BY <1>2, <1>3, <2>1
    <3>2. j \in 1 .. n /\ j \in i + 1 .. Len(z)
      BY <1>1, <2>1, <3>1
    <3> QED
      BY <1>1, <3>1, <3>2
  <2>2. CASE i > n /\ i - n \in 1 .. Len(y) /\ z[i] = y[i - n]
    <3>1. PICK j \in (i - n) + 1 .. Len(y) : y[j] = Unbind(g)
      BY <1>2, <1>3, <2>2
    <3>2. j \in 1 .. Len(y) /\ j + n \in i + 1 .. Len(z)
      BY <1>1, <2>2, <3>1
    <3>3. z[j + n] = y[j]
      BY <1>1, <3>2
    <3> QED
      BY <3>1, <3>2, <3>3
  <2> QED
    BY <1>1, <2>1, <2>2
<1> QED
  BY <1>3 DEF Undone, z

LEMMA JoinedDrops ==
  ASSUME NEW x \in Seq(CallSet), NEW y \in Seq(CallSet), DropsFirst(x), DropsFirst(y),
         \A i \in 1 .. Len(x), j \in 1 .. Len(y) : \A g \in Names : ~(Makes(x[i], g) /\ Drops(y[j], g))
  PROVE  DropsFirst(x \o y)
<1> DEFINE z == x \o y
           n == Len(x)
<1>1. /\ n \in Nat
      /\ \A i \in 1 .. Len(z) :
           \/ i \in 1 .. n /\ z[i] = x[i]
           \/ i > n /\ i - n \in 1 .. Len(y) /\ z[i] = y[i - n]
  BY JoinedPlace
<1>2. /\ \A i, j \in 1 .. n : \A g \in Names : Drops(x[i], g) /\ Makes(x[j], g) => i < j
      /\ \A i, j \in 1 .. Len(y) : \A g \in Names : Drops(y[i], g) /\ Makes(y[j], g) => i < j
      /\ \A i \in 1 .. n, j \in 1 .. Len(y) : \A g \in Names : ~(Makes(x[i], g) /\ Drops(y[j], g))
  BY DEF DropsFirst
<1> HIDE DEF z, n
<1>3. ASSUME NEW i \in 1 .. Len(z), NEW j \in 1 .. Len(z), NEW g \in Names, Drops(z[i], g), Makes(z[j], g)
      PROVE  i < j
  <2>1. CASE i \in 1 .. n /\ z[i] = x[i] /\ j \in 1 .. n /\ z[j] = x[j]
    BY <1>2, <1>3, <2>1
  <2>2. CASE i \in 1 .. n /\ j > n
    BY <1>1, <2>2
  <2>3. CASE i - n \in 1 .. Len(y) /\ z[i] = y[i - n] /\ j \in 1 .. n /\ z[j] = x[j]
    BY <1>2, <1>3, <2>3
  <2>4. CASE i - n \in 1 .. Len(y) /\ z[i] = y[i - n] /\ j - n \in 1 .. Len(y) /\ z[j] = y[j - n]
    <3>1. i - n < j - n
      BY <1>2, <1>3, <2>4
    <3> QED
      BY <1>1, <3>1
  <2> QED
    BY <1>1, <2>1, <2>2, <2>3, <2>4
<1> QED
  BY <1>3 DEF DropsFirst, z

LEMMA JoinedBinds ==
  ASSUME NEW x \in Seq(CallSet), NEW y \in Seq(CallSet), BindsMade(x), BindsMade(y)
  PROVE  BindsMade(x \o y)
<1> DEFINE z == x \o y
           n == Len(x)
<1>1. /\ n \in Nat /\ Len(y) \in Nat
      /\ \A i \in 1 .. Len(z) :
           \/ i \in 1 .. n /\ z[i] = x[i]
           \/ i > n /\ i - n \in 1 .. Len(y) /\ z[i] = y[i - n]
      /\ \A i \in 1 .. n : i \in 1 .. Len(z) /\ z[i] = x[i]
      /\ \A i \in 1 .. Len(y) : i + n \in 1 .. Len(z) /\ z[i + n] = y[i]
  BY JoinedPlace
<1>2. /\ \A j \in 1 .. n : \A g \in Names : x[j] = Bind(g) => \E i \in 1 .. j - 1 : MadeAt(x, i, j, g)
      /\ \A j \in 1 .. Len(y) : \A g \in Names : y[j] = Bind(g) => \E i \in 1 .. j - 1 : MadeAt(y, i, j, g)
  BY DEF BindsMade
<1> HIDE DEF z, n
<1>3. ASSUME NEW j \in 1 .. Len(z), NEW g \in Names, z[j] = Bind(g)
      PROVE  \E i \in 1 .. j - 1 : MadeAt(z, i, j, g)
  <2>1. CASE j \in 1 .. n /\ z[j] = x[j]
    <3>1. PICK i \in 1 .. j - 1 : MadeAt(x, i, j, g)
      BY <1>2, <1>3, <2>1
    <3>2. \A l \in i .. j - 1 : l \in 1 .. n /\ z[l] = x[l]
      BY <1>1, <2>1
    <3>3. i \in i .. j - 1
      OBVIOUS
    <3> QED
      BY <3>1, <3>2, <3>3 DEF MadeAt
  <2>2. CASE j > n /\ j - n \in 1 .. Len(y) /\ z[j] = y[j - n]
    <3>1. PICK i \in 1 .. (j - n) - 1 : MadeAt(y, i, j - n, g)
      BY <1>2, <1>3, <2>2
    <3>2. ASSUME NEW l \in i + n .. j - 1
          PROVE  l - n \in i .. (j - n) - 1 /\ z[l] = y[l - n]
      <4>a. j \in Int /\ i \in Int /\ l \in Int /\ i >= 1 /\ i + n <= l /\ l <= j - 1 /\ j - n <= Len(y)
        BY <1>1, <2>2
      <4>1. l - n \in i .. (j - n) - 1 /\ l - n \in 1 .. Len(y) /\ (l - n) + n = l
        BY <1>1, <4>a
      <4> QED
        BY <1>1, <4>1
    <3>3. i + n \in i + n .. j - 1 /\ i + n \in 1 .. j - 1 /\ (i + n) - n = i
      BY <1>1, <2>2
    <3>4. z[i + n] = y[i]
      BY <3>2, <3>3
    <3>5. \A l \in i + n .. j - 1 : ~Deletes(z[l], g)
      BY <3>1, <3>2 DEF MadeAt
    <3> QED
      BY <3>1, <3>3, <3>4, <3>5 DEF MadeAt
  <2> QED
    BY <1>1, <2>1, <2>2
<1> QED
  BY <1>3 DEF BindsMade, z

(* The whole plan of an apply that found the groups E. *)
LEMMA OrphansOK ==
  ASSUME NEW E, NEW rs \in Seq(Route)
  PROVE  LET d == DropOrphans(E, rs) IN
         /\ d \in Seq(CallSet) /\ OfRoutes(d, rs) /\ Undone(d) /\ BindsMade(d) /\ DropsFirst(d)
         /\ \A i \in 1 .. Len(d) : d[i].do \in {"delete", "unbind"}
         /\ \A g \in Orphans(E, rs) : ToDelete(d, g)
<1> DEFINE d == DropOrphans(E, rs)
<1>1. /\ d \in Seq(CallSet)
      /\ \A i \in 1 .. Len(d) : \E g \in Orphans(E, rs) : Removes(d, i, g)
      /\ \A g \in Orphans(E, rs) : \E i \in 1 .. Len(d) : d[i] = Delete({g})
  BY DropOrphansOK
<1> HIDE DEF d
<1>2. ASSUME NEW i \in 1 .. Len(d)
      PROVE  /\ d[i].do \in {"delete", "unbind"}
             /\ \A g \in Names : Deletes(d[i], g) => \E j \in i + 1 .. Len(d) : d[j] = Unbind(g)
  <2>1. PICK g \in Orphans(E, rs) : \/ d[i] = Unbind(g)
                                    \/ d[i] = Delete({g}) /\ \E j \in i + 1 .. Len(d) : d[j] = Unbind(g)
    BY <1>1 DEF Removes
  <2>2. CASE d[i] = Unbind(g)
    <3>1. d[i].do = "unbind"
      BY <2>2, CallsDiffer
    <3> QED
      BY <3>1 DEF Deletes
  <2>3. CASE d[i] = Delete({g}) /\ \E j \in i + 1 .. Len(d) : d[j] = Unbind(g)
    <3>1. d[i].do = "delete" /\ d[i].gs = {g}
      BY <2>3, CallsDiffer
    <3> QED
      BY <2>3, <3>1 DEF Deletes
  <2> QED
    BY <2>1, <2>2, <2>3
<1>3. OfRoutes(d, rs) /\ DropsFirst(d)
  BY <1>2 DEF OfRoutes, MakesChunk, DropsFirst, Makes
<1>4. BindsMade(d)
  BY <1>2, CallsDiffer DEF BindsMade
<1>5. ASSUME NEW g \in Orphans(E, rs) PROVE ToDelete(d, g)
  <2>1. PICK i \in 1 .. Len(d) : d[i] = Delete({g})
    BY <1>1
  <2>2. d[i].do = "delete" /\ d[i].gs = {g}
    BY <2>1, CallsDiffer
  <2> QED
    BY <2>2 DEF ToDelete, Deletes
<1>6. Undone(d)
  BY <1>2 DEF Undone
<1> QED
  BY <1>1, <1>2, <1>3, <1>4, <1>5, <1>6 DEF d

LEMMA SaveOK ==
  /\ <<Save>> \in Seq(CallSet) /\ \A rs : OfRoutes(<<Save>>, rs)
  /\ Undone(<<Save>>) /\ BindsMade(<<Save>>) /\ DropsFirst(<<Save>>)
  /\ \A i \in 1 .. Len(<<Save>>), g \in Names : ~Drops(<<Save>>[i], g)
<1> DEFINE s == <<Save>>
<1>1. s \in Seq(CallSet) /\ \A i \in 1 .. Len(s) : s[i] = Save
  BY DEF Save, CallSet
<1> HIDE DEF s
<1>2. \A i \in 1 .. Len(s) : s[i].do = "save" /\ \A g : s[i] # Bind(g)
  BY <1>1, CallsDiffer
<1>3. (\A rs : OfRoutes(s, rs)) /\ Undone(s) /\ DropsFirst(s)
  BY <1>2 DEF OfRoutes, MakesChunk, Undone, DropsFirst, Deletes, Drops
<1>4. BindsMade(s)
  BY <1>2 DEF BindsMade
<1>5. \A i \in 1 .. Len(s), g \in Names : ~Drops(s[i], g)
  BY <1>2 DEF Drops
<1> QED
  BY <1>1, <1>3, <1>4, <1>5 DEF s

LEMMA ToDoJoined ==
  ASSUME NEW x \in Seq(CallSet), NEW y \in Seq(CallSet), NEW c
  PROVE  /\ ToDo(x, c) \/ ToDo(y, c) => ToDo(x \o y, c)
         /\ ToDelete(x, c) \/ ToDelete(y, c) => ToDelete(x \o y, c)
<1>1. /\ \A i \in 1 .. Len(x) : i \in 1 .. Len(x \o y) /\ (x \o y)[i] = x[i]
      /\ \A i \in 1 .. Len(y) : i + Len(x) \in 1 .. Len(x \o y) /\ (x \o y)[i + Len(x)] = y[i]
  BY JoinedPlace
<1>2. ToDo(x, c) \/ ToDo(y, c) => ToDo(x \o y, c)
  BY <1>1 DEF ToDo
<1>3. ToDelete(x, c) \/ ToDelete(y, c) => ToDelete(x \o y, c)
  BY <1>1 DEF ToDelete
<1> QED
  BY <1>2, <1>3

LEMMA PlanOK ==
  ASSUME NEW E, NEW rs \in Seq(Route)
  PROVE  LET p == Plan(E, rs) IN
         /\ OfRoutes(p, rs) /\ Undone(p) /\ BindsMade(p)
         /\ SlugsDistinct(rs) => DropsFirst(p)
         /\ \A g \in E \cap Names : ToDelete(p, g)
         /\ \A a \in 1 .. Len(rs) : \A k \in 1 .. rs[a].n :
              ToDo(p, CreateChunk(rs[a], k)) /\ (rs[a].on => ToDo(p, BindChunk(rs[a], k)))
<1> DEFINE d == DropOrphans(E, rs)
           m == Middle(E, rs)
           x == d \o m
           e == <<Save>>
           p == x \o e
<1>0. p = Plan(E, rs)
  BY PlanIs
<1>1. /\ d \in Seq(CallSet) /\ OfRoutes(d, rs) /\ Undone(d) /\ BindsMade(d) /\ DropsFirst(d)
      /\ \A i \in 1 .. Len(d) : d[i].do \in {"delete", "unbind"}
      /\ \A g \in Orphans(E, rs) : ToDelete(d, g)
  BY OrphansOK
<1>2. /\ m \in Seq(CallSet) /\ OfRoutes(m, rs) /\ Undone(m) /\ BindsMade(m)
      /\ SlugsDistinct(rs) => DropsFirst(m)
      /\ \A a \in 1 .. Len(rs) : \A g \in Old(E, rs[a]) : ToDelete(m, g)
      /\ \A a \in 1 .. Len(rs) : \A k \in 1 .. rs[a].n :
           ToDo(m, CreateChunk(rs[a], k)) /\ (rs[a].on => ToDo(m, BindChunk(rs[a], k)))
  BY MiddleOK
<1>3. /\ e \in Seq(CallSet) /\ OfRoutes(e, rs) /\ Undone(e) /\ BindsMade(e) /\ DropsFirst(e)
      /\ \A i \in 1 .. Len(e), g \in Names : ~Drops(e[i], g)
  BY SaveOK
<1> HIDE DEF d, m, e
<1>4. x \in Seq(CallSet)
  BY <1>1, <1>2, JoinedPlace
<1>5. OfRoutes(x, rs) /\ Undone(x) /\ BindsMade(x)
  BY <1>1, <1>2, JoinedOf, JoinedUndone, JoinedBinds
<1>6. ASSUME SlugsDistinct(rs) PROVE DropsFirst(x)
  <2>1. \A i \in 1 .. Len(d), j \in 1 .. Len(m) : \A g \in Names : ~(Makes(d[i], g) /\ Drops(m[j], g))
    BY <1>1 DEF Makes
  <2> QED
    BY <1>1, <1>2, <1>6, <2>1, JoinedDrops
<1>7. \A c : (ToDo(m, c) => ToDo(x, c)) /\ (ToDelete(d, c) \/ ToDelete(m, c) => ToDelete(x, c))
  BY <1>1, <1>2, ToDoJoined
<1> HIDE DEF x
<1>8. OfRoutes(p, rs) /\ Undone(p) /\ BindsMade(p)
  BY <1>3, <1>4, <1>5, JoinedOf, JoinedUndone, JoinedBinds
<1>9. ASSUME SlugsDistinct(rs) PROVE DropsFirst(p)
  BY <1>3, <1>4, <1>6, <1>9, JoinedDrops
<1>10. \A c : (ToDo(x, c) => ToDo(p, c)) /\ (ToDelete(x, c) => ToDelete(p, c))
  BY <1>3, <1>4, ToDoJoined
<1>11. ASSUME NEW g \in E \cap Names PROVE ToDelete(p, g)
  <2>1. g \in Orphans(E, rs) \/ \E a \in 1 .. Len(rs) : g \in Old(E, rs[a])
    BY DEF Orphans, Old, Own, Slugged
  <2> QED
    BY <1>1, <1>2, <1>7, <1>10, <2>1
<1> HIDE DEF p
<1> QED
  BY <1>0, <1>2, <1>7, <1>8, <1>9, <1>10, <1>11

-----------------------------------------------------------------------------
(* The groups of a router during an apply.  Of what the first call does    *)
(* and of what is left: *)
LEMMA TailKeeps ==
  ASSUME NEW cs \in Seq(CallSet), Len(cs) >= 1, NEW rs, OfRoutes(cs, rs), Undone(cs)
  PROVE  /\ OfRoutes(Tail(cs), rs) /\ Undone(Tail(cs))
         /\ DropsFirst(cs) => DropsFirst(Tail(cs))
         /\ \A g : ToDelete(cs, g) <=> Deletes(cs[1], g) \/ ToDelete(Tail(cs), g)
         /\ \A c : ToDo(cs, c) <=> cs[1] = c \/ ToDo(Tail(cs), c)
<1> DEFINE t == Tail(cs)
           n == Len(cs)
<1>1. /\ Len(t) = n - 1 /\ n \in Nat /\ n >= 1
      /\ \A i \in 1 .. Len(t) : i + 1 \in 2 .. n /\ t[i] = cs[i + 1]
      /\ \A i \in 2 .. n : i - 1 \in 1 .. Len(t) /\ t[i - 1] = cs[i]
  BY Shorter
<1>2. OfRoutes(t, rs)
  <2>1. \A i \in 1 .. n : MakesChunk(cs[i], rs)
    BY DEF OfRoutes
  <2> HIDE DEF t, n
  <2>2. ASSUME NEW i \in 1 .. Len(t) PROVE MakesChunk(t[i], rs)
    <3>1. i + 1 \in 1 .. n /\ t[i] = cs[i + 1]
      BY <1>1
    <3> QED
      BY <2>1, <3>1
  <2> QED
    BY <2>2 DEF OfRoutes
<1>3. Undone(t)
  <2>1. \A i \in 1 .. n : \A g \in Names : Deletes(cs[i], g) => \E j \in i + 1 .. n : cs[j] = Unbind(g)
    BY DEF Undone
  <2> HIDE DEF t, n
  <2>2. ASSUME NEW i \in 1 .. Len(t), NEW g \in Names, Deletes(t[i], g)
        PROVE  \E j \in i + 1 .. Len(t) : t[j] = Unbind(g)
    <3>1. i + 1 \in 1 .. n /\ t[i] = cs[i + 1]
      BY <1>1
    <3>2. PICK j \in (i + 1) + 1 .. n : cs[j] = Unbind(g)
      BY <2>1, <2>2, <3>1
    <3>3. j \in 2 .. n /\ j - 1 \in i + 1 .. Len(t)
      BY <1>1, <3>1
    <3>4. t[j - 1] = cs[j]
      BY <1>1, <3>3
    <3> QED
      BY <3>2, <3>3, <3>4
  <2> QED
    BY <2>2 DEF Undone
<1>4. ASSUME DropsFirst(cs) PROVE DropsFirst(t)
  <2>1. \A i, j \in 1 .. n : \A g \in Names : Drops(cs[i], g) /\ Makes(cs[j], g) => i < j
    BY <1>4 DEF DropsFirst
  <2> HIDE DEF t, n
  <2>2. ASSUME NEW i \in 1 .. Len(t), NEW j \in 1 .. Len(t), NEW g \in Names, Drops(t[i], g), Makes(t[j], g)
        PROVE  i < j
    <3>1. i + 1 \in 1 .. n /\ t[i] = cs[i + 1] /\ j + 1 \in 1 .. n /\ t[j] = cs[j + 1]
      BY <1>1
    <3>2. i + 1 < j + 1
      BY <2>1, <2>2, <3>1
    <3> QED
      BY <3>2
  <2> QED
    BY <2>2 DEF DropsFirst
<1> HIDE DEF t, n
<1>5. \A i \in 1 .. n : i = 1 \/ i \in 2 .. n
  BY <1>1
<1>6. 1 \in 1 .. n /\ \A i \in 1 .. Len(t) : i + 1 \in 1 .. n
  BY <1>1
<1>7. \A g : ToDelete(cs, g) <=> Deletes(cs[1], g) \/ ToDelete(t, g)
  BY <1>1, <1>5, <1>6 DEF ToDelete, n
<1>8. \A c : ToDo(cs, c) <=> cs[1] = c \/ ToDo(t, c)
  BY <1>1, <1>5, <1>6 DEF ToDo, n
<1> QED
  BY <1>2, <1>3, <1>4, <1>7, <1>8 DEF t

Name(r, k)    == <<r.slug, k>>
Wanted(rs, g) == \E a \in 1 .. Len(rs) : \E k \in 1 .. rs[a].n : g = Name(rs[a], k)

(* A chunk that is no longer to be created is there, with its piece.  One  *)
(* that is there, and no longer to be deleted, holds nothing else.         *)
ChunkOn(cs, r, k, G) ==
  /\ ToDo(cs, CreateChunk(r, k))
     \/ (Name(r, k) \in DOMAIN G /\ Piece(r, k) \in G[Name(r, k)] /\ ~ToDelete(cs, Name(r, k)))
  /\ Name(r, k) \in DOMAIN G /\ ~ToDelete(cs, Name(r, k)) => G[Name(r, k)] \subseteq {Piece(r, k)}

GroupsOn(cs, rs, G) ==
  /\ \A a \in 1 .. Len(rs) : \A k \in 1 .. rs[a].n : ChunkOn(cs, rs[a], k, G)
  /\ \A g \in DOMAIN G \cap Names : ToDelete(cs, g) \/ Wanted(rs, g)

LEMMA NameTyped ==
  ASSUME NEW rs \in Seq(Route), NEW a \in 1 .. Len(rs), NEW k \in 1 .. rs[a].n
  PROVE  Name(rs[a], k) \in Names /\ Wanted(rs, Name(rs[a], k))
<1>1. PICK r \in Route : r = rs[a]
  BY LenProperties
<1>2. Name(r, k) \in Names
  BY <1>1, ChunkTyped DEF Name
<1> QED
  BY <1>1, <1>2 DEF Wanted

LEMMA GroupsStart ==
  ASSUME NEW G, NEW rs \in Seq(Route)
  PROVE  GroupsOn(Plan(DOMAIN G, rs), rs, G)
<1> DEFINE p == Plan(DOMAIN G, rs)
<1>1. /\ \A g \in DOMAIN G \cap Names : ToDelete(p, g)
      /\ \A a \in 1 .. Len(rs) : \A k \in 1 .. rs[a].n : ToDo(p, CreateChunk(rs[a], k))
  BY PlanOK
<1> HIDE DEF p
<1>2. ASSUME NEW a \in 1 .. Len(rs), NEW k \in 1 .. rs[a].n
      PROVE  ChunkOn(p, rs[a], k, G)
  BY <1>1, NameTyped DEF ChunkOn
<1> QED
  BY <1>1, <1>2 DEF GroupsOn, p

LEMMA GroupsCall ==
  ASSUME NEW cs \in Seq(CallSet), Len(cs) >= 1, NEW rs \in Seq(Route), SlugsDistinct(rs),
         OfRoutes(cs, rs), Undone(cs), DropsFirst(cs), NEW G, GroupsOn(cs, rs, G)
  PROVE  GroupsOn(Tail(cs), rs, After(G, cs[1]))
<1> DEFINE c == cs[1]
           t == Tail(cs)
           H == After(G, c)
<1>1. /\ \A g : ToDelete(cs, g) <=> Deletes(c, g) \/ ToDelete(t, g)
      /\ \A x : ToDo(cs, x) <=> c = x \/ ToDo(t, x)
  BY TailKeeps
<1>2. 1 \in 1 .. Len(cs)
  BY LenProperties
<1> HIDE DEF t
<1>3. CASE c.do = "delete"
  <2>1. DOMAIN H = DOMAIN G \ c.gs /\ \A g \in DOMAIN H : H[g] = G[g]
    BY <1>3 DEF After
  <2>2. \A g : Deletes(c, g) <=> g \in c.gs
    BY <1>3 DEF Deletes
  <2>3. \A r, k : c # CreateChunk(r, k)
    BY <1>3, CallsDiffer
  <2> HIDE DEF H, c
  <2>4. ASSUME NEW a \in 1 .. Len(rs), NEW k \in 1 .. rs[a].n
        PROVE  ChunkOn(t, rs[a], k, H)
    <3>1. ChunkOn(cs, rs[a], k, G)
      BY DEF GroupsOn
    <3> QED
      BY <1>1, <2>1, <2>2, <2>3, <3>1 DEF ChunkOn
  <2>5. \A g \in DOMAIN H \cap Names : ToDelete(t, g) \/ Wanted(rs, g)
    BY <1>1, <2>1, <2>2 DEF GroupsOn
  <2>6. GroupsOn(t, rs, H)
    BY <2>4, <2>5 DEF GroupsOn
  <2> QED
    BY <2>6 DEF H, c, t
<1>4. CASE c.do = "create"
  <2>1. PICK b \in 1 .. Len(rs) : \E k \in 1 .. rs[b].n : c = CreateChunk(rs[b], k)
    BY <1>2, <1>4 DEF OfRoutes, MakesChunk
  <2>2. PICK l \in 1 .. rs[b].n : c = CreateChunk(rs[b], l)
    BY <2>1
  <2> DEFINE n == Name(rs[b], l)
  <2>3. c.gs = {n} /\ c.items = {Piece(rs[b], l)} /\ n \in Names /\ Wanted(rs, n)
    BY <2>2, CallsDiffer, NameTyped DEF Name
  <2>4. /\ DOMAIN H = DOMAIN G \cup {n}
        /\ \A g \in DOMAIN H : H[g] = (IF g \in DOMAIN G THEN G[g] ELSE {}) \cup (IF g = n THEN {Piece(rs[b], l)} ELSE {})
    BY <1>4, <2>3 DEF After
  <2>5. \A g : ~Deletes(c, g)
    BY <1>4 DEF Deletes
  <2>6. ~ToDelete(cs, n)
    <3>1. Makes(c, n)
      BY <1>4, <2>3 DEF Makes
    <3>2. ASSUME NEW i \in 1 .. Len(cs), Deletes(cs[i], n) PROVE FALSE
      <4>1. Drops(cs[i], n)
        BY <3>2 DEF Deletes, Drops
      <4>2. i < 1
        BY <1>2, <2>3, <3>1, <4>1 DEF DropsFirst
      <4> QED
        BY <4>2
    <3> QED
      BY <3>2 DEF ToDelete
  <2> HIDE DEF H, c, n
  <2>7. ASSUME NEW a \in 1 .. Len(rs), NEW k \in 1 .. rs[a].n
        PROVE  ChunkOn(t, rs[a], k, H)
    <3>1. ChunkOn(cs, rs[a], k, G)
      BY DEF GroupsOn
    <3>2. CASE Name(rs[a], k) = n
      <4>0. Name(rs[a], k) = Name(rs[b], l)
        BY <3>2 DEF n
      <4>a. k = l /\ rs[a].slug = rs[b].slug
        BY <4>0 DEF Name
      <4>b. a \in DOMAIN rs /\ b \in DOMAIN rs
        BY LenProperties
      <4>1. a = b /\ k = l
        BY <4>a, <4>b DEF SlugsDistinct
      <4>2. Piece(rs[a], k) = Piece(rs[b], l)
        BY <4>1
      <4>3. n \in DOMAIN G => G[n] \subseteq {Piece(rs[a], k)}
        BY <2>6, <3>1, <3>2 DEF ChunkOn
      <4>4. n \in DOMAIN H /\ H[n] = {Piece(rs[a], k)}
        BY <2>4, <4>2, <4>3
      <4>5. ~ToDelete(t, n)
        BY <1>1, <2>6
      <4> QED
        BY <3>2, <4>4, <4>5 DEF ChunkOn
    <3>3. CASE Name(rs[a], k) # n
      <4>1. c # CreateChunk(rs[a], k)
        <5>1. CreateChunk(rs[a], k).gs = {Name(rs[a], k)}
          BY CallsDiffer DEF Name
        <5> QED
          BY <2>3, <3>3, <5>1
      <4>2. Name(rs[a], k) \in DOMAIN H <=> Name(rs[a], k) \in DOMAIN G
        BY <2>4, <3>3
      <4>3. Name(rs[a], k) \in DOMAIN G => H[Name(rs[a], k)] = G[Name(rs[a], k)]
        BY <2>4, <3>3
      <4> QED
        BY <1>1, <2>5, <3>1, <4>1, <4>2, <4>3 DEF ChunkOn
    <3> QED
      BY <3>2, <3>3
  <2>8. \A g \in DOMAIN H \cap Names : ToDelete(t, g) \/ Wanted(rs, g)
    BY <1>1, <2>3, <2>4, <2>5 DEF GroupsOn
  <2>9. GroupsOn(t, rs, H)
    BY <2>7, <2>8 DEF GroupsOn
  <2> QED
    BY <2>9 DEF H, c, t
<1>5. CASE c.do \notin {"delete", "create"}
  <2>1. H = G
    BY <1>5 DEF After
  <2>2. \A g : ~Deletes(c, g)
    BY <1>5 DEF Deletes
  <2>3. \A r, k : c # CreateChunk(r, k)
    BY <1>5, CallsDiffer
  <2> HIDE DEF H, c
  <2>4. ASSUME NEW a \in 1 .. Len(rs), NEW k \in 1 .. rs[a].n
        PROVE  ChunkOn(t, rs[a], k, H)
    <3>1. ChunkOn(cs, rs[a], k, G)
      BY DEF GroupsOn
    <3> QED
      BY <1>1, <2>1, <2>2, <2>3, <3>1 DEF ChunkOn
  <2>5. \A g \in DOMAIN H \cap Names : ToDelete(t, g) \/ Wanted(rs, g)
    BY <1>1, <2>1, <2>2 DEF GroupsOn
  <2>6. GroupsOn(t, rs, H)
    BY <2>4, <2>5 DEF GroupsOn
  <2> QED
    BY <2>6 DEF H, c, t
<1> QED
  BY <1>3, <1>4, <1>5

(* What is there when only the save is left. *)
LEMMA GroupsEnd ==
  ASSUME NEW cs, Listed(cs), Len(cs) = 1, NEW rs \in Seq(Route), SlugsDistinct(rs),
         NEW G, Holds(G), GroupsOn(cs, rs, G)
  PROVE  G = WantedGroups(rs)
<1> DEFINE want == Chunks(rs, LAMBDA r : TRUE)
           W == {<<c[1].slug, c[2]>> : c \in want}
           OfName(g) == {c \in want : <<c[1].slug, c[2]>> = g}
           pieces(g) == {Piece(c[1], c[2]) : c \in OfName(g)}
<1>1. cs[1] = Save
  BY DEF Listed
<1>2. (\A g : ~ToDelete(cs, g)) /\ \A r, k : ~ToDo(cs, CreateChunk(r, k))
  <2>1. cs[1].do = "save"
    BY <1>1, CallsDiffer
  <2>2. \A i \in 1 .. Len(cs) : i = 1
    OBVIOUS
  <2> QED
    BY <2>1, <2>2, CallsDiffer DEF ToDelete, ToDo, Deletes
<1>3. ASSUME NEW a \in 1 .. Len(rs), NEW k \in 1 .. rs[a].n
      PROVE  Name(rs[a], k) \in DOMAIN G /\ G[Name(rs[a], k)] = {Piece(rs[a], k)}
  BY <1>2 DEF GroupsOn, ChunkOn
<1>4. ASSUME NEW g \in DOMAIN G \cap Names PROVE Wanted(rs, g)
  BY <1>2 DEF GroupsOn
<1>5. \A c : c \in want <=> \E a \in 1 .. Len(rs) : \E k \in 1 .. rs[a].n : c = <<rs[a], k>>
  <2>1. want = UNION {{<<r, k>> : k \in 1 .. r.n} : r \in {r \in ToSet(rs) : TRUE}}
    BY DEF Chunks
  <2>2. ToSet(rs) = {rs[a] : a \in 1 .. Len(rs)}
    BY DEF ToSet
  <2> QED
    BY <2>1, <2>2
<1> HIDE DEF want
<1>6. \A g : g \in W <=> Wanted(rs, g)
  <2>1. ASSUME NEW c \in want PROVE Wanted(rs, <<c[1].slug, c[2]>>)
    <3>1. PICK a \in 1 .. Len(rs) : \E k \in 1 .. rs[a].n : c = <<rs[a], k>>
      BY <1>5
    <3>2. PICK k \in 1 .. rs[a].n : c = <<rs[a], k>>
      BY <3>1
    <3>3. <<c[1].slug, c[2]>> = Name(rs[a], k)
      BY <3>2 DEF Name
    <3> QED
      BY <3>3 DEF Wanted
  <2>2. ASSUME NEW a \in 1 .. Len(rs), NEW k \in 1 .. rs[a].n PROVE Name(rs[a], k) \in W
    <3>1. <<rs[a], k>> \in want
      BY <1>5
    <3>2. Name(rs[a], k) = <<(<<rs[a], k>>)[1].slug, (<<rs[a], k>>)[2]>>
      BY DEF Name
    <3> QED
      BY <3>1, <3>2
  <2> QED
    BY <2>1, <2>2 DEF Wanted
<1>7. DOMAIN G = Foreign \cup W
  <2>1. \A g : Wanted(rs, g) => g \in DOMAIN G
    BY <1>3 DEF Wanted
  <2>2. Foreign \subseteq DOMAIN G /\ DOMAIN G \subseteq Names \cup Foreign
    BY DEF Holds
  <2> HIDE DEF W
  <2> QED
    BY <1>4, <1>6, <2>1, <2>2
<1>8. ASSUME NEW g \in Foreign PROVE G[g] = pieces(g)
  <2>1. g \notin Names /\ G[g] = {}
    BY NamesAssumption DEF NamesAssumption, Holds
  <2>2. ~Wanted(rs, g)
    BY <2>1, NameTyped DEF Wanted
  <2>3. OfName(g) = {}
    BY <1>6, <2>2
  <2> QED
    BY <2>1, <2>3
<1>9. ASSUME NEW g \in W PROVE G[g] = pieces(g)
  <2>1. PICK a \in 1 .. Len(rs) : \E k \in 1 .. rs[a].n : g = Name(rs[a], k)
    BY <1>6 DEF Wanted
  <2>2. PICK k \in 1 .. rs[a].n : g = Name(rs[a], k)
    BY <2>1
  <2>3. ASSUME NEW c \in want, <<c[1].slug, c[2]>> = g
        PROVE  c = <<rs[a], k>>
    <3>1. PICK b \in 1 .. Len(rs) : \E l \in 1 .. rs[b].n : c = <<rs[b], l>>
      BY <1>5
    <3>2. PICK l \in 1 .. rs[b].n : c = <<rs[b], l>>
      BY <3>1
    <3>3. rs[b].slug = rs[a].slug /\ l = k
      BY <2>2, <2>3, <3>2 DEF Name
    <3>4. a \in DOMAIN rs /\ b \in DOMAIN rs
      BY LenProperties
    <3> QED
      BY <3>2, <3>3, <3>4 DEF SlugsDistinct
  <2>4. <<rs[a], k>> \in want /\ <<rs[a].slug, k>> = g
    BY <1>5, <2>2 DEF Name
  <2>5. OfName(g) = {<<rs[a], k>>}
    BY <2>3, <2>4
  <2>6. pieces(g) = {Piece(rs[a], k)}
    BY <2>5
  <2> QED
    BY <1>3, <2>2, <2>6
<1>10. G = [g \in Foreign \cup W |-> pieces(g)]
  <2>1. G = [g \in DOMAIN G |-> G[g]]
    BY DEF Holds
  <2> HIDE DEF W, pieces
  <2> QED
    BY <1>7, <1>8, <1>9, <2>1
<1>11. WantedGroups(rs) = [g \in Foreign \cup W |-> pieces(g)]
  BY DEF WantedGroups, want
<1> QED
  BY <1>10, <1>11

(* A job that is calling a router has a list made for its routes, and, as  *)
(* long as no call failed, the router is on the way to hold them.          *)
CallsOK(w) ==
  /\ OfRoutes(calls[w], routes[w]) /\ Undone(calls[w])
  /\ SlugsDistinct(routes[w]) => DropsFirst(calls[w])

GroupsInv ==
  \A w \in Workers : pc[w] = "call" =>
    /\ CallsOK(w)
    /\ clean[w] /\ SlugsDistinct(routes[w]) => GroupsOn(calls[w], routes[w], groups[router[w]])

LEMMA InitGroups == Init => GroupsInv
BY DEF Init, GroupsInv

(* What the steps leave alone that are not of a job on a router. *)
LEMMA OthersKeep ==
  ASSUME TypeInv, JobInv, NEW v \in Workers,
         Edit(v) \/ RoutesTrunc(v) \/ RoutesWrite(v) \/ RoutesFailed(v) \/ ApplyBegin(v) \/ ApplyBusy(v)
         \/ BodyRead(v) \/ ApplyRefused(v) \/ ApplyNoRoutes(v) \/ ApplyStart(v) \/ SkipRouter(v) \/ Completed(v) \/ Release(v)
  PROVE  /\ UNCHANGED <<groups, bound, startup>>
         /\ faults' = 0 => faults = 0
         /\ \A w \in Workers : pc'[w] = "call" \/ pc[w] = "call" =>
              /\ w # v /\ pc'[w] = "call" /\ pc[w] = "call"
              /\ routes'[w] = routes[w] /\ calls'[w] = calls[w] /\ router'[w] = router[w] /\ clean'[w] = clean[w]
<1> USE DEF Edit, CreateDnsRoute, UpdateDnsRoute, DeleteDnsRoute, ImportDnsRoutes, RoutesTrunc, RoutesWrite, RoutesFailed,
            ApplyBegin, ApplyBusy, BodyRead, ApplyRefused, ApplyNoRoutes, ApplyStart, SkipRouter, Completed, Release
<1>1. UNCHANGED <<groups, bound, startup>>
  BY DEF onRouter
<1>2. faults' = faults \/ faults' = faults + 1
  BY DEF counters, Fault
<1>3. pc[v] \in {"idle", "trunc", "write", "body", "load", "next", "release"}
  BY DEF Begin
<1>4. \E label \in {"idle", "trunc", "write", "body", "load", "next", "release"} : pc' = [pc EXCEPT ![v] = label]
  <2>1. CASE ApplyBusy(v) \/ SkipRouter(v)
    BY <1>3, <2>1 DEF locals, TypeInv, LocalsOK
  <2>2. CASE ~(ApplyBusy(v) \/ SkipRouter(v))
    BY <2>2 DEF Goto, Reset
  <2> QED
    BY <2>1, <2>2
<1>5. ASSUME NEW w \in Workers, w # v
      PROVE  routes'[w] = routes[w] /\ calls'[w] = calls[w] /\ router'[w] = router[w] /\ clean'[w] = clean[w]
  <2>1. routes'[w] = routes[w]
    BY <1>5 DEF locals, Reset, TypeInv, LocalsOK
  <2>2. calls'[w] = calls[w] /\ router'[w] = router[w] /\ clean'[w] = clean[w]
    BY <1>5 DEF locals, Reset, TypeInv, LocalsOK
  <2> QED
    BY <2>1, <2>2
<1> QED
  BY <1>1, <1>2, <1>3, <1>4, <1>5 DEF TypeInv, LocalsOK, StoredOK

(* Only the job itself is calling a router when it moves. *)
LEMMA OnlyOne ==
  ASSUME JobInv, NEW v \in Workers, pc[v] \in {"next", "call"}, NEW w \in Workers, pc[w] = "call"
  PROVE  w = v
BY DEF JobInv, InJob

LEMMA ReadStep ==
  ASSUME TypeInv, JobInv, NEW v \in Workers, ReadGroups(v)
  PROVE  /\ \A w \in Workers : pc'[w] = "call" => w = v
         /\ \A w \in Workers : pc[w] # "call"
         /\ \E r \in Routers : router'[v] = r /\ calls'[v] = Plan(DOMAIN groups[r], routes[v])
         /\ routes' = routes /\ UNCHANGED <<groups, bound, startup, faults>> /\ routes[v] \in Seq(Route)
<1>1. PICK r \in todo[v] : /\ router' = [router EXCEPT ![v] = r]
                           /\ calls' = [calls EXCEPT ![v] = Plan(DOMAIN groups[r], routes[v])]
  BY DEF ReadGroups
<1>2. /\ pc' = [pc EXCEPT ![v] = "call"] /\ routes' = routes /\ pc[v] = "next"
      /\ UNCHANGED <<groups, bound, startup, faults>>
  BY DEF ReadGroups, Goto, onRouter, counters
<1>3. r \in Routers /\ routes[v] \in Seq(Route)
  BY DEF TypeInv, LocalsOK
<1>4. \A w \in Workers : pc[w] # "call"
  BY <1>2, OnlyOne
<1>5. \A w \in Workers : pc'[w] = "call" => w = v
  BY <1>2, <1>4 DEF TypeInv, LocalsOK
<1>6. router'[v] = r /\ calls'[v] = Plan(DOMAIN groups[r], routes[v])
  BY <1>1 DEF TypeInv, LocalsOK
<1> QED
  BY <1>2, <1>3, <1>4, <1>5, <1>6

LEMMA CallStep ==
  ASSUME TypeInv, JobInv, NEW v \in Workers, Call(v) \/ CallFails(v)
  PROVE  /\ \A w \in Workers : pc'[w] = "call" \/ pc[w] = "call" => w = v
         /\ pc[v] = "call" /\ pc'[v] = IF Len(calls[v]) = 1 THEN "next" ELSE "call"
         /\ routes' = routes /\ router' = router /\ calls'[v] = Tail(calls[v])
         /\ routes[v] \in Seq(Route) /\ Listed(calls[v]) /\ router[v] \in Routers
<1>1. /\ pc' = [pc EXCEPT ![v] = IF Len(calls[v]) = 1 THEN "next" ELSE "call"] /\ pc[v] = "call"
      /\ routes' = routes /\ router' = router
      /\ calls' = [calls EXCEPT ![v] = Tail(calls[v])]
  BY DEF Call, CallFails, Called, Goto
<1>2. routes[v] \in Seq(Route) /\ Listed(calls[v]) /\ router[v] \in Routers
  BY <1>1 DEF TypeInv, LocalsOK
<1>3. \A w \in Workers : pc[w] = "call" => w = v
  BY <1>1, OnlyOne
<1>4. \A w \in Workers : pc'[w] = "call" => w = v
  BY <1>1, <1>3 DEF TypeInv, LocalsOK
<1>5. calls'[v] = Tail(calls[v]) /\ pc'[v] = IF Len(calls[v]) = 1 THEN "next" ELSE "call"
  BY <1>1 DEF TypeInv, LocalsOK
<1> QED
  BY <1>1, <1>2, <1>3, <1>4, <1>5

LEMMA RebootStep ==
  ASSUME TypeInv, NEW r \in Routers, Reboot(r)
  PROVE  /\ UNCHANGED <<pc, routes, router, calls, startup>> /\ faults' # 0
         /\ \A q \in Routers : q # r => groups'[q] = groups[q]
         /\ \A w \in Workers : clean'[w] = (clean[w] /\ router[w] # r)
<1>1. UNCHANGED <<pc, routes, router, calls, startup>>
  BY DEF Reboot
<1>2. faults' # 0
  BY DEF Reboot, Fault, TypeInv, StoredOK
<1>3. \A q \in Routers : q # r => groups'[q] = groups[q]
  BY DEF Reboot, TypeInv, OnRouter
<1>4. clean' = [w \in Workers |-> clean[w] /\ router[w] # r]
  BY DEF Reboot
<1>5. \A w \in Workers : clean'[w] = (clean[w] /\ router[w] # r)
  BY <1>4, Zenon
<1> QED
  BY <1>1, <1>2, <1>3, <1>5

LEMMA StepGroups ==
  ASSUME TypeInv, JobInv, GroupsInv, [Next]_vars
  PROVE  GroupsInv'
<1>1. CASE UNCHANGED vars
  BY <1>1 DEF vars, locals, onRouter, GroupsInv, CallsOK
<1>2. ASSUME NEW v \in Workers,
             \/ Edit(v) \/ RoutesTrunc(v) \/ RoutesWrite(v) \/ RoutesFailed(v) \/ ApplyBegin(v) \/ ApplyBusy(v)
             \/ BodyRead(v) \/ ApplyRefused(v) \/ ApplyNoRoutes(v) \/ ApplyStart(v) \/ SkipRouter(v) \/ Completed(v) \/ Release(v)
      PROVE  GroupsInv'
  <2>1. /\ groups' = groups
        /\ \A w \in Workers : pc'[w] = "call" =>
             /\ pc[w] = "call" /\ routes'[w] = routes[w] /\ calls'[w] = calls[w]
             /\ router'[w] = router[w] /\ clean'[w] = clean[w]
    BY <1>2, OthersKeep
  <2> QED
    BY <2>1 DEF GroupsInv, CallsOK
<1>3. ASSUME NEW v \in Workers, ReadGroups(v) PROVE GroupsInv'
  <2>1. /\ \A w \in Workers : pc'[w] = "call" => w = v
        /\ \E r \in Routers : router'[v] = r /\ calls'[v] = Plan(DOMAIN groups[r], routes[v])
        /\ routes' = routes /\ groups' = groups /\ routes[v] \in Seq(Route)
    BY <1>3, ReadStep
  <2>2. PICK r \in Routers : router'[v] = r /\ calls'[v] = Plan(DOMAIN groups[r], routes[v])
    BY <2>1
  <2> DEFINE p == Plan(DOMAIN groups[r], routes[v])
  <2>3. OfRoutes(p, routes[v]) /\ Undone(p) /\ (SlugsDistinct(routes[v]) => DropsFirst(p))
    BY <2>1, PlanOK
  <2>4. GroupsOn(p, routes[v], groups[r])
    BY <2>1, GroupsStart
  <2>5. calls'[v] = p
    BY <2>2
  <2> HIDE DEF p
  <2> QED
    BY <2>1, <2>2, <2>3, <2>4, <2>5 DEF GroupsInv, CallsOK
<1>4. ASSUME NEW v \in Workers, Call(v) \/ CallFails(v) PROVE GroupsInv'
  <2>1. /\ \A w \in Workers : pc'[w] = "call" => w = v
        /\ pc[v] = "call" /\ routes' = routes /\ router' = router /\ calls'[v] = Tail(calls[v])
        /\ routes[v] \in Seq(Route) /\ Listed(calls[v]) /\ router[v] \in Routers
    BY <1>4, CallStep
  <2> DEFINE cs == calls[v]
             t == Tail(cs)
             rs == routes[v]
             G == groups[router[v]]
  <2>2. cs \in Seq(CallSet) /\ Len(cs) >= 1 /\ rs \in Seq(Route)
    BY <2>1 DEF Listed
  <2>3. /\ OfRoutes(cs, rs) /\ Undone(cs) /\ (SlugsDistinct(rs) => DropsFirst(cs))
        /\ clean[v] /\ SlugsDistinct(rs) => GroupsOn(cs, rs, G)
    BY <2>1 DEF GroupsInv, CallsOK
  <2>4. OfRoutes(t, rs) /\ Undone(t) /\ (SlugsDistinct(rs) => DropsFirst(t))
    BY <2>2, <2>3, TailKeeps
  <2>5. ASSUME clean'[v], SlugsDistinct(rs) PROVE GroupsOn(t, rs, groups'[router[v]])
    <3>1. Call(v) /\ clean[v]
      <4>1. ~CallFails(v)
        BY <2>5 DEF CallFails, TypeInv, LocalsOK
      <4> QED
        BY <1>4, <2>5, <4>1 DEF Call
    <3>2. Effect(router[v], cs[1])
      BY <2>2, <3>1, Shorter DEF Call
    <3>3. groups'[router[v]] = After(G, cs[1])
      BY <2>1, <3>2, EffectIs DEF TypeInv
    <3>4. GroupsOn(t, rs, After(G, cs[1]))
      BY <2>2, <2>3, <2>5, <3>1, GroupsCall
    <3> QED
      BY <3>3, <3>4
  <2>6. ASSUME NEW w \in Workers, pc'[w] = "call"
        PROVE  /\ CallsOK(w)'
               /\ clean'[w] /\ SlugsDistinct(routes'[w]) => GroupsOn(calls'[w], routes'[w], groups'[router'[w]])
    <3>1. w = v /\ calls'[w] = t /\ routes'[w] = rs /\ router'[w] = router[v]
      BY <2>1, <2>6
    <3> HIDE DEF t, rs
    <3> QED
      BY <2>4, <2>5, <3>1 DEF CallsOK
  <2> QED
    BY <2>6 DEF GroupsInv
<1>5. CASE Crash
  BY <1>5 DEF Crash, GroupsInv
<1>6. ASSUME NEW r \in Routers, Reboot(r) PROVE GroupsInv'
  <2>1. /\ UNCHANGED <<pc, routes, router, calls>>
        /\ \A q \in Routers : q # r => groups'[q] = groups[q]
        /\ \A w \in Workers : clean'[w] = (clean[w] /\ router[w] # r)
    BY <1>6, RebootStep
  <2>2. ASSUME NEW w \in Workers, pc'[w] = "call"
        PROVE  /\ CallsOK(w)'
               /\ clean'[w] /\ SlugsDistinct(routes'[w]) => GroupsOn(calls'[w], routes'[w], groups'[router'[w]])
    <3>1. CallsOK(w) /\ router[w] \in Routers /\ (clean[w] /\ SlugsDistinct(routes[w]) => GroupsOn(calls[w], routes[w], groups[router[w]]))
      BY <2>1, <2>2 DEF GroupsInv, TypeInv, LocalsOK
    <3>2. CallsOK(w)'
      BY <2>1, <3>1 DEF CallsOK
    <3>3. clean'[w] => clean[w] /\ groups'[router'[w]] = groups[router[w]]
      BY <2>1, <3>1
    <3> QED
      BY <2>1, <3>1, <3>2, <3>3
  <2> QED
    BY <2>2 DEF GroupsInv
<1> QED
  BY <1>1, <1>2, <1>3, <1>4, <1>5, <1>6 DEF Next, Body, Job

LEMMA GroupsOnTheWay == Spec => [](TypeInv /\ JobInv /\ GroupsInv)
<1>1. Init => GroupsInv
  BY InitGroups
<1>2. TypeInv /\ JobInv /\ GroupsInv /\ [Next]_vars => GroupsInv'
  BY StepGroups
<1> QED
  BY <1>1, <1>2, Typed, OneJob, PTL DEF Spec

(* Only an answered call ends an apply without a fault. *)
LEMMA AppliedIs ==
  ASSUME TypeInv, JobInv, [Next]_vars, NEW w \in Workers, Applied(w)
  PROVE  /\ Call(w) /\ Listed(calls[w]) /\ Len(calls[w]) = 1 /\ calls[w][1] = Save
         /\ routes[w] \in Seq(Route) /\ router[w] \in Routers
         /\ Effect(router[w], Save)
<1>1. pc[w] = "call" /\ Len(calls[w]) = 1 /\ faults' = faults /\ pc'[w] = "next"
  BY DEF Applied
<1>2. Call(w)
  <2>1. CASE UNCHANGED vars
    BY <1>1, <2>1 DEF vars, locals
  <2>2. ASSUME NEW v \in Workers,
               \/ Edit(v) \/ RoutesTrunc(v) \/ RoutesWrite(v) \/ RoutesFailed(v) \/ ApplyBegin(v) \/ ApplyBusy(v)
               \/ BodyRead(v) \/ ApplyRefused(v) \/ ApplyNoRoutes(v) \/ ApplyStart(v) \/ SkipRouter(v) \/ Completed(v) \/ Release(v)
        PROVE  FALSE
    <3>1. pc'[w] = "call"
      BY <1>1, <2>2, OthersKeep
    <3> QED
      BY <1>1, <3>1
  <2>3. ASSUME NEW v \in Workers, ReadGroups(v) PROVE FALSE
    BY <1>1, <2>3, ReadStep
  <2>4. ASSUME NEW v \in Workers, Call(v) \/ CallFails(v) PROVE Call(w)
    <3>1. w = v
      BY <1>1, <2>4, CallStep
    <3>2. ~CallFails(v)
      BY <1>1 DEF CallFails, Fault, TypeInv, StoredOK
    <3> QED
      BY <2>4, <3>1, <3>2
  <2>5. ~Crash
    BY <1>1 DEF Crash, Fault, TypeInv, StoredOK
  <2>6. ASSUME NEW r \in Routers, Reboot(r) PROVE FALSE
    BY <1>1, <2>6, RebootStep
  <2> QED
    BY <2>1, <2>2, <2>3, <2>4, <2>5, <2>6 DEF Next, Body, Job
<1>3. routes[w] \in Seq(Route) /\ Listed(calls[w]) /\ router[w] \in Routers
  BY <1>2, CallStep
<1>4. calls[w][1] = Save /\ Head(calls[w]) = calls[w][1]
  BY <1>1, <1>3, Shorter DEF Listed
<1> QED
  BY <1>1, <1>2, <1>3, <1>4 DEF Call

LEMMA SaveEffect ==
  ASSUME TypeInv, NEW r \in Routers, Effect(r, Save)
  PROVE  /\ groups'[r] = groups[r] /\ bound'[r] = bound[r]
         /\ startup'[r].groups = groups[r]
<1>1. Save.do = "save"
  BY CallsDiffer
<1>2. After(groups[r], Save) = groups[r] /\ Routed(bound[r], Save) = bound[r]
  BY <1>1 DEF After, Routed
<1>3. /\ groups'[r] = After(groups[r], Save) /\ bound'[r] = Routed(bound[r], Save)
      /\ startup' = [startup EXCEPT ![r] = [groups |-> groups[r], bound |-> bound[r]]]
  BY <1>1, EffectIs DEF TypeInv
<1>4. startup'[r] = [groups |-> groups[r], bound |-> bound[r]]
  BY <1>3 DEF TypeInv, OnRouter
<1> QED
  BY <1>2, <1>3, <1>4

(* When every call of an apply was answered, the router holds, saved,      *)
(* exactly the groups of the routes the job read, whatever earlier applies *)
(* left behind or others edit meanwhile (keeneticApplyDnsRoutes).          *)
THEOREM GroupsAlwaysExact == Spec => GroupsExact
<1> DEFINE Exactly(w) == /\ groups'[router[w]] = WantedGroups(routes[w])
                         /\ startup'[router[w]].groups = groups'[router[w]]
<1>1. ASSUME TypeInv, JobInv, GroupsInv, [Next]_vars,
             NEW w \in Workers, Applied(w), clean[w], SlugsDistinct(routes[w])
      PROVE  Exactly(w)
  <2>1. /\ Listed(calls[w]) /\ Len(calls[w]) = 1 /\ routes[w] \in Seq(Route) /\ router[w] \in Routers
        /\ Effect(router[w], Save)
    BY <1>1, AppliedIs
  <2>2. GroupsOn(calls[w], routes[w], groups[router[w]])
    BY <1>1 DEF GroupsInv, Applied
  <2>3. Holds(groups[router[w]])
    BY <1>1, <2>1 DEF TypeInv, OnRouter
  <2>4. groups[router[w]] = WantedGroups(routes[w])
    BY <1>1, <2>1, <2>2, <2>3, GroupsEnd
  <2> QED
    BY <1>1, <2>1, <2>4, SaveEffect
<1>2. TypeInv /\ JobInv /\ GroupsInv /\ [Next]_vars =>
        [\A w \in Workers : Applied(w) /\ clean[w] /\ SlugsDistinct(routes[w]) => Exactly(w)]_vars
  BY <1>1
<1> QED
  BY <1>2, GroupsOnTheWay, PTL DEF Spec, GroupsExact

-----------------------------------------------------------------------------
(* The groups routed into the tunnel, as long as nothing failed. *)
Unbinds(c, g)   == c.do = "unbind" /\ g \in c.gs
ToUnbind(cs, g) == \E i \in 1 .. Len(cs) : Unbinds(cs[i], g)
WantedOn(rs, g) == \E a \in 1 .. Len(rs) : rs[a].on /\ \E k \in 1 .. rs[a].n : g = Name(rs[a], k)

(* A group that is going to be bound is there by then. *)
BindsOn(cs, G) ==
  \A j \in 1 .. Len(cs) : \A g \in Names : cs[j] = Bind(g) =>
    \/ g \in DOMAIN G /\ \A i \in 1 .. j - 1 : ~Deletes(cs[i], g)
    \/ \E i \in 1 .. j - 1 : MadeAt(cs, i, j, g)

(* A chunk of an enabled route is bound, or is going to be; another group  *)
(* is going to be unbound.                                                 *)
BoundOn(cs, rs, B) ==
  /\ \A a \in 1 .. Len(rs) : rs[a].on => \A k \in 1 .. rs[a].n :
       ToDo(cs, BindChunk(rs[a], k)) \/ (Name(rs[a], k) \in B /\ ~ToUnbind(cs, Name(rs[a], k)))
  /\ \A g \in B : ToUnbind(cs, g) \/ WantedOn(rs, g)

LEMMA UndoneUnbinds ==
  ASSUME NEW cs, Undone(cs), NEW g \in Names, ToDelete(cs, g)
  PROVE  ToUnbind(cs, g)
<1>1. PICK i \in 1 .. Len(cs) : Deletes(cs[i], g)
  BY DEF ToDelete
<1>2. PICK j \in i + 1 .. Len(cs) : cs[j] = Unbind(g)
  BY <1>1 DEF Undone
<1>3. Unbinds(cs[j], g)
  BY <1>2, CallsDiffer DEF Unbinds
<1>4. j \in 1 .. Len(cs)
  OBVIOUS
<1> QED
  BY <1>3, <1>4 DEF ToUnbind

(* A group removed by the first call is unbound by a later one. *)
LEMMA FirstUndone ==
  ASSUME NEW cs \in Seq(CallSet), Len(cs) >= 1, Undone(cs), NEW g \in Names, Deletes(cs[1], g)
  PROVE  ToUnbind(Tail(cs), g)
<1>1. 1 \in 1 .. Len(cs)
  BY LenProperties
<1>2. PICK j \in 1 + 1 .. Len(cs) : cs[j] = Unbind(g)
  BY <1>1 DEF Undone
<1>3. Unbinds(cs[j], g)
  BY <1>2, CallsDiffer DEF Unbinds
<1>4. j - 1 \in 1 .. Len(Tail(cs)) /\ Tail(cs)[j - 1] = cs[j]
  <2>1. j \in 2 .. Len(cs)
    OBVIOUS
  <2> QED
    BY <2>1, Shorter
<1> QED
  BY <1>3, <1>4 DEF ToUnbind

LEMMA TailUnbinds ==
  ASSUME NEW cs \in Seq(CallSet), Len(cs) >= 1, NEW g
  PROVE  ToUnbind(cs, g) <=> Unbinds(cs[1], g) \/ ToUnbind(Tail(cs), g)
<1> DEFINE t == Tail(cs)
           n == Len(cs)
<1>1. /\ n \in Nat /\ n >= 1
      /\ \A i \in 1 .. Len(t) : i + 1 \in 2 .. n /\ t[i] = cs[i + 1]
      /\ \A i \in 2 .. n : i - 1 \in 1 .. Len(t) /\ t[i - 1] = cs[i]
  BY Shorter
<1> HIDE DEF t, n
<1>2. \A i \in 1 .. n : i = 1 \/ i \in 2 .. n
  BY <1>1
<1>3. 1 \in 1 .. n /\ \A i \in 1 .. Len(t) : i + 1 \in 1 .. n
  BY <1>1
<1>4. ToUnbind(cs, g) <=> Unbinds(cs[1], g) \/ ToUnbind(t, g)
  BY <1>1, <1>2, <1>3 DEF ToUnbind, n
<1> QED
  BY <1>4 DEF t

LEMMA BindsCall ==
  ASSUME NEW cs \in Seq(CallSet), Len(cs) >= 1, NEW G, BindsOn(cs, G)
  PROVE  BindsOn(Tail(cs), After(G, cs[1]))
<1> DEFINE t == Tail(cs)
           n == Len(cs)
           H == After(G, cs[1])
<1>1. /\ Len(t) = n - 1 /\ n \in Nat /\ n >= 1
      /\ \A i \in 1 .. Len(t) : i + 1 \in 2 .. n /\ t[i] = cs[i + 1]
  BY Shorter
<1>2. /\ \A g : g \in DOMAIN G /\ ~Deletes(cs[1], g) => g \in DOMAIN H
      /\ \A g : cs[1].do = "create" /\ g \in cs[1].gs => g \in DOMAIN H
  <2>1. CASE cs[1].do = "delete"
    BY <2>1 DEF After, Deletes
  <2>2. CASE cs[1].do = "create"
    BY <2>2 DEF After
  <2>3. CASE cs[1].do \notin {"delete", "create"}
    BY <2>3 DEF After
  <2> QED
    BY <2>1, <2>2, <2>3
<1>3. \A j \in 1 .. n : \A g \in Names : cs[j] = Bind(g) =>
        \/ g \in DOMAIN G /\ \A i \in 1 .. j - 1 : ~Deletes(cs[i], g)
        \/ \E i \in 1 .. j - 1 : MadeAt(cs, i, j, g)
  BY DEF BindsOn
<1> HIDE DEF t, n, H
<1>4. ASSUME NEW j \in 1 .. Len(t), NEW g \in Names, t[j] = Bind(g)
      PROVE  \/ g \in DOMAIN H /\ \A i \in 1 .. j - 1 : ~Deletes(t[i], g)
             \/ \E i \in 1 .. j - 1 : MadeAt(t, i, j, g)
  <2>1. j \in Nat /\ j + 1 \in 1 .. n /\ cs[j + 1] = Bind(g)
    BY <1>1, <1>4
  <2>2. \A l \in 1 .. j - 1 : l + 1 \in 2 .. j /\ t[l] = cs[l + 1]
    BY <1>1
  <2>3. CASE g \in DOMAIN G /\ \A i \in 1 .. (j + 1) - 1 : ~Deletes(cs[i], g)
    <3>1. \A i \in 1 .. j : ~Deletes(cs[i], g)
      BY <2>1, <2>3
    <3>2. g \in DOMAIN H
      BY <1>2, <2>1, <2>3, <3>1
    <3>3. \A l \in 1 .. j - 1 : ~Deletes(t[l], g)
      BY <2>1, <2>2, <3>1
    <3> QED
      BY <3>2, <3>3
  <2>4. ASSUME NEW i \in 1 .. (j + 1) - 1, MadeAt(cs, i, j + 1, g)
        PROVE  \/ g \in DOMAIN H /\ \A l \in 1 .. j - 1 : ~Deletes(t[l], g)
               \/ \E l \in 1 .. j - 1 : MadeAt(t, l, j, g)
    <3>1. cs[i].do = "create" /\ g \in cs[i].gs /\ \A l \in i .. j : ~Deletes(cs[l], g)
      <4>1. (j + 1) - 1 = j
        BY <2>1
      <4> QED
        BY <2>4, <4>1 DEF MadeAt
    <3>2. CASE i = 1
      <4>1. g \in DOMAIN H
        BY <1>2, <3>1, <3>2
      <4>2. \A l \in 1 .. j - 1 : ~Deletes(t[l], g)
        BY <2>1, <2>2, <3>1, <3>2
      <4> QED
        BY <4>1, <4>2
    <3>3. CASE i # 1
      <4>1. i - 1 \in 1 .. j - 1 /\ (i - 1) + 1 = i
        BY <2>1, <3>3
      <4>2. t[i - 1] = cs[i]
        BY <2>2, <4>1
      <4>3. ASSUME NEW l \in i - 1 .. j - 1 PROVE ~Deletes(t[l], g)
        <5>1. l \in 1 .. j - 1 /\ l + 1 \in i .. j
          BY <2>1, <3>3
        <5> QED
          BY <2>2, <3>1, <5>1
      <4>4. MadeAt(t, i - 1, j, g)
        BY <3>1, <4>2, <4>3 DEF MadeAt
      <4> QED
        BY <4>1, <4>4
    <3> QED
      BY <3>2, <3>3
  <2> QED
    BY <1>3, <2>1, <2>3, <2>4
<1>5. BindsOn(t, H)
  BY <1>4 DEF BindsOn
<1> QED
  BY <1>5 DEF t, H

(* A bound group is there, or is going to be unbound. *)
LEMMA RestCall ==
  ASSUME NEW cs \in Seq(CallSet), Len(cs) >= 1, NEW rs \in Seq(Route),
         OfRoutes(cs, rs), Undone(cs), NEW G, BindsOn(cs, G),
         NEW B, B \subseteq Names, \A g \in B : g \in DOMAIN G \/ ToUnbind(cs, g)
  PROVE  \A g \in Routed(B, cs[1]) : g \in DOMAIN After(G, cs[1]) \/ ToUnbind(Tail(cs), g)
<1> DEFINE c == cs[1]
           t == Tail(cs)
<1>1. 1 \in 1 .. Len(cs)
  BY LenProperties
<1>2. SUFFICES ASSUME NEW g \in Routed(B, c) PROVE g \in DOMAIN After(G, c) \/ ToUnbind(t, g)
  OBVIOUS
<1>3. CASE g \in B
  <2>1. ~Unbinds(c, g)
    BY DEF Routed, Unbinds
  <2>2. ToUnbind(cs, g) => ToUnbind(t, g)
    BY <2>1, TailUnbinds
  <2>3. g \in DOMAIN G /\ ~Deletes(c, g) => g \in DOMAIN After(G, c)
    <3>1. CASE c.do = "delete"
      BY <3>1 DEF After, Deletes
    <3>2. CASE c.do = "create"
      BY <3>2 DEF After
    <3>3. CASE c.do \notin {"delete", "create"}
      BY <3>3 DEF After
    <3> QED
      BY <3>1, <3>2, <3>3
  <2>4. Deletes(c, g) => ToUnbind(t, g)
    BY <1>3, FirstUndone
  <2> QED
    BY <1>3, <2>2, <2>3, <2>4
<1>4. CASE g \notin B
  <2>1. c.do = "bind" /\ g \in c.gs
    BY <1>4 DEF Routed
  <2>2. PICK a \in 1 .. Len(rs) : \E k \in 1 .. rs[a].n : c = BindChunk(rs[a], k)
    BY <1>1, <2>1 DEF OfRoutes, MakesChunk
  <2>3. PICK k \in 1 .. rs[a].n : c = BindChunk(rs[a], k)
    BY <2>2
  <2>4. c = Bind(g) /\ g \in Names
    BY <2>1, <2>3, NameTyped, CallsDiffer DEF BindChunk, Name
  <2>5. g \in DOMAIN G
    BY <1>1, <2>4 DEF BindsOn
  <2>6. After(G, c) = G
    BY <2>1 DEF After
  <2> QED
    BY <2>5, <2>6
<1> QED
  BY <1>3, <1>4

LEMMA BoundCall ==
  ASSUME NEW cs \in Seq(CallSet), Len(cs) >= 1, NEW rs \in Seq(Route),
         OfRoutes(cs, rs), Undone(cs), DropsFirst(cs), NEW B, BoundOn(cs, rs, B)
  PROVE  BoundOn(Tail(cs), rs, Routed(B, cs[1]))
<1> DEFINE c == cs[1]
           t == Tail(cs)
           D == Routed(B, c)
<1>1. /\ \A g : ToUnbind(cs, g) <=> Unbinds(c, g) \/ ToUnbind(t, g)
      /\ \A x : ToDo(cs, x) <=> c = x \/ ToDo(t, x)
  BY TailKeeps, TailUnbinds
<1>2. 1 \in 1 .. Len(cs)
  BY LenProperties
<1>3. /\ \A g \in B : Unbinds(c, g) \/ g \in D
      /\ \A g \in D : ~Unbinds(c, g) /\ (g \in B \/ (c.do = "bind" /\ g \in c.gs))
      /\ c.do = "bind" => c.gs \subseteq D
  BY DEF Routed, Unbinds
<1> HIDE DEF t, D
<1>4. ASSUME NEW a \in 1 .. Len(rs), rs[a].on, NEW k \in 1 .. rs[a].n
      PROVE  ToDo(t, BindChunk(rs[a], k)) \/ (Name(rs[a], k) \in D /\ ~ToUnbind(t, Name(rs[a], k)))
  <2> DEFINE n == Name(rs[a], k)
  <2>1. ToDo(cs, BindChunk(rs[a], k)) \/ (n \in B /\ ~ToUnbind(cs, n))
    BY <1>4 DEF BoundOn
  <2>2. CASE c = BindChunk(rs[a], k)
    <3>1. c.do = "bind" /\ c.gs = {n} /\ n \in Names
      BY <2>2, CallsDiffer, NameTyped DEF Name
    <3>2. Makes(c, n)
      BY <3>1 DEF Makes
    <3>3. ASSUME NEW i \in 1 .. Len(cs), Unbinds(cs[i], n) PROVE FALSE
      <4>1. Drops(cs[i], n)
        BY <3>3 DEF Unbinds, Drops
      <4>2. i < 1
        BY <1>2, <3>1, <3>2, <4>1 DEF DropsFirst
      <4> QED
        BY <4>2
    <3>4. ~ToUnbind(cs, n)
      BY <3>3 DEF ToUnbind
    <3> QED
      BY <1>1, <1>3, <3>1, <3>4
  <2>3. CASE c # BindChunk(rs[a], k)
    BY <1>1, <1>3, <2>1, <2>3
  <2> QED
    BY <2>2, <2>3
<1>5. ASSUME NEW g \in D PROVE ToUnbind(t, g) \/ WantedOn(rs, g)
  <2>1. CASE g \in B
    BY <1>1, <1>3, <2>1 DEF BoundOn
  <2>2. CASE g \notin B
    <3>1. c.do = "bind" /\ g \in c.gs
      BY <1>3, <2>2
    <3>2. PICK a \in 1 .. Len(rs) : rs[a].on /\ \E k \in 1 .. rs[a].n : c = BindChunk(rs[a], k)
      BY <1>2, <3>1 DEF OfRoutes, MakesChunk
    <3>3. PICK k \in 1 .. rs[a].n : c = BindChunk(rs[a], k)
      BY <3>2
    <3>4. c.gs = {Name(rs[a], k)}
      BY <3>3, CallsDiffer DEF Name
    <3> QED
      BY <3>1, <3>2, <3>4 DEF WantedOn
  <2> QED
    BY <2>1, <2>2
<1>6. BoundOn(t, rs, D)
  BY <1>4, <1>5 DEF BoundOn
<1> QED
  BY <1>6 DEF t, D

LEMMA BoundStart ==
  ASSUME NEW G, NEW rs \in Seq(Route), NEW B, B \subseteq Names, B \subseteq DOMAIN G
  PROVE  /\ BindsOn(Plan(DOMAIN G, rs), G) /\ BoundOn(Plan(DOMAIN G, rs), rs, B)
         /\ \A g \in B : ToUnbind(Plan(DOMAIN G, rs), g)
<1> DEFINE p == Plan(DOMAIN G, rs)
<1>1. /\ Undone(p) /\ BindsMade(p)
      /\ \A g \in DOMAIN G \cap Names : ToDelete(p, g)
      /\ \A a \in 1 .. Len(rs) : \A k \in 1 .. rs[a].n : rs[a].on => ToDo(p, BindChunk(rs[a], k))
  BY PlanOK
<1> HIDE DEF p
<1>2. \A g \in B : ToUnbind(p, g)
  BY <1>1, UndoneUnbinds
<1>3. BindsOn(p, G)
  BY <1>1 DEF BindsMade, BindsOn
<1>4. BoundOn(p, rs, B)
  BY <1>1, <1>2 DEF BoundOn
<1> QED
  BY <1>2, <1>3, <1>4 DEF p

LEMMA BoundEnd ==
  ASSUME NEW cs, Listed(cs), Len(cs) = 1, NEW rs \in Seq(Route), NEW B, BoundOn(cs, rs, B)
  PROVE  B = WantedBound(rs)
<1> DEFINE want == Chunks(rs, LAMBDA r : r.on)
<1>1. (\A g : ~ToUnbind(cs, g)) /\ \A r, k : ~ToDo(cs, BindChunk(r, k))
  <2>1. cs[1].do = "save"
    BY CallsDiffer DEF Listed
  <2>2. \A i \in 1 .. Len(cs) : i = 1
    OBVIOUS
  <2> QED
    BY <2>1, <2>2, CallsDiffer DEF ToUnbind, ToDo, Unbinds
<1>2. \A g : g \in B <=> WantedOn(rs, g)
  BY <1>1 DEF BoundOn, WantedOn
<1>3. \A c : c \in want <=> \E a \in 1 .. Len(rs) : rs[a].on /\ \E k \in 1 .. rs[a].n : c = <<rs[a], k>>
  <2>1. want = UNION {{<<r, k>> : k \in 1 .. r.n} : r \in {r \in ToSet(rs) : r.on}}
    BY DEF Chunks
  <2>2. ToSet(rs) = {rs[a] : a \in 1 .. Len(rs)}
    BY DEF ToSet
  <2> QED
    BY <2>1, <2>2
<1> HIDE DEF want
<1> DEFINE W == {<<c[1].slug, c[2]>> : c \in want}
<1>4. \A g : g \in W <=> WantedOn(rs, g)
  <2>1. ASSUME NEW c \in want PROVE WantedOn(rs, <<c[1].slug, c[2]>>)
    <3>1. PICK a \in 1 .. Len(rs) : rs[a].on /\ \E k \in 1 .. rs[a].n : c = <<rs[a], k>>
      BY <1>3
    <3>2. PICK k \in 1 .. rs[a].n : c = <<rs[a], k>>
      BY <3>1
    <3>3. <<c[1].slug, c[2]>> = Name(rs[a], k)
      BY <3>2 DEF Name
    <3> QED
      BY <3>1, <3>3 DEF WantedOn
  <2>2. ASSUME NEW a \in 1 .. Len(rs), rs[a].on, NEW k \in 1 .. rs[a].n PROVE Name(rs[a], k) \in W
    <3>1. <<rs[a], k>> \in want
      BY <1>3, <2>2
    <3>2. Name(rs[a], k) = <<(<<rs[a], k>>)[1].slug, (<<rs[a], k>>)[2]>>
      BY DEF Name
    <3> QED
      BY <3>1, <3>2
  <2> QED
    BY <2>1, <2>2 DEF WantedOn
<1>5. WantedBound(rs) = W
  BY DEF WantedBound, want
<1> HIDE DEF W
<1> QED
  BY <1>2, <1>4, <1>5

(* A job that is going to unbind group g of router r. *)
Unbinding(r, g) == \E w \in Workers : pc[w] = "call" /\ router[w] = r /\ ToUnbind(calls[w], g)

RestInv == \A r \in Routers : \A g \in bound[r] : g \in DOMAIN groups[r] \/ Unbinding(r, g)

BoundInv ==
  faults = 0 =>
    /\ RestInv
    /\ \A w \in Workers : pc[w] = "call" =>
         /\ BindsOn(calls[w], groups[router[w]])
         /\ SlugsDistinct(routes[w]) => BoundOn(calls[w], routes[w], bound[router[w]])

LEMMA InitBound == Init => BoundInv
<1> SUFFICES ASSUME Init PROVE BoundInv
  OBVIOUS
<1>1. \A r \in Routers : bound[r] = {}
  BY DEF Init
<1>2. \A w \in Workers : pc[w] = "idle"
  BY DEF Init
<1> QED
  BY <1>1, <1>2 DEF BoundInv, RestInv

LEMMA BoundReads ==
  ASSUME TypeInv, JobInv, BoundInv, NEW v \in Workers, ReadGroups(v)
  PROVE  BoundInv'
<1>1. SUFFICES ASSUME faults' = 0 PROVE BoundInv'
  BY DEF BoundInv
<1>2. /\ \A w \in Workers : pc'[w] = "call" => w = v
      /\ \A w \in Workers : pc[w] # "call"
      /\ routes' = routes /\ UNCHANGED <<groups, bound, startup, faults>> /\ routes[v] \in Seq(Route)
  BY ReadStep
<1>3. PICK r \in Routers : router'[v] = r /\ calls'[v] = Plan(DOMAIN groups[r], routes[v])
  BY ReadStep
<1>4. \A q \in Routers : \A g \in bound[q] : g \in DOMAIN groups[q]
  BY <1>1, <1>2 DEF BoundInv, RestInv, Unbinding
<1>5. bound[r] \subseteq Names /\ bound[r] \subseteq DOMAIN groups[r]
  BY <1>4 DEF TypeInv, OnRouter
<1>6. /\ BindsOn(Plan(DOMAIN groups[r], routes[v]), groups[r])
      /\ BoundOn(Plan(DOMAIN groups[r], routes[v]), routes[v], bound[r])
  BY <1>2, <1>5, BoundStart
<1>7. RestInv'
  BY <1>2, <1>4 DEF RestInv
<1> QED
  BY <1>2, <1>3, <1>6, <1>7 DEF BoundInv

LEMMA BoundCalls ==
  ASSUME TypeInv, JobInv, GroupsInv, BoundInv, NEW v \in Workers, Call(v)
  PROVE  BoundInv'
<1>1. SUFFICES ASSUME faults' = 0 PROVE BoundInv'
  BY DEF BoundInv
<1>2. /\ \A w \in Workers : pc'[w] = "call" \/ pc[w] = "call" => w = v
      /\ pc[v] = "call" /\ pc'[v] = IF Len(calls[v]) = 1 THEN "next" ELSE "call"
      /\ routes' = routes /\ router' = router /\ calls'[v] = Tail(calls[v])
      /\ routes[v] \in Seq(Route) /\ Listed(calls[v]) /\ router[v] \in Routers
  BY CallStep
<1>3. faults = 0
  BY <1>1 DEF Call, counters
<1> DEFINE cs == calls[v]
           t == Tail(cs)
           c == cs[1]
           rs == routes[v]
           r == router[v]
           G == groups[r]
           B == bound[r]
<1>4. cs \in Seq(CallSet) /\ Len(cs) >= 1 /\ rs \in Seq(Route) /\ r \in Routers /\ Len(cs) \in Nat
  BY <1>2, LenProperties DEF Listed
<1>5. OfRoutes(cs, rs) /\ Undone(cs) /\ (SlugsDistinct(rs) => DropsFirst(cs))
  BY <1>2 DEF GroupsInv, CallsOK
<1>6. BindsOn(cs, G) /\ (SlugsDistinct(rs) => BoundOn(cs, rs, B))
  BY <1>2, <1>3 DEF BoundInv
<1>7. \A q \in Routers : \A g \in bound[q] : g \in DOMAIN groups[q] \/ (q = r /\ ToUnbind(cs, g))
  BY <1>2, <1>3 DEF BoundInv, RestInv, Unbinding
<1>8. Effect(r, c)
  BY <1>4, Shorter DEF Call
<1>9. /\ groups'[r] = After(G, c) /\ bound'[r] = Routed(B, c)
      /\ \A q \in Routers \ {r} : groups'[q] = groups[q] /\ bound'[q] = bound[q]
  BY <1>4, <1>8, EffectIs DEF TypeInv
<1>10. B \subseteq Names
  BY <1>4 DEF TypeInv, OnRouter
<1>11. BindsOn(t, After(G, c))
  BY <1>4, <1>6, BindsCall
<1>12. SlugsDistinct(rs) => BoundOn(t, rs, Routed(B, c))
  BY <1>4, <1>5, <1>6, BoundCall
<1>13. \A g \in Routed(B, c) : g \in DOMAIN After(G, c) \/ ToUnbind(t, g)
  BY <1>4, <1>5, <1>6, <1>7, <1>10, RestCall
<1>14. Len(cs) = 1 => \A g : ~ToUnbind(t, g)
  <2>1. Len(t) = Len(cs) - 1
    BY <1>4, Shorter
  <2> QED
    BY <2>1 DEF ToUnbind
<1>15. calls'[v] = t /\ routes'[v] = rs /\ router'[v] = r
  BY <1>2
<1>16. ASSUME NEW q \in Routers, NEW g \in bound'[q]
       PROVE  g \in DOMAIN groups'[q] \/ Unbinding(q, g)'
  <2>1. CASE q # r
    <3>1. groups'[q] = groups[q] /\ bound'[q] = bound[q]
      BY <1>9, <2>1
    <3> QED
      BY <1>7, <1>16, <2>1, <3>1
  <2>2. CASE q = r
    <3>1. g \in DOMAIN groups'[q] \/ ToUnbind(t, g)
      BY <1>9, <1>13, <1>16, <2>2
    <3>2. ASSUME ToUnbind(t, g) PROVE Unbinding(q, g)'
      <4>1. pc'[v] = "call"
        BY <1>2, <1>14, <3>2
      <4> HIDE DEF t, r
      <4> QED
        BY <1>15, <2>2, <3>2, <4>1 DEF Unbinding
    <3> QED
      BY <3>1, <3>2
  <2> QED
    BY <2>1, <2>2
<1>17. ASSUME NEW w \in Workers, pc'[w] = "call"
       PROVE  /\ BindsOn(calls'[w], groups'[router'[w]])
              /\ SlugsDistinct(routes'[w]) => BoundOn(calls'[w], routes'[w], bound'[router'[w]])
  <2>1. w = v
    BY <1>2, <1>17
  <2> HIDE DEF t, rs, r, c, G, B
  <2> QED
    BY <1>9, <1>11, <1>12, <1>15, <2>1
<1> QED
  BY <1>16, <1>17 DEF BoundInv, RestInv

LEMMA StepBound ==
  ASSUME TypeInv, JobInv, GroupsInv, BoundInv, [Next]_vars
  PROVE  BoundInv'
<1>1. CASE UNCHANGED vars
  BY <1>1 DEF vars, locals, onRouter, counters, BoundInv, RestInv, Unbinding
<1>2. ASSUME NEW v \in Workers,
             \/ Edit(v) \/ RoutesTrunc(v) \/ RoutesWrite(v) \/ RoutesFailed(v) \/ ApplyBegin(v) \/ ApplyBusy(v)
             \/ BodyRead(v) \/ ApplyRefused(v) \/ ApplyNoRoutes(v) \/ ApplyStart(v) \/ SkipRouter(v) \/ Completed(v) \/ Release(v)
      PROVE  BoundInv'
  <2>1. /\ groups' = groups /\ bound' = bound /\ (faults' = 0 => faults = 0)
        /\ \A w \in Workers : pc'[w] = "call" \/ pc[w] = "call" =>
             /\ pc[w] = "call" /\ pc'[w] = "call" /\ routes'[w] = routes[w] /\ calls'[w] = calls[w]
             /\ router'[w] = router[w]
    BY <1>2, OthersKeep
  <2>2. \A r \in Routers : \A g : Unbinding(r, g) => Unbinding(r, g)'
    BY <2>1 DEF Unbinding
  <2>3. RestInv => RestInv'
    BY <2>1, <2>2 DEF RestInv
  <2> QED
    BY <2>1, <2>3 DEF BoundInv
<1>3. ASSUME NEW v \in Workers, ReadGroups(v) PROVE BoundInv'
  BY <1>3, BoundReads
<1>4. ASSUME NEW v \in Workers, Call(v) PROVE BoundInv'
  BY <1>4, BoundCalls
<1>5. ASSUME Crash \/ (\E v \in Workers : CallFails(v)) \/ \E r \in Routers : Reboot(r)
      PROVE  BoundInv'
  <2>1. faults' = faults + 1
    BY <1>5 DEF Crash, CallFails, Reboot, Fault
  <2> QED
    BY <2>1 DEF BoundInv, TypeInv, StoredOK
<1> QED
  BY <1>1, <1>2, <1>3, <1>4, <1>5 DEF Next, Body, Job

(* As long as no call failed, no router rebooted and nothing crashed, the  *)
(* groups a router routes into the tunnel after an apply are those of the  *)
(* enabled routes the job read, and no others (keeneticApplyDnsRoutes).    *)
THEOREM BoundAlwaysExact == Spec => BoundExact
<1>1. Init => BoundInv
  BY InitBound
<1>2. TypeInv /\ JobInv /\ GroupsInv /\ BoundInv /\ [Next]_vars => BoundInv'
  BY StepBound
<1>3. ASSUME TypeInv, JobInv, BoundInv, [Next]_vars,
             NEW w \in Workers, Applied(w), faults = 0, SlugsDistinct(routes[w])
      PROVE  bound'[router[w]] = WantedBound(routes[w])
  <2>1. /\ Listed(calls[w]) /\ Len(calls[w]) = 1 /\ routes[w] \in Seq(Route) /\ router[w] \in Routers
        /\ Effect(router[w], Save)
    BY <1>3, AppliedIs
  <2>2. BoundOn(calls[w], routes[w], bound[router[w]])
    BY <1>3 DEF BoundInv, Applied
  <2>3. bound[router[w]] = WantedBound(routes[w])
    BY <2>1, <2>2, BoundEnd
  <2> QED
    BY <1>3, <2>1, <2>3, SaveEffect
<1>4. TypeInv /\ JobInv /\ BoundInv /\ [Next]_vars =>
        [\A w \in Workers : Applied(w) /\ faults = 0 /\ SlugsDistinct(routes[w])
           => bound'[router[w]] = WantedBound(routes[w])]_vars
  BY <1>3
<1> QED
  BY <1>1, <1>2, <1>4, GroupsOnTheWay, PTL DEF Spec, BoundExact
=============================================================================
