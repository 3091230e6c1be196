---------------------------- MODULE ChrootProofs ----------------------------
(***************************************************************************)
(* Theorems about the chroot environment and its two clients, for every    *)
(* list of extra mounts and any number of calls and of failing calls.  The *)
(* environment: the inductive invariant that each of its steps preserves.  *)
(* Hooks, under any sequence of calls: the chroot knows of every mount     *)
(* that it left, what it leaves is reported, and so is what fails in a     *)
(* hook, which runs all there is to be run.  Builds, for all specs,        *)
(* sources and sizes: the checksum beside an ISO, the host of a build, the *)
(* ISO that a build delivers and when it succeeds.                         *)
(***************************************************************************)
EXTENDS Stages, BuildISO, TLAPS, SequenceTheorems, WellFoundedInduction

-----------------------------------------------------------------------------
(* The chroot environment.                                                 *)

Distinct(s) == \A i, j \in 1 .. Len(s) : s[i] = s[j] => i = j

\* What Prepare has mounted so far, and whose mounts may be left.
MountsInv ==
  /\ Distinct(activeMounts) /\ Distinct(failures)
  /\ pc # "close" => failures = <<>>
  /\ pc = "prepare" => /\ Len(activeMounts) = next - 1
                       /\ \A i \in 1 .. Len(activeMounts) : activeMounts[i] = Mounts[i]

\* Which calls a step may belong to, and what a call that has not failed has done.
CallInv ==
  /\ pc \in {"enter", "chroot", "callback", "restore", "return"} => call = "RunCallback"
  /\ pc = "enter" => next = 1
  /\ pc = "prepare" => call \in {"Prepare", "RunCallback"}
  /\ own => call = "RunCallback"
  /\ root = "chroot" => pc \in {"callback", "restore"} \/ err
  /\ pc \in {"idle", "return"} /\ ~err /\ (own \/ call = "Close") => activeMounts = <<>>

ChrootInv == TypeOK /\ Tracked /\ MountsInv /\ CallInv
-----------------------------------------------------------------------------
LEMMA MountsType ==
  /\ Len(Mounts) \in Nat
  /\ \A i \in 1 .. Len(Mounts) : Mounts[i] \in Mount
  /\ Distinct(Mounts)
<1> DEFINE Kernel == {"dev", "dev/pts", "proc", "sys"}
<1>1. <<"dev", "dev/pts", "proc", "sys">> \in Seq(STRING \cup Kernel)  OBVIOUS
<1>2. ExtraMounts \in Seq(STRING \cup Kernel)  BY ChrootAssumption, SeqMonotonic
<1>3. Mounts \in Seq(STRING \cup Kernel)  BY <1>1, <1>2, ConcatProperties DEF Mounts
<1>4. QED  BY <1>3, ChrootAssumption DEF Mount, Distinct

LEMMA InitInv == Init => ChrootInv
<1> SUFFICES ASSUME Init PROVE ChrootInv  OBVIOUS
<1>1. TypeOK
  <2>1. mounted \in [Mount -> Nat]  BY DEF Init
  <2>2. activeMounts \in Seq(Mount) /\ failures \in Seq(Mount)  BY DEF Init
  <2>3. next \in 1 .. Len(Mounts) + 1  BY MountsType DEF Init
  <2>4. calls \in 0 .. MaxCalls /\ faults \in 0 .. MaxFaults /\ start \in 0 .. MaxFaults
    BY ChrootAssumption DEF Init
  <2>5. QED  BY <2>1, <2>2, <2>3, <2>4 DEF Init, TypeOK
<1>2. Tracked  BY DEF Init, Tracked, Times
<1>3. QED  BY <1>1, <1>2 DEF Init, ChrootInv, MountsInv, CallInv, Distinct

LEMMA FrontOf ==
  ASSUME NEW S, NEW s \in Seq(S), s # <<>>
  PROVE  /\ Len(s) \in Nat \ {0} /\ s[Len(s)] \in S
         /\ SubSeq(s, 1, Len(s) - 1) \in Seq(S)
         /\ Len(SubSeq(s, 1, Len(s) - 1)) = Len(s) - 1
         /\ \A i \in 1 .. Len(s) - 1 : SubSeq(s, 1, Len(s) - 1)[i] = s[i]
<1>1. Len(s) \in Nat \ {0}  BY EmptySeq
<1>2. \A i \in 1 .. Len(s) : s[i] \in S  BY LenProperties
<1> DEFINE n == Len(s) - 1
<1>3. n \in Nat /\ 1 \in Int  BY <1>1
<1> HIDE DEF n
<1>4. \A i \in 1 .. n : s[i] \in S  BY <1>1, <1>2, <1>3 DEF n
<1>5. /\ SubSeq(s, 1, n) \in Seq(S) /\ Len(SubSeq(s, 1, n)) = IF 1 <= n THEN n - 1 + 1 ELSE 0
      /\ \A i \in 1 .. n - 1 + 1 : SubSeq(s, 1, n)[i] = s[1 + i - 1]
  BY <1>3, <1>4, SubSeqProperties
<1>6. Len(SubSeq(s, 1, n)) = n /\ \A i \in 1 .. n : SubSeq(s, 1, n)[i] = s[i]
  BY <1>3, <1>5
<1>7. QED  BY <1>1, <1>2, <1>5, <1>6 DEF n

\* An element has an occurrence; the same for sequences that gain or lose their last.
LEMMA Occurs == \A p, s : Times(p, s) # {} <=> \E i \in 1 .. Len(s) : s[i] = p
BY DEF Times

LEMMA AppendOccurs ==
  ASSUME NEW S, NEW s \in Seq(S), NEW e \in S
  PROVE  /\ \A p : Times(p, Append(s, e)) # {} <=> p = e \/ Times(p, s) # {}
         /\ Distinct(s) /\ Times(e, s) = {} => Distinct(Append(s, e))
<1> DEFINE t == Append(s, e)
<1>1. /\ Len(s) \in Nat /\ Len(t) = Len(s) + 1 /\ t[Len(s) + 1] = e
      /\ \A i \in 1 .. Len(s) : t[i] = s[i]
  BY AppendProperties, LenProperties
<1> HIDE DEF t
<1>2. \A i \in 1 .. Len(t) : i \in 1 .. Len(s) \/ i = Len(s) + 1  BY <1>1
<1>3. \A i \in 1 .. Len(s) : i \in 1 .. Len(t)  BY <1>1
<1>4. Len(s) + 1 \in 1 .. Len(t)  BY <1>1
<1>5. \A p : (\E i \in 1 .. Len(t) : t[i] = p) <=> p = e \/ \E i \in 1 .. Len(s) : s[i] = p
  BY <1>1, <1>2, <1>3, <1>4
<1>6. \A p : Times(p, t) # {} <=> p = e \/ Times(p, s) # {}  BY <1>5, Occurs
<1>7. ASSUME Distinct(s), Times(e, s) = {} PROVE Distinct(t)
  <2>1. \A i \in 1 .. Len(s) : s[i] # e  BY <1>7, Occurs
  <2>2. QED  BY <2>1, <1>1, <1>2, <1>7 DEF Distinct
<1>8. QED  BY <1>6, <1>7 DEF t

LEMMA FrontOccurs ==
  ASSUME NEW S, NEW s \in Seq(S), s # <<>>, Distinct(s)
  PROVE  LET t == SubSeq(s, 1, Len(s) - 1)
         IN  /\ \A p : Times(p, t) # {} <=> p # s[Len(s)] /\ Times(p, s) # {}
             /\ Distinct(t) /\ Times(s[Len(s)], s) # {}
<1> DEFINE t == SubSeq(s, 1, Len(s) - 1)
<1>1. /\ Len(s) \in Nat \ {0} /\ Len(t) = Len(s) - 1
      /\ \A i \in 1 .. Len(s) - 1 : t[i] = s[i]
  BY FrontOf
<1> HIDE DEF t
<1>2. \A i \in 1 .. Len(s) : i \in 1 .. Len(t) \/ i = Len(s)  BY <1>1
<1>3. \A i \in 1 .. Len(t) : i \in 1 .. Len(s) /\ i # Len(s) /\ t[i] = s[i]  BY <1>1
<1>4. Len(s) \in 1 .. Len(s)  BY <1>1
<1>5. \A i \in 1 .. Len(t) : t[i] # s[Len(s)]  BY <1>3, <1>4 DEF Distinct
<1>6. \A p : (\E i \in 1 .. Len(t) : t[i] = p) <=> p # s[Len(s)] /\ \E i \in 1 .. Len(s) : s[i] = p
  BY <1>2, <1>3, <1>5
<1>7. \A p : Times(p, t) # {} <=> p # s[Len(s)] /\ Times(p, s) # {}  BY <1>6, Occurs
<1>8. Distinct(t)  BY <1>3 DEF Distinct
<1>9. Times(s[Len(s)], s) # {}  BY <1>4, Occurs
<1>10. QED  BY <1>7, <1>8, <1>9 DEF t
-----------------------------------------------------------------------------
USE DEF Succeeds, Fails, Goto, Error, mountVars, callVars

\* A step that leaves the mounts alone keeps track of them.
LEMMA TrackedFrame == ASSUME Tracked, UNCHANGED mountVars PROVE Tracked'
BY DEF Tracked, Times

LEMMA MountsFrame ==
  ASSUME MountsInv, UNCHANGED mountVars, pc # "close", pc' # "prepare"
  PROVE  MountsInv'
BY DEF MountsInv, Distinct

LEMMA FaultsType ==
  ASSUME TypeOK, Succeeds \/ Fails PROVE faults' \in 0 .. MaxFaults
BY ChrootAssumption DEF TypeOK

\* Most steps change no mounts, no call, and move on or fail.
LEMMA ControlType ==
  ASSUME TypeOK, UNCHANGED <<mountVars, callVars>>, Succeeds \/ Fails,
         root' \in {"host", "chroot"}, err' \in BOOLEAN,
         pc' \in {"idle", "enter", "prepare", "chroot", "callback", "restore", "close", "return"}
  PROVE  TypeOK'
<1>1. faults' \in 0 .. MaxFaults  BY FaultsType
<1>2. QED  BY <1>1 DEF TypeOK
-----------------------------------------------------------------------------
LEMMA EnterInv == ChrootInv /\ Enter => ChrootInv'
<1> SUFFICES ASSUME ChrootInv, Enter PROVE ChrootInv'  OBVIOUS
<1> USE DEF ChrootInv
<1>1. TypeOK'
  <2>1. pc' \in {"prepare", "chroot", "return"} /\ err' \in BOOLEAN /\ root' \in {"host", "chroot"}
    BY DEF Enter, TypeOK
  <2>2. QED  BY <2>1, ControlType DEF Enter
<1>2. Tracked'  BY TrackedFrame DEF Enter
<1>3. MountsInv'
  <2>1. pc' = "prepare" => Len(activeMounts) = 0 /\ next = 1  BY DEF Enter, CallInv
  <2>2. QED  BY <2>1 DEF Enter, MountsInv, Distinct
<1>4. CallInv'  BY DEF Enter, CallInv, TypeOK
<1>5. QED  BY <1>1, <1>2, <1>3, <1>4

LEMMA EnterRootInv == ChrootInv /\ EnterRoot => ChrootInv'
<1> SUFFICES ASSUME ChrootInv, EnterRoot PROVE ChrootInv'  OBVIOUS
<1> USE DEF ChrootInv
<1>1. TypeOK'
  <2>1. pc' \in {"callback", "close", "return"} /\ err' \in BOOLEAN /\ root' \in {"host", "chroot"}
    BY DEF EnterRoot, TypeOK
  <2>2. QED  BY <2>1, ControlType DEF EnterRoot
<1>2. Tracked'  BY TrackedFrame DEF EnterRoot
<1>3. MountsInv'  BY MountsFrame DEF EnterRoot
<1>4. CallInv'  BY DEF EnterRoot, CallInv, TypeOK
<1>5. QED  BY <1>1, <1>2, <1>3, <1>4

LEMMA CallbackInv ==
  ASSUME NEW failing \in BOOLEAN PROVE ChrootInv /\ CallbackReturns(failing) => ChrootInv'
<1> SUFFICES ASSUME ChrootInv, CallbackReturns(failing) PROVE ChrootInv'  OBVIOUS
<1> USE DEF ChrootInv
<1>1. TypeOK'
  <2>1. pc' = "restore" /\ err' \in BOOLEAN /\ root' \in {"host", "chroot"} /\ Succeeds
    BY DEF CallbackReturns, TypeOK
  <2>2. QED  BY <2>1, ControlType DEF CallbackReturns
<1>2. Tracked'  BY TrackedFrame DEF CallbackReturns
<1>3. MountsInv'  BY MountsFrame DEF CallbackReturns
<1>4. CallInv'  BY DEF CallbackReturns, CallInv, TypeOK
<1>5. QED  BY <1>1, <1>2, <1>3, <1>4

LEMMA RestoreRootInv == ChrootInv /\ RestoreRoot => ChrootInv'
<1> SUFFICES ASSUME ChrootInv, RestoreRoot PROVE ChrootInv'  OBVIOUS
<1> USE DEF ChrootInv
<1>1. TypeOK'
  <2>1. pc' \in {"close", "return"} /\ err' \in BOOLEAN /\ root' \in {"host", "chroot"}
    BY DEF RestoreRoot, TypeOK
  <2>2. QED  BY <2>1, ControlType DEF RestoreRoot
<1>2. Tracked'  BY TrackedFrame DEF RestoreRoot
<1>3. MountsInv'  BY MountsFrame DEF RestoreRoot
<1>4. CallInv'  BY DEF RestoreRoot, CallInv, TypeOK
<1>5. QED  BY <1>1, <1>2, <1>3, <1>4

LEMMA ReturnInv == ChrootInv /\ Return => ChrootInv'
<1> SUFFICES ASSUME ChrootInv, Return PROVE ChrootInv'  OBVIOUS
<1> USE DEF ChrootInv
<1>1. TypeOK'
  <2>1. pc' = "idle" /\ err' \in BOOLEAN /\ root' \in {"host", "chroot"}  BY DEF Return, TypeOK
  <2>2. QED  BY <2>1, ControlType DEF Return
<1>2. Tracked'  BY TrackedFrame DEF Return
<1>3. MountsInv'  BY MountsFrame DEF Return
<1>4. CallInv'  BY DEF Return, CallInv, TypeOK
<1>5. QED  BY <1>1, <1>2, <1>3, <1>4

LEMMA PreparedInv == ChrootInv /\ Prepared => ChrootInv'
<1> SUFFICES ASSUME ChrootInv, Prepared PROVE ChrootInv'  OBVIOUS
<1> USE DEF ChrootInv
<1>1. TypeOK'
  <2>1. UNCHANGED <<mountVars, root, call, next, clean, calls, faults, start, err>>
    BY DEF Prepared
  <2>2. pc' \in {"chroot", "idle"} /\ own' \in BOOLEAN  BY DEF Prepared
  <2>3. QED  BY <2>1, <2>2 DEF TypeOK
<1>2. Tracked'  BY TrackedFrame DEF Prepared
<1>3. MountsInv'  BY MountsFrame DEF Prepared
<1>4. CallInv'  BY DEF Prepared, CallInv, TypeOK
<1>5. QED  BY <1>1, <1>2, <1>3, <1>4

LEMMA ClosedInv == ChrootInv /\ Closed => ChrootInv'
<1> SUFFICES ASSUME ChrootInv, Closed PROVE ChrootInv'  OBVIOUS
<1> USE DEF ChrootInv
<1>1. TypeOK'
  <2>1. UNCHANGED <<mounted, root, call, own, next, calls, faults, start>>  BY DEF Closed
  <2>2. activeMounts' \in Seq(Mount) /\ failures' \in Seq(Mount)  BY DEF Closed, TypeOK
  <2>3. pc' \in {"return", "idle"} /\ clean' \in BOOLEAN /\ err' \in BOOLEAN  BY DEF Closed, TypeOK
  <2>4. QED  BY <2>1, <2>2, <2>3 DEF TypeOK
<1>2. Tracked'
  <2>1. \A m : Times(m, <<>>) = {}  BY DEF Times
  <2>2. QED  BY <2>1 DEF Closed, Tracked
<1>3. MountsInv'  BY DEF Closed, MountsInv, Distinct
<1>4. CallInv'  BY DEF Closed, CallInv, TypeOK
<1>5. QED  BY <1>1, <1>2, <1>3, <1>4

LEMMA CallsInv ==
  ASSUME NEW c \in {"Prepare", "Close", "RunCallback"} PROVE ChrootInv /\ Call(c) => ChrootInv'
<1> SUFFICES ASSUME ChrootInv, Call(c) PROVE ChrootInv'  OBVIOUS
<1> USE DEF ChrootInv
<1>1. TypeOK'
  <2>1. UNCHANGED <<mountVars, root, clean, faults>>  BY DEF Call
  <2>2. /\ pc' \in {"prepare", "idle", "close", "enter"} /\ err' \in BOOLEAN /\ own' \in BOOLEAN
        /\ call' \in {"Prepare", "Close", "RunCallback"}
    BY DEF Call
  <2>3. calls' \in 0 .. MaxCalls /\ start' \in 0 .. MaxFaults
    BY ChrootAssumption DEF Call, TypeOK
  <2>4. next' \in 1 .. Len(Mounts) + 1  BY MountsType DEF Call
  <2>5. QED  BY <2>1, <2>2, <2>3, <2>4 DEF TypeOK
<1>2. Tracked'  BY TrackedFrame DEF Call
<1>3. MountsInv'
  <2>1. pc' = "prepare" => Len(activeMounts) = 0 /\ next' = 1  BY DEF Call
  <2>2. QED  BY <2>1 DEF Call, MountsInv, Distinct
<1>4. CallInv'  BY DEF Call, CallInv, TypeOK
<1>5. QED  BY <1>1, <1>2, <1>3, <1>4

\* The next mount point is none of those that are mounted.
LEMMA PrepareMountInv == ChrootInv /\ PrepareMount => ChrootInv'
<1> SUFFICES ASSUME ChrootInv, PrepareMount PROVE ChrootInv'  OBVIOUS
<1> USE DEF ChrootInv
<1> DEFINE m == Mounts[next]
           A == activeMounts
<1>1. next \in 1 .. Len(Mounts) /\ m \in Mount /\ Len(Mounts) \in Nat
  BY MountsType DEF PrepareMount, TypeOK
<1>2. /\ A \in Seq(Mount) /\ Len(A) = next - 1 /\ failures = <<>> /\ Distinct(A)
      /\ \A i \in 1 .. Len(A) : A[i] = Mounts[i]
  BY DEF PrepareMount, MountsInv, TypeOK
<1>3. Times(m, A) = {}
  <2>1. \A i \in 1 .. Len(A) : A[i] # m  BY <1>1, <1>2, MountsType DEF Distinct
  <2>2. QED  BY <2>1, Occurs
<1>4. \A p : Times(p, failures) = {}  BY <1>2, Occurs
<1>5. CASE Fails /\ UNCHANGED <<activeMounts, mounted, next>> /\ pc' = "close" /\ err' = TRUE
  <2>1. UNCHANGED <<mountVars, callVars, root>>  BY <1>5 DEF PrepareMount
  <2>2. TypeOK'  BY <1>5, <2>1, ControlType DEF TypeOK
  <2>3. Tracked'  BY <2>1, TrackedFrame
  <2>4. MountsInv'  BY <2>1, <1>2, <1>5 DEF MountsInv, Distinct
  <2>5. CallInv'  BY <2>1, <1>5 DEF CallInv, PrepareMount
  <2>6. QED  BY <2>2, <2>3, <2>4, <2>5
<1>6. CASE Succeeds /\ A' = Append(A, m) /\ mounted' = [mounted EXCEPT ![m] = @ + 1]
           /\ next' = next + 1 /\ pc' = "prepare" /\ UNCHANGED err
  <2>1. UNCHANGED <<failures, root, call, own, clean, calls, start, faults>>
    BY <1>6 DEF PrepareMount
  <2>2. /\ A' \in Seq(Mount) /\ Len(A') = Len(A) + 1 /\ A'[Len(A) + 1] = m
        /\ \A i \in 1 .. Len(A) : A'[i] = A[i]
    BY <1>1, <1>2, <1>6, AppendProperties
  <2>3. mounted[m] = 0
    <3>1. Times(m, activeMounts) \cup Times(m, failures) = {}  BY <1>3, <1>4
    <3>2. mounted[m] <= 1 /\ mounted[m] # 1  BY <3>1, <1>1 DEF Tracked
    <3>3. mounted[m] \in Nat  BY <1>1 DEF TypeOK
    <3>4. QED  BY <3>2, <3>3
  <2>4. TypeOK'
    <3>1. mounted' \in [Mount -> Nat]  BY <1>1, <1>6 DEF TypeOK
    <3>2. next' \in 1 .. Len(Mounts) + 1  BY <1>1, <1>6
    <3>3. QED  BY <2>1, <2>2, <3>1, <3>2, <1>6 DEF TypeOK
  <2>5. Tracked'
    <3>1. \A p \in Mount : Times(p, A') # {} <=> p = m \/ Times(p, A) # {}
      BY <1>1, <1>2, <1>6, AppendOccurs
    <3>2. \A p \in Mount : mounted'[p] = IF p = m THEN 1 ELSE mounted[p]
      BY <1>1, <1>6, <2>3 DEF TypeOK
    <3>3. \A p \in Mount : Times(p, failures') = {}  BY <1>4, <2>1
    <3>4. QED  BY <3>1, <3>2, <3>3, <1>4 DEF Tracked
  <2>6. MountsInv'
    <3>1. Distinct(A')  BY <1>1, <1>2, <1>3, <1>6, AppendOccurs
    <3>2. Len(A') = next' - 1 /\ \A i \in 1 .. Len(A') : A'[i] = Mounts[i]
      BY <1>1, <1>2, <1>6, <2>2
    <3>3. QED  BY <3>1, <3>2, <2>1, <1>2, <1>6 DEF MountsInv, Distinct
  <2>7. CallInv'  BY <2>1, <1>6 DEF CallInv, PrepareMount
  <2>8. QED  BY <2>4, <2>5, <2>6, <2>7
<1>7. QED  BY <1>5, <1>6 DEF PrepareMount

\* The last active mount is mounted once; it is unmounted or becomes a failure.
LEMMA CloseMountInv == ChrootInv /\ CloseMount => ChrootInv'
<1> SUFFICES ASSUME ChrootInv, CloseMount PROVE ChrootInv'  OBVIOUS
<1> USE DEF ChrootInv
<1> DEFINE m == activeMounts[Len(activeMounts)]
           A == activeMounts
           F == failures
<1>1. /\ A \in Seq(Mount) /\ F \in Seq(Mount) /\ m \in Mount /\ A' \in Seq(Mount)
      /\ Distinct(A) /\ Distinct(F) /\ A # <<>>
  BY FrontOf DEF CloseMount, TypeOK, MountsInv
<1>2. UNCHANGED <<callVars, root, pc, err>> /\ pc = "close" /\ (Succeeds \/ Fails)
  BY DEF CloseMount
<1>3. /\ \A p : Times(p, A') # {} <=> p # m /\ Times(p, A) # {}
      /\ Distinct(A') /\ Times(m, A) # {}
  BY <1>1, FrontOccurs DEF CloseMount
<1>4. Times(m, F) = {} /\ mounted[m] = 1  BY <1>1, <1>3 DEF Tracked
<1>5. CallInv'  BY <1>2 DEF CallInv
<1>6. faults' \in 0 .. MaxFaults  BY <1>2, FaultsType
<1>7. CASE mounted' = [mounted EXCEPT ![m] = @ - 1] /\ UNCHANGED failures
  <2>1. \A p \in Mount : mounted'[p] = IF p = m THEN 0 ELSE mounted[p]
    BY <1>1, <1>4, <1>7 DEF TypeOK
  <2>2. TypeOK'
    <3>1. mounted' \in [Mount -> Nat]  BY <1>1, <1>4, <1>7 DEF TypeOK
    <3>2. QED  BY <3>1, <1>1, <1>2, <1>6, <1>7 DEF TypeOK
  <2>3. Tracked'
    <3>1. \A p \in Mount : Times(p, F') = Times(p, F)  BY <1>7
    <3>2. QED  BY <3>1, <2>1, <1>3, <1>4 DEF Tracked
  <2>4. MountsInv'  BY <1>1, <1>2, <1>3, <1>7 DEF MountsInv
  <2>5. QED  BY <2>2, <2>3, <2>4, <1>5
<1>8. CASE failures' = Append(failures, m) /\ UNCHANGED mounted
  <2>1. F' \in Seq(Mount)  BY <1>1, <1>8, AppendProperties
  <2>2. (\A p : Times(p, F') # {} <=> p = m \/ Times(p, F) # {}) /\ Distinct(F')
    BY <1>1, <1>4, <1>8, AppendOccurs
  <2>3. TypeOK'  BY <2>1, <1>1, <1>2, <1>6, <1>8 DEF TypeOK
  <2>4. Tracked'  BY <2>2, <1>3, <1>4, <1>8 DEF Tracked
  <2>5. MountsInv'  BY <1>2, <1>3, <2>2 DEF MountsInv
  <2>6. QED  BY <2>3, <2>4, <2>5, <1>5
<1>9. QED  BY <1>7, <1>8 DEF CloseMount, LastMount
-----------------------------------------------------------------------------
LEMMA StepInv == ChrootInv /\ [Next]_vars => ChrootInv'
<1> SUFFICES ASSUME ChrootInv, [Next]_vars PROVE ChrootInv'  OBVIOUS
<1>1. CASE Step
  <2>1. CASE Callback  BY <2>1, CallbackInv DEF Callback
  <2>2. QED
    BY <1>1, <2>1, EnterInv, PrepareMountInv, PreparedInv, EnterRootInv, RestoreRootInv,
       CloseMountInv, ClosedInv, ReturnInv DEF Step
<1>2. CASE \E c \in {"Prepare", "Close", "RunCallback"} : Call(c)  BY <1>2, CallsInv
<1>3. CASE UNCHANGED vars
  <2>1. TypeOK'  BY <1>3 DEF vars, TypeOK, ChrootInv
  <2>2. Tracked'  BY <1>3, TrackedFrame DEF vars, ChrootInv
  <2>3. MountsInv' /\ CallInv'  BY <1>3 DEF vars, ChrootInv, MountsInv, CallInv, Distinct
  <2>4. QED  BY <2>1, <2>2, <2>3 DEF ChrootInv
<1>4. QED  BY <1>1, <1>2, <1>3 DEF Next

\* What the invariant says of a call that returns.
LEMMA InvNoLeak == ChrootInv => LeakOnlyWithError
<1> SUFFICES ASSUME ChrootInv, pc = "idle", ~err
             PROVE  /\ root = "host"
                    /\ own \/ call = "Close" => \A m \in Mount : mounted[m] = 0
  BY DEF LeakOnlyWithError
<1>1. root = "host"  BY DEF ChrootInv, CallInv, TypeOK
<1>2. ASSUME own \/ call = "Close", NEW m \in Mount PROVE mounted[m] = 0
  <2>1. activeMounts = <<>> /\ failures = <<>>  BY <1>2 DEF ChrootInv, CallInv, MountsInv
  <2>2. Times(m, activeMounts) \cup Times(m, failures) = {}  BY <2>1, Occurs
  <2>3. mounted[m] <= 1 /\ mounted[m] # 1  BY <2>2 DEF ChrootInv, Tracked
  <2>4. mounted[m] \in Nat  BY DEF ChrootInv, TypeOK
  <2>5. QED  BY <2>3, <2>4
<1>3. QED  BY <1>1, <1>2

\* A Chroot knows of every mount it left (activeMounts, pkg/utils/chroot.go), when its
\* client calls Prepare, Close and RunCallback in any order.
THEOREM ChrootTracks == Spec => []Tracked
<1>1. Spec => []ChrootInv  BY InitInv, StepInv, PTL DEF Spec
<1>2. QED  BY <1>1, PTL DEF ChrootInv
-----------------------------------------------------------------------------
(* Hooks.                                                                  *)

\* A hook on the host runs while no chroot is open.
HookInv ==
  /\ result \in BOOLEAN /\ strict \in BOOLEAN /\ inRoot \in BOOLEAN /\ failed \in BOOLEAN
  /\ ~inRoot /\ ~Free => pc = "idle" /\ root = "host" /\ activeMounts = <<>>
-----------------------------------------------------------------------------
USE DEF Succeeds, Fails, Goto, Error, mountVars, callVars

\* A hook changes nothing of the chroot but the number of calls; the one on the host
\* ends with an error of its own.
LEMMA HostHookInv ==
  ASSUME ChrootInv, UNCHANGED <<mountVars, call, own, next, clean, start, root, pc, faults>>,
         calls' \in 0 .. MaxCalls, err' \in BOOLEAN,
         err' = err \/ (root = "host" /\ activeMounts = <<>>)
  PROVE  ChrootInv'
<1> USE DEF ChrootInv
<1>1. TypeOK'  BY DEF TypeOK
<1>2. Tracked'  BY TrackedFrame
<1>3. MountsInv'  BY DEF MountsInv, Distinct
<1>4. CallInv'  BY DEF CallInv
<1>5. QED  BY <1>1, <1>2, <1>3, <1>4

LEMMA StagesStepInv == ChrootInv /\ HookInv /\ [StagesNext]_stagesVars => (ChrootInv /\ HookInv)'
<1> SUFFICES ASSUME ChrootInv, HookInv, [StagesNext]_stagesVars PROVE ChrootInv' /\ HookInv'
  OBVIOUS
<1> USE DEF HookInv, Free
<1>1. CASE ChrootSteps
  <2>1. ChrootInv'  BY <1>1, StepInv DEF ChrootSteps, Next, Step
  <2>2. pc # "idle"
    BY <1>1 DEF ChrootSteps, Enter, PrepareMount, Prepared, EnterRoot, RestoreRoot, CloseMount,
                Closed, Return, Callback, CallbackReturns
  <2>3. UNCHANGED <<result, strict, inRoot, failed, at>>  BY <1>1 DEF ChrootSteps, stageVars, hookVars
  <2>4. QED  BY <2>1, <2>2, <2>3
<1>2. CASE ChrootCall
  <2>1. ChrootInv'  BY <1>2, CallsInv DEF ChrootCall
  <2>2. QED  BY <1>2, <2>1 DEF ChrootCall
<1>3. CASE Hook
  <2>1. UNCHANGED <<mountVars, call, own, next, clean, start, root, pc, faults, err>>
    BY <1>3 DEF Hook
  <2>2. calls' \in 0 .. MaxCalls  BY <1>3, ChrootAssumption DEF Hook, ChrootInv, TypeOK
  <2>3. ChrootInv'  BY <2>1, <2>2, HostHookInv DEF ChrootInv, TypeOK
  <2>4. HookInv'  BY <1>3 DEF Hook, Begin
  <2>5. QED  BY <2>3, <2>4
<1>4. CASE ChrootHook
  <2>1. ChrootInv'  BY <1>4, CallsInv DEF ChrootHook
  <2>2. QED  BY <1>4, <2>1 DEF ChrootHook, Begin
<1>5. CASE ReturnHook
  <2>1. CASE inRoot
    <3>1. ChrootInv'  BY <1>5, <2>1, CallbackInv DEF ReturnHook
    <3>2. QED  BY <1>5, <2>1, <3>1 DEF ReturnHook
  <2>2. CASE ~inRoot
    <3>1. root = "host" /\ activeMounts = <<>> /\ err' = result  BY <1>5, <2>2 DEF ReturnHook
    <3>2. UNCHANGED <<mountVars, call, own, next, clean, start, calls, root, pc, faults>>
      BY <1>5, <2>2 DEF ReturnHook
    <3>3. calls' \in 0 .. MaxCalls  BY <3>2 DEF ChrootInv, TypeOK
    <3>4. ChrootInv'  BY <3>1, <3>2, <3>3, HostHookInv
    <3>5. QED  BY <1>5, <3>4 DEF ReturnHook
  <2>3. QED  BY <2>1, <2>2
<1>6. CASE HookStep /\ ~ReturnHook
  <2>1. UNCHANGED <<vars, strict, inRoot>>
    BY <1>6 DEF HookStep, ReadCmdLine, BeginStage, RunSource, StageRan, SetDotNotation,
                RunCmdLine, EndStage, HookSkipped, hookVars
  <2>2. ChrootInv'  BY <2>1, StepInv
  <2>3. /\ result' \in BOOLEAN /\ failed' \in BOOLEAN
        /\ at \in {"cmdline", "stage", "run", "dots"}
    BY <1>6 DEF HookStep, ReadCmdLine, BeginStage, RunSource, StageRan, SetDotNotation,
                RunCmdLine, EndStage, HookSkipped
  <2>4. QED  BY <2>1, <2>2, <2>3 DEF vars
<1>7. CASE UNCHANGED stagesVars
  <2>1. ChrootInv'  BY <1>7, StepInv DEF stagesVars
  <2>2. QED  BY <1>7, <2>1 DEF stagesVars, vars, stageVars, hookVars
<1>8. QED  BY <1>1, <1>2, <1>3, <1>4, <1>5, <1>6, <1>7 DEF StagesNext

LEMMA StagesInvariant == StagesSpec => [](ChrootInv /\ HookInv)
<1>1. StagesInit => ChrootInv /\ HookInv  BY InitInv DEF StagesInit, HookInv, Free
<1>2. QED  BY <1>1, StagesStepInv, PTL DEF StagesSpec
-----------------------------------------------------------------------------
\* The chroot environment has the types that its structure declares, after any calls.
THEOREM ChrootTypeCorrect == StagesSpec => []TypeOK
BY StagesInvariant, PTL DEF ChrootInv

\* Whatever calls fail, in whatever order Prepare, Close, RunCallback and hooks are
\* called: activeMounts is exactly what Prepare has mounted and nothing is mounted
\* twice (NewChroot and its methods, pkg/utils/chroot.go).
THEOREM MountsTracked == StagesSpec => []Tracked
BY StagesInvariant, PTL DEF ChrootInv

\* A call, or a hook, that returns without error has left neither a mount that it
\* made nor the process in the chroot (the deferred functions of RunCallback).
THEOREM LeaksReported == StagesSpec => []LeakOnlyWithError
BY StagesInvariant, InvNoLeak, PTL
-----------------------------------------------------------------------------
\* The hook of a chroot is over when its callback is, or never began.
Failing == at = "returned" /\ strict /\ failed
Opening == {"enter", "prepare", "chroot", "callback"}

\* While the mounts are made, used and closed they are the first ones of Mounts.
Prefix == Len(activeMounts) <= Len(Mounts)
          /\ \A i \in 1 .. Len(activeMounts) : activeMounts[i] = Mounts[i]

\* An error is there, or comes with the end of Close, exactly when the hook has
\* failed or a call of the chroot has; a process stuck in the chroot is such a case.
ReportInv ==
  /\ start <= faults
  /\ at \in {"none", "cmdline", "stage", "run", "dots", "done", "returned"}
  /\ at = "cmdline" => ~failed
  /\ at = "done" => (result <=> strict /\ failed)
  /\ ~inRoot /\ at = "returned" => pc = "idle" /\ (err <=> strict /\ failed)
  /\ inRoot /\ at \in {"stage", "run", "dots", "done"} => pc = "callback"
  /\ inRoot /\ at = "cmdline" => pc # "restore"
  /\ inRoot /\ at = "returned" => pc \notin Opening
  /\ inRoot /\ at # "none" =>
       /\ err \/ failures # <<>> <=> Failing \/ faults # start
       /\ root = "chroot" /\ pc \notin {"callback", "restore"} => faults # start
       /\ pc \in Opening \cup {"restore", "close"} => Prefix

\* A mount point is busy in its own root only when an unmount below it has failed.
LEMMA BusyBelow ==
  ASSUME ChrootInv, Prefix, activeMounts # <<>>, Busy(LastMount), root = "host"
  PROVE  failures # <<>>
<1> DEFINE n == Len(activeMounts)
<1>1. PICK b \in Below(LastMount) : mounted[b] > 0  BY DEF Busy
<1>2. LastMount = "dev" /\ b = "dev/pts"  BY <1>1 DEF Below
<1>3. Len(Mounts) >= 2 /\ Mounts[1] = "dev" /\ Mounts[2] = "dev/pts"
  <2> DEFINE Kernel == {"dev", "dev/pts", "proc", "sys"}
             kernel == <<"dev", "dev/pts", "proc", "sys">>
  <2>1. kernel \in Seq(STRING \cup Kernel) /\ Len(kernel) = 4
        /\ kernel[1] = "dev" /\ kernel[2] = "dev/pts"
    OBVIOUS
  <2>2. ExtraMounts \in Seq(STRING \cup Kernel)  BY ChrootAssumption, SeqMonotonic
  <2>3. Len(ExtraMounts) \in Nat  BY <2>2, LenProperties
  <2> HIDE DEF kernel
  <2>4. /\ Len(kernel \o ExtraMounts) = Len(kernel) + Len(ExtraMounts)
        /\ \A i \in 1 .. Len(kernel) + Len(ExtraMounts) :
             (kernel \o ExtraMounts)[i] = IF i <= Len(kernel) THEN kernel[i]
                                          ELSE ExtraMounts[i - Len(kernel)]
    BY <2>1, <2>2, ConcatProperties
  <2>5. Mounts = kernel \o ExtraMounts  BY DEF Mounts, kernel
  <2>6. 1 \in 1 .. Len(kernel) + Len(ExtraMounts) /\ 2 \in 1 .. Len(kernel) + Len(ExtraMounts)
    BY <2>1, <2>3
  <2>7. QED  BY <2>1, <2>3, <2>4, <2>5, <2>6
<1>4. n \in Nat \ {0} /\ activeMounts[n] = "dev"
  <2>1. activeMounts \in Seq(Mount)  BY DEF ChrootInv, TypeOK
  <2>2. n \in Nat \ {0}  BY <2>1, EmptySeq
  <2>3. QED  BY <1>2, <2>2 DEF LastMount
<1>5. n = 1
  <2>1. n \in 1 .. Len(Mounts) /\ 1 \in 1 .. Len(Mounts)
    BY <1>3, <1>4, MountsType DEF Prefix
  <2>2. Mounts[n] = Mounts[1]  BY <1>3, <1>4 DEF Prefix
  <2>3. QED  BY <2>1, <2>2, MountsType DEF Distinct
<1>6. Times(b, activeMounts) = {}  BY <1>2, <1>4, <1>5 DEF Times
<1>7. b \in Mount
  <2>1. 2 \in 1 .. Len(Mounts)  BY <1>3, MountsType
  <2>2. QED  BY <1>2, <1>3, <2>1, MountsType
<1>8. mounted[b] = 1  BY <1>1, <1>7 DEF ChrootInv, Tracked, TypeOK
<1>9. Times(b, failures) # {}  BY <1>6, <1>7, <1>8 DEF ChrootInv, Tracked
<1>10. QED  BY <1>9 DEF Times

\* The steps of the chroot around a hook: each failing call becomes an error, or an
\* entry of failures that Close will make one.
LEMMA ChrootReports ==
  ASSUME ChrootInv, HookInv, ReportInv, ChrootSteps PROVE ReportInv'
<1> USE DEF Failing, Opening
<1>1. /\ start \in Nat /\ faults \in Nat /\ err \in BOOLEAN /\ own \in BOOLEAN
      /\ strict \in BOOLEAN /\ failed \in BOOLEAN /\ start <= faults
  BY ChrootAssumption DEF ChrootInv, TypeOK, HookInv, ReportInv
<1>2. UNCHANGED <<at, strict, inRoot, failed, result, start>>
  BY DEF ChrootSteps, stageVars, hookVars, Enter, PrepareMount, Prepared, EnterRoot, RestoreRoot,
         CloseMount, Closed, Return, Callback, CallbackReturns
<1>3. start' <= faults'
  BY <1>1, <1>2 DEF ChrootSteps, Enter, PrepareMount, Prepared, EnterRoot, RestoreRoot,
                    CloseMount, Closed, Return, Callback, CallbackReturns
<1>4. pc # "idle" /\ (pc = "callback" => Free)
  BY DEF ChrootSteps, Enter, PrepareMount, Prepared, EnterRoot, RestoreRoot,
         CloseMount, Closed, Return, Callback, CallbackReturns
<1>5. CASE ~inRoot \/ at = "none"
  <2>1. at = "none"
    BY <1>4, <1>5 DEF HookInv, ReportInv, Free
  <2>2. QED  BY <1>2, <1>3, <2>1 DEF ReportInv
<1>6. CASE inRoot /\ at # "none"
  <2>1. at \in {"cmdline", "returned"} /\ pc # "callback"
    BY <1>4, <1>6 DEF ReportInv, Free
  <2>2. (at = "cmdline" => pc # "restore") /\ (at = "returned" => pc \notin Opening)
    BY <1>6 DEF ReportInv
  <2>3. (at = "cmdline" => pc' # "restore") /\ (at = "returned" => pc' \notin Opening)
    BY <2>1, <2>2
    DEF ChrootSteps, Enter, PrepareMount, Prepared, EnterRoot, RestoreRoot,
        CloseMount, Closed, Return, Callback, CallbackReturns
  <2>4. /\ err \/ failures # <<>> <=> Failing \/ faults # start
        /\ root = "chroot" /\ pc \notin {"callback", "restore"} => faults # start
        /\ pc \in Opening \cup {"restore", "close"} => Prefix
    BY <1>6 DEF ReportInv
  <2>5. root' = "chroot" /\ pc' \notin {"callback", "restore"} => faults' # start'
    BY <1>1, <1>2, <2>1, <2>4
    DEF ChrootSteps, Enter, PrepareMount, Prepared, EnterRoot, RestoreRoot,
        CloseMount, Closed, Return, Callback, CallbackReturns
  <2>6. Failing' = Failing  BY <1>2
  <2>7. err' \/ failures' # <<>> <=> Failing' \/ faults' # start'
    <3>1. CASE Fails /\ (err' = TRUE \/ failures' # <<>>)
      BY <1>1, <1>2, <3>1
    <3>2. CASE Succeeds /\ err' = err /\ failures' = failures
      BY <1>2, <2>4, <2>6, <3>2
    <3>3. CASE CloseMount
      <4>1. failures \in Seq(Mount) /\ activeMounts \in Seq(Mount) /\ activeMounts # <<>>
            /\ pc = "close" /\ err' = err
        BY <3>3 DEF CloseMount, ChrootInv, TypeOK
      <4>2. LastMount \in Mount  BY <4>1, FrontOf DEF LastMount
      <4>3. Append(failures, LastMount) # <<>>  BY <4>1, <4>2, AppendProperties
      <4>4. CASE Fails  BY <1>1, <3>1, <3>3, <4>3, <4>4 DEF CloseMount
      <4>5. CASE Succeeds /\ Busy(LastMount)
        <5>1. failures' # <<>>  BY <3>3, <4>3, <4>5 DEF CloseMount
        <5>2. CASE root = "chroot"  BY <1>2, <2>4, <4>1, <4>5, <5>1, <5>2
        <5>3. CASE root # "chroot"
          <6>1. root = "host" /\ Prefix  BY <2>4, <4>1, <5>3 DEF ChrootInv, TypeOK
          <6>2. failures # <<>>  BY <4>1, <4>5, <6>1, BusyBelow
          <6>3. QED  BY <1>2, <2>4, <2>6, <4>5, <5>1, <6>2
        <5>4. QED  BY <5>2, <5>3
      <4>6. CASE Succeeds /\ ~Busy(LastMount)
        BY <1>1, <3>2, <3>3, <4>1, <4>6 DEF CloseMount
      <4>7. QED  BY <3>3, <4>4, <4>5, <4>6 DEF CloseMount
    <3>4. CASE Closed
      <4>1. Succeeds /\ err' = (err \/ failures # <<>>) /\ failures' = <<>>
        BY <3>4 DEF Closed
      <4>2. QED  BY <1>2, <2>4, <2>6, <4>1
    <3>5. CASE Enter \/ PrepareMount \/ Prepared \/ EnterRoot \/ RestoreRoot \/ Return
      BY <3>1, <3>2, <3>5 DEF Enter, PrepareMount, Prepared, EnterRoot, RestoreRoot, Return
    <3>6. QED
      BY <2>1, <3>3, <3>4, <3>5 DEF ChrootSteps, Callback, CallbackReturns
  <2>8. pc' \in Opening \cup {"restore", "close"} => Prefix'
    <3>1. CASE PrepareMount
      <4>1. ChrootInv'  BY <3>1, StepInv DEF Next, Step
      <4>2. CASE pc' = "prepare"
        <5>1. next' - 1 <= Len(Mounts)
          BY <4>1, MountsType DEF ChrootInv, TypeOK
        <5>2. QED  BY <4>1, <4>2, <5>1 DEF ChrootInv, MountsInv, Prefix
      <4>3. CASE UNCHANGED activeMounts
        BY <2>4, <3>1, <4>3 DEF PrepareMount, Prefix
      <4>4. QED  BY <3>1, <4>2, <4>3 DEF PrepareMount
    <3>2. CASE CloseMount
      <4>1. activeMounts \in Seq(Mount) /\ activeMounts # <<>> /\ pc = "close"
            /\ activeMounts' = SubSeq(activeMounts, 1, Len(activeMounts) - 1)
        BY <3>2 DEF CloseMount, ChrootInv, TypeOK
      <4>2. /\ Len(activeMounts) \in Nat \ {0} /\ Len(activeMounts') = Len(activeMounts) - 1
            /\ \A i \in 1 .. Len(activeMounts) - 1 : activeMounts'[i] = activeMounts[i]
        BY <4>1, FrontOf
      <4>3. Prefix  BY <2>4, <4>1
      <4>4. QED  BY <4>2, <4>3, MountsType DEF Prefix
    <3>3. CASE Enter \/ Prepared \/ EnterRoot \/ RestoreRoot \/ Return
      <4>1. UNCHANGED activeMounts /\ (pc' \in Opening \cup {"restore", "close"}
                                         => pc \in Opening \cup {"restore", "close"})
        BY <3>3 DEF Enter, Prepared, EnterRoot, RestoreRoot, Return
      <4>2. QED  BY <2>4, <4>1 DEF Prefix
    <3>4. CASE Closed  BY <3>4 DEF Closed
    <3>5. QED
      BY <2>1, <3>1, <3>2, <3>3, <3>4 DEF ChrootSteps, Callback, CallbackReturns
  <2>9. QED
    BY <1>2, <1>3, <1>6, <2>1, <2>3, <2>5, <2>7, <2>8 DEF ReportInv
<1>7. QED  BY <1>5, <1>6, <1>1 DEF HookInv

\* The calls and hooks themselves: what RunStage returns is what it collected, if it
\* is strict, and that is the error of the call.
LEMMA HookReports ==
  ASSUME ChrootInv, HookInv, ReportInv, [StagesNext]_stagesVars, ~ChrootSteps PROVE ReportInv'
<1> USE DEF Failing, Opening
<1>1. /\ start \in Nat /\ faults \in Nat /\ err \in BOOLEAN
      /\ strict \in BOOLEAN /\ failed \in BOOLEAN /\ result \in BOOLEAN
  BY ChrootAssumption DEF ChrootInv, TypeOK, HookInv
<1>2. CASE ChrootCall
  BY <1>1, <1>2 DEF ChrootCall, Call, ReportInv
<1>3. CASE Hook
  BY <1>1, <1>3 DEF Hook, Begin, ReportInv
<1>4. CASE ChrootHook
  <2>1. /\ at' = "cmdline" /\ inRoot' = TRUE /\ failed' = FALSE /\ pc' = "enter"
        /\ err' = FALSE /\ start' = faults /\ faults' = faults /\ root' = "host"
        /\ failures' = failures /\ activeMounts' = <<>> /\ pc = "idle"
    BY <1>4 DEF ChrootHook, Begin, Call
  <2>2. failures' = <<>>  BY <2>1 DEF ChrootInv, MountsInv
  <2>3. Prefix'  BY <2>1, MountsType DEF Prefix
  <2>4. QED  BY <1>1, <2>1, <2>2, <2>3 DEF ReportInv
<1>5. CASE ReturnHook
  <2>1. /\ at = "done" /\ at' = "returned" /\ UNCHANGED <<strict, inRoot, failed, result>>
        /\ result <=> strict /\ failed
    BY <1>5 DEF ReturnHook, ReportInv
  <2>2. CASE inRoot
    <3>1. /\ pc = "callback" /\ pc' = "restore" /\ err' = (err \/ result)
          /\ UNCHANGED <<mountVars, start, root, faults>>
      BY <1>1, <1>5, <2>2 DEF ReturnHook, CallbackReturns
    <3>2. failures = <<>>  BY <3>1 DEF ChrootInv, MountsInv
    <3>3. (err <=> faults # start) /\ Prefix /\ start <= faults
      BY <2>1, <2>2, <3>1, <3>2 DEF ReportInv
    <3>4. Prefix'  BY <3>1, <3>3 DEF Prefix
    <3>5. QED  BY <1>1, <2>1, <2>2, <3>1, <3>2, <3>3, <3>4 DEF ReportInv
  <2>3. CASE ~inRoot
    <3>1. pc' = pc /\ err' = result /\ UNCHANGED <<start, faults>>
      BY <1>5, <2>3 DEF ReturnHook
    <3>2. pc = "idle"  BY <2>1, <2>3 DEF HookInv, Free
    <3>3. QED  BY <2>1, <2>3, <3>1, <3>2 DEF ReportInv
  <2>4. QED  BY <1>1, <2>2, <2>3
<1>6. CASE (HookStep /\ ~ReturnHook) \/ UNCHANGED stagesVars
  <2>1. UNCHANGED <<pc, err, failures, faults, start, root, activeMounts, strict, inRoot>>
    BY <1>6 DEF HookStep, ReadCmdLine, BeginStage, RunSource, StageRan, SetDotNotation,
                RunCmdLine, EndStage, HookSkipped, stagesVars, stageVars, hookVars, vars
  <2>2. \/ /\ at \in {"cmdline", "stage", "run", "dots"} /\ at' \in {"stage", "run", "dots"}
           /\ at = "cmdline" /\ inRoot => pc = "callback"
        \/ at = "dots" /\ at' = "done" /\ result' = (strict /\ failed) /\ failed' = failed
        \/ at = "cmdline" /\ inRoot /\ pc = "idle" /\ at' = "returned" /\ failed' = failed
        \/ UNCHANGED <<at, result, failed>>
    BY <1>6 DEF HookStep, ReadCmdLine, BeginStage, RunSource, StageRan, SetDotNotation,
                RunCmdLine, EndStage, HookSkipped, stagesVars, stageVars, Active
  <2>3. Prefix => Prefix'  BY <2>1 DEF Prefix
  <2>4. start' <= faults' /\ (failures' # <<>> <=> failures # <<>>)
    BY <2>1 DEF ReportInv
  <2>5. CASE /\ at \in {"cmdline", "stage", "run", "dots"} /\ at' \in {"stage", "run", "dots"}
             /\ at = "cmdline" /\ inRoot => pc = "callback"
    BY <1>1, <2>1, <2>3, <2>4, <2>5 DEF ReportInv
  <2>6. CASE at = "dots" /\ at' = "done" /\ result' = (strict /\ failed) /\ failed' = failed
    BY <1>1, <2>1, <2>3, <2>4, <2>6 DEF ReportInv
  <2>7. CASE at = "cmdline" /\ inRoot /\ pc = "idle" /\ at' = "returned" /\ failed' = failed
    BY <1>1, <2>1, <2>3, <2>4, <2>7 DEF ReportInv
  <2>8. CASE UNCHANGED <<at, result, failed>>
    BY <1>1, <2>1, <2>3, <2>4, <2>8 DEF ReportInv
  <2>9. QED  BY <2>2, <2>5, <2>6, <2>7, <2>8
<1>7. QED  BY <1>2, <1>3, <1>4, <1>5, <1>6 DEF StagesNext

LEMMA HooksBegin == StagesInit => ChrootInv /\ HookInv /\ ReportInv
<1> SUFFICES ASSUME StagesInit PROVE ChrootInv /\ HookInv /\ ReportInv  OBVIOUS
<1>1. at = "none" /\ start = 0 /\ faults = 0 /\ inRoot = FALSE
  BY DEF StagesInit, Init
<1>2. ChrootInv /\ HookInv  BY InitInv DEF StagesInit, HookInv, Free
<1>3. ReportInv  BY <1>1 DEF ReportInv
<1>4. QED  BY <1>2, <1>3

\* A strict hook that fails, and a chroot that fails around any hook, end in an
\* error, and nothing else does (Hook and ChrootHook of pkg/action/common.go).
THEOREM HooksReported == StagesSpec => []HooksReport
<1>1. ChrootInv /\ HookInv /\ ReportInv /\ [StagesNext]_stagesVars
        => (ChrootInv /\ HookInv /\ ReportInv)'
  BY StagesStepInv, ChrootReports, HookReports
<1>2. StagesSpec => [](ChrootInv /\ HookInv /\ ReportInv)
  BY HooksBegin, <1>1, PTL DEF StagesSpec
<1>3. ASSUME ChrootInv, HookInv, ReportInv, at = "returned", pc = "idle"
      PROVE  err <=> (strict /\ failed) \/ (inRoot /\ faults # start)
  <2>1. failures = <<>>  BY <1>3 DEF ChrootInv, MountsInv
  <2>2. strict \in BOOLEAN /\ failed \in BOOLEAN /\ inRoot \in BOOLEAN /\ err \in BOOLEAN
    BY <1>3 DEF HookInv, ChrootInv, TypeOK
  <2>3. inRoot => (err <=> (strict /\ failed) \/ faults # start)
    BY <1>3, <2>1 DEF ReportInv, Failing
  <2>4. ~inRoot => (err <=> strict /\ failed)  BY <1>3 DEF ReportInv
  <2>5. QED  BY <2>2, <2>3, <2>4
<1>4. ChrootInv /\ HookInv /\ ReportInv => HooksReport  BY <1>3 DEF HooksReport
<1>5. QED  BY <1>2, <1>4, PTL
-----------------------------------------------------------------------------
(* What is there of the sources.                                           *)

LEMMA NatMin ==
  ASSUME NEW T \in SUBSET Nat, T # {}
  PROVE  \E n \in T : \A m \in T : n <= m
<1>1. PICK n \in T : \A m \in T : ~(<<m, n>> \in OpToRel(<, Nat))
  BY NatLessThanWellFounded, WFMin, Zenon
<1>2. \A m \in T : ~(m < n)  BY <1>1, Zenon DEF OpToRel
<1>3. QED  BY <1>2

\* A set that holds 0 and every successor holds all numbers.
LEMMA NatSetInduction ==
  ASSUME NEW S, 0 \in S, \A n \in Nat : n \in S => n + 1 \in S
  PROVE  Nat \subseteq S
<1> DEFINE T == Nat \ S
<1> SUFFICES ASSUME T # {} PROVE FALSE  OBVIOUS
<1>1. PICK n \in T : \A m \in T : n <= m  BY NatMin
<1>2. n # 0 /\ n - 1 \in Nat /\ ~(n <= n - 1)  BY <1>1
<1>3. n - 1 \in S  BY <1>1, <1>2
<1>4. QED  BY <1>1, <1>2, <1>3

Keep(kept, uri, S) == IF uri \in S THEN Append(kept, uri) ELSE kept

\* f is the function that There takes the last value of.
Keeps(f, uris, n, S) ==
  f = [i \in 0 .. n |-> IF i = 0 THEN <<>> ELSE Keep(f[i - 1], uris[i], S)]

LEMMA KeepsExists ==
  ASSUME NEW S, NEW uris
  PROVE  \A n \in Nat : \E f : Keeps(f, uris, n, S)
<1> DEFINE Has == {n \in Nat : \E f : Keeps(f, uris, n, S)}
<1>1. 0 \in Has
  <2> DEFINE f == [i \in 0 .. 0 |-> <<>>]
  <2>1. Keeps(f, uris, 0, S)  BY DEF Keeps
  <2>2. QED  BY <2>1
<1>2. ASSUME NEW n \in Nat, n \in Has PROVE n + 1 \in Has
  <2>1. PICK f : Keeps(f, uris, n, S)  BY <1>2
  <2> DEFINE g == [i \in 0 .. n + 1 |-> IF i <= n THEN f[i] ELSE Keep(f[n], uris[n + 1], S)]
             h == [i \in 0 .. n + 1 |-> IF i = 0 THEN <<>> ELSE Keep(g[i - 1], uris[i], S)]
  <2>2. f[0] = <<>> /\ \A i \in 1 .. n : f[i] = Keep(f[i - 1], uris[i], S)
    BY <2>1 DEF Keeps
  <2>3. ASSUME NEW i \in 0 .. n + 1 PROVE g[i] = h[i]
    <3>1. CASE i = 0  BY <2>2, <3>1
    <3>2. CASE i \in 1 .. n  BY <2>2, <3>2
    <3>3. CASE i = n + 1  BY <3>3
    <3>4. QED  BY <3>1, <3>2, <3>3
  <2>4. g = h  BY <2>3
  <2>5. Keeps(g, uris, n + 1, S)  BY <2>4 DEF Keeps
  <2>6. QED  BY <2>5
<1> HIDE DEF Has
<1>3. Nat \subseteq Has  BY <1>1, <1>2, NatSetInduction
<1>4. QED  BY <1>3 DEF Has

LEMMA ThereKeeps ==
  ASSUME NEW D, NEW uris \in Seq(D), NEW locals
  PROVE  \E f : Keeps(f, uris, Len(uris), Remote \cup locals) /\ There(uris, locals) = f[Len(uris)]
<1> DEFINE S == Remote \cup locals
           f == CHOOSE f : Keeps(f, uris, Len(uris), S)
<1>1. Len(uris) \in Nat  BY LenProperties
<1>2. Keeps(f, uris, Len(uris), S)  BY <1>1, KeepsExists, Zenon
<1>3. There(uris, locals) = f[Len(uris)]  BY DEF There, Keeps, Keep
<1>4. QED  BY <1>2, <1>3

LEMMA KeepsType ==
  ASSUME NEW D, NEW n \in Nat, NEW uris \in Seq(D), n = Len(uris), NEW S, NEW f, Keeps(f, uris, n, S)
  PROVE  f[n] \in Seq(D)
<1>1. f[0] = <<>> /\ \A i \in 1 .. n : f[i] = Keep(f[i - 1], uris[i], S)  BY DEF Keeps
<1> DEFINE T == {i \in Nat : i <= n => f[i] \in Seq(D)}
<1>2. 0 \in T
  <2>1. <<>> \in Seq(D)  OBVIOUS
  <2>2. QED  BY <1>1, <2>1
<1>3. ASSUME NEW i \in Nat, i \in T PROVE i + 1 \in T
  <2>1. CASE i + 1 <= n
    <3>1. f[i] \in Seq(D) /\ uris[i + 1] \in D  BY <1>3, <2>1
    <3>2. i + 1 \in 1 .. n /\ (i + 1) - 1 = i  BY <2>1
    <3>3. f[i + 1] = Keep(f[i], uris[i + 1], S)  BY <1>1, <3>2
    <3>4. Append(f[i], uris[i + 1]) \in Seq(D)  BY <3>1, AppendProperties
    <3>5. f[i + 1] \in Seq(D)
      <4>1. PICK kept, uri : kept = f[i] /\ uri = uris[i + 1]  OBVIOUS
      <4>2. Keep(kept, uri, S) \in {kept, Append(kept, uri)}  BY Zenon DEF Keep
      <4>3. QED  BY <3>1, <3>3, <3>4, <4>1, <4>2
    <3>6. QED  BY <3>5
  <2>2. QED  BY <2>1
<1> HIDE DEF T
<1>4. Nat \subseteq T  BY <1>2, <1>3, NatSetInduction
<1>5. QED  BY <1>4 DEF T

LEMMA ThereIs ==
  ASSUME NEW D, NEW uris \in Seq(D), NEW locals
  PROVE  There(uris, locals) \in Seq(D)
<1>1. Len(uris) \in Nat  BY LenProperties
<1>2. QED  BY <1>1, ThereKeeps, KeepsType
-----------------------------------------------------------------------------
(* What a hook has run at each of its steps.                               *)

Lines == Range(Order) \X (Source \cup {CmdLine}) \X Modifier \X {"host", "chroot"}
\* What one stage runs over, and what the first ones have run.
Line(i, uri, mod) == <<Order[i], uri, mod, Here>>
StageRuns(i) == [j \in DOMAIN There(files, began[i]) |-> Line(i, There(files, began[i])[j], "none")]
Before(i) ==
  IF i = 1 THEN <<>>
  ELSE IF i = 2 THEN StageRuns(1)
  ELSE IF i = 3 THEN StageRuns(1) \o StageRuns(2) ELSE (StageRuns(1) \o StageRuns(2)) \o StageRuns(3)
Command(i) == Line(i, CmdLine, "DotNotation")
Commanded(i) ==
  IF i = 1 THEN <<>> ELSE IF i = 2 THEN <<Command(1)>>
  ELSE IF i = 3 THEN <<Command(1), Command(2)>> ELSE <<Command(1), Command(2), Command(3)>>
\* What the current stage still has to run.
Rest == [j \in DOMAIN todo |-> Line(stage, todo[j], "none")]

CompleteInv ==
  /\ files \in Seq(Source) /\ DOMAIN began = 1 .. 3
  /\ pc = "callback" => root = "chroot"
  /\ modifier = IF at = "dots" THEN "DotNotation" ELSE "none"
  /\ Free \/ at = "cmdline" => stage = 1 /\ ran = <<>>
  /\ at = "stage" => stage \in 1 .. 4 /\ ran = Before(stage)
  /\ at = "run" => /\ stage \in 1 .. 3 /\ todo \in Seq(Source)
                   /\ ran \in Seq(Lines) /\ ran \o Rest = Before(stage + 1)
  /\ at = "dots" => stage \in 1 .. 4 /\ ran = Before(4) \o Commanded(stage)
  /\ at = "done" => ran = Before(4) \o Commanded(4)

LEMMA LineIs ==
  ASSUME NEW i \in 1 .. 3, NEW uri \in Source \cup {CmdLine}, NEW mod \in Modifier
  PROVE  Line(i, uri, mod) \in Lines
<1>1. Order[i] \in Range(Order)  BY DEF Order, Range
<1>2. QED  BY <1>1 DEF Line, Lines, Here

LEMMA Mapped ==
  ASSUME NEW i \in 1 .. 3, NEW uris \in Seq(Source)
  PROVE  /\ [j \in DOMAIN uris |-> Line(i, uris[j], "none")] \in Seq(Lines)
         /\ Len([j \in DOMAIN uris |-> Line(i, uris[j], "none")]) = Len(uris)
<1>1. PICK n \in Nat : n = Len(uris) /\ DOMAIN uris = 1 .. n  BY LenProperties
<1>2. PICK f : f = [j \in 1 .. n |-> Line(i, uris[j], "none")]  OBVIOUS
<1>3. \A j \in 1 .. n : uris[j] \in Source  BY <1>1
<1>4. "none" \in Modifier  BY DEF Modifier
<1>5. \A j \in 1 .. n : f[j] \in Lines  BY <1>2, <1>3, <1>4, LineIs
<1>6. f \in [1 .. n -> Lines]  BY <1>2, <1>5
<1>7. f \in Seq(Lines)  BY <1>6, SeqDef
<1>8. Len(f) = n  BY <1>6, <1>7, LenProperties
<1>9. QED  BY <1>1, <1>2, <1>7, <1>8

LEMMA BeforeIs ==
  ASSUME files \in Seq(Source)
  PROVE  /\ \A i \in 1 .. 3 : /\ StageRuns(i) \in Seq(Lines)
                              /\ Before(i + 1) = Before(i) \o StageRuns(i)
         /\ \A i \in 1 .. 4 : Before(i) \in Seq(Lines)
<1>1. \A i \in 1 .. 3 : StageRuns(i) \in Seq(Lines)  BY ThereIs, Mapped DEF StageRuns
<1>2. PICK a, b, c : a = StageRuns(1) /\ b = StageRuns(2) /\ c = StageRuns(3)  OBVIOUS
<1>3. a \in Seq(Lines) /\ b \in Seq(Lines) /\ c \in Seq(Lines)  BY <1>1, <1>2
<1>4. a \o b \in Seq(Lines) /\ (a \o b) \o c \in Seq(Lines) /\ <<>> \o a = a
  <2>1. a \o b \in Seq(Lines)  BY <1>3, ConcatProperties
  <2>2. QED  BY <1>3, <2>1, ConcatProperties, ConcatEmptySeq
<1>5. /\ Before(1) = <<>> /\ Before(2) = a /\ Before(3) = a \o b /\ Before(4) = (a \o b) \o c
      /\ <<>> \in Seq(Lines)
  BY <1>2 DEF Before
<1>6. \A i \in 1 .. 4 : Before(i) \in Seq(Lines)
  <2> SUFFICES ASSUME NEW i \in 1 .. 4 PROVE Before(i) \in Seq(Lines)  OBVIOUS
  <2>1. i = 1 \/ i = 2 \/ i = 3 \/ i = 4  OBVIOUS
  <2>2. QED  BY <1>3, <1>4, <1>5, <2>1
<1>7. \A i \in 1 .. 3 : Before(i + 1) = Before(i) \o StageRuns(i)
  <2> SUFFICES ASSUME NEW i \in 1 .. 3 PROVE Before(i + 1) = Before(i) \o StageRuns(i)  OBVIOUS
  <2>1. CASE i = 1  BY <1>2, <1>4, <1>5, <2>1
  <2>2. CASE i = 2  BY <1>2, <1>5, <2>2
  <2>3. CASE i = 3
    <3>1. i + 1 = 4 /\ Before(i) = a \o b /\ StageRuns(i) = c  BY <1>2, <1>5, <2>3
    <3>2. QED  BY <1>5, <3>1
  <2>4. QED  BY <2>1, <2>2, <2>3
<1>8. QED  BY <1>1, <1>6, <1>7

\* What was run stays what it was while the files and the root are the same.
LEMMA BeforeSame ==
  ASSUME UNCHANGED <<files, inRoot>>, NEW i \in 1 .. 4, \A j \in 1 .. 3 : j < i => began'[j] = began[j]
  PROVE  Before(i)' = Before(i)
<1>1. \A j \in 1 .. 3 : j < i => StageRuns(j)' = StageRuns(j)
  <2> SUFFICES ASSUME NEW j \in 1 .. 3, j < i PROVE StageRuns(j)' = StageRuns(j)  OBVIOUS
  <2>1. began'[j] = began[j] /\ Here' = Here  BY DEF Here
  <2>2. QED  BY <2>1 DEF StageRuns, Line
<1>2. i > 1 => StageRuns(1)' = StageRuns(1)  BY <1>1
<1>3. i > 2 => StageRuns(2)' = StageRuns(2)  BY <1>1
<1>4. i > 3 => StageRuns(3)' = StageRuns(3)  BY <1>1
<1>5. i = 1 \/ i = 2 \/ i = 3 \/ i = 4  OBVIOUS
<1>6. QED  BY <1>2, <1>3, <1>4, <1>5 DEF Before

LEMMA InItsRoot ==
  ASSUME HookInv, ReportInv, CompleteInv, at \in {"stage", "run", "dots"} \/ (at = "cmdline" /\ Active)
  PROVE  root = Here
<1>1. CASE inRoot  BY <1>1 DEF ReportInv, CompleteInv, Here, Active
<1>2. CASE ~inRoot  BY <1>2 DEF HookInv, Free, Here
<1>3. QED  BY <1>1, <1>2

LEMMA RootOfCallback ==
  ASSUME HookInv, CompleteInv, [StagesNext]_stagesVars
  PROVE  pc' = "callback" => root' = "chroot"
<1>0. pc = "callback" => root = "chroot"  BY DEF CompleteInv
<1>1. CASE ChrootSteps
  <2> USE DEF Goto, Error
  <2>1. CASE EnterRoot  BY <2>1 DEF EnterRoot
  <2>2. CASE Enter \/ PrepareMount \/ Prepared  BY <2>2 DEF Enter, PrepareMount, Prepared
  <2>3. CASE RestoreRoot  BY <2>3 DEF RestoreRoot
  <2>4. CASE CloseMount \/ Closed \/ Return  BY <1>0, <2>4 DEF CloseMount, Closed, Return
  <2>5. CASE Callback  BY <2>5 DEF Callback, CallbackReturns
  <2>6. QED  BY <1>1, <2>1, <2>2, <2>3, <2>4, <2>5 DEF ChrootSteps
<1>2. CASE ChrootCall \/ ChrootHook  BY <1>2 DEF ChrootCall, ChrootHook, Call
<1>3. CASE Hook  BY <1>0, <1>3 DEF Hook
<1>4. CASE ReturnHook  BY <1>0, <1>4 DEF ReturnHook, CallbackReturns
<1>5. CASE (HookStep /\ ~ReturnHook) \/ UNCHANGED stagesVars
  BY <1>0, <1>5 DEF HookStep, ReadCmdLine, BeginStage, RunSource, StageRan, SetDotNotation,
                    RunCmdLine, EndStage, HookSkipped, stagesVars, vars
<1>6. QED  BY <1>1, <1>2, <1>3, <1>4, <1>5 DEF StagesNext

\* A stage begins with all that is there at that moment to be run.
LEMMA StageBegins ==
  ASSUME HookInv, ReportInv, CompleteInv, BeginStage
  PROVE  CompleteInv'
<1>1. /\ at = "stage" /\ stage \in 1 .. 3 /\ at' = "run" /\ ran = Before(stage)
      /\ todo' = There(files, present[Here]) /\ began' = [began EXCEPT ![stage] = present[Here]]
      /\ UNCHANGED <<pc, root, files, inRoot, stage, modifier, ran>>
      /\ files \in Seq(Source) /\ DOMAIN began = 1 .. 3 /\ modifier = "none"
  BY DEF BeginStage, CompleteInv, vars, hookVars
<1>2. /\ DOMAIN began' = 1 .. 3 /\ began'[stage] = present[Here]
      /\ \A j \in 1 .. 3 : j < stage => began'[j] = began[j]
  BY <1>1
<1>3. todo' \in Seq(Source)  BY <1>1, ThereIs
<1>4. Rest' = StageRuns(stage)'  BY <1>1, <1>2 DEF Rest, StageRuns
<1>5. Before(stage)' = Before(stage)  BY <1>1, <1>2, BeforeSame
<1>6. Before(stage + 1)' = Before(stage)' \o StageRuns(stage)'
  <2>1. PICK runs : runs = [j \in DOMAIN todo' |-> Line(stage, todo'[j], "none")]  OBVIOUS
  <2>2. runs \in Seq(Lines)  BY <1>1, <1>3, <2>1, Mapped
  <2>3. Rest' = runs  BY <1>1, <2>1 DEF Rest, Line, Here
  <2>4. StageRuns(stage)' = runs  BY <1>4, <2>3
  <2>5. <<>> \o runs = runs  BY <2>2, ConcatEmptySeq
  <2>6. CASE stage = 1
    <3>1. Before(stage)' = <<>> /\ Before(stage + 1)' = StageRuns(stage)'  BY <1>1, <2>6 DEF Before
    <3>2. QED  BY <2>4, <2>5, <3>1
  <2>7. CASE stage = 2
    <3>1. Before(stage)' = StageRuns(1)' /\ Before(stage + 1)' = StageRuns(1)' \o StageRuns(stage)'
      BY <1>1, <2>7 DEF Before
    <3>2. QED  BY <3>1
  <2>8. CASE stage = 3
    <3>1. /\ Before(stage)' = StageRuns(1)' \o StageRuns(2)'
          /\ Before(stage + 1)' = (StageRuns(1)' \o StageRuns(2)') \o StageRuns(stage)'
      BY <1>1, <2>8 DEF Before
    <3>2. QED  BY <3>1
  <2>9. QED  BY <1>1, <2>6, <2>7, <2>8
<1>7. ran' \in Seq(Lines)  BY <1>1, BeforeIs
<1>8. QED  BY <1>1, <1>2, <1>3, <1>4, <1>5, <1>6, <1>7 DEF CompleteInv, Free

LEMMA Prepended ==
  ASSUME NEW D, NEW e \in D, NEW n \in Nat, NEW tail \in Seq(D), Len(tail) = n,
         NEW all \in Seq(D), Len(all) = n + 1, all[1] = e, \A j \in 1 .. n : all[j + 1] = tail[j]
  PROVE  all = <<e>> \o tail
<1>1. PICK one : one = <<e>>  OBVIOUS
<1>2. one \in Seq(D) /\ Len(one) = 1 /\ one[1] = e  BY <1>1
<1> DEFINE both == one \o tail
<1>3. one \in Seq(D) /\ tail \in Seq(D)  BY <1>2
<1>4. /\ both \in Seq(D) /\ Len(both) = Len(one) + Len(tail)
      /\ \A i \in 1 .. Len(one) + Len(tail) : both[i] = IF i <= Len(one) THEN one[i] ELSE tail[i - Len(one)]
  BY ONLY <1>3, ConcatProperties
<1> HIDE DEF both
<1>5. Len(one) + Len(tail) = n + 1  BY <1>2
<1>6. ASSUME NEW i \in 1 .. n + 1 PROVE all[i] = both[i]
  <2>1. both[i] = IF i <= 1 THEN one[i] ELSE tail[i - 1]  BY <1>2, <1>4, <1>5
  <2>2. CASE i = 1  BY <1>2, <2>1, <2>2
  <2>3. CASE i > 1
    <3>1. i - 1 \in 1 .. n /\ (i - 1) + 1 = i  BY <2>3
    <3>2. all[i] = tail[i - 1]  BY <3>1
    <3>3. QED  BY <2>1, <2>3, <3>2
  <2>4. QED  BY <2>2, <2>3
<1>7. all = both  BY <1>4, <1>5, <1>6, SeqEqual
<1>8. QED  BY <1>1, <1>7 DEF both

LEMMA MovedOn ==
  ASSUME NEW D, NEW e \in D, NEW s \in Seq(D), NEW t \in Seq(D)
  PROVE  Append(s, e) \o t = s \o (<<e>> \o t)
<1>1. PICK one : one = <<e>>  OBVIOUS
<1>2. one \in Seq(D)  BY <1>1
<1>3. Append(s, e) = s \o one  BY <1>1, AppendIsConcat
<1>4. (s \o one) \o t = s \o (one \o t)  BY <1>2, ConcatAssociative
<1>5. QED  BY <1>1, <1>3, <1>4

\* The sources have their turn one by one.
LEMMA SourceRuns ==
  ASSUME HookInv, ReportInv, CompleteInv, RunSource
  PROVE  CompleteInv'
<1>1. /\ at = "run" /\ stage \in 1 .. 3 /\ todo \in Seq(Source) /\ todo # <<>> /\ modifier = "none"
      /\ ran \in Seq(Lines) /\ ran \o Rest = Before(stage + 1) /\ files \in Seq(Source)
      /\ ran' = Append(ran, Entry(Head(todo))) /\ todo' = Tail(todo)
      /\ UNCHANGED <<at, pc, root, files, inRoot, stage, modifier, began>>
  BY DEF RunSource, CompleteInv, vars, hookVars
<1>2. PICK e : e = Line(stage, Head(todo), "none")  OBVIOUS
<1>3. Entry(Head(todo)) = e  BY <1>1, <1>2, InItsRoot DEF Entry, Line
<1>4. Head(todo) \in Source /\ Tail(todo) \in Seq(Source)  BY <1>1
<1>5. e \in Lines  BY <1>1, <1>2, <1>4, LineIs DEF Modifier
<1>6. PICK rest, tail : /\ rest = [j \in DOMAIN todo |-> Line(stage, todo[j], "none")]
                        /\ tail = [j \in DOMAIN Tail(todo) |-> Line(stage, Tail(todo)[j], "none")]
  OBVIOUS
<1>7. rest \in Seq(Lines) /\ tail \in Seq(Lines) /\ Len(rest) = Len(todo) /\ Len(tail) = Len(Tail(todo))
  BY <1>1, <1>4, <1>6, Mapped
<1>8. rest = <<e>> \o tail
  <2>1. PICK n \in Nat : n = Len(Tail(todo)) /\ Len(todo) = n + 1
    <3>1. Len(Tail(todo)) = Len(todo) - 1 /\ Len(todo) \in Nat /\ Len(Tail(todo)) \in Nat
      BY <1>1, <1>4, HeadTailProperties, LenProperties
    <3>2. QED  BY <3>1
  <2>2. \A j \in 1 .. n : Tail(todo)[j] = todo[j + 1]  BY <1>1, <2>1
  <2>3. rest[1] = e  BY <1>1, <1>2, <1>6, <2>1
  <2>4. \A j \in 1 .. n : rest[j + 1] = tail[j]
    <3> SUFFICES ASSUME NEW j \in 1 .. n PROVE rest[j + 1] = tail[j]  OBVIOUS
    <3>1. j + 1 \in DOMAIN todo /\ j \in DOMAIN Tail(todo)  BY <1>1, <1>4, <2>1
    <3>2. QED  BY <1>6, <2>2, <3>1
  <2>5. QED
    <3>1. Len(rest) = n + 1 /\ Len(tail) = n  BY <1>7, <2>1
    <3>2. QED  BY <1>5, <1>7, <2>3, <2>4, <3>1, Prepended
<1>9. ran' = Append(ran, e) /\ ran' \in Seq(Lines)  BY <1>1, <1>3, <1>5, AppendProperties
<1>10. ran' \o tail = ran \o rest
  <2>1. e \in Lines /\ ran \in Seq(Lines) /\ tail \in Seq(Lines)  BY <1>1, <1>5, <1>7
  <2>2. Append(ran, e) \o tail = ran \o (<<e>> \o tail)  BY ONLY <2>1, MovedOn, SMTT(20)
  <2>3. QED  BY <1>8, <1>9, <2>2, Zenon
<1>11. Rest = rest /\ Rest' = tail  BY <1>1, <1>6 DEF Rest, Line, Here
<1>12. Before(stage + 1)' = Before(stage + 1)
  <2>1. stage + 1 \in 1 .. 4  BY <1>1
  <2>2. PICK i \in 1 .. 4 : i = stage + 1 /\ Before(i)' = Before(i)  BY <1>1, <2>1, BeforeSame
  <2>3. stage' + 1 = i  BY <1>1, <2>2
  <2>4. QED  BY <2>2, <2>3
<1>13. QED  BY <1>1, <1>4, <1>9, <1>10, <1>11, <1>12 DEF CompleteInv, Free

LEMMA AppendMoved ==
  ASSUME NEW D, NEW e \in D, NEW s \in Seq(D), NEW t \in Seq(D)
  PROVE  Append(s \o t, e) = s \o Append(t, e) /\ s \o <<>> = s
<1>1. PICK one : one = <<e>>  OBVIOUS
<1>2. one \in Seq(D) /\ s \o t \in Seq(D)  BY <1>1, ConcatProperties
<1>3. Append(s \o t, e) = (s \o t) \o one /\ Append(t, e) = t \o one  BY <1>1, <1>2, AppendIsConcat
<1>4. (s \o t) \o one = s \o (t \o one)  BY <1>2, ConcatAssociative
<1>5. s \o <<>> = s  BY ConcatEmptySeq
<1>6. QED  BY <1>3, <1>4, <1>5

LEMMA StageEnds ==
  ASSUME HookInv, ReportInv, CompleteInv, StageRan
  PROVE  CompleteInv'
<1>1. /\ at = "run" /\ stage \in 1 .. 3 /\ todo = <<>> /\ modifier = "none" /\ files \in Seq(Source)
      /\ ran \in Seq(Lines) /\ ran \o Rest = Before(stage + 1)
      /\ DOMAIN began = 1 .. 3 /\ (pc = "callback" => root = "chroot")
      /\ stage' = stage + 1 /\ at' = "stage" /\ UNCHANGED <<pc, root, files, inRoot, modifier, ran, began>>
  BY DEF StageRan, CompleteInv, vars, hookVars
<1>2. Rest = <<>>  BY <1>1 DEF Rest
<1>3. ran = Before(stage + 1)  BY <1>1, <1>2, ConcatEmptySeq
<1>4. PICK i \in 1 .. 4 : i = stage + 1 /\ Before(i)' = Before(i)
  <2>1. stage + 1 \in 1 .. 4  BY <1>1
  <2>2. QED  BY <1>1, <2>1, BeforeSame
<1>5. stage' = i /\ ran' = Before(i)'  BY <1>1, <1>3, <1>4
<1>6. QED  BY <1>1, <1>5 DEF CompleteInv, Free

LEMMA DotsBegin ==
  ASSUME HookInv, ReportInv, CompleteInv, SetDotNotation
  PROVE  CompleteInv'
<1>1. /\ at = "stage" /\ stage = 4 /\ ran = Before(4) /\ files \in Seq(Source)
      /\ DOMAIN began = 1 .. 3 /\ (pc = "callback" => root = "chroot")
      /\ stage' = 1 /\ at' = "dots" /\ modifier' = "DotNotation"
      /\ UNCHANGED <<pc, root, files, inRoot, ran, began>>
  BY DEF SetDotNotation, CompleteInv, vars, hookVars
<1>2. Before(4)' = Before(4)  BY <1>1, BeforeSame
<1>3. Before(4) \o <<>> = Before(4)  BY <1>1, BeforeIs, ConcatEmptySeq
<1>4. Commanded(stage)' = <<>>  BY <1>1 DEF Commanded
<1>5. ran' = Before(4)' \o Commanded(stage)'  BY <1>1, <1>2, <1>3, <1>4
<1>6. QED  BY <1>1, <1>5 DEF CompleteInv, Free

\* The command line adds its line.
LEMMA CommandRuns ==
  ASSUME HookInv, ReportInv, CompleteInv, RunCmdLine
  PROVE  CompleteInv'
<1>1. /\ at = "dots" /\ stage \in 1 .. 3 /\ ran = Before(4) \o Commanded(stage) /\ files \in Seq(Source)
      /\ DOMAIN began = 1 .. 3 /\ (pc = "callback" => root = "chroot") /\ modifier = "DotNotation"
      /\ ran' = Append(ran, Entry(CmdLine)) /\ stage' = stage + 1
      /\ UNCHANGED <<at, pc, root, files, inRoot, modifier, began>>
  BY DEF RunCmdLine, CompleteInv, vars, hookVars
<1>2. PICK c : c = Command(stage)  OBVIOUS
<1>3. Entry(CmdLine) = c  BY <1>1, <1>2, InItsRoot DEF Entry, Command, Line
<1>4. \A i \in 1 .. 3 : Command(i) \in Lines  BY LineIs DEF Command, Modifier
<1>5. Commanded(stage) \in Seq(Lines) /\ Commanded(stage + 1) = Append(Commanded(stage), c)
  <2>1. CASE stage = 1
    <3>1. Commanded(stage) = <<>> /\ Commanded(stage + 1) = <<c>>  BY <1>2, <2>1 DEF Commanded
    <3>2. QED  BY <3>1
  <2>2. CASE stage = 2
    <3>1. PICK a : a = Command(1)  OBVIOUS
    <3>2. Commanded(stage) = <<a>> /\ Commanded(stage + 1) = <<a, c>>  BY <1>2, <2>2, <3>1 DEF Commanded
    <3>3. a \in Lines  BY <1>4, <3>1
    <3>4. QED  BY <3>2, <3>3
  <2>3. CASE stage = 3
    <3>1. PICK a, b : a = Command(1) /\ b = Command(2)  OBVIOUS
    <3>2. Commanded(stage) = <<a, b>> /\ Commanded(stage + 1) = <<a, b, c>>
      BY <1>2, <2>3, <3>1 DEF Commanded
    <3>3. a \in Lines /\ b \in Lines  BY <1>4, <3>1
    <3>4. QED  BY <3>2, <3>3
  <2>4. QED  BY <1>1, <2>1, <2>2, <2>3
<1>6. Before(4) \in Seq(Lines) /\ c \in Lines
  <2>1. files \in Seq(Source)  BY <1>1
  <2>2. \A i \in 1 .. 4 : Before(i) \in Seq(Lines)  BY ONLY <2>1, BeforeIs
  <2>3. Before(4) \in Seq(Lines)  BY ONLY <2>2
  <2>4. c \in Lines  BY <1>1, <1>2, <1>4
  <2>5. QED  BY <2>3, <2>4
<1>7. ran' = Before(4) \o Commanded(stage + 1)
  <2>1. PICK s, t : s = Before(4) /\ t = Commanded(stage)  OBVIOUS
  <2>2. s \in Seq(Lines) /\ t \in Seq(Lines) /\ c \in Lines  BY <1>5, <1>6, <2>1
  <2>3. Append(s \o t, c) = s \o Append(t, c)  BY ONLY <2>2, AppendMoved, ZenonT(60)
  <2>4. QED  BY <1>1, <1>3, <1>5, <2>1, <2>3
<1>8. Before(4)' = Before(4)  BY <1>1, BeforeSame
<1>9. Commanded(stage)' = Commanded(stage + 1)  BY <1>1 DEF Commanded, Command, Line, Here
<1>10. ran' = Before(4)' \o Commanded(stage)' /\ stage' \in 1 .. 4
  <2>1. stage' \in 1 .. 4  BY <1>1
  <2>2. ran' = Before(4)' \o Commanded(stage)'  BY <1>7, <1>8, <1>9, Zenon
  <2>3. QED  BY <2>1, <2>2
<1>11. QED  BY <1>1, <1>10 DEF CompleteInv, Free

LEMMA HookEnds ==
  ASSUME CompleteInv, EndStage
  PROVE  CompleteInv'
<1>1. /\ at = "dots" /\ stage = 4 /\ ran = Before(4) \o Commanded(4) /\ files \in Seq(Source)
      /\ DOMAIN began = 1 .. 3 /\ (pc = "callback" => root = "chroot")
      /\ modifier' = "none" /\ at' = "done"
      /\ UNCHANGED <<pc, root, files, inRoot, ran, began>>
  BY DEF EndStage, CompleteInv, vars, hookVars
<1>2. Before(4)' = Before(4)  BY <1>1, BeforeSame
<1>3. Commanded(4)' = Commanded(4)  BY <1>1 DEF Commanded, Command, Line, Here
<1>4. QED  BY <1>1, <1>2, <1>3 DEF CompleteInv, Free

\* A hook begins, is over or was skipped: it has run nothing.
LEMMA NothingRun ==
  ASSUME at' \in {"none", "cmdline", "returned"}, stage' = 1, ran' = <<>>, modifier' = "none",
         files' \in Seq(Source), DOMAIN began' = 1 .. 3, pc' = "callback" => root' = "chroot"
  PROVE  CompleteInv'
BY DEF CompleteInv, Free

LEMMA PathsAreSources == Paths \in Seq(Source)
<1>1. Range(Paths) \subseteq Source  BY DEF Source
<1>2. QED  BY <1>1, StagesAssumption, SeqMonotonic

LEMMA CompleteStep ==
  ASSUME HookInv, ReportInv, CompleteInv, [StagesNext]_stagesVars
  PROVE  CompleteInv'
<1>1. pc' = "callback" => root' = "chroot"  BY RootOfCallback
<1>2. Free \/ at = "cmdline" => /\ stage = 1 /\ ran = <<>> /\ modifier = "none"
                                /\ files \in Seq(Source) /\ DOMAIN began = 1 .. 3
  BY DEF CompleteInv, Free
<1>3. CASE ChrootSteps \/ UNCHANGED stagesVars
  <2>1. UNCHANGED <<at, files, inRoot, stage, todo, modifier, ran, began>>
    BY <1>3 DEF ChrootSteps, stagesVars, stageVars, hookVars, loopVars
  <2>2. /\ \A i \in 1 .. 4 : Before(i)' = Before(i) /\ Commanded(i)' = Commanded(i)
        /\ Rest' = Rest
    BY <2>1 DEF Before, StageRuns, Commanded, Command, Rest, Line, Here
  <2>3. \A i \in 1 .. 3 : i + 1 \in 1 .. 4  OBVIOUS
  <2>4. /\ files' \in Seq(Source) /\ DOMAIN began' = 1 .. 3
        /\ modifier' = IF at' = "dots" THEN "DotNotation" ELSE "none"
    BY <2>1 DEF CompleteInv
  <2>5. (Free \/ at = "cmdline")' => stage' = 1 /\ ran' = <<>>
    BY <1>2, <2>1 DEF Free
  <2>6. at' = "stage" => stage' \in 1 .. 4 /\ ran' = Before(stage)'
    <3> SUFFICES ASSUME at' = "stage" PROVE stage' \in 1 .. 4 /\ ran' = Before(stage)'  OBVIOUS
    <3>1. stage \in 1 .. 4 /\ ran = Before(stage)  BY <2>1 DEF CompleteInv
    <3>2. Before(stage)' = Before(stage)  BY <2>1, <2>2, <3>1
    <3>3. QED  BY <2>1, <3>1, <3>2
  <2>7. at' = "run" => /\ stage' \in 1 .. 3 /\ todo' \in Seq(Source)
                       /\ ran' \in Seq(Lines) /\ ran' \o Rest' = Before(stage + 1)'
    <3> SUFFICES ASSUME at' = "run"
                 PROVE  /\ stage' \in 1 .. 3 /\ todo' \in Seq(Source)
                        /\ ran' \in Seq(Lines) /\ ran' \o Rest' = Before(stage + 1)'
      OBVIOUS
    <3>1. /\ stage \in 1 .. 3 /\ todo \in Seq(Source)
          /\ ran \in Seq(Lines) /\ ran \o Rest = Before(stage + 1)
      BY <2>1 DEF CompleteInv
    <3>2. PICK i \in 1 .. 4 : i = stage + 1  BY <2>3, <3>1
    <3>3. Before(stage + 1)' = Before(i)'  BY <2>1, <3>2
    <3>4. Before(stage + 1)' = Before(stage + 1)  BY <2>2, <3>2, <3>3
    <3>5. QED  BY <2>1, <2>2, <3>1, <3>4
  <2>8. at' = "dots" => stage' \in 1 .. 4 /\ ran' = Before(4)' \o Commanded(stage)'
    <3> SUFFICES ASSUME at' = "dots"
                 PROVE  stage' \in 1 .. 4 /\ ran' = Before(4)' \o Commanded(stage)'
      OBVIOUS
    <3>1. stage \in 1 .. 4 /\ ran = Before(4) \o Commanded(stage)  BY <2>1 DEF CompleteInv
    <3>2. Commanded(stage)' = Commanded(stage)  BY <2>1, <2>2, <3>1
    <3>3. QED  BY <2>1, <2>2, <3>1, <3>2
  <2>9. at' = "done" => ran' = Before(4)' \o Commanded(4)'
    BY <2>1, <2>2 DEF CompleteInv
  <2>10. QED  BY <1>1, <2>4, <2>5, <2>6, <2>7, <2>8, <2>9 DEF CompleteInv
<1>4. CASE ChrootCall
  <2>1. at' = "none" /\ Free /\ UNCHANGED <<files, stage, modifier, ran, began>>
    BY <1>4 DEF ChrootCall, loopVars
  <2>2. QED  BY <1>1, <1>2, <2>1, NothingRun
<1>5. CASE Hook \/ ChrootHook
  <2>1. /\ at' = "cmdline" /\ Free /\ files' = Paths /\ stage' = 1 /\ ran' = <<>>
        /\ began' = [i \in 1 .. 3 |-> {}] /\ modifier' = modifier
    BY <1>5 DEF Hook, ChrootHook, Begin, Locals
  <2>2. QED  BY <1>1, <1>2, <2>1, NothingRun, PathsAreSources
<1>6. CASE ReadCmdLine
  <2>1. /\ at = "cmdline" /\ at' = "stage" /\ UNCHANGED <<stage, modifier, ran, began>>
        /\ files' = files \/ \E uri \in SetupURIs : files' = Append(Paths, uri)
    BY <1>6 DEF ReadCmdLine, loopVars
  <2>2. files' \in Seq(Source)  BY <1>2, <2>1, PathsAreSources, AppendProperties DEF Source
  <2>3. Before(stage)' = <<>>  BY <1>2, <2>1 DEF Before
  <2>4. QED  BY <1>1, <1>2, <2>1, <2>2, <2>3 DEF CompleteInv, Free
<1>7. CASE ReturnHook
  <2>1. /\ at = "done" /\ at' = "returned" /\ files' = Paths /\ stage' = 1 /\ ran' = <<>>
        /\ began' = [i \in 1 .. 3 |-> {}] /\ modifier' = modifier
    BY <1>7 DEF ReturnHook, Locals
  <2>2. modifier = "none"  BY <2>1 DEF CompleteInv
  <2>3. QED  BY <1>1, <2>1, <2>2, NothingRun, PathsAreSources
<1>8. CASE HookSkipped
  <2>1. at = "cmdline" /\ at' = "returned" /\ UNCHANGED <<files, stage, modifier, ran, began>>
    BY <1>8 DEF HookSkipped, hookVars, loopVars
  <2>2. QED  BY <1>1, <1>2, <2>1, NothingRun
<1>9. CASE BeginStage \/ RunSource \/ StageRan \/ SetDotNotation \/ RunCmdLine \/ EndStage
  BY <1>9, StageBegins, SourceRuns, StageEnds, DotsBegin, CommandRuns, HookEnds
<1>10. QED  BY <1>3, <1>4, <1>5, <1>6, <1>7, <1>8, <1>9 DEF StagesNext, HookStep

\* A hook that ends has run each stage over all that was there when it began, and
\* then over the command line, whatever failed in it and whatever hooks ran before.
THEOREM StagesCompleteAll == StagesSpec => []StagesComplete
<1>1. StagesInit => CompleteInv
  BY PathsAreSources DEF CompleteInv, StagesInit, Init, Free
<1>2. ChrootInv /\ HookInv /\ ReportInv /\ CompleteInv /\ [StagesNext]_stagesVars
        => (ChrootInv /\ HookInv /\ ReportInv /\ CompleteInv)'
  BY StagesStepInv, ChrootReports, HookReports, CompleteStep
<1>3. CompleteInv => StagesComplete
  <2>1. Before(4) = (StageRuns(1) \o StageRuns(2)) \o StageRuns(3)  BY DEF Before
  <2>2. Commanded(4) = <<Command(1), Command(2), Command(3)>>  BY DEF Commanded
  <2>3. QED  BY <2>1, <2>2, Zenon DEF CompleteInv, StagesComplete, StageRuns, Command, Line
<1>4. QED  BY HooksBegin, <1>1, <1>2, <1>3, PTL DEF StagesSpec
-----------------------------------------------------------------------------
(* Builds.                                                                 *)

USE DEF treeVars, fileVars, hostVars, runVars, chrootVars, mountVars, callVars

\* The checksum is that of an earlier build until this one writes its own, and it
\* does so for the ISO that xorriso has just written.
ChecksumInv ==
  /\ builds \in Nat /\ sha256 \in Nat /\ sha256 <= builds
  /\ bpc \notin {"ready", "cleanup", "done"} => sha256 < builds
  /\ bpc \in {"checksum", "writeSum"} => output.build = builds /\ output.whole
  /\ VerifiedISOWhole

\* Steps that touch neither the ISO nor its checksum: all but four.
LEMMA ChecksumFrame ==
  ASSUME ChecksumInv, UNCHANGED <<output, sha256, builds>>,
         \/ bpc' \in {"cleanup", "done"} \/ bpc' = bpc
         \/ bpc \notin {"ready", "cleanup", "done"} /\ bpc' \notin {"checksum", "writeSum"}
  PROVE  ChecksumInv'
BY DEF ChecksumInv, VerifiedISOWhole

LEMMA ChecksumStep == ChecksumInv /\ [BuildNext]_allVars => ChecksumInv'
<1> SUFFICES ASSUME ChecksumInv, [BuildNext]_allVars PROVE ChecksumInv'  OBVIOUS
<1> USE DEF Move, Leave
<1>1. CASE \E s \in Specs : StartBuild(s)
  BY <1>1 DEF StartBuild, ChecksumInv, VerifiedISOWhole
<1>2. CASE RemoveOutput
  BY <1>2 DEF RemoveOutput, ChecksumInv, VerifiedISOWhole, NoISO
<1>3. CASE Xorriso
  BY <1>3 DEF Xorriso, ChecksumInv, VerifiedISOWhole, NoISO, Burnt
<1>4. CASE Checksum
  BY <1>4 DEF Checksum, ChecksumInv, VerifiedISOWhole
<1>5. CASE WriteSum
  BY <1>5 DEF WriteSum, ChecksumInv, VerifiedISOWhole
<1>6. CASE TempDir  BY <1>6, ChecksumFrame DEF TempDir
<1>7. ASSUME NEW from, NEW d, NEW parts, NEW after, NEW failure, Put(from, d, parts, after, failure),
             from \notin {"ready", "cleanup", "done"}, after \notin {"checksum", "writeSum"}
      PROVE  ChecksumInv'
  BY <1>7, ChecksumFrame DEF Put
<1>8. CASE Dirs \/ Structure \/ Loaders \/ GrubCfg
  BY <1>7, <1>8 DEF Dirs, Structure, Loaders, GrubCfg
<1>9. ASSUME NEW from, NEW d, NEW after, NEW failure, PrepareEFI(from, d, after, failure),
             from \notin {"ready", "cleanup", "done"}, after \notin {"checksum", "writeSum"}
      PROVE  ChecksumInv'
  BY <1>7, <1>9, ChecksumFrame DEF PrepareEFI
<1>10. CASE EFILoader \/ EFIFiles
  BY <1>9, <1>10 DEF EFILoader, EFIFiles
<1>11. CASE ISORoot
  BY <1>7, <1>11, ChecksumFrame DEF ISORoot
<1>12. CASE \E d \in Dir : ApplySource(d) \/ SourcesApplied(d)
  BY <1>12, ChecksumFrame DEF ApplySource, SourcesApplied, Dir
<1>13. CASE ISOLoader \/ EnterChroot \/ LeaveChroot
  BY <1>13, ChecksumFrame DEF ISOLoader, EnterChroot, LeaveChroot, InChroot
<1>14. CASE ChrootStep \/ InCallback
  BY <1>14, ChecksumFrame DEF ChrootStep, InCallback, buildVars
<1>15. CASE Squash \/ CreateEFI \/ Mcopy \/ Mcopied
  BY <1>15, ChecksumFrame DEF Squash, CreateEFI, Mcopy, Mcopied
<1>16. CASE Cleanup  BY <1>16, ChecksumFrame DEF Cleanup
<1>17. CASE UNCHANGED allVars  BY <1>17, ChecksumFrame DEF allVars, buildVars
<1>18. QED
  BY <1>1, <1>2, <1>3, <1>4, <1>5, <1>6, <1>8, <1>10, <1>11, <1>12, <1>13, <1>14, <1>15,
     <1>16, <1>17 DEF BuildNext, BuildStep

\* A .sha256 file never agrees with an ISO that is not whole (burnISO).
THEOREM ChecksumSound == BuildSpec => []VerifiedISOWhole
<1>1. BuildInit => ChecksumInv  BY DEF BuildInit, ChecksumInv, VerifiedISOWhole, NoISO
<1>2. BuildSpec => []ChecksumInv  BY <1>1, ChecksumStep, PTL DEF BuildSpec
<1>3. QED  BY <1>2, PTL DEF ChecksumInv
-----------------------------------------------------------------------------
\* A build opens a chroot only where none is open, so that RunCallback makes the
\* mounts itself and is the one to close them; outside, the build is in its own
\* root with nothing mounted, unless it is on its way out with an error.
HostInv ==
  /\ bpc # "done" => lost = found.lost
  /\ ~InChroot => pc = "idle"
  /\ ~InChroot /\ (bpc \in {"cleanup", "done"} => code = "none")
       => root = "host" /\ activeMounts = <<>> /\ lost = found.lost
  /\ InChroot => /\ call = "RunCallback"
                 /\ pc = "enter" => activeMounts = <<>>
                 /\ pc \in {"chroot", "callback", "restore"} => own
                 /\ pc \in {"close", "return", "idle"} => own \/ err

USE DEF Succeeds, Fails, Goto, Error

\* Steps outside the chroot, which may fail but leave it as it is.
LEMMA HostFrame ==
  ASSUME ChrootInv, HostInv, UNCHANGED <<chrootVars, lost, found>>, Succeeds \/ Fails,
         ~InChroot, bpc \notin {"cleanup", "done"},
         bpc' \notin {"mkimageIn", "concatIn", "done"}
  PROVE  ChrootInv' /\ HostInv'
<1> USE DEF ChrootInv, chrootVars
<1>1. UNCHANGED mountVars /\ UNCHANGED callVars /\ UNCHANGED root /\ UNCHANGED pc /\ UNCHANGED err
  BY DEF chrootVars
<1>2. TypeOK'  BY <1>1, FaultsType DEF TypeOK
<1>3. Tracked'  BY <1>1, TrackedFrame
<1>4. MountsInv'  BY <1>1 DEF MountsInv, Distinct
<1>5. CallInv'  BY <1>1 DEF CallInv
<1>6. HostInv'  BY <1>1 DEF HostInv, InChroot
<1>7. QED  BY <1>2, <1>3, <1>4, <1>5, <1>6

LEMMA NothingMounted ==
  ASSUME TypeOK, Tracked, activeMounts = <<>>, failures = <<>>
  PROVE  \A m \in Mount : mounted[m] = 0
<1> SUFFICES ASSUME NEW m \in Mount PROVE mounted[m] = 0  OBVIOUS
<1>1. Times(m, activeMounts) \cup Times(m, failures) = {}  BY DEF Times
<1>2. mounted[m] \in Nat /\ mounted[m] <= 1 /\ mounted[m] # 1  BY <1>1 DEF Tracked, TypeOK
<1>3. QED  BY <1>2

\* A process that starts has no chroot open.
LEMMA StartInv == \A s \in Specs : ChrootInv /\ HostInv /\ StartBuild(s) => ChrootInv' /\ HostInv'
<1> SUFFICES ASSUME NEW s \in Specs, ChrootInv, HostInv, StartBuild(s)
             PROVE  ChrootInv' /\ HostInv'
  OBVIOUS
<1>1. /\ activeMounts' = <<>> /\ failures' = <<>> /\ mounted' = [m \in Mount |-> 0]
      /\ call' = "none" /\ own' = FALSE /\ next' = 1 /\ clean' = TRUE /\ calls' = 0
      /\ start' = faults /\ root' = "host" /\ pc' = "idle" /\ err' = FALSE /\ faults' = faults
      /\ bpc' = "tempDir" /\ lost' = lost /\ found'.lost = lost
  BY DEF StartBuild
<1>2. TypeOK'
  <2>1. mounted' \in [Mount -> Nat]  BY <1>1
  <2>2. activeMounts' \in Seq(Mount) /\ failures' \in Seq(Mount)  BY <1>1
  <2>3. next' \in 1 .. Len(Mounts) + 1  BY <1>1, MountsType
  <2>4. calls' \in 0 .. MaxCalls /\ faults' \in 0 .. MaxFaults /\ start' \in 0 .. MaxFaults
    BY <1>1, ChrootAssumption DEF ChrootInv, TypeOK
  <2>5. QED  BY <1>1, <2>1, <2>2, <2>3, <2>4 DEF TypeOK
<1>3. Tracked'  BY <1>1 DEF Tracked, Times
<1>4. MountsInv' /\ CallInv'  BY <1>1 DEF MountsInv, CallInv, Distinct
<1>5. HostInv'  BY <1>1 DEF HostInv, InChroot
<1>6. QED  BY <1>2, <1>3, <1>4, <1>5 DEF ChrootInv

\* The steps of the chroot, seen by the build that waits for it.
LEMMA ChrootStepHost == ChrootInv /\ HostInv /\ ChrootStep => ChrootInv' /\ HostInv'
<1> SUFFICES ASSUME ChrootInv, HostInv, ChrootStep PROVE ChrootInv' /\ HostInv'  OBVIOUS
<1>1. ChrootInv'  BY StepInv DEF ChrootStep, Next, Step
<1>2. InChroot /\ InChroot' /\ UNCHANGED <<lost, found, bpc>>
  BY DEF ChrootStep, buildVars, InChroot
<1>3. call' = "RunCallback"
  BY <1>2 DEF HostInv, ChrootStep, Enter, PrepareMount, Prepared, EnterRoot, RestoreRoot,
              CloseMount, Closed, Return
<1>4. pc' # "enter"
  BY <1>2 DEF ChrootStep, Enter, PrepareMount, Prepared, EnterRoot, RestoreRoot, CloseMount,
              Closed, Return
<1>5. (pc' \in {"chroot", "callback", "restore"} => own')
      /\ (pc' \in {"close", "return", "idle"} => own' \/ err')
  <2>1. own \in BOOLEAN /\ err \in BOOLEAN  BY DEF ChrootInv, TypeOK
  <2>2. CASE Enter  BY <1>2, <2>1, <2>2 DEF HostInv, Enter
  <2>3. CASE PrepareMount  BY <2>3 DEF PrepareMount
  <2>4. CASE Prepared  BY <1>2, <2>4 DEF HostInv, Prepared
  <2>5. CASE EnterRoot  BY <1>2, <2>1, <2>5 DEF HostInv, EnterRoot
  <2>6. CASE RestoreRoot  BY <1>2, <2>1, <2>6 DEF HostInv, RestoreRoot
  <2>7. CASE CloseMount  BY <1>2, <2>1, <2>7 DEF HostInv, CloseMount
  <2>8. CASE Closed  BY <1>2, <2>1, <2>8 DEF HostInv, Closed
  <2>9. CASE Return  BY <1>2, <2>1, <2>9 DEF HostInv, Return
  <2>10. QED
    BY <2>2, <2>3, <2>4, <2>5, <2>6, <2>7, <2>8, <2>9 DEF ChrootStep
<1>6. HostInv'  BY <1>2, <1>3, <1>4, <1>5 DEF HostInv, InChroot
<1>7. QED  BY <1>1, <1>6

LEMMA CallbackHost == ChrootInv /\ HostInv /\ InCallback => ChrootInv' /\ HostInv'
<1> SUFFICES ASSUME ChrootInv, HostInv, InCallback PROVE ChrootInv' /\ HostInv'  OBVIOUS
<1>1. /\ pc = "callback" /\ pc' = "restore" /\ (err' = err \/ err' = TRUE)
      /\ UNCHANGED mountVars /\ UNCHANGED callVars /\ UNCHANGED root
      /\ Succeeds \/ Fails
      /\ UNCHANGED <<lost, found, bpc>> /\ InChroot
  BY DEF InCallback
<1>2. TypeOK'  BY <1>1, ControlType DEF ChrootInv, TypeOK
<1>3. Tracked'  BY <1>1, TrackedFrame DEF ChrootInv
<1>4. MountsInv'  BY <1>1, MountsFrame DEF ChrootInv
<1>5. CallInv'  BY <1>1 DEF ChrootInv, CallInv, HostInv
<1>6. HostInv'  BY <1>1 DEF HostInv, InChroot
<1>7. QED  BY <1>2, <1>3, <1>4, <1>5, <1>6 DEF ChrootInv

\* The way in: nothing is mounted.  The way out: a chroot that did not fail has
\* unmounted what it mounted, and is left.
LEMMA EnterLeaveHost ==
  ChrootInv /\ HostInv /\ (EnterChroot \/ LeaveChroot) => ChrootInv' /\ HostInv'
<1> SUFFICES ASSUME ChrootInv, HostInv, EnterChroot \/ LeaveChroot PROVE ChrootInv' /\ HostInv'
  OBVIOUS
<1>1. CASE EnterChroot
  <2>1. ChrootInv'  BY <1>1, CallsInv DEF EnterChroot
  <2>2. /\ bpc \in {"mkimage", "concat"} /\ bpc' \in {"mkimageIn", "concatIn"}
        /\ UNCHANGED <<lost, found, activeMounts>> /\ call' = "RunCallback" /\ pc' = "enter"
    BY <1>1 DEF EnterChroot, Call, Move
  <2>3. QED  BY <2>1, <2>2 DEF HostInv, InChroot
<1>2. CASE LeaveChroot
  <2>1. ChrootInv'  BY <1>2, StepInv DEF LeaveChroot
  <2>2. /\ InChroot /\ pc = "idle" /\ UNCHANGED <<lost, found, activeMounts, root, pc>>
        /\ \/ err /\ bpc' = "cleanup" /\ code' = "CreateFile"
           \/ ~err /\ bpc' \in {"concat", "loaders"}
    BY <1>2 DEF LeaveChroot, Leave, Move, vars
  <2>3. ~err => root = "host" /\ activeMounts = <<>>
    BY <2>2 DEF HostInv, ChrootInv, CallInv, TypeOK
  <2>4. QED  BY <2>1, <2>2, <2>3 DEF HostInv, InChroot
<1>3. QED  BY <1>1, <1>2

\* With nothing mounted the removal of the scratch directory deletes only that.
LEMMA CleanupHost == ChrootInv /\ HostInv /\ Cleanup => ChrootInv' /\ HostInv'
<1> SUFFICES ASSUME ChrootInv, HostInv, Cleanup PROVE ChrootInv' /\ HostInv'  OBVIOUS
<1> USE DEF ChrootInv
<1>1. /\ bpc = "cleanup" /\ bpc' = "done" /\ code' = code /\ UNCHANGED chrootVars
      /\ UNCHANGED found /\ (Succeeds \/ Fails)
  BY DEF Cleanup, runVars
<1>2. UNCHANGED mountVars /\ UNCHANGED callVars /\ UNCHANGED root /\ UNCHANGED pc /\ UNCHANGED err
  BY <1>1 DEF chrootVars
<1>3. TypeOK'  BY <1>1, <1>2, FaultsType DEF TypeOK
<1>4. Tracked'  BY <1>2, TrackedFrame
<1>5. MountsInv' /\ CallInv'  BY <1>2 DEF MountsInv, CallInv, Distinct
<1>6. ASSUME code = "none" PROVE root = "host" /\ activeMounts = <<>> /\ lost' = found.lost
  <2>1. root = "host" /\ activeMounts = <<>> /\ lost = found.lost /\ pc = "idle"
    BY <1>1, <1>6 DEF HostInv, InChroot
  <2>2. failures = <<>>  BY <2>1 DEF MountsInv
  <2>3. \A m \in Mount : mounted[m] = 0  BY <2>1, <2>2, NothingMounted
  <2>4. {m \in Mount : mounted[m] > 0} = {}  BY <2>3
  <2>5. \/ lost' = lost
        \/ lost' = lost \cup ({m \in Mount : mounted[m] > 0} \cap {"dev", "dev/pts"})
    BY DEF Cleanup
  <2>6. QED  BY <2>1, <2>4, <2>5
<1>7. ~InChroot /\ pc = "idle" /\ ~InChroot'  BY <1>1 DEF HostInv, InChroot
<1>8. HostInv'  BY <1>1, <1>2, <1>6, <1>7 DEF HostInv
<1>9. QED  BY <1>3, <1>4, <1>5, <1>8

LEMMA HostStep == ChrootInv /\ HostInv /\ [BuildNext]_allVars => ChrootInv' /\ HostInv'
<1> SUFFICES ASSUME ChrootInv, HostInv, [BuildNext]_allVars PROVE ChrootInv' /\ HostInv'
  OBVIOUS
<1> USE DEF Move, Leave
<1>1. CASE \E s \in Specs : StartBuild(s)  BY <1>1, StartInv
<1>2. CASE ChrootStep  BY <1>2, ChrootStepHost
<1>3. CASE InCallback  BY <1>3, CallbackHost
<1>4. CASE EnterChroot \/ LeaveChroot  BY <1>4, EnterLeaveHost
<1>5. CASE Cleanup  BY <1>5, CleanupHost
<1>6. CASE TempDir  BY <1>6, HostFrame DEF TempDir, InChroot
<1>7. ASSUME NEW from, NEW d, NEW parts, NEW after, NEW failure, Put(from, d, parts, after, failure),
             from \notin {"mkimageIn", "concatIn", "cleanup", "done"},
             after \notin {"mkimageIn", "concatIn", "done"}
      PROVE  ChrootInv' /\ HostInv'
  BY <1>7, HostFrame DEF Put, InChroot
<1>8. CASE Dirs \/ Structure \/ Loaders \/ GrubCfg
  BY <1>7, <1>8 DEF Dirs, Structure, Loaders, GrubCfg
<1>9. ASSUME NEW from, NEW d, NEW after, NEW failure, PrepareEFI(from, d, after, failure),
             from \notin {"mkimageIn", "concatIn", "cleanup", "done"},
             after \notin {"mkimageIn", "concatIn", "done"}
      PROVE  ChrootInv' /\ HostInv'
  BY <1>7, <1>9, HostFrame DEF PrepareEFI, InChroot
<1>10. CASE EFILoader \/ EFIFiles  BY <1>9, <1>10 DEF EFILoader, EFIFiles
<1>11. CASE ISORoot  BY <1>7, <1>11, HostFrame DEF ISORoot, InChroot
<1>12. CASE \E d \in Dir : ApplySource(d)
  BY <1>12, HostFrame DEF ApplySource, Dir, InChroot
<1>13. CASE (\E d \in Dir : SourcesApplied(d)) \/ ISOLoader \/ Mcopied
  <2>1. UNCHANGED <<vars, lost, found>> /\ ~InChroot /\ bpc \notin {"cleanup", "done"}
        /\ bpc' \notin {"mkimageIn", "concatIn", "done"}
    BY <1>13 DEF SourcesApplied, ISOLoader, Mcopied, Dir, InChroot
  <2>2. UNCHANGED chrootVars /\ Succeeds  BY <2>1 DEF vars, chrootVars
  <2>3. QED  BY <2>1, <2>2, HostFrame
<1>14. CASE Squash \/ CreateEFI \/ Mcopy \/ RemoveOutput \/ Xorriso \/ Checksum \/ WriteSum
  BY <1>14, HostFrame
     DEF Squash, CreateEFI, Mcopy, RemoveOutput, Xorriso, Checksum, WriteSum, InChroot
<1>15. CASE UNCHANGED allVars
  <2>1. UNCHANGED vars /\ UNCHANGED <<lost, found, bpc, code>>  BY <1>15 DEF allVars, buildVars
  <2>2. ChrootInv'  BY <2>1, StepInv
  <2>3. HostInv'  BY <2>1 DEF vars, HostInv, InChroot
  <2>4. QED  BY <2>2, <2>3
<1>16. QED
  BY <1>1, <1>2, <1>3, <1>4, <1>5, <1>6, <1>8, <1>10, <1>11, <1>12, <1>13, <1>14, <1>15
  DEF BuildNext, BuildStep

\* A build that succeeds has removed nothing of the host's /dev with its scratch
\* directory, is in its own root and has left no mount (RunCallback, Cleanup).
THEOREM HostKept == BuildSpec => []SuccessKeepsHost
<1>1. BuildInit => ChrootInv /\ HostInv
  BY InitInv DEF BuildInit, Init, HostInv, InChroot
<1>2. BuildSpec => [](ChrootInv /\ HostInv)  BY <1>1, HostStep, PTL DEF BuildSpec
<1>3. ASSUME ChrootInv, HostInv PROVE SuccessKeepsHost
  <2> SUFFICES ASSUME bpc = "done", code = "none"
               PROVE  lost = found.lost /\ root = "host" /\ \A m \in Mount : mounted[m] = 0
    BY DEF SuccessKeepsHost
  <2>1. root = "host" /\ activeMounts = <<>> /\ lost = found.lost /\ pc = "idle"
    BY <1>3 DEF HostInv, InChroot
  <2>2. failures = <<>>  BY <1>3, <2>1 DEF ChrootInv, MountsInv
  <2>3. \A m \in Mount : mounted[m] = 0
    BY <1>3, <2>1, <2>2, NothingMounted DEF ChrootInv
  <2>4. QED  BY <2>1, <2>3
<1>4. QED  BY <1>2, <1>3, PTL
-----------------------------------------------------------------------------
\* Sources and parts by name.
Name == STRING \cup Made
\* The first n elements, and what the build puts before or after the sources of a tree.
First(s, n) == SubSeq(s, 1, n)
Loader   == IF spec.bootloader THEN <<"loader">> ELSE <<>>
Eltorito == IF Bios /\ spec.bootloader THEN <<"eltorito">> ELSE <<>>
ISOHead  == IF ~spec.bootloader THEN <<>>
            ELSE IF Efi THEN <<"grub.cfg", "loader">> ELSE <<"loaders", "grub.cfg">>

\* The steps in the order of ISORun.
RootSteps  == {"tempDir", "dirs", "rootfs"}
UEFISteps  == {"structure", "efiLoader", "uefi"}
BootSteps  == {"isoLoader", "mkimage", "mkimageIn", "concat", "concatIn"}
ImageSteps == {"loaders", "grubCfg", "efiFiles", "image", "isoRoot", "squash"}
EFISteps   == {"createEFI", "mcopy"}
BurnSteps  == {"remove", "xorriso", "checksum", "writeSum"}

\* The steps that only some specs take, and the loops' counter.
PathInv ==
  /\ spec \in Specs /\ builds \in Nat /\ tree \in [Dir -> Seq(Name)]
  /\ bpc \in {"ready", "cleanup", "done"} \cup RootSteps \cup UEFISteps \cup BootSteps
             \cup ImageSteps \cup EFISteps \cup BurnSteps
  /\ bpc \in {"efiLoader", "efiFiles"} => Efi /\ spec.bootloader
  /\ bpc \in {"uefi"} \cup EFISteps => Efi
  /\ bpc \in {"mkimage", "mkimageIn", "concat", "concatIn", "loaders"} => Bios /\ spec.bootloader
  /\ bpc = "grubCfg" => spec.bootloader
  /\ k \in Nat \ {0}
  /\ bpc \in Dir => k <= Len(spec[bpc]) + 1
  /\ bpc = "mcopy" => k <= Len(tree["uefi"]) + 1
  /\ bpc \in (RootSteps \cup UEFISteps \cup BootSteps \cup ImageSteps \cup {"createEFI"}) \ Dir
       => k = 1

\* What is in each tree: the sources applied so far after what the build added.
RootTree ==
  /\ bpc \in {"tempDir", "dirs"} => tree["rootfs"] = <<>>
  /\ bpc = "rootfs" => tree["rootfs"] = First(spec["rootfs"], k - 1)
  /\ bpc \in UEFISteps \cup (BootSteps \ {"concatIn"}) => tree["rootfs"] = spec["rootfs"]
  /\ bpc = "concatIn" /\ ~err =>
       tree["rootfs"] = spec["rootfs"] \o (IF pc \in {"restore", "close", "return", "idle"}
                                           THEN <<"eltorito">> ELSE <<>>)
  /\ bpc \in ImageSteps => tree["rootfs"] = spec["rootfs"] \o Eltorito

UEFITree ==
  /\ bpc \in RootSteps \cup {"structure", "efiLoader"} => tree["uefi"] = <<>>
  /\ bpc = "uefi" => tree["uefi"] = Loader \o First(spec["uefi"], k - 1)
  /\ bpc \in BootSteps \cup ImageSteps \cup EFISteps =>
       tree["uefi"] = IF Efi THEN Loader \o spec["uefi"] ELSE <<>>

ImageTree ==
  /\ bpc \in RootSteps \cup UEFISteps \cup BootSteps \cup {"loaders"} => tree["image"] = <<>>
  /\ bpc = "grubCfg" => tree["image"] = IF Efi THEN <<>> ELSE <<"loaders">>
  /\ bpc = "efiFiles" => tree["image"] = <<"grub.cfg">>
  /\ bpc = "image" => tree["image"] = ISOHead \o First(spec["image"], k - 1)
  /\ bpc = "isoRoot" => tree["image"] = ISOHead \o spec["image"]
  /\ bpc \in {"squash"} \cup EFISteps \cup BurnSteps =>
       tree["image"] = ISOHead \o spec["image"] \o <<"kernel">>

\* What is in the images, and what a build that has not failed has burnt.
ImageFiles ==
  /\ bpc \in EFISteps \cup BurnSteps => squash = spec["rootfs"] \o Eltorito
  /\ bpc \in RootSteps \cup UEFISteps \cup BootSteps \cup ImageSteps \cup {"createEFI"}
       => efiImg = <<>>
  /\ bpc = "mcopy" => efiImg = First(tree["uefi"], k - 1)
  /\ bpc \in BurnSteps => efiImg = IF Efi THEN Loader \o spec["uefi"] ELSE <<>>

Output ==
  /\ bpc \in {"checksum", "writeSum"} \/ (bpc \in {"cleanup", "done"} /\ code = "none") =>
       /\ output.build = builds /\ output.whole /\ Loadable
       /\ output.squash = spec["rootfs"] \o Eltorito
       /\ output.efi = IF Efi THEN Loader \o spec["uefi"] ELSE <<>>
       /\ output.iso = ISOHead \o spec["image"] \o <<"kernel">>
  /\ bpc \in {"cleanup", "done"} /\ code = "none" => sha256 = builds

\* Every tree is, at every step, what the spec asks for so far.
DeliverInv == PathInv /\ RootTree /\ UEFITree /\ ImageTree /\ ImageFiles /\ Output

\* A build from a root with a system and with a boot loader, in which no call has failed
\* of itself so far.
Faultless ==
  /\ faults = found.faults /\ Range(spec["rootfs"]) \cap Systems # {}
  /\ Loadable

\* Its chroots find nothing that resists: the mounts are a prefix of Mounts.
Calm ==
  /\ ~err /\ failures = <<>>
  /\ \A i \in 1 .. Len(activeMounts) : i <= Len(Mounts) /\ activeMounts[i] = Mounts[i]

FitInv ==
  /\ efiSize \in Nat /\ found.faults \in Nat /\ found.faults <= faults
  /\ bpc \notin {"ready", "cleanup", "done"} /\ Faultless => Calm
  /\ bpc \in {"cleanup", "done"} /\ Faultless /\ (efiSize % Align) + Overhead <= Align
       => code = "none"

\* One more element of a list, after a head and without one.
LEMMA Append1 ==
  ASSUME NEW S, NEW s \in Seq(S), NEW n \in 0 .. Len(s) - 1, NEW h \in Seq(S)
  PROVE  Append(h \o First(s, n), s[n + 1]) = h \o First(s, n + 1)
BY DEF First

LEMMA First1 ==
  ASSUME NEW S, NEW s \in Seq(S), NEW n \in 0 .. Len(s) - 1
  PROVE  Append(First(s, n), s[n + 1]) = First(s, n + 1)
BY DEF First

LEMMA FirstAll ==
  ASSUME NEW S, NEW s \in Seq(S) PROVE First(s, Len(s)) = s /\ First(s, 0) = <<>>
BY DEF First

LEMMA ConcatEmpty == ASSUME NEW S, NEW s \in Seq(S) PROVE s \o <<>> = s /\ <<>> \o s = s
OBVIOUS

LEMMA SpecType ==
  ASSUME spec \in Specs
  PROVE /\ spec["rootfs"] \in Seq(Name) /\ spec["uefi"] \in Seq(Name)
        /\ spec["image"] \in Seq(Name)
        /\ (Efi \/ Bios) /\ ~(Efi /\ Bios) /\ spec.bootloader \in BOOLEAN
        /\ Loader \in Seq(Name) /\ Eltorito \in Seq(Name) /\ ISOHead \in Seq(Name)
<1>1. \A d \in Dir : spec[d] \in Seq(STRING \ Made)  BY BuildAssumption
<1>2. \A d \in Dir : spec[d] \in Seq(Name)  BY <1>1, SeqMonotonic DEF Name
<1>3. spec.bootloader \in BOOLEAN /\ spec.firmware \in {"efi", "bios"}  BY BuildAssumption
<1>4. (Efi \/ Bios) /\ ~(Efi /\ Bios)  BY <1>3 DEF Efi, Bios
<1>5. <<>> \in Seq(Name)  OBVIOUS
<1>6. Made \subseteq Name  BY DEF Name
<1>7. <<"loader">> \in Seq(Name) /\ <<"eltorito">> \in Seq(Name)  BY <1>6 DEF Made
<1>8. <<"grub.cfg", "loader">> \in Seq(Name) /\ <<"loaders", "grub.cfg">> \in Seq(Name)
  BY <1>6 DEF Made
<1>9. Loader \in Seq(Name)  BY <1>3, <1>5, <1>7 DEF Loader
<1>10. Eltorito \in Seq(Name)  BY <1>3, <1>5, <1>7 DEF Eltorito
<1>11. ISOHead \in Seq(Name)  BY <1>3, <1>5, <1>8 DEF ISOHead
<1>12. QED  BY <1>2, <1>3, <1>4, <1>9, <1>10, <1>11 DEF Dir

LEMMA TreePut ==
  ASSUME tree \in [Dir -> Seq(Name)], NEW d \in Dir, NEW s \in Seq(Name),
         tree' = [tree EXCEPT ![d] = s]
  PROVE  /\ tree' \in [Dir -> Seq(Name)] /\ tree'[d] = s
         /\ \A e \in Dir \ {d} : tree'[e] = tree[e]
OBVIOUS

USE DEF RootSteps, UEFISteps, BootSteps, ImageSteps, EFISteps, BurnSteps, Move, Leave

\* The steps of the build, one lemma each.
LEMMA ApplySourceDelivers == ASSUME DeliverInv, \E d \in Dir : ApplySource(d) PROVE DeliverInv'
<1> USE DEF DeliverInv
<1> PICK d \in Dir : ApplySource(d)  OBVIOUS
<1>1. /\ bpc = d /\ k <= Len(spec[d])
      /\ UNCHANGED <<spec, squash, efiImg, builds, output, sha256, err, pc>>
  BY DEF ApplySource
<1>2. CASE bpc' = "cleanup"
  <2>1. /\ bpc' = "cleanup" /\ code' # "none" /\ k' = k
       /\ tree' = [tree EXCEPT ![d] = Append(@, "partial")]
   BY <1>2, <1>1 DEF ApplySource, Dir
  <2>2. Append(tree[d], "partial") \in Seq(Name)  BY DEF PathInv, Name, Made
  <2>3. tree' = [tree EXCEPT ![d] = Append(tree[d], "partial")]  BY <2>1
  <2>4. tree' \in [Dir -> Seq(Name)]  BY <2>2, <2>3, TreePut DEF PathInv
  <2>5. PathInv'  BY <2>1, <2>4, <1>1 DEF PathInv, Dir
  <2> QED  BY <2>1, <2>5, <1>1 DEF RootTree, UEFITree, ImageTree, ImageFiles, Output
<1>3. CASE bpc' = d
  <2>1. /\ bpc' = d /\ code' = code /\ k' = k + 1
       /\ tree' = [tree EXCEPT ![d] = Append(@, spec[d][k])]
   BY <1>3 DEF ApplySource, Dir
  <2>2. spec[d] \in Seq(Name) /\ tree[d] \in Seq(Name) /\ k \in 1 .. Len(spec[d])
    BY <1>1, SpecType DEF Dir, PathInv
  <2>3. Append(tree[d], spec[d][k]) \in Seq(Name)  BY <2>2
  <2>4. tree' \in [Dir -> Seq(Name)] /\ tree'[d] = Append(tree[d], spec[d][k])
       /\ \A e \in Dir \ {d} : tree'[e] = tree[e]
   BY <2>1, <2>3, TreePut DEF PathInv
  <2>5. PathInv'  BY <2>1, <2>2, <2>4, <1>1 DEF PathInv, Efi, Dir
  <2>6. k - 1 \in 0 .. Len(spec[d]) - 1 /\ k' - 1 = (k - 1) + 1 /\ (k - 1) + 1 = k  BY <2>1, <2>2
  <2>7. Append(First(spec[d], k - 1), spec[d][k]) = First(spec[d], k' - 1)  BY <2>2, <2>6, First1
  <2>8. \A h \in Seq(Name) :
         Append(h \o First(spec[d], k - 1), spec[d][k]) = h \o First(spec[d], k' - 1)
    BY <2>2, <2>6, Append1
  <2>9. RootTree'
    <3>1. Eltorito' = Eltorito  BY <1>1 DEF Eltorito, Bios
    <3> QED  BY <2>1, <2>4, <2>7, <1>1, <3>1 DEF RootTree, Dir
  <2>10. UEFITree'
    <3>1. Loader' = Loader /\ Efi' = Efi  BY <1>1 DEF Loader, Efi
    <3>2. CASE d = "uefi"
      <4>1. tree'["uefi"] = Loader \o First(spec["uefi"], k' - 1)
        BY <3>2, <2>4, <2>8, <1>1, SpecType DEF UEFITree, PathInv
      <4> QED  BY <3>2, <2>1, <1>1, <3>1, <4>1 DEF UEFITree
    <3> QED  BY <2>1, <2>4, <1>1, <3>1, <3>2 DEF UEFITree, Dir
  <2>11. ImageTree'
    <3>1. ISOHead' = ISOHead /\ Efi' = Efi  BY <1>1 DEF ISOHead, Efi, Bios
    <3>2. CASE d = "image"
      <4>1. tree'["image"] = ISOHead \o First(spec["image"], k' - 1)
        BY <3>2, <2>4, <2>8, <1>1, SpecType DEF ImageTree, PathInv
      <4> QED  BY <3>2, <2>1, <1>1, <3>1, <4>1 DEF ImageTree
    <3> QED  BY <2>1, <2>4, <1>1, <3>1, <3>2, SpecType DEF ImageTree, Dir, PathInv
  <2>12. ImageFiles'  BY <2>1, <1>1 DEF ImageFiles, Dir
  <2>13. Output'  BY <2>1, <1>1 DEF Output, Dir
  <2> QED  BY <2>5, <2>9, <2>10, <2>11, <2>12, <2>13
<1> QED  BY <1>2, <1>3 DEF ApplySource

\* What the build adds to the trees depends on the spec alone.
Frozen == UNCHANGED <<spec, builds>>
LEMMA Names ==
  ASSUME Frozen, spec \in Specs
  PROVE  /\ Loader' = Loader /\ Eltorito' = Eltorito /\ ISOHead' = ISOHead
         /\ (Efi' <=> Efi) /\ (Bios' <=> Bios) /\ (Loadable' <=> Loadable)
BY DEF Frozen, Loader, Eltorito, ISOHead, Efi, Bios, Loadable

\* Of a build that has failed the invariant says hardly more than its type.
LEMMA FailFrame ==
  ASSUME DeliverInv, Frozen, bpc' = "cleanup", code' # "none", k' = k,
         tree' \in [Dir -> Seq(Name)]
  PROVE  DeliverInv'
<1>1. PathInv'  BY DEF DeliverInv, PathInv, Frozen, Dir
<1> QED  BY <1>1 DEF DeliverInv, RootTree, UEFITree, ImageTree, ImageFiles, Output

\* A step that puts parts into a tree fails or goes on with the parts in it.
Same == UNCHANGED <<code, k, squash, efiImg, output, sha256, spec, builds, err, pc>>
Added(from, d, parts, after) ==
  /\ bpc = from /\ bpc' = after /\ Same
  /\ tree' \in [Dir -> Seq(Name)] /\ tree'[d] = tree[d] \o parts
  /\ \A e \in Dir \ {d} : tree'[e] = tree[e]

LEMMA PutOK ==
  ASSUME DeliverInv, NEW from, NEW d \in Dir, NEW parts \in Seq(Name), NEW after, NEW failure,
         failure # "none", Put(from, d, parts, after, failure)
  PROVE  DeliverInv' \/ Added(from, d, parts, after)
<1>1. CASE Leave(failure) /\ UNCHANGED tree
  <2>1. Frozen /\ k' = k /\ bpc' = "cleanup" /\ code' # "none" /\ tree' = tree
    BY <1>1 DEF Put, Frozen
  <2> QED  BY <2>1, FailFrame DEF DeliverInv, PathInv
<1>2. CASE Move(after) /\ tree' = [tree EXCEPT ![d] = @ \o parts]
  <2>1. tree[d] \o parts \in Seq(Name)  BY ConcatProperties DEF DeliverInv, PathInv
  <2>2. tree' = [tree EXCEPT ![d] = tree[d] \o parts]  BY <1>2
  <2>3. tree' \in [Dir -> Seq(Name)] /\ tree'[d] = tree[d] \o parts
          /\ \A e \in Dir \ {d} : tree'[e] = tree[e]
            BY <2>1, <2>2, TreePut DEF DeliverInv, PathInv
  <2> QED  BY <2>3, <1>2 DEF Put, Added, Same
<1> QED  BY <1>1, <1>2 DEF Put

LEMMA TempDirDelivers == ASSUME DeliverInv, TempDir PROVE DeliverInv'
<1>1. /\ bpc = "tempDir"
      /\ UNCHANGED <<spec, squash, efiImg, builds, output, sha256, err, pc, tree, k>>
  BY DEF TempDir
<1>2. CASE bpc' = "cleanup"
  <2>1. bpc' = "cleanup" /\ code' # "none"  BY <1>2 DEF TempDir
  <2> QED  BY <2>1, <1>1, FailFrame DEF Frozen, DeliverInv, PathInv
<1>3. CASE bpc' = "dirs"
  <2> QED
    BY <1>3, <1>1 DEF DeliverInv, PathInv, RootTree, UEFITree, ImageTree, ImageFiles, Output,
       Dir, Efi
<1> QED  BY <1>2, <1>3 DEF TempDir

LEMMA DirsDelivers == ASSUME DeliverInv, Dirs PROVE DeliverInv'
<1>1. <<>> \in Seq(Name) /\ "rootfs" \in Dir  BY DEF Dir
<1> SUFFICES ASSUME Added("dirs", "rootfs", <<>>, "rootfs") PROVE DeliverInv'
  BY <1>1, PutOK DEF Dirs
<1> USE DEF Added, Same
<1>2. tree["rootfs"] \o <<>> = tree["rootfs"] /\ First(spec["rootfs"], 0) = <<>>
  BY ConcatEmpty, FirstAll, SpecType DEF DeliverInv, PathInv, Dir
<1>3. PathInv'  BY SpecType DEF DeliverInv, PathInv, Dir, Efi
<1>4. RootTree'  BY <1>2 DEF DeliverInv, PathInv, RootTree, Dir
<1>5. UEFITree'  BY DEF DeliverInv, UEFITree, Dir
<1>6. ImageTree'  BY DEF DeliverInv, ImageTree, Dir
<1>7. ImageFiles' /\ Output'  BY DEF DeliverInv, ImageFiles, Output
<1> QED  BY <1>3, <1>4, <1>5, <1>6, <1>7 DEF DeliverInv

LEMMA StructureDelivers == ASSUME DeliverInv, Structure PROVE DeliverInv'
<1>1. <<>> \in Seq(Name) /\ "rootfs" \in Dir  BY DEF Dir
<1> SUFFICES ASSUME Added("structure", "rootfs", <<>>,
                          IF ~Efi THEN "isoLoader"
                          ELSE IF spec.bootloader THEN "efiLoader" ELSE "uefi")
             PROVE DeliverInv'
  BY <1>1, PutOK DEF Structure
<1> USE DEF Added, Same
<1>2. /\ tree["rootfs"] \o <<>> = tree["rootfs"] /\ First(spec["uefi"], 0) = <<>>
      /\ Loader \o <<>> = Loader
  BY ConcatEmpty, FirstAll, SpecType DEF DeliverInv, PathInv, Dir
<1>3. spec \in Specs /\ Frozen /\ k = 1  BY DEF DeliverInv, PathInv, Frozen, Dir
<1>4. (Efi \/ Bios) /\ ~(Efi /\ Bios) /\ spec.bootloader \in BOOLEAN  BY SpecType, <1>3
<1>5. PathInv'  BY <1>3, <1>4, SpecType, Names DEF DeliverInv, PathInv, Dir
<1>6. RootTree'  BY <1>2, <1>3, <1>4 DEF DeliverInv, RootTree, Dir
<1>7. ~spec.bootloader => Loader = <<>>  BY DEF Loader
<1>8. UEFITree'
  <2>1. CASE ~Efi  BY <2>1, <1>2, <1>3, <1>4, Names DEF DeliverInv, UEFITree, Dir
  <2>2. CASE Efi /\ spec.bootloader
    BY <2>2, <1>2, <1>3, <1>4, Names DEF DeliverInv, UEFITree, Dir
  <2>3. CASE Efi /\ ~spec.bootloader
    BY <2>3, <1>2, <1>3, <1>4, <1>7, Names DEF DeliverInv, UEFITree, Dir
  <2> QED  BY <2>1, <2>2, <2>3, <1>4
<1>9. ImageTree'  BY DEF DeliverInv, ImageTree, Dir
<1>10. ImageFiles' /\ Output'  BY DEF DeliverInv, ImageFiles, Output
<1> QED  BY <1>5, <1>6, <1>8, <1>9, <1>10 DEF DeliverInv

\* Two files in a tree.
LEMMA Two == ASSUME NEW a \in Name, NEW b \in Name PROVE <<a>> \o <<b>> = <<a, b>>
<1> DEFINE s == <<a>> \o <<b>>
           t == <<a, b>>
<1>1. <<a>> \in Seq(Name) /\ <<b>> \in Seq(Name)  OBVIOUS
<1>2. Len(s) = 2 /\ s \in Seq(Name) /\ s[1] = a /\ s[2] = b  BY <1>1, ConcatProperties
<1>3. t \in Seq(Name) /\ Len(t) = 2 /\ t[1] = a /\ t[2] = b  OBVIOUS
<1>4. s = t
  <2> HIDE DEF s, t
  <2>1. \A i \in 1 .. Len(s) : s[i] = t[i]  BY <1>2, <1>3
  <2>2. Len(s) = Len(t)  BY <1>2, <1>3
  <2> QED  BY <1>2, <1>3, <2>1, <2>2, SeqEqual
<1> QED  BY <1>4

LEMMA EFIFail ==
  ASSUME DeliverInv, NEW from, NEW d, NEW after, NEW failure, failure # "none",
         PrepareEFI(from, d, after, failure)
  PROVE  DeliverInv' \/ Put(from, d, <<"loader">>, after, failure)
<1>1. CASE ~HasSystem /\ Leave(failure) /\ UNCHANGED <<treeVars, runVars, k>>
  BY <1>1, FailFrame DEF Frozen, DeliverInv, PathInv
<1> QED  BY <1>1 DEF PrepareEFI

LEMMA MadeNames == \A m \in Made : m \in Name /\ <<m>> \in Seq(Name)
BY DEF Name

LEMMA EFILoaderDelivers == ASSUME DeliverInv, EFILoader PROVE DeliverInv'
<1>1. <<"loader">> \in Seq(Name) /\ "uefi" \in Dir  BY MadeNames DEF Dir, Made
<1> SUFFICES ASSUME Added("efiLoader", "uefi", <<"loader">>, "uefi") PROVE DeliverInv'
  BY <1>1, PutOK, EFIFail DEF EFILoader
<1> USE DEF Added, Same
<1>2. spec \in Specs /\ Frozen /\ k = 1 /\ Efi /\ spec.bootloader
  BY DEF DeliverInv, PathInv, Frozen, Dir
<1>3. /\ <<>> \o <<"loader">> = <<"loader">> /\ First(spec["uefi"], 0) = <<>>
      /\ Loader \o <<>> = <<"loader">>
  BY <1>1, <1>2, ConcatEmpty, FirstAll, SpecType DEF DeliverInv, PathInv, Dir, Loader
<1>4. PathInv'  BY <1>2, SpecType, Names DEF DeliverInv, PathInv, Dir
<1>5. RootTree'  BY <1>3, <1>2 DEF DeliverInv, RootTree, Dir
<1>6. Loader = <<"loader">>  BY <1>2 DEF Loader
<1>7. UEFITree'
  <2>1. tree["uefi"] = <<>>  BY DEF DeliverInv, UEFITree
  <2>2. tree'["uefi"] = <<"loader">>  BY <2>1, <1>3
  <2>3. k' - 1 = 0 /\ spec["uefi"]' = spec["uefi"] /\ Loader' = Loader  BY <1>2, Names DEF Frozen
  <2>4. Loader' \o First(spec["uefi"]', k' - 1) = <<"loader">>  BY <1>3, <2>3
  <2> QED  BY <2>2, <2>4 DEF UEFITree
<1>8. ImageTree'  BY DEF DeliverInv, ImageTree, Dir
<1>9. ImageFiles' /\ Output'  BY DEF DeliverInv, ImageFiles, Output
<1> QED  BY <1>4, <1>5, <1>7, <1>8, <1>9 DEF DeliverInv

LEMMA LoadersDelivers == ASSUME DeliverInv, Loaders PROVE DeliverInv'
<1>1. <<"loaders">> \in Seq(Name) /\ "image" \in Dir  BY MadeNames DEF Dir, Made
<1> SUFFICES ASSUME Added("loaders", "image", <<"loaders">>, "grubCfg") PROVE DeliverInv'
  BY <1>1, PutOK DEF Loaders
<1> USE DEF Added, Same
<1>2. spec \in Specs /\ Frozen /\ k = 1 /\ ~Efi /\ spec.bootloader
  BY SpecType DEF DeliverInv, PathInv, Frozen, Dir
<1>3. <<>> \o <<"loaders">> = <<"loaders">>  BY <1>1, ConcatEmpty
<1>4. PathInv'  BY <1>2, SpecType, Names DEF DeliverInv, PathInv, Dir
<1>5. RootTree'  BY <1>2, Names DEF DeliverInv, RootTree, Dir
<1>6. UEFITree'  BY <1>2, Names DEF DeliverInv, UEFITree, Dir
<1>7. ImageTree'  BY <1>3, <1>2, Names DEF DeliverInv, ImageTree, Dir
<1>8. ImageFiles' /\ Output'  BY DEF DeliverInv, ImageFiles, Output
<1> QED  BY <1>4, <1>5, <1>6, <1>7, <1>8 DEF DeliverInv

LEMMA GrubCfgDelivers == ASSUME DeliverInv, GrubCfg PROVE DeliverInv'
<1>1. <<"grub.cfg">> \in Seq(Name) /\ "image" \in Dir  BY MadeNames DEF Dir, Made
<1> SUFFICES ASSUME Added("grubCfg", "image", <<"grub.cfg">>,
                          IF Efi THEN "efiFiles" ELSE "image")
             PROVE  DeliverInv'
  BY <1>1, PutOK DEF GrubCfg
<1> USE DEF Added, Same
<1>2. spec \in Specs /\ Frozen /\ k = 1 /\ spec.bootloader
  BY SpecType DEF DeliverInv, PathInv, Frozen, Dir
<1>3. /\ <<>> \o <<"grub.cfg">> = <<"grub.cfg">> /\ First(spec["image"], 0) = <<>>
      /\ ISOHead \o <<>> = ISOHead
  BY <1>1, <1>2, FirstAll, SpecType, ConcatEmpty
<1>4. <<"loaders">> \o <<"grub.cfg">> = <<"loaders", "grub.cfg">>  BY MadeNames, Two DEF Made
<1>5. PathInv'  BY <1>2, SpecType, Names DEF DeliverInv, PathInv, Dir
<1>6. RootTree'  BY <1>2, Names DEF DeliverInv, RootTree, Dir
<1>7. UEFITree'  BY <1>2, Names DEF DeliverInv, UEFITree, Dir
<1>8. ISOHead = IF Efi THEN <<"grub.cfg", "loader">> ELSE <<"loaders", "grub.cfg">>
  BY <1>2 DEF ISOHead
<1>9. ImageTree'
  <2>1. tree["image"] = IF Efi THEN <<>> ELSE <<"loaders">>  BY DEF DeliverInv, ImageTree
  <2>2. CASE Efi
    <3>1. tree'["image"] = <<"grub.cfg">>  BY <2>1, <2>2, <1>3
    <3> QED  BY <2>2, <3>1 DEF ImageTree
  <2>3. CASE ~Efi
    <3>1. tree'["image"] = ISOHead  BY <2>1, <2>3, <1>4, <1>8
    <3>2. k' - 1 = 0 /\ spec["image"]' = spec["image"] /\ ISOHead' = ISOHead
      BY <1>2, Names DEF Frozen
    <3>3. ISOHead' \o First(spec["image"]', k' - 1) = ISOHead  BY <1>3, <3>2
    <3> QED  BY <2>3, <3>1, <3>3 DEF ImageTree
  <2> QED  BY <2>2, <2>3
<1>10. ImageFiles' /\ Output'  BY DEF DeliverInv, ImageFiles, Output
<1> QED  BY <1>5, <1>6, <1>7, <1>9, <1>10 DEF DeliverInv

LEMMA EFIFilesDelivers == ASSUME DeliverInv, EFIFiles PROVE DeliverInv'
<1>1. <<"loader">> \in Seq(Name) /\ "image" \in Dir  BY MadeNames DEF Dir, Made
<1> SUFFICES ASSUME Added("efiFiles", "image", <<"loader">>, "image") PROVE DeliverInv'
  BY <1>1, PutOK, EFIFail DEF EFIFiles
<1> USE DEF Added, Same
<1>2. spec \in Specs /\ Frozen /\ k = 1 /\ spec.bootloader /\ Efi
  BY SpecType DEF DeliverInv, PathInv, Frozen, Dir
<1>3. First(spec["image"], 0) = <<>> /\ ISOHead \o <<>> = ISOHead
  BY <1>1, <1>2, FirstAll, SpecType, ConcatEmpty
<1>4. <<"grub.cfg">> \o <<"loader">> = <<"grub.cfg", "loader">>  BY MadeNames, Two DEF Made
<1>5. PathInv'  BY <1>2, SpecType, Names DEF DeliverInv, PathInv, Dir
<1>6. RootTree'  BY <1>2, Names DEF DeliverInv, RootTree, Dir
<1>7. UEFITree'  BY <1>2, Names DEF DeliverInv, UEFITree, Dir
<1>8. ISOHead = IF Efi THEN <<"grub.cfg", "loader">> ELSE <<"loaders", "grub.cfg">>
  BY <1>2 DEF ISOHead
<1>9. ImageTree'
  <2>1. tree["image"] = <<"grub.cfg">>  BY DEF DeliverInv, ImageTree
  <2>2. tree'["image"] = ISOHead  BY <2>1, <1>2, <1>4, <1>8
  <2>3. k' - 1 = 0 /\ spec["image"]' = spec["image"] /\ ISOHead' = ISOHead
    BY <1>2, Names DEF Frozen
  <2>4. ISOHead' \o First(spec["image"]', k' - 1) = ISOHead  BY <1>3, <2>3
  <2> QED  BY <2>2, <2>4 DEF ImageTree
<1>10. ImageFiles' /\ Output'  BY DEF DeliverInv, ImageFiles, Output
<1> QED  BY <1>5, <1>6, <1>7, <1>9, <1>10 DEF DeliverInv

LEMMA ISORootDelivers == ASSUME DeliverInv, ISORoot PROVE DeliverInv'
<1>1. <<"kernel">> \in Seq(Name) /\ "image" \in Dir  BY MadeNames DEF Dir, Made
<1>2. CASE bpc' = "cleanup" /\ ~HasSystem
  <2>1. Frozen /\ k' = k /\ bpc' = "cleanup" /\ code' # "none" /\ tree' = tree
    BY <1>2 DEF ISORoot, Frozen
  <2> QED  BY <2>1, FailFrame DEF DeliverInv, PathInv
<1> SUFFICES ASSUME Added("isoRoot", "image", <<"kernel">>, "squash") PROVE DeliverInv'
  BY <1>2, <1>1, PutOK DEF ISORoot
<1> USE DEF Added, Same
<1>3. spec \in Specs /\ Frozen  BY SpecType DEF DeliverInv, PathInv, Frozen, Dir
<1>4. PathInv'  BY <1>3, SpecType, Names DEF DeliverInv, PathInv, Dir
<1>5. RootTree'  BY <1>3, Names DEF DeliverInv, RootTree, Dir
<1>6. UEFITree'  BY <1>3, Names DEF DeliverInv, UEFITree, Dir
<1>7. ImageTree'  BY <1>3, Names DEF DeliverInv, ImageTree, Dir
<1>8. ImageFiles' /\ Output'  BY DEF DeliverInv, ImageFiles, Output
<1> QED  BY <1>4, <1>5, <1>6, <1>7, <1>8 DEF DeliverInv

USE DEF Frozen

\* The loop over the sources of a tree ends with all of them applied.
LEMMA SourcesAppliedDelivers ==
  ASSUME DeliverInv, NEW d \in Dir, SourcesApplied(d)
  PROVE  DeliverInv'
<1>1. /\ bpc = d /\ k > Len(spec[d]) /\ k' = 1 /\ spec \in Specs /\ Frozen /\ code' = code
      /\ bpc' = (CASE d = "rootfs" -> "structure" [] d = "uefi" -> "isoLoader"
                   [] d = "image" -> "isoRoot")
      /\ UNCHANGED <<tree, squash, efiImg, output, sha256, err, pc>>
  BY DEF SourcesApplied, Frozen, vars, DeliverInv, PathInv
<1>2. spec[d] \in Seq(Name)  BY <1>1, SpecType DEF Dir
<1>3. k - 1 = Len(spec[d])  BY <1>1, <1>2 DEF DeliverInv, PathInv
<1>4. First(spec[d], k - 1) = spec[d]  BY <1>2, <1>3, FirstAll
<1>5. CASE d = "rootfs"
  <2> USE <1>5
  <2>1. bpc' = "structure"  BY <1>1
  <2>2. PathInv'  BY <2>1, <1>1, Names DEF DeliverInv, PathInv, Dir
  <2>3. RootTree'  BY <2>1, <1>1, <1>4 DEF DeliverInv, RootTree
  <2>4. UEFITree' /\ ImageTree'  BY <2>1, <1>1 DEF DeliverInv, UEFITree, ImageTree
  <2>5. ImageFiles' /\ Output'  BY <2>1, <1>1 DEF DeliverInv, ImageFiles, Output
  <2> QED  BY <2>2, <2>3, <2>4, <2>5 DEF DeliverInv
<1>6. CASE d = "uefi"
  <2> USE <1>6
  <2>1. bpc' = "isoLoader"  BY <1>1
  <2>2. PathInv'  BY <2>1, <1>1, Names DEF DeliverInv, PathInv, Dir
  <2>3. RootTree' /\ ImageTree'  BY <2>1, <1>1 DEF DeliverInv, RootTree, ImageTree
  <2>4. UEFITree'  BY <2>1, <1>1, <1>4, Names DEF DeliverInv, PathInv, UEFITree
  <2>5. ImageFiles' /\ Output'  BY <2>1, <1>1 DEF DeliverInv, ImageFiles, Output
  <2> QED  BY <2>2, <2>3, <2>4, <2>5 DEF DeliverInv
<1>7. CASE d = "image"
  <2> USE <1>7
  <2>1. bpc' = "isoRoot"  BY <1>1
  <2>2. PathInv'  BY <2>1, <1>1, Names DEF DeliverInv, PathInv, Dir
  <2>3. RootTree' /\ UEFITree'  BY <2>1, <1>1, Names DEF DeliverInv, RootTree, UEFITree
  <2>4. ImageTree'  BY <2>1, <1>1, <1>4, Names DEF DeliverInv, ImageTree
  <2>5. ImageFiles' /\ Output'  BY <2>1, <1>1 DEF DeliverInv, ImageFiles, Output
  <2> QED  BY <2>2, <2>3, <2>4, <2>5 DEF DeliverInv
<1> QED  BY <1>5, <1>6, <1>7 DEF Dir

LEMMA ISOLoaderDelivers == ASSUME DeliverInv, ISOLoader PROVE DeliverInv'
<1>1. /\ bpc = "isoLoader" /\ k = 1 /\ spec \in Specs /\ Frozen
      /\ bpc' = IF ~spec.bootloader THEN "image" ELSE IF Bios THEN "mkimage" ELSE "grubCfg"
  BY DEF ISOLoader, Frozen, DeliverInv, PathInv, Dir
<1>2. UNCHANGED <<tree, squash, efiImg, output, sha256, err, pc, code, k>>
  BY DEF ISOLoader, vars
<1>3. /\ spec.bootloader \in BOOLEAN
      /\ spec["image"] \in Seq(Name) /\ spec["rootfs"] \in Seq(Name)
      /\ (Efi \/ Bios) /\ ~(Efi /\ Bios)
  BY <1>1, SpecType
<1>4. PathInv'  BY <1>1, <1>2, <1>3, Names DEF DeliverInv, PathInv, Dir
<1>5. RootTree'
  <2>1. tree["rootfs"] = spec["rootfs"]  BY <1>1 DEF DeliverInv, RootTree
  <2>2. bpc' # "mkimage" => Eltorito = <<>>  BY <1>1, <1>3 DEF Eltorito
  <2>3. spec["rootfs"] \o <<>> = spec["rootfs"]  BY <1>3, ConcatEmpty
  <2> QED  BY <1>1, <1>2, <2>1, <2>2, <2>3, Names DEF RootTree, Frozen
<1>6. UEFITree'  BY <1>1, <1>2, Names DEF DeliverInv, UEFITree, Frozen
<1>7. ImageTree'
  <2>1. tree["image"] = <<>>  BY <1>1 DEF DeliverInv, ImageTree
  <2>2. bpc' = "image" => ISOHead = <<>>  BY <1>1 DEF ISOHead
  <2>3. <<>> \o First(spec["image"], 0) = <<>>  BY <1>3, FirstAll, ConcatEmpty
  <2>4. k' - 1 = 0 /\ spec["image"]' = spec["image"] /\ ISOHead' = ISOHead
    BY <1>1, <1>2, Names DEF Frozen
  <2>5. bpc' = "image" => ISOHead' \o First(spec["image"]', k' - 1) = <<>>
    BY <2>2, <2>3, <2>4
  <2>6. bpc' = "grubCfg" => Efi'  BY <1>1, <1>3, Names
  <2> QED  BY <1>1, <1>2, <2>1, <2>5, <2>6 DEF ImageTree
<1>8. ImageFiles' /\ Output'  BY <1>1, <1>2 DEF DeliverInv, ImageFiles, Output
<1> QED  BY <1>4, <1>5, <1>6, <1>7, <1>8 DEF DeliverInv

\* The BIOS boot image is in the root once the second command has not failed.
LEMMA EnterChrootDelivers == ASSUME DeliverInv, EnterChroot PROVE DeliverInv'
<1>1. /\ bpc \in {"mkimage", "concat"}
      /\ bpc' = (IF bpc = "mkimage" THEN "mkimageIn" ELSE "concatIn")
      /\ pc' \in {"enter"} /\ k = 1 /\ spec \in Specs /\ Frozen
      /\ UNCHANGED <<tree, squash, efiImg, output, sha256, code, k>>
  BY DEF EnterChroot, Call, Frozen, DeliverInv, PathInv, Dir
<1>2. spec["rootfs"] \o <<>> = spec["rootfs"]  BY <1>1, SpecType, ConcatEmpty
<1>3. PathInv'  BY <1>1, Names DEF DeliverInv, PathInv, Dir
<1>4. RootTree'  BY <1>1, <1>2 DEF DeliverInv, RootTree, Frozen
<1>5. UEFITree' /\ ImageTree'  BY <1>1, Names DEF DeliverInv, UEFITree, ImageTree, Frozen
<1>6. ImageFiles' /\ Output'  BY <1>1 DEF DeliverInv, ImageFiles, Output
<1> QED  BY <1>3, <1>4, <1>5, <1>6 DEF DeliverInv

LEMMA ChrootStepDelivers == ASSUME ChrootInv, HostInv, DeliverInv, ChrootStep PROVE DeliverInv'
<1>1. /\ InChroot /\ spec \in Specs /\ Frozen
      /\ UNCHANGED <<tree, squash, efiImg, output, sha256, code, k, bpc>>
  BY DEF ChrootStep, buildVars, Frozen, DeliverInv, PathInv
<1>2. ~err' => ~err /\ (pc' \in {"restore", "close", "return", "idle"}
                          <=> pc \in {"restore", "close", "return", "idle"})
  <2>1. err \in BOOLEAN /\ (InChroot => call = "RunCallback")  BY DEF ChrootInv, TypeOK, HostInv
  <2>2. CASE Enter  BY <2>2 DEF Enter
  <2>3. CASE PrepareMount  BY <2>3 DEF PrepareMount
  <2>4. CASE Prepared  BY <1>1, <2>1, <2>4 DEF Prepared
  <2>5. CASE EnterRoot  BY <2>5 DEF EnterRoot
  <2>6. CASE RestoreRoot  BY <2>6 DEF RestoreRoot
  <2>7. CASE CloseMount  BY <2>7 DEF CloseMount
  <2>8. CASE Closed  BY <2>1, <2>8 DEF Closed
  <2>9. CASE Return  BY <2>9 DEF Return
  <2> QED  BY <2>2, <2>3, <2>4, <2>5, <2>6, <2>7, <2>8, <2>9 DEF ChrootStep
<1>3. PathInv'  BY <1>1, Names DEF DeliverInv, PathInv, Dir
<1>4. RootTree'
  <2>1. CASE bpc = "concatIn"
    <3> SUFFICES ASSUME ~err' PROVE RootTree'  BY <1>1, <2>1 DEF RootTree
    <3>1. tree["rootfs"] = spec["rootfs"] \o (IF pc \in {"restore", "close", "return", "idle"}
                                             THEN <<"eltorito">> ELSE <<>>)
      BY <1>2, <2>1 DEF DeliverInv, RootTree
    <3> QED  BY <1>1, <1>2, <2>1, <3>1 DEF RootTree
  <2>2. CASE bpc = "mkimageIn"  BY <1>1, <2>2 DEF DeliverInv, RootTree
  <2> QED  BY <1>1, <2>1, <2>2 DEF InChroot
<1>5. UEFITree' /\ ImageTree'  BY <1>1, Names DEF DeliverInv, UEFITree, ImageTree, Frozen
<1>6. ImageFiles' /\ Output'  BY <1>1 DEF DeliverInv, ImageFiles, Output, InChroot
<1> QED  BY <1>3, <1>4, <1>5, <1>6 DEF DeliverInv

LEMMA InCallbackDelivers == ASSUME DeliverInv, InCallback PROVE DeliverInv'
<1>1. /\ InChroot /\ pc = "callback" /\ pc' = "restore" /\ spec \in Specs
      /\ UNCHANGED <<squash, efiImg, output, sha256, code, k, bpc, spec, builds>>
  BY DEF InCallback, DeliverInv, PathInv
<1>2. \/ tree' = tree /\ (bpc = "mkimageIn" \/ err' = TRUE)
      \/ /\ bpc = "concatIn" /\ err' = err
         /\ tree' = [tree EXCEPT !["rootfs"] = Append(tree["rootfs"], "eltorito")]
  BY <1>1 DEF InCallback, InChroot
<1>3. CASE tree' = tree /\ (bpc = "mkimageIn" \/ err' = TRUE)
  <2>1. PathInv'  BY <1>1, <1>3, Names DEF DeliverInv, PathInv, Dir
  <2>2. RootTree'  BY <1>1, <1>3, Names DEF DeliverInv, RootTree, InChroot
  <2>3. UEFITree' /\ ImageTree'  BY <1>1, <1>3, Names DEF DeliverInv, UEFITree, ImageTree
  <2>4. ImageFiles' /\ Output'  BY <1>1, <1>3 DEF DeliverInv, ImageFiles, Output, InChroot
  <2> QED  BY <2>1, <2>2, <2>3, <2>4 DEF DeliverInv
<1>4. CASE /\ bpc = "concatIn" /\ err' = err
           /\ tree' = [tree EXCEPT !["rootfs"] = Append(tree["rootfs"], "eltorito")]
  <2>1. tree["rootfs"] \in Seq(Name) /\ "rootfs" \in Dir /\ "eltorito" \in Name
    BY MadeNames DEF DeliverInv, PathInv, Dir, Made
  <2>2. Append(tree["rootfs"], "eltorito") \in Seq(Name)  BY <2>1
  <2>3. /\ tree' \in [Dir -> Seq(Name)] /\ tree'["rootfs"] = Append(tree["rootfs"], "eltorito")
        /\ \A e \in Dir \ {"rootfs"} : tree'[e] = tree[e]
    BY <1>4, <2>1, <2>2, TreePut DEF DeliverInv, PathInv
  <2>4. ~err => tree["rootfs"] = spec["rootfs"]
    <3>1. spec["rootfs"] \o <<>> = spec["rootfs"]  BY <1>1, SpecType, ConcatEmpty
    <3> QED  BY <1>1, <1>4, <3>1 DEF DeliverInv, RootTree
  <2>5. Append(spec["rootfs"], "eltorito") = spec["rootfs"] \o <<"eltorito">>
    BY <1>1, <2>1, SpecType, AppendIsConcat
  <2>6. PathInv'  BY <1>1, <1>4, <2>3, Names DEF DeliverInv, PathInv, Dir
  <2>7. RootTree'  BY <1>1, <1>4, <2>3, <2>4, <2>5 DEF RootTree
  <2>8. UEFITree'  BY <1>1, <1>4, <2>3, Names DEF DeliverInv, UEFITree, Dir
  <2>9. ImageTree'  BY <1>1, <1>4, <2>3, Names DEF DeliverInv, ImageTree, Dir
  <2>10. ImageFiles' /\ Output'  BY <1>1, <1>4 DEF DeliverInv, ImageFiles, Output
  <2> QED  BY <2>6, <2>7, <2>8, <2>9, <2>10 DEF DeliverInv
<1> QED  BY <1>2, <1>3, <1>4

LEMMA LeaveChrootDelivers == ASSUME DeliverInv, LeaveChroot PROVE DeliverInv'
<1>1. /\ InChroot /\ pc = "idle" /\ spec \in Specs
      /\ UNCHANGED <<tree, squash, efiImg, output, sha256, k, pc, err, spec, builds>>
      /\ \/ bpc' = "cleanup" /\ code' # "none"
         \/ ~err /\ bpc' = (IF bpc = "mkimageIn" THEN "concat" ELSE "loaders") /\ code' = code
  BY DEF LeaveChroot, vars, DeliverInv, PathInv
<1>2. CASE bpc' = "cleanup" /\ code' # "none"  BY <1>1, <1>2, FailFrame DEF DeliverInv, PathInv
<1>3. CASE bpc = "mkimageIn" /\ bpc' = "concat" /\ code' = code
  <2>1. PathInv'  BY <1>1, <1>3, Names DEF DeliverInv, PathInv, Dir
  <2>2. RootTree' /\ UEFITree' /\ ImageTree'
    BY <1>1, <1>3, Names DEF DeliverInv, RootTree, UEFITree, ImageTree
  <2>3. ImageFiles' /\ Output'  BY <1>1, <1>3 DEF DeliverInv, ImageFiles, Output
  <2> QED  BY <2>1, <2>2, <2>3 DEF DeliverInv
<1>4. CASE bpc = "concatIn" /\ ~err /\ bpc' = "loaders" /\ code' = code
  <2>1. PathInv'  BY <1>1, <1>4, Names DEF DeliverInv, PathInv, Dir
  <2>2. tree["rootfs"] = spec["rootfs"] \o <<"eltorito">>  BY <1>1, <1>4 DEF DeliverInv, RootTree
  <2>3. Eltorito = <<"eltorito">>  BY <1>4 DEF DeliverInv, PathInv, Eltorito
  <2>4. RootTree'  BY <1>1, <1>4, <2>2, <2>3, Names DEF RootTree
  <2>5. UEFITree' /\ ImageTree'  BY <1>1, <1>4, Names DEF DeliverInv, UEFITree, ImageTree
  <2>6. ImageFiles' /\ Output'  BY <1>1, <1>4 DEF DeliverInv, ImageFiles, Output
  <2> QED  BY <2>1, <2>4, <2>5, <2>6 DEF DeliverInv
<1> QED  BY <1>1, <1>2, <1>3, <1>4 DEF InChroot

LEMMA SquashDelivers == ASSUME DeliverInv, Squash PROVE DeliverInv'
<1>1. /\ bpc = "squash" /\ spec \in Specs
      /\ UNCHANGED <<tree, efiImg, output, sha256, k, pc, err, spec, builds>>
      /\ \/ bpc' = "cleanup" /\ code' # "none"
         \/ /\ bpc' = (IF Efi THEN "createEFI" ELSE "remove") /\ code' = code
            /\ squash' = tree["rootfs"]
  BY DEF Squash, DeliverInv, PathInv
<1>2. CASE bpc' = "cleanup" /\ code' # "none"  BY <1>1, <1>2, FailFrame DEF DeliverInv, PathInv
<1>3. CASE /\ bpc' = (IF Efi THEN "createEFI" ELSE "remove") /\ code' = code
           /\ squash' = tree["rootfs"]
  <2>1. PathInv'  BY <1>1, <1>3, Names DEF DeliverInv, PathInv, Dir
  <2>2. RootTree' /\ UEFITree'  BY <1>1, <1>3, Names DEF DeliverInv, RootTree, UEFITree
  <2>3. ImageTree'  BY <1>1, <1>3, Names DEF DeliverInv, ImageTree
  <2>4. ImageFiles'  BY <1>1, <1>3, Names DEF DeliverInv, ImageFiles, RootTree
  <2>5. Output'  BY <1>1, <1>3 DEF DeliverInv, Output
  <2> QED  BY <2>1, <2>2, <2>3, <2>4, <2>5 DEF DeliverInv
<1> QED  BY <1>1, <1>2, <1>3

LEMMA CreateEFIDelivers == ASSUME DeliverInv, CreateEFI PROVE DeliverInv'
<1>1. /\ bpc = "createEFI" /\ spec \in Specs /\ k = 1
      /\ UNCHANGED <<tree, squash, efiImg, output, sha256, k, pc, err, spec, builds>>
      /\ \/ bpc' = "cleanup" /\ code' # "none"
         \/ bpc' = "mcopy" /\ code' = code
  BY DEF CreateEFI, DeliverInv, PathInv, Dir
<1>2. CASE bpc' = "cleanup" /\ code' # "none"  BY <1>1, <1>2, FailFrame DEF DeliverInv, PathInv
<1>3. CASE bpc' = "mcopy" /\ code' = code
  <2>1. tree["uefi"] \in Seq(Name)  BY DEF DeliverInv, PathInv, Dir
  <2>2. PathInv'  BY <1>1, <1>3, <2>1, Names DEF DeliverInv, PathInv, Dir
  <2>3. RootTree' /\ UEFITree'  BY <1>1, <1>3, Names DEF DeliverInv, RootTree, UEFITree
  <2>4. ImageTree'  BY <1>1, <1>3, Names DEF DeliverInv, ImageTree
  <2>5. ImageFiles'
    <3>1. First(tree["uefi"], 0) = <<>> /\ k' - 1 = 0  BY <1>1, <2>1, FirstAll
    <3>2. First(tree["uefi"]', k' - 1) = <<>>  BY <1>1, <3>1
    <3> QED  BY <1>1, <1>3, <3>2, Names DEF DeliverInv, ImageFiles
  <2>6. Output'  BY <1>1, <1>3 DEF DeliverInv, Output
  <2> QED  BY <2>2, <2>3, <2>4, <2>5, <2>6 DEF DeliverInv
<1> QED  BY <1>1, <1>2, <1>3

LEMMA McopyDelivers == ASSUME DeliverInv, Mcopy PROVE DeliverInv'
<1>1. /\ bpc = "mcopy" /\ spec \in Specs /\ k <= Len(tree["uefi"])
      /\ UNCHANGED <<tree, squash, output, sha256, pc, err, spec, builds>>
      /\ \/ bpc' = "cleanup" /\ code' # "none" /\ k' = k
         \/ /\ bpc' = "mcopy" /\ code' = code /\ k' = k + 1
            /\ efiImg' = Append(efiImg, tree["uefi"][k])
  BY DEF Mcopy, DeliverInv, PathInv, Dir
<1>2. CASE bpc' = "cleanup" /\ code' # "none" /\ k' = k
  BY <1>1, <1>2, FailFrame DEF DeliverInv, PathInv
<1>3. CASE /\ bpc' = "mcopy" /\ code' = code /\ k' = k + 1
           /\ efiImg' = Append(efiImg, tree["uefi"][k])
  <2>1. tree["uefi"] \in Seq(Name) /\ k \in Nat \ {0}  BY DEF DeliverInv, PathInv, Dir
  <2>2. PathInv'  BY <1>1, <1>3, <2>1, Names DEF DeliverInv, PathInv, Dir
  <2>3. RootTree' /\ UEFITree'  BY <1>1, <1>3, Names DEF DeliverInv, RootTree, UEFITree
  <2>4. ImageTree'  BY <1>1, <1>3, Names DEF DeliverInv, ImageTree
  <2>5. ImageFiles'
    <3>1. k - 1 \in 0 .. Len(tree["uefi"]) - 1 /\ (k - 1) + 1 = k /\ k' - 1 = k
      BY <1>1, <1>3, <2>1
    <3>2. Append(First(tree["uefi"], k - 1), tree["uefi"][k]) = First(tree["uefi"], k)
      BY <2>1, <3>1, First1
    <3>3. efiImg = First(tree["uefi"], k - 1)  BY <1>1 DEF DeliverInv, ImageFiles
    <3>4. efiImg' = First(tree["uefi"]', k' - 1)  BY <1>1, <1>3, <3>1, <3>2, <3>3
    <3> QED  BY <1>1, <1>3, <3>4, Names DEF DeliverInv, ImageFiles
  <2>6. Output'  BY <1>1, <1>3 DEF DeliverInv, Output
  <2> QED  BY <2>2, <2>3, <2>4, <2>5, <2>6 DEF DeliverInv
<1> QED  BY <1>1, <1>2, <1>3

LEMMA McopiedDelivers == ASSUME DeliverInv, Mcopied PROVE DeliverInv'
<1>1. /\ bpc = "mcopy" /\ bpc' = "remove" /\ spec \in Specs /\ k > Len(tree["uefi"]) /\ Efi
      /\ UNCHANGED <<tree, squash, efiImg, output, sha256, spec, builds, k, code>>
  BY DEF Mcopied, DeliverInv, PathInv
<1>2. PathInv'  BY <1>1, Names DEF DeliverInv, PathInv, Dir
<1>3. RootTree' /\ UEFITree'  BY <1>1, Names DEF RootTree, UEFITree
<1>4. ImageTree'  BY <1>1, Names DEF DeliverInv, ImageTree
<1>5. ImageFiles'
  <2>1. tree["uefi"] \in Seq(Name) /\ k \in Nat /\ k <= Len(tree["uefi"]) + 1
    BY <1>1 DEF DeliverInv, PathInv, Dir
  <2>2. k - 1 = Len(tree["uefi"])  BY <1>1, <2>1
  <2>3. efiImg = First(tree["uefi"], k - 1)  BY <1>1 DEF DeliverInv, ImageFiles
  <2>4. efiImg = tree["uefi"]  BY <2>1, <2>2, <2>3, FirstAll
  <2>5. tree["uefi"] = Loader \o spec["uefi"]  BY <1>1 DEF DeliverInv, UEFITree
  <2> QED  BY <1>1, <2>4, <2>5, Names DEF DeliverInv, ImageFiles
<1>6. Output'  BY <1>1 DEF DeliverInv, Output
<1> QED  BY <1>2, <1>3, <1>4, <1>5, <1>6 DEF DeliverInv

LEMMA RemoveOutputDelivers == ASSUME DeliverInv, RemoveOutput PROVE DeliverInv'
<1>1. /\ bpc = "remove" /\ spec \in Specs
      /\ UNCHANGED <<tree, squash, efiImg, sha256, spec, builds, k>>
      /\ \/ bpc' = "cleanup" /\ code' # "none"
         \/ bpc' = "xorriso" /\ code' = code
  BY DEF RemoveOutput, DeliverInv, PathInv
<1>2. CASE bpc' = "cleanup" /\ code' # "none"  BY <1>1, <1>2, FailFrame DEF DeliverInv, PathInv
<1>3. CASE bpc' = "xorriso" /\ code' = code
  <2>1. PathInv'  BY <1>1, <1>3, Names DEF DeliverInv, PathInv, Dir
  <2>2. RootTree' /\ UEFITree' /\ ImageTree'
    BY <1>1, <1>3, Names DEF DeliverInv, RootTree, UEFITree, ImageTree
  <2>3. ImageFiles' /\ Output'  BY <1>1, <1>3, Names DEF DeliverInv, ImageFiles, Output
  <2> QED  BY <2>1, <2>2, <2>3 DEF DeliverInv
<1> QED  BY <1>1, <1>2, <1>3

\* A concatenation holds what its parts hold.
LEMMA RangeConcat ==
  ASSUME NEW S, NEW s \in Seq(S), NEW t \in Seq(S) PROVE Range(s) \subseteq Range(s \o t)
<1> SUFFICES ASSUME NEW i \in 1 .. Len(s) PROVE \E j \in 1 .. Len(s \o t) : (s \o t)[j] = s[i]
  BY ConcatProperties DEF Range
<1> QED  BY ConcatProperties

LEMMA RangeOf ==
  ASSUME NEW S, NEW s \in Seq(S), NEW t \in Seq(S) PROVE Range(s \o t) = Range(s) \cup Range(t)
<1>1. ASSUME NEW x \in Range(s \o t) PROVE x \in Range(s) \cup Range(t)
  <2>1. PICK i \in 1 .. Len(s \o t) : (s \o t)[i] = x  BY <1>1, ConcatProperties DEF Range
  <2>2. CASE i <= Len(s)  BY <2>1, <2>2, ConcatProperties DEF Range
  <2>3. CASE i > Len(s)
    <3>1. i - Len(s) \in 1 .. Len(t) /\ t[i - Len(s)] = x  BY <2>1, <2>3, ConcatProperties
    <3> QED  BY <3>1 DEF Range
  <2> QED  BY <2>1, <2>2, <2>3
<1>2. Range(s) \subseteq Range(s \o t)  BY RangeConcat
<1>3. ASSUME NEW x \in Range(t) PROVE x \in Range(s \o t)
  <2>1. PICK i \in 1 .. Len(t) : t[i] = x  BY <1>3 DEF Range
  <2>2. i + Len(s) \in 1 .. Len(s \o t) /\ (s \o t)[i + Len(s)] = x  BY <2>1, ConcatProperties
  <2> QED  BY <2>2 DEF Range
<1> QED  BY <1>1, <1>2, <1>3

\* The parts of the tree of the ISO when it is burnt.
LEMMA ISOParts ==
  ASSUME DeliverInv, bpc = "xorriso"
  PROVE  Range(tree["image"]) = Range(ISOHead) \cup Range(spec["image"]) \cup {"kernel"}
<1>1. spec \in Specs /\ tree["image"] = ISOHead \o spec["image"] \o <<"kernel">>
  BY DEF DeliverInv, PathInv, ImageTree
<1>2. spec["image"] \in Seq(Name) /\ <<"kernel">> \in Seq(Name) /\ ISOHead \in Seq(Name)
  BY <1>1, SpecType, MadeNames DEF Made
<1>3. ISOHead \o spec["image"] \in Seq(Name)  BY <1>2, ConcatProperties
<1>4. Range(ISOHead \o spec["image"]) = Range(ISOHead) \cup Range(spec["image"])
  BY <1>2, RangeOf
<1>5. Range(tree["image"]) = Range(ISOHead \o spec["image"]) \cup Range(<<"kernel">>)
  <2> DEFINE head == ISOHead \o spec["image"]
             tail == <<"kernel">>
  <2>1. tree["image"] = head \o tail  BY <1>1
  <2>2. head \in Seq(Name) /\ tail \in Seq(Name)  BY <1>2, <1>3
  <2> HIDE DEF head, tail
  <2>3. Range(head \o tail) = Range(head) \cup Range(tail)  BY ONLY <2>2, RangeOf
  <2>4. Range(tree["image"]) = Range(head) \cup Range(tail)  BY ONLY <2>1, <2>3
  <2> QED  BY ONLY <2>4 DEF head, tail
<1>6. Range(<<"kernel">>) = {"kernel"}  BY DEF Range
<1> QED  BY <1>4, <1>5, <1>6

\* xorriso finds the boot images of a BIOS when the build has put them there, or one of
\* the ISO's sources has.
LEMMA BurnsLoadable == ASSUME DeliverInv, bpc = "xorriso" PROVE CanBurn <=> Loadable
<1> DEFINE loaders == {"loaders"} \cup LoaderSources
<1>1. spec \in Specs  BY DEF DeliverInv, PathInv
<1>2. (Efi \/ Bios) /\ ~(Efi /\ Bios) /\ spec.bootloader \in BOOLEAN  BY <1>1, SpecType
<1>3. "loaders" \notin Range(spec["image"])
  <2>1. spec["image"] \in Seq(STRING \ Made)  BY <1>1, BuildAssumption DEF Dir
  <2>2. "loaders" \notin STRING \ Made  BY DEF Made
  <2> QED  BY <2>1, <2>2 DEF Range
<1>4. "kernel" \notin loaders  BY BuildAssumption DEF Made
<1>5. Range(tree["image"]) \cap loaders
        = (Range(ISOHead) \cap loaders) \cup (Range(spec["image"]) \cap LoaderSources)
  BY <1>3, <1>4, ISOParts
<1>6. CASE Efi  BY <1>6 DEF CanBurn, Loadable
<1>7. CASE ~Efi /\ spec.bootloader
  <2>1. ISOHead = <<"loaders", "grub.cfg">>  BY <1>7 DEF ISOHead
  <2>2. ISOHead[1] = "loaders" /\ 1 \in DOMAIN ISOHead  BY <2>1
  <2>3. "loaders" \in Range(ISOHead)  BY <2>2 DEF Range
  <2>4. CanBurn  BY <1>5, <2>3 DEF CanBurn
  <2> QED  BY <2>4, <1>7 DEF Loadable
<1>8. CASE ~Efi /\ ~spec.bootloader
  <2>1. Range(ISOHead) = {}  BY <1>8 DEF ISOHead, Range
  <2>2. Range(tree["image"]) \cap loaders = Range(spec["image"]) \cap LoaderSources
    BY <1>5, <2>1
  <2> QED  BY <2>2, <1>8 DEF CanBurn, Loadable
<1> QED  BY <1>2, <1>6, <1>7, <1>8

LEMMA XorrisoDelivers == ASSUME DeliverInv, Xorriso PROVE DeliverInv'
<1>1. /\ bpc = "xorriso" /\ spec \in Specs
      /\ UNCHANGED <<tree, squash, efiImg, sha256, spec, builds, k>>
      /\ \/ bpc' = "cleanup" /\ code' # "none"
         \/ bpc' = "checksum" /\ code' = code /\ CanBurn /\ output' = Burnt(TRUE)
  BY DEF Xorriso, DeliverInv, PathInv
<1>2. CASE bpc' = "cleanup" /\ code' # "none"  BY <1>1, <1>2, FailFrame DEF DeliverInv, PathInv
<1>3. CASE bpc' = "checksum" /\ code' = code /\ CanBurn /\ output' = Burnt(TRUE)
  <2>1. PathInv'  BY <1>1, <1>3, Names DEF DeliverInv, PathInv, Dir
  <2>2. RootTree' /\ UEFITree' /\ ImageTree'
    BY <1>1, <1>3, Names DEF DeliverInv, RootTree, UEFITree, ImageTree
  <2>3. ImageFiles'  BY <1>1, <1>3, Names DEF DeliverInv, ImageFiles
  <2>4. Loadable  BY <1>1, <1>3, BurnsLoadable
  <2>5. /\ output'.build = builds /\ output'.whole /\ output'.squash = squash
        /\ output'.efi = efiImg /\ output'.iso = tree["image"]
    BY <1>3 DEF Burnt
  <2>6. /\ squash = spec["rootfs"] \o Eltorito
        /\ efiImg = IF Efi THEN Loader \o spec["uefi"] ELSE <<>>
        /\ tree["image"] = ISOHead \o spec["image"] \o <<"kernel">>
    BY <1>1 DEF DeliverInv, ImageFiles, ImageTree
  <2>7. Output'  BY <1>1, <1>3, <2>4, <2>5, <2>6, Names DEF Output
  <2> QED  BY <2>1, <2>2, <2>3, <2>7 DEF DeliverInv
<1> QED  BY <1>1, <1>2, <1>3

LEMMA ChecksumDelivers == ASSUME DeliverInv, Checksum PROVE DeliverInv'
<1>1. /\ bpc = "checksum" /\ spec \in Specs
      /\ UNCHANGED <<tree, squash, efiImg, sha256, output, spec, builds, k>>
      /\ \/ bpc' = "cleanup" /\ code' # "none"
         \/ bpc' = "writeSum" /\ code' = code
  BY DEF Checksum, DeliverInv, PathInv
<1>2. CASE bpc' = "cleanup" /\ code' # "none"  BY <1>1, <1>2, FailFrame DEF DeliverInv, PathInv
<1>3. CASE bpc' = "writeSum" /\ code' = code
  <2>1. PathInv'  BY <1>1, <1>3, Names DEF DeliverInv, PathInv, Dir
  <2>2. RootTree' /\ UEFITree' /\ ImageTree'
    BY <1>1, <1>3, Names DEF DeliverInv, RootTree, UEFITree, ImageTree
  <2>3. ImageFiles' /\ Output'  BY <1>1, <1>3, Names DEF DeliverInv, ImageFiles, Output
  <2> QED  BY <2>1, <2>2, <2>3 DEF DeliverInv
<1> QED  BY <1>1, <1>2, <1>3

LEMMA WriteSumDelivers == ASSUME DeliverInv, WriteSum PROVE DeliverInv'
<1>1. /\ bpc = "writeSum" /\ bpc' = "cleanup" /\ spec \in Specs
      /\ UNCHANGED <<tree, squash, efiImg, output, spec, builds, k>>
      /\ code' # "none" \/ (code' = "none" /\ sha256' = output.build)
  BY DEF WriteSum, DeliverInv, PathInv
<1>2. PathInv'  BY <1>1, Names DEF DeliverInv, PathInv, Dir
<1>3. RootTree' /\ UEFITree' /\ ImageTree' /\ ImageFiles'
  BY <1>1 DEF RootTree, UEFITree, ImageTree, ImageFiles
<1>4. Output'  BY <1>1, Names DEF DeliverInv, Output
<1> QED  BY <1>2, <1>3, <1>4 DEF DeliverInv

LEMMA CleanupDelivers == ASSUME DeliverInv, Cleanup PROVE DeliverInv'
<1>1. /\ bpc = "cleanup" /\ bpc' = "done" /\ spec \in Specs
      /\ UNCHANGED <<tree, squash, efiImg, output, sha256, spec, builds, k, code>>
  BY DEF Cleanup, DeliverInv, PathInv
<1>2. PathInv'  BY <1>1, Names DEF DeliverInv, PathInv, Dir
<1>3. RootTree' /\ UEFITree' /\ ImageTree' /\ ImageFiles'
  BY <1>1 DEF RootTree, UEFITree, ImageTree, ImageFiles
<1>4. Output'  BY <1>1, Names DEF DeliverInv, Output
<1> QED  BY <1>2, <1>3, <1>4 DEF DeliverInv

LEMMA StartBuildDelivers == ASSUME DeliverInv, NEW s \in Specs, StartBuild(s) PROVE DeliverInv'
<1>1. /\ bpc' = "tempDir" /\ spec' = s /\ builds' = builds + 1 /\ builds \in Nat /\ k' = 1
      /\ squash' = <<>> /\ efiImg' = <<>> /\ tree' = [d \in Dir |-> <<>>]
  BY DEF StartBuild, DeliverInv, PathInv
<1>2. PathInv'  BY <1>1 DEF PathInv, Dir
<1>3. RootTree' /\ UEFITree' /\ ImageTree' /\ ImageFiles' /\ Output'
  BY <1>1 DEF RootTree, UEFITree, ImageTree, ImageFiles, Output, Dir
<1> QED  BY <1>2, <1>3 DEF DeliverInv

LEMMA DeliverStep ==
  ChrootInv /\ HostInv /\ DeliverInv /\ [BuildNext]_allVars => DeliverInv'
<1> SUFFICES ASSUME ChrootInv, HostInv, DeliverInv, [BuildNext]_allVars PROVE DeliverInv'
  OBVIOUS
<1>1. CASE UNCHANGED allVars
  <2>1. /\ bpc' = bpc /\ spec' = spec /\ builds' = builds /\ tree' = tree /\ k' = k /\ pc' = pc
        /\ err' = err /\ squash' = squash /\ efiImg' = efiImg /\ output' = output
        /\ sha256' = sha256 /\ code' = code
    BY <1>1 DEF allVars, vars, buildVars
  <2>2. spec \in Specs /\ Frozen  BY <2>1 DEF DeliverInv, PathInv
  <2>3. PathInv'  BY <2>1, <2>2, Names DEF DeliverInv, PathInv, Dir
  <2>4. RootTree' /\ UEFITree'  BY <2>1, <2>2, Names DEF DeliverInv, RootTree, UEFITree
  <2>5. ImageTree'  BY <2>1, <2>2, Names DEF DeliverInv, ImageTree
  <2>6. ImageFiles' /\ Output'  BY <2>1, <2>2, Names DEF DeliverInv, ImageFiles, Output
  <2> QED  BY <2>3, <2>4, <2>5, <2>6 DEF DeliverInv
<1> QED
  BY <1>1, ApplySourceDelivers, TempDirDelivers, DirsDelivers, StructureDelivers,
     EFILoaderDelivers, LoadersDelivers, GrubCfgDelivers, EFIFilesDelivers, ISORootDelivers,
     SourcesAppliedDelivers, ISOLoaderDelivers, EnterChrootDelivers, ChrootStepDelivers,
     InCallbackDelivers, LeaveChrootDelivers, SquashDelivers, CreateEFIDelivers, McopyDelivers,
     McopiedDelivers, RemoveOutputDelivers, XorrisoDelivers, ChecksumDelivers,
     WriteSumDelivers, CleanupDelivers, StartBuildDelivers
  DEF BuildNext, BuildStep

LEMMA DeliverInit == BuildInit => ChrootInv /\ HostInv /\ DeliverInv
<1> SUFFICES ASSUME BuildInit PROVE ChrootInv /\ HostInv /\ DeliverInv  OBVIOUS
<1>1. ChrootInv /\ HostInv  BY InitInv DEF BuildInit, Init, HostInv, InChroot
<1>2. PathInv  BY DEF BuildInit, PathInv, Dir
<1>3. RootTree /\ UEFITree /\ ImageTree /\ ImageFiles /\ Output
  BY DEF BuildInit, RootTree, UEFITree, ImageTree, ImageFiles, Output
<1> QED  BY <1>1, <1>2, <1>3 DEF DeliverInv

\* A build that exits with success leaves the ISO, the squashfs, the EFI image and the
\* checksum that its spec asked for (ISORun).
THEOREM Delivers == BuildSpec => []ISODelivers
<1>1. BuildSpec => [](ChrootInv /\ HostInv /\ DeliverInv)
  BY DeliverInit, HostStep, DeliverStep, PTL DEF BuildSpec
<1>2. ASSUME DeliverInv PROVE ISODelivers
  <2> SUFFICES ASSUME bpc = "done", code = "none" PROVE
    /\ output.build = builds /\ output.whole /\ sha256 = builds
    /\ output.squash = spec.rootfs \o (IF Bios /\ spec.bootloader THEN <<"eltorito">> ELSE <<>>)
    /\ Loadable
    /\ Efi  => output.efi = (IF spec.bootloader THEN <<"loader">> ELSE <<>>) \o spec.uefi
    /\ Bios => output.efi = <<>>
    /\ output.iso = (CASE ~spec.bootloader -> <<>>
                      [] spec.bootloader /\ Efi -> <<"grub.cfg", "loader">>
                      [] spec.bootloader /\ Bios -> <<"loaders", "grub.cfg">>)
                    \o spec.image \o <<"kernel">>
    BY DEF ISODelivers
  <2>1. (Efi \/ Bios) /\ ~(Efi /\ Bios) /\ spec.bootloader \in BOOLEAN
    BY <1>2, SpecType DEF DeliverInv, PathInv
  <2>2. /\ output.build = builds /\ output.whole /\ sha256 = builds /\ Loadable
        /\ output.squash = spec["rootfs"] \o Eltorito
        /\ output.efi = IF Efi THEN Loader \o spec["uefi"] ELSE <<>>
        /\ output.iso = ISOHead \o spec["image"] \o <<"kernel">>
    BY <1>2 DEF DeliverInv, Output
  <2>3. Eltorito = IF Bios /\ spec.bootloader THEN <<"eltorito">> ELSE <<>>  BY DEF Eltorito
  <2>4. ISOHead = CASE ~spec.bootloader -> <<>>
                    [] spec.bootloader /\ Efi -> <<"grub.cfg", "loader">>
                    [] spec.bootloader /\ Bios -> <<"loaders", "grub.cfg">>
    BY <2>1 DEF ISOHead
  <2> QED  BY <2>1, <2>2, <2>3, <2>4 DEF Loader
<1> QED  BY <1>1, <1>2, PTL

\* Where the boot loaders and the kernel are read, the root sources have been applied.
LEMMA RootHasSystem ==
  ASSUME DeliverInv, Range(spec["rootfs"]) \cap Systems # {},
         bpc \in UEFISteps \cup BootSteps \cup ImageSteps,
         bpc = "concatIn" => ~err /\ pc = "callback"
  PROVE  HasSystem
<1>1. spec \in Specs  BY DEF DeliverInv, PathInv
<1>2. spec["rootfs"] \in Seq(Name) /\ Eltorito \in Seq(Name) /\ <<>> \in Seq(Name)
  BY <1>1, SpecType
<1>3. \/ tree["rootfs"] = spec["rootfs"] \/ tree["rootfs"] = spec["rootfs"] \o Eltorito
      \/ tree["rootfs"] = spec["rootfs"] \o <<>>
  BY DEF DeliverInv, RootTree
<1>4. Range(spec["rootfs"]) \subseteq Range(tree["rootfs"])
  <2>1. Range(spec["rootfs"]) \subseteq Range(spec["rootfs"] \o Eltorito)  BY <1>2, RangeConcat
  <2>2. spec["rootfs"] \o <<>> = spec["rootfs"]  BY <1>2, ConcatEmpty
  <2> QED  BY <1>3, <2>1, <2>2
<1> QED  BY <1>4 DEF HasSystem

LEMMA FitStart == ASSUME ChrootInv, NEW s \in Specs, StartBuild(s) PROVE FitInv'
<1>1. /\ bpc' = "tempDir" /\ found'.faults = faults /\ faults' = faults /\ err' = FALSE
      /\ failures' = <<>> /\ activeMounts' = <<>> /\ efiSize' = 0
  BY DEF StartBuild
<1>2. faults \in Nat  BY ChrootAssumption DEF ChrootInv, TypeOK
<1>3. Calm'  BY <1>1 DEF Calm
<1> QED  BY <1>1, <1>2, <1>3 DEF FitInv

\* A step outside the chroot that goes on, or returns because of a call that failed.
Kept == UNCHANGED <<err, failures, activeMounts, found, spec>>
Roomy == (efiSize % Align) + Overhead <= Align

LEMMA FitFrame ==
  ASSUME ChrootInv, FitInv, Kept, Succeeds \/ Fails, efiSize' \in Nat,
         bpc \notin {"ready", "cleanup", "done"}, bpc' # "ready",
         \/ bpc' \notin {"cleanup", "done"} \/ code' = "none" \/ Fails \/ ~Faultless
         \/ efiSize' = efiSize /\ ~Roomy
  PROVE  FitInv'
<1> USE DEF Kept
<1>1. faults \in Nat /\ found.faults \in Nat /\ found.faults <= faults
  BY ChrootAssumption DEF ChrootInv, TypeOK, FitInv
<1>2. CASE Fails
  <2>1. faults' # found'.faults /\ found'.faults <= faults'  BY <1>1, <1>2
  <2>2. ~Faultless'  BY <2>1 DEF Faultless
  <2> QED  BY <2>1, <2>2, <1>1 DEF FitInv
<1>3. CASE ~Fails
  <2>1. faults' = faults  BY <1>3
  <2>2. Faultless' <=> Faultless  BY <2>1 DEF Faultless, Loadable, Efi
  <2>3. Calm' <=> Calm  BY DEF Calm
  <2>4. bpc' \notin {"ready", "cleanup", "done"} /\ Faultless' => Calm'
    BY <2>2, <2>3 DEF FitInv
  <2>5. bpc' \in {"cleanup", "done"} /\ Faultless' /\ Roomy' => code' = "none"
    <3>1. efiSize' = efiSize => (Roomy' <=> Roomy)  BY DEF Roomy
    <3> QED  BY <1>3, <2>2, <3>1
  <2> QED  BY <1>1, <2>1, <2>4, <2>5 DEF FitInv, Roomy
<1> QED  BY <1>2, <1>3

LEMMA FitPut ==
  ASSUME ChrootInv, FitInv, NEW from, NEW d, NEW parts, NEW after, NEW failure,
         Put(from, d, parts, after, failure),
         from \notin {"ready", "cleanup", "done"}, after \notin {"ready", "cleanup", "done"}
  PROVE  FitInv'
<1>1. /\ bpc = from /\ Kept /\ (Succeeds \/ Fails) /\ efiSize' = efiSize
      /\ (bpc' = after \/ (bpc' = "cleanup" /\ Fails))
  BY DEF Put, Kept
<1>2. efiSize \in Nat  BY DEF FitInv
<1> QED  BY <1>1, <1>2, FitFrame

LEMMA FitEFI ==
  ASSUME ChrootInv, DeliverInv, FitInv, NEW from \in {"efiLoader", "efiFiles"}, NEW d, NEW after,
         NEW failure, PrepareEFI(from, d, after, failure), after \notin {"ready", "cleanup", "done"}
  PROVE  FitInv'
<1>1. CASE HasSystem /\ Put(from, d, <<"loader">>, after, failure)  BY <1>1, FitPut
<1>2. CASE /\ bpc = from /\ ~HasSystem /\ Succeeds /\ Leave(failure)
           /\ UNCHANGED <<chrootVars, treeVars, fileVars, hostVars, runVars, k>>
  <2>1. ~Faultless  BY <1>2, RootHasSystem DEF Faultless
  <2>2. Kept /\ Succeeds /\ efiSize' = efiSize /\ bpc' = "cleanup"  BY <1>2 DEF Kept
  <2>3. efiSize \in Nat  BY DEF FitInv
  <2> QED  BY <1>2, <2>1, <2>2, <2>3, FitFrame
<1> QED  BY <1>1, <1>2 DEF PrepareEFI

LEMMA FitKernel == ASSUME ChrootInv, DeliverInv, FitInv, ISORoot PROVE FitInv'
<1>1. CASE HasSystem /\ Put("isoRoot", "image", <<"kernel">>, "squash", "CopyFile")
  BY <1>1, FitPut
<1>2. CASE /\ bpc = "isoRoot" /\ ~HasSystem /\ Succeeds /\ Leave("StatFile")
           /\ UNCHANGED <<chrootVars, treeVars, fileVars, hostVars, runVars, k>>
  <2>1. ~Faultless  BY <1>2, RootHasSystem DEF Faultless
  <2>2. Kept /\ Succeeds /\ efiSize' = efiSize /\ bpc' = "cleanup"  BY <1>2 DEF Kept
  <2>3. efiSize \in Nat  BY DEF FitInv
  <2> QED  BY <1>2, <2>1, <2>2, <2>3, FitFrame
<1> QED  BY <1>1, <1>2 DEF ISORoot

\* The slot of an EFI image has the room that the assumption of the property asks for.
LEMMA SlotFits ==
  ASSUME NEW a \in Nat, NEW o \in Nat, NEW n \in Nat \ {0}, (a % n) + o <= n
  PROVE  a + o <= (a \div n) * n + n
OBVIOUS

LEMMA FitMcopy == ASSUME ChrootInv, FitInv, Mcopy PROVE FitInv'
<1>1. /\ bpc = "mcopy" /\ Kept /\ efiSize' = efiSize /\ (Succeeds \/ Fails)
      /\ bpc' = "mcopy" \/ (bpc' = "cleanup" /\ (~Fits \/ Fails))
  BY DEF Mcopy, Kept
<1>2. Align \in Nat \ {0} /\ Overhead \in Nat /\ efiSize \in Nat  BY BuildAssumption DEF FitInv
<1>3. Roomy => Fits  BY <1>2, SlotFits DEF Fits, EFISize, Roomy
<1> QED  BY <1>1, <1>2, <1>3, FitFrame

LEMMA FitBurn ==
  ASSUME ChrootInv, DeliverInv, FitInv, Xorriso \/ Checksum \/ WriteSum
  PROVE  FitInv'
<1>1. CASE Xorriso
  <2>1. efiSize \in Nat  BY DEF FitInv
  <2>2. /\ bpc = "xorriso" /\ Kept /\ efiSize' = efiSize /\ (Succeeds \/ Fails)
        /\ bpc' = "checksum" \/ (bpc' = "cleanup" /\ (~CanBurn \/ Fails))
    BY <1>1 DEF Xorriso, Kept
  <2>3. ~CanBurn => ~Faultless  BY <2>2, BurnsLoadable DEF Faultless
  <2> QED  BY <2>1, <2>2, <2>3, FitFrame
<1>2. CASE Checksum
  <2>1. output.whole  BY <1>2 DEF Checksum, DeliverInv, Output
  <2>2. output # NoISO  BY <2>1 DEF NoISO
  <2>3. /\ bpc = "checksum" /\ Kept /\ efiSize' = efiSize /\ (Succeeds \/ Fails)
        /\ bpc' = "writeSum" \/ (bpc' = "cleanup" /\ Fails)
    BY <1>2, <2>2 DEF Checksum, Kept
  <2>4. efiSize \in Nat  BY DEF FitInv
  <2> QED  BY <2>3, <2>4, FitFrame
<1>3. CASE WriteSum
  <2>1. /\ bpc = "writeSum" /\ Kept /\ efiSize' = efiSize /\ (Succeeds \/ Fails)
        /\ bpc' = "cleanup" /\ (code' = "none" \/ Fails)
    BY <1>3 DEF WriteSum, Kept
  <2>2. efiSize \in Nat  BY DEF FitInv
  <2> QED  BY <2>1, <2>2, FitFrame
<1> QED  BY <1>1, <1>2, <1>3

\* The other steps outside the chroot go on unless a call fails.
LEMMA FitOthers ==
  ASSUME ChrootInv, FitInv,
         \/ TempDir \/ Dirs \/ Structure \/ Loaders \/ GrubCfg \/ ISOLoader \/ Mcopied
         \/ (\E d \in Dir : ApplySource(d) \/ SourcesApplied(d))
         \/ Squash \/ CreateEFI \/ RemoveOutput
  PROVE  FitInv'
<1>1. efiSize \in Nat /\ EFISizes \subseteq Nat  BY BuildAssumption DEF FitInv
<1>2. CASE Dirs \/ Structure \/ Loaders \/ GrubCfg
  BY <1>2, FitPut DEF Dirs, Structure, Loaders, GrubCfg
<1>3. CASE TempDir
  <2>1. /\ bpc = "tempDir" /\ Kept /\ efiSize' = efiSize /\ (Succeeds \/ Fails)
        /\ bpc' = "dirs" \/ (bpc' = "cleanup" /\ Fails)
    BY <1>3 DEF TempDir, Kept
  <2> QED  BY <1>1, <2>1, FitFrame
<1>4. CASE ISOLoader \/ Mcopied
  <2>1. /\ bpc \in {"isoLoader", "mcopy"} /\ Kept /\ efiSize' = efiSize /\ Succeeds
        /\ bpc' \notin {"ready", "cleanup", "done"}
    BY <1>4 DEF ISOLoader, Mcopied, vars, Kept
  <2> QED  BY <1>1, <2>1, FitFrame
<1>5. ASSUME NEW d \in Dir, ApplySource(d) PROVE FitInv'
  <2>1. /\ bpc \in Dir /\ Kept /\ efiSize' = efiSize /\ (Succeeds \/ Fails)
        /\ bpc' \in Dir \/ (bpc' = "cleanup" /\ Fails)
    BY <1>5 DEF ApplySource, Kept
  <2> QED  BY <1>1, <2>1, FitFrame DEF Dir
<1>6. ASSUME NEW d \in Dir, SourcesApplied(d) PROVE FitInv'
  <2>1. /\ bpc \in Dir /\ Kept /\ efiSize' = efiSize /\ Succeeds
        /\ bpc' \notin {"ready", "cleanup", "done"}
    BY <1>6 DEF SourcesApplied, vars, Kept, Dir
  <2> QED  BY <1>1, <2>1, FitFrame DEF Dir
<1>7. CASE Squash
  <2>1. /\ bpc = "squash" /\ Kept /\ efiSize' = efiSize /\ (Succeeds \/ Fails)
        /\ bpc' \in {"createEFI", "remove"} \/ (bpc' = "cleanup" /\ Fails)
    BY <1>7 DEF Squash, Kept
  <2> QED  BY <1>1, <2>1, FitFrame
<1>8. CASE CreateEFI
  <2>1. /\ bpc = "createEFI" /\ Kept /\ efiSize' \in Nat /\ (Succeeds \/ Fails)
        /\ bpc' = "mcopy" \/ (bpc' = "cleanup" /\ Fails)
    BY <1>1, <1>8 DEF CreateEFI, Kept
  <2> QED  BY <2>1, FitFrame
<1>9. CASE RemoveOutput
  <2>1. /\ bpc = "remove" /\ Kept /\ efiSize' = efiSize /\ (Succeeds \/ Fails)
        /\ bpc' = "xorriso" \/ (bpc' = "cleanup" /\ Fails)
    BY <1>9 DEF RemoveOutput, Kept
  <2> QED  BY <1>1, <2>1, FitFrame
<1> QED  BY <1>2, <1>3, <1>4, <1>5, <1>6, <1>7, <1>8, <1>9

\* Steps in the chroot: it stays calm as long as no call has failed of itself.
LEMMA FitInChroot ==
  ASSUME ChrootInv, FitInv, found' = found, spec' = spec, bpc' = bpc, efiSize' = efiSize,
         InChroot, Succeeds \/ Fails, Calm /\ Faultless /\ Succeeds => Calm'
  PROVE  FitInv'
<1>1. faults \in Nat /\ found.faults \in Nat /\ found.faults <= faults /\ efiSize \in Nat
  BY ChrootAssumption DEF ChrootInv, TypeOK, FitInv
<1>2. CASE Fails
  <2>1. faults' # found'.faults /\ found'.faults <= faults'  BY <1>1, <1>2
  <2>2. ~Faultless'  BY <2>1 DEF Faultless
  <2> QED  BY <2>1, <2>2, <1>1 DEF FitInv
<1>3. CASE Succeeds
  <2>1. Faultless' <=> Faultless  BY <1>3 DEF Faultless, Loadable, Efi
  <2> QED  BY <1>1, <1>3, <2>1 DEF FitInv, InChroot
<1> QED  BY <1>2, <1>3

\* The last of the mounts made so far has no mount point below it mounted.
LEMMA LastMountFree ==
  ASSUME ChrootInv, Calm, pc = "close", activeMounts # <<>>
  PROVE  ~Busy(LastMount)
<1>1. /\ activeMounts \in Seq(Mount) /\ failures = <<>> /\ ~err /\ root \in {"host", "chroot"}
      /\ Len(activeMounts) \in Nat \ {0}
  BY DEF ChrootInv, TypeOK, Calm
<1>2. root # "chroot"  BY <1>1 DEF ChrootInv, CallInv
<1> SUFFICES ASSUME LastMount = "dev" PROVE ~(mounted["dev/pts"] > 0)
  BY <1>2 DEF Busy, Below
<1>3. /\ Mounts[1] = "dev" /\ Mounts[2] = "dev/pts"
      /\ 1 \in 1 .. Len(Mounts) /\ 2 \in 1 .. Len(Mounts)
  <2>1. ExtraMounts \in Seq(STRING \cup {"dev", "dev/pts", "proc", "sys"})
    BY ChrootAssumption, SeqMonotonic
  <2>2. <<"dev", "dev/pts", "proc", "sys">> \in Seq(STRING \cup {"dev", "dev/pts", "proc", "sys"})
    OBVIOUS
  <2> QED  BY <2>1, <2>2, ConcatProperties DEF Mounts
<1>4. Len(activeMounts) \in 1 .. Len(Mounts) /\ Mounts[Len(activeMounts)] = "dev"
  BY <1>1 DEF Calm, LastMount
<1>5. Len(activeMounts) = 1  BY <1>3, <1>4, ChrootAssumption
<1>6. activeMounts[1] # "dev/pts"  BY <1>5 DEF LastMount
<1>7. Times("dev/pts", activeMounts) \cup Times("dev/pts", failures) = {}
  BY <1>1, <1>5, <1>6 DEF Times
<1>8. "dev/pts" \in Mount  BY <1>3 DEF Mount
<1>9. mounted["dev/pts"] \in Nat /\ mounted["dev/pts"] <= 1 /\ mounted["dev/pts"] # 1
  BY <1>7, <1>8 DEF ChrootInv, TypeOK, Tracked
<1> QED  BY <1>9

LEMMA FitChrootStep == ASSUME ChrootInv, FitInv, ChrootStep PROVE FitInv'
<1>1. /\ InChroot /\ found' = found /\ spec' = spec /\ bpc' = bpc /\ efiSize' = efiSize
  BY DEF ChrootStep, buildVars
<1>2. Succeeds \/ Fails
  BY DEF ChrootStep, Enter, PrepareMount, Prepared, EnterRoot, RestoreRoot, CloseMount, Closed,
         Return
<1>3. faults \in Nat  BY ChrootAssumption DEF ChrootInv, TypeOK
<1>4. ASSUME Calm, Succeeds PROVE Calm'
  <2>1. ~Fails  BY <1>4, <1>3
  <2>2. CASE Enter \/ EnterRoot \/ RestoreRoot \/ Return \/ Prepared
    <3>1. UNCHANGED <<activeMounts, failures, err>>
      BY <2>1, <2>2 DEF Enter, EnterRoot, RestoreRoot, Return, Prepared
    <3> QED  BY <1>4, <3>1 DEF Calm
  <2>3. CASE PrepareMount
    <3>1. /\ next <= Len(Mounts) /\ activeMounts' = Append(activeMounts, Mounts[next])
          /\ UNCHANGED <<failures, err>> /\ Len(activeMounts) = next - 1
          /\ next \in Nat /\ activeMounts \in Seq(Mount)
      BY <2>1, <2>3, MountsType DEF PrepareMount, ChrootInv, MountsInv, TypeOK
    <3>2. Mounts[next] \in Mount  BY <3>1, MountsType DEF ChrootInv, TypeOK
    <3>3. /\ Len(activeMounts') = next
          /\ \A i \in 1 .. next :
               activeMounts'[i] = IF i = next THEN Mounts[next] ELSE activeMounts[i]
      BY <3>1, <3>2
    <3> QED  BY <1>4, <3>1, <3>3, MountsType DEF Calm
  <2>4. CASE CloseMount
    <3>1. /\ activeMounts' = SubSeq(activeMounts, 1, Len(activeMounts) - 1)
          /\ UNCHANGED <<failures, err>>
      BY <1>4, <2>1, <2>4, LastMountFree DEF CloseMount
    <3>2. activeMounts \in Seq(Mount) /\ Len(activeMounts) \in Nat \ {0}
      BY <2>4 DEF CloseMount, ChrootInv, TypeOK
    <3>3. /\ Len(activeMounts') = Len(activeMounts) - 1
          /\ \A i \in 1 .. Len(activeMounts) - 1 : activeMounts'[i] = activeMounts[i]
      BY <3>1, <3>2, FrontOf
    <3>4. ASSUME NEW i \in 1 .. Len(activeMounts')
          PROVE  i <= Len(Mounts) /\ activeMounts'[i] = Mounts[i]
      <4>1. i \in 1 .. Len(activeMounts) - 1 /\ i \in 1 .. Len(activeMounts)  BY <3>2, <3>3
      <4>2. i <= Len(Mounts) /\ activeMounts[i] = Mounts[i]  BY <1>4, <4>1 DEF Calm
      <4> QED  BY <3>3, <4>1, <4>2
    <3>5. ~err' /\ failures' = <<>>  BY <1>4, <3>1 DEF Calm
    <3> QED  BY <3>4, <3>5 DEF Calm
  <2>5. CASE Closed  BY <1>4, <2>5 DEF Closed, Calm
  <2> QED  BY <2>2, <2>3, <2>4, <2>5 DEF ChrootStep
<1> QED  BY <1>1, <1>2, <1>4, FitInChroot

LEMMA FitCallback == ASSUME ChrootInv, DeliverInv, FitInv, InCallback PROVE FitInv'
<1>1. /\ InChroot /\ pc = "callback" /\ found' = found /\ spec' = spec /\ bpc' = bpc
      /\ efiSize' = efiSize /\ UNCHANGED <<activeMounts, failures>>
      /\ (Succeeds \/ Fails) /\ (err' = err \/ ~HasSystem \/ Fails)
  BY DEF InCallback
<1>2. Calm /\ Faultless => HasSystem
  BY <1>1, RootHasSystem DEF Calm, Faultless, InChroot
<1>3. faults \in Nat  BY ChrootAssumption DEF ChrootInv, TypeOK
<1>4. Calm /\ Faultless /\ Succeeds => Calm'  BY <1>1, <1>2, <1>3 DEF Calm
<1> QED  BY <1>1, <1>4, FitInChroot

LEMMA FitEnterLeave ==
  ASSUME ChrootInv, FitInv, EnterChroot \/ LeaveChroot PROVE FitInv'
<1>1. efiSize \in Nat /\ found.faults \in Nat /\ found.faults <= faults  BY DEF FitInv
<1>2. CASE EnterChroot
  <2>1. /\ bpc \in {"mkimage", "concat"} /\ bpc' \in {"mkimageIn", "concatIn"}
        /\ UNCHANGED <<found, spec, efiSize, faults, activeMounts, failures>> /\ err' = FALSE
    BY <1>2 DEF EnterChroot, Call
  <2>2. Faultless' <=> Faultless  BY <2>1 DEF Faultless, Loadable, Efi
  <2>3. Calm => Calm'  BY <2>1 DEF Calm
  <2> QED  BY <1>1, <2>1, <2>2, <2>3 DEF FitInv
<1>3. CASE LeaveChroot
  <2>1. /\ InChroot /\ Kept /\ efiSize' = efiSize /\ Succeeds
        /\ bpc' \in {"concat", "loaders"} \/ (bpc' = "cleanup" /\ err)
    BY <1>3 DEF LeaveChroot, vars, Kept
  <2>2. err => ~Faultless  BY <2>1 DEF FitInv, Calm, InChroot
  <2> QED  BY <1>1, <2>1, <2>2, FitFrame DEF InChroot
<1> QED  BY <1>2, <1>3

LEMMA FitCleanup == ASSUME ChrootInv, FitInv, Cleanup PROVE FitInv'
<1>1. /\ bpc = "cleanup" /\ bpc' = "done" /\ UNCHANGED <<found, spec, efiSize, code>>
      /\ (Succeeds \/ Fails)
  BY DEF Cleanup
<1>2. efiSize \in Nat /\ found.faults \in Nat /\ found.faults <= faults /\ faults \in Nat
  BY ChrootAssumption DEF FitInv, ChrootInv, TypeOK
<1>3. found'.faults <= faults' /\ (Faultless' => Faultless)
  BY <1>1, <1>2 DEF Faultless, Loadable, Efi
<1> QED  BY <1>1, <1>2, <1>3 DEF FitInv

LEMMA FitStep ==
  ChrootInv /\ DeliverInv /\ FitInv /\ [BuildNext]_allVars => FitInv'
<1> SUFFICES ASSUME ChrootInv, DeliverInv, FitInv, [BuildNext]_allVars PROVE FitInv'
  OBVIOUS
<1>1. CASE UNCHANGED allVars
  <2>1. UNCHANGED <<bpc, found, spec, efiSize, code, faults, err, failures, activeMounts>>
    BY <1>1 DEF allVars, vars, buildVars
  <2>2. (Faultless' <=> Faultless) /\ (Calm' <=> Calm)  BY <2>1 DEF Faultless, Loadable, Efi, Calm
  <2> QED  BY <2>1, <2>2 DEF FitInv
<1>2. CASE EFILoader \/ EFIFiles  BY <1>2, FitEFI DEF EFILoader, EFIFiles
<1> QED
  BY <1>1, <1>2, FitStart, FitKernel, FitMcopy, FitBurn, FitOthers, FitChrootStep, FitCallback,
     FitEnterLeave, FitCleanup DEF BuildNext, BuildStep

\* A build from a root with a system in which no call fails of itself succeeds, if its
\* EFI files leave the room that their file system needs (ISORun, createEFI).
THEOREM Succeeding == BuildSpec => []FittingBuildSucceeds
<1>1. BuildInit => ChrootInv /\ HostInv /\ DeliverInv /\ FitInv
  BY DeliverInit DEF BuildInit, Init, FitInv
<1>2. BuildSpec => [](ChrootInv /\ HostInv /\ DeliverInv /\ FitInv)
  BY <1>1, HostStep, DeliverStep, FitStep, PTL DEF BuildSpec
<1>3. FitInv => FittingBuildSucceeds  BY DEF FitInv, FittingBuildSucceeds, Faultless
<1> QED  BY <1>2, <1>3, PTL
=============================================================================
