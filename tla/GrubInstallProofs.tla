-------------------------- MODULE GrubInstallProofs --------------------------
(***************************************************************************)
(* Theorems about GrubInstall, for any number of boot entries, images,     *)
(* runs and faults.                                                        *)
(***************************************************************************)
EXTENDS GrubInstall, TLAPS, SequenceTheorems, FiniteSetTheorems, WellFoundedInduction

-----------------------------------------------------------------------------
(* Induction, stated with sets.                                            *)

\* Every non-empty set of numbers has a least one.
LEMMA NatMin ==
  ASSUME NEW T \in SUBSET Nat, T # {}
  PROVE  \E n \in T : \A m \in T : n <= m
<1>1. PICK n \in T : \A m \in T : ~(<<m, n>> \in OpToRel(<, Nat))
  BY NatLessThanWellFounded, WFMin, Zenon
<1>2. \A m \in T : ~(m < n)
  BY <1>1, Zenon DEF OpToRel
<1> QED
  BY <1>2

\* A set that holds 0 and every successor holds all numbers.
LEMMA NatSetInduction ==
  ASSUME NEW S, 0 \in S, \A n \in Nat : n \in S => n + 1 \in S
  PROVE  Nat \subseteq S
<1> DEFINE T == Nat \ S
<1> SUFFICES ASSUME T # {} PROVE FALSE
  OBVIOUS
<1>1. PICK n \in T : \A m \in T : n <= m
  BY NatMin
<1>2. n # 0 /\ n - 1 \in Nat /\ ~(n <= n - 1)
  BY <1>1
<1>3. n - 1 \in S
  BY <1>1, <1>2
<1> QED
  BY <1>1, <1>2, <1>3

\* A set of sequences that holds the empty one and every longer one holds them all.
LEMMA SeqSetInduction ==
  ASSUME NEW D, NEW S, <<>> \in S,
         \A s \in Seq(D) : \A e \in D : s \in S => Append(s, e) \in S
  PROVE  Seq(D) \subseteq S
<1> DEFINE N == {n \in Nat : \A s \in Seq(D) : Len(s) = n => s \in S}
<1>1. 0 \in N
  <2> SUFFICES ASSUME NEW s \in Seq(D), Len(s) = 0 PROVE s \in S
    OBVIOUS
  <2>1. s = <<>>
    BY EmptySeq
  <2> QED
    BY <2>1
<1>2. ASSUME NEW n \in Nat, n \in N PROVE n + 1 \in N
  <2> SUFFICES ASSUME NEW s \in Seq(D), Len(s) = n + 1 PROVE s \in S
    OBVIOUS
  <2>1. s # <<>>
    BY EmptySeq
  <2>2. PICK t \in Seq(D), e \in D : s = Append(t, e)
    BY <2>1, SequenceEmptyOrAppend
  <2>3. Len(t) = n
    BY <2>2, AppendProperties
  <2>4. t \in S
    BY <1>2, <2>3
  <2> QED
    BY <2>2, <2>4
<1>3. Nat \subseteq N
  BY <1>1, <1>2, NatSetInduction
<1> QED
  BY <1>3, LenProperties
-----------------------------------------------------------------------------
(* Firsts.                                                                 *)

Add(taken, m, S) == IF m \in S /\ ~Contains(taken, m) THEN Append(taken, m) ELSE taken

\* f is the function that Firsts takes the last value of.
Takes(f, ns, S) ==
  f = [i \in 0 .. Len(ns) |-> IF i = 0 THEN <<>> ELSE Add(f[i - 1], ns[i], S)]

\* There is one for every sequence, built along the sequence.
LEMMA TakesExists ==
  ASSUME NEW D, NEW S, NEW ns \in Seq(D)
  PROVE  \E f : Takes(f, ns, S)
<1> DEFINE Has == {s \in Seq(D) : \E f : Takes(f, s, S)}
<1>1. <<>> \in Has
  <2> DEFINE f == [i \in 0 .. 0 |-> <<>>]
  <2>1. Takes(f, <<>>, S)
    BY DEF Takes
  <2> QED
    BY <2>1
<1>2. ASSUME NEW s \in Seq(D), NEW e \in D, s \in Has PROVE Append(s, e) \in Has
  <2>1. PICK f : Takes(f, s, S)
    BY <1>2
  <2> DEFINE t == Append(s, e)
             g == [i \in 0 .. Len(s) + 1 |-> IF i <= Len(s) THEN f[i] ELSE Add(f[Len(s)], e, S)]
  <2>2. /\ t \in Seq(D) /\ Len(t) = Len(s) + 1 /\ Len(s) \in Nat
        /\ \A i \in 1 .. Len(s) : t[i] = s[i]
        /\ t[Len(s) + 1] = e
    BY AppendProperties, LenProperties
  <2>3. /\ f[0] = <<>> /\ \A i \in 1 .. Len(s) : f[i] = Add(f[i - 1], s[i], S)
    <3> HIDE DEF t, g
    <3> QED BY <2>1, <2>2 DEF Takes
  <2>4. ASSUME NEW i \in 0 .. Len(s) + 1
        PROVE  g[i] = IF i = 0 THEN <<>> ELSE Add(g[i - 1], t[i], S)
    <3> HIDE DEF t
    <3>1. CASE i = 0
      BY <2>2, <2>3, <3>1
    <3>2. CASE i \in 1 .. Len(s)
      BY <2>2, <2>3, <3>2
    <3>3. CASE i = Len(s) + 1
      BY <2>2, <3>3
    <3> QED
      BY <2>2, <3>1, <3>2, <3>3
  <2>5. Takes(g, t, S)
    <3> DEFINE h == [i \in 0 .. Len(t) |-> IF i = 0 THEN <<>> ELSE Add(g[i - 1], t[i], S)]
    <3>1. DOMAIN g = DOMAIN h /\ \A i \in 0 .. Len(s) + 1 : g[i] = h[i]
      <4> HIDE DEF t, g
      <4>1. DOMAIN g = 0 .. Len(s) + 1
        BY DEF g
      <4> QED
        BY <2>2, <2>4, <4>1
    <3>2. g = h
      BY <2>2, <3>1, Zenon
    <3> QED
      BY <3>2 DEF Takes
  <2> QED
    BY <2>2, <2>5
<1> HIDE DEF Has
<1>3. Seq(D) \subseteq Has
  BY <1>1, <1>2, SeqSetInduction
<1> QED
  BY <1>3 DEF Has

LEMMA FirstsIs ==
  ASSUME NEW D, NEW S, NEW ns \in Seq(D)
  PROVE  \E f : Takes(f, ns, S) /\ Firsts(ns, S) = f[Len(ns)]
<1> DEFINE f == CHOOSE f : Takes(f, ns, S)
<1>1. Takes(f, ns, S)
  BY TakesExists, Zenon
<1>2. Firsts(ns, S) = f[Len(ns)]
  BY DEF Firsts, Takes, Add
<1> QED
  BY <1>1, <1>2

\* Two such functions agree where both are defined.
Begins(s, t) == /\ Len(s) \in Nat /\ Len(t) \in Nat /\ Len(s) <= Len(t)
                /\ \A i \in 1 .. Len(s) : s[i] = t[i]

LEMMA TakesAgree ==
  ASSUME NEW S, NEW s, NEW t, Begins(s, t),
         NEW f, Takes(f, s, S), NEW g, Takes(g, t, S)
  PROVE  \A i \in 0 .. Len(s) : f[i] = g[i]
<1> DEFINE Same == {i \in Nat : i <= Len(s) => f[i] = g[i]}
<1>1. Len(s) \in Nat /\ Len(t) \in Nat /\ Len(s) <= Len(t) /\ \A i \in 1 .. Len(s) : s[i] = t[i]
  BY DEF Begins
<1>2. /\ f[0] = <<>> /\ \A i \in 1 .. Len(s) : f[i] = Add(f[i - 1], s[i], S)
  BY <1>1 DEF Takes
<1>3. /\ g[0] = <<>> /\ \A i \in 1 .. Len(t) : g[i] = Add(g[i - 1], t[i], S)
  BY <1>1 DEF Takes
<1>4. 0 \in Same
  BY <1>2, <1>3
<1>5. ASSUME NEW n \in Nat, n \in Same PROVE n + 1 \in Same
  <2> SUFFICES ASSUME n + 1 <= Len(s) PROVE f[n + 1] = g[n + 1]
    OBVIOUS
  <2>1. n + 1 \in 1 .. Len(s) /\ n + 1 \in 1 .. Len(t) /\ (n + 1) - 1 = n /\ f[n] = g[n]
    BY <1>1, <1>5
  <2> QED
    BY <1>1, <1>2, <1>3, <2>1
<1> HIDE DEF Same
<1>6. Nat \subseteq Same
  BY <1>4, <1>5, NatSetInduction
<1> QED
  BY <1>1, <1>6 DEF Same

\* The equations of Firsts.
LEMMA FirstsEmpty == \A S : Firsts(<<>>, S) = <<>>
<1> SUFFICES ASSUME NEW S PROVE Firsts(<<>>, S) = <<>>
  OBVIOUS
<1>1. PICK f : Takes(f, <<>>, S) /\ Firsts(<<>>, S) = f[Len(<<>>)]
  <2>1. <<>> \in Seq(Nat)
    OBVIOUS
  <2> QED
    BY <2>1, FirstsIs
<1> QED
  BY <1>1 DEF Takes

LEMMA FirstsAppend ==
  ASSUME NEW D, NEW S, NEW s \in Seq(D), NEW e \in D
  PROVE  Firsts(Append(s, e), S) = Add(Firsts(s, S), e, S)
<1> DEFINE t == Append(s, e)
<1>1. /\ t \in Seq(D) /\ Len(t) = Len(s) + 1 /\ Len(s) \in Nat
      /\ \A i \in 1 .. Len(s) : t[i] = s[i]
      /\ t[Len(s) + 1] = e
  BY AppendProperties, LenProperties
<1>2. PICK f : Takes(f, s, S) /\ Firsts(s, S) = f[Len(s)]
  BY FirstsIs
<1> HIDE DEF t
<1>3. PICK g : Takes(g, t, S) /\ Firsts(t, S) = g[Len(t)]
  BY <1>1, FirstsIs
<1>4. f[Len(s)] = g[Len(s)]
  <2>1. Begins(s, t)
    BY <1>1 DEF Begins
  <2>2. \A i \in 0 .. Len(s) : f[i] = g[i]
    BY <1>2, <1>3, <2>1, TakesAgree
  <2> QED
    BY <1>1, <2>2
<1>5. g[Len(s) + 1] = Add(g[Len(s)], e, S)
  <2>1. Len(s) + 1 \in 0 .. Len(t) /\ Len(s) + 1 # 0 /\ (Len(s) + 1) - 1 = Len(s)
    BY <1>1
  <2> QED
    BY <1>1, <1>3, <2>1 DEF Takes
<1> QED
  BY <1>1, <1>2, <1>3, <1>4, <1>5 DEF t

\* What Add makes of a sequence without repetitions.
Once(s) == \A i, j \in 1 .. Len(s) : s[i] = s[j] => i = j

LEMMA AddKeeps ==
  ASSUME NEW D, NEW S, NEW s \in Seq(D), NEW e \in D, Once(s)
  PROVE  /\ Add(s, e, S) \in Seq(D) /\ Once(Add(s, e, S))
         /\ \A m : Contains(Add(s, e, S), m) <=> Contains(s, m) \/ (m = e /\ e \in S)
<1> DEFINE t == Append(s, e)
<1>1. /\ t \in Seq(D) /\ Len(t) = Len(s) + 1 /\ Len(s) \in Nat
      /\ \A i \in 1 .. Len(s) : t[i] = s[i]
      /\ t[Len(s) + 1] = e
  BY AppendProperties, LenProperties
<1> HIDE DEF t
<1>2. CASE e \in S /\ ~Contains(s, e)
  <2>1. Add(s, e, S) = t
    BY <1>2 DEF Add, t
  <2>2. Once(t)
    <3> SUFFICES ASSUME NEW i \in 1 .. Len(t), NEW j \in 1 .. Len(t), t[i] = t[j] PROVE i = j
      BY DEF Once
    <3> QED
      BY <1>1, <1>2 DEF Once, Contains
  <2>3. ASSUME NEW m PROVE Contains(t, m) <=> Contains(s, m) \/ m = e
    <3>1. Contains(t, m) => Contains(s, m) \/ m = e
      BY <1>1 DEF Contains
    <3>2. Contains(s, m) => Contains(t, m)
      BY <1>1 DEF Contains
    <3>3. Contains(t, e)
      BY <1>1 DEF Contains
    <3> QED
      BY <3>1, <3>2, <3>3
  <2> QED
    BY <1>1, <1>2, <2>1, <2>2, <2>3
<1>3. CASE ~(e \in S /\ ~Contains(s, e))
  BY <1>3, Zenon DEF Add
<1> QED
  BY <1>2, <1>3

\* Firsts lists the numbers of ns that are in S, each one once.
LEMMA FirstsLists ==
  ASSUME NEW D, NEW S, NEW ns \in Seq(D)
  PROVE  /\ Firsts(ns, S) \in Seq(D) /\ Once(Firsts(ns, S))
         /\ \A m : Contains(Firsts(ns, S), m) <=> Contains(ns, m) /\ m \in S
<1> DEFINE P(s) == /\ Firsts(s, S) \in Seq(D) /\ Once(Firsts(s, S))
                   /\ \A m : Contains(Firsts(s, S), m) <=> Contains(s, m) /\ m \in S
           All == {s \in Seq(D) : P(s)}
<1>1. <<>> \in All
  <2>1. Len(<<>>) = 0 /\ <<>> \in Seq(D)
    OBVIOUS
  <2>2. Once(<<>>) /\ \A m : ~Contains(<<>>, m)
    BY <2>1 DEF Once, Contains
  <2> QED
    BY <2>1, <2>2, FirstsEmpty
<1>2. ASSUME NEW s \in Seq(D), NEW e \in D, s \in All PROVE Append(s, e) \in All
  <2>1. P(s)
    BY <1>2
  <2>2. Append(s, e) \in Seq(D) /\ Firsts(Append(s, e), S) = Add(Firsts(s, S), e, S)
    BY FirstsAppend, AppendProperties
  <2>3. ASSUME NEW m PROVE Contains(Append(s, e), m) <=> Contains(s, m) \/ m = e
    <3>1. /\ Len(Append(s, e)) = Len(s) + 1 /\ Len(s) \in Nat
          /\ \A i \in 1 .. Len(s) : Append(s, e)[i] = s[i]
          /\ Append(s, e)[Len(s) + 1] = e
      BY AppendProperties, LenProperties
    <3>2. PICK t : t = Append(s, e)
      OBVIOUS
    <3> QED
      BY <3>1, <3>2 DEF Contains
  <2>4. PICK r : r = Firsts(s, S)
    OBVIOUS
  <2>5. /\ Add(r, e, S) \in Seq(D) /\ Once(Add(r, e, S))
        /\ \A m : Contains(Add(r, e, S), m) <=> Contains(r, m) \/ (m = e /\ e \in S)
    <3>1. r \in Seq(D) /\ Once(r)
      BY <2>1, <2>4
    <3> HIDE DEF P, All
    <3> QED
      BY <3>1, AddKeeps
  <2>6. \A m : Contains(Firsts(Append(s, e), S), m) <=> Contains(Append(s, e), m) /\ m \in S
    BY <2>1, <2>2, <2>3, <2>4, <2>5, Zenon
  <2> QED
    BY <2>2, <2>4, <2>5, <2>6
<1> HIDE DEF All
<1>3. Seq(D) \subseteq All
  BY <1>1, <1>2, SeqSetInduction
<1> QED
  BY <1>3 DEF All

\* What is listed for a part of S is in the order of the list for S.
LEMMA FirstsOfFirsts ==
  ASSUME NEW D, NEW S, NEW T, T \subseteq S, NEW ns \in Seq(D)
  PROVE  Firsts(Firsts(ns, S), T) = Firsts(ns, T)
<1> DEFINE All == {s \in Seq(D) : Firsts(Firsts(s, S), T) = Firsts(s, T)}
<1>1. <<>> \in All
  BY FirstsEmpty
<1>2. ASSUME NEW s \in Seq(D), NEW e \in D, s \in All PROVE Append(s, e) \in All
  <2>1. PICK r : r = Firsts(s, S)
    OBVIOUS
  <2>2. /\ Append(s, e) \in Seq(D) /\ Firsts(Append(s, e), S) = Add(r, e, S)
        /\ Firsts(Append(s, e), T) = Add(Firsts(s, T), e, T)
    BY <2>1, FirstsAppend, AppendProperties
  <2>3. r \in Seq(D) /\ \A m : Contains(r, m) <=> Contains(s, m) /\ m \in S
    BY <2>1, FirstsLists
  <2>4. \A m : Contains(Firsts(s, T), m) <=> Contains(s, m) /\ m \in T
    BY FirstsLists
  <2>5. Firsts(r, T) = Firsts(s, T)
    BY <1>2, <2>1
  <2>6. CASE e \in S /\ ~Contains(r, e)
    <3>1. Firsts(Add(r, e, S), T) = Add(Firsts(r, T), e, T)
      BY <2>3, <2>6, FirstsAppend DEF Add
    <3> QED
      BY <2>2, <2>5, <3>1
  <2>7. CASE ~(e \in S /\ ~Contains(r, e))
    <3>1. Add(r, e, S) = r
      BY <2>7, Zenon DEF Add
    <3>2. e \in T => Contains(Firsts(s, T), e)
      BY <2>3, <2>4, <2>7
    <3>3. Add(Firsts(s, T), e, T) = Firsts(s, T)
      BY <3>2, Zenon DEF Add
    <3> QED
      BY <2>2, <2>5, <3>1, <3>3
  <2> QED
    BY <2>6, <2>7
<1> HIDE DEF All
<1>3. Seq(D) \subseteq All
  BY <1>1, <1>2, SeqSetInduction
<1> QED
  BY <1>3 DEF All

\* A number put before the others comes first if it is in S, and adds nothing if not.
LEMMA FirstsOfOne ==
  ASSUME NEW D, NEW S, NEW n \in D
  PROVE  Firsts(<<n>>, S) = IF n \in S THEN <<n>> ELSE <<>>
<1>1. <<>> \in Seq(D) /\ Append(<<>>, n) = <<n>> /\ ~Contains(<<>>, n)
  BY DEF Contains
<1>2. Firsts(<<n>>, S) = Add(<<>>, n, S)
  BY <1>1, FirstsEmpty, FirstsAppend
<1> QED
  BY <1>1, <1>2, Zenon DEF Add

LEMMA ConcatAppend ==
  ASSUME NEW D, NEW n \in D, NEW s \in Seq(D), NEW e \in D
  PROVE  <<n>> \o Append(s, e) = Append(<<n>> \o s, e)
<1>1. <<n>> \in Seq(D) /\ <<e>> \in Seq(D) /\ <<n>> \o s \in Seq(D)
  BY ConcatProperties
<1>2. Append(s, e) = s \o <<e>> /\ Append(<<n>> \o s, e) = (<<n>> \o s) \o <<e>>
  BY <1>1, AppendIsConcat
<1> QED
  BY <1>1, <1>2, ConcatAssociative

LEMMA FirstsOfOther ==
  ASSUME NEW D, NEW S, NEW n \in D, n \notin S, NEW ns \in Seq(D)
  PROVE  Firsts(<<n>> \o ns, S) = Firsts(ns, S)
<1> DEFINE All == {s \in Seq(D) : Firsts(<<n>> \o s, S) = Firsts(s, S)}
<1>1. <<>> \in All
  <2>1. <<n>> \o <<>> = <<n>>
    OBVIOUS
  <2> QED
    BY <2>1, FirstsOfOne, FirstsEmpty
<1>2. ASSUME NEW s \in Seq(D), NEW e \in D, s \in All PROVE Append(s, e) \in All
  <2>1. <<n>> \o s \in Seq(D)
    BY ConcatProperties
  <2>2. Firsts(<<n>> \o Append(s, e), S) = Add(Firsts(<<n>> \o s, S), e, S)
    <3>1. <<n>> \o Append(s, e) = Append(<<n>> \o s, e)
      BY ConcatAppend
    <3> QED
      BY <2>1, <3>1, FirstsAppend
  <2>3. Append(s, e) \in Seq(D) /\ Firsts(Append(s, e), S) = Add(Firsts(s, S), e, S)
    BY FirstsAppend, AppendProperties
  <2> QED
    BY <1>2, <2>2, <2>3
<1> HIDE DEF All
<1>3. Seq(D) \subseteq All
  BY <1>1, <1>2, SeqSetInduction
<1> QED
  BY <1>3 DEF All

LEMMA FirstsHead ==
  ASSUME NEW D, NEW S, NEW n \in D, n \in S, NEW ns \in Seq(D)
  PROVE  Firsts(<<n>> \o ns, S) # <<>> /\ Head(Firsts(<<n>> \o ns, S)) = n
<1> DEFINE All == {s \in Seq(D) : /\ Firsts(<<n>> \o s, S) # <<>>
                                  /\ Head(Firsts(<<n>> \o s, S)) = n}
<1>1. <<>> \in All
  <2>1. <<n>> \o <<>> = <<n>>
    OBVIOUS
  <2> QED
    BY <2>1, FirstsOfOne
<1>2. ASSUME NEW s \in Seq(D), NEW e \in D, s \in All PROVE Append(s, e) \in All
  <2>1. <<n>> \o s \in Seq(D)
    BY ConcatProperties
  <2>2. PICK r : r = Firsts(<<n>> \o s, S)
    OBVIOUS
  <2>3. Firsts(<<n>> \o Append(s, e), S) = Add(r, e, S)
    <3>1. <<n>> \o Append(s, e) = Append(<<n>> \o s, e)
      BY ConcatAppend
    <3> QED
      BY <2>1, <2>2, <3>1, FirstsAppend
  <2>4. r \in Seq(D) /\ r # <<>> /\ Head(r) = n
    BY <1>2, <2>1, <2>2, FirstsLists
  <2>5. Append(r, e) # <<>> /\ Head(Append(r, e)) = n
    BY <2>4
  <2>6. Add(r, e, S) # <<>> /\ Head(Add(r, e, S)) = n
    BY <2>4, <2>5, Zenon DEF Add
  <2> QED
    BY <2>3, <2>6, AppendProperties
<1> HIDE DEF All
<1>3. Seq(D) \subseteq All
  BY <1>1, <1>2, SeqSetInduction
<1> QED
  BY <1>3 DEF All
-----------------------------------------------------------------------------
(* The inductive invariant.                                                *)

EntryStages == {"clear", "load", "find", "order"}
EFIStages   == {"modules", "shim", "fallback", "grubcfg"} \cup EntryStages

\* No call of the run has failed so far.
Calm == faults = start.faults
\* The run is past the stages of EFI, with a boot entry or not.
PastEFI     == (pc = "config" \/ Succeeded) /\ args.firmware = "efi"
PastEntries == PastEFI /\ args.entry

Files == Dirs \X {"shim.efi", "grub.efi", "bootx64.efi", "grub.cfg"}
Types ==
  /\ option \in [Number -> Option] /\ order \in Seq(Number)
  /\ bm \in [entries : [Number -> Option], order : Seq(Number)]
  /\ efi \in [dev : 0 .. MaxRuns, files : SUBSET Files]
  /\ state \subseteq {"loopback.mod", "squash4.mod", "core", "grub.cfg"}
  /\ args.clear \in BOOLEAN /\ args.entry \in BOOLEAN /\ args.firmware \in {"efi", "bios"}
  /\ pc \in Stages \cup {"idle", "done"}
  /\ walk \in {1, 2} /\ found \in BOOLEAN /\ number \in Number
  /\ runs \in 0 .. MaxRuns /\ faults \in 0 .. MaxFaults
  /\ start.faults \in Nat /\ start.faults <= faults

\* Which stages a run comes to with its arguments.
StageInv ==
  /\ pc \in Stages => err = "none"
  /\ pc \in EFIStages => args.firmware = "efi"
  /\ pc = "bios" => args.firmware = "bios"
  /\ pc \in EntryStages => args.entry
  /\ pc = "clear" => args.clear

\* What is on the EFI and the state partition.  A run gets past the shim only with a shim.
Copied(fs) == Dirs \X fs \subseteq efi.files
FilesInv ==
  /\ pc = "modules" /\ walk = 1 => ~found
  /\ pc = "shim" => IF walk = 1 THEN ~found ELSE found /\ Copied({"shim.efi"})
  /\ pc \in {"fallback", "grubcfg"} \cup EntryStages \/ PastEFI =>
       /\ Copied({"shim.efi"})
       /\ Calm => Copied(Range(ShimFiles) \cap args.image)
  /\ pc \in {"grubcfg"} \cup EntryStages \/ PastEFI => <<"boot", "bootx64.efi">> \in efi.files
  /\ pc \in EntryStages \/ PastEFI => Copied({"grub.cfg"})
  /\ Succeeded => "grub.cfg" \in state

\* The boot manager knows the variables, which name each partition of elemental once.
EntryInv ==
  /\ pc \in {"find", "order"} => bm.entries = option
  /\ pc = "order" => option[number] = Ours(efi.dev)
  /\ \A m, n \in Mine(option) : option[m] = option[n] => m = n
  /\ args.clear /\ Calm =>
       /\ pc \in {"load", "find"} => Mine(option) = {}
       /\ pc = "order" \/ PastEntries => Mine(option) = {number}

\* The order a run has written.
OrderInv ==
  /\ PastEntries =>
       /\ order # <<>> /\ option[Head(order)] = Ours(efi.dev)
       /\ Once(order) /\ \A i \in 1 .. Len(order) : option[order[i]] # NoOption
  /\ pc \in {"find", "order"} /\ Calm => bm.order = order
  /\ (pc \in Stages \/ Succeeded) /\ Calm => OthersIn(order, option) = start.others

\* What stops a run in which no call fails.
SoundImage == Range(Modules) \cup Range(ShimFiles) \subseteq args.image
Hindered == \/ \E n \in Number : option[n].name = "broken"
            \/ \A n \in Number \ {MaxEntry} : option[n] # NoOption
RetryInv == pc = "done" /\ Calm /\ SoundImage => err = "none" \/ Hindered

IInv == Types /\ StageInv /\ FilesInv /\ EntryInv /\ OrderInv /\ RetryInv
-----------------------------------------------------------------------------
(* What the steps do.                                                      *)

USE DEF firmwareVars, diskVars, callVars

LEMMA Parameters ==
  /\ MaxEntry \in Nat /\ MaxEntry # 0 /\ MaxRuns \in Nat /\ MaxFaults \in Nat
  /\ Number \subseteq Nat /\ 0 \in Number
BY GrubAssumption DEF Number

LEMMA Artifacts ==
  /\ Len(Modules) = 2 /\ Len(ShimFiles) = 2
  /\ Modules[1] = "loopback.mod" /\ Modules[2] = "squash4.mod"
  /\ ShimFiles[1] = "shim.efi" /\ ShimFiles[2] = "grub.efi"
  /\ Range(Modules) = {"loopback.mod", "squash4.mod"}
  /\ Range(ShimFiles) = {"shim.efi", "grub.efi"}
<1>1. /\ Len(Modules) = 2 /\ Len(ShimFiles) = 2
      /\ Modules[1] = "loopback.mod" /\ Modules[2] = "squash4.mod"
      /\ ShimFiles[1] = "shim.efi" /\ ShimFiles[2] = "grub.efi"
      /\ DOMAIN Modules = {1, 2} /\ DOMAIN ShimFiles = {1, 2}
  BY DEF Modules, ShimFiles
<1>2. Range(Modules) = {Modules[1], Modules[2]} /\ Range(ShimFiles) = {ShimFiles[1], ShimFiles[2]}
  BY <1>1, Zenon DEF Range
<1> QED
  BY <1>1, <1>2

\* The steps that change files only.
FileStep ==
  /\ pc \in Stages /\ UNCHANGED <<firmwareVars, callVars, bm, number>>
  /\ efi' \in [dev : 0 .. MaxRuns, files : SUBSET Files] /\ efi'.dev = efi.dev
  /\ efi.files \subseteq efi'.files
  /\ state' \subseteq {"loopback.mod", "squash4.mod", "core", "grub.cfg"}
  /\ walk' \in {1, 2} /\ found' \in BOOLEAN
  /\ faults' \in {faults, faults + 1} /\ faults' <= MaxFaults

LEMMA Counted == Types /\ (Succeeds \/ Fails) =>
  faults' \in {faults, faults + 1} /\ faults' <= MaxFaults
BY Parameters DEF Types, Succeeds, Fails

\* The call that copies one file of a list.
LEMMA WalkedIs ==
  ASSUME Types, NEW files, Len(files) = 2, NEW got \in BOOLEAN, NEW next, NEW e, e # "none",
         Walked(files, got, next, e)
  PROVE  /\ walk' \in {1, 2} /\ found' \in BOOLEAN
         /\ \/ ~found /\ ~got /\ pc' = "done" /\ err' = e
            \/ (found \/ got) /\ walk = 1 /\ walk' = 2 /\ found' /\ UNCHANGED <<pc, err>>
            \/ (found \/ got) /\ walk = 2 /\ walk' = 1 /\ ~found' /\ pc' = next /\ UNCHANGED err
<1>1. walk \in {1, 2} /\ found \in BOOLEAN
  BY DEF Types
<1>2. CASE ~found /\ ~got
  BY <1>1, <1>2 DEF Walked, Abort
<1>3. CASE (found \/ got) /\ walk = 1
  <2>1. walk' = walk + 1 /\ found' = (found \/ got) /\ UNCHANGED <<pc, err>>
    BY <1>3 DEF Walked
  <2> QED
    BY <1>1, <1>3, <2>1
<1>4. CASE (found \/ got) /\ walk = 2
  <2>1. walk' = 1 /\ found' = FALSE /\ pc' = next /\ UNCHANGED err
    BY <1>4 DEF Walked, Goto
  <2> QED
    BY <1>1, <1>4, <2>1
<1> QED
  BY <1>1, <1>2, <1>3, <1>4

\* Files that come to the EFI partition.
Gets(fs) == /\ efi' \in [dev : 0 .. MaxRuns, files : SUBSET Files] /\ efi'.dev = efi.dev
            /\ efi'.files = efi.files \cup fs
LEMMA GetsAll ==
  ASSUME Types, NEW fs \in SUBSET Files, efi' = [efi EXCEPT !.files = @ \cup fs]
  PROVE  Gets(fs)
BY DEF Types, Gets

LEMMA CannotPrepareDoes ==
  ASSUME Types, CannotPrepare
  PROVE  FileStep /\ pc' = "done" /\ err' = "prepare" /\ faults' = faults + 1
BY Counted DEF CannotPrepare, FileStep, Types, Stages, Abort, Fails

LEMMA InterruptDoes ==
  ASSUME Types, Interrupt
  PROVE  FileStep /\ pc' = "done" /\ err' = "interrupted" /\ faults' = faults + 1
BY Counted DEF Interrupt, FileStep, Types, Ended, Abort, Fails

LEMMA CopyModuleDoes ==
  ASSUME Types, CopyModule
  PROVE  /\ FileStep /\ pc = "modules"
         /\ \E got \in BOOLEAN :
              /\ ~got /\ Modules[walk] \in args.image => faults' = faults + 1
              /\ Walked(Modules, got, "shim", "modules")
<1>1. /\ pc = "modules" /\ UNCHANGED <<firmwareVars, efi, callVars, bm, number>>
      /\ (Succeeds \/ Fails) /\ state' \in {state, state \cup {Modules[walk]}}
  BY DEF CopyModule
<1>2. Modules[walk] \in {"loopback.mod", "squash4.mod"}
  BY Artifacts DEF Types
<1>3. PICK got \in BOOLEAN : /\ ~got /\ Modules[walk] \in args.image => faults' = faults + 1
                            /\ Walked(Modules, got, "shim", "modules")
  <2>1. TRUE \in BOOLEAN /\ FALSE \in BOOLEAN
    OBVIOUS
  <2> QED
    BY <2>1, Zenon DEF CopyModule, Fails
<1>4. walk' \in {1, 2} /\ found' \in BOOLEAN
  BY <1>3, WalkedIs, Artifacts
<1> QED
  BY <1>1, <1>2, <1>3, <1>4, Counted DEF FileStep, Types, Stages

LEMMA InFiles ==
  ASSUME NEW ds \in SUBSET Dirs, NEW f \in {"shim.efi", "grub.efi", "bootx64.efi", "grub.cfg"}
  PROVE  {<<d, f>> : d \in ds} \in SUBSET Files
<1> SUFFICES ASSUME NEW d \in ds PROVE <<d, f>> \in Files
  OBVIOUS
<1> QED
  BY DEF Files

LEMMA CopyShimDoes ==
  ASSUME Types, CopyShim
  PROVE  /\ FileStep /\ pc = "shim"
         /\ \E got \in BOOLEAN :
              /\ got => {<<d, ShimFiles[walk]>> : d \in Dirs} \subseteq efi'.files
              /\ ~got /\ ShimFiles[walk] \in args.image => faults' = faults + 1
              /\ got \/ ShimFiles[walk] \in args.image \/ faults' = faults
              /\ got => ShimFiles[walk] \in args.image
              /\ Walked(ShimFiles, got, "fallback", "shim")
<1> DEFINE f == ShimFiles[walk]
           files(ds) == {<<d, f>> : d \in ds}
           Copies(ds) == efi' = [efi EXCEPT !.files = @ \cup files(ds)]
<1>1. f \in {"shim.efi", "grub.efi", "bootx64.efi", "grub.cfg"}
  BY Artifacts DEF Types
<1>2. /\ pc = "shim" /\ UNCHANGED <<firmwareVars, state, callVars, bm, number>>
      /\ (Succeeds \/ Fails)
  BY DEF CopyShim
<1>3. PICK ds \in SUBSET Dirs, got \in BOOLEAN :
        /\ Copies(ds) /\ (got => ds = Dirs) /\ (got => f \in args.image)
        /\ ~got /\ f \in args.image => faults' = faults + 1
        /\ got \/ f \in args.image \/ faults' = faults
        /\ Walked(ShimFiles, got, "fallback", "shim")
  <2>1. TRUE \in BOOLEAN /\ FALSE \in BOOLEAN /\ {} \in SUBSET Dirs /\ Dirs \in SUBSET Dirs
        /\ {"boot"} \in SUBSET Dirs
    BY DEF Dirs
  <2> QED
    BY <2>1, Zenon DEF CopyShim, Fails, Succeeds
<1>4. files(ds) \in SUBSET Files
  BY <1>1, InFiles
<1>5. PICK fs : fs = files(ds)
  OBVIOUS
<1>6. Gets(fs)
  BY <1>3, <1>4, <1>5, GetsAll
<1>7. got => files(Dirs) \subseteq efi'.files
  BY <1>3, <1>5, <1>6 DEF Gets
<1>8. walk' \in {1, 2} /\ found' \in BOOLEAN
  BY <1>3, WalkedIs, Artifacts
<1>9. FileStep
  BY <1>2, <1>6, <1>8, Counted DEF FileStep, Types, Stages, Gets
<1> HIDE DEF files
<1> QED
  BY <1>2, <1>3, <1>7, <1>9, Zenon DEF files

LEMMA FallbackDoes ==
  ASSUME Types, Fallback
  PROVE  /\ FileStep /\ pc = "fallback"
         /\ \/ pc' = "grubcfg" /\ UNCHANGED err /\ <<"boot", "bootx64.efi">> \in efi'.files
            \/ /\ pc' = "done" /\ err' = "fallback"
               /\ faults' = faults + 1 \/ <<"boot", "shim.efi">> \notin efi.files
<1>1. /\ pc = "fallback" /\ UNCHANGED <<firmwareVars, state, callVars, bm, walk, found, number>>
      /\ (Succeeds \/ Fails)
  BY DEF Fallback, Succeeds
<1>2. \/ /\ efi' = [efi EXCEPT !.files = @ \cup {<<"boot", "bootx64.efi">>}] /\ Goto("grubcfg")
      \/ /\ UNCHANGED efi /\ Abort("fallback")
         /\ faults' = faults + 1 \/ <<"boot", "shim.efi">> \notin efi.files
  BY Zenon DEF Fallback, Fails
<1>3. CASE efi' = [efi EXCEPT !.files = @ \cup {<<"boot", "bootx64.efi">>}] /\ Goto("grubcfg")
  <2>1. {<<"boot", "bootx64.efi">>} \in SUBSET Files
    BY DEF Files, Dirs
  <2>2. Gets({<<"boot", "bootx64.efi">>})
    BY <1>3, <2>1, GetsAll
  <2>3. FileStep
    BY <1>1, <2>2, Counted DEF FileStep, Types, Stages, Gets
  <2> QED
    BY <1>1, <1>3, <2>2, <2>3 DEF Goto, Gets
<1>4. CASE UNCHANGED efi /\ Abort("fallback")
  <2>1. FileStep
    BY <1>1, <1>4, Counted DEF FileStep, Types, Stages
  <2> QED
    BY <1>1, <1>2, <1>4, <2>1 DEF Abort, Goto
<1> QED
  BY <1>2, <1>3, <1>4

LEMMA EFIConfigDoes ==
  ASSUME Types, EFIConfig
  PROVE  /\ FileStep /\ pc = "grubcfg"
         /\ \/ pc' = AfterEFI /\ UNCHANGED err /\ {<<d, "grub.cfg">> : d \in Dirs} \subseteq efi'.files
            \/ pc' = "done" /\ err' = "grubcfg" /\ faults' = faults + 1
<1> DEFINE files(ds) == {<<d, "grub.cfg">> : d \in ds}
           Copies(ds) == efi' = [efi EXCEPT !.files = @ \cup files(ds)]
<1>1. /\ pc = "grubcfg" /\ UNCHANGED <<firmwareVars, state, callVars, bm, walk, found, number>>
      /\ (Succeeds \/ Fails)
  BY DEF EFIConfig
<1>2. PICK ds \in SUBSET Dirs :
        /\ Copies(ds)
        /\ \/ ds = Dirs /\ Goto(AfterEFI)
           \/ faults' = faults + 1 /\ Abort("grubcfg")
  <2>1. {} \in SUBSET Dirs /\ Dirs \in SUBSET Dirs /\ {"boot"} \in SUBSET Dirs
    BY DEF Dirs
  <2> QED
    BY <2>1, Zenon DEF EFIConfig, Fails
<1>3. files(ds) \in SUBSET Files
  BY InFiles
<1>4. PICK fs : fs = files(ds)
  OBVIOUS
<1>5. Gets(fs)
  BY <1>2, <1>3, <1>4, GetsAll
<1>6. FileStep
  BY <1>1, <1>5, Counted DEF FileStep, Types, Stages, Gets
<1>7. ds = Dirs => files(Dirs) \subseteq efi'.files
  BY <1>4, <1>5 DEF Gets
<1> HIDE DEF files
<1> QED
  BY <1>1, <1>2, <1>6, <1>7, Zenon DEF files, Goto, Abort

LEMMA InstallBIOSDoes ==
  ASSUME Types, InstallBIOS
  PROVE  /\ FileStep /\ pc = "bios"
         /\ \/ pc' = "config" /\ UNCHANGED err
            \/ pc' = "done" /\ err' = "bios" /\ faults' = faults + 1
BY Counted DEF InstallBIOS, FileStep, Types, Stages, Goto, Abort, Fails

LEMMA InstallConfigDoes ==
  ASSUME Types, InstallConfig
  PROVE  /\ FileStep /\ pc = "config"
         /\ \/ pc' = "done" /\ UNCHANGED err /\ "grub.cfg" \in state'
            \/ pc' = "done" /\ err' = "config" /\ faults' = faults + 1
BY Counted DEF InstallConfig, FileStep, Types, Stages, Goto, Abort, Fails
-----------------------------------------------------------------------------
(* The steps that change boot entries only.                                *)

EntryStep ==
  /\ UNCHANGED <<diskVars, callVars, walk, found>>
  /\ option' \in [Number -> Option] /\ order' \in Seq(Number)
  /\ bm' \in [entries : [Number -> Option], order : Seq(Number)] /\ number' \in Number
  /\ faults' \in {faults, faults + 1} /\ faults' <= MaxFaults

LEMMA OptionIs ==
  /\ NoOption \in Option /\ ~IsOurs(NoOption) /\ NoOption.name = "none"
  /\ \A dev \in 0 .. MaxRuns : Ours(dev) \in Option /\ IsOurs(Ours(dev)) /\ Ours(dev) # NoOption
                             /\ Ours(dev).name = "elemental"
BY Parameters DEF NoOption, Ours, Option, IsOurs

LEMMA ClearDoes ==
  ASSUME Types, Clear
  PROVE  /\ EntryStep /\ pc = "clear" /\ UNCHANGED <<order, bm, number>>
         /\ \E gone \in SUBSET Mine(option) :
              /\ option' = [n \in Number |-> IF n \in gone THEN NoOption ELSE option[n]]
              /\ \/ pc' = "load" /\ UNCHANGED err /\ (gone = Mine(option) \/ faults' = faults + 1)
                 \/ pc' = "done" /\ err' = "clear" /\ faults' = faults + 1
<1>1. /\ pc = "clear" /\ UNCHANGED <<order, diskVars, callVars, bm, walk, found, number>>
      /\ (Succeeds \/ Fails)
  BY DEF Clear
<1>2. PICK gone \in SUBSET Mine(option) :
        /\ option' = [n \in Number |-> IF n \in gone THEN NoOption ELSE option[n]]
        /\ \/ Goto("load") /\ (gone = Mine(option) \/ faults' = faults + 1)
           \/ Abort("clear") /\ faults' = faults + 1
  <2>1. /\ Mine(option) \in SUBSET Mine(option)
        /\ \A kept \in SUBSET Mine(option) : Mine(option) \ kept \in SUBSET Mine(option)
    OBVIOUS
  <2> QED
    BY <2>1, Zenon DEF Clear, Fails
<1>3. option' \in [Number -> Option]
  BY <1>2, OptionIs DEF Types
<1> QED
  BY <1>1, <1>2, <1>3, Counted DEF EntryStep, Types, Goto, Abort

LEMMA LoadDoes ==
  ASSUME Types, Load
  PROVE  /\ EntryStep /\ pc = "load" /\ UNCHANGED <<option, order, number>>
         /\ \/ /\ pc' = "find" /\ UNCHANGED err /\ bm'.entries = option
               /\ bm'.order = order \/ faults' = faults + 1
            \/ /\ pc' = "done" /\ err' = "load"
               /\ faults' = faults + 1 \/ \E n \in Number : option[n].name = "broken"
<1>1. /\ pc = "load" /\ UNCHANGED <<firmwareVars, diskVars, callVars, walk, found, number>>
      /\ (Succeeds \/ Fails)
  BY DEF Load, Succeeds
<1>2. \/ /\ Goto("find") /\ \E o \in {order, <<>>} : bm' = [entries |-> option, order |-> o]
                                                /\ (o = order \/ faults' = faults + 1)
      \/ /\ Abort("load") /\ UNCHANGED bm
         /\ faults' = faults + 1 \/ \E n \in Number : option[n].name = "broken"
  BY Zenon DEF Load, Fails
<1>3. <<>> \in Seq(Number)
  OBVIOUS
<1>4. CASE Goto("find") /\ \E o \in {order, <<>>} : bm' = [entries |-> option, order |-> o]
                                               /\ (o = order \/ faults' = faults + 1)
  <2>1. PICK o \in {order, <<>>} : bm' = [entries |-> option, order |-> o]
                                 /\ (o = order \/ faults' = faults + 1)
    BY <1>4
  <2>2. o \in Seq(Number)
    BY <1>3, <2>1 DEF Types
  <2> QED
    BY <1>1, <1>4, <2>1, <2>2, Counted DEF EntryStep, Types, Goto
<1>5. CASE /\ Abort("load") /\ UNCHANGED bm
           /\ faults' = faults + 1 \/ \E n \in Number : option[n].name = "broken"
  <2>1. EntryStep
    BY <1>1, <1>5, Counted DEF EntryStep, Types
  <2> QED
    BY <1>1, <1>5, <2>1 DEF Abort
<1> QED
  BY <1>2, <1>4, <1>5

\* The number found is free: the lowest of a set of numbers that is not empty.
LEMMA NextFreeIs ==
  ASSUME NEW free \in SUBSET Number, free # {}
  PROVE  NextFree(free) \in free
<1>1. free \in SUBSET Nat
  BY Parameters
<1>2. \E n \in free : \A m \in free : n <= m
  BY <1>1, NatMin
<1> QED
  BY <1>2, Zenon DEF NextFree

LEMMA FindOrCreateDoes ==
  ASSUME Types, FindOrCreate
  PROVE  /\ EntryStep /\ pc = "find" /\ UNCHANGED <<order>> /\ bm'.order = bm.order
         /\ \/ /\ pc' = "order" /\ UNCHANGED err /\ UNCHANGED <<option, bm>>
               /\ number' \in Number /\ bm.entries[number'] = Ours(efi.dev)
            \/ /\ pc' = "order" /\ UNCHANGED err
               /\ bm.entries[number'] = NoOption /\ Identical(efi.dev) = {}
               /\ option' = [option EXCEPT ![number'] = Ours(efi.dev)]
               /\ bm'.entries = [bm.entries EXCEPT ![number'] = Ours(efi.dev)]
            \/ /\ pc' = "done" /\ err' = "find" /\ UNCHANGED option
               /\ faults' = faults + 1 \/ FreeEntries = {}
<1>1. /\ pc = "find" /\ UNCHANGED <<order, diskVars, callVars, walk, found>>
      /\ (Succeeds \/ Fails)
  BY DEF FindOrCreate, Succeeds
<1>2. Ours(efi.dev) \in Option
  BY OptionIs DEF Types
<1>3. CASE /\ Abort("find") /\ UNCHANGED <<option, bm, number>>
           /\ faults' = faults + 1 \/ FreeEntries = {}
  <2>1. EntryStep
    BY <1>1, <1>3, Counted DEF EntryStep, Types
  <2> QED
    BY <1>1, <1>3, <2>1 DEF Abort
<1>4. CASE /\ number' \in Identical(efi.dev) /\ Goto("order") /\ UNCHANGED <<option, bm>>
  <2>1. number' \in Number /\ bm.entries[number'] = Ours(efi.dev)
    BY <1>4 DEF Identical
  <2>2. EntryStep
    BY <1>1, <1>4, <2>1, Counted DEF EntryStep, Types
  <2> QED
    BY <1>1, <1>4, <2>1, <2>2 DEF Goto
<1>5. CASE /\ FreeEntries # {} /\ Identical(efi.dev) = {} /\ Goto("order")
           /\ number' = NextFree(FreeEntries)
           /\ option' = [option EXCEPT ![number'] = Ours(efi.dev)]
           /\ bm' = [bm EXCEPT !.entries[number'] = Ours(efi.dev)]
  <2>1. number' \in FreeEntries
    BY <1>5, NextFreeIs DEF FreeEntries
  <2>2. number' \in Number /\ bm.entries[number'] = NoOption
    BY <2>1 DEF FreeEntries
  <2>3. PICK n \in Number : n = number'
    BY <2>2
  <2>4. /\ bm'.entries = [bm.entries EXCEPT ![n] = Ours(efi.dev)] /\ bm'.order = bm.order
        /\ bm' \in [entries : [Number -> Option], order : Seq(Number)]
    <3>1. bm' = [bm EXCEPT !.entries[n] = Ours(efi.dev)]
      BY <1>5, <2>3
    <3> QED
      BY <1>2, <3>1 DEF Types
  <2>5. option' \in [Number -> Option]
    BY <1>2, <1>5, <2>3 DEF Types
  <2>6. EntryStep
    BY <1>1, <2>2, <2>4, <2>5, Counted DEF EntryStep, Types
  <2> QED
    BY <1>1, <1>5, <2>2, <2>3, <2>4, <2>6, Zenon DEF Goto
<1> QED
  BY <1>3, <1>4, <1>5, Zenon DEF FindOrCreate, Fails

LEMMA SetOrderDoes ==
  ASSUME Types, SetOrder
  PROVE  /\ EntryStep /\ pc = "order" /\ UNCHANGED <<option, number>>
         /\ \/ pc' = "config" /\ UNCHANGED err /\ order' = Prepended(number)
            \/ pc' = "done" /\ err' = "order" /\ faults' = faults + 1
<1>1. /\ pc = "order" /\ UNCHANGED <<option, diskVars, callVars, walk, found, number>>
      /\ (Succeeds \/ Fails)
  BY DEF SetOrder
<1>2. CASE order' = Prepended(number) /\ bm' = [bm EXCEPT !.order = order'] /\ Goto("config")
  <2>1. <<number>> \o bm.order \in Seq(Number)
    BY ConcatProperties DEF Types
  <2>2. order' \in Seq(Number)
    BY <1>2, <2>1, FirstsLists DEF Prepended
  <2>3. bm' \in [entries : [Number -> Option], order : Seq(Number)]
    BY <1>2, <2>2 DEF Types
  <2>4. EntryStep
    BY <1>1, <2>2, <2>3, Counted DEF EntryStep, Types
  <2> QED
    BY <1>1, <1>2, <2>4 DEF Goto
<1>3. CASE Fails /\ UNCHANGED <<order, bm>> /\ Abort("order")
  BY <1>1, <1>3, Counted DEF EntryStep, Types, Abort, Fails
<1> QED
  BY <1>2, <1>3 DEF SetOrder
-----------------------------------------------------------------------------
(* Where a run goes.                                                       *)

ByFile  == \/ CannotPrepare \/ CopyModule \/ CopyShim \/ Fallback \/ EFIConfig
           \/ InstallBIOS \/ InstallConfig \/ Interrupt
ByEntry == Clear \/ Load \/ FindOrCreate \/ SetOrder

Failing   == pc' = "done" /\ err' # "none"
FileRoute ==
  \/ Failing
  \/ /\ UNCHANGED err
     /\ \/ pc \in {"modules", "shim"} /\ pc' = pc
        \/ pc = "modules" /\ pc' = "shim"
        \/ pc = "shim" /\ pc' = "fallback"
        \/ pc = "fallback" /\ pc' = "grubcfg"
        \/ pc = "grubcfg" /\ pc' = AfterEFI
        \/ pc = "bios" /\ pc' = "config"
        \/ pc = "config" /\ pc' = "done"
EntryRoute ==
  \/ Failing /\ pc \in EntryStages
  \/ /\ UNCHANGED err
     /\ \/ pc = "clear" /\ pc' = "load"
        \/ pc = "load" /\ pc' = "find"
        \/ pc = "find" /\ pc' = "order"
        \/ pc = "order" /\ pc' = "config"

LEMMA FileRoutes ==
  ASSUME Types, ByFile
  PROVE  FileStep /\ FileRoute
<1>1. CASE CannotPrepare
  BY <1>1, CannotPrepareDoes DEF FileRoute, Failing
<1>2. CASE Interrupt
  BY <1>2, InterruptDoes DEF FileRoute, Failing
<1>3. CASE CopyModule
  <2>1. PICK got \in BOOLEAN : Walked(Modules, got, "shim", "modules")
    BY <1>3, CopyModuleDoes
  <2>2. FileStep /\ pc = "modules"
    BY <1>3, CopyModuleDoes
  <2> QED
    BY <2>1, <2>2, WalkedIs, Artifacts DEF FileRoute, Failing
<1>4. CASE CopyShim
  <2>1. PICK got \in BOOLEAN : Walked(ShimFiles, got, "fallback", "shim")
    BY <1>4, CopyShimDoes
  <2>2. FileStep /\ pc = "shim"
    BY <1>4, CopyShimDoes
  <2> QED
    BY <2>1, <2>2, WalkedIs, Artifacts DEF FileRoute, Failing
<1>5. CASE Fallback
  BY <1>5, FallbackDoes DEF FileRoute, Failing
<1>6. CASE EFIConfig
  BY <1>6, EFIConfigDoes DEF FileRoute, Failing
<1>7. CASE InstallBIOS
  BY <1>7, InstallBIOSDoes DEF FileRoute, Failing
<1>8. CASE InstallConfig
  BY <1>8, InstallConfigDoes DEF FileRoute, Failing
<1> QED
  BY <1>1, <1>2, <1>3, <1>4, <1>5, <1>6, <1>7, <1>8 DEF ByFile

LEMMA EntryRoutes ==
  ASSUME Types, ByEntry
  PROVE  EntryStep /\ EntryRoute
<1>1. CASE Clear
  BY <1>1, ClearDoes DEF EntryRoute, Failing, EntryStages
<1>2. CASE Load
  BY <1>2, LoadDoes DEF EntryRoute, Failing, EntryStages
<1>3. CASE FindOrCreate
  BY <1>3, FindOrCreateDoes DEF EntryRoute, Failing, EntryStages
<1>4. CASE SetOrder
  BY <1>4, SetOrderDoes DEF EntryRoute, Failing, EntryStages
<1> QED
  BY <1>1, <1>2, <1>3, <1>4 DEF ByEntry

LEMMA AfterEFIIs == AfterEFI \in {"config", "clear", "load"}
BY DEF AfterEFI

LEMMA TypesKept ==
  ASSUME Types, ByFile \/ ByEntry
  PROVE  Types'
<1>1. pc' \in Stages \cup {"idle", "done"}
  <2>1. FileRoute \/ EntryRoute
    BY FileRoutes, EntryRoutes
  <2> QED
    BY <2>1, AfterEFIIs DEF FileRoute, EntryRoute, Failing, Stages
<1>2. CASE ByFile
  <2>1. FileStep
    BY <1>2, FileRoutes
  <2>2. faults' \in 0 .. MaxFaults /\ start.faults <= faults'
    BY <2>1, Parameters DEF FileStep, Types
  <2> QED
    BY <1>1, <2>1, <2>2 DEF FileStep, Types
<1>3. CASE ByEntry
  <2>1. EntryStep
    BY <1>3, EntryRoutes
  <2>2. faults' \in 0 .. MaxFaults /\ start.faults <= faults'
    BY <2>1, Parameters DEF EntryStep, Types
  <2> QED
    BY <1>1, <2>1, <2>2 DEF EntryStep, Types
<1> QED
  BY <1>2, <1>3

LEMMA StageKept ==
  ASSUME Types, StageInv, ByFile \/ ByEntry
  PROVE  StageInv'
<1>1. UNCHANGED args /\ pc \in Stages
  <2>1. FileStep \/ (EntryStep /\ EntryRoute)
    BY FileRoutes, EntryRoutes
  <2>2. EntryRoute => pc \in Stages
    BY DEF EntryRoute, EntryStages, Stages
  <2> QED
    BY <2>1, <2>2 DEF FileStep, EntryStep
<1>2. CASE FileRoute
  BY <1>1, <1>2 DEF FileRoute, Failing, StageInv, EFIStages, EntryStages, Stages, AfterEFI
<1>3. CASE EntryRoute
  BY <1>1, <1>3 DEF EntryRoute, Failing, StageInv, EFIStages, EntryStages, Stages
<1> QED
  BY <1>2, <1>3, FileRoutes, EntryRoutes

\* No call fails in a step after which none has failed.
LEMMA CalmBefore ==
  ASSUME Types, UNCHANGED start, faults' \in {faults, faults + 1}, Calm'
  PROVE  Calm /\ faults' = faults
BY DEF Types, Calm

\* The parts of FilesInv, by the stage a run has come to.
Shimmed == Copied({"shim.efi"}) /\ (Calm => Copied({"shim.efi", "grub.efi"} \cap args.image))
LEMMA FilesInvIs ==
  FilesInv <=>
    /\ pc = "modules" /\ walk = 1 => ~found
    /\ pc = "shim" => IF walk = 1 THEN ~found ELSE found /\ Copied({"shim.efi"})
    /\ pc \in {"fallback", "grubcfg"} \cup EntryStages \/ PastEFI => Shimmed
    /\ pc \in {"grubcfg"} \cup EntryStages \/ PastEFI => <<"boot", "bootx64.efi">> \in efi.files
    /\ pc \in EntryStages \/ PastEFI => Copied({"grub.cfg"})
    /\ Succeeded => "grub.cfg" \in state
BY Artifacts, Zenon DEF FilesInv, Shimmed

\* Files stay, and so does what has been copied.
LEMMA CopiedStays ==
  ASSUME NEW fs, efi.files \subseteq efi'.files, Copied(fs)
  PROVE  Dirs \X fs \subseteq efi'.files
BY DEF Copied

LEMMA CopiedOne ==
  ASSUME NEW f, {<<d, f>> : d \in Dirs} \subseteq efi'.files
  PROVE  Dirs \X {f} \subseteq efi'.files
BY DEF Dirs

LEMMA ShimmedStays ==
  ASSUME Types, UNCHANGED <<args, start>>, faults' \in {faults, faults + 1},
         efi.files \subseteq efi'.files, Shimmed
  PROVE  Shimmed'
<1>1. Copied({"shim.efi"})'
  BY CopiedStays DEF Shimmed, Copied
<1>2. ASSUME Calm' PROVE Copied({"shim.efi", "grub.efi"} \cap args.image)'
  <2>1. Calm
    BY <1>2, CalmBefore
  <2> QED
    BY <2>1, CopiedStays DEF Shimmed, Copied
<1> QED
  BY <1>1, <1>2 DEF Shimmed

\* A step that only takes a run from one stage to the next.
LEMMA FilesFrame ==
  ASSUME Types, FilesInv, UNCHANGED <<args, start>>, faults' \in {faults, faults + 1},
         efi.files \subseteq efi'.files, state \subseteq state',
         \/ Failing
         \/ /\ pc' \in EntryStages \cup {"config"} /\ err = "none"
            /\ pc \in EntryStages \/ (pc' = "config" /\ args.firmware = "bios")
         \/ pc = "config" /\ pc' = "done" /\ "grub.cfg" \in state'
  PROVE  FilesInv'
<1>1. CASE Failing
  BY <1>1, FilesInvIs DEF FilesInv, Failing, EntryStages, PastEFI, Succeeded
<1>2. CASE /\ pc' \in EntryStages \cup {"config"} /\ pc \in EntryStages
  <2>1. Shimmed /\ <<"boot", "bootx64.efi">> \in efi.files /\ Copied({"grub.cfg"})
    BY <1>2, FilesInvIs
  <2>2. Shimmed' /\ Copied({"grub.cfg"})'
    BY <2>1, ShimmedStays, CopiedStays DEF Copied
  <2>3. pc' \notin {"modules", "shim"} /\ ~Succeeded'
    BY <1>2 DEF EntryStages, Succeeded
  <2> QED
    BY <2>1, <2>2, <2>3, Artifacts, Zenon DEF FilesInv, Shimmed
<1>3. CASE pc' = "config" /\ args.firmware = "bios"
  <2>1. ~PastEFI' /\ ~Succeeded'
    BY <1>3 DEF PastEFI, Succeeded
  <2> QED
    BY <1>3, <2>1 DEF FilesInv, EntryStages
<1>4. CASE pc = "config" /\ pc' = "done" /\ "grub.cfg" \in state'
  <2>1. PastEFI' => PastEFI
    BY <1>4 DEF PastEFI
  <2>2. PastEFI => Shimmed /\ <<"boot", "bootx64.efi">> \in efi.files /\ Copied({"grub.cfg"})
    BY FilesInvIs
  <2>3. PastEFI' => Shimmed' /\ Copied({"grub.cfg"})'
    BY <2>1, <2>2, ShimmedStays, CopiedStays DEF Copied
  <2>4. pc' \notin {"modules", "shim", "fallback", "grubcfg"} \cup EntryStages
    BY <1>4 DEF EntryStages
  <2> QED
    BY <1>4, <2>1, <2>2, <2>3, <2>4, Artifacts, Zenon DEF FilesInv, Shimmed
<1> QED
  BY <1>1, <1>2, <1>3, <1>4

LEMMA FilesByEntry ==
  ASSUME Types, StageInv, FilesInv, ByEntry
  PROVE  FilesInv'
<1>1. EntryStep /\ EntryRoute
  BY EntryRoutes
<1>2. pc \in Stages => err = "none"
  BY DEF StageInv
<1>3. /\ UNCHANGED <<args, start>> /\ faults' \in {faults, faults + 1}
      /\ efi.files \subseteq efi'.files /\ state \subseteq state'
  BY <1>1 DEF EntryStep
<1>4. \/ Failing
      \/ pc' \in EntryStages \cup {"config"} /\ err = "none" /\ pc \in EntryStages
  BY <1>1, <1>2 DEF EntryRoute, EntryStages, Stages
<1> QED
  BY <1>3, <1>4, FilesFrame

LEMMA FilesByFile ==
  ASSUME Types, StageInv, FilesInv, ByFile
  PROVE  FilesInv'
<1>1. FileStep /\ FileRoute
  BY FileRoutes
<1>2. /\ UNCHANGED <<args, start>> /\ faults' \in {faults, faults + 1}
      /\ efi.files \subseteq efi'.files /\ pc \in Stages /\ err = "none"
  BY <1>1 DEF FileStep, StageInv
<1>3. CASE CannotPrepare \/ Interrupt
  <2>1. Failing /\ UNCHANGED state
    BY <1>3, CannotPrepareDoes, InterruptDoes DEF Failing, CannotPrepare, Interrupt
  <2> QED
    BY <1>2, <2>1, FilesFrame
<1>4. CASE CopyModule
  <2>1. PICK got \in BOOLEAN : Walked(Modules, got, "shim", "modules")
    BY <1>4, CopyModuleDoes
  <2>2. \/ Failing
        \/ pc' = "modules" /\ walk' = 2
        \/ pc' = "shim" /\ walk' = 1 /\ ~found'
    BY <1>4, <2>1, CopyModuleDoes, WalkedIs, Artifacts DEF Failing
  <2> QED
    BY <2>2 DEF FilesInv, Failing, PastEFI, Succeeded, EntryStages
<1>5. CASE CopyShim
  <2>1. PICK got \in BOOLEAN :
          /\ got => {<<d, ShimFiles[walk]>> : d \in Dirs} \subseteq efi'.files
          /\ got \/ ShimFiles[walk] \in args.image => got \/ faults' = faults + 1
          /\ Walked(ShimFiles, got, "fallback", "shim")
    BY <1>5, CopyShimDoes
  <2>2. pc = "shim" /\ walk \in {1, 2}
    BY <1>5, CopyShimDoes DEF Types
  <2>3. walk = 1 => ~found
    BY <2>2 DEF FilesInv
  <2>4. walk = 2 => Copied({"shim.efi"})
    BY <2>2 DEF FilesInv
  <2>5. \/ Failing
        \/ /\ got /\ walk = 1 /\ walk' = 2 /\ found' /\ pc' = "shim"
        \/ /\ walk = 2 /\ pc' = "fallback"
    BY <2>1, <2>2, <2>3, WalkedIs, Artifacts DEF Failing
  <2>6. CASE Failing
    BY <2>6 DEF FilesInv, Failing, PastEFI, Succeeded, EntryStages
  <2>7. CASE got /\ walk = 1 /\ walk' = 2 /\ found' /\ pc' = "shim"
    <3>1. Copied({"shim.efi"})'
      BY <2>1, <2>7, Artifacts, CopiedOne DEF Copied
    <3> QED
      BY <2>7, <3>1 DEF FilesInv, PastEFI, Succeeded, EntryStages
  <2>8. CASE walk = 2 /\ pc' = "fallback"
    <3>1. Copied({"shim.efi"})'
      BY <1>2, <2>4, <2>8, CopiedStays DEF Copied
    <3>2. ASSUME Calm' PROVE (Dirs \X ({"shim.efi", "grub.efi"} \cap args.image)) \subseteq efi'.files
      <4>1. faults' = faults
        BY <1>2, <3>2, CalmBefore
      <4>2. "grub.efi" \in args.image => Dirs \X {"grub.efi"} \subseteq efi'.files
        <5>1. faults' # faults + 1
          BY <4>1 DEF Types
        <5> QED
          BY <2>1, <2>8, <5>1, Artifacts, CopiedOne
      <4> QED
        BY <3>1, <4>2 DEF Copied
    <3>3. Shimmed'
      BY <1>2, <3>1, <3>2 DEF Shimmed, Copied
    <3> QED
      BY <2>8, <3>3, Artifacts DEF FilesInv, Shimmed, PastEFI, Succeeded, EntryStages
  <2> QED
    BY <2>5, <2>6, <2>7, <2>8
<1>6. CASE Fallback
  <2>1. Shimmed /\ Shimmed'
    BY <1>2, <1>6, FallbackDoes, FilesInvIs, ShimmedStays
  <2>2. \/ Failing
        \/ pc' = "grubcfg" /\ <<"boot", "bootx64.efi">> \in efi'.files
    BY <1>6, FallbackDoes DEF Failing
  <2>3. pc' \notin {"modules", "shim", "fallback"} \cup EntryStages /\ ~PastEFI' /\ ~Succeeded'
    BY <2>2 DEF Failing, PastEFI, Succeeded, EntryStages
  <2> QED
    BY <2>1, <2>2, <2>3, Artifacts DEF FilesInv, Shimmed, Failing
<1>7. CASE EFIConfig
  <2>1. Shimmed /\ Shimmed' /\ <<"boot", "bootx64.efi">> \in efi'.files
    BY <1>2, <1>7, EFIConfigDoes, FilesInvIs, ShimmedStays
  <2>2. \/ Failing
        \/ pc' \in {"config", "clear", "load"} /\ Dirs \X {"grub.cfg"} \subseteq efi'.files
    BY <1>7, EFIConfigDoes, AfterEFIIs, CopiedOne DEF Failing
  <2>3. pc' \notin {"modules", "shim"} /\ ~Succeeded'
    BY <2>2 DEF Failing, Succeeded
  <2>4. CASE Failing
    BY <2>4 DEF FilesInv, Failing, PastEFI, Succeeded, EntryStages
  <2>5. CASE Dirs \X {"grub.cfg"} \subseteq efi'.files
    BY <2>1, <2>3, <2>5, Artifacts, Zenon DEF FilesInv, Shimmed, Copied
  <2> QED
    BY <2>2, <2>4, <2>5
<1>8. CASE InstallBIOS
  <2>1. args.firmware = "bios" /\ state \subseteq state'
    BY <1>8, InstallBIOSDoes DEF StageInv, InstallBIOS
  <2> QED
    BY <1>2, <1>8, <2>1, InstallBIOSDoes, FilesFrame DEF Failing
<1>9. CASE InstallConfig
  <2>1. state \subseteq state'
    BY <1>9 DEF InstallConfig
  <2> QED
    BY <1>2, <1>9, <2>1, InstallConfigDoes, FilesFrame DEF Failing
<1> QED
  BY <1>3, <1>4, <1>5, <1>6, <1>7, <1>8, <1>9 DEF ByFile
-----------------------------------------------------------------------------
(* The entries and their order.                                            *)

\* Steps on files lead past the entries only where there are none to make.
LEMMA RouteAround ==
  ASSUME StageInv, pc \in Stages, FileRoute
  PROVE  /\ pc' \notin {"find", "order"}
         /\ pc' = "load" => ~args.clear
         /\ PastEntries' /\ UNCHANGED args => PastEntries
         /\ Succeeded' => err = "none"
BY DEF StageInv, FileRoute, Failing, AfterEFI, PastEntries, PastEFI, Succeeded, EFIStages, EntryStages, Stages

LEMMA EntryByFile ==
  ASSUME Types, StageInv, EntryInv, OrderInv, ByFile
  PROVE  EntryInv' /\ OrderInv'
<1>1. /\ UNCHANGED <<option, order, bm, number, args, start>> /\ efi'.dev = efi.dev
      /\ faults' \in {faults, faults + 1} /\ pc \in Stages /\ FileRoute
  BY FileRoutes DEF FileStep
<1>2. /\ pc' \notin {"find", "order"}
      /\ pc' = "load" => ~args.clear
      /\ PastEntries' => PastEntries
  BY <1>1, RouteAround
<1>3. Calm' => Calm
  BY <1>1, CalmBefore
<1>4. EntryInv'
  <2>1. \A m, n \in Mine(option)' : option'[m] = option'[n] => m = n
    BY <1>1 DEF EntryInv, Mine
  <2>2. ASSUME args'.clear, Calm'
        PROVE  PastEntries' => Mine(option)' = {number'}
    BY <1>1, <1>2, <1>3, <2>2 DEF EntryInv, Mine
  <2>3. pc' # "find" /\ pc' # "order" /\ (pc' = "load" => ~args'.clear)
    BY <1>1, <1>2
  <2> QED
    BY <2>1, <2>2, <2>3, Zenon DEF EntryInv
<1>5. OrderInv'
  <2>1. PastEntries' =>
          /\ order' # <<>> /\ option'[Head(order')] = Ours(efi'.dev)
          /\ Once(order') /\ \A i \in 1 .. Len(order') : option'[order'[i]] # NoOption
    BY <1>1, <1>2 DEF OrderInv
  <2>2. Calm' => OthersIn(order, option)' = start'.others
    <3>1. OthersIn(order, option)' = OthersIn(order, option)
      BY <1>1 DEF OthersIn, Others
    <3> QED
      BY <1>1, <1>3, <3>1 DEF OrderInv
  <2> QED
    BY <1>2, <2>1, <2>2 DEF OrderInv
<1> QED
  BY <1>4, <1>5

\* What a step does to the entries of others.
LEMMA OthersSame ==
  ASSUME NEW opts, NEW then, \A n \in Number : opts[n].name = "other" <=> then[n].name = "other"
  PROVE  Others(then) = Others(opts)
BY DEF Others

LEMMA EntryByClear ==
  ASSUME Types, EntryInv, OrderInv, Clear
  PROVE  EntryInv' /\ OrderInv'
<1>1. /\ UNCHANGED <<order, bm, number, args, start, efi>> /\ pc = "clear"
      /\ faults' \in {faults, faults + 1}
  BY ClearDoes DEF EntryStep
<1>2. PICK gone \in SUBSET Mine(option) :
        /\ option' = [n \in Number |-> IF n \in gone THEN NoOption ELSE option[n]]
        /\ \/ pc' = "load" /\ UNCHANGED err /\ (gone = Mine(option) \/ faults' = faults + 1)
           \/ pc' = "done" /\ err' = "clear" /\ faults' = faults + 1
  BY ClearDoes
<1>3. /\ \A n \in Number : option'[n] = IF n \in gone THEN NoOption ELSE option[n]
      /\ Mine(option)' = Mine(option) \ gone
  BY <1>2, OptionIs DEF Mine
<1>4. Calm' => Calm /\ faults' = faults /\ faults' # faults + 1
  BY <1>1, CalmBefore DEF Types
<1>5. ~PastEntries' /\ ~Succeeded' /\ pc' \notin {"find", "order"}
  BY <1>2 DEF PastEntries, PastEFI, Succeeded
<1>6. EntryInv'
  <2>1. \A m, n \in Mine(option)' : option'[m] = option'[n] => m = n
    BY <1>3 DEF EntryInv, Mine
  <2>2. Calm' => Mine(option)' = {}
    BY <1>2, <1>3, <1>4
  <2> QED
    BY <1>5, <2>1, <2>2 DEF EntryInv
<1>7. OrderInv'
  <2>1. Others(option)' = Others(option)
    <3>1. \A n \in gone : option[n].name = "elemental"
      BY DEF Mine, IsOurs
    <3>2. \A n \in Number : option[n].name = "other" <=> option'[n].name = "other"
      BY <1>3, <3>1, OptionIs
    <3> QED
      BY <3>2, OthersSame
  <2>2. Calm' => OthersIn(order, option)' = start'.others
    BY <1>1, <1>4, <2>1 DEF OrderInv, OthersIn, Stages
  <2> QED
    BY <1>5, <2>2 DEF OrderInv
<1> QED
  BY <1>6, <1>7

LEMMA EntryByLoad ==
  ASSUME Types, StageInv, EntryInv, OrderInv, Load
  PROVE  EntryInv' /\ OrderInv'
<1>1. /\ UNCHANGED <<option, order, number, args, start, efi>> /\ pc = "load"
      /\ faults' \in {faults, faults + 1}
  BY LoadDoes DEF EntryStep
<1>2. \/ pc' = "find" /\ bm'.entries = option /\ (bm'.order = order \/ faults' = faults + 1)
      \/ Failing
  BY LoadDoes DEF Failing
<1>3. Calm' => Calm /\ faults' # faults + 1
  BY <1>1, CalmBefore DEF Types
<1>4. ~PastEntries' /\ ~Succeeded' /\ pc' # "order"
  BY <1>2 DEF PastEntries, PastEFI, Succeeded, Failing
<1>5. Mine(option)' = Mine(option) /\ OthersIn(order, option)' = OthersIn(order, option)
  BY <1>1 DEF Mine, OthersIn, Others
<1>6. EntryInv'
  BY <1>1, <1>2, <1>3, <1>4, <1>5 DEF EntryInv, Failing
<1>7. OrderInv'
  BY <1>1, <1>2, <1>3, <1>4, <1>5 DEF OrderInv, Failing, Stages
<1> QED
  BY <1>6, <1>7

LEMMA EntryByFind ==
  ASSUME Types, StageInv, EntryInv, OrderInv, FindOrCreate
  PROVE  EntryInv' /\ OrderInv'
<1>1. /\ UNCHANGED <<order, args, start, efi>> /\ pc = "find" /\ bm'.order = bm.order
      /\ faults' \in {faults, faults + 1}
  BY FindOrCreateDoes DEF EntryStep
<1>2. Calm' => Calm
  BY <1>1, CalmBefore
<1>3. bm.entries = option /\ (args.clear /\ Calm => Mine(option) = {}) /\ efi.dev \in 0 .. MaxRuns
  BY <1>1 DEF EntryInv, Types
<1>4. \/ Failing /\ UNCHANGED option
      \/ /\ pc' = "order" /\ UNCHANGED <<option, bm>> /\ number' \in Number
         /\ option[number'] = Ours(efi.dev)
      \/ /\ pc' = "order" /\ option[number'] = NoOption /\ Identical(efi.dev) = {}
         /\ option' = [option EXCEPT ![number'] = Ours(efi.dev)] /\ bm'.entries = option'
  BY <1>3, FindOrCreateDoes DEF Failing
<1>5. ~PastEntries' /\ ~Succeeded' /\ pc' # "find"
  BY <1>4 DEF PastEntries, PastEFI, Succeeded, Failing
<1>6. number' \in Number
  BY FindOrCreateDoes DEF EntryStep
<1>7. CASE Failing /\ UNCHANGED option
  <2>1. Mine(option)' = Mine(option)
    BY <1>7 DEF Mine
  <2> QED
    BY <1>5, <1>7, <2>1 DEF EntryInv, OrderInv, Failing, Stages
<1>8. CASE /\ pc' = "order" /\ UNCHANGED <<option, bm>> /\ option[number'] = Ours(efi.dev)
  <2>1. Mine(option)' = Mine(option) /\ OthersIn(order, option)' = OthersIn(order, option)
    BY <1>1, <1>8 DEF Mine, OthersIn, Others
  <2>2. number' \in Mine(option)
    BY <1>3, <1>6, <1>8, OptionIs DEF Mine
  <2>3. EntryInv'
    BY <1>1, <1>2, <1>3, <1>5, <1>8, <2>1, <2>2 DEF EntryInv
  <2>4. OrderInv'
    BY <1>1, <1>2, <1>5, <1>8, <2>1 DEF OrderInv, Stages
  <2> QED
    BY <2>3, <2>4
<1>9. CASE /\ pc' = "order" /\ option[number'] = NoOption /\ Identical(efi.dev) = {}
           /\ option' = [option EXCEPT ![number'] = Ours(efi.dev)] /\ bm'.entries = option'
  <2>1. PICK k \in Number : k = number'
    BY <1>6
  <2>2. \A n \in Number : option'[n] = IF n = k THEN Ours(efi.dev) ELSE option[n]
    BY <1>9, <2>1 DEF Types
  <2>3. Mine(option)' = Mine(option) \cup {k}
    BY <1>3, <2>2, OptionIs DEF Mine
  <2>4. \A n \in Number : option[n] # Ours(efi.dev)
    BY <1>3, <1>9 DEF Identical
  <2>5. \A m, n \in Mine(option)' : option'[m] = option'[n] => m = n
    BY <2>2, <2>3, <2>4 DEF EntryInv, Mine
  <2>6. EntryInv'
    BY <1>1, <1>2, <1>3, <1>5, <1>9, <2>1, <2>2, <2>3, <2>5 DEF EntryInv
  <2>7. Others(option)' = Others(option)
    <3>1. \A n \in Number : option[n].name = "other" <=> option'[n].name = "other"
      BY <1>3, <1>9, <2>1, <2>2, OptionIs
    <3> QED
      BY <3>1, OthersSame
  <2>8. OrderInv'
    BY <1>1, <1>2, <1>5, <1>9, <2>7 DEF OrderInv, OthersIn, Stages
  <2> QED
    BY <2>6, <2>8
<1> QED
  BY <1>4, <1>7, <1>8, <1>9

\* The order that is written.
LEMMA PrependedIs ==
  ASSUME NEW n \in Number, NEW opts, NEW ns \in Seq(Number), opts[n] # NoOption,
         opts[n].name # "other", NEW new, new = Firsts(<<n>> \o ns, Used(opts))
  PROVE  /\ new # <<>> /\ Head(new) = n /\ Once(new)
         /\ \A i \in 1 .. Len(new) : opts[new[i]] # NoOption
         /\ OthersIn(new, opts) = OthersIn(ns, opts)
<1>1. n \in Used(opts) /\ n \notin Others(opts)
  BY DEF Used, Others
<1>2. Others(opts) \subseteq Used(opts)
  BY OptionIs DEF Used, Others
<1>3. <<n>> \o ns \in Seq(Number)
  BY ConcatProperties
<1>4. new # <<>> /\ Head(new) = n
  BY <1>1, FirstsHead
<1>5. Once(new) /\ \A m : Contains(new, m) => m \in Used(opts)
  BY <1>3, FirstsLists
<1>6. \A i \in 1 .. Len(new) : Contains(new, new[i])
  BY Zenon DEF Contains
<1>7. \A i \in 1 .. Len(new) : opts[new[i]] # NoOption
  BY <1>5, <1>6 DEF Used
<1>8. Firsts(new, Others(opts)) = Firsts(<<n>> \o ns, Others(opts))
  <2>1. PICK s, S, T : s = <<n>> \o ns /\ S = Used(opts) /\ T = Others(opts)
    OBVIOUS
  <2>2. s \in Seq(Number) /\ T \subseteq S
    BY <1>2, <1>3, <2>1
  <2>3. Firsts(Firsts(s, S), T) = Firsts(s, T)
    BY <2>2, FirstsOfFirsts
  <2> QED
    BY <2>1, <2>3, Zenon
<1>9. Firsts(<<n>> \o ns, Others(opts)) = Firsts(ns, Others(opts))
  BY <1>1, FirstsOfOther
<1> QED
  BY <1>4, <1>5, <1>7, <1>8, <1>9 DEF OthersIn

LEMMA EntryBySetOrder ==
  ASSUME Types, StageInv, EntryInv, OrderInv, SetOrder
  PROVE  EntryInv' /\ OrderInv'
<1>1. /\ UNCHANGED <<option, number, args, start, efi>> /\ pc = "order"
      /\ faults' \in {faults, faults + 1}
  BY SetOrderDoes DEF EntryStep
<1>2. Calm' => Calm
  BY <1>1, CalmBefore
<1>3. /\ bm.entries = option /\ option[number] = Ours(efi.dev) /\ number \in Number
      /\ (args.clear /\ Calm => Mine(option) = {number}) /\ efi.dev \in 0 .. MaxRuns
      /\ bm.order \in Seq(Number)
  BY <1>1 DEF EntryInv, Types
<1>4. Mine(option)' = Mine(option)
  BY <1>1 DEF Mine
<1>5. CASE pc' = "config" /\ order' = Prepended(number)
  <2>1. EntryInv'
    BY <1>1, <1>2, <1>3, <1>4, <1>5 DEF EntryInv, PastEntries, PastEFI, Succeeded
  <2>2. PICK new : new = Firsts(<<number>> \o bm.order, Used(option))
    OBVIOUS
  <2>3. order' = new
    BY <1>3, <1>5, <2>2 DEF Prepended
  <2>4. option[number] # NoOption /\ option[number].name # "other"
    BY <1>3, OptionIs
  <2>5. /\ new # <<>> /\ Head(new) = number /\ Once(new)
        /\ \A i \in 1 .. Len(new) : option[new[i]] # NoOption
        /\ OthersIn(new, option) = OthersIn(bm.order, option)
    BY <1>3, <2>2, <2>4, PrependedIs
  <2>6. Calm' => OthersIn(order, option)' = start'.others
    <3>1. Calm => OthersIn(bm.order, option) = start.others
      BY <1>1 DEF OrderInv, Stages
    <3>2. OthersIn(order, option)' = OthersIn(new, option)
      BY <1>1, <2>3 DEF OthersIn, Others
    <3> QED
      BY <1>1, <1>2, <2>5, <3>1, <3>2
  <2>7. OrderInv'
    BY <1>1, <1>3, <1>5, <2>3, <2>5, <2>6 DEF OrderInv
  <2> QED
    BY <2>1, <2>7
<1>6. CASE Failing
  BY <1>1, <1>4, <1>6 DEF EntryInv, OrderInv, Failing, PastEntries, PastEFI, Succeeded, Stages
<1> QED
  BY <1>5, <1>6, SetOrderDoes DEF Failing
-----------------------------------------------------------------------------
(* What makes a run fail.                                                  *)

LEMMA NotCalm ==
  ASSUME Types, UNCHANGED start, faults' = faults + 1
  PROVE  ~Calm'
BY DEF Types, Calm

LEMMA RetryByFile ==
  ASSUME Types, StageInv, FilesInv, ByFile
  PROVE  RetryInv'
<1>1. FileStep /\ pc \in Stages /\ err = "none" /\ UNCHANGED <<option, args, start>>
  BY FileRoutes DEF FileStep, StageInv
<1>2. SUFFICES ASSUME pc' = "done", Calm', SoundImage' PROVE err' = "none"
  BY DEF RetryInv
<1>3. faults' # faults + 1
  BY <1>1, <1>2, NotCalm
<1>4. Range(Modules) \subseteq args.image /\ Range(ShimFiles) \subseteq args.image
  BY <1>1, <1>2 DEF SoundImage
<1>5. walk \in {1, 2}
  BY DEF Types
<1>6. CASE CannotPrepare \/ Interrupt
  BY <1>3, <1>6, CannotPrepareDoes, InterruptDoes
<1>7. CASE CopyModule
  <2>1. PICK got \in BOOLEAN : /\ ~got /\ Modules[walk] \in args.image => faults' = faults + 1
                              /\ Walked(Modules, got, "shim", "modules")
    BY <1>7, CopyModuleDoes
  <2>2. pc = "modules"
    BY <1>7, CopyModuleDoes
  <2>3. got
    BY <1>3, <1>4, <1>5, <2>1, Artifacts
  <2> QED
    BY <1>1, <1>2, <2>1, <2>2, <2>3, WalkedIs, Artifacts
<1>8. CASE CopyShim
  <2>1. PICK got \in BOOLEAN : /\ ~got /\ ShimFiles[walk] \in args.image => faults' = faults + 1
                              /\ Walked(ShimFiles, got, "fallback", "shim")
    BY <1>8, CopyShimDoes
  <2>2. pc = "shim"
    BY <1>8, CopyShimDoes
  <2>3. got
    BY <1>3, <1>4, <1>5, <2>1, Artifacts
  <2> QED
    BY <1>1, <1>2, <2>1, <2>2, <2>3, WalkedIs, Artifacts
<1>9. CASE Fallback
  <2>1. Copied({"shim.efi"})
    BY <1>9, FallbackDoes DEF FilesInv
  <2>2. <<"boot", "shim.efi">> \in efi.files
    BY <2>1 DEF Copied, Dirs
  <2> QED
    BY <1>2, <1>3, <1>9, <2>2, FallbackDoes
<1>10. CASE EFIConfig \/ InstallBIOS \/ InstallConfig
  BY <1>1, <1>3, <1>10, EFIConfigDoes, InstallBIOSDoes, InstallConfigDoes
<1> QED
  BY <1>6, <1>7, <1>8, <1>9, <1>10 DEF ByFile

LEMMA RetryByEntry ==
  ASSUME Types, StageInv, EntryInv, ByEntry
  PROVE  RetryInv'
<1>1. EntryStep /\ EntryRoute /\ UNCHANGED start
  BY EntryRoutes DEF EntryStep
<1>2. SUFFICES ASSUME pc' = "done", Calm' PROVE Hindered'
  BY DEF RetryInv
<1>3. faults' # faults + 1
  BY <1>1, <1>2, NotCalm
<1>4. CASE Clear
  BY <1>2, <1>3, <1>4, ClearDoes
<1>5. CASE Load
  BY <1>2, <1>3, <1>5, LoadDoes DEF Hindered
<1>6. CASE FindOrCreate
  <2>1. UNCHANGED option /\ FreeEntries = {} /\ pc = "find"
    BY <1>2, <1>3, <1>6, FindOrCreateDoes
  <2>2. bm.entries = option
    BY <2>1 DEF EntryInv
  <2> QED
    BY <2>1, <2>2 DEF FreeEntries, Hindered
<1>7. CASE SetOrder
  BY <1>2, <1>3, <1>7, SetOrderDoes
<1> QED
  BY <1>4, <1>5, <1>6, <1>7 DEF ByEntry

LEMMA StepKeeps ==
  ASSUME IInv, Step \/ Interrupt
  PROVE  IInv'
<1>1. Types /\ StageInv /\ FilesInv /\ EntryInv /\ OrderInv
  BY DEF IInv
<1>2. ByFile \/ ByEntry
  BY DEF Step, ByFile, ByEntry
<1>3. Types' /\ StageInv'
  BY <1>1, <1>2, TypesKept, StageKept
<1>4. CASE ByFile
  BY <1>1, <1>3, <1>4, FilesByFile, EntryByFile, RetryByFile DEF IInv
<1>5. CASE ByEntry
  <2>1. EntryInv' /\ OrderInv'
    BY <1>1, <1>5, EntryByClear, EntryByLoad, EntryByFind, EntryBySetOrder DEF ByEntry
  <2> QED
    BY <1>1, <1>3, <1>5, <2>1, FilesByEntry, RetryByEntry DEF IInv
<1> QED
  BY <1>2, <1>4, <1>5
-----------------------------------------------------------------------------
(* Between the runs.                                                       *)

LEMMA NoManagerIs == NoManager \in [entries : [Number -> Option], order : Seq(Number)]
<1>1. <<>> \in Seq(Number)
  OBVIOUS
<1> QED
  BY <1>1, OptionIs DEF NoManager

LEMMA InitHas == Init => IInv
<1> SUFFICES ASSUME Init PROVE IInv
  OBVIOUS
<1>1. <<>> \in Seq(Number)
  OBVIOUS
<1>2. Types
  <2>1. option \in [Number -> Option] /\ order \in Seq(Number)
    BY <1>1, OptionIs DEF Init
  <2>2. bm \in [entries : [Number -> Option], order : Seq(Number)]
    BY NoManagerIs DEF Init
  <2>3. efi \in [dev : 0 .. MaxRuns, files : SUBSET Files]
    BY Parameters DEF Init
  <2>4. /\ state \subseteq {"loopback.mod", "squash4.mod", "core", "grub.cfg"}
        /\ args.clear \in BOOLEAN /\ args.entry \in BOOLEAN /\ args.firmware \in {"efi", "bios"}
        /\ pc \in Stages \cup {"idle", "done"} /\ walk \in {1, 2} /\ found \in BOOLEAN
    BY DEF Init
  <2>5. /\ number \in Number /\ runs \in 0 .. MaxRuns /\ faults \in 0 .. MaxFaults
        /\ start.faults \in Nat /\ start.faults <= faults
    BY Parameters DEF Init
  <2> QED
    BY <2>1, <2>2, <2>3, <2>4, <2>5 DEF Types
<1>3. Mine(option) = {}
  BY OptionIs DEF Init, Mine
<1>4. ~Succeeded /\ pc = "idle"
  BY DEF Init, Succeeded
<1> QED
  BY <1>2, <1>3, <1>4
  DEF IInv, StageInv, FilesInv, EntryInv, OrderInv, RetryInv, PastEntries, PastEFI, Stages, EFIStages, EntryStages

LEMMA CallKeeps ==
  ASSUME IInv, NEW install \in BOOLEAN, NEW format \in BOOLEAN, NEW firmware \in {"efi", "bios"},
         NEW entry \in BOOLEAN, NEW image, Call(install, format, firmware, entry, image)
  PROVE  IInv'
<1>1. Types /\ EntryInv
  BY DEF IInv
<1>2. /\ runs < MaxRuns /\ runs' = runs + 1 /\ UNCHANGED <<firmwareVars, faults>>
      /\ args' = [clear |-> install, firmware |-> firmware, entry |-> entry, image |-> image]
      /\ efi' = (IF install /\ format THEN [dev |-> runs + 1, files |-> {}] ELSE efi)
      /\ state' = (IF format THEN {} ELSE state) /\ start' = [others |-> OthersIn(order, option), faults |-> faults]
      /\ pc' = IF firmware = "efi" THEN "modules" ELSE "bios"
      /\ walk' = 1 /\ found' = FALSE /\ err' = "none" /\ bm' = NoManager /\ number' = 0
  BY DEF Call
<1>3. runs + 1 \in 0 .. MaxRuns
  BY <1>1, <1>2, Parameters DEF Types
<1>4. efi' \in [dev : 0 .. MaxRuns, files : SUBSET Files]
  BY <1>1, <1>2, <1>3 DEF Types
<1>5. Types'
  <2>1. faults \in Nat /\ faults <= faults
    BY <1>1, Parameters DEF Types
  <2>2. start'.faults = faults /\ UNCHANGED <<option, order, faults>>
    BY <1>2
  <2>3. /\ args'.clear = install /\ args'.entry = entry /\ args'.firmware = firmware
        /\ pc' \in {"modules", "bios"}
    BY <1>2
  <2>4. /\ bm' \in [entries : [Number -> Option], order : Seq(Number)] /\ number' \in Number
        /\ runs' \in 0 .. MaxRuns
    BY <1>2, <1>3, NoManagerIs, Parameters
  <2> QED
    BY <1>1, <1>2, <1>4, <2>1, <2>2, <2>3, <2>4 DEF Types, Stages
<1>6. pc' \in {"modules", "bios"} /\ ~Succeeded' /\ ~PastEFI' /\ ~PastEntries'
      /\ args'.firmware = firmware
  BY <1>2 DEF Succeeded, PastEFI, PastEntries
<1>7. StageInv'
  BY <1>2, <1>6 DEF StageInv, EFIStages, EntryStages
<1>8. FilesInv'
  BY <1>2, <1>6 DEF FilesInv, EntryStages
<1>9. EntryInv'
  BY <1>1, <1>2, <1>6 DEF EntryInv, Mine
<1>10. OrderInv'
  <2>1. OthersIn(order, option)' = OthersIn(order, option) /\ start'.others = OthersIn(order, option)
    BY <1>2 DEF OthersIn, Others
  <2> QED
    BY <1>6, <2>1 DEF OrderInv
<1>11. RetryInv'
  BY <1>6 DEF RetryInv
<1> QED
  BY <1>5, <1>7, <1>8, <1>9, <1>10, <1>11 DEF IInv

LEMMA OtherSystemKeeps ==
  ASSUME IInv, OtherSystem
  PROVE  IInv'
<1>1. Types /\ EntryInv
  BY DEF IInv
<1>2. /\ pc' = "idle" /\ err' = "none" /\ bm' = NoManager /\ number' = 0 /\ walk' = 1 /\ found' = FALSE
      /\ start'.faults = 0 /\ UNCHANGED <<diskVars, runs, faults>>
      /\ args' = [clear |-> FALSE, firmware |-> args.firmware, entry |-> FALSE, image |-> {}]
  BY DEF OtherSystem
<1>3. order' \in Seq(Number)
  <2>1. CASE UNCHANGED order
    BY <1>1, <2>1 DEF Types
  <2>2. ASSUME NEW n \in Number, order' = <<n>> \o Firsts(order, Number \ {n})
        PROVE  order' \in Seq(Number)
    <3>1. <<n>> \in Seq(Number) /\ Firsts(order, Number \ {n}) \in Seq(Number)
      BY <1>1, FirstsLists DEF Types
    <3> QED
      BY <2>2, <3>1, ConcatProperties
  <2>3. CASE order # <<>> /\ order' \in {Reverse(order), Tail(order)}
    <3>1. Tail(order) \in Seq(Number)
      BY <1>1, <2>3, HeadTailProperties DEF Types
    <3>2. Reverse(order) \in Seq(Number)
      <4>1. order \in Seq(Number) /\ Len(order) \in Nat /\ \A i \in 1 .. Len(order) : order[i] \in Number
        BY <1>1 DEF Types
      <4>2. \A i \in 1 .. Len(order) : (Len(order) - i) + 1 \in 1 .. Len(order)
        BY <4>1
      <4>3. Reverse(order) \in [1 .. Len(order) -> Number]
        BY <4>1, <4>2 DEF Reverse
      <4> QED
        BY <4>1, <4>3
    <3> QED
      BY <2>3, <3>1, <3>2
  <2> QED
    BY <2>1, <2>2, <2>3, Zenon DEF OtherSystem
<1>4. option' \in [Number -> Option] /\ \A n \in Mine(option)' : n \in Mine(option) /\ option'[n] = option[n]
  <2>1. ASSUME NEW n \in Number, NEW new \in Option, ~IsOurs(new), option' = [option EXCEPT ![n] = new]
        PROVE  /\ option' \in [Number -> Option]
               /\ \A m \in Mine(option)' : m \in Mine(option) /\ option'[m] = option[m]
    <3>1. option' \in [Number -> Option]
      BY <1>1, <2>1 DEF Types
    <3>2. \A m \in Number : option'[m] = IF m = n THEN new ELSE option[m]
      BY <1>1, <2>1 DEF Types
    <3> QED
      BY <2>1, <3>1, <3>2 DEF Mine
  <2>2. CASE UNCHANGED option
    BY <1>1, <2>2 DEF Types, Mine
  <2>3. ASSUME NEW name \in {"other", "broken"}
        PROVE  [name |-> name, dev |-> 0] \in Option /\ ~IsOurs([name |-> name, dev |-> 0])
    BY Parameters DEF Option, IsOurs
  <2>4. \/ UNCHANGED option
        \/ \E n \in Number, new \in Option : ~IsOurs(new) /\ option' = [option EXCEPT ![n] = new]
    <3>1. \A n \in Used(option) : n \in Number
      BY DEF Used
    <3> QED
      BY <2>3, <3>1, OptionIs, Zenon DEF OtherSystem
  <2> QED
    BY <2>1, <2>2, <2>4
<1>5. Types'
  <2>1. faults \in Nat /\ 0 <= faults
    BY <1>1, Parameters DEF Types
  <2> QED
    BY <1>1, <1>2, <1>3, <1>4, <2>1, NoManagerIs, Parameters DEF Types
<1>6. ~Succeeded' /\ ~PastEFI' /\ ~PastEntries'
  BY <1>2 DEF Succeeded, PastEFI, PastEntries
<1>7. EntryInv'
  BY <1>1, <1>2, <1>4, <1>6 DEF EntryInv
<1> QED
  BY <1>2, <1>5, <1>6, <1>7
  DEF IInv, StageInv, FilesInv, OrderInv, RetryInv, Stages, EFIStages, EntryStages

\* No step leads out of the invariant.
LEMMA Inductive == IInv /\ [Next]_vars => IInv'
<1> SUFFICES ASSUME IInv, [Next]_vars PROVE IInv'
  OBVIOUS
<1>1. CASE Step \/ Interrupt
  BY <1>1, StepKeeps
<1>2. CASE OtherSystem
  BY <1>2, OtherSystemKeeps
<1>3. ASSUME NEW firmware \in {"efi", "bios"}, NEW image \in Images, NEW entry \in EntryChoices(firmware),
             NEW install \in BOOLEAN, NEW format \in BOOLEAN,
             Call(install, format, firmware, entry, image)
      PROVE  IInv'
  BY <1>3, CallKeeps DEF EntryChoices
<1>4. CASE UNCHANGED vars
  <2>1. /\ UNCHANGED <<option, order, efi, state, args, bm>> /\ UNCHANGED <<pc, walk, found>>
        /\ UNCHANGED <<number, err, runs, faults, start>>
    BY <1>4 DEF vars
  <2>2. Types' /\ StageInv' /\ FilesInv'
    BY <2>1 DEF IInv, Types, StageInv, FilesInv, Copied, Calm, PastEFI, Succeeded
  <2>3. EntryInv' /\ OrderInv' /\ RetryInv'
    BY <2>1 DEF IInv, EntryInv, OrderInv, RetryInv, Calm, PastEFI, PastEntries, Succeeded, Mine,
                OthersIn, Others, SoundImage, Hindered
  <2> QED
    BY <2>2, <2>3 DEF IInv
<1> QED
  BY <1>1, <1>2, <1>3, <1>4 DEF Next

LEMMA Always == Spec => []IInv
BY InitHas, Inductive, PTL DEF Spec
-----------------------------------------------------------------------------
(* The theorems.                                                           *)

\* Types of the state, of the variables of the firmware and of what Install keeps in
\* memory, after any history of calls, interruptions and other systems.
THEOREM GrubTypeCorrect == Spec => []TypeOK
<1>1. IInv => TypeOK
  <2> SUFFICES ASSUME IInv PROVE TypeOK
    OBVIOUS
  <2>1. Files \subseteq Dirs \X (Range(ShimFiles) \cup {"bootx64.efi", "grub.cfg"})
    BY Artifacts DEF Files
  <2>2. {"loopback.mod", "squash4.mod", "core", "grub.cfg"} \subseteq Range(Modules) \cup {"core", "grub.cfg"}
    BY Artifacts
  <2> QED
    BY <2>1, <2>2 DEF IInv, Types, TypeOK
<1> QED
  BY <1>1, Always, PTL

\* Install that returns no error has put the loader, the configuration and the entry in
\* the place where the firmware looks for them (InstallEFI, CreateEntry, InstallConfig).
THEOREM BootsElementalAll == Spec => []BootsElemental
<1>1. IInv => BootsElemental
  <2> SUFFICES ASSUME IInv PROVE BootsElemental
    OBVIOUS
  <2>1. WithEntry => PastEntries
    BY DEF WithEntry, PastEntries, PastEFI
  <2>2. Succeeded /\ args.firmware = "efi" => PastEFI
    BY DEF PastEFI
  <2>3. Flawless => Succeeded /\ Calm
    BY DEF Flawless, Calm
  <2>4. PastEFI /\ Calm =>
          Dirs \X ({"shim.efi", "grub.cfg"} \cup (Range(ShimFiles) \cap args.image)) \subseteq efi.files
    BY DEF IInv, FilesInv, Copied
  <2>5. PastEFI => <<"boot", "bootx64.efi">> \in efi.files
    BY DEF IInv, FilesInv
  <2>6. Succeeded => "grub.cfg" \in state
    BY DEF IInv, FilesInv
  <2>7. PastEntries => order # <<>> /\ option[Head(order)] = Ours(efi.dev)
    BY DEF IInv, OrderInv
  <2> QED
    BY <2>1, <2>2, <2>3, <2>4, <2>5, <2>6, <2>7 DEF BootsElemental
<1> QED
  BY <1>1, Always, PTL

\* The entries of elemental do not pile up and the order that is written is sound
\* (ClearBootEntry, FindOrCreateEntry, PrependAndSetBootOrder), however often an
\* installation or a reset ran, failed or was interrupted before.
THEOREM EntriesSoundAll == Spec => []EntriesSound
<1>1. IInv => EntriesSound
  <2> SUFFICES ASSUME IInv PROVE EntriesSound
    OBVIOUS
  <2>1. WithEntry => PastEntries
    BY DEF WithEntry, PastEntries, PastEFI
  <2>2. Flawless => Calm
    BY DEF Flawless, Calm
  <2>3. args.clear /\ Calm /\ PastEntries => Cardinality(Mine(option)) = 1
    <3>1. args.clear /\ Calm /\ PastEntries => Mine(option) = {number}
      BY DEF IInv, EntryInv
    <3>2. Cardinality({number}) = 1
      BY FS_Singleton
    <3> QED
      BY <3>1, <3>2
  <2>4. PastEntries => IsInjective(order) /\ \A i \in DOMAIN order : option[order[i]] # NoOption
    <3>1. DOMAIN order = 1 .. Len(order)
      BY DEF IInv, Types
    <3>2. PastEntries => Once(order) /\ \A i \in 1 .. Len(order) : option[order[i]] # NoOption
      BY DEF IInv, OrderInv
    <3> QED
      BY <3>1, <3>2, Zenon DEF Once, IsInjective
  <2>5. \A m, n \in Mine(option) : option[m] = option[n] => m = n
    BY DEF IInv, EntryInv
  <2> QED
    BY <2>1, <2>2, <2>3, <2>4, <2>5, Zenon DEF EntriesSound
<1> QED
  BY <1>1, Always, PTL

\* The other systems keep their order in BootOrder through a run without an error
\* (PrependAndSetBootOrder drops repetitions and numbers without an entry only).
THEOREM OthersKeepTheirOrderAll == Spec => []OthersKeepTheirOrder
<1>1. IInv => OthersKeepTheirOrder
  BY DEF IInv, OrderInv, OthersKeepTheirOrder, Flawless, Calm
<1> QED
  BY <1>1, Always, PTL

\* An installation or a reset that is repeated succeeds whatever the earlier ones left,
\* when no call fails, the image is sound and the firmware has room.
THEOREM RetrySucceedsAll == Spec => []RetrySucceeds
<1>1. IInv => RetrySucceeds
  <2> SUFFICES ASSUME IInv PROVE RetrySucceeds
    OBVIOUS
  <2>1. RetryInv
    BY DEF IInv
  <2> QED
    BY <2>1, Zenon DEF RetryInv, RetrySucceeds, SoundImage, Hindered, Calm
<1> QED
  BY <1>1, Always, PTL

\* No step of a run changes or removes the entry of another system, nor one that cannot
\* be read (ClearBootEntry goes by the name, CreateEntry takes a free number).
THEOREM OthersUntouchedAll == Spec => OthersUntouched
<1> DEFINE Safe == ~Ended => \A n \in Number : option[n].name \in {"other", "broken"} => option'[n] = option[n]
<1>1. IInv /\ [Next]_vars => [Safe]_vars
  <2> SUFFICES ASSUME IInv, Next, ~Ended PROVE Safe
    BY DEF Safe
  <2>1. Types /\ EntryInv /\ (Step \/ Interrupt)
    BY DEF IInv, Next, OtherSystem, Call
  <2>2. SUFFICES ASSUME NEW n \in Number, option[n].name \in {"other", "broken"}
                 PROVE  option'[n] = option[n]
    BY DEF Safe
  <2>3. CASE ByFile
    BY <2>1, <2>3, FileRoutes DEF FileStep
  <2>4. CASE Load \/ SetOrder
    BY <2>1, <2>4, LoadDoes, SetOrderDoes
  <2>5. CASE Clear
    <3>1. PICK gone \in SUBSET Mine(option) :
            option' = [m \in Number |-> IF m \in gone THEN NoOption ELSE option[m]]
      BY <2>1, <2>5, ClearDoes
    <3>2. n \notin gone
      BY <2>2 DEF Mine, IsOurs
    <3> QED
      BY <3>1, <3>2
  <2>6. CASE FindOrCreate
    <3>1. CASE UNCHANGED option
      BY <3>1
    <3>2. CASE bm.entries[number'] = NoOption /\ option' = [option EXCEPT ![number'] = Ours(efi.dev)]
      <4>1. bm.entries = option
        BY <2>1, <2>6, FindOrCreateDoes DEF EntryInv
      <4>2. n # number'
        BY <2>2, <3>2, <4>1, OptionIs
      <4> QED
        BY <2>1, <3>2, <4>2 DEF Types
    <3> QED
      BY <2>1, <2>6, <3>1, <3>2, FindOrCreateDoes
  <2> QED
    BY <2>1, <2>3, <2>4, <2>5, <2>6 DEF Step, ByFile
<1>2. Spec => [][Safe]_vars
  BY <1>1, Always, PTL DEF Spec
<1> QED
  BY <1>2 DEF OthersUntouched
=============================================================================
