------------------------------- MODULE Chroot -------------------------------
(***************************************************************************)
(* A chroot environment (pkg/utils/chroot.go): Prepare bind mounts the     *)
(* kernel file systems and the extra mounts under the root, Close unmounts *)
(* them, RunCallback runs a function inside and prepares and closes by     *)
(* itself unless mounts are there already.  Every system call can fail.    *)
(* A client makes any sequence of these calls on one Chroot.               *)
(***************************************************************************)
EXTENDS Naturals, Sequences

CONSTANTS ExtraMounts,   \* extra mount points, sorted by their host path
          MaxCalls,      \* bound on the client's calls
          MaxFaults      \* bound on failing system calls

Mounts == <<"dev", "dev/pts", "proc", "sys">> \o ExtraMounts
Mount  == {Mounts[i] : i \in 1 .. Len(Mounts)}
\* The mount points below another one.
Below(m) == IF m = "dev" THEN {"dev/pts"} ELSE {}

ASSUME ChrootAssumption ==
  /\ ExtraMounts \in Seq(STRING)
  /\ \A i, j \in 1 .. Len(Mounts) : Mounts[i] = Mounts[j] => i = j
  /\ MaxCalls \in Nat /\ MaxFaults \in Nat

VARIABLES
  activeMounts, failures,   \* as in the code, failures local to Close
  mounted,    \* the kernel's mount table: how often each mount point is mounted
  root,       \* the root directory of the process: "host" or "chroot"
  pc,         \* the next step
  call,       \* the client's call
  own,        \* RunCallback prepared the mounts itself and is to close them
  next,       \* the index of the next mount of Prepare
  err,        \* the call has failed
  clean,      \* no Close of this Chroot has failed so far
  calls, faults, start      \* bookkeeping; start: faults at the call

mountVars == <<activeMounts, failures, mounted>>
callVars  == <<call, own, next, clean, calls, start>>
vars      == <<mountVars, callVars, root, pc, err, faults>>
-----------------------------------------------------------------------------
Succeeds == UNCHANGED faults
Fails    == faults < MaxFaults /\ faults' = faults + 1
Goto(p)  == pc' = p /\ UNCHANGED err
Error(p) == pc' = p /\ err' = TRUE

\* A call; Prepare refuses when there are active mounts already.  A client whose
\* process is stuck in the chroot makes no further call.
Call(c) ==
  /\ pc = "idle" /\ root = "host" /\ calls < MaxCalls
  /\ calls' = calls + 1 /\ call' = c /\ next' = 1 /\ own' = FALSE
  /\ start' = faults
  /\ err' = (c = "Prepare" /\ activeMounts # <<>>)
  /\ pc' = CASE c = "Prepare"     -> IF activeMounts = <<>> THEN "prepare" ELSE "idle"
             [] c = "Close"       -> "close"
             [] c = "RunCallback" -> "enter"
  /\ UNCHANGED <<mountVars, root, clean, faults>>

\* Getwd and the opening of the current root.
Enter ==
  /\ pc = "enter"
  /\ \/ Succeeds /\ Goto(IF activeMounts = <<>> THEN "prepare" ELSE "chroot")
     \/ Fails /\ Error("return")
  /\ UNCHANGED <<mountVars, callVars, root>>

\* MkdirAll and Mount of one mount point; a failure closes what is mounted.
PrepareMount ==
  /\ pc = "prepare" /\ next <= Len(Mounts)
  /\ \/ /\ Succeeds /\ Goto("prepare")
        /\ mounted' = [mounted EXCEPT ![Mounts[next]] = @ + 1]
        /\ activeMounts' = Append(activeMounts, Mounts[next])
        /\ next' = next + 1
     \/ Fails /\ Error("close") /\ UNCHANGED <<mounted, activeMounts, next>>
  /\ UNCHANGED <<failures, root, call, own, clean, calls, start>>

Prepared ==
  /\ pc = "prepare" /\ next > Len(Mounts)
  /\ own' = (call = "RunCallback")
  /\ Goto(IF call = "RunCallback" THEN "chroot" ELSE "idle")
  /\ UNCHANGED <<mountVars, root, call, next, clean, calls, faults, start>>

\* chdir and chroot to the root of the environment.
EnterRoot ==
  /\ pc = "chroot"
  /\ \/ Succeeds /\ Goto("callback") /\ root' = "chroot"
     \/ Fails /\ Error(IF own THEN "close" ELSE "return") /\ UNCHANGED root
  /\ UNCHANGED <<mountVars, callVars>>

\* The callback returns, with an error or without.
CallbackReturns(failing) ==
  /\ pc = "callback"
  /\ IF failing THEN Error("restore") ELSE Goto("restore")
  /\ UNCHANGED <<mountVars, callVars, root, faults>>

Callback == \E failing \in BOOLEAN : CallbackReturns(failing)

\* Mutant: the error of the way back is dropped.
RestoreRootSilent ==
  /\ pc = "restore" /\ Goto(IF own THEN "close" ELSE "return")
  /\ \/ Succeeds /\ root' = "host"
     \/ Fails /\ UNCHANGED root
  /\ UNCHANGED <<mountVars, callVars>>

\* fchdir to the old root and chroot(".").
RestoreRoot ==
  /\ pc = "restore"
  /\ LET after == IF own THEN "close" ELSE "return"
     IN  \/ Succeeds /\ Goto(after) /\ root' = "host"
         \/ Fails /\ Error(after) /\ UNCHANGED root
  /\ UNCHANGED <<mountVars, callVars>>

LastMount == activeMounts[Len(activeMounts)]

\* One round of the loop of Close.  The kernel refuses a mount point with
\* another below it, and inside the chroot the path does not exist.
Busy(m) == root = "chroot" \/ \E b \in Below(m) : mounted[b] > 0

CloseMount ==
  /\ pc = "close" /\ activeMounts # <<>>
  /\ activeMounts' = SubSeq(activeMounts, 1, Len(activeMounts) - 1)
  /\ \/ /\ ~Busy(LastMount) /\ Succeeds
        /\ mounted' = [mounted EXCEPT ![LastMount] = @ - 1] /\ UNCHANGED failures
     \/ /\ Busy(LastMount) /\ Succeeds
        /\ failures' = Append(failures, LastMount) /\ UNCHANGED mounted
     \/ /\ ~Busy(LastMount) /\ Fails
        /\ failures' = Append(failures, LastMount) /\ UNCHANGED mounted
  /\ UNCHANGED <<callVars, root, pc, err>>

\* Mutant: failed unmounts are forgotten.
ClosedForgets ==
  /\ pc = "close" /\ activeMounts = <<>>
  /\ failures' = <<>> /\ UNCHANGED activeMounts
  /\ clean' = (clean /\ failures = <<>>)
  /\ err' = (err \/ failures # <<>>)
  /\ pc' = IF call = "RunCallback" THEN "return" ELSE "idle"
  /\ UNCHANGED <<mounted, root, call, own, next, calls, faults, start>>

\* The end of Close: mounts that resisted stay active.  Its error counts
\* unless the call has failed already.
Closed ==
  /\ pc = "close" /\ activeMounts = <<>>
  /\ activeMounts' = failures /\ failures' = <<>>
  /\ clean' = (clean /\ failures = <<>>)
  /\ err' = (err \/ failures # <<>>)
  /\ pc' = IF call = "RunCallback" THEN "return" ELSE "idle"
  /\ UNCHANGED <<mounted, root, call, own, next, calls, faults, start>>

\* The deferred return to the former working directory.
Return ==
  /\ pc = "return"
  /\ \/ Succeeds /\ Goto("idle")
     \/ Fails /\ Error("idle")
  /\ UNCHANGED <<mountVars, callVars, root>>
-----------------------------------------------------------------------------
Init ==
  /\ activeMounts = <<>> /\ failures = <<>> /\ mounted = [m \in Mount |-> 0]
  /\ root = "host" /\ pc = "idle" /\ call = "none" /\ own = FALSE /\ next = 1
  /\ err = FALSE /\ clean = TRUE /\ calls = 0 /\ faults = 0
  /\ start = 0

Step ==
  \/ Enter \/ PrepareMount \/ Prepared \/ EnterRoot
  \/ Callback \/ RestoreRoot \/ CloseMount \/ Closed \/ Return

Next == Step \/ \E c \in {"Prepare", "Close", "RunCallback"} : Call(c)

Spec == Init /\ [][Next]_vars

-----------------------------------------------------------------------------
TypeOK ==
  /\ activeMounts \in Seq(Mount) /\ failures \in Seq(Mount)
  /\ mounted \in [Mount -> Nat]
  /\ root \in {"host", "chroot"}
  /\ pc \in {"idle", "enter", "prepare", "chroot", "callback",
             "restore", "close", "return"}
  /\ call \in {"none", "Prepare", "Close", "RunCallback"}
  /\ own \in BOOLEAN /\ err \in BOOLEAN /\ clean \in BOOLEAN
  /\ next \in 1 .. Len(Mounts) + 1
  /\ calls \in 0 .. MaxCalls /\ faults \in 0 .. MaxFaults
  /\ start \in 0 .. MaxFaults

Times(m, s) == {i \in 1 .. Len(s) : s[i] = m}

\* Nothing is mounted that the Chroot does not know of and nothing is mounted
\* twice: each mount of the kernel is in activeMounts or, during Close, among
\* its failures, exactly once (activeMounts of chroot.go).
Tracked ==
  \A m \in Mount :
    /\ mounted[m] <= 1
    /\ mounted[m] = 1 <=> Times(m, activeMounts) \cup Times(m, failures) # {}
    /\ Times(m, activeMounts) = {} \/ Times(m, failures) = {}

\* A RunCallback that made its own mounts and returns no error left none of
\* them, and whatever call returned no error left the process in its own root.
LeakOnlyWithError ==
  pc = "idle" /\ ~err =>
    /\ root = "host"
    /\ own \/ call = "Close" => \A m \in Mount : mounted[m] = 0
=============================================================================
