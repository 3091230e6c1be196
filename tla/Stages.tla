------------------------------- MODULE Stages -------------------------------
(***************************************************************************)
(* Hooks: RunStage (pkg/utils/runstage.go) runs the stages NAME.before,    *)
(* NAME and NAME.after over all cloud-init files, then over the kernel     *)
(* command line; Hook and ChrootHook (pkg/action/common.go) run it on the  *)
(* host and in a chroot environment, several times in one process.  yip,   *)
(* which executes a stage over one source after the other, is external.    *)
(***************************************************************************)
EXTENDS Chroot, SequencesExt

CONSTANTS Paths,      \* cloud-init-paths, as a sequence
          Remote,     \* the sources that are URLs
          SetupURIs   \* what cos.setup on the kernel command line may name

Source == Range(Paths) \cup SetupURIs
Local  == Source \ Remote
Order  == <<"before", "main", "after">>
CmdLine == "cmdline"         \* the source that is the text of /proc/cmdline
Modifier == {"none", "DotNotation"}

ASSUME StagesAssumption ==
  Paths \in Seq(Range(Paths)) /\ Remote \subseteq Source /\ CmdLine \notin Source

VARIABLES
  at,         \* the next step of RunStage
  strict,     \* the strict option of the call
  inRoot,     \* the hook runs in a chroot
  files,      \* the paths of the call, with the one of cos.setup
  stage,      \* the index of the stage in Order
  todo,       \* the sources that the current Run of yip has left
  modifier,   \* of the yip executor, which all hooks of a process share
  failed,     \* allErrors of RunStage is not nil
  result,     \* what RunStage returned: an error or not
  present,    \* the local sources there are in each root
  ran,        \* what yip ran in this call, in order
  began       \* the sources there were when each stage began

hookVars   == <<strict, inRoot, files>>
loopVars   == <<stage, todo, modifier>>
stageVars  == <<hookVars, loopVars, at, failed, result, present, ran, began>>
stagesVars == <<vars, stageVars>>
-----------------------------------------------------------------------------
\* The local variables of a RunStage that begins, or that is over.
Locals ==
  /\ files' = Paths /\ stage' = 1 /\ todo' = <<>>
  /\ ran' = <<>> /\ began' = [i \in 1 .. 3 |-> {}]

\* A call of RunStage, on the host or as the callback of a chroot.
Begin(chrooted) ==
  /\ at' = "cmdline" /\ inRoot' = chrooted /\ strict' \in BOOLEAN
  /\ failed' = FALSE /\ result' = FALSE /\ Locals

Free == at \in {"none", "returned"}       \* no hook is running

\* Hook.  The callers have no chroot open at that moment.
Hook ==
  /\ pc = "idle" /\ Free /\ root = "host" /\ activeMounts = <<>> /\ calls < MaxCalls
  /\ calls' = calls + 1 /\ Begin(FALSE)
  /\ UNCHANGED <<mountVars, root, pc, call, own, next, err, clean, faults, start>>
  /\ UNCHANGED <<modifier, present>>

\* ChrootHook: a new Chroot, whose callback is a Hook.
ChrootHook ==
  /\ Free /\ activeMounts = <<>> /\ Call("RunCallback") /\ Begin(TRUE)
  /\ UNCHANGED <<modifier, present>>

\* RunStage may begin: at once on the host, in its callback in a chroot.
Active == IF inRoot THEN pc = "callback" ELSE pc = "idle"

\* The read of /proc/cmdline.  cos.setup adds a path behind those of the call; a
\* failed read is an error and leaves an empty command line.
ReadCmdLine ==
  /\ at = "cmdline" /\ Active
  /\ \/ UNCHANGED <<files, failed>>
     \/ \E uri \in SetupURIs : files' = Append(Paths, uri) /\ UNCHANGED failed
     \/ failed' = TRUE /\ UNCHANGED files
  /\ at' = "stage"
  /\ UNCHANGED <<vars, strict, inRoot, loopVars, result, present, ran, began>>

Here == IF inRoot THEN "chroot" ELSE "host"
\* filterNonExistingLocalURIs: all that is remote or there, in its order.
There(uris, locals) ==
  LET kept[n \in 0 .. Len(uris)] ==
        IF n = 0 THEN <<>>
        ELSE IF uris[n] \in Remote \cup locals THEN Append(kept[n - 1], uris[n]) ELSE kept[n - 1]
  IN  kept[Len(uris)]

\* One call of Run, which looks anew at each stage.
BeginStage ==
  /\ at = "stage" /\ stage <= 3
  /\ todo' = There(files, present[Here])
  /\ began' = [began EXCEPT ![stage] = present[Here]]
  /\ at' = "run"
  /\ UNCHANGED <<vars, hookVars, stage, modifier, failed, result, present, ran>>

Entry(source) == <<Order[stage], source, modifier, root>>

\* yip runs one source: its errors are collected and the next source has its turn.
\* What it runs may create a file that was missing.
RunSource ==
  /\ at = "run" /\ todo # <<>>
  /\ ran' = Append(ran, Entry(Head(todo))) /\ todo' = Tail(todo)
  /\ \/ UNCHANGED <<failed, present>>
     \/ failed' = TRUE /\ UNCHANGED present
     \/ /\ UNCHANGED failed
        /\ \E uri \in Local \ present[Here] :
             present' = [present EXCEPT ![Here] = @ \cup {uri}]
  /\ UNCHANGED <<vars, hookVars, at, stage, modifier, result, began>>

StageRan ==
  /\ at = "run" /\ todo = <<>>
  /\ stage' = stage + 1 /\ at' = "stage"
  /\ UNCHANGED <<vars, hookVars, todo, modifier, failed, result, present, ran, began>>

\* Then the three stages again over the command line itself, in dot notation.
SetDotNotation ==
  /\ at = "stage" /\ stage > 3
  /\ modifier' = "DotNotation" /\ stage' = 1 /\ at' = "dots"
  /\ UNCHANGED <<vars, hookVars, todo, failed, result, present, ran, began>>

\* checkYAMLError absorbs the errors of a command line that is YAML in parts only.
RunCmdLine ==
  /\ at = "dots" /\ stage <= 3
  /\ ran' = Append(ran, Entry(CmdLine)) /\ stage' = stage + 1
  /\ failed' \in {failed, TRUE}
  /\ UNCHANGED <<vars, hookVars, at, todo, modifier, result, present, began>>

\* Mutant: a strict run returns before the executor is reset.
EndStageEarly ==
  /\ at = "dots" /\ stage > 3
  /\ modifier' = IF strict /\ failed THEN modifier ELSE "none"
  /\ result' = (strict /\ failed) /\ at' = "done"
  /\ UNCHANGED <<vars, hookVars, stage, todo, failed, present, ran, began>>

\* The end of RunStage: without strict, errors are only logged.
EndStage ==
  /\ at = "dots" /\ stage > 3
  /\ modifier' = "none"
  /\ result' = (strict /\ failed) /\ at' = "done"
  /\ UNCHANGED <<vars, hookVars, stage, todo, failed, present, ran, began>>

\* Mutant: the error of a hook is dropped in a chroot.
ReturnHookSilent ==
  /\ at = "done" /\ Active /\ at' = "returned"
  /\ IF inRoot THEN CallbackReturns(FALSE)
     ELSE err' = result /\ UNCHANGED <<mountVars, callVars, root, pc, faults>>
  /\ Locals /\ UNCHANGED <<strict, inRoot, modifier, failed, result, present>>

\* The return of Hook: to the command or to the chroot, which closes.
ReturnHook ==
  /\ at = "done" /\ Active /\ at' = "returned"
  /\ IF inRoot THEN CallbackReturns(result)
     ELSE err' = result /\ UNCHANGED <<mountVars, callVars, root, pc, faults>>
  /\ Locals /\ UNCHANGED <<strict, inRoot, modifier, failed, result, present>>

\* The chroot could not be entered, so its hook never runs.
HookSkipped ==
  /\ at = "cmdline" /\ inRoot /\ pc = "idle" /\ at' = "returned"
  /\ UNCHANGED <<vars, hookVars, loopVars, failed, result, present, ran, began>>
-----------------------------------------------------------------------------
StagesInit ==
  /\ Init
  /\ at = "none" /\ strict = FALSE /\ inRoot = FALSE /\ files = Paths
  /\ stage = 1 /\ todo = <<>> /\ modifier = "none" /\ failed = FALSE /\ result = FALSE
  /\ present \in [{"host", "chroot"} -> SUBSET Local]
  /\ ran = <<>> /\ began = [i \in 1 .. 3 |-> {}]

\* The chroot around a hook, or around another callback, goes its way.
ChrootSteps ==
  /\ Enter \/ PrepareMount \/ Prepared \/ EnterRoot \/ RestoreRoot
     \/ CloseMount \/ Closed \/ Return \/ (Free /\ Callback)
  /\ UNCHANGED stageVars

ChrootCall ==
  /\ Free /\ at' = "none"
  /\ \E c \in {"Prepare", "Close", "RunCallback"} : Call(c)
  /\ inRoot' = FALSE /\ strict' = FALSE /\ failed' = FALSE /\ result' = FALSE
  /\ UNCHANGED <<files, loopVars, present, ran, began>>

HookStep ==
  \/ ReadCmdLine \/ BeginStage \/ RunSource \/ StageRan
  \/ SetDotNotation \/ RunCmdLine \/ EndStage \/ ReturnHook \/ HookSkipped

StagesNext == ChrootSteps \/ ChrootCall \/ Hook \/ ChrootHook \/ HookStep

StagesSpec == StagesInit /\ [][StagesNext]_stagesVars
-----------------------------------------------------------------------------
StagesTypeOK ==
  /\ TypeOK
  /\ at \in {"none", "cmdline", "stage", "run", "dots", "done", "returned"}
  /\ strict \in BOOLEAN /\ inRoot \in BOOLEAN /\ failed \in BOOLEAN /\ result \in BOOLEAN
  /\ files \in Seq(Source) /\ todo \in Seq(Source) /\ stage \in 1 .. 4
  /\ modifier \in Modifier
  /\ present \in [{"host", "chroot"} -> SUBSET Local]
  /\ ran \in Seq(Range(Order) \X (Source \cup {CmdLine}) \X Modifier \X {"host", "chroot"})
  /\ began \in [1 .. 3 -> SUBSET Local]

\* "Cloud configs are being loaded and executed on a best-effort, so every step/config
\* gets a chance to be executed" (runstage.go): when RunStage ends, each stage has
\* run over exactly the sources that were there when it began, also over those an
\* earlier stage has made, then over the command line, whatever failed; all of it
\* in the root of the hook, files as YAML and only the command line in dot
\* notation, whatever hooks ran before.
StagesComplete ==
  at = "done" =>
    LET Files(i) == There(files, began[i])
        Runs(i)  == [k \in DOMAIN Files(i) |-> <<Order[i], Files(i)[k], "none", Here>>]
        Cmd(i)   == <<Order[i], CmdLine, "DotNotation", Here>>
    IN  ran = Runs(1) \o Runs(2) \o Runs(3) \o <<Cmd(1), Cmd(2), Cmd(3)>>

\* A hook fails exactly when it is strict and something in it failed, or when its
\* chroot did: without strict, errors of cloud-init files never fail a command,
\* and no mode hides that a chroot could not be entered, left or unmounted.
HooksReport ==
  at = "returned" /\ pc = "idle" =>
    (err <=> (strict /\ failed) \/ (inRoot /\ faults # start))
=============================================================================
