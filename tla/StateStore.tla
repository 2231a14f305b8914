----------------------------- MODULE StateStore -----------------------------
(***************************************************************************)
(* StateDB's persistence: state-<device>.json, written as a temporary file *)
(* that replaces it (write, remove, rename), the mutex that serialises the *)
(* writers, the trailing debounce of watch mode, and load's recovery.      *)
(*                                                                         *)
(* A file is the version it holds and whether all of it was written.       *)
(* MergeBaseStore, CleanSideStore and SyncHistoryStore persist the same    *)
(* way.                                                                    *)
(***************************************************************************)
EXTENDS Naturals, Sequences

CONSTANTS
    Absent,      \* no file
    Failures,    \* which adapter calls may fail
    MaxVersion,  \* bound: versions of the state
    MaxQueue,    \* bound: saves waiting for the mutex
    MaxFaults    \* bound: crashes and failures

ASSUME AbsentAssumption == Absent \notin [ver: Nat, whole: BOOLEAN]
ASSUME FailuresAssumption == Failures \subseteq {"write", "remove", "rename", "read", "adopt"}
ASSUME BoundsAssumption == MaxVersion \in Nat /\ MaxQueue \in Nat /\ MaxFaults \in Nat

VARIABLES
    mem,     \* this.state
    main,    \* the file at statePath
    tmp,     \* the file at tmpPath
    timer,   \* saveTimer is set
    queue,   \* the mutex: the running job, then those waiting
    step,    \* where the running job, or load, is
    json,    \* the state the running job serialised
    asked,   \* the newest version a save was asked for
    faults   \* budget spent

vars == <<mem, main, tmp, timer, queue, step, json, asked, faults>>

File == [ver: Nat, whole: BOOLEAN]
Steps == {"free", "write", "finish", "remove", "rename", "load", "adopt"}
\* need: what the caller may take for durable once the job has run.
Job == [kind: {"save", "barrier"}, need: Nat]

\* load(): what a restart would bring back.
Readable(f) == IF f.whole THEN f.ver ELSE 0
Recoverable == IF main # Absent THEN Readable(main)
               ELSE IF tmp # Absent THEN Readable(tmp) ELSE 0

Init ==
    /\ mem = 0 /\ main = Absent /\ tmp = Absent
    /\ timer = FALSE /\ queue = <<>> /\ step = "free" /\ json = 0
    /\ asked = 0 /\ faults = 0

Up == step \notin {"load", "adopt"}
Room == Up /\ Len(queue) < MaxQueue
files == <<main, tmp>>
-----------------------------------------------------------------------------
\* A session sets rows; its save comes when it ends.
Set ==
    /\ Up /\ mem < MaxVersion /\ mem' = mem + 1
    /\ UNCHANGED <<files, timer, queue, step, json, asked, faults>>

\* A watch operation sets a row and calls requestSave.
SetAndRequest ==
    /\ Up /\ mem < MaxVersion /\ mem' = mem + 1
    /\ timer' = TRUE /\ asked' = mem'
    /\ UNCHANGED <<files, queue, step, json, faults>>

\* Mutant: the last caller is served first.
EnqueueFirst(kind, version) ==
    queue' = <<[kind |-> kind, need |-> version]>> \o queue

Enqueue(kind, version) ==
    queue' = Append(queue, [kind |-> kind, need |-> version])

TimerFires ==
    /\ Room /\ timer /\ timer' = FALSE
    /\ Enqueue("save", mem) /\ asked' = mem
    /\ UNCHANGED <<mem, files, step, json, faults>>

Save ==
    /\ Room /\ Enqueue("save", mem) /\ asked' = mem
    /\ UNCHANGED <<mem, files, timer, step, json, faults>>

\* Mutant: flush cancels the debounce and waits.
FlushDropsTimer ==
    /\ Room /\ timer' = FALSE /\ Enqueue("barrier", asked)
    /\ UNCHANGED <<mem, files, step, json, asked, faults>>

\* flush: a pending debounce is saved now; otherwise wait for the saves under way.
Flush ==
    /\ Room
    /\ \/ timer /\ timer' = FALSE /\ Enqueue("save", mem) /\ asked' = mem
       \/ ~timer /\ Enqueue("barrier", asked) /\ UNCHANGED <<timer, asked>>
    /\ UNCHANGED <<mem, files, step, json, faults>>

\* reset: the empty state is a new version of its own, saved at once.
Reset ==
    /\ Room /\ mem < MaxVersion /\ mem' = mem + 1
    /\ timer' = FALSE /\ Enqueue("save", mem') /\ asked' = mem'
    /\ UNCHANGED <<files, step, json, faults>>
-----------------------------------------------------------------------------
(* saveMutex.run(doSave) *)

Goto(label) == step' = label
JobDone == queue' = Tail(queue) /\ Goto("free")

\* Mutant: the job leaves the mutex before it has run.
BeginReleases ==
    /\ step = "free" /\ queue # <<>> /\ queue' = Tail(queue)
    /\ IF Head(queue).kind = "save" THEN json' = mem /\ Goto("write") ELSE UNCHANGED <<json, step>>
    /\ UNCHANGED <<mem, files, timer, asked, faults>>

Begin ==
    /\ step = "free" /\ queue # <<>>
    /\ \/ /\ Head(queue).kind = "barrier" /\ JobDone /\ UNCHANGED json
       \/ /\ Head(queue).kind = "save"
          /\ json' = mem /\ Goto("write") /\ UNCHANGED queue
    /\ UNCHANGED <<mem, files, timer, asked, faults>>

Fault == faults < MaxFaults /\ faults' = faults + 1

\* A rejected call ends the job and releases the mutex; nothing asks again.
Rejected(call) == call \in Failures /\ Fault /\ JobDone /\ UNCHANGED files

\* Mutant: the state file is written in place.
WriteInPlace ==
    /\ step = "write"
    /\ main' = [ver |-> json, whole |-> FALSE] /\ Goto("finish")
    /\ UNCHANGED <<mem, tmp, timer, queue, json, asked, faults>>

\* adapter.write is not atomic: a crash may leave part of the text.
StartWrite ==
    /\ step = "write"
    /\ \/ /\ tmp' = [ver |-> json, whole |-> FALSE] /\ Goto("finish")
          /\ UNCHANGED <<main, queue, faults>>
       \/ Rejected("write")
    /\ UNCHANGED <<mem, timer, json, asked>>

FinishWrite ==
    /\ step = "finish"
    /\ \/ /\ tmp' = [ver |-> json, whole |-> TRUE] /\ Goto("remove")
          /\ UNCHANGED <<main, queue, faults>>
       \/ Rejected("write")
    /\ UNCHANGED <<mem, timer, json, asked>>

RemoveMain ==
    /\ step = "remove"
    /\ \/ main' = Absent /\ Goto("rename") /\ UNCHANGED <<tmp, queue, faults>>
       \/ Rejected("remove")
    /\ UNCHANGED <<mem, timer, json, asked>>

Rename ==
    /\ step = "rename"
    /\ \/ main' = tmp /\ tmp' = Absent /\ JobDone /\ UNCHANGED faults
       \/ Rejected("rename")
    /\ UNCHANGED <<mem, timer, json, asked>>
-----------------------------------------------------------------------------
Crash ==
    /\ Fault
    /\ timer' = FALSE /\ queue' = <<>> /\ Goto("load") /\ mem' = 0 /\ json' = 0 /\ asked' = 0
    /\ UNCHANGED files

\* Mutant: load looks at statePath only.
LoadMainOnly ==
    /\ step = "load"
    /\ mem' = IF main # Absent THEN Readable(main) ELSE 0
    /\ asked' = mem' /\ Goto("free")
    /\ UNCHANGED <<files, timer, queue, json, faults>>

\* Mutant: what was recovered is left in tmpPath.
LoadWithoutAdopting ==
    /\ step = "load"
    /\ mem' = Recoverable /\ asked' = mem' /\ Goto("free")
    /\ UNCHANGED <<files, timer, queue, json, faults>>

\* load: statePath, else what a crash between remove and rename left in tmpPath.
\* A failing read looks like a corrupted file: the engine starts empty.
Load ==
    /\ step = "load"
    /\ \/ /\ mem' = Recoverable /\ UNCHANGED faults
          /\ Goto(IF main = Absent /\ tmp # Absent /\ tmp.whole THEN "adopt" ELSE "free")
       \/ "read" \in Failures /\ Fault /\ mem' = 0 /\ Goto("free")
    /\ asked' = mem' /\ UNCHANGED <<files, timer, queue, json>>

\* The recovered file is renamed into place, best effort.
Adopt ==
    /\ step = "adopt" /\ Goto("free")
    /\ \/ main' = tmp /\ tmp' = Absent /\ UNCHANGED faults
       \/ "adopt" \in Failures /\ Fault /\ UNCHANGED files
    /\ UNCHANGED <<mem, timer, queue, json, asked>>
-----------------------------------------------------------------------------
DoSave == Begin \/ StartWrite \/ FinishWrite \/ RemoveMain \/ Rename
Loading == Load \/ Adopt

Next == \/ Set \/ SetAndRequest \/ TimerFires \/ Save \/ Flush \/ Reset
        \/ DoSave \/ Crash \/ Loading

Spec == Init /\ [][Next]_vars

\* The event loop: the timer fires, an adapter call returns.
FairSpec == Spec /\ WF_vars(TimerFires) /\ WF_vars(DoSave) /\ WF_vars(Loading)
-----------------------------------------------------------------------------
\* Types, and the mutex: a job that is running is the head of the queue.
TypeOK ==
    /\ mem \in Nat /\ json \in Nat /\ asked \in Nat /\ faults \in Nat
    /\ main \in File \cup {Absent} /\ tmp \in File \cup {Absent}
    /\ timer \in BOOLEAN /\ queue \in Seq(Job) /\ step \in Steps
    /\ step \in {"write", "finish", "remove", "rename"} => queue # <<>>

\* statePath never holds a torn file, whatever fails and whenever the app dies.
MainIsWhole == main # Absent => main.whole

\* A save never writes over the only copy of the state: while the temporary file
\* is being written, the state file exists or nothing was persisted yet.
OnlyCopyIsSafe ==
    step = "write" /\ main = Absent => tmp = Absent \/ ~tmp.whole

\* When save() or flush() returns, every version a save was asked for before the
\* call is durable.
SettledIsDurable == [][
    queue # <<>> /\ queue' = Tail(queue) /\ step' = "free" =>
        Recoverable' >= Head(queue).need]_vars

\* A requested save is made, unless the app is killed first.
RequestIsServed ==
    \A v \in 1..MaxVersion : asked >= v ~> (Recoverable >= v \/ step = "load")

\* The file protocol implements the atomic store, durable being what load would
\* recover; memory is the recovered state from the crash on.
Store == INSTANCE AtomicStore WITH mem <- IF step = "load" THEN Recoverable ELSE mem,
                                   durable <- Recoverable
AtomicSpec == Store!Spec
=============================================================================
