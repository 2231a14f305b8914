---------------------------- MODULE Engine_proofs ----------------------------
(***************************************************************************)
(* A command that stops the session waits for all of it, its last save     *)
(* included, and a reset stays one, if no session starts while the last    *)
(* one is still being saved.  The code has no such guard; Engine_gap shows *)
(* what it costs.  What the engine's teardown saves, and what it leaves of *)
(* the state file, needs no such condition.  First, of the store alone:    *)
(* the state file is never torn, when no remove, rename or read fails the  *)
(* store implements the atomic one, and when no call of a save fails a     *)
(* caller that was answered has its state on disk.                         *)
(***************************************************************************)
EXTENDS Engine, SequenceTheorems, TLAPS

USE DEF File, Steps

\* Joining and leaving the mutex keeps it a queue of jobs.
LEMMA QueueTyping ==
    /\ <<>> \in Seq(Job)
    /\ \A q \in Seq(Job), k \in {"save", "barrier"}, n \in Nat :
          /\ Append(q, [kind |-> k, need |-> n]) \in Seq(Job)
          /\ Append(q, [kind |-> k, need |-> n]) # <<>>
    /\ \A q \in Seq(Job) : q # <<>> => Tail(q) \in Seq(Job) /\ Head(q) \in Job
<1>1. <<>> \in Seq(Job)
  BY EmptySeq
<1>2. ASSUME NEW q \in Seq(Job), NEW k \in {"save", "barrier"}, NEW n \in Nat
      PROVE  /\ Append(q, [kind |-> k, need |-> n]) \in Seq(Job)
             /\ Append(q, [kind |-> k, need |-> n]) # <<>>
  <2>1. [kind |-> k, need |-> n] \in Job
    BY DEF Job
  <2> QED
    BY <2>1, AppendProperties
<1>3. ASSUME NEW q \in Seq(Job), q # <<>>
      PROVE  Tail(q) \in Seq(Job) /\ Head(q) \in Job
  BY <1>3, HeadTailProperties
<1> QED
  BY <1>1, <1>2, <1>3

\* A rejected call leaves the files, and the mutex to the next job.
LEMMA RejectedTypes ==
  ASSUME NEW call, TypeOK, step # "free", queue # <<>>, Rejected(call), UNCHANGED <<mem, timer, json, asked>>
  PROVE  TypeOK'
<1>1. queue' \in Seq(Job)
  BY QueueTyping DEF Rejected, JobDone, TypeOK
<1>2. faults' \in Nat /\ step' = "free" /\ UNCHANGED <<main, tmp>>
  BY DEF Rejected, JobDone, Goto, Fault, files, TypeOK
<1> QED
  BY <1>1, <1>2 DEF TypeOK

\* The program starts with no file, an empty queue and nothing asked for.
LEMMA InitTypes == Init => TypeOK
<1> SUFFICES ASSUME Init PROVE TypeOK
  OBVIOUS
<1>1. queue \in Seq(Job)
  BY QueueTyping DEF Init
<1> QED
  BY <1>1 DEF Init, TypeOK

\* Every step keeps the types, and a running job at the head of the queue.
LEMMA NextTypes ==
  ASSUME TypeOK, [Next]_vars
  PROVE  TypeOK'
<1> USE DEF TypeOK
<1>1. CASE Set
  BY <1>1 DEF Set, files, Up
<1>2. CASE SetAndRequest
  BY <1>2 DEF SetAndRequest, files, Up
<1>3. CASE TimerFires
  BY <1>3, QueueTyping DEF TimerFires, Enqueue, files, Room, Up
<1>4. CASE Save
  BY <1>4, QueueTyping DEF Save, Enqueue, files, Room, Up
<1>5. CASE Flush
  BY <1>5, QueueTyping DEF Flush, Enqueue, files, Room, Up
<1>6. CASE Reset
  <2>1. mem' \in Nat
    BY <1>6 DEF Reset
  <2>2. queue' \in Seq(Job) /\ queue' # <<>>
    BY <1>6, <2>1, QueueTyping DEF Reset, Enqueue
  <2> QED
    BY <1>6, <2>1, <2>2 DEF Reset, files
<1>7. CASE Begin
  BY <1>7, QueueTyping DEF Begin, JobDone, Goto, files
<1>8. CASE StartWrite
  <2>1. CASE Rejected("write")
    BY <1>8, <2>1, RejectedTypes DEF StartWrite
  <2>2. CASE ~Rejected("write")
    <3>1. /\ tmp' = [ver |-> json, whole |-> FALSE] /\ step' = "finish"
          /\ UNCHANGED <<main, queue, faults, mem, timer, json, asked>> /\ queue # <<>>
      BY <1>8, <2>2 DEF StartWrite, Goto
    <3> QED
      BY <3>1
  <2> QED
    BY <2>1, <2>2
<1>9. CASE FinishWrite
  <2>1. CASE Rejected("write")
    BY <1>9, <2>1, RejectedTypes DEF FinishWrite
  <2>2. CASE ~Rejected("write")
    <3>1. /\ tmp' = [ver |-> json, whole |-> TRUE] /\ step' = "remove"
          /\ UNCHANGED <<main, queue, faults, mem, timer, json, asked>> /\ queue # <<>>
      BY <1>9, <2>2 DEF FinishWrite, Goto
    <3> QED
      BY <3>1
  <2> QED
    BY <2>1, <2>2
<1>10. CASE RemoveMain
  BY <1>10, QueueTyping DEF RemoveMain, Rejected, JobDone, Goto, Fault, files
<1>11. CASE Rename
  BY <1>11, QueueTyping DEF Rename, Rejected, JobDone, Goto, Fault, files
<1>12. CASE Crash
  <2>1. queue' \in Seq(Job)
    BY <1>12, QueueTyping DEF Crash
  <2>2. faults' \in Nat /\ step' = "load" /\ UNCHANGED <<main, tmp>>
    BY <1>12 DEF Crash, Goto, Fault, files
  <2>3. mem' = 0 /\ json' = 0 /\ asked' = 0 /\ timer' = FALSE
    BY <1>12 DEF Crash
  <2> QED
    BY <2>1, <2>2, <2>3
<1>13. CASE Load
  BY <1>13 DEF Load, Goto, Fault, Recoverable, Readable, files
<1>14. CASE Adopt
  BY <1>14 DEF Adopt, Goto, Fault, files
<1>15. CASE UNCHANGED vars
  BY <1>15 DEF vars
<1> QED
  BY <1>1, <1>2, <1>3, <1>4, <1>5, <1>6, <1>7, <1>8, <1>9, <1>10, <1>11,
     <1>12, <1>13, <1>14, <1>15 DEF Next, DoSave, Loading

\* The mutex, the timer, the versions and the two files keep their types, and a
\* running job stays at the head of the queue (StateDB.doSave, AsyncMutex.run).
THEOREM TypeCorrect == Spec => []TypeOK
<1>1. Init => TypeOK
  BY InitTypes
<1>2. TypeOK /\ [Next]_vars => TypeOK'
  BY NextTypes
<1> QED
  BY <1>1, <1>2, PTL DEF Spec
-----------------------------------------------------------------------------
\* A file that was written is there.
LEMMA FileIsPresent == \A v \in Nat, w \in BOOLEAN : [ver |-> v, whole |-> w] # Absent
  BY AbsentAssumption

(***************************************************************************)
(* Where the protocol is determines what the two files hold, whatever      *)
(* fails: this is what makes the state file whole at every step.           *)
(***************************************************************************)
FilesOK ==
    /\ MainIsWhole
    /\ step = "finish" => tmp # Absent /\ ~tmp.whole
    /\ step \in {"remove", "rename"} => tmp # Absent /\ tmp.whole /\ tmp.ver = json
    /\ step = "rename" => main = Absent
    /\ step = "adopt" => main = Absent /\ tmp # Absent /\ tmp.whole

\* Whatever call fails, and wherever the app is killed.
LEMMA NextFiles ==
  ASSUME TypeOK, FilesOK, [Next]_vars
  PROVE  FilesOK'
<1> USE DEF FilesOK, MainIsWhole
<1>1. CASE Set \/ SetAndRequest \/ TimerFires \/ Save \/ Flush \/ Reset
  BY <1>1 DEF Set, SetAndRequest, TimerFires, Save, Flush, Reset, files
<1>2. CASE Begin
  BY <1>2 DEF Begin, JobDone, Goto, files
<1>3. CASE StartWrite
  <2>1. CASE Rejected("write")
    BY <2>1 DEF Rejected, JobDone, Goto, files
  <2>2. CASE ~Rejected("write")
    <3>1. /\ tmp' = [ver |-> json, whole |-> FALSE] /\ step' = "finish"
          /\ UNCHANGED <<main, json>>
      BY <1>3, <2>2 DEF StartWrite, Goto
    <3> QED
      BY <3>1, FileIsPresent DEF TypeOK
  <2> QED
    BY <2>1, <2>2
<1>4. CASE FinishWrite
  <2>1. CASE Rejected("write")
    BY <2>1 DEF Rejected, JobDone, Goto, files
  <2>2. CASE ~Rejected("write")
    <3>1. /\ tmp' = [ver |-> json, whole |-> TRUE] /\ step' = "remove"
          /\ UNCHANGED <<main, json>>
      BY <1>4, <2>2 DEF FinishWrite, Goto
    <3> QED
      BY <3>1, FileIsPresent DEF TypeOK
  <2> QED
    BY <2>1, <2>2
<1>5. CASE RemoveMain \/ Rename
  BY <1>5 DEF RemoveMain, Rename, Rejected, JobDone, Goto, files
<1>6. CASE Crash
  BY <1>6 DEF Crash, Goto, files
<1>7. CASE Load
  BY <1>7 DEF Load, Goto, files
<1>8. CASE Adopt
  BY <1>8 DEF Adopt, Goto, files
<1>9. CASE UNCHANGED vars
  BY <1>9 DEF vars
<1> QED
  BY <1>1, <1>2, <1>3, <1>4, <1>5, <1>6, <1>7, <1>8, <1>9
     DEF Next, DoSave, Loading

LEMMA FilesInvariant == Spec => []FilesOK
<1>1. Init => FilesOK
  BY DEF Init, FilesOK, MainIsWhole
<1>2. TypeOK /\ FilesOK /\ [Next]_vars => FilesOK'
  BY NextFiles
<1> QED
  BY <1>1, <1>2, TypeCorrect, PTL DEF Spec

\* The state file is never torn: whatever call fails and whenever the app is
\* killed, doSave only ever renames a finished temporary file over it.
THEOREM StateFileWhole == Spec => []MainIsWhole
<1>1. FilesOK => MainIsWhole
  BY DEF FilesOK
<1> QED
  BY <1>1, FilesInvariant, PTL
-----------------------------------------------------------------------------
(***************************************************************************)
(* When remove, rename and read succeed, the temporary file is the only    *)
(* copy of the state just between remove and rename, and what a restart    *)
(* would load is never newer than memory.                                  *)
(***************************************************************************)
Reliable == Failures \subseteq {"write"}

VersionsOK ==
    /\ step \in {"free", "write"} /\ main = Absent => tmp = Absent \/ ~tmp.whole
    /\ step \in {"write", "finish", "remove", "rename"} => Recoverable <= json /\ json <= mem
    /\ step \in {"free", "adopt"} => Recoverable <= mem

LEMMA NextVersions == ASSUME Reliable, TypeOK, FilesOK, VersionsOK, [Next]_vars PROVE VersionsOK'
<1> USE DEF TypeOK, FilesOK, MainIsWhole, VersionsOK, Recoverable, Readable
<1>1. CASE Set \/ SetAndRequest \/ Reset
  BY <1>1 DEF Set, SetAndRequest, Reset, files, Up, Room
<1>2. CASE TimerFires \/ Save \/ Flush
  BY <1>2 DEF TimerFires, Save, Flush, files
<1>3. CASE Begin
  BY <1>3 DEF Begin, JobDone, Goto, files
<1>4. CASE StartWrite
  BY <1>4, AbsentAssumption DEF StartWrite, Rejected, JobDone, Goto, files
<1>5. CASE FinishWrite
  BY <1>5, AbsentAssumption DEF FinishWrite, Rejected, JobDone, Goto, files
<1>6. CASE RemoveMain \/ Rename
  BY <1>6, Reliable DEF Reliable, RemoveMain, Rename, Rejected, JobDone, Goto
<1>7. CASE Crash
  BY <1>7 DEF Crash, Goto, files
<1>8. CASE Load
  BY <1>8, Reliable DEF Reliable, Load, Goto, files
<1>9. CASE Adopt
  BY <1>9, Reliable DEF Reliable, Adopt, Goto
<1>10. CASE UNCHANGED vars
  BY <1>10 DEF vars
<1> QED
  BY <1>1, <1>2, <1>3, <1>4, <1>5, <1>6, <1>7, <1>8, <1>9, <1>10
     DEF Next, DoSave, Loading

LEMMA VersionsInvariant == ASSUME Reliable PROVE Spec => []VersionsOK
<1>1. Init => VersionsOK
  BY DEF Init, VersionsOK, Recoverable
<1>2. TypeOK /\ FilesOK /\ VersionsOK /\ [Next]_vars => VersionsOK'
  BY NextVersions
<1> QED
  BY <1>1, <1>2, TypeCorrect, FilesInvariant, PTL DEF Spec

\* While remove, rename and read succeed, a save never begins to write over the
\* only copy of the state, however crashes and failing writes fall.
THEOREM OnlyCopySafe == ASSUME Reliable PROVE Spec => []OnlyCopyIsSafe
<1>1. VersionsOK => OnlyCopyIsSafe
  BY DEF VersionsOK, OnlyCopyIsSafe
<1> QED
  BY <1>1, VersionsInvariant, PTL

LEMMA NextImplements ==
  ASSUME Reliable, TypeOK, FilesOK, VersionsOK, [Next]_vars
  PROVE  [Store!Next]_<<IF step = "load" THEN Recoverable ELSE mem, Recoverable>>
<1> USE DEF TypeOK, FilesOK, MainIsWhole, VersionsOK, Recoverable, Readable,
            Store!Next, Store!Change, Store!Commit, Store!Restart
<1>1. CASE Set \/ SetAndRequest \/ Reset
  BY <1>1 DEF Set, SetAndRequest, Reset, files, Up, Room
<1>2. CASE TimerFires \/ Save \/ Flush
  BY <1>2 DEF TimerFires, Save, Flush, files
<1>3. CASE Begin
  BY <1>3 DEF Begin, JobDone, Goto, files
<1>4. CASE StartWrite
  BY <1>4, AbsentAssumption DEF StartWrite, Rejected, JobDone, Goto, files
<1>5. CASE FinishWrite
  BY <1>5, AbsentAssumption DEF FinishWrite, Rejected, JobDone, Goto, files
<1>6. CASE RemoveMain
  BY <1>6, Reliable DEF Reliable, RemoveMain, Rejected, Goto
<1>7. CASE Rename
  BY <1>7, Reliable DEF Reliable, Rename, Rejected, JobDone, Goto
<1>8. CASE Crash
  BY <1>8 DEF Crash, Goto, files
<1>9. CASE Load
  BY <1>9, Reliable DEF Reliable, Load, Goto, files
<1>10. CASE Adopt
  BY <1>10, Reliable DEF Reliable, Adopt, Goto
<1>11. CASE UNCHANGED vars
  BY <1>11 DEF vars
<1> QED
  BY <1>1, <1>2, <1>3, <1>4, <1>5, <1>6, <1>7, <1>8, <1>9, <1>10, <1>11
     DEF Next, DoSave, Loading

\* Under the same condition the file protocol implements the atomic store: every
\* step of doSave, load and the engine changes what a restart would load as a
\* commit of the atomic store does, or not at all.
THEOREM Refinement == ASSUME Reliable PROVE Spec => AtomicSpec
<1>1. Init => Store!Init
  BY DEF Init, Store!Init, Recoverable
<1>2. TypeOK /\ FilesOK /\ VersionsOK /\ [Next]_vars
      => [Store!Next]_<<IF step = "load" THEN Recoverable ELSE mem, Recoverable>>
  BY NextImplements
<1> QED
  BY <1>1, <1>2, TypeCorrect, FilesInvariant, VersionsInvariant, PTL
     DEF Spec, AtomicSpec, Store!Spec
-----------------------------------------------------------------------------
(***************************************************************************)
(* When the calls of a save succeed, a caller of save() or flush() that is *)
(* served has what it was promised: its version is on disk, or a save      *)
(* ahead of it in the mutex will write it, and a flush that only waits     *)
(* finds such a save whenever something was asked for, since no debounce   *)
(* is pending then.  A restart that failed to read the state may well put  *)
(* an older one over it, but nobody was promised the newer one since.      *)
(***************************************************************************)
SavesSucceed == Failures \subseteq {"read", "adopt"}

Busy == step \in {"write", "finish", "remove", "rename"}

\* What a restart would load once the running save is done.
Held == IF Busy THEN json ELSE Recoverable

Ahead(v, k) ==
    \/ v <= Held
    \/ \E j \in 1..k - 1 : queue[j].kind = "save" /\ queue[j].need >= v

ServedOK ==
    /\ asked <= mem
    /\ ~Up => queue = <<>> /\ ~timer
    /\ step = "adopt" => asked <= Recoverable
    /\ Busy => queue[1].kind = "save" /\ queue[1].need <= json
    /\ \A i \in 1..Len(queue) : queue[i].need <= mem
    /\ \A i \in 1..Len(queue) : queue[i].kind = "barrier" => Ahead(queue[i].need, i)
    /\ Up /\ ~timer => Ahead(asked, Len(queue) + 1)

\* A job that joins the mutex stands behind the others.
LEMMA Behind ==
  ASSUME TypeOK, NEW job \in Job, queue' = Append(queue, job), Held' = Held
  PROVE  /\ Len(queue) \in Nat /\ Len(queue') = Len(queue) + 1
         /\ queue'[Len(queue) + 1] = job
         /\ \A i \in 1..Len(queue) : queue'[i] = queue[i] /\ queue[i] \in Job
         /\ \A v, k \in 1..Len(queue) + 1 : Ahead(v, k) => Ahead(v, k)'
<1>1. /\ Len(queue) \in Nat /\ Len(queue') = Len(queue) + 1
      /\ queue'[Len(queue) + 1] = job
      /\ \A i \in 1..Len(queue) : queue'[i] = queue[i]
  BY AppendProperties, LenProperties DEF TypeOK
<1>2. \A i \in 1..Len(queue) : queue[i] \in Job
  BY ElementOfSeq DEF TypeOK
<1>3. ASSUME NEW v, NEW k \in 1..Len(queue) + 1, Ahead(v, k) PROVE Ahead(v, k)'
  BY <1>1, <1>3 DEF Ahead
<1> QED
  BY <1>1, <1>2, <1>3

\* A save that joins promises what is in memory, and nobody was promised more.
LEMMA SaveJoins ==
  ASSUME TypeOK, ServedOK, Up, UNCHANGED <<main, tmp, step, json>>, mem' \in Nat, mem' >= mem, asked' = mem',
         queue' = Append(queue, [kind |-> "save", need |-> mem'])
  PROVE  ServedOK'
<1> DEFINE job == [kind |-> "save", need |-> mem']
<1>1. job \in Job /\ job.kind = "save" /\ job.need = mem'
  BY DEF Job
<1>2. Held' = Held /\ Up'
  BY DEF Held, Busy, Recoverable, Readable, Up
<1> HIDE DEF job
<1>3. queue' = Append(queue, job)
  BY DEF job
<1>4. /\ Len(queue) \in Nat /\ Len(queue') = Len(queue) + 1
      /\ queue'[Len(queue) + 1] = job
      /\ \A i \in 1..Len(queue) : queue'[i] = queue[i] /\ queue[i] \in Job
      /\ \A v, k \in 1..Len(queue) + 1 : Ahead(v, k) => Ahead(v, k)'
  BY <1>1, <1>2, <1>3, Behind
<1>5. \A i \in 1..Len(queue') : queue'[i].need <= mem'
  <2> SUFFICES ASSUME NEW i \in 1..Len(queue') PROVE queue'[i].need <= mem'
    OBVIOUS
  <2>1. CASE i = Len(queue) + 1
    BY <1>1, <1>4, <2>1
  <2>2. CASE i \in 1..Len(queue)
    BY <1>4, <2>2 DEF ServedOK, TypeOK, Job
  <2> QED
    BY <1>4, <2>1, <2>2
<1>6. \A i \in 1..Len(queue') : queue'[i].kind = "barrier" => Ahead(queue[i].need, i)' 
  <2> SUFFICES ASSUME NEW i \in 1..Len(queue'), queue'[i].kind = "barrier" PROVE Ahead(queue[i].need, i)'
    OBVIOUS
  <2>1. i \in 1..Len(queue) /\ queue'[i] = queue[i]
    BY <1>1, <1>4
  <2>2. Ahead(queue[i].need, i)
    BY <2>1 DEF ServedOK
  <2> QED
    BY <1>2, <1>4, <2>1, <2>2 DEF Ahead
<1>7. Ahead(asked, Len(queue) + 1)'
  <2>1. Len(queue) + 1 \in 1..Len(queue') /\ queue'[Len(queue) + 1].need >= asked'
    BY <1>1, <1>4
  <2> QED
    BY <1>1, <1>4, <2>1 DEF Ahead
<1>8. Busy' => queue'[1].kind = "save" /\ queue'[1].need <= json'
  BY <1>4, EmptySeq, LenProperties DEF ServedOK, Busy, TypeOK
<1>9. asked' <= mem' /\ step' # "adopt"
  BY DEF Up
<1> QED
  BY <1>2, <1>5, <1>6, <1>7, <1>8, <1>9 DEF ServedOK

\* A flush that only waits joins when every request has its save ahead.
LEMMA BarrierJoins ==
  ASSUME TypeOK, ServedOK, Up, ~timer, UNCHANGED <<mem, main, tmp, step, json, asked, timer>>,
         queue' = Append(queue, [kind |-> "barrier", need |-> asked])
  PROVE  ServedOK'
<1> DEFINE job == [kind |-> "barrier", need |-> asked]
<1>1. job \in Job /\ job.kind = "barrier" /\ job.need = asked
  BY DEF Job, TypeOK
<1>2. Held' = Held /\ Up'
  BY DEF Held, Busy, Recoverable, Readable, Up
<1> HIDE DEF job
<1>3. queue' = Append(queue, job)
  BY DEF job
<1>4. /\ Len(queue) \in Nat /\ Len(queue') = Len(queue) + 1
      /\ queue'[Len(queue) + 1] = job
      /\ \A i \in 1..Len(queue) : queue'[i] = queue[i] /\ queue[i] \in Job
      /\ \A v, k \in 1..Len(queue) + 1 : Ahead(v, k) => Ahead(v, k)'
  BY <1>1, <1>2, <1>3, Behind
<1>5. \A i \in 1..Len(queue') : queue'[i].need <= mem'
  <2> SUFFICES ASSUME NEW i \in 1..Len(queue') PROVE queue'[i].need <= mem'
    OBVIOUS
  <2>1. CASE i = Len(queue) + 1
    BY <1>1, <1>4, <2>1 DEF ServedOK
  <2>2. CASE i \in 1..Len(queue)
    BY <1>4, <2>2 DEF ServedOK
  <2> QED
    BY <1>4, <2>1, <2>2
<1>6. Ahead(asked, Len(queue) + 1)
  BY DEF ServedOK
<1>7. \A i \in 1..Len(queue') : queue'[i].kind = "barrier" => Ahead(queue[i].need, i)'
  <2> SUFFICES ASSUME NEW i \in 1..Len(queue'), queue'[i].kind = "barrier" PROVE Ahead(queue[i].need, i)'
    OBVIOUS
  <2>1. CASE i = Len(queue) + 1
    <3>1. queue'[i].need = asked /\ i \in Nat
      BY <1>1, <1>4, <2>1
    <3>2. \A j \in 1..i - 1 : queue'[j] = queue[j]
      BY <1>4, <2>1
    <3> QED
      BY <1>2, <1>6, <2>1, <3>1, <3>2 DEF Ahead
  <2>2. CASE i \in 1..Len(queue)
    <3>1. queue'[i] = queue[i] /\ Ahead(queue[i].need, i)
      BY <1>4, <2>2 DEF ServedOK
    <3> QED
      BY <1>2, <1>4, <2>2, <3>1 DEF Ahead
  <2> QED
    BY <1>4, <2>1, <2>2
<1>8. Ahead(asked, Len(queue) + 1)'
  BY <1>2, <1>4, <1>6 DEF Ahead
<1>9. Busy' => queue'[1].kind = "save" /\ queue'[1].need <= json'
  BY <1>4, EmptySeq, LenProperties DEF ServedOK, Busy, TypeOK
<1>10. asked' <= mem' /\ step' # "adopt"
  BY DEF Up, ServedOK
<1> QED
  BY <1>2, <1>5, <1>7, <1>8, <1>9, <1>10 DEF ServedOK

\* A job that has run leaves the others what stands ahead of them.
LEMMA JobLeaves ==
  ASSUME TypeOK, ServedOK, Up, queue # <<>>, queue' = Tail(queue), step' = "free",
         UNCHANGED <<mem, timer, asked>>, Held \in Nat, Held' \in Nat, Held' >= Held,
         queue[1].kind = "save" => queue[1].need <= Held'
  PROVE  ServedOK'
<1>1. /\ Len(queue) \in Nat \ {0} /\ Len(queue') = Len(queue) - 1
      /\ \A i \in 1..Len(queue') : queue'[i] = queue[i + 1]
      /\ \A i \in 1..Len(queue) : queue[i] \in Job
  BY HeadTailProperties, LenProperties, EmptySeq, ElementOfSeq DEF TypeOK
<1>2. ASSUME NEW v \in Nat, NEW k \in 1..Len(queue), Ahead(v, k + 1) PROVE Ahead(v, k)'
  <2>1. CASE v <= Held
    BY <2>1 DEF Ahead
  <2>2. CASE ~(v <= Held)
    <3>1. PICK j \in 1..k : queue[j].kind = "save" /\ queue[j].need >= v
      BY <1>2, <2>2 DEF Ahead
    <3>2. j \in 1..Len(queue) /\ queue[j].need \in Nat
      BY <1>1, <3>1 DEF Job
    <3>3. CASE j = 1
      <4>1. v <= Held'
        BY <3>1, <3>2, <3>3
      <4> QED
        BY <4>1 DEF Ahead
    <3>4. CASE j # 1
      <4>1. j - 1 \in 1..k - 1 /\ j - 1 \in 1..Len(queue') /\ queue'[j - 1] = queue[j]
        BY <1>1, <3>2, <3>4
      <4> QED
        BY <3>1, <4>1 DEF Ahead
    <3> QED
      BY <3>3, <3>4
  <2> QED
    BY <2>1, <2>2
<1>3. \A i \in 1..Len(queue') : queue'[i].need <= mem'
  BY <1>1 DEF ServedOK
<1>4. \A i \in 1..Len(queue') : queue'[i].kind = "barrier" => Ahead(queue[i].need, i)'
  <2> SUFFICES ASSUME NEW i \in 1..Len(queue'), queue'[i].kind = "barrier" PROVE Ahead(queue[i].need, i)'
    OBVIOUS
  <2>1. i + 1 \in 1..Len(queue) /\ i \in 1..Len(queue) /\ queue'[i] = queue[i + 1] /\ queue[i + 1].need \in Nat
    BY <1>1 DEF Job
  <2>2. Ahead(queue[i + 1].need, i + 1)
    BY <2>1 DEF ServedOK
  <2>3. \A v \in Nat : Ahead(v, i + 1) => Ahead(v, i)'
    BY <1>2, <2>1
  <2> QED
    BY <2>1, <2>2, <2>3 DEF Ahead
<1>5. ASSUME ~timer PROVE Ahead(asked, Len(queue) + 1)'
  <2>1. PICK v \in Nat, n \in Nat : v = asked /\ n = Len(queue)
    BY <1>1 DEF TypeOK
  <2>2. n \in 1..Len(queue) /\ Ahead(v, n + 1)
    BY <1>1, <1>5, <2>1 DEF ServedOK
  <2>3. Ahead(v, n)'
    BY <1>2, <2>2
  <2>4. asked' = v
    BY <2>1
  <2>5. Len(queue') + 1 = n
    BY <1>1, <2>1
  <2> QED
    BY <2>3, <2>4, <2>5, SMTT(30) DEF Ahead
<1> QED
  BY <1>3, <1>4, <1>5 DEF ServedOK, Busy, Up

\* A step that leaves the queue alone takes nothing away.
LEMMA AheadStays ==
  ASSUME queue' = queue, NEW v, v <= Held => v <= Held', NEW k, Ahead(v, k)
  PROVE  Ahead(v, k)'
  BY DEF Ahead

\* The running job takes a step: the others keep what they wait for, and if it
\* ends, its caller was not promised more than is held.
LEMMA JobServed ==
  ASSUME SavesSucceed, TypeOK, FilesOK, ServedOK, DoSave
  PROVE  /\ ServedOK'
         /\ queue' # queue => Head(queue).need <= Recoverable'
<1>1. Held \in Nat /\ mem \in Nat
  BY DEF TypeOK, Held, Recoverable, Readable
<1>2. TypeOK'
  BY NextTypes DEF Next
<1>3. Held' \in Nat
  BY <1>2 DEF TypeOK, Held, Recoverable, Readable
<1>4. queue # <<>> /\ Up /\ UNCHANGED <<mem, timer, asked>>
  BY DEF DoSave, Begin, StartWrite, FinishWrite, RemoveMain, Rename, TypeOK, Up
<1>5. Head(queue) = queue[1] /\ Len(queue) \in Nat /\ 1 \in 1..Len(queue) /\ \A i \in 1..Len(queue) : queue[i] \in Job
  BY <1>4, HeadTailProperties, LenProperties, EmptySeq, ElementOfSeq DEF TypeOK
<1>6. ASSUME queue' = queue, Busy', queue[1].kind = "save", queue[1].need <= json',
             Held' = Held \/ Held' = mem
      PROVE  ServedOK'
  <2>1. \A i \in 1..Len(queue') : queue'[i].need <= mem'
    BY <1>4, <1>6 DEF ServedOK
  <2>2. \A i \in 1..Len(queue') : queue'[i].kind = "barrier" => Ahead(queue[i].need, i)'
    <3> SUFFICES ASSUME NEW i \in 1..Len(queue), queue[i].kind = "barrier" PROVE Ahead(queue[i].need, i)'
      BY <1>6
    <3>1. PICK v \in Nat : v = queue[i].need /\ v <= mem /\ Ahead(v, i)
      BY <1>5 DEF ServedOK, Job
    <3>2. v <= Held => v <= Held'
      BY <1>6, <3>1
    <3>3. Ahead(v, i)'
      BY <1>6, <3>1, <3>2, AheadStays
    <3> QED
      BY <1>6, <3>1, <3>3 DEF Ahead
  <2>3. ASSUME ~timer PROVE Ahead(asked, Len(queue) + 1)'
    <3>1. PICK v \in Nat, n \in Nat : v = asked /\ v <= mem /\ n = Len(queue) + 1 /\ Ahead(v, n)
      BY <1>4, <1>5, <2>3 DEF ServedOK, TypeOK
    <3>2. v <= Held => v <= Held'
      BY <1>6, <3>1
    <3>3. Ahead(v, n)'
      BY <1>6, <3>1, <3>2, AheadStays
    <3>4. asked' = v /\ Len(queue') + 1 = n
      BY <1>4, <1>6, <3>1
    <3> QED
      BY <3>3, <3>4 DEF Ahead
  <2> QED
    BY <1>4, <1>6, <2>1, <2>2, <2>3 DEF ServedOK, Busy, Up
<1>7. CASE Begin
  <2>0. step = "free" /\ UNCHANGED <<main, tmp>>
    BY <1>7 DEF Begin, files
  <2>1. CASE Head(queue).kind = "barrier"
    <3>1. queue' = Tail(queue) /\ step' = "free"
      BY <1>7, <2>1 DEF Begin, JobDone, Goto
    <3>2. queue[1].need <= Recoverable /\ Recoverable' = Recoverable
      BY <1>5, <2>0, <2>1 DEF ServedOK, Ahead, Held, Busy, Recoverable, Readable
    <3>3. Held' = Held
      BY <2>0, <3>1, <3>2 DEF Held, Busy
    <3>4. queue[1].kind # "save"
      BY <1>5, <2>1
    <3> QED
      BY <1>1, <1>3, <1>4, <1>5, <3>1, <3>2, <3>3, <3>4, JobLeaves
  <2>2. CASE Head(queue).kind = "save"
    <3>1. json' = mem /\ step' = "write" /\ queue' = queue
      BY <1>7, <2>2 DEF Begin, Goto
    <3>2. queue[1].need <= json' /\ Held' = mem
      BY <1>5, <3>1 DEF ServedOK, Held, Busy
    <3> QED
      BY <1>5, <1>6, <2>2, <3>1, <3>2 DEF Busy
  <2> QED
    BY <1>7, <2>1, <2>2 DEF Begin
<1>8. CASE StartWrite \/ FinishWrite \/ RemoveMain
  <2>1. Busy /\ Busy' /\ queue' = queue /\ json' = json
    BY <1>8 DEF StartWrite, FinishWrite, RemoveMain, Rejected, Goto, SavesSucceed, Busy
  <2>2. Held' = Held
    BY <2>1 DEF Held
  <2> QED
    BY <1>6, <2>1, <2>2 DEF ServedOK
<1>9. CASE Rename
  <2>1. step = "rename" /\ main' = tmp /\ queue' = Tail(queue) /\ step' = "free"
    BY <1>9 DEF Rename, Rejected, JobDone, Goto, SavesSucceed
  <2>2. Recoverable' = json /\ queue[1].kind = "save" /\ queue[1].need <= json
    BY <2>1 DEF ServedOK, Busy, FilesOK, Recoverable, Readable
  <2>3. Held' = Held /\ queue[1].need <= Held'
    BY <2>1, <2>2 DEF Held, Busy
  <2> QED
    BY <1>1, <1>3, <1>4, <1>5, <2>1, <2>2, <2>3, JobLeaves
<1> QED
  BY <1>7, <1>8, <1>9 DEF DoSave

\* The callers of the store, the crash and load.
LEMMA NextServed ==
  ASSUME SavesSucceed, TypeOK, FilesOK, ServedOK, [Next]_vars
  PROVE  ServedOK'
<1>0. \A i \in 1..Len(queue) : queue[i] \in Job
  BY ElementOfSeq DEF TypeOK
<1>1. Recoverable \in Nat /\ mem \in Nat /\ asked \in Nat /\ Held \in Nat
  BY DEF TypeOK, Recoverable, Readable, Held
<1>2. CASE Set
  <2>1. mem' = mem + 1 /\ Up /\ Up' /\ UNCHANGED <<main, tmp, timer, queue, step, json, asked>>
    BY <1>2 DEF Set, files, Up
  <2>2. Held' = Held
    BY <2>1 DEF Held, Busy, Recoverable, Readable
  <2>3. \A i \in 1..Len(queue) : queue[i].need \in Nat
    BY <1>0 DEF Job
  <2>4. asked' <= mem' /\ \A i \in 1..Len(queue) : queue'[i] = queue[i] /\ queue[i].need <= mem'
    BY <1>1, <2>1, <2>3 DEF ServedOK
  <2>5. /\ \A i \in 1..Len(queue') : queue'[i].kind = "barrier" => Ahead(queue[i].need, i)'
        /\ ~timer' => Ahead(asked, Len(queue) + 1)'
    BY <2>1, <2>2 DEF ServedOK, Ahead
  <2>6. Busy' => queue'[1].kind = "save" /\ queue'[1].need <= json'
    BY <2>1 DEF ServedOK, Busy
  <2> QED
    BY <2>1, <2>4, <2>5, <2>6 DEF ServedOK, Up
<1>3. CASE SetAndRequest
  <2>1. mem' = mem + 1 /\ asked' = mem' /\ timer' /\ Up /\ Up' /\ UNCHANGED <<main, tmp, queue, step, json>>
    BY <1>3 DEF SetAndRequest, files, Up
  <2>2. Held' = Held
    BY <2>1 DEF Held, Busy, Recoverable, Readable
  <2>3. \A i \in 1..Len(queue) : queue[i].need \in Nat
    BY <1>0 DEF Job
  <2> QED
    BY <1>1, <2>1, <2>2, <2>3 DEF ServedOK, Ahead, Busy, Up
<1>4. CASE TimerFires \/ Save \/ Reset \/ (Flush /\ timer)
  <2>1. /\ Up /\ mem' \in Nat /\ mem' >= mem /\ asked' = mem' /\ UNCHANGED <<main, tmp, step, json>>
        /\ queue' = Append(queue, [kind |-> "save", need |-> mem'])
    BY <1>1, <1>4 DEF TimerFires, Save, Reset, Flush, Enqueue, Room, files
  <2> QED
    BY <2>1, SaveJoins
<1>5. CASE Flush /\ ~timer
  <2>1. /\ Up /\ UNCHANGED <<mem, main, tmp, step, json, asked, timer>>
        /\ queue' = Append(queue, [kind |-> "barrier", need |-> asked])
    BY <1>5 DEF Flush, Enqueue, Room, files
  <2> QED
    BY <1>5, <2>1, BarrierJoins
<1>6. CASE DoSave
  BY <1>6, JobServed
<1>7. CASE Crash
  <2>1. mem' = 0 /\ asked' = 0 /\ queue' = <<>> /\ ~timer' /\ step' = "load"
    BY <1>7 DEF Crash, Goto
  <2> QED
    BY <2>1, EmptySeq DEF ServedOK, Busy, Up
<1>8. CASE Loading
  <2>1. queue' = queue /\ timer' = timer /\ queue = <<>> /\ ~timer /\ step' \in {"adopt", "free"}
    BY <1>8 DEF Loading, Load, Adopt, ServedOK, Up, Goto
  <2>2. asked' <= mem' /\ asked' <= Recoverable'
    <3>1. CASE Load
      <4>1. (mem' = Recoverable \/ mem' = 0) /\ asked' = mem' /\ UNCHANGED <<main, tmp>>
        BY <3>1 DEF Load, files
      <4>2. Recoverable' = Recoverable
        BY <4>1 DEF Recoverable, Readable
      <4> QED
        BY <1>1, <4>1, <4>2
    <3>2. CASE Adopt
      <4>1. step = "adopt" /\ UNCHANGED <<mem, asked>> /\ (main' = tmp \/ UNCHANGED <<main, tmp>>)
        BY <3>2 DEF Adopt, files
      <4>2. Recoverable' = Recoverable
        BY <4>1 DEF FilesOK, Recoverable, Readable
      <4> QED
        BY <4>1, <4>2 DEF ServedOK
    <3> QED
      BY <1>8, <3>1, <3>2 DEF Loading
  <2>3. ~Busy' /\ Held' = Recoverable'
    BY <2>1 DEF Held, Busy
  <2> QED
    BY <2>1, <2>2, <2>3, EmptySeq DEF ServedOK, Up, Ahead
<1>9. CASE UNCHANGED vars
  BY <1>9 DEF vars, ServedOK, Ahead, Held, Busy, Up, Recoverable, Readable
<1> QED
  BY <1>2, <1>3, <1>4, <1>5, <1>6, <1>7, <1>8, <1>9 DEF Next

\* When save() or flush() returns, every version a save was asked for before the
\* call is on disk, however the saves, flushes, debounces, resets and crashes fall, and
\* whatever a restart fails to read or to adopt.
THEOREM SettledDurable == ASSUME SavesSucceed PROVE Spec => SettledIsDurable
<1>1. Init => ServedOK
  BY EmptySeq DEF Init, ServedOK, Ahead, Held, Busy, Up, Recoverable
<1>2. TypeOK /\ FilesOK /\ ServedOK /\ [Next]_vars => ServedOK'
  BY NextServed
<1>3. TypeOK /\ FilesOK /\ ServedOK /\ [Next]_vars
      => [queue # <<>> /\ queue' = Tail(queue) /\ step' = "free" => Recoverable' >= Head(queue).need]_vars
  <2> SUFFICES ASSUME TypeOK, FilesOK, ServedOK, [Next]_vars,
                      queue # <<>>, queue' = Tail(queue), step' = "free"
               PROVE  Recoverable' >= Head(queue).need
    OBVIOUS
  <2>1. PICK n \in Nat : Len(queue) = n /\ Len(queue') = n - 1
    BY HeadTailProperties, LenProperties, EmptySeq DEF TypeOK
  <2>2. ASSUME NEW kind \in {"save", "barrier"}, NEW need \in Nat
        PROVE  queue' # Append(queue, [kind |-> kind, need |-> need])
    <3>1. [kind |-> kind, need |-> need] \in Job
      BY DEF Job
    <3>2. Len(Append(queue, [kind |-> kind, need |-> need])) = n + 1
      BY <2>1, <3>1, AppendProperties DEF TypeOK
    <3>3. n - 1 # n + 1
      OBVIOUS
    <3> QED
      BY <2>1, <3>2, <3>3, Zenon
  <2>3. queue' # queue
    <3>1. n - 1 # n
      OBVIOUS
    <3> QED
      BY <2>1, <3>1, Zenon
  <2>4. DoSave
    BY <2>2, <2>3 DEF TypeOK, Next, Set, SetAndRequest, TimerFires, Save, Flush, Reset, Enqueue, Crash, Goto,
                      Loading, Load, Adopt, vars
  <2>5. Recoverable' \in Nat
    BY NextTypes DEF TypeOK, Recoverable, Readable
  <2>6. Head(queue).need <= Recoverable' /\ Head(queue).need \in Nat
    BY QueueTyping, <2>3, <2>4, JobServed DEF TypeOK, Job
  <2> QED
    BY <2>5, <2>6
<1> QED
  BY <1>1, <1>2, <1>3, TypeCorrect, FilesInvariant, PTL DEF Spec, SettledIsDurable

HIDE DEF File, Steps
-----------------------------------------------------------------------------
Active(r) == phase[r] \in {"run", "save"}

\* currentRun is the session that runs or is being saved, the command awaits a
\* session that has begun, and none is left when that one is over.
Waits ==
    /\ phase \in [Runs -> {"new", "run", "save", "done"}]
    /\ current \in Runs \cup {None} /\ awaited \in Runs \cup {None}
    /\ \A r \in Runs : Active(r) <=> current = r
    /\ awaited # None => phase[awaited] # "new"
    /\ Due => current = None

LEMMA InitWaits == EngineInit => Waits
  BY NoneAssumption DEF EngineInit, Waits, Active, Due

LEMMA NoneActive ==
  ASSUME Waits
  PROVE  (current = None) <=> ~Running /\ ~Saving
  BY NoneAssumption DEF Waits, Active, Running, Saving

LEMMA NextWaits ==
  ASSUME Waits, ~Gap, [EngineNext]_allvars
  PROVE  Waits'
<1> USE NoneAssumption DEF Waits, Active, Due
<1>1. ASSUME NEW r \in Runs, StartSession(r) PROVE Waits'
  BY <1>1, NoneActive DEF StartSession
<1>2. ASSUME NEW r \in Runs, EndSession(r) PROVE Waits'
  BY <1>2 DEF EndSession
<1>3. ASSUME NEW r \in Runs, SessionReturns(r) PROVE Waits'
  BY <1>3 DEF SessionReturns
<1>4. ASSUME NEW kind \in {"reset", "mirror"}, Ask(kind) PROVE Waits'
  BY <1>4 DEF Ask, Awaited
<1>5. CASE Command
  BY <1>5 DEF Command, ResetIndex, ResetReturns, PlanMirror
<1>6. CASE RecordRow \/ WatchRecords \/ Teardown \/ StoreStep \/ DebounceFires \/ Loads
  BY <1>6 DEF RecordRow, WatchRecords, Teardown, StoreStep, DebounceFires, Loads, engine
<1>7. CASE InitSyncEngine
  BY <1>7 DEF InitSyncEngine
<1>8. CASE Killed
  BY <1>8 DEF Killed
<1>9. CASE UNCHANGED allvars
  BY <1>9 DEF allvars, engine
<1> QED
  BY <1>1, <1>2, <1>3, <1>4, <1>5, <1>6, <1>7, <1>8, <1>9 DEF EngineNext, SessionNext

LEMMA StepWaits ==
  ASSUME Waits, [EngineNext]_allvars, asker' # asker, asker \in {"reset", "mirror"}, step' # "load"
  PROVE  ~Running /\ ~Saving
<1>1. ResetIndex \/ PlanMirror
  BY DEF EngineNext, SessionNext, Command, StartSession, RecordRow, EndSession, SessionReturns, Ask,
         ResetReturns, WatchRecords, Teardown, InitSyncEngine, StoreStep, DebounceFires,
         Killed, Crash, Goto, Loads, engine, allvars
<1>2. Due
  BY <1>1 DEF ResetIndex, PlanMirror
<1> QED
  BY <1>2, NoneActive DEF Waits

\* abortAndWait: whatever fails in the store and whenever the app is killed, a reset
\* or a mirror goes on only when no session runs and none is still to be saved,
\* provided that no session starts during the save of the last one.
THEOREM AbortWaitsForSave == ASSUME ~Gap PROVE EngineSpec => AbortWaits
<1>1. Waits /\ [EngineNext]_allvars => Waits'
  BY NextWaits
<1>2. Waits /\ [EngineNext]_allvars =>
        [asker' # asker /\ asker \in {"reset", "mirror"} /\ step' # "load"
             => ~Running /\ ~Saving]_allvars
  BY StepWaits
<1> QED
  BY <1>1, <1>2, InitWaits, PTL DEF EngineSpec, AbortWaits
-----------------------------------------------------------------------------
(***************************************************************************)
(* The engine around its store: a step of the engine is a step of the      *)
(* store, or the load that a new engine begins with.                       *)
(***************************************************************************)
Reloads ==
    /\ queue = <<>> /\ step' = "load" /\ timer' = FALSE /\ mem' = 0 /\ json' = 0 /\ asked' = 0
    /\ UNCHANGED <<main, tmp, queue, faults>>

LEMMA EngineIsStore ==
  ASSUME [EngineNext]_allvars
  PROVE  [Next]_vars \/ Reloads
<1>1. CASE InitSyncEngine
  BY <1>1 DEF InitSyncEngine, Reloads, Idle, Goto, files
<1>2. CASE \E r \in Runs : StartSession(r) \/ SessionReturns(r)
  BY <1>2 DEF StartSession, SessionReturns
<1>3. CASE \E r \in Runs : EndSession(r)
  BY <1>3 DEF EndSession, Next
<1>4. CASE \E kind \in {"reset", "mirror"} : Ask(kind)
  BY <1>4 DEF Ask
<1>5. CASE Command
  BY <1>5 DEF Command, ResetIndex, ResetReturns, PlanMirror, Next
<1>6. CASE RecordRow \/ WatchRecords \/ Teardown \/ StoreStep \/ DebounceFires \/ Killed \/ Loads
  BY <1>6 DEF RecordRow, WatchRecords, Teardown, StoreStep, DebounceFires, Killed, Loads, Next
<1>7. CASE UNCHANGED allvars
  BY <1>7 DEF allvars
<1> QED
  BY <1>1, <1>2, <1>3, <1>4, <1>5, <1>6, <1>7 DEF EngineNext, SessionNext

LEMMA EngineStoreStep ==
  ASSUME TypeOK, FilesOK, [EngineNext]_allvars
  PROVE  TypeOK' /\ FilesOK'
<1>1. CASE [Next]_vars
  BY <1>1, NextTypes, NextFiles
<1>2. CASE Reloads
  <2>1. TypeOK'
    BY <1>2 DEF Reloads, TypeOK, Steps
  <2>2. FilesOK'
    BY <1>2 DEF Reloads, FilesOK, MainIsWhole
  <2> QED
    BY <2>1, <2>2
<1> QED
  BY <1>1, <1>2, EngineIsStore

LEMMA EngineStore == EngineSpec => [](TypeOK /\ FilesOK)
<1>1. EngineInit => TypeOK /\ FilesOK
  <2>1. EngineInit => Init
    BY DEF EngineInit
  <2>2. Init => FilesOK
    BY DEF Init, FilesOK, MainIsWhole
  <2> QED
    BY <2>1, <2>2, InitTypes
<1>2. TypeOK /\ FilesOK /\ [EngineNext]_allvars => TypeOK' /\ FilesOK'
  BY EngineStoreStep
<1> QED
  BY <1>1, <1>2, PTL DEF EngineSpec

\* The state file stays whole under everything the engine does with its store:
\* sessions, resets, teardown, and new engines that load what the last one left.
THEOREM EngineFileWhole == EngineSpec => []MainIsWhole
<1>1. FilesOK => MainIsWhole
  BY DEF FilesOK
<1> QED
  BY <1>1, EngineStore, PTL

LEMMA EngineVersions == ASSUME Reliable PROVE EngineSpec => []VersionsOK
<1>1. EngineInit => VersionsOK
  BY DEF EngineInit, Init, VersionsOK, Recoverable
<1>2. TypeOK /\ FilesOK /\ VersionsOK /\ [EngineNext]_allvars => VersionsOK'
  <2>1. ASSUME TypeOK, FilesOK, VersionsOK, [Next]_vars PROVE VersionsOK'
    BY <2>1, NextVersions
  <2>2. ASSUME Reloads PROVE VersionsOK'
    BY <2>2 DEF Reloads, VersionsOK
  <2> QED
    BY <2>1, <2>2, EngineIsStore
<1> QED
  BY <1>1, <1>2, EngineStore, PTL DEF EngineSpec

\* Nor does anything the engine does (a reset, a teardown in the middle of a save, a new
\* engine, a kill) let a save begin to write over the only copy of the state.
THEOREM EngineOnlyCopySafe == ASSUME Reliable PROVE EngineSpec => []OnlyCopyIsSafe
<1>1. VersionsOK => OnlyCopyIsSafe
  BY DEF VersionsOK, OnlyCopyIsSafe
<1> QED
  BY <1>1, EngineVersions, PTL

\* The whole engine implements the atomic store: whatever sessions, watch operations,
\* resets, teardowns, new engines and kills there are, a restart brings back a state
\* that memory really held, and never an older one than a restart before it could have.
THEOREM EngineImplementsStore == ASSUME Reliable PROVE EngineSpec => AtomicSpec
<1>1. EngineInit => Store!Init
  BY DEF EngineInit, Init, Store!Init, Recoverable
<1>2. TypeOK /\ FilesOK /\ VersionsOK /\ [EngineNext]_allvars
      => [Store!Next]_<<IF step = "load" THEN Recoverable ELSE mem, Recoverable>>
  <2>1. ASSUME TypeOK, FilesOK, VersionsOK, [Next]_vars
        PROVE  [Store!Next]_<<IF step = "load" THEN Recoverable ELSE mem, Recoverable>>
    BY <2>1, NextImplements
  <2>2. ASSUME Reloads PROVE Store!Restart
    BY <2>2 DEF Reloads, Store!Restart, Recoverable
  <2> QED
    BY <2>1, <2>2, EngineIsStore DEF Store!Next
<1> QED
  BY <1>1, <1>2, EngineStore, EngineVersions, PTL DEF EngineSpec, AtomicSpec, Store!Spec
-----------------------------------------------------------------------------
(***************************************************************************)
(* The queue of the mutex and the callers that await its jobs go together. *)
(***************************************************************************)
Callers == {<<"reset", 0>>, <<"flush", 0>>, <<"timer", 0>>} \cup ({"session"} \X Runs)

\* Each job has its caller, and a reset that waits for its save is still asking.
Owned ==
    /\ owners \in Seq(Callers) /\ Len(owners) = Len(queue)
    /\ \A i \in 1..Len(owners) : owners[i][1] = "reset" => asker = "saving" /\ queue[i].kind = "save"

\* A caller joins with its job.
LEMMA OwnedJoin ==
  ASSUME TypeOK, Owned, NEW kind, NEW r, <<kind, r>> \in Callers, NEW job \in Job,
         queue' = Append(queue, job), Awaits(kind, r), asker = "saving" => asker' = "saving",
         kind = "reset" => asker' = "saving" /\ job.kind = "save"
  PROVE  Owned'
<1>1. owners' \in Seq(Callers) /\ Len(owners') = Len(owners) + 1 /\ owners'[Len(owners) + 1] = <<kind, r>>
  BY AppendProperties DEF Owned, Awaits
<1>2. Len(queue') = Len(queue) + 1 /\ queue'[Len(queue) + 1] = job
  BY AppendProperties DEF TypeOK
<1>3. \A i \in 1..Len(owners) : owners'[i] = owners[i] /\ queue'[i] = queue[i]
  BY AppendProperties DEF Owned, TypeOK, Awaits
<1>4. ASSUME NEW i \in 1..Len(owners'), owners'[i][1] = "reset"
      PROVE  asker' = "saving" /\ queue'[i].kind = "save"
  <2>1. Len(owners) \in Nat /\ Len(queue) = Len(owners)
    BY LenProperties DEF Owned
  <2>2. CASE i \in 1..Len(owners)
    BY <1>3, <1>4, <2>2 DEF Owned
  <2>3. CASE i = Len(owners) + 1
    BY <1>1, <1>2, <1>4, <2>1, <2>3
  <2> QED
    BY <1>1, <2>1, <2>2, <2>3
<1> QED
  BY <1>1, <1>2, <1>4 DEF Owned

\* It leaves when its job does.
LEMMA OwnedLeave ==
  ASSUME TypeOK, Owned, queue # <<>>, queue' = Tail(queue), owners' = Tail(owners), asker' = asker
  PROVE  Owned'
<1>1. owners # <<>> /\ Len(owners) \in Nat /\ Len(queue) = Len(owners)
  BY LenProperties, EmptySeq DEF Owned, TypeOK
<1>2. /\ owners' \in Seq(Callers) /\ Len(owners') = Len(owners) - 1
      /\ \A i \in 1..Len(owners') : owners'[i] = owners[i + 1]
  BY <1>1, HeadTailProperties DEF Owned
<1>3. Len(queue') = Len(queue) - 1 /\ \A i \in 1..Len(queue') : queue'[i] = queue[i + 1]
  BY HeadTailProperties DEF TypeOK
<1>4. ASSUME NEW i \in 1..Len(owners'), owners'[i][1] = "reset"
      PROVE  asker' = "saving" /\ queue'[i].kind = "save"
  <2>1. i + 1 \in 1..Len(owners) /\ i \in 1..Len(queue')
    BY <1>1, <1>2, <1>3
  <2> QED
    BY <1>2, <1>3, <1>4, <2>1 DEF Owned
<1> QED
  BY <1>1, <1>2, <1>3, <1>4 DEF Owned

\* A job goes on, or is over.
LEMMA DoSaveQueue ==
  ASSUME TypeOK, DoSave
  PROVE  queue # <<>> /\ (queue' = queue \/ queue' = Tail(queue))
BY DEF DoSave, Begin, StartWrite, FinishWrite, RemoveMain, Rename, Rejected, JobDone, TypeOK

LEMMA NextOwned ==
  ASSUME TypeOK, Owned, [EngineNext]_allvars
  PROVE  Owned'
<1>1. ASSUME NEW r \in Runs, EndSession(r) PROVE Owned'
  <2>1. <<"session", r>> \in Callers /\ [kind |-> "save", need |-> mem] \in Job
    BY DEF Callers, TypeOK, Job
  <2> QED
    BY <1>1, <2>1, OwnedJoin DEF EndSession, Save, Enqueue
<1>2. CASE ResetIndex
  <2>1. <<"reset", 0>> \in Callers /\ [kind |-> "save", need |-> mem'] \in Job
    BY <1>2 DEF ResetIndex, Reset, Callers, TypeOK, Job
  <2> QED
    BY <1>2, <2>1, OwnedJoin DEF ResetIndex, Reset, Enqueue
<1>3. CASE Teardown
  <2>1. PICK kind \in {"save", "barrier"}, need \in {mem, asked} :
                queue' = Append(queue, [kind |-> kind, need |-> need])
    BY <1>3 DEF Teardown, Flush, Enqueue
  <2>2. <<"flush", 0>> \in Callers /\ [kind |-> kind, need |-> need] \in Job
    BY DEF Callers, TypeOK, Job
  <2> QED
    BY <1>3, <2>1, <2>2, OwnedJoin DEF Teardown
<1>4. CASE DebounceFires
  <2>1. <<"timer", 0>> \in Callers /\ [kind |-> "save", need |-> mem] \in Job
    BY DEF Callers, TypeOK, Job
  <2> QED
    BY <1>4, <2>1, OwnedJoin DEF DebounceFires, TimerFires, Enqueue
<1>5. CASE StoreStep
  <2>1. DoSave /\ asker' = asker
        /\ owners' = IF Len(queue') < Len(queue) THEN Tail(owners) ELSE owners
    BY <1>5 DEF StoreStep
  <2>2. CASE queue' = queue
    BY <2>1, <2>2, LenProperties DEF Owned, TypeOK
  <2>3. CASE queue # <<>> /\ queue' = Tail(queue)
    <3>1. Len(queue') < Len(queue)
      BY <2>3, HeadTailProperties, LenProperties DEF TypeOK
    <3> QED
      BY <2>1, <2>3, <3>1, OwnedLeave
  <2> QED
    BY <2>1, <2>2, <2>3, DoSaveQueue
<1>6. CASE Killed
  <2>1. owners' = <<>> /\ queue' = <<>>
    BY <1>6 DEF Killed, Crash
  <2> QED
    BY <2>1, EmptySeq DEF Owned
<1>7. ASSUME NEW kind \in {"reset", "mirror"}, Ask(kind) PROVE Owned'
  BY <1>7 DEF Ask, vars, Owned
<1>8. CASE ResetReturns
  <2>1. \A i \in 1..Len(owners) : owners[i][1] # "reset"
    BY <1>8 DEF ResetReturns, Told, Owned, Callers
  <2> QED
    BY <1>8, <2>1 DEF ResetReturns, vars, Owned
<1>9. CASE PlanMirror
  BY <1>9 DEF PlanMirror, vars, Owned
<1>10. ASSUME UNCHANGED <<owners, queue, asker>> PROVE Owned'
  BY <1>10 DEF Owned
<1>11. CASE RecordRow \/ WatchRecords
  BY <1>10, <1>11 DEF RecordRow, WatchRecords, Set, SetAndRequest
<1>12. CASE InitSyncEngine \/ Loads
  BY <1>10, <1>12 DEF InitSyncEngine, Loads, Loading, Load, Adopt, engine
<1>13. ASSUME NEW r \in Runs, StartSession(r) \/ SessionReturns(r) PROVE Owned'
  BY <1>10, <1>13 DEF StartSession, SessionReturns, vars
<1>14. CASE UNCHANGED allvars
  BY <1>10, <1>14 DEF allvars, engine, vars
<1> QED
  BY <1>1, <1>2, <1>3, <1>4, <1>5, <1>6, <1>7, <1>8, <1>9, <1>11, <1>12, <1>13, <1>14
     DEF EngineNext, SessionNext, Command

\* What EngineTypes says besides.
Typed ==
    /\ open \in BOOLEAN /\ phase \in [Runs -> {"new", "run", "save", "done"}]
    /\ {current, awaited} \subseteq Runs \cup {None}
    /\ asker \in {"none", "reset", "mirror", "saving"} /\ reset \in {"no", "asked", "done"}
    /\ rows \subseteq 1..MaxVersion
    /\ \A q, r \in Runs : phase[q] = "run" /\ phase[r] = "run" => q = r

LEMMA NextTyped ==
  ASSUME TypeOK, Typed, [EngineNext]_allvars
  PROVE  Typed'
<1> USE NoneAssumption, BoundsAssumption DEF Typed
<1>1. ASSUME NEW r \in Runs, StartSession(r) PROVE Typed'
  BY <1>1 DEF StartSession, Running
<1>2. ASSUME NEW r \in Runs, EndSession(r) PROVE Typed'
  BY <1>2 DEF EndSession
<1>3. ASSUME NEW r \in Runs, SessionReturns(r) PROVE Typed'
  BY <1>3 DEF SessionReturns
<1>4. ASSUME NEW kind \in {"reset", "mirror"}, Ask(kind) PROVE Typed'
  BY <1>4 DEF Ask, Awaited
<1>5. CASE Command
  BY <1>5 DEF Command, ResetIndex, ResetReturns, PlanMirror
<1>6. CASE RecordRow \/ WatchRecords
  <2>1. mem' \in 1..MaxVersion
    BY <1>6 DEF RecordRow, WatchRecords, Set, SetAndRequest, TypeOK
  <2> QED
    BY <1>6, <2>1 DEF RecordRow, WatchRecords
<1>7. CASE Teardown \/ DebounceFires \/ Loads
  BY <1>7 DEF Teardown, DebounceFires, Loads, engine
<1>8. CASE StoreStep
  <2>1. reset' \in {"done", reset} /\ UNCHANGED <<open, phase, current, asker, awaited, rows>>
    BY <1>8 DEF StoreStep
  <2> QED
    BY <2>1
<1>9. CASE InitSyncEngine
  BY <1>9 DEF InitSyncEngine
<1>10. CASE Killed
  BY <1>10 DEF Killed
<1>11. CASE UNCHANGED allvars
  BY <1>11 DEF allvars, engine
<1> QED
  BY <1>1, <1>2, <1>3, <1>4, <1>5, <1>6, <1>7, <1>8, <1>9, <1>10, <1>11 DEF EngineNext, SessionNext

LEMMA EngineTyped == EngineSpec => [](Typed /\ Owned)
<1>1. EngineInit => Typed /\ Owned
  <2> SUFFICES ASSUME EngineInit PROVE Typed /\ Owned
    OBVIOUS
  <2>1. Typed
    BY NoneAssumption DEF EngineInit, Typed
  <2>2. Owned
    BY EmptySeq DEF EngineInit, Init, Owned
  <2> QED
    BY <2>1, <2>2
<1>2. TypeOK /\ FilesOK /\ Typed /\ Owned /\ [EngineNext]_allvars => Typed' /\ Owned'
  BY NextTyped, NextOwned
<1> QED
  BY <1>1, <1>2, EngineStore, PTL DEF EngineSpec
-----------------------------------------------------------------------------
(***************************************************************************)
(* A reset is not undone.  The job of the reset, or any that begins after  *)
(* it, writes a version without rows, since no session is left to add one; *)
(* an older job may still write the rows, but only before the reset's own. *)
(***************************************************************************)

\* The running job writes what the reset made, or a version after it.
AfterReset == reset = "done" \/ (reset = "asked" /\ Head(owners)[1] = "reset")

Emptied ==
    /\ 0 \notin rows
    /\ step = "load" => reset # "asked"
    /\ Busy => json <= mem
    /\ reset # "no" => ~Running /\ mem \notin rows
    /\ reset = "done" => Recoverable \notin rows
    /\ Busy /\ AfterReset => json \notin rows

\* A step of the mutex changes nothing in memory, and what a restart would load is
\* then what it was, nothing, or what the job serialised.
LEMMA DoSaveFiles ==
  ASSUME TypeOK, FilesOK, DoSave
  PROVE  /\ mem' = mem
         /\ Busy => json' = json
         /\ Busy' /\ ~Busy => json' = mem
         /\ Recoverable' \in {Recoverable, 0} \cup (IF Busy THEN {json} ELSE {})
<1> USE DEF Busy, Recoverable, Readable, FilesOK, MainIsWhole
<1>1. CASE Begin
  BY <1>1 DEF Begin, JobDone, Goto, files
<1>2. CASE StartWrite
  BY <1>2, AbsentAssumption DEF StartWrite, Rejected, JobDone, Goto, files, TypeOK, File
<1>3. CASE FinishWrite
  BY <1>3, AbsentAssumption DEF FinishWrite, Rejected, JobDone, Goto, files, TypeOK, File
<1>4. CASE RemoveMain
  BY <1>4 DEF RemoveMain, Rejected, JobDone, Goto, files
<1>5. CASE Rename
  BY <1>5 DEF Rename, Rejected, JobDone, Goto, files
<1> QED
  BY <1>1, <1>2, <1>3, <1>4, <1>5 DEF DoSave

\* When the reset's job ends without a fault, its version is in the state file.
LEMMA SavedJob ==
  ASSUME TypeOK, FilesOK, DoSave, queue' # queue, faults' = faults, Head(queue).kind = "save"
  PROVE  Busy /\ Recoverable' = json /\ step' = "free"
<1> USE DEF Busy, Recoverable, Readable, FilesOK, MainIsWhole, Rejected, Fault, TypeOK
<1>1. ~Begin
  BY DEF Begin
<1>2. ~StartWrite /\ ~FinishWrite /\ ~RemoveMain
  BY DEF StartWrite, FinishWrite, RemoveMain
<1>3. Rename
  BY <1>1, <1>2 DEF DoSave
<1> QED
  BY <1>3 DEF Rename, JobDone, Goto

\* What joins the queue, or asks, waits and returns, writes nothing.
LEMMA EmptiedStays ==
  ASSUME Emptied, UNCHANGED <<mem, main, tmp, step, json, rows, reset>>, Running' => Running,
         Busy => Head(owners') = Head(owners)
  PROVE  Emptied'
BY DEF Emptied, Busy, AfterReset, Recoverable, Readable

\* Joining the queue leaves the running job at its head.
LEMMA RunningCaller ==
  ASSUME TypeOK, Owned, Busy
  PROVE  /\ owners # <<>> /\ Head(owners) = owners[1] /\ 1 \in 1..Len(owners)
         /\ \A c \in Callers : Head(Append(owners, c)) = Head(owners)
<1>1. queue # <<>>
  BY DEF Busy, TypeOK
<1>2. owners # <<>> /\ owners \in Seq(Callers)
  BY <1>1, LenProperties, EmptySeq DEF Owned, TypeOK
<1>3. Len(owners) \in Nat \ {0} /\ Head(owners) = owners[1]
  BY <1>2, LenProperties, HeadTailProperties, EmptySeq
<1>4. ASSUME NEW c \in Callers PROVE Head(Append(owners, c)) = Head(owners)
  <2>1. Append(owners, c) \in Seq(Callers) /\ Append(owners, c) # <<>> /\ Append(owners, c)[1] = owners[1]
    BY <1>2, <1>3, AppendProperties
  <2> QED
    BY <1>3, <2>1, HeadTailProperties
<1> QED
  BY <1>2, <1>3, <1>4

LEMMA JoinEmptied ==
  ASSUME TypeOK, Owned, Emptied, UNCHANGED <<mem, main, tmp, step, json, rows, reset>>, Running' => Running,
         NEW kind, NEW r, <<kind, r>> \in Callers, Awaits(kind, r)
  PROVE  Emptied'
BY EmptiedStays, RunningCaller DEF Awaits

\* The mutex goes on.
LEMMA StoreEmptied ==
  ASSUME TypeOK, FilesOK, Typed, Owned, Emptied, StoreStep
  PROVE  Emptied'
<1>1. /\ DoSave /\ UNCHANGED <<phase, rows>> /\ reset' \in {reset, "done"}
      /\ owners' = IF Len(queue') < Len(queue) THEN Tail(owners) ELSE owners
  BY DEF StoreStep
<1>2. /\ mem' = mem /\ (Busy => json' = json) /\ (Busy' /\ ~Busy => json' = mem)
      /\ Recoverable' \in {Recoverable, 0} \cup (IF Busy THEN {json} ELSE {})
  BY <1>1, DoSaveFiles
<1>3. Running' = Running
  BY <1>1 DEF Running
<1>4. step' # "load"
  BY <1>1 DEF DoSave, Begin, StartWrite, FinishWrite, RemoveMain, Rename, Rejected, JobDone, Goto
<1>5. Busy' => json' <= mem'
  BY <1>2 DEF Emptied, TypeOK
<1>6. CASE queue' = queue
  <2>1. owners' = owners /\ reset' = reset
    BY <1>1, <1>6, LenProperties DEF StoreStep, TypeOK
  <2>2. Recoverable' \in {Recoverable, 0} \/ Busy
    BY <1>2
  <2>3. Busy' /\ AfterReset' => json' \notin rows
    BY <1>1, <1>2, <2>1 DEF Emptied, AfterReset
  <2>4. reset' = "done" => Recoverable' \notin rows
    BY <1>2, <2>1 DEF Emptied, AfterReset
  <2> QED
    BY <1>1, <1>2, <1>3, <1>4, <1>5, <2>1, <2>3, <2>4 DEF Emptied
<1>7. CASE queue' # queue
  <2>1. ~Busy'
    BY <1>1, <1>7 DEF Busy, DoSave, Begin, StartWrite, FinishWrite, RemoveMain, Rename, Rejected, JobDone, Goto
  <2>2. CASE reset' = reset
    <3>1. reset = "done" => Recoverable' \notin rows
      BY <1>2 DEF Emptied, AfterReset
    <3> QED
      BY <1>1, <1>2, <1>3, <1>4, <2>1, <2>2, <3>1 DEF Emptied
  <2>3. CASE reset' # reset
    <3>1. Head(owners)[1] = "reset" /\ reset = "asked" /\ faults' = faults /\ reset' = "done"
      BY <2>3 DEF StoreStep
    <3>2. queue # <<>> /\ 1 \in 1..Len(owners) /\ Head(owners) = owners[1] /\ Head(queue) = queue[1]
      BY <1>1, DoSaveQueue, LenProperties, HeadTailProperties, EmptySeq DEF Owned, TypeOK
    <3>3. Head(queue).kind = "save"
      BY <3>1, <3>2 DEF Owned
    <3>4. Busy /\ Recoverable' = json
      BY <1>1, <1>7, <3>1, <3>3, SavedJob
    <3>5. json \notin rows
      BY <3>1, <3>4 DEF Emptied, AfterReset
    <3> QED
      BY <1>1, <1>2, <1>3, <1>4, <2>1, <3>1, <3>4, <3>5 DEF Emptied
  <2> QED
    BY <2>2, <2>3
<1> QED
  BY <1>6, <1>7

LEMMA NextEmptied ==
  ASSUME ~Gap, TypeOK, FilesOK, Typed, Owned, Waits, Emptied, [EngineNext]_allvars
  PROVE  Emptied'
<1>1. ASSUME NEW r \in Runs, StartSession(r) PROVE Emptied'
  BY <1>1 DEF StartSession, vars, Emptied, Busy, AfterReset, Recoverable, Readable
<1>2. ASSUME NEW r \in Runs, EndSession(r) PROVE Emptied'
  <2>1. Running' => Running
    BY <1>2 DEF EndSession, Running, Typed
  <2> QED
    BY <1>2, <2>1, JoinEmptied DEF EndSession, Save, files, Callers
<1>3. ASSUME NEW r \in Runs, SessionReturns(r) PROVE Emptied'
  <2>1. Running' => Running
    BY <1>3 DEF SessionReturns, Running, Typed
  <2> QED
    BY <1>3, <2>1, EmptiedStays DEF SessionReturns, vars
<1>4. ASSUME NEW kind \in {"reset", "mirror"}, Ask(kind) PROVE Emptied'
  BY <1>4, EmptiedStays DEF Ask, vars, Running
<1>5. CASE ResetIndex
  <2>1. ~Running
    BY <1>5, NoneActive DEF ResetIndex, Waits
  <2>2. /\ mem' = mem + 1 /\ rows' = rows \ {mem'} /\ reset' = "asked" /\ asker = "reset"
        /\ UNCHANGED <<main, tmp, step, json, phase>> /\ step # "load" /\ owners' = Append(owners, <<"reset", 0>>)
    BY <1>5 DEF ResetIndex, Reset, Room, Up, files, Awaits
  <2>3. Busy' => Head(owners')[1] # "reset"
    BY <2>2, RunningCaller DEF Busy, Owned, Callers
  <2>4. Busy' => json' <= mem'
    BY <2>2 DEF Busy, Emptied, TypeOK
  <2>5. mem' \notin rows' /\ 0 \notin rows' /\ ~Running'
    BY <2>1, <2>2 DEF Emptied, Running
  <2> QED
    BY <2>2, <2>3, <2>4, <2>5 DEF Emptied, AfterReset
<1>6. CASE ResetReturns \/ PlanMirror
  BY <1>6, EmptiedStays DEF ResetReturns, PlanMirror, vars, Running
<1>7. CASE RecordRow \/ WatchRecords
  <2>1. /\ mem' = mem + 1 /\ rows' = rows \cup {mem'} /\ reset' = "no"
        /\ UNCHANGED <<step, json>>
    BY <1>7 DEF RecordRow, WatchRecords, Set, SetAndRequest, Emptied
  <2>2. mem' # 0 /\ (Busy' => json' <= mem')
    BY <2>1 DEF Busy, Emptied, TypeOK
  <2> QED
    BY <2>1, <2>2 DEF Emptied, AfterReset
<1>8. CASE Teardown
  <2>1. Running' => Running
    BY <1>8 DEF Teardown, Running
  <2> QED
    BY <1>8, <2>1, JoinEmptied DEF Teardown, Flush, files, Callers
<1>9. CASE DebounceFires
  <2>1. Running' => Running
    BY <1>9 DEF DebounceFires, Running
  <2> QED
    BY <1>9, <2>1, JoinEmptied DEF DebounceFires, TimerFires, files, Callers
<1>10. CASE InitSyncEngine \/ Killed
  <2>1. /\ step' = "load" /\ mem' = 0 /\ UNCHANGED <<main, tmp, rows>>
        /\ reset' = (IF reset = "done" THEN "done" ELSE "no") /\ ~Running'
    BY <1>10 DEF InitSyncEngine, Killed, Crash, Goto, Idle, Running, files
  <2> QED
    BY <2>1 DEF Emptied, Busy, Recoverable, Readable
<1>11. CASE Loads
  <2>1. UNCHANGED <<rows, reset, phase, owners>> /\ Running' = Running /\ ~Busy' /\ step' # "load"
    BY <1>11 DEF Loads, Loading, Load, Adopt, Goto, engine, Busy, Running
  <2>2. CASE Load
    <3>1. step = "load" /\ mem' \in {Recoverable, 0} /\ Recoverable' = Recoverable
      BY <2>2 DEF Load, files, Recoverable, Readable
    <3> QED
      BY <2>1, <3>1 DEF Emptied, Typed
  <2>3. CASE Adopt
    <3>1. mem' = mem /\ Recoverable' = Recoverable
      BY <2>3 DEF Adopt, files, Recoverable, Readable, FilesOK
    <3> QED
      BY <2>1, <3>1 DEF Emptied
  <2> QED
    BY <1>11, <2>2, <2>3 DEF Loads, Loading
<1>12. CASE StoreStep
  BY <1>12, StoreEmptied
<1>13. CASE UNCHANGED allvars
  BY <1>13, EmptiedStays DEF allvars, engine, vars, Running
<1> QED
  BY <1>1, <1>2, <1>3, <1>4, <1>5, <1>6, <1>7, <1>8, <1>9, <1>10, <1>11, <1>12, <1>13
     DEF EngineNext, SessionNext, Command

\* Reset vault index: until a session starts or a watched file changes, no version in
\* memory, and once the reset was saved none a restart would load, has rows, whatever
\* fails and whenever the app is killed, provided that no session starts during the
\* save of the last one.
THEOREM ResetIsKept == ASSUME ~Gap PROVE EngineSpec => []ResetStaysEmpty
<1>1. EngineInit => Emptied
  BY DEF EngineInit, Init, Emptied, Busy
<1>2. TypeOK /\ FilesOK /\ Typed /\ Owned /\ Waits /\ Emptied /\ [EngineNext]_allvars => Waits' /\ Emptied'
  BY NextWaits, NextEmptied
<1>3. Emptied => ResetStaysEmpty
  BY DEF Emptied, ResetStaysEmpty
<1> QED
  BY <1>1, <1>2, <1>3, InitWaits, EngineStore, EngineTyped, PTL DEF EngineSpec
-----------------------------------------------------------------------------
(***************************************************************************)
(* Nothing is lost between the debounce and the mutex.  While no call has  *)
(* failed and no session runs, what is in memory waits for the debounce,   *)
(* for a job that has not begun, is what the running job writes, or is in  *)
(* the file; the debounce never waits once the engine is torn down.        *)
(***************************************************************************)
Waiting == \E i \in 1..Len(queue) : queue[i].kind = "save" /\ (i = 1 => step = "free")

Covered ==
    \/ Waiting
    \/ Busy /\ json = mem
    \/ ~Busy /\ Recoverable = mem

Kept ==
    /\ ~open => ~timer
    /\ faults = 0 /\ ~Running /\ ~timer /\ step # "load" => Covered

\* A save that joins the queue will write what is in memory.
LEMMA SaveWaits ==
  ASSUME TypeOK, Up, NEW need \in Nat, step' = step,
         queue' = Append(queue, [kind |-> "save", need |-> need])
  PROVE  Waiting'
<1>1. Len(queue) \in Nat /\ (Len(queue) = 0 => queue = <<>>)
  BY LenProperties, EmptySeq DEF TypeOK
<1>2. Len(queue') = Len(queue) + 1 /\ queue'[Len(queue) + 1] = [kind |-> "save", need |-> need]
  BY AppendProperties DEF TypeOK, Job
<1>3. Len(queue) + 1 = 1 => step' = "free"
  BY <1>1 DEF TypeOK, Up, Steps
<1> QED
  BY <1>1, <1>2, <1>3 DEF Waiting

\* A barrier that joins it leaves the others waiting.
LEMMA BarrierKeeps ==
  ASSUME TypeOK, Covered, UNCHANGED <<mem, main, tmp, step, json>>, NEW job \in Job, queue' = Append(queue, job)
  PROVE  Covered'
<1>1. Waiting => Waiting'
  <2>1. Len(queue') = Len(queue) + 1 /\ Len(queue) \in Nat /\ \A i \in 1..Len(queue) : queue'[i] = queue[i]
    BY AppendProperties, LenProperties DEF TypeOK
  <2> QED
    BY <2>1 DEF Waiting
<1> QED
  BY <1>1 DEF Covered, Busy, Recoverable, Readable

\* The mutex takes its jobs in turn, and each writes what is in memory when it begins.
LEMMA DoSaveCovers ==
  ASSUME TypeOK, FilesOK, Covered, DoSave, faults' = faults
  PROVE  Covered'
<1>1. CASE Begin
  <2>1. step = "free" /\ queue # <<>> /\ UNCHANGED <<mem, main, tmp>>
    BY <1>1 DEF Begin, files
  <2>2. CASE Head(queue).kind = "save"
    BY <1>1, <2>2 DEF Begin, Goto, Covered, Busy
  <2>3. CASE Head(queue).kind = "barrier"
    <3>1. queue' = Tail(queue) /\ step' = "free"
      BY <1>1, <2>3 DEF Begin, JobDone, Goto
    <3>2. /\ Head(queue) = queue[1] /\ Len(queue') = Len(queue) - 1 /\ Len(queue) \in Nat
          /\ \A i \in 1..Len(queue') : queue'[i] = queue[i + 1]
      BY <2>1, <3>1, HeadTailProperties, LenProperties DEF TypeOK
    <3>3. ASSUME Waiting PROVE Waiting'
      <4>1. PICK i \in 1..Len(queue) : queue[i].kind = "save"
        BY <3>3 DEF Waiting
      <4>2. i # 1
        BY <2>3, <3>2, <4>1
      <4>3. i - 1 \in 1..Len(queue') /\ queue'[i - 1] = queue[i]
        BY <3>2, <4>2
      <4> QED
        BY <3>1, <4>1, <4>3 DEF Waiting
    <3> QED
      BY <2>1, <3>1, <3>3 DEF Covered, Busy, Recoverable, Readable
  <2> QED
    BY <2>1, <2>2, <2>3, QueueTyping DEF TypeOK, Job
<1>2. CASE StartWrite \/ FinishWrite \/ RemoveMain
  <2>1. /\ Busy /\ Busy' /\ UNCHANGED <<mem, json, queue>> /\ step # "free"
    BY <1>2 DEF StartWrite, FinishWrite, RemoveMain, Rejected, Fault, Goto, Busy, TypeOK
  <2>2. Waiting => Waiting'
    BY <2>1 DEF Waiting
  <2> QED
    BY <2>1, <2>2 DEF Covered
<1>3. CASE Rename
  <2>1. Busy /\ step # "free" /\ main' = tmp /\ queue' = Tail(queue) /\ step' = "free" /\ mem' = mem /\ queue # <<>>
    BY <1>3 DEF Rename, Rejected, Fault, JobDone, Goto, Busy, TypeOK
  <2>2. Recoverable' = json /\ ~Busy'
    BY <1>3, <2>1 DEF Rename, Recoverable, Readable, FilesOK, Busy
  <2>3. /\ Len(queue') = Len(queue) - 1 /\ Len(queue) \in Nat
        /\ \A i \in 1..Len(queue') : queue'[i] = queue[i + 1]
    BY <2>1, HeadTailProperties, LenProperties DEF TypeOK
  <2>4. ASSUME Waiting PROVE Waiting'
    <3>1. PICK i \in 1..Len(queue) : queue[i].kind = "save" /\ i # 1
      BY <2>1, <2>4 DEF Waiting
    <3>2. i - 1 \in 1..Len(queue') /\ queue'[i - 1] = queue[i]
      BY <2>3, <3>1
    <3> QED
      BY <2>1, <3>1, <3>2 DEF Waiting
  <2> QED
    BY <2>1, <2>2, <2>4 DEF Covered
<1> QED
  BY <1>1, <1>2, <1>3 DEF DoSave

\* What leaves the store alone keeps what it covers.
LEMMA KeptStays ==
  ASSUME Kept, UNCHANGED vars, open' = open, Running => Running'
  PROVE  Kept'
BY DEF Kept, vars, Covered, Waiting, Busy, Recoverable, Readable

LEMMA NextKept ==
  ASSUME TypeOK, FilesOK, Typed, Kept, [EngineNext]_allvars
  PROVE  Kept'
<1>1. ASSUME NEW r \in Runs, StartSession(r) PROVE Kept'
  <2>1. ~Running
    BY <1>1 DEF StartSession
  <2> QED
    BY <1>1, <2>1, KeptStays DEF StartSession
<1>2. ASSUME NEW r \in Runs, EndSession(r) PROVE Kept'
  <2>1. Up /\ UNCHANGED <<open, timer>> /\ step' = step /\ queue' = Append(queue, [kind |-> "save", need |-> mem])
    BY <1>2 DEF EndSession, Save, Room, Enqueue
  <2>2. Waiting'
    BY <2>1, SaveWaits DEF TypeOK
  <2> QED
    BY <2>1, <2>2 DEF Kept, Covered
<1>3. ASSUME NEW r \in Runs, SessionReturns(r) PROVE Kept'
  <2>1. Running => Running'
    BY <1>3 DEF SessionReturns, Running, Typed
  <2> QED
    BY <1>3, <2>1, KeptStays DEF SessionReturns
<1>4. ASSUME NEW kind \in {"reset", "mirror"}, Ask(kind) PROVE Kept'
  BY <1>4, KeptStays DEF Ask, Running
<1>5. CASE ResetIndex
  <2>1. Up /\ open' = open /\ timer' = FALSE /\ step' = step
        /\ mem' \in Nat /\ queue' = Append(queue, [kind |-> "save", need |-> mem'])
    BY <1>5 DEF ResetIndex, Reset, Room, Enqueue, TypeOK
  <2>2. Waiting'
    BY <2>1, SaveWaits
  <2> QED
    BY <2>1, <2>2 DEF Kept, Covered
<1>6. CASE ResetReturns \/ PlanMirror
  BY <1>6, KeptStays DEF ResetReturns, PlanMirror, Running
<1>7. CASE RecordRow
  <2>1. Running' /\ open' = open /\ timer' = timer
    BY <1>7 DEF RecordRow, Set, Running
  <2> QED
    BY <2>1 DEF Kept
<1>8. CASE WatchRecords
  <2>1. open' = TRUE /\ timer' = TRUE
    BY <1>8 DEF WatchRecords, SetAndRequest, Typed
  <2> QED
    BY <2>1 DEF Kept
<1>9. CASE Teardown
  <2>1. Up /\ open' = FALSE /\ UNCHANGED <<mem, main, tmp, step, json, faults, phase>>
    BY <1>9 DEF Teardown, Flush, Room, files
  <2>2. CASE timer
    <3>1. timer' = FALSE /\ queue' = Append(queue, [kind |-> "save", need |-> mem])
      BY <1>9, <2>2 DEF Teardown, Flush, Enqueue
    <3>2. Waiting'
      BY <2>1, <3>1, SaveWaits DEF TypeOK
    <3> QED
      BY <3>1, <3>2 DEF Kept, Covered
  <2>3. CASE ~timer
    <3>1. timer' = timer /\ queue' = Append(queue, [kind |-> "barrier", need |-> asked])
      BY <1>9, <2>3 DEF Teardown, Flush, Enqueue
    <3>2. Covered => Covered'
      BY <2>1, <3>1, BarrierKeeps DEF TypeOK, Job
    <3> QED
      BY <2>1, <2>3, <3>1, <3>2 DEF Kept, Running
  <2> QED
    BY <2>2, <2>3
<1>10. CASE InitSyncEngine
  BY <1>10 DEF InitSyncEngine, Kept, Goto
<1>11. CASE StoreStep
  <2>1. DoSave /\ UNCHANGED <<open, phase, timer>> /\ step # "load"
    BY <1>11 DEF StoreStep, DoSave, Begin, StartWrite, FinishWrite, RemoveMain, Rename
  <2>2. faults' = 0 => faults = 0 /\ faults' = faults
    BY <2>1 DEF DoSave, Begin, StartWrite, FinishWrite, RemoveMain, Rename, Rejected, Fault, TypeOK
  <2> QED
    BY <2>1, <2>2, DoSaveCovers DEF Kept, Running
<1>12. CASE DebounceFires
  <2>1. Up /\ open' = open /\ timer /\ timer' = FALSE /\ step' = step
        /\ queue' = Append(queue, [kind |-> "save", need |-> mem])
    BY <1>12 DEF DebounceFires, TimerFires, Room, Enqueue
  <2>2. Waiting'
    BY <2>1, SaveWaits DEF TypeOK
  <2> QED
    BY <2>1, <2>2 DEF Kept, Covered
<1>13. CASE Killed
  BY <1>13 DEF Killed, Crash, Goto, Kept
<1>14. CASE Loads
  <2>1. UNCHANGED <<open, phase, timer>> /\ ~Busy'
    BY <1>14 DEF Loads, Loading, Load, Adopt, Goto, engine, Busy
  <2>2. CASE Load
    <3>1. faults' = 0 => mem' = Recoverable /\ Recoverable' = Recoverable
      BY <2>2 DEF Load, Fault, files, Recoverable, Readable, TypeOK
    <3> QED
      BY <2>1, <3>1 DEF Kept, Covered
  <2>3. CASE Adopt
    <3>1. mem' = mem /\ step = "adopt" /\ Recoverable' = Recoverable /\ queue' = queue /\ (faults' = 0 => faults = 0)
      BY <2>3 DEF Adopt, Fault, files, Recoverable, Readable, FilesOK, TypeOK
    <3>2. Waiting => Waiting'
      BY <2>3, <3>1 DEF Waiting, Adopt, Goto
    <3> QED
      BY <2>1, <3>1, <3>2 DEF Kept, Covered, Running, Busy
  <2> QED
    BY <1>14, <2>2, <2>3 DEF Loads, Loading
<1>15. CASE UNCHANGED allvars
  BY <1>15, KeptStays DEF allvars, engine, Running
<1> QED
  BY <1>1, <1>2, <1>3, <1>4, <1>5, <1>6, <1>7, <1>8, <1>9, <1>10, <1>11, <1>12, <1>13, <1>14, <1>15
     DEF EngineNext, SessionNext, Command

\* teardownSyncEngine: once the old engine is idle, all it knew is what the next one
\* loads, unless a call failed; what waited for the debounce was saved.
THEOREM TeardownLosesNothing == EngineSpec => []TeardownKeepsAll
<1>1. EngineInit => Kept
  BY DEF EngineInit, Init, Kept, Covered, Busy, Recoverable
<1>2. TypeOK /\ FilesOK /\ Typed /\ Owned /\ Kept /\ [EngineNext]_allvars => Kept'
  BY NextKept
<1>3. TypeOK /\ Kept => TeardownKeepsAll
  <2> SUFFICES ASSUME TypeOK, Kept, ~open, Idle, Up, faults = 0 PROVE Recoverable = mem
    BY DEF TeardownKeepsAll
  <2>1. queue = <<>> /\ Covered
    BY DEF Kept, Idle, Up
  <2>2. ~Waiting /\ ~Busy
    BY <2>1, EmptySeq DEF Waiting, Busy, TypeOK
  <2> QED
    BY <2>1, <2>2 DEF Covered
<1> QED
  BY <1>1, <1>2, <1>3, EngineStore, EngineTyped, PTL DEF EngineSpec

\* All that Engine_failures checks of the engine's states, for any number of
\* sessions, versions and faults: the mutex and its callers, and the two above.
THEOREM EngineSafe == ASSUME ~Gap PROVE EngineSpec => []EngineSafety
<1>1. Typed /\ Owned => EngineTypes
  BY DEF Typed, Owned, EngineTypes
<1> QED
  BY <1>1, EngineTyped, ResetIsKept, TeardownLosesNothing, PTL DEF EngineSafety
=============================================================================
