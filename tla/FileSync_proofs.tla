--------------------------- MODULE FileSync_proofs ---------------------------
(* TypeOK is inductive: for every set of bodies, every size limit, every      *)
(* choice of decisions and environment and every bound.  From it, below, what *)
(* a session does to local edits and to other devices' versions, what the     *)
(* convergence gate promises, and what it says of a file that is gone.        *)
EXTENDS FileSync, TLAPS

-----------------------------------------------------------------------------
(* What the operators return. *)

LEMMA SizeTyped == \A b \in OrNone(Body) : SizeOf(b) \in Nat
  BY SizeAssumption DEF SizeOf, OrNone

LEMMA UnsignTyped == \A b \in OrNone(Row) :
    Unsign(b) \in OrNone(Row) /\ (b # None => Unsign(b) # None)
<1> SUFFICES ASSUME NEW b \in Row, b # None
             PROVE  [b EXCEPT !.sig = FALSE] \in Row /\ [b EXCEPT !.sig = FALSE] # None
  BY DEF Unsign, OrNone
<1> QED
  BY NoneAssumption DEF Row

LEMMA IdTyped == \A i \in Info : IdOf(i) \in Id
  BY DEF Info, IdOf, Id, OrNone

LEMMA ListedTyped ==
    ServerOK => Listed \in OrNone(Info) /\ (srv.body # None => Listed \in Info /\ Listed # None)
<1> SUFFICES ASSUME ServerOK, srv.body # None
             PROVE  [sum |-> IF srv.sum THEN srv.body ELSE None, etag |-> rev,
                     size |-> Size[srv.body]] \in Info
  BY NoneAssumption DEF Listed, OrNone
<1> QED
  BY BodyAssumption, SizeAssumption DEF ServerOK, Info, OrNone

LEMMA RebuiltTyped == \A b \in OrNone(Row) : Rebuilt(b) \in OrNone(Info)
<1> SUFFICES ASSUME NEW b \in Row
             PROVE  [sum  |-> IF b.rid \in Body THEN b.rid ELSE None,
                     etag |-> IF b.rid \in Nat THEN b.rid ELSE None, size |-> b.size] \in Info
  BY DEF Rebuilt, OrNone
<1> QED
  BY BodyAssumption DEF Row, Id, Info, OrNone

LEMMA NoOpTyped == \A bad \in BOOLEAN : [NoOp EXCEPT !.bad = bad] \in Op /\ NoOp \in Op
  BY DEF NoOp, Op, OrNone
-----------------------------------------------------------------------------
(* What the shared parts of the actions do to the typing. *)

LEMMA GotoTyped ==
    ASSUME ActorsOK, NEW a \in Actors, NEW label, NEW r, OpOK(label, r), Goto(a, label, r)
    PROVE  ActorsOK'
  BY DEF ActorsOK, Goto, OpOK

LEMMA EndTyped ==
    ASSUME ActorsOK, NEW a \in Actors, NEW bad \in BOOLEAN, End(a, bad)
    PROVE  ActorsOK'
<1>1. [NoOp EXCEPT !.bad = bad \/ op[a].bad] \in Op
  BY NoOpTyped DEF ActorsOK, Op
<1>2. OpOK("end", [NoOp EXCEPT !.bad = bad \/ op[a].bad])
  BY <1>1 DEF OpOK, Pcs, NeedsInfo, NeedsData, NeedsHash, NeedsBase
<1> QED
  BY <1>2, GotoTyped DEF End

LEMMA DoneTyped ==
    ASSUME ActorsOK, NEW a \in Actors, NEW bad \in BOOLEAN, Done(a, bad)
    PROVE  ActorsOK'
<1>1. [op[a] EXCEPT !.bad = @ \/ bad] \in Op
  BY DEF ActorsOK, Op
<1>2. OpOK("recheck", [op[a] EXCEPT !.bad = @ \/ bad])
  BY <1>1 DEF OpOK, Pcs, NeedsInfo, NeedsData, NeedsHash, NeedsBase
<1> QED
  BY <1>2, GotoTyped, EndTyped DEF Done

LEMMA FaultTyped == BudgetsOK /\ Fault => BudgetsOK'
  BY DEF BudgetsOK, Fault

LEMMA StoreTyped == \A b \in Body : ServerOK /\ Store(b) => ServerOK'
  BY DEF ServerOK, Store, OrNone

LEMMA WriteDiskTyped ==
    ASSUME DeviceOK, NEW b \in OrNone(Body), WriteDisk(b)
    PROVE  disk' \in OrNone(Body) /\ saved' \in [base: OrNone(Row), root: OrNone(Nat), skips: Nat]
  BY UnsignTyped DEF DeviceOK, WriteDisk

\* What an action leaves alone keeps its type.
LEMMA Frames ==
    /\ ServerOK /\ UNCHANGED server => ServerOK'
    /\ DeviceOK /\ UNCHANGED <<local, db>> => DeviceOK'
    /\ QueuesOK /\ UNCHANGED watchVars /\ retry' \in BOOLEAN => QueuesOK'
    /\ BudgetsOK /\ UNCHANGED budgets => BudgetsOK'
    /\ ActorsOK /\ UNCHANGED <<pc, op>> => ActorsOK'
  BY DEF server, local, db, watchVars, budgets, ServerOK, DeviceOK, QueuesOK, BudgetsOK, ActorsOK
-----------------------------------------------------------------------------
(* One lemma for each group of actions. *)

Environment == UserEdit \/ ForeignEdit \/ SaveTimer \/ Crash

LEMMA IdleTyped == OpOK("idle", NoOp)
  BY NoOpTyped DEF OpOK, Pcs, NeedsInfo, NeedsData, NeedsHash, NeedsBase

LEMMA StartDeletionTyped ==
    ASSUME DeviceOK, base # None
    PROVE  OpOK("missing", StartDeletion)
<1>1. Unsign(base) \in OrNone(Row) /\ Unsign(base) # None
  BY UnsignTyped DEF DeviceOK
<1>2. StartDeletion \in Op /\ StartDeletion.base # None
  BY <1>1 DEF StartDeletion, NoOp, Op, OrNone
<1> QED
  BY <1>2 DEF OpOK, Pcs, NeedsInfo, NeedsData, NeedsHash, NeedsBase

LEMMA RacedTyped == ActorsOK => \A a \in Actors : OpOK(pc[a], Raced(a))
<1> SUFFICES ASSUME ActorsOK, NEW a \in Actors PROVE OpOK(pc[a], [op[a] EXCEPT !.raced = TRUE])
  BY DEF Raced, ActorsOK
<1>1. op[a] \in Op /\ OpOK(pc[a], op[a])
  BY DEF ActorsOK
<1>2. [op[a] EXCEPT !.raced = TRUE] \in Op
  BY <1>1 DEF Op
<1> QED
  BY <1>1, <1>2 DEF OpOK, Op

LEMMA EnvironmentTyped == TypeOK /\ Environment => TypeOK'
<1> SUFFICES ASSUME TypeOK, Environment PROVE TypeOK'
  OBVIOUS
<1> USE DEF TypeOK
<1>1. CASE UserEdit
  <2>1. PICK b \in OrNone(Body) \ {disk}, filtered \in Filters : UserEdit!(b, filtered)
    BY <1>1 DEF UserEdit
  <2>2. ServerOK' /\ BudgetsOK'
    BY <2>1, Frames DEF BudgetsOK
  <2>3. DeviceOK'
    BY <2>1, WriteDiskTyped, UnsignTyped DEF DeviceOK
  <2>4. QueuesOK'
    BY <2>1 DEF QueuesOK
  <2>5. ActorsOK'
    <3>1. CASE pc' = [pc EXCEPT !["watch"] = "missing"] /\ op' = [op EXCEPT !["watch"] = StartDeletion]
               /\ DeletionStarts
      BY <3>1, StartDeletionTyped, GotoTyped DEF Goto, Actors, DeletionStarts
    <3>2. CASE op' = [a \in Actors |-> Raced(a)] /\ UNCHANGED pc
      BY <3>2, RacedTyped DEF ActorsOK, OpOK
    <3> QED
      BY <2>1, <3>1, <3>2
  <2> QED
    BY <2>2, <2>3, <2>4, <2>5
<1>2. CASE ForeignEdit
  BY <1>2, Frames DEF ForeignEdit, ServerOK, BudgetsOK, QueuesOK
<1>3. CASE SaveTimer
  BY <1>3, Frames DEF SaveTimer, DeviceOK, QueuesOK, db
<1>4. CASE Crash
  <2>1. ActorsOK'
    BY <1>4, IdleTyped DEF Crash, ActorsOK, OpOK
  <2> QED
    BY <1>4, <2>1, Frames, FaultTyped DEF Crash, DeviceOK, QueuesOK, local
<1> QED
  BY <1>1, <1>2, <1>3, <1>4 DEF Environment

LEMMA SessionTyped == TypeOK /\ Session => TypeOK'
<1> SUFFICES ASSUME TypeOK, Session PROVE TypeOK'
  OBVIOUS
<1> USE DEF TypeOK
<1>0. op["scan"] \in Op /\ OpOK(pc["scan"], op["scan"]) /\ "scan" \in Actors
  BY DEF ActorsOK, Actors
<1>a. ASSUME NEW i \in OrNone(Info), NEW at \in Nat, Listing(i, at) PROVE ActorsOK' /\ retry' \in BOOLEAN
  <2>1. [op["scan"] EXCEPT !.info = i, !.at = at, !.raced = FALSE] \in Op
    BY <1>0 DEF Op
  <2>2. OpOK("classify", [op["scan"] EXCEPT !.info = i, !.at = at, !.raced = FALSE])
    BY <2>1 DEF OpOK, Pcs, NeedsInfo, NeedsData, NeedsHash, NeedsBase
  <2> QED
    BY <1>0, <1>a, <2>2, GotoTyped DEF Listing
<1>1. CASE StartSession
  BY <1>0, <1>1, Frames, GotoTyped, NoOpTyped
     DEF StartSession, OpOK, NoOp, Pcs, NeedsInfo, NeedsData, NeedsHash, NeedsBase, QueuesOK, DeviceOK
<1>2. CASE ProbeRoot
  <2>1. PICK cur \in {rev, None} : ProbeRoot!(cur)
    BY <1>2 DEF ProbeRoot, RootEtag
  <2>2. cur \in OrNone(Nat)
    BY DEF ServerOK, OrNone
  <2>3. ServerOK' /\ BudgetsOK'
    BY <2>1, Frames, FaultTyped
  <2>4. DeviceOK'
    BY <2>1 DEF DeviceOK, local
  <2>5. ActorsOK' /\ retry' \in BOOLEAN
    <3>1. CASE cur # None /\ Listing(Rebuilt(base), cur)
      BY <1>a, <2>2, <3>1, RebuiltTyped DEF DeviceOK, OrNone
    <3>2. CASE Goto("scan", "list", [op["scan"] EXCEPT !.cur = cur]) /\ UNCHANGED retry
      <4>1. [op["scan"] EXCEPT !.cur = cur] \in Op
        BY <1>0, <2>2 DEF Op
      <4>2. OpOK("list", [op["scan"] EXCEPT !.cur = cur])
        BY <4>1 DEF OpOK, Pcs, NeedsInfo, NeedsData, NeedsHash, NeedsBase
      <4> QED
        BY <1>0, <3>2, <4>2, GotoTyped DEF QueuesOK
    <3> QED
      BY <2>1, <3>1, <3>2
  <2> QED
    BY <2>1, <2>3, <2>4, <2>5, Frames
<1>3. CASE ListRemote
  <2>1. ActorsOK' /\ retry' \in BOOLEAN
    BY <1>3, <1>a, ListedTyped DEF ListRemote, ServerOK
  <2> QED
    BY <1>0, <1>3, <2>1, Frames DEF ListRemote, DeviceOK, Op, local
<1>4. CASE ListFails
  <2>1. OpOK("finish", [NoOp EXCEPT !.bad = TRUE])
    BY NoOpTyped DEF OpOK, Pcs, NeedsInfo, NeedsData, NeedsHash, NeedsBase
  <2> QED
    BY <1>0, <1>4, <2>1, Frames, FaultTyped, GotoTyped DEF ListFails, QueuesOK
<1>b. OpOK("finish", op["scan"])
  BY <1>0 DEF OpOK, Pcs, NeedsInfo, NeedsData, NeedsHash, NeedsBase
<1>5. CASE Gate
  BY <1>0, <1>5, <1>b, Frames, GotoTyped DEF Gate, Go, Armed, DeviceOK, OrNone, QueuesOK, local
<1>6. CASE SessionThrows
  BY <1>0, <1>6, <1>b, Frames, FaultTyped, GotoTyped DEF SessionThrows, Go, QueuesOK
<1>7. CASE Finish
  <2>1. ActorsOK'
    BY <1>0, <1>7, IdleTyped, GotoTyped DEF Finish, Drained
  <2>2. DeviceOK'
    BY <1>7 DEF Finish, Drained, DeviceOK, db
  <2>3. QueuesOK'
    BY <1>7 DEF Finish, Drained, QueuesOK
  <2> QED
    BY <1>7, <2>1, <2>2, <2>3, Frames, FaultTyped DEF Finish, Drained
<1>8. CASE Stopped
  BY <1>0, <1>8, Frames, FaultTyped, DoneTyped DEF Stopped, QueuesOK
<1>9. CASE ScanLocal
  <2>1. PICK unchanged \in MaybeUnchanged(base) : ScanLocal!(unchanged)
    BY <1>9 DEF ScanLocal
  <2>2. ASSUME base # None
        PROVE  OpOK("missing", [op["scan"] EXCEPT !.base = Unsign(base), !.how = "probed"])
    <3>1. Unsign(base) \in OrNone(Row) /\ Unsign(base) # None
      BY <2>2, UnsignTyped DEF DeviceOK
    <3>2. [op["scan"] EXCEPT !.base = Unsign(base), !.how = "probed"] \in Op
      BY <1>0, <3>1 DEF Op
    <3>3. [op["scan"] EXCEPT !.base = Unsign(base), !.how = "probed"].base # None
      BY <1>0, <3>1 DEF Op
    <3> QED
      BY <3>2, <3>3 DEF OpOK, Pcs, NeedsInfo, NeedsData, NeedsHash, NeedsBase
  <2>3. ASSUME disk # None
        PROVE  OpOK("read", [op["scan"] EXCEPT !.hash = disk, !.raced = FALSE])
    <3>1. [op["scan"] EXCEPT !.hash = disk, !.raced = FALSE] \in Op
      BY <1>0 DEF Op, DeviceOK
    <3>2. [op["scan"] EXCEPT !.hash = disk, !.raced = FALSE].hash # None
      BY <1>0, <2>3 DEF Op
    <3> QED
      BY <3>1, <3>2 DEF OpOK, Pcs, NeedsInfo, NeedsData, NeedsHash, NeedsBase
  <2>4. OpOK("recheck", op["scan"])
    BY <1>0 DEF OpOK, Pcs, NeedsInfo, NeedsData, NeedsHash, NeedsBase
  <2>5. LocalChanged(base, disk, unchanged) => disk # None
    BY DEF LocalChanged
  <2>6. ActorsOK'
    BY <1>0, <2>1, <2>2, <2>3, <2>4, <2>5, EndTyped, GotoTyped DEF Go
  <2> QED
    BY <2>1, <2>6, Frames DEF QueuesOK
<1>10. CASE Candidate
  <2>1. OpOK("ask", [op["scan"] EXCEPT !.raced = FALSE])
    <3>1. [op["scan"] EXCEPT !.raced = FALSE] \in Op
      BY <1>0 DEF Op
    <3> QED
      BY <3>1 DEF OpOK, Pcs, NeedsInfo, NeedsData, NeedsHash, NeedsBase
  <2>2. OpOK("finish", [NoOp EXCEPT !.bad = TRUE])
    BY NoOpTyped DEF OpOK, Pcs, NeedsInfo, NeedsData, NeedsHash, NeedsBase
  <2>3. ActorsOK'
    BY <1>0, <1>10, <2>1, <2>2, EndTyped, GotoTyped DEF Candidate
  <2> QED
    BY <1>10, <2>3, Frames DEF Candidate, QueuesOK
<1>11. CASE AskServer
  <2>1. OpOK("trash", op["scan"])
    BY <1>0 DEF OpOK, Pcs, NeedsInfo, NeedsData, NeedsHash, NeedsBase
  <2>2. ActorsOK'
    BY <1>0, <1>11, <2>1, EndTyped, GotoTyped DEF AskServer, Go
  <2> QED
    BY <1>11, <2>2, Frames, FaultTyped DEF AskServer, QueuesOK
<1>12. CASE TrashLocal
  <2>1. DeviceOK'
    BY <1>12, WriteDiskTyped DEF TrashLocal, Drop, DeviceOK, OrNone
  <2> QED
    BY <1>0, <1>12, <2>1, Frames, EndTyped DEF TrashLocal, Drop, QueuesOK
<1>13. CASE TrashFails
  <2>1. DeviceOK'
    BY <1>13 DEF TrashFails, DeviceOK, OrNone, local
  <2> QED
    BY <1>0, <1>13, <2>1, Frames, FaultTyped, EndTyped DEF TrashFails, QueuesOK
<1> QED
  BY <1>1, <1>2, <1>3, <1>4, <1>5, <1>6, <1>7, <1>8, <1>9, <1>10, <1>11, <1>12, <1>13 DEF Session

LEMMA WatchTyped == TypeOK /\ Watch => TypeOK'
<1> SUFFICES ASSUME TypeOK, Watch PROVE TypeOK'
  OBVIOUS
<1> USE DEF TypeOK
<1>0. op["watch"] \in Op /\ OpOK(pc["watch"], op["watch"]) /\ "watch" \in Actors
  BY DEF ActorsOK, Actors
<1>1. CASE WatchModify
  <2>1. disk # None => OpOK("stat", [NoOp EXCEPT !.hash = disk])
    <3>1. [NoOp EXCEPT !.hash = disk] \in Op /\ [NoOp EXCEPT !.hash = disk].hash = disk
      BY DEF NoOp, Op, OrNone, DeviceOK
    <3> QED
      BY <3>1 DEF OpOK, Pcs, NeedsInfo, NeedsData, NeedsHash, NeedsBase
  <2>2. ActorsOK'
    BY <1>0, <1>1, <2>1, GotoTyped, Frames DEF WatchModify, PathFree, WatchDrop
  <2>3. QueuesOK'
    BY <1>1 DEF WatchModify, PathFree, QueuesOK
  <2> QED
    BY <1>1, <2>2, <2>3, Frames DEF WatchModify, PathFree
<1>2. CASE WatchStat
  <2> DEFINE r == [op["watch"] EXCEPT !.info = Listed, !.at = rev, !.raced = FALSE]
  <2>1. r \in Op /\ r.hash = op["watch"].hash
    BY <1>0, ListedTyped DEF Op, ServerOK
  <2>2. OpOK("classify", r)
    BY <2>1 DEF OpOK, Pcs, NeedsInfo, NeedsData, NeedsHash, NeedsBase
  <2>3. OpOK("read", r)
    BY <1>0, <1>2, <2>1 DEF OpOK, Pcs, NeedsInfo, NeedsData, NeedsHash, NeedsBase, WatchStat
  <2>4. ActorsOK'
    BY <1>0, <1>2, <2>2, <2>3, GotoTyped DEF WatchStat
  <2> QED
    BY <1>2, <2>4, Frames DEF WatchStat, QueuesOK
<1>3. CASE WatchStatFails
  BY <1>0, <1>3, Frames, FaultTyped, DoneTyped DEF WatchStatFails, FailAndQueue, Queue, QueuesOK
<1>4. CASE WatchEnd
  <2>1. DeletionStarts => OpOK("missing", StartDeletion)
    BY StartDeletionTyped DEF DeletionStarts
  <2>2. ActorsOK'
    BY <1>0, <1>4, <2>1, IdleTyped, GotoTyped DEF WatchEnd
  <2>3. QueuesOK'
    BY <1>4 DEF WatchEnd, QueuesOK
  <2> QED
    BY <1>4, <2>2, <2>3, Frames DEF WatchEnd
<1> QED
  BY <1>1, <1>2, <1>3, <1>4 DEF Watch

\* A row that a step builds from what it has read.
LEMMA RowTyped ==
    ASSUME NEW h \in OrNone(Body), NEW i \in Id, NEW n \in Nat, NEW s \in BOOLEAN, NEW c \in BOOLEAN
    PROVE  [hash |-> h, rid |-> i, size |-> n, sig |-> s, conf |-> c] \in Row
  BY DEF Row

\* A row handed to setFile.
LEMMA RecordTyped ==
    ASSUME NEW o \in Op, NEW r \in Row
    PROVE  [o EXCEPT !.row = r] \in Op /\ OpOK("record", [o EXCEPT !.row = r])
<1>1. [o EXCEPT !.row = r] \in Op /\ [o EXCEPT !.row = r].row = r
  BY DEF Op, OrNone
<1> QED
  BY <1>1, NoneAssumption DEF OpOK, Pcs, NeedsInfo, NeedsData, NeedsHash, NeedsBase

LEMMA QueueTyped == QueuesOK => \A a \in Actors : Queue(a) => retry' \in BOOLEAN
  BY DEF QueuesOK, Queue

\* A step that fails: the budget, the retry queue and the end of the file.
LEMMA FailureTyped ==
    ASSUME TypeOK, NEW a \in Actors, FailAndQueue(a)
    PROVE  BudgetsOK' /\ retry' \in BOOLEAN /\ ActorsOK'
  BY FaultTyped, DoneTyped, QueueTyped DEF TypeOK, FailAndQueue

LEMMA VerdictTyped ==
    ASSUME TypeOK, NEW i \in Info, NEW u \in MaybeUnchanged(base)
    PROVE  /\ Verdict(base, i, disk, u) \in {"proof", "record", "conflict", "read", "fetch", "end"}
           /\ Verdict(base, i, disk, u) = "proof" => base # None
           /\ Verdict(base, i, disk, u) = "record" => disk # None
           /\ Verdict(base, i, disk, u) = "read" => disk # None
  BY DEF Verdict, LocalChanged

LEMMA LocalHashTyped ==
    ASSUME TypeOK, NEW u \in MaybeUnchanged(base)
    PROVE  /\ LocalHash(base, disk, u) \in OrNone(Body)
           /\ disk # None => u \/ LocalHash(base, disk, u) = disk
  BY DEF LocalHash, TypeOK, DeviceOK, Row, OrNone

LEMMA ConvergedTyped ==
    ASSUME TypeOK, NEW i \in Info, NEW h \in OrNone(Body), NEW d \in OrNone(Body)
    PROVE  Converged(i, h, d) \in Row
  BY IdTyped, SizeTyped, RowTyped DEF Converged

LEMMA ClassifyTyped == ASSUME TypeOK, NEW a \in Actors, Classify(a) PROVE TypeOK'
<1> USE DEF TypeOK
<1>0. op[a] \in Op /\ OpOK(pc[a], op[a]) /\ op[a].info \in Info
  BY DEF ActorsOK, Classify, Op, OrNone
<1> DEFINE i == op[a].info
<1>1. PICK u \in MaybeUnchanged(base) : Classify(a)!(u)
  BY DEF Classify
<1> DEFINE h == LocalHash(base, disk, u)
           v == Verdict(base, i, disk, u)
           r == [op[a] EXCEPT !.base = Unsign(base), !.hash = h, !.raced = FALSE,
                     !.how = IF v = "fetch" THEN "get" ELSE "none",
                     !.row = IF v = "record" THEN Converged(i, h, disk) ELSE None]
<1>2. /\ h \in OrNone(Body)
      /\ Unsign(base) \in OrNone(Row) /\ (base # None => Unsign(base) # None)
      /\ (IF v = "record" THEN Converged(i, h, disk) ELSE None) \in OrNone(Row)
  BY <1>0, LocalHashTyped, UnsignTyped, ConvergedTyped DEF DeviceOK, OrNone
<1>3. r \in Op /\ r.info = i /\ r.base = Unsign(base) /\ r.hash = h
      /\ r.row = (IF v = "record" THEN Converged(i, h, disk) ELSE None)
  <2> HIDE DEF h, v, i
  <2>1. r \in Op
    BY <1>0, <1>2 DEF Op
  <2> QED
    BY <1>0, <2>1 DEF Op, i
<1>4. v = "read" => h # None
  <2>1. ASSUME v = "read" PROVE disk # None /\ ~u
    BY <1>0, <2>1 DEF Verdict, LocalChanged, RemoteChanged, MaybeUnchanged
  <2> QED
    BY <2>1, LocalHashTyped
<1>5. v = "record" => r.row # None
  BY <1>0, <1>2, <1>3, ConvergedTyped, NoneAssumption DEF DeviceOK
<1>6. OpOK(v, r)
  <2>1. v \in {"proof", "record", "conflict", "read", "fetch", "end"} /\ (v = "proof" => base # None)
    BY <1>0, VerdictTyped
  <2> HIDE DEF v, r, h
  <2> QED
    BY <1>0, <1>2, <1>3, <1>4, <1>5, <2>1, NoneAssumption
       DEF OpOK, Pcs, NeedsInfo, NeedsData, NeedsHash, NeedsBase
<1>7. ActorsOK'
  BY <1>1, <1>6, GotoTyped
<1>8. DeviceOK'
  BY <1>1 DEF DeviceOK, Row, OrNone, local
<1> QED
  BY <1>1, <1>7, <1>8, Frames DEF QueuesOK

LEMMA TransferTyped == ASSUME TypeOK, NEW a \in Actors, Transfer(a) PROVE TypeOK'
<1> USE DEF TypeOK
<1>0. op[a] \in Op /\ OpOK(pc[a], op[a])
  BY DEF ActorsOK
<1>1. CASE Classify(a)
  BY <1>1, ClassifyTyped
<1>2. CASE Deferred(a)
  BY <1>2, Frames, FaultTyped, EndTyped DEF Deferred
<1>3. CASE ReadForUpload(a)
  <2> DEFINE r == [op[a] EXCEPT !.data = disk]
  <2>1. r \in Op /\ r.data = disk /\ r.hash = op[a].hash
    BY <1>0 DEF Op, DeviceOK
  <2>2. disk # None => OpOK("send", r)
    BY <1>0, <1>3, <2>1 DEF OpOK, Pcs, NeedsInfo, NeedsData, NeedsHash, NeedsBase, ReadForUpload
  <2>3. ActorsOK'
    BY <1>3, <2>2, GotoTyped, DoneTyped DEF ReadForUpload
  <2> QED
    BY <1>3, <2>3, Frames DEF ReadForUpload, QueuesOK
<1>4. CASE Upload(a)
  <2>1. op[a].data \in Body /\ op[a].hash \in Body
    BY <1>0, <1>4 DEF Upload, OpOK, NeedsData, NeedsHash, Op, OrNone
  <2> DEFINE row == [hash |-> op[a].hash, rid |-> op[a].hash, size |-> SizeOf(op[a].data),
                     sig |-> TRUE, conf |-> FALSE]
  <2>2. row \in Row
    BY <2>1, SizeTyped, RowTyped DEF OrNone, Id
  <2>3. ActorsOK'
    BY <1>0, <1>4, <2>2, RecordTyped, GotoTyped DEF Upload
  <2> QED
    BY <1>4, <2>1, <2>3, Frames, StoreTyped DEF Upload, QueuesOK
<1>5. CASE UploadRefused(a)
  <2>1. op[a].info # None
    BY <1>5 DEF UploadRefused, Precondition
  <2>2. OpOK("conflict", [op[a] EXCEPT !.data = None])
    BY <1>0, <2>1 DEF OpOK, Op, OrNone, Pcs, NeedsInfo, NeedsData, NeedsHash, NeedsBase
  <2> QED
    BY <1>5, <2>2, Frames, GotoTyped DEF UploadRefused, QueuesOK
<1>6. CASE UploadFails(a)
  <2>1. op[a].data \in Body
    BY <1>0, <1>6 DEF UploadFails, OpOK, NeedsData, Op, OrNone
  <2> QED
    BY <1>6, <2>1, Frames, StoreTyped, FailureTyped DEF UploadFails
<1>7. CASE Record(a)
  <2>1. op[a].row \in Row
    BY <1>0, <1>7 DEF Record, OpOK, Op, OrNone
  <2>2. [op[a].row EXCEPT !.sig = disk # None] \in Row
    BY <2>1 DEF Row
  <2>3. DeviceOK'
    BY <1>7, <2>2 DEF Record, DeviceOK, OrNone, local
  <2> QED
    BY <1>7, <2>3, Frames, DoneTyped DEF Record, QueuesOK
<1>8. CASE DownloadSkipped(a)
  BY <1>8, Frames, EndTyped DEF DownloadSkipped, QueuesOK
<1>9. CASE Fetch(a)
  <2> DEFINE r == [op[a] EXCEPT !.data = srv.body]
  <2>1. r \in Op /\ r.data = srv.body /\ r.info = op[a].info
    BY <1>0 DEF Op, ServerOK
  <2>2. r.info # None
    BY <1>0, <1>9, <2>1 DEF Fetch, MayFetch, OpOK, NeedsInfo
  <2>3. OpOK("write", r) /\ OpOK("merge", r)
    BY <1>9, <2>1, <2>2 DEF Fetch, OpOK, Pcs, NeedsInfo, NeedsData, NeedsHash, NeedsBase
  <2>4. ActorsOK'
    BY <1>9, <2>3, GotoTyped DEF Fetch
  <2> QED
    BY <1>9, <2>4, Frames DEF Fetch, QueuesOK
<1>10. CASE FetchGone(a)
  BY <1>10, Frames, EndTyped, QueueTyped DEF FetchGone
<1>11. CASE FetchFails(a)
  BY <1>11, Frames, FailureTyped DEF FetchFails
<1>12. CASE FetchAnomalous(a)
  <2>1. base # None => [base EXCEPT !.conf = TRUE] \in Row
    BY DEF DeviceOK, OrNone, Row
  <2>2. DeviceOK'
    BY <1>12, <2>1 DEF FetchAnomalous, DeviceOK, OrNone, local
  <2> QED
    BY <1>12, <2>2, Frames, FaultTyped, EndTyped DEF FetchAnomalous
<1>13. CASE WriteFetched(a)
  <2>1. op[a].data \in Body /\ op[a].info \in Info
    BY <1>0, <1>13 DEF WriteFetched, OpOK, NeedsData, NeedsInfo, Op, OrNone
  <2>2. FetchedRow(a) \in Row
    BY <2>1, IdTyped, RowTyped DEF FetchedRow, OrNone, Info
  <2>3. ActorsOK'
    BY <1>0, <1>13, <2>2, RecordTyped, GotoTyped DEF WriteFetched
  <2>4. DeviceOK'
    <3>1. CASE UNCHANGED <<local, base>>
      BY <1>13, <3>1 DEF WriteFetched, DeviceOK, local
    <3>2. CASE WriteDisk(op[a].data) /\ base' = Unsign(base)
      BY <1>13, <2>1, <3>2, WriteDiskTyped, UnsignTyped DEF WriteFetched, DeviceOK, OrNone
    <3> QED
      BY <1>13, <3>1, <3>2 DEF WriteFetched
  <2> QED
    BY <1>13, <2>3, <2>4, Frames DEF WriteFetched, QueuesOK
<1> QED
  BY <1>1, <1>2, <1>3, <1>4, <1>5, <1>6, <1>7, <1>8, <1>9, <1>10, <1>11, <1>12, <1>13 DEF Transfer

LEMMA FlaggedTyped == ASSUME TypeOK, NEW a \in Actors PROVE Flagged(a) \in OrNone(Row)
<1>1. op[a].base \in OrNone(Row) /\ base \in OrNone(Row)
  BY DEF TypeOK, ActorsOK, Op, DeviceOK
<1> QED
  BY <1>1 DEF Flagged, Row, OrNone

LEMMA NotPushedTyped ==
    ASSUME TypeOK, NEW a \in Actors, op[a].info \in Info
    PROVE  NotPushed(a) \in Row
<1>1. (IF base = None THEN None ELSE base.hash) \in OrNone(Body)
  BY DEF TypeOK, DeviceOK, Row, OrNone
<1>2. SizeOf(disk) \in Nat /\ IdOf(op[a].info) \in Id
  BY SizeTyped, IdTyped DEF TypeOK, DeviceOK
<1> QED
  BY <1>1, <1>2, RowTyped DEF NotPushed

\* A row for a body both sides hold.
LEMMA RowForTyped == \A b \in Body : RowFor(b) \in Row
  BY SizeAssumption, RowTyped DEF RowFor, Id, OrNone

LEMMA ResolutionTyped == ASSUME TypeOK, NEW a \in Actors,
                                EnterConflict(a) \/ Compare(a) \/ Hold(a) \/ Tie(a)
                                \/ PreferLocal(a) \/ PreferRemote(a) \/ Merge(a)
                         PROVE  TypeOK'
<1> USE DEF TypeOK
<1>0. op[a] \in Op /\ OpOK(pc[a], op[a])
  BY DEF ActorsOK
<1>1. CASE EnterConflict(a)
  <2>1. op[a].info \in Info
    BY <1>0, <1>1 DEF EnterConflict, OpOK, NeedsInfo, Op, OrNone
  <2>2. Converged(op[a].info, disk, disk) \in Row
    BY <2>1, ConvergedTyped DEF DeviceOK
  <2>3. OpOK("compare", op[a]) /\ OpOK("decide", op[a])
    BY <1>0, <1>1 DEF EnterConflict, OpOK, Pcs, NeedsInfo, NeedsData, NeedsHash, NeedsBase
  <2>4. ActorsOK'
    BY <1>0, <1>1, <2>2, <2>3, RecordTyped, EndTyped, GotoTyped DEF EnterConflict, Go
  <2>5. DeviceOK'
    BY <1>1, FlaggedTyped DEF EnterConflict, DeviceOK, local
  <2> QED
    BY <1>1, <2>4, <2>5, Frames DEF EnterConflict, QueuesOK
<1>2. CASE Compare(a)
  <2>1. op[a].info \in Info
    BY <1>0, <1>2 DEF Compare, OpOK, NeedsInfo, Op, OrNone
  <2>2. Converged(op[a].info, disk, disk) \in Row
    BY <2>1, ConvergedTyped DEF DeviceOK
  <2> DEFINE r == [op[a] EXCEPT !.data = srv.body]
  <2>3. r \in Op /\ r.info = op[a].info
    BY <1>0 DEF Op, ServerOK
  <2>4. OpOK("decide", r)
    BY <2>1, <2>3, NoneAssumption DEF OpOK, Pcs, NeedsInfo, NeedsData, NeedsHash, NeedsBase
  <2>5. ActorsOK'
    BY <1>0, <1>2, <2>2, <2>4, RecordTyped, EndTyped, GotoTyped DEF Compare
  <2> QED
    BY <1>2, <2>5, Frames DEF Compare, QueuesOK
<1>3. CASE Hold(a)
  <2>1. DeviceOK'
    BY <1>3, FlaggedTyped DEF Hold, DeviceOK, local
  <2> QED
    BY <1>3, <2>1, Frames, EndTyped DEF Hold, QueuesOK
<1>4. CASE Tie(a)
  <2>1. DeviceOK'
    BY <1>4 DEF Tie, DeviceOK, OrNone, local
  <2> QED
    BY <1>4, <2>1, Frames, EndTyped DEF Tie, QueuesOK
<1>5. CASE PreferLocal(a)
  <2>1. OpOK("readLocal", op[a])
    BY <1>0, <1>5 DEF PreferLocal, OpOK, Pcs, NeedsInfo, NeedsData, NeedsHash, NeedsBase
  <2> QED
    BY <1>5, <2>1, Frames, GotoTyped DEF PreferLocal, Go, QueuesOK
<1>6. CASE PreferRemote(a)
  <2> DEFINE r == [op[a] EXCEPT !.how = "remote"]
  <2>1. r \in Op /\ r.info = op[a].info /\ r.data = op[a].data /\ r.info # None
    BY <1>0, <1>6 DEF Op, PreferRemote, OpOK, NeedsInfo
  <2>2. OpOK("fetch", r) /\ (op[a].data # None => OpOK("write", r))
    BY <2>1 DEF OpOK, Pcs, NeedsInfo, NeedsData, NeedsHash, NeedsBase
  <2>3. ActorsOK'
    BY <1>6, <2>2, GotoTyped DEF PreferRemote
  <2> QED
    BY <1>6, <2>3, Frames DEF PreferRemote, QueuesOK
<1>7. CASE Merge(a)
  <2>1. PICK k \in {"clean", "markers"} \cap Decisions : Merge(a)!(k)
    BY <1>7 DEF Merge
  <2> DEFINE r == [op[a] EXCEPT !.how = k]
  <2>2. r \in Op /\ r.info = op[a].info /\ r.info # None
    BY <1>0, <2>1 DEF Op, OpOK, NeedsInfo
  <2>3. OpOK("fetch", r) /\ OpOK("merge", r)
    BY <2>2 DEF OpOK, Pcs, NeedsInfo, NeedsData, NeedsHash, NeedsBase
  <2>4. ActorsOK'
    BY <2>1, <2>3, EndTyped, GotoTyped
  <2> QED
    BY <2>1, <2>4, Frames DEF QueuesOK
<1> QED
  BY <1>1, <1>2, <1>3, <1>4, <1>5, <1>6, <1>7

LEMMA PushTyped == ASSUME TypeOK, NEW a \in Actors,
                          ReadLocal(a) \/ SendLocal(a) \/ SendLocalFails(a) \/ WriteMerged(a)
                          \/ ReadMerged(a) \/ SendMerged(a) \/ SendMergedFails(a)
                   PROVE  TypeOK'
<1> USE DEF TypeOK
<1>0. op[a] \in Op /\ OpOK(pc[a], op[a])
  BY DEF ActorsOK
<1>a. ASSUME pc[a] \in NeedsData PROVE op[a].data \in Body
  BY <1>0, <1>a DEF OpOK, Op, OrNone
<1>b. ASSUME pc[a] \in NeedsInfo PROVE op[a].info \in Info
  BY <1>0, <1>b DEF OpOK, Op, OrNone
<1>c. MergeUnclean(a) \in BOOLEAN
  BY DEF MergeUnclean
<1> DEFINE r == [op[a] EXCEPT !.data = disk]
<1>d. r \in Op /\ r.info = op[a].info /\ r.data = disk
  BY <1>0 DEF Op, DeviceOK
<1>1. CASE ReadLocal(a)
  <2>1. disk # None => OpOK("sendLocal", r)
    BY <1>1, <1>b, <1>d, NoneAssumption
       DEF ReadLocal, OpOK, Pcs, NeedsInfo, NeedsData, NeedsHash, NeedsBase
  <2>2. ActorsOK'
    BY <1>1, <2>1, EndTyped, GotoTyped DEF ReadLocal
  <2> QED
    BY <1>1, <2>2, Frames DEF ReadLocal, QueuesOK
<1>2. CASE SendLocal(a)
  <2>1. op[a].data \in Body
    BY <1>2, <1>a DEF SendLocal, NeedsData
  <2>2. ActorsOK'
    BY <1>0, <1>2, <2>1, RowForTyped, RecordTyped, GotoTyped DEF SendLocal
  <2> QED
    BY <1>2, <2>1, <2>2, Frames, StoreTyped DEF SendLocal, QueuesOK
<1>3. CASE SendLocalFails(a)
  <2>1. op[a].data \in Body
    BY <1>3, <1>a DEF SendLocalFails, NeedsData
  <2> QED
    BY <1>3, <2>1, Frames, StoreTyped, FailureTyped DEF SendLocalFails
<1>4. CASE WriteMerged(a)
  <2>1. OpOK("readMerged", op[a])
    BY <1>0, <1>4 DEF WriteMerged, OpOK, Pcs, NeedsInfo, NeedsData, NeedsHash, NeedsBase
  <2>2. DeviceOK'
    BY <1>4, WriteDiskTyped, UnsignTyped DEF WriteMerged, DeviceOK, OrNone
  <2> QED
    BY <1>4, <2>1, <2>2, Frames, GotoTyped DEF WriteMerged, Go, QueuesOK
<1>5. CASE ReadMerged(a)
  <2>1. disk # None => OpOK("sendMerged", r)
    BY <1>5, <1>b, <1>d, NoneAssumption
       DEF ReadMerged, OpOK, Pcs, NeedsInfo, NeedsData, NeedsHash, NeedsBase
  <2>2. ActorsOK'
    BY <1>5, <1>c, <2>1, EndTyped, GotoTyped DEF ReadMerged
  <2>3. NotPushed(a) \in Row
    BY <1>5, <1>b, NotPushedTyped DEF ReadMerged, NeedsInfo
  <2>4. DeviceOK'
    BY <1>5, <2>3 DEF ReadMerged, DeviceOK, OrNone, local
  <2> QED
    BY <1>5, <2>2, <2>4, Frames DEF ReadMerged, QueuesOK
<1>6. CASE SendMerged(a)
  <2>1. op[a].data \in Body
    BY <1>6, <1>a DEF SendMerged, NeedsData
  <2> DEFINE row == [RowFor(op[a].data) EXCEPT !.size = SizeOf(disk), !.conf = MergeUnclean(a)]
             s == [op[a] EXCEPT !.row = row, !.bad = @ \/ MergeUnclean(a)]
  <2>2. row \in Row
    BY <1>c, <2>1, RowForTyped, SizeTyped DEF DeviceOK, Row
  <2>3. s \in Op /\ s.row = row
    <3> HIDE DEF row
    <3> QED
      BY <1>0, <1>c, <2>2 DEF Op, OrNone
  <2>4. OpOK("record", s)
    BY <2>2, <2>3, NoneAssumption DEF OpOK, Pcs, NeedsInfo, NeedsData, NeedsHash, NeedsBase
  <2>5. ActorsOK'
    BY <1>6, <2>4, GotoTyped DEF SendMerged
  <2> QED
    BY <1>6, <2>1, <2>5, Frames, StoreTyped DEF SendMerged, QueuesOK
<1>7. CASE SendMergedFails(a)
  <2>1. op[a].data \in Body
    BY <1>7, <1>a DEF SendMergedFails, NeedsData
  <2>2. NotPushed(a) \in Row
    BY <1>7, <1>b, NotPushedTyped DEF SendMergedFails, NeedsInfo
  <2>3. DeviceOK'
    BY <1>7, <2>2 DEF SendMergedFails, DeviceOK, OrNone, local
  <2>4. ServerOK'
    BY <1>7, <2>1, Frames, StoreTyped DEF SendMergedFails
  <2> QED
    BY <1>7, <1>c, <2>3, <2>4, Frames, FaultTyped, EndTyped DEF SendMergedFails
<1> QED
  BY <1>1, <1>2, <1>3, <1>4, <1>5, <1>6, <1>7

LEMMA ConflictTyped == ASSUME TypeOK, NEW a \in Actors, Conflict(a) PROVE TypeOK'
<1>1. CASE CompareFails(a)
  BY <1>1, Frames, FailureTyped DEF CompareFails, TypeOK
<1> QED
  BY <1>1, ResolutionTyped, PushTyped DEF Conflict

LEMMA DeletionTyped == ASSUME TypeOK, NEW a \in Actors, Deletion(a) PROVE TypeOK'
<1> USE DEF TypeOK
<1>0. op[a] \in Op /\ OpOK(pc[a], op[a])
  BY DEF ActorsOK
<1>a. Drop(a) /\ UNCHANGED <<local, root, skips>> => DeviceOK'
  BY DEF Drop, DeviceOK, OrNone, local
<1>b. ASSUME srv' = [body |-> None, sum |-> FALSE] /\ rev' = rev + 1 PROVE ServerOK'
  BY <1>b DEF ServerOK, OrNone
<1>1. CASE ProveDeletion(a)
  <2>1. PICK h \in ProofHashes(op[a].info) : ProveDeletion(a)!2!(h)
    BY <1>1 DEF ProveDeletion
  <2> DEFINE r == [op[a] EXCEPT !.how = IF @ = "probed" THEN @ ELSE "get",
                                !.at = IF op[a].info.sum = None THEN rev ELSE @]
  <2>2. r \in Op /\ r.info = op[a].info /\ r.base = op[a].base
    BY <1>0 DEF Op, ServerOK
  <2>3. r.info # None /\ r.base # None
    BY <1>0, <1>1, <2>2 DEF ProveDeletion, OpOK, NeedsInfo, NeedsBase
  <2>4. OpOK("delete", r) /\ OpOK("fetch", r)
    BY <2>2, <2>3 DEF OpOK, Pcs, NeedsInfo, NeedsData, NeedsHash, NeedsBase
  <2>5. ActorsOK'
    BY <2>1, <2>4, EndTyped, GotoTyped
  <2> QED
    BY <1>1, <2>1, <2>5, Frames, FaultTyped DEF ProveDeletion, QueuesOK
<1>2. CASE DeleteRemote(a)
  <2>1. ServerOK'
    BY <1>2, <1>b, Frames DEF DeleteRemote, Removed
  <2> QED
    BY <1>2, <1>a, <2>1, Frames, EndTyped DEF DeleteRemote, Removed, Drop, QueuesOK
<1>3. CASE DeleteFails(a)
  <2>1. ServerOK'
    BY <1>3, <1>b, Frames DEF DeleteFails, Removed
  <2> QED
    BY <1>3, <2>1, Frames, FailureTyped DEF DeleteFails
<1>4. CASE ProbeMissing(a)
  <2> DEFINE r == [op[a] EXCEPT !.info = Listed, !.at = rev, !.how = "probed"]
  <2>1. r \in Op /\ r.info = Listed /\ r.base = op[a].base
    BY <1>0, ListedTyped DEF Op, ServerOK
  <2>2. ASSUME srv.body # None PROVE OpOK("proof", r)
    <3>1. r.info # None
      BY <2>1, <2>2, ListedTyped
    <3>2. r.base # None
      BY <1>0, <1>4, <2>1 DEF ProbeMissing, OpOK, NeedsBase
    <3> QED
      BY <2>1, <3>1, <3>2 DEF OpOK, Pcs, NeedsInfo, NeedsData, NeedsHash, NeedsBase
  <2>3. ActorsOK'
    BY <1>4, <2>2, EndTyped, GotoTyped DEF ProbeMissing, Drop
  <2>4. DeviceOK'
    BY <1>4, <1>a DEF ProbeMissing, DeviceOK, local
  <2> QED
    BY <1>4, <2>3, <2>4, Frames DEF ProbeMissing, QueuesOK
<1>5. CASE ProbeMissingFails(a)
  BY <1>5, Frames, FaultTyped, EndTyped DEF ProbeMissingFails, QueuesOK
<1> QED
  BY <1>1, <1>2, <1>3, <1>4, <1>5 DEF Deletion
-----------------------------------------------------------------------------
LEMMA InitTyped == Init => TypeOK
<1> SUFFICES ASSUME Init PROVE TypeOK
  OBVIOUS
<1>1. rev = 0 /\ skips = 0 /\ saved = [base |-> base, root |-> root, skips |-> skips]
  BY DEF Init
<1>2. ASSUME Unseen PROVE ServerOK /\ DeviceOK
  BY <1>1, <1>2 DEF Unseen, ServerOK, DeviceOK, OrNone
<1>3. ASSUME Synced PROVE ServerOK /\ DeviceOK
  BY <1>1, <1>3, RowForTyped DEF Synced, ServerOK, DeviceOK, OrNone
<1>4. QueuesOK /\ BudgetsOK
  BY DEF Init, QueuesOK, BudgetsOK
<1>5. ActorsOK
  BY IdleTyped DEF Init, ActorsOK, OpOK
<1> QED
  BY <1>2, <1>3, <1>4, <1>5 DEF TypeOK, Init

LEMMA NextTyped == TypeOK /\ [Next]_vars => TypeOK'
<1> SUFFICES ASSUME TypeOK, [Next]_vars PROVE TypeOK'
  OBVIOUS
<1>1. CASE Environment
  BY <1>1, EnvironmentTyped
<1>2. CASE Session
  BY <1>2, SessionTyped
<1>3. CASE Watch
  BY <1>3, WatchTyped
<1>4. CASE \E a \in Actors : Transfer(a) \/ Conflict(a) \/ Deletion(a)
  BY <1>4, TransferTyped, ConflictTyped, DeletionTyped
<1>5. CASE UNCHANGED vars
  BY <1>5 DEF vars, TypeOK, ServerOK, DeviceOK, QueuesOK, BudgetsOK, ActorsOK
<1> QED
  BY <1>1, <1>2, <1>3, <1>4, <1>5 DEF Next, Environment

\* Whatever two actors, the user, the other devices, crashes and failures do, no
\* transfer, conflict or deletion step of the engine runs on a listing entry, a
\* body, a hash or a row its actor never obtained.
THEOREM TypeCorrect == Spec => []TypeOK
  BY InitTyped, NextTyped, PTL DEF Spec
-----------------------------------------------------------------------------
(* Local edits: for every instance in which no session starts during a watch  *)
(* operation and the user does not save between a read and the stat that      *)
(* follows it, a row whose signature matches holds the hash of the file (the  *)
(* fast path hides no edit); without watch operations, a sync session never   *)
(* destroys writing it has not looked at.                                     *)

Orderly == "overlap" \notin Env /\ "slowEdit" \notin Env

\* At most one actor is in the middle of an operation.
Alone == pc["scan"] = "idle" \/ pc["watch"] = "idle"

RowTruthful(b, d) == b # None /\ b.sig => d = b.hash

\* What an actor on its way to the row has read is what the disk still holds.
FreshLabels == {"stat", "read", "send", "sendLocal", "sendMerged", "record"}
Fresh(a, label, o, d) ==
    /\ label \in {"read", "send"} \/ (label = "stat" /\ a = "watch") => o.hash = d
    /\ label \in {"send", "sendLocal", "sendMerged"} => o.data = d
    /\ label = "record" /\ d # None => o.row.hash = d

\* The inductive invariant.
Truthful ==
    /\ Alone
    /\ RowTruthful(base, disk) /\ RowTruthful(saved.base, disk)
    /\ \A a \in Actors : Fresh(a, pc[a], op[a], disk)

-----------------------------------------------------------------------------
(* A step of an actor that is in the middle of an operation. *)

LEMMA StepTruthful ==
    ASSUME TypeOK, Truthful, NEW a \in Actors, NEW label, NEW r,
           pc[a] # "idle", Goto(a, label, r),
           Fresh(a, label, r, disk'), RowTruthful(base', disk'), RowTruthful(saved'.base, disk')
    PROVE  Truthful'
<1>1. \A c \in Actors \ {a} : pc[c] = "idle" /\ pc'[c] = pc[c] /\ op'[c] = op[c]
  BY DEF Truthful, Alone, Actors, Goto, TypeOK, ActorsOK
<1>2. pc'[a] = label /\ op'[a] = r
  BY DEF Goto, TypeOK, ActorsOK
<1>3. \A c \in Actors : Fresh(c, pc'[c], op'[c], disk')
  BY <1>1, <1>2 DEF Fresh
<1>4. Alone'
  BY <1>1 DEF Alone, Actors
<1> QED
  BY <1>3, <1>4 DEF Truthful

\* Most steps leave the file and the rows alone and lead to a label at which
\* nothing need be fresh.
LEMMA LooseTruthful ==
    ASSUME TypeOK, Truthful, NEW a \in Actors, NEW label, NEW r,
           pc[a] # "idle", Goto(a, label, r), label \notin FreshLabels,
           RowTruthful(base', disk), UNCHANGED local
    PROVE  Truthful'
<1>1. Fresh(a, label, r, disk')
  BY DEF Fresh, FreshLabels
<1>2. RowTruthful(base', disk') /\ RowTruthful(saved'.base, disk')
  BY DEF local, Truthful
<1> QED
  BY <1>1, <1>2, StepTruthful

LEMMA OverTruthful ==
    ASSUME TypeOK, Truthful, NEW a \in Actors, NEW bad, pc[a] # "idle",
           End(a, bad) \/ Done(a, bad), RowTruthful(base', disk), UNCHANGED local
    PROVE  Truthful'
<1>1. CASE End(a, bad)
  BY <1>1, LooseTruthful DEF End, FreshLabels
<1>2. CASE Goto(a, "recheck", [op[a] EXCEPT !.bad = @ \/ bad])
  BY <1>2, LooseTruthful DEF FreshLabels
<1> QED
  BY <1>1, <1>2 DEF Done

\* A step that leaves the row as it is.
LEMMA KeptTruthful == Truthful /\ UNCHANGED db => RowTruthful(base', disk)
  BY DEF Truthful, db

LEMMA FailureTruthful ==
    ASSUME TypeOK, Truthful, NEW a \in Actors, pc[a] # "idle", FailAndQueue(a),
           UNCHANGED <<local, db>>
    PROVE  Truthful'
  BY OverTruthful, KeptTruthful DEF FailAndQueue

\* Writing the file takes every signature away.
LEMMA WriteTruthful ==
    ASSUME TypeOK, NEW b, WriteDisk(b)
    PROVE  RowTruthful(Unsign(base), disk') /\ RowTruthful(saved'.base, disk') /\ disk' = b
<1>1. \A row \in OrNone(Row) : RowTruthful(Unsign(row), disk')
  BY DEF RowTruthful, Unsign, OrNone, Row
<1>2. saved'.base = Unsign(saved.base)
  BY DEF WriteDisk, TypeOK, DeviceOK
<1> QED
  BY <1>1, <1>2 DEF WriteDisk, TypeOK, DeviceOK
-----------------------------------------------------------------------------
LEMMA EnvironmentTruthful == ASSUME TypeOK, Truthful, Orderly, Environment PROVE Truthful'
<1>1. CASE UserEdit
  <2>1. PICK b \in OrNone(Body) \ {disk}, filtered \in Filters : UserEdit!(b, filtered)
    BY <1>1 DEF UserEdit
  <2>2. RowTruthful(base', disk') /\ RowTruthful(saved'.base, disk')
    BY <2>1, WriteTruthful
  <2>3. ~BeforeRestat
    BY <2>1 DEF Orderly
  <2>4. pc["watch"] # "stat" /\ \A a \in Actors : pc[a] \notin FreshLabels \ {"stat"}
    BY <2>3 DEF BeforeRestat, FreshLabels
  <2>5. CASE UNCHANGED pc
    BY <2>2, <2>4, <2>5 DEF Truthful, Alone, Fresh, FreshLabels
  <2>6. CASE DeletionStarts /\ pc' = [pc EXCEPT !["watch"] = "missing"]
    <3>1. pc'["watch"] = "missing" /\ pc'["scan"] = "idle"
      BY <2>6 DEF DeletionStarts, Running, TypeOK, ActorsOK, Actors
    <3> QED
      BY <2>2, <3>1 DEF Truthful, Alone, Fresh, Actors
  <2> QED
    BY <2>1, <2>5, <2>6
<1>2. CASE ForeignEdit
  BY <1>2 DEF ForeignEdit, Truthful, Alone, local, db
<1>3. CASE SaveTimer
  BY <1>3 DEF SaveTimer, Truthful, Alone, db
<1>4. CASE Crash
  BY <1>4 DEF Crash, Truthful, Alone, Fresh, local, Actors
<1> QED
  BY <1>1, <1>2, <1>3, <1>4 DEF Environment

LEMMA SessionTruthful == ASSUME TypeOK, Truthful, Orderly, Session PROVE Truthful'
<1>0. "scan" \in Actors /\ op["scan"] \in Op
  BY DEF Actors, TypeOK, ActorsOK
<1> USE DEF FreshLabels
<1>1. CASE StartSession
  <2>1. pc'["watch"] = "idle" /\ pc'["scan"] = "probe"
    BY <1>1 DEF StartSession, Orderly, Goto, TypeOK, ActorsOK, Actors
  <2> QED
    BY <1>1, <2>1 DEF StartSession, Truthful, Alone, Fresh, local, db, Actors
<1>2. CASE ProbeRoot
  BY <1>0, <1>2, LooseTruthful, KeptTruthful DEF ProbeRoot, Listing, Truthful
<1>3. CASE ListRemote
  BY <1>0, <1>3, LooseTruthful DEF ListRemote, Listing, Truthful
<1>4. CASE ListFails
  BY <1>0, <1>4, LooseTruthful, KeptTruthful DEF ListFails
<1>5. CASE Gate
  BY <1>0, <1>5, LooseTruthful DEF Gate, Go, Truthful
<1>6. CASE SessionThrows
  BY <1>0, <1>6, LooseTruthful, KeptTruthful DEF SessionThrows, Go
<1>7. CASE Finish
  <2>1. RowTruthful(base', disk') /\ RowTruthful(saved'.base, disk')
    BY <1>7 DEF Finish, Drained, Truthful, db
  <2>2. Goto("scan", "idle", NoOp) /\ pc["scan"] # "idle"
    BY <1>7 DEF Finish, Drained
  <2> QED
    BY <1>0, <2>1, <2>2, StepTruthful DEF Fresh
<1>8. CASE Stopped
  BY <1>0, <1>8, OverTruthful, KeptTruthful DEF Stopped
<1>9. CASE ScanLocal
  <2>1. PICK unchanged \in MaybeUnchanged(base) : ScanLocal!(unchanged)
    BY <1>9 DEF ScanLocal
  <2>2. pc["scan"] # "idle" /\ RowTruthful(base', disk) /\ UNCHANGED local
    BY <2>1, KeptTruthful
  <2>3. CASE End("scan", FALSE)
    BY <1>0, <2>2, <2>3, OverTruthful
  <2>4. CASE Goto("scan", "missing", [op["scan"] EXCEPT !.base = Unsign(base), !.how = "probed"])
    BY <1>0, <2>2, <2>4, LooseTruthful
  <2>5. CASE Goto("scan", "read", [op["scan"] EXCEPT !.hash = disk, !.raced = FALSE])
    <3>1. [op["scan"] EXCEPT !.hash = disk, !.raced = FALSE].hash = disk
      BY <1>0 DEF Op
    <3>2. disk' = disk /\ saved' = saved
      BY <2>2 DEF local
    <3>3. Fresh("scan", "read", [op["scan"] EXCEPT !.hash = disk, !.raced = FALSE], disk')
      BY <3>1, <3>2 DEF Fresh
    <3> QED
      BY <1>0, <2>2, <2>5, <3>2, <3>3, StepTruthful DEF Truthful
  <2>6. CASE Go("scan", "recheck")
    BY <1>0, <2>2, <2>6, LooseTruthful DEF Go
  <2> QED
    BY <2>1, <2>3, <2>4, <2>5, <2>6
<1>10. CASE Candidate
  <2>1. RowTruthful(base', disk) /\ UNCHANGED local /\ pc["scan"] # "idle"
    BY <1>10, KeptTruthful DEF Candidate
  <2>2. \/ Goto("scan", "finish", [NoOp EXCEPT !.bad = TRUE])
        \/ Goto("scan", "ask", [op["scan"] EXCEPT !.raced = FALSE])
        \/ End("scan", FALSE)
    BY <1>10 DEF Candidate
  <2> QED
    BY <1>0, <2>1, <2>2, LooseTruthful, OverTruthful
<1>11. CASE AskServer
  BY <1>0, <1>11, LooseTruthful, OverTruthful, KeptTruthful DEF AskServer, Go
<1>12. CASE TrashLocal
  <2>1. RowTruthful(base', disk') /\ RowTruthful(saved'.base, disk')
    BY <1>12, WriteTruthful DEF TrashLocal, Drop, RowTruthful
  <2> QED
    BY <1>0, <1>12, <2>1, StepTruthful DEF TrashLocal, Drop, End, Fresh
<1>13. CASE TrashFails
  BY <1>0, <1>13, OverTruthful DEF TrashFails, Truthful
<1> QED
  BY <1>1, <1>2, <1>3, <1>4, <1>5, <1>6, <1>7, <1>8, <1>9, <1>10, <1>11, <1>12, <1>13 DEF Session

LEMMA WatchTruthful == ASSUME TypeOK, Truthful, Orderly, Watch PROVE Truthful'
<1>0. "watch" \in Actors /\ op["watch"] \in Op
  BY DEF Actors, TypeOK, ActorsOK
<1> USE DEF FreshLabels
<1>1. CASE WatchModify
  <2>1. UNCHANGED <<disk, base, saved>>
    BY <1>1 DEF WatchModify, PathFree, local, db
  <2>2. CASE WatchDrop
    BY <2>1, <2>2 DEF WatchDrop, Truthful, Alone
  <2>3. CASE ~Running /\ Goto("watch", "stat", [NoOp EXCEPT !.hash = disk])
    <3>1. pc'["scan"] = "idle" /\ pc'["watch"] = "stat" /\ op'["watch"].hash = disk
      BY <2>3 DEF Goto, Running, TypeOK, ActorsOK, Actors, NoOp
    <3> QED
      BY <2>1, <3>1 DEF Truthful, Alone, Fresh, Actors
  <2> QED
    BY <1>1, <2>2, <2>3 DEF WatchModify, PathFree
<1>2. CASE WatchStat
  <2> DEFINE r == [op["watch"] EXCEPT !.info = Listed, !.at = rev, !.raced = FALSE]
  <2>1. pc["watch"] # "idle" /\ RowTruthful(base', disk) /\ UNCHANGED local
    BY <1>2, KeptTruthful DEF WatchStat
  <2>2. CASE Goto("watch", "classify", r)
    BY <1>0, <2>1, <2>2, LooseTruthful
  <2>3. CASE Goto("watch", "read", r)
    <3>1. r.hash = disk
      BY <1>0, <1>2 DEF WatchStat, Truthful, Fresh, Op
    <3>2. disk' = disk /\ saved' = saved
      BY <2>1 DEF local
    <3>3. Fresh("watch", "read", r, disk')
      BY <3>1, <3>2 DEF Fresh
    <3> QED
      BY <1>0, <2>1, <2>3, <3>2, <3>3, StepTruthful DEF Truthful
  <2> QED
    BY <1>2, <2>2, <2>3 DEF WatchStat
<1>3. CASE WatchStatFails
  BY <1>0, <1>3, FailureTruthful DEF WatchStatFails
<1>4. CASE WatchEnd
  BY <1>0, <1>4, LooseTruthful, KeptTruthful DEF WatchEnd
<1> QED
  BY <1>1, <1>2, <1>3, <1>4 DEF Watch

\* A row about to be recorded that holds the hash of the file.
LEMMA RowReady ==
    ASSUME TypeOK, Truthful, NEW a \in Actors, NEW o \in Op, NEW row \in Row, pc[a] # "idle",
           Goto(a, "record", [o EXCEPT !.row = row]), row.hash = disk',
           RowTruthful(base', disk'), RowTruthful(saved'.base, disk')
    PROVE  Truthful'
<1>1. [o EXCEPT !.row = row].row = row
  BY DEF Op
<1>2. Fresh(a, "record", [o EXCEPT !.row = row], disk')
  BY <1>1 DEF Fresh
<1> QED
  BY <1>2, StepTruthful

LEMMA ClassifyTruthful == ASSUME TypeOK, Truthful, NEW a \in Actors, Classify(a) PROVE Truthful'
<1>0. op[a] \in Op /\ op[a].info \in Info /\ pc[a] # "idle"
  BY DEF Classify, TypeOK, ActorsOK, Op, OrNone
<1>1. PICK u \in MaybeUnchanged(base) : Classify(a)!(u)
  BY DEF Classify
<1> DEFINE i == op[a].info
           h == LocalHash(base, disk, u)
           v == Verdict(base, i, disk, u)
           r == [op[a] EXCEPT !.base = Unsign(base), !.hash = h, !.raced = FALSE,
                     !.how = IF v = "fetch" THEN "get" ELSE "none",
                     !.row = IF v = "record" THEN Converged(i, h, disk) ELSE None]
<1>2. disk' = disk /\ saved' = saved /\ Goto(a, v, r)
  BY <1>1 DEF local
<1>3. RowTruthful(base', disk') /\ RowTruthful(saved'.base, disk')
  <2>1. base' = base \/ (base # None /\ base' = [base EXCEPT !.conf = FALSE])
    BY <1>1
  <2>2. base # None => base \in Row
    BY DEF TypeOK, DeviceOK, OrNone
  <2>3. RowTruthful(base', disk)
    BY <2>1, <2>2 DEF RowTruthful, Truthful, Row
  <2> QED
    BY <1>2, <2>3 DEF Truthful
<1>4. disk # None => h = disk
  BY DEF LocalHash, MaybeUnchanged, Truthful, RowTruthful
<1>5. v \in {"proof", "record", "conflict", "read", "fetch", "end"}
      /\ (v = "record" => disk # None) /\ (v = "read" => disk # None)
  BY <1>0, VerdictTyped
<1>6. r.hash = h /\ r.row = (IF v = "record" THEN Converged(i, h, disk) ELSE None)
  <2> HIDE DEF h, v
  <2> QED
    BY <1>0 DEF Op
<1>7. Fresh(a, v, r, disk')
  <2>1. Converged(i, h, disk).hash = h
    BY DEF Converged
  <2> HIDE DEF h, v, r
  <2> QED
    BY <1>2, <1>4, <1>5, <1>6, <2>1 DEF Fresh
<1> HIDE DEF h, v, r
<1> QED
  BY <1>0, <1>2, <1>3, <1>7, StepTruthful

LEMMA TransferTruthful == ASSUME TypeOK, Truthful, NEW a \in Actors, Transfer(a) PROVE Truthful'
<1>0. op[a] \in Op /\ OpOK(pc[a], op[a]) /\ Fresh(a, pc[a], op[a], disk)
  BY DEF TypeOK, ActorsOK, Truthful
<1>a. UNCHANGED local => disk' = disk /\ saved' = saved
  BY DEF local
<1>1. CASE Classify(a)
  BY <1>1, ClassifyTruthful
<1>2. CASE Deferred(a)
  BY <1>2, OverTruthful, KeptTruthful DEF Deferred
<1>3. CASE ReadForUpload(a)
  <2> DEFINE r == [op[a] EXCEPT !.data = disk]
  <2>1. pc[a] # "idle" /\ RowTruthful(base', disk) /\ UNCHANGED local
    BY <1>3, KeptTruthful DEF ReadForUpload
  <2>2. CASE Goto(a, "send", r)
    <3>1. r.hash = disk /\ r.data = disk
      BY <1>0, <1>3 DEF ReadForUpload, Fresh, Op
    <3>2. Fresh(a, "send", r, disk')
      BY <1>a, <2>1, <3>1 DEF Fresh
    <3> QED
      BY <1>a, <2>1, <2>2, <3>2, StepTruthful DEF Truthful
  <2> QED
    BY <1>3, <2>1, <2>2, OverTruthful DEF ReadForUpload
<1>4. CASE Upload(a)
  <2> DEFINE row == [hash |-> op[a].hash, rid |-> op[a].hash, size |-> SizeOf(op[a].data),
                     sig |-> TRUE, conf |-> FALSE]
  <2>1. op[a].hash = disk /\ op[a].data = disk /\ op[a].hash \in Body
    BY <1>0, <1>4 DEF Upload, Fresh, OpOK, NeedsHash, Op, OrNone
  <2>2. row \in Row
    BY <2>1, RowTyped, SizeTyped DEF Id, OrNone
  <2>3. row.hash = disk'
    BY <1>4, <1>a, <2>1 DEF Upload
  <2>4. RowTruthful(base', disk') /\ RowTruthful(saved'.base, disk') /\ pc[a] # "idle"
    BY <1>4, <1>a DEF Upload, Truthful, db
  <2> QED
    BY <1>0, <1>4, <2>2, <2>3, <2>4, RowReady DEF Upload
<1>5. CASE UploadRefused(a)
  BY <1>5, LooseTruthful, KeptTruthful DEF UploadRefused, FreshLabels
<1>6. CASE UploadFails(a)
  BY <1>6, FailureTruthful DEF UploadFails
<1>7. CASE Record(a)
  <2>1. op[a].row \in Row /\ (disk # None => op[a].row.hash = disk)
    BY <1>0, <1>7 DEF Record, OpOK, Op, OrNone, Fresh
  <2>2. RowTruthful(base', disk)
    BY <1>7, <2>1 DEF Record, RowTruthful, Row
  <2> QED
    BY <1>7, <2>2, OverTruthful DEF Record
<1>8. CASE DownloadSkipped(a)
  BY <1>8, OverTruthful, KeptTruthful DEF DownloadSkipped
<1>9. CASE Fetch(a)
  <2>1. pc[a] # "idle" /\ RowTruthful(base', disk) /\ UNCHANGED local
    BY <1>9, KeptTruthful DEF Fetch, MayFetch
  <2> QED
    BY <1>9, <2>1, LooseTruthful DEF Fetch, FreshLabels
<1>10. CASE FetchGone(a)
  BY <1>10, OverTruthful, KeptTruthful DEF FetchGone, MayFetch
<1>11. CASE FetchFails(a)
  BY <1>11, FailureTruthful DEF FetchFails, MayFetch
<1>12. CASE FetchAnomalous(a)
  <2>1. base # None => base \in Row
    BY DEF TypeOK, DeviceOK, OrNone
  <2>2. RowTruthful(base', disk)
    BY <1>12, <2>1 DEF FetchAnomalous, RowTruthful, Truthful, Row
  <2> QED
    BY <1>12, <2>2, OverTruthful DEF FetchAnomalous, MayFetch
<1>13. CASE WriteFetched(a)
  <2>1. op[a].data \in Body /\ op[a].info \in Info
    BY <1>0, <1>13 DEF WriteFetched, OpOK, NeedsData, NeedsInfo, Op, OrNone
  <2>2. FetchedRow(a) \in Row /\ FetchedRow(a).hash = op[a].data
    BY <2>1, IdTyped, RowTyped DEF FetchedRow, Info, OrNone
  <2>3. disk' = op[a].data /\ RowTruthful(base', disk') /\ RowTruthful(saved'.base, disk')
    BY <1>13, <1>a, WriteTruthful DEF WriteFetched, Truthful
  <2> QED
    BY <1>0, <1>13, <2>2, <2>3, RowReady DEF WriteFetched
<1> QED
  BY <1>1, <1>2, <1>3, <1>4, <1>5, <1>6, <1>7, <1>8, <1>9, <1>10, <1>11, <1>12, <1>13 DEF Transfer
-----------------------------------------------------------------------------
\* The rows the conflict path writes back without a transfer.
LEMMA FlaggedTruthful ==
    ASSUME TypeOK, Truthful, NEW a \in Actors
    PROVE  RowTruthful(Flagged(a), disk)
<1>1. op[a].base # None => op[a].base \in Row
  BY DEF TypeOK, ActorsOK, Op, OrNone
<1>2. op[a].base = None => Flagged(a) = base
  BY DEF Flagged
<1>3. op[a].base # None =>
        /\ Flagged(a).hash = op[a].base.hash
        /\ Flagged(a).sig = (base # None /\ base.sig /\ base.hash = op[a].base.hash)
  BY <1>1 DEF Flagged, Row
<1> QED
  BY <1>2, <1>3 DEF RowTruthful, Truthful

LEMMA NotPushedTruthful == \A a \in Actors : RowTruthful(NotPushed(a), disk)
  BY DEF RowTruthful, NotPushed

\* The file proved identical to the listed version.
LEMMA ConvergedTruthful ==
    ASSUME TypeOK, Truthful, NEW a \in Actors, pc[a] # "idle", op[a].info \in Info,
           disk # None, UNCHANGED <<local, base>>,
           Goto(a, "record", [op[a] EXCEPT !.row = Converged(op[a].info, disk, disk)])
    PROVE  Truthful'
<1>1. op[a] \in Op
  BY DEF TypeOK, ActorsOK
<1>2. disk' = disk /\ saved' = saved
  BY DEF local
<1>3. Converged(op[a].info, disk, disk) \in Row
  BY IdTyped, RowTyped, SizeTyped DEF Converged, TypeOK, DeviceOK
<1>4. Converged(op[a].info, disk, disk).hash = disk'
  BY <1>2 DEF Converged
<1>5. RowTruthful(base', disk') /\ RowTruthful(saved'.base, disk')
  BY <1>2 DEF Truthful
<1> QED
  BY <1>1, <1>3, <1>4, <1>5, RowReady

\* A body just read, on its way to a request.
LEMMA ReadTruthful ==
    ASSUME TypeOK, Truthful, NEW a \in Actors, NEW label \in {"sendLocal", "sendMerged"},
           pc[a] # "idle", UNCHANGED <<local, base>>,
           Goto(a, label, [op[a] EXCEPT !.data = disk])
    PROVE  Truthful'
<1>1. disk' = disk /\ saved' = saved
  BY DEF local
<1>2. [op[a] EXCEPT !.data = disk].data = disk
  BY DEF TypeOK, ActorsOK, Op
<1>3. Fresh(a, label, [op[a] EXCEPT !.data = disk], disk')
  BY <1>1, <1>2 DEF Fresh
<1> QED
  BY <1>1, <1>3, StepTruthful DEF Truthful

LEMMA ConflictTruthful == ASSUME TypeOK, Truthful, NEW a \in Actors, Conflict(a) PROVE Truthful'
<1>0. op[a] \in Op /\ OpOK(pc[a], op[a]) /\ Fresh(a, pc[a], op[a], disk)
  BY DEF TypeOK, ActorsOK, Truthful
<1>a. UNCHANGED local => disk' = disk /\ saved' = saved
  BY DEF local
<1>b. pc[a] \in NeedsInfo => op[a].info \in Info
  BY <1>0 DEF OpOK, Op, OrNone
<1> USE DEF FreshLabels
<1>1. CASE EnterConflict(a)
  <2>1. pc[a] = "conflict" /\ op[a].info \in Info /\ UNCHANGED local
    BY <1>1, <1>b DEF EnterConflict, NeedsInfo
  <2>2. CASE base' = Flagged(a) /\ End(a, FALSE)
    BY <2>1, <2>2, FlaggedTruthful, OverTruthful
  <2>3. CASE /\ UNCHANGED base /\ disk # None
             /\ Goto(a, "record", [op[a] EXCEPT !.row = Converged(op[a].info, disk, disk)])
    BY <2>1, <2>3, ConvergedTruthful
  <2>4. CASE UNCHANGED base /\ (Go(a, "compare") \/ Go(a, "decide"))
    BY <2>1, <2>4, LooseTruthful DEF Go, Truthful
  <2> QED
    BY <1>1, <2>2, <2>3, <2>4 DEF EnterConflict
<1>2. CASE Compare(a)
  <2>1. /\ pc[a] = "compare" /\ op[a].info \in Info /\ UNCHANGED <<local, base>>
        /\ RowTruthful(base', disk)
    BY <1>2, <1>b, KeptTruthful DEF Compare, NeedsInfo, db
  <2>2. CASE End(a, TRUE)
    BY <2>1, <2>2, OverTruthful
  <2>3. CASE /\ srv.body # None /\ srv.body = disk
             /\ Goto(a, "record", [op[a] EXCEPT !.row = Converged(op[a].info, disk, disk)])
    BY <2>1, <2>3, ConvergedTruthful
  <2>4. CASE Goto(a, "decide", [op[a] EXCEPT !.data = srv.body])
    BY <2>1, <2>4, LooseTruthful
  <2> QED
    BY <1>2, <2>2, <2>3, <2>4 DEF Compare
<1>3. CASE CompareFails(a)
  BY <1>3, FailureTruthful DEF CompareFails
<1>4. CASE Hold(a)
  BY <1>4, FlaggedTruthful, OverTruthful DEF Hold
<1>5. CASE Tie(a)
  BY <1>5, OverTruthful DEF Tie, Truthful
<1>6. CASE PreferLocal(a)
  BY <1>6, LooseTruthful, KeptTruthful DEF PreferLocal, Go
<1>7. CASE PreferRemote(a)
  BY <1>7, LooseTruthful, KeptTruthful DEF PreferRemote
<1>8. CASE Merge(a)
  <2>1. pc[a] # "idle" /\ RowTruthful(base', disk) /\ UNCHANGED local
    BY <1>8, KeptTruthful DEF Merge
  <2>2. \/ End(a, TRUE)
        \/ \E k \in {"clean", "markers"} :
             Goto(a, IF op[a].data = None THEN "fetch" ELSE "merge", [op[a] EXCEPT !.how = k])
    BY <1>8 DEF Merge
  <2> QED
    BY <2>1, <2>2, OverTruthful, LooseTruthful
<1>9. CASE ReadLocal(a)
  <2>1. pc[a] # "idle" /\ RowTruthful(base', disk) /\ UNCHANGED <<local, base>>
    BY <1>9, KeptTruthful DEF ReadLocal, db
  <2>2. \/ End(a, TRUE) \/ End(a, FALSE)
        \/ Goto(a, "sendLocal", [op[a] EXCEPT !.data = disk])
    BY <1>9 DEF ReadLocal
  <2> QED
    BY <2>1, <2>2, OverTruthful, ReadTruthful
<1>10. CASE SendLocal(a)
  <2>1. op[a].data = disk /\ op[a].data \in Body
    BY <1>0, <1>10 DEF SendLocal, Fresh, OpOK, NeedsData, Op, OrNone
  <2>2. RowFor(op[a].data) \in Row /\ RowFor(op[a].data).hash = disk
    BY <2>1, RowForTyped DEF RowFor
  <2>3. RowTruthful(base', disk') /\ RowTruthful(saved'.base, disk') /\ disk' = disk
    BY <1>10, <1>a DEF SendLocal, Truthful, db
  <2> QED
    BY <1>0, <1>10, <2>2, <2>3, RowReady DEF SendLocal
<1>11. CASE SendLocalFails(a)
  BY <1>11, FailureTruthful DEF SendLocalFails
<1>12. CASE WriteMerged(a)
  <2>1. RowTruthful(base', disk') /\ RowTruthful(saved'.base, disk')
    BY <1>12, WriteTruthful DEF WriteMerged
  <2>2. Fresh(a, "readMerged", op[a], disk')
    BY DEF Fresh
  <2> QED
    BY <1>12, <2>1, <2>2, StepTruthful DEF WriteMerged, Go
<1>13. CASE ReadMerged(a)
  <2>1. pc[a] # "idle" /\ UNCHANGED local
    BY <1>13 DEF ReadMerged
  <2>2. CASE UNCHANGED base /\ End(a, TRUE)
    BY <2>1, <2>2, OverTruthful DEF Truthful
  <2>3. CASE base' = NotPushed(a) /\ End(a, MergeUnclean(a))
    BY <2>1, <2>3, NotPushedTruthful, OverTruthful
  <2>4. CASE UNCHANGED base /\ Goto(a, "sendMerged", [op[a] EXCEPT !.data = disk])
    BY <2>1, <2>4, ReadTruthful
  <2> QED
    BY <1>13, <2>2, <2>3, <2>4 DEF ReadMerged
<1>14. CASE SendMerged(a)
  <2> DEFINE row == [RowFor(op[a].data) EXCEPT !.size = SizeOf(disk), !.conf = MergeUnclean(a)]
             r == [op[a] EXCEPT !.row = row, !.bad = @ \/ MergeUnclean(a)]
  <2>1. op[a].data = disk
    BY <1>0, <1>14 DEF SendMerged, Fresh
  <2>2. row.hash = disk
    BY <2>1 DEF RowFor
  <2>3. RowTruthful(base', disk') /\ RowTruthful(saved'.base, disk') /\ disk' = disk
    BY <1>14, <1>a DEF SendMerged, Truthful, db
  <2>4. r.row = row
    <3> HIDE DEF row
    <3> QED
      BY <1>0 DEF Op
  <2>5. Fresh(a, "record", r, disk')
    BY <2>2, <2>3, <2>4 DEF Fresh
  <2>6. Goto(a, "record", r) /\ pc[a] # "idle"
    BY <1>14 DEF SendMerged
  <2> HIDE DEF r
  <2> QED
    BY <2>3, <2>5, <2>6, StepTruthful
<1>15. CASE SendMergedFails(a)
  BY <1>15, NotPushedTruthful, OverTruthful DEF SendMergedFails
<1> QED
  BY <1>1, <1>2, <1>3, <1>4, <1>5, <1>6, <1>7, <1>8, <1>9, <1>10, <1>11, <1>12, <1>13, <1>14, <1>15
     DEF Conflict

LEMMA DeletionTruthful == ASSUME TypeOK, Truthful, NEW a \in Actors, Deletion(a) PROVE Truthful'
<1>0. RowTruthful(None, disk)
  BY DEF RowTruthful
<1> USE DEF FreshLabels
<1>1. CASE ProveDeletion(a)
  <2>1. pc[a] # "idle" /\ RowTruthful(base', disk) /\ UNCHANGED local
    BY <1>1, KeptTruthful DEF ProveDeletion
  <2> DEFINE r == [op[a] EXCEPT !.how = IF @ = "probed" THEN @ ELSE "get",
                                !.at = IF op[a].info.sum = None THEN rev ELSE @]
  <2>2. PICK h \in ProofHashes(op[a].info) :
          IF h = None THEN End(a, FALSE)
          ELSE Goto(a, IF DeletionProven(a, h) THEN "delete" ELSE "fetch", r)
    BY <1>1 DEF ProveDeletion
  <2> HIDE DEF r
  <2>3. CASE End(a, FALSE)
    BY <2>1, <2>3, OverTruthful
  <2>4. CASE Goto(a, "delete", r) \/ Goto(a, "fetch", r)
    BY <2>1, <2>4, LooseTruthful
  <2> QED
    BY <2>2, <2>3, <2>4
<1>2. CASE DeleteRemote(a)
  BY <1>0, <1>2, OverTruthful DEF DeleteRemote, Drop
<1>3. CASE DeleteFails(a)
  BY <1>3, FailureTruthful DEF DeleteFails
<1>4. CASE ProbeMissing(a)
  <2>1. pc[a] # "idle" /\ UNCHANGED local
    BY <1>4 DEF ProbeMissing
  <2>2. CASE Drop(a)
    BY <1>0, <2>1, <2>2, OverTruthful DEF Drop
  <2>3. CASE /\ UNCHANGED base
             /\ Goto(a, "proof", [op[a] EXCEPT !.info = Listed, !.at = rev, !.how = "probed"])
    BY <2>1, <2>3, LooseTruthful DEF Truthful
  <2> QED
    BY <1>4, <2>2, <2>3 DEF ProbeMissing
<1>5. CASE ProbeMissingFails(a)
  BY <1>5, OverTruthful, KeptTruthful DEF ProbeMissingFails
<1> QED
  BY <1>1, <1>2, <1>3, <1>4, <1>5 DEF Deletion
-----------------------------------------------------------------------------
LEMMA InitTruthful == Init => Truthful
<1> SUFFICES ASSUME Init PROVE Truthful
  OBVIOUS
<1>1. Alone /\ \A a \in Actors : Fresh(a, pc[a], op[a], disk)
  BY DEF Init, Alone, Actors, Fresh
<1>2. RowTruthful(base, disk)
  <2>1. CASE Unseen
    BY <2>1 DEF Unseen, RowTruthful
  <2>2. CASE Synced
    BY <2>2 DEF Synced, RowFor, RowTruthful
  <2> QED
    BY <2>1, <2>2 DEF Init
<1>3. saved.base = base
  BY DEF Init
<1> QED
  BY <1>1, <1>2, <1>3 DEF Truthful

LEMMA NextTruthful == Orderly /\ TypeOK /\ Truthful /\ [Next]_vars => Truthful'
<1> SUFFICES ASSUME Orderly, TypeOK, Truthful, [Next]_vars PROVE Truthful'
  OBVIOUS
<1>1. CASE Environment
  BY <1>1, EnvironmentTruthful
<1>2. CASE Session
  BY <1>2, SessionTruthful
<1>3. CASE Watch
  BY <1>3, WatchTruthful
<1>4. CASE \E a \in Actors : Transfer(a) \/ Conflict(a) \/ Deletion(a)
  BY <1>4, TransferTruthful, ConflictTruthful, DeletionTruthful
<1>5. CASE UNCHANGED vars
  BY <1>5 DEF vars, Truthful, Alone, Fresh
<1> QED
  BY <1>1, <1>2, <1>3, <1>4, <1>5 DEF Next, Environment

\* The fast path of a scan never hides an edit: as long as no session starts
\* during a watch operation and no save falls between a read and the re-stat that
\* ends the transfer, a row whose signature matches the file holds its hash,
\* whatever fails, crashes or is stopped and whatever the other devices write.
THEOREM SignatureTruthful ==
    ASSUME Orderly
    PROVE  Spec => []SignatureIsTruthful
<1>1. Truthful => SignatureIsTruthful
  BY DEF Truthful, RowTruthful, SignatureIsTruthful
<1>2. TypeOK /\ Truthful /\ [Next]_vars => Truthful'
  BY NextTruthful
<1> QED
  BY <1>1, <1>2, InitTruthful, TypeCorrect, PTL DEF Spec
-----------------------------------------------------------------------------
(***************************************************************************)
(* What a session destroys.                                                *)
(***************************************************************************)
SessionsOnly == Orderly /\ "watch" \notin Env

\* No event waits and no single-file operation runs.
Quiet == pc["watch"] = "idle" /\ events = {} /\ ~pending

\* What may go: nothing, what was saved after the session last looked, or what the row has.
Spendable(o, b, d) == d = None \/ o.raced \/ (b # None /\ d = b.hash)

\* On its way to a plain download or to the trash, what the session found there is spendable;
\* on its way to prove a deletion, nothing was there.
Guarded == {"fetch", "write", "ask", "trash", "missing", "proof"}
Accounted(label, o, b, d) ==
    /\ label \in {"fetch", "write"} /\ o.how \in {"get", "probed"} => Spendable(o, b, d)
    /\ label \in {"ask", "trash"} => Spendable(o, b, d)
    /\ label \in {"missing", "proof"} => d = None \/ o.raced

\* The inductive invariant, beside TypeOK and Truthful.
Careful == Quiet /\ Accounted(pc["scan"], op["scan"], base, disk)
-----------------------------------------------------------------------------
LEMMA StepCareful ==
    ASSUME TypeOK, Quiet, NEW label, NEW r, Goto("scan", label, r),
           Accounted(label, r, base', disk'), events' = {}, ~pending'
    PROVE  Careful'
<1>1. pc'["scan"] = label /\ op'["scan"] = r /\ pc'["watch"] = pc["watch"]
  BY DEF Goto, TypeOK, ActorsOK, Actors
<1> QED
  BY <1>1 DEF Careful, Quiet

LEMMA LooseCareful ==
    ASSUME TypeOK, Careful, NEW label, NEW r, Goto("scan", label, r), label \notin Guarded,
           UNCHANGED watchVars
    PROVE  Careful'
<1>1. Accounted(label, r, base', disk')
  BY DEF Accounted, Guarded
<1> QED
  BY <1>1, StepCareful DEF Careful, Quiet, watchVars

LEMMA OverCareful ==
    ASSUME TypeOK, Careful, NEW bad, End("scan", bad) \/ Done("scan", bad), UNCHANGED watchVars
    PROVE  Careful'
<1>1. CASE End("scan", bad)
  BY <1>1, LooseCareful DEF End, Guarded
<1>2. CASE Goto("scan", "recheck", [op["scan"] EXCEPT !.bad = @ \/ bad])
  BY <1>2, LooseCareful DEF Guarded
<1> QED
  BY <1>1, <1>2 DEF Done

\* Whoever acts on the file is the session.
LEMMA ScanActs == Careful => \A a \in Actors : pc[a] # "idle" => a = "scan"
  BY DEF Careful, Quiet, Actors

LEMMA HashUnsigned == \A b \in OrNone(Row) : b # None => Unsign(b) # None /\ Unsign(b).hash = b.hash
<1> SUFFICES ASSUME NEW b \in OrNone(Row), b # None PROVE Unsign(b) # None /\ Unsign(b).hash = b.hash
  OBVIOUS
<1>1. Unsign(b) # None
  BY UnsignTyped
<1>2. b \in Row
  BY DEF OrNone
<1> QED
  BY <1>1, <1>2 DEF Unsign, Row
-----------------------------------------------------------------------------
LEMMA EnvironmentCareful == ASSUME TypeOK, Careful, SessionsOnly, Environment PROVE Careful'
<1>1. CASE UserEdit
  <2>1. PICK b \in OrNone(Body) \ {disk}, filtered \in Filters : UserEdit!(b, filtered)
    BY <1>1 DEF UserEdit
  <2>2. filtered = TRUE
    BY DEF Filters, SessionsOnly
  <2>3. events' = {} /\ UNCHANGED <<pc, pending>> /\ op' = [a \in Actors |-> Raced(a)]
    BY <2>1, <2>2 DEF Careful, Quiet, OrNone
  <2>4. pc["scan"] # "idle" => op'["scan"] = [op["scan"] EXCEPT !.raced = TRUE]
    BY <2>3 DEF Raced, Actors
  <2>5. pc["scan"] # "idle" => op'["scan"].raced
    BY <2>4 DEF TypeOK, ActorsOK, Op, Actors
  <2>6. Accounted(pc'["scan"], op'["scan"], base', disk')
    BY <2>3, <2>5 DEF Accounted, Spendable
  <2> QED
    BY <2>3, <2>6 DEF Careful, Quiet
<1>2. CASE ForeignEdit
  BY <1>2 DEF ForeignEdit, Careful, Quiet, local, db, watchVars
<1>3. CASE SaveTimer
  BY <1>3 DEF SaveTimer, Careful, Quiet, db
<1>4. CASE Crash
  BY <1>4 DEF Crash, Careful, Quiet, Accounted, Actors
<1> QED
  BY <1>1, <1>2, <1>3, <1>4 DEF Environment

LEMMA ScanLocalCareful == ASSUME TypeOK, Truthful, Careful, ScanLocal PROVE Careful'
<1>0. op["scan"] \in Op /\ base \in OrNone(Row)
  BY DEF TypeOK, ActorsOK, Actors, DeviceOK
<1>1. PICK unchanged \in MaybeUnchanged(base) : ScanLocal!(unchanged)
  BY DEF ScanLocal
<1>2. CASE End("scan", FALSE)
  BY <1>1, <1>2, OverCareful
<1>3. CASE disk = None /\ Goto("scan", "missing", [op["scan"] EXCEPT !.base = Unsign(base), !.how = "probed"])
  <2>1. disk' = None /\ events' = {} /\ ~pending'
    BY <1>1, <1>3 DEF local, watchVars, Careful, Quiet
  <2>2. \A r : Accounted("missing", r, base', disk')
    BY <2>1 DEF Accounted
  <2> QED
    BY <1>3, <2>1, <2>2, StepCareful DEF Careful
<1>4. CASE Goto("scan", "read", [op["scan"] EXCEPT !.hash = disk, !.raced = FALSE]) \/ Go("scan", "recheck")
  BY <1>1, <1>4, LooseCareful DEF Go, Guarded
<1> QED
  BY <1>1, <1>2, <1>3, <1>4

LEMMA SessionCareful == ASSUME TypeOK, Truthful, Careful, Session PROVE Careful'
<1>0. op["scan"] \in Op /\ base \in OrNone(Row)
  BY DEF TypeOK, ActorsOK, Actors, DeviceOK
<1> USE DEF Guarded
<1>1. CASE StartSession
  BY <1>1, LooseCareful DEF StartSession
<1>2. CASE ProbeRoot
  BY <1>2, LooseCareful DEF ProbeRoot, Listing
<1>3. CASE ListRemote
  BY <1>3, LooseCareful DEF ListRemote, Listing
<1>4. CASE ListFails
  BY <1>4, LooseCareful DEF ListFails
<1>5. CASE Gate
  BY <1>5, LooseCareful DEF Gate, Go
<1>6. CASE SessionThrows
  BY <1>6, LooseCareful DEF SessionThrows, Go
<1>7. CASE Finish
  <2>1. Goto("scan", "idle", NoOp) /\ events' = {} /\ ~pending'
    BY <1>7 DEF Finish, Drained, Careful, Quiet
  <2>2. Accounted("idle", NoOp, base', disk')
    BY DEF Accounted
  <2> QED
    BY <2>1, <2>2, StepCareful DEF Careful
<1>8. CASE Stopped
  BY <1>8, OverCareful DEF Stopped
<1>9. CASE ScanLocal
  BY <1>9, ScanLocalCareful
<1>10. CASE Candidate
  <2>1. CASE LastSynced /\ Goto("scan", "ask", [op["scan"] EXCEPT !.raced = FALSE])
    <3>1. base' # None /\ disk' = base'.hash /\ events' = {} /\ ~pending'
      BY <1>10, <2>1 DEF Candidate, LastSynced, local, db, watchVars, Careful, Quiet
    <3>2. \A r : Accounted("ask", r, base', disk')
      BY <3>1 DEF Accounted, Spendable
    <3> QED
      BY <2>1, <3>1, <3>2, StepCareful DEF Careful
  <2> QED
    BY <1>10, <2>1, LooseCareful, OverCareful DEF Candidate
<1>11. CASE AskServer
  <2>1. CASE Goto("scan", "trash", op["scan"])
    <3>1. Accounted("trash", op["scan"], base', disk') /\ events' = {} /\ ~pending'
      BY <1>11 DEF AskServer, Careful, Quiet, Accounted, local, db, watchVars
    <3> QED
      BY <2>1, <3>1, StepCareful DEF Careful
  <2> QED
    BY <1>11, <2>1, OverCareful DEF AskServer, Go
<1>12. CASE TrashLocal
  BY <1>12, OverCareful DEF TrashLocal, Drop
<1>13. CASE TrashFails
  BY <1>13, OverCareful DEF TrashFails
<1> QED
  BY <1>1, <1>2, <1>3, <1>4, <1>5, <1>6, <1>7, <1>8, <1>9, <1>10, <1>11, <1>12, <1>13 DEF Session

\* Nothing starts a single-file operation.
LEMMA WatchIdle == ASSUME TypeOK, Careful PROVE ~Watch
  BY DEF Watch, WatchModify, WatchStat, WatchStatFails, WatchEnd, Careful, Quiet
-----------------------------------------------------------------------------
LEMMA ClassifyCareful == ASSUME TypeOK, Truthful, Careful, Classify("scan") PROVE Careful'
<1>0. op["scan"] \in Op /\ base \in OrNone(Row)
  BY DEF TypeOK, ActorsOK, Actors, DeviceOK
<1>1. PICK u \in MaybeUnchanged(base) : Classify("scan")!(u)
  BY DEF Classify
<1> DEFINE i == op["scan"].info
           h == LocalHash(base, disk, u)
           v == Verdict(base, i, disk, u)
           r == [op["scan"] EXCEPT !.base = Unsign(base), !.hash = h, !.raced = FALSE,
                     !.how = IF v = "fetch" THEN "get" ELSE "none",
                     !.row = IF v = "record" THEN Converged(i, h, disk) ELSE None]
<1>2. disk' = disk /\ Goto("scan", v, r) /\ events' = {} /\ ~pending'
  BY <1>1 DEF local, watchVars, Careful, Quiet
<1>3. v # "end" => base' = base
  BY <1>1
<1>4. v = "proof" => disk = None
  BY DEF Verdict
<1>5. v = "fetch" => ~LocalChanged(base, disk, u)
  BY DEF Verdict
<1>6. u => base # None /\ disk = base.hash
  BY DEF MaybeUnchanged, Truthful, RowTruthful
<1>7. v = "fetch" => disk = None \/ (base # None /\ disk = base.hash)
  BY <1>5, <1>6 DEF LocalChanged
<1>8. v \in {"proof", "record", "conflict", "read", "fetch", "end"}
  BY DEF Verdict
<1>9. Accounted(v, r, base', disk')
  <2> HIDE DEF v, r
  <2> QED
    BY <1>2, <1>3, <1>4, <1>7, <1>8 DEF Accounted, Spendable
<1> HIDE DEF v, r
<1> QED
  BY <1>2, <1>9, StepCareful DEF Careful

LEMMA TransferCareful == ASSUME TypeOK, Truthful, Careful, Transfer("scan") PROVE Careful'
<1>0. op["scan"] \in Op
  BY DEF TypeOK, ActorsOK, Actors
<1> USE DEF Guarded
<1>1. CASE Classify("scan")
  BY <1>1, ClassifyCareful
<1>2. CASE Deferred("scan")
  BY <1>2, OverCareful DEF Deferred
<1>3. CASE ReadForUpload("scan")
  BY <1>3, OverCareful, LooseCareful DEF ReadForUpload
<1>4. CASE Upload("scan")
  BY <1>4, LooseCareful DEF Upload
<1>5. CASE UploadRefused("scan")
  BY <1>5, LooseCareful DEF UploadRefused
<1>6. CASE UploadFails("scan")
  BY <1>6, OverCareful DEF UploadFails, FailAndQueue
<1>7. CASE Record("scan")
  BY <1>7, OverCareful DEF Record
<1>8. CASE DownloadSkipped("scan")
  BY <1>8, OverCareful DEF DownloadSkipped
<1>9. CASE Fetch("scan")
  <2> DEFINE r == [op["scan"] EXCEPT !.data = srv.body]
  <2>1. r.how = op["scan"].how /\ r.raced = op["scan"].raced
    BY <1>0 DEF Op
  <2>2. pc["scan"] = "fetch" /\ disk' = disk /\ base' = base /\ events' = {} /\ ~pending' /\ UNCHANGED watchVars
    BY <1>9 DEF Fetch, MayFetch, local, db, watchVars, Careful, Quiet
  <2>3. Goto("scan", "merge", r) \/ Goto("scan", "write", r)
    BY <1>9 DEF Fetch
  <2> HIDE DEF r
  <2>4. Accounted("write", r, base', disk')
    BY <2>1, <2>2 DEF Careful, Accounted, Spendable
  <2> QED
    BY <2>2, <2>3, <2>4, StepCareful, LooseCareful DEF Careful
<1>10. CASE FetchGone("scan")
  BY <1>10, OverCareful DEF FetchGone
<1>11. CASE FetchFails("scan")
  BY <1>11, OverCareful DEF FetchFails, FailAndQueue
<1>12. CASE FetchAnomalous("scan")
  BY <1>12, OverCareful DEF FetchAnomalous
<1>13. CASE WriteFetched("scan")
  BY <1>13, LooseCareful DEF WriteFetched
<1> QED
  BY <1>1, <1>2, <1>3, <1>4, <1>5, <1>6, <1>7, <1>8, <1>9, <1>10, <1>11, <1>12, <1>13 DEF Transfer

\* A conflict's download is decided, not plain.
LEMMA DecidedCareful ==
    ASSUME TypeOK, Careful, UNCHANGED watchVars,
           NEW label \in {"fetch", "write", "merge"}, NEW how \in {"remote", "clean", "markers"},
           Goto("scan", label, [op["scan"] EXCEPT !.how = how])
    PROVE  Careful'
<1>1. [op["scan"] EXCEPT !.how = how].how = how
  BY DEF TypeOK, ActorsOK, Actors, Op
<1>2. Accounted(label, [op["scan"] EXCEPT !.how = how], base', disk')
  BY <1>1 DEF Accounted
<1> QED
  BY <1>2, StepCareful DEF Careful, Quiet, watchVars

LEMMA ConflictCareful == ASSUME TypeOK, Careful, Conflict("scan") PROVE Careful'
<1> USE DEF Guarded
<1>1. CASE EnterConflict("scan")
  <2>1. UNCHANGED watchVars
    BY <1>1 DEF EnterConflict
  <2>2. \/ End("scan", FALSE)
        \/ \E label \in {"record", "compare", "decide"} : \E r : Goto("scan", label, r)
    BY <1>1 DEF EnterConflict, Go
  <2>3. CASE End("scan", FALSE)
    BY <2>1, <2>3, OverCareful
  <2>4. ASSUME NEW label \in {"record", "compare", "decide"}, NEW r, Goto("scan", label, r) PROVE Careful'
    BY <2>1, <2>4, LooseCareful
  <2> QED
    BY <2>2, <2>3, <2>4
<1>2. CASE Compare("scan")
  <2>1. UNCHANGED watchVars
    BY <1>2 DEF Compare
  <2>2. \/ End("scan", TRUE)
        \/ \E label \in {"record", "decide"} : \E r : Goto("scan", label, r)
    BY <1>2 DEF Compare
  <2>3. CASE End("scan", TRUE)
    BY <2>1, <2>3, OverCareful
  <2>4. ASSUME NEW label \in {"record", "decide"}, NEW r, Goto("scan", label, r) PROVE Careful'
    BY <2>1, <2>4, LooseCareful
  <2> QED
    BY <2>2, <2>3, <2>4
<1>3. CASE CompareFails("scan")
  BY <1>3, OverCareful DEF CompareFails, FailAndQueue
<1>4. CASE Hold("scan")
  BY <1>4, OverCareful DEF Hold
<1>5. CASE Tie("scan")
  BY <1>5, OverCareful DEF Tie
<1>6. CASE PreferLocal("scan")
  BY <1>6, LooseCareful DEF PreferLocal, Go
<1>7. CASE PreferRemote("scan")
  BY <1>7, DecidedCareful DEF PreferRemote
<1>8. CASE Merge("scan")
  <2>1. PICK k \in {"clean", "markers"} \cap Decisions :
          IF disk = None THEN End("scan", TRUE)
          ELSE Goto("scan", IF op["scan"].data = None THEN "fetch" ELSE "merge", [op["scan"] EXCEPT !.how = k])
    BY <1>8 DEF Merge
  <2>2. UNCHANGED watchVars
    BY <1>8 DEF Merge
  <2> QED
    BY <2>1, <2>2, OverCareful, DecidedCareful
<1>9. CASE ReadLocal("scan")
  BY <1>9, OverCareful, LooseCareful DEF ReadLocal
<1>10. CASE SendLocal("scan")
  BY <1>10, LooseCareful DEF SendLocal
<1>11. CASE SendLocalFails("scan")
  BY <1>11, OverCareful DEF SendLocalFails, FailAndQueue
<1>12. CASE WriteMerged("scan")
  BY <1>12, LooseCareful DEF WriteMerged, Go
<1>13. CASE ReadMerged("scan")
  BY <1>13, OverCareful, LooseCareful DEF ReadMerged
<1>14. CASE SendMerged("scan")
  BY <1>14, LooseCareful DEF SendMerged
<1>15. CASE SendMergedFails("scan")
  BY <1>15, OverCareful DEF SendMergedFails
<1> QED
  BY <1>1, <1>2, <1>3, <1>4, <1>5, <1>6, <1>7, <1>8, <1>9, <1>10, <1>11, <1>12, <1>13, <1>14, <1>15
     DEF Conflict

\* What the proof of a deletion looks at does not change what was found locally.
LEMMA DeletionCareful == ASSUME TypeOK, Careful, Deletion("scan") PROVE Careful'
<1>0. op["scan"] \in Op
  BY DEF TypeOK, ActorsOK, Actors
<1> USE DEF Guarded
<1>1. CASE ProveDeletion("scan")
  <2> DEFINE r == [op["scan"] EXCEPT !.how = IF @ = "probed" THEN @ ELSE "get",
                                !.at = IF op["scan"].info.sum = None THEN rev ELSE @]
  <2>1. PICK h \in ProofHashes(op["scan"].info) :
          IF h = None THEN End("scan", FALSE)
          ELSE Goto("scan", IF DeletionProven("scan", h) THEN "delete" ELSE "fetch", r)
    BY <1>1 DEF ProveDeletion
  <2>2. pc["scan"] = "proof" /\ disk' = disk /\ base' = base /\ UNCHANGED watchVars
    BY <1>1 DEF ProveDeletion, local, db
  <2>3. r.raced = op["scan"].raced
    BY <1>0 DEF Op
  <2> HIDE DEF r
  <2>4. Accounted("fetch", r, base', disk')
    BY <2>2, <2>3 DEF Careful, Accounted, Spendable
  <2>5. CASE Goto("scan", "fetch", r)
    BY <2>2, <2>4, <2>5, StepCareful DEF Careful, Quiet, watchVars
  <2> QED
    BY <2>1, <2>2, <2>5, OverCareful, LooseCareful
<1>2. CASE DeleteRemote("scan")
  BY <1>2, OverCareful DEF DeleteRemote, Drop
<1>3. CASE DeleteFails("scan")
  BY <1>3, OverCareful DEF DeleteFails, FailAndQueue
<1>4. CASE ProbeMissing("scan")
  <2> DEFINE r == [op["scan"] EXCEPT !.info = Listed, !.at = rev, !.how = "probed"]
  <2>1. UNCHANGED <<disk, watchVars>> /\ pc["scan"] = "missing"
    BY <1>4 DEF ProbeMissing, local
  <2>2. Drop("scan") \/ Goto("scan", "proof", r)
    BY <1>4 DEF ProbeMissing
  <2>3. r.raced = op["scan"].raced
    BY <1>0 DEF Op
  <2> HIDE DEF r
  <2>4. Accounted("proof", r, base', disk')
    BY <2>1, <2>3 DEF Careful, Accounted
  <2>5. CASE Goto("scan", "proof", r)
    BY <2>1, <2>4, <2>5, StepCareful DEF Careful, Quiet, watchVars
  <2> QED
    BY <2>1, <2>2, <2>5, OverCareful DEF Drop
<1>5. CASE ProbeMissingFails("scan")
  BY <1>5, OverCareful DEF ProbeMissingFails
<1> QED
  BY <1>1, <1>2, <1>3, <1>4, <1>5 DEF Deletion
-----------------------------------------------------------------------------
\* A step of the per-file code is a step of an actor that is not idle.
LEMMA ActorsAct ==
    ASSUME NEW a \in Actors, Transfer(a) \/ Conflict(a) \/ Deletion(a)
    PROVE  pc[a] # "idle"
<1>1. CASE Transfer(a)
  BY <1>1 DEF Transfer, Classify, Deferred, ReadForUpload, Upload, UploadRefused, UploadFails, Record,
       DownloadSkipped, Fetch, MayFetch, FetchGone, FetchFails, FetchAnomalous, WriteFetched
<1>2. CASE Conflict(a)
  BY <1>2 DEF Conflict, EnterConflict, Compare, CompareFails, Hold, Tie, PreferLocal, PreferRemote, Merge,
       ReadLocal, SendLocal, SendLocalFails, WriteMerged, ReadMerged, SendMerged, SendMergedFails
<1>3. CASE Deletion(a)
  BY <1>3 DEF Deletion, ProveDeletion, DeleteRemote, DeleteFails, ProbeMissing, ProbeMissingFails
<1> QED
  BY <1>1, <1>2, <1>3

LEMMA NextCareful == SessionsOnly /\ TypeOK /\ Truthful /\ Careful /\ [Next]_vars => Careful'
<1> SUFFICES ASSUME SessionsOnly, TypeOK, Truthful, Careful, [Next]_vars PROVE Careful'
  OBVIOUS
<1>1. CASE Environment
  BY <1>1, EnvironmentCareful
<1>2. CASE Session
  BY <1>2, SessionCareful
<1>3. CASE Watch
  BY <1>3, WatchIdle
<1>4. CASE \E a \in Actors : Transfer(a) \/ Conflict(a) \/ Deletion(a)
  <2>1. Transfer("scan") \/ Conflict("scan") \/ Deletion("scan")
    BY <1>4, ActorsAct, ScanActs
  <2> QED
    BY <2>1, TransferCareful, ConflictCareful, DeletionCareful
<1>5. CASE UNCHANGED vars
  BY <1>5 DEF vars, Careful, Quiet
<1> QED
  BY <1>1, <1>2, <1>3, <1>4, <1>5 DEF Next, Environment

LEMMA CarefulKeeps ==
    ASSUME Careful, NEW a \in Actors, (pc[a] = "write" /\ Plain(a)) \/ pc[a] = "trash"
    PROVE  disk = None \/ op[a].raced \/ (base # None /\ disk = base.hash)
  BY ScanActs DEF Careful, Accounted, Spendable, Plain

\* No session destroys local writing that it has not looked at: what a download, a
\* restore or an absence deletion replaces is the content of the row, or was saved
\* while the operation was under way; whatever fails, crashes or is stopped.
THEOREM LocalWorkKept == ASSUME SessionsOnly PROVE Spec => LocalWorkIsKept
<1>1. Init => Careful
  BY DEF Init, Careful, Quiet, Accounted, Actors
<1>2. TypeOK /\ Truthful /\ [Next]_vars => Truthful'
  BY NextTruthful DEF SessionsOnly
<1>3. TypeOK /\ Truthful /\ Careful /\ [Next]_vars => Careful'
  BY NextCareful
<1>4. Careful /\ [Next]_vars =>
        [\A a \in Actors : ((pc[a] = "write" /\ Plain(a)) \/ pc[a] = "trash") /\ disk' # disk =>
            disk = None \/ op[a].raced \/ (base # None /\ disk = base.hash)]_vars
  BY CarefulKeeps
<1> QED
  BY <1>1, <1>2, <1>3, <1>4, InitTruthful, TypeCorrect, PTL DEF Spec, LocalWorkIsKept
-----------------------------------------------------------------------------
(***************************************************************************)
(* The convergence gate is all the safety of the server's versions hangs   *)
(* on: in every instance without overlap or slow edits, a behaviour whose  *)
(* gate keeps ArmedMeansConverged has every upload replace what its edit   *)
(* was based on and every DELETE proven, whatever fails, crashes or is     *)
(* stopped.  And the gate does keep it, where none of the behaviours that  *)
(* break it is at large.                                                   *)
(***************************************************************************)

(***************************************************************************)
(* What is remembered of the server is of a version it has been at, and of *)
(* a size some content has.                                                *)
(***************************************************************************)
\* No content is over maxFileSizeMB, or the limit is off.
NoneTooLarge == \A b \in Body : ~OverLimit(Size[b])
Fits(n) == NoneTooLarge => ~OverLimit(n)

\* A version the server has been at; a checksum is not a version.
Past(v, n) == v \in Nat => v <= n
RowPast(b, n) == b # None => Past(b.rid, n) /\ Fits(b.size)
InfoPast(i, n) == i # None => Past(i.etag, n) /\ Fits(i.size)
OpPast(o, n) == /\ Past(o.cur, n) /\ RowPast(o.base, n) /\ RowPast(o.row, n)
                /\ InfoPast(o.info, n)

Remembered ==
    /\ Past(root, rev) /\ Past(saved.root, rev) /\ RowPast(base, rev) /\ RowPast(saved.base, rev)
    /\ \A a \in Actors : OpPast(op[a], rev)
-----------------------------------------------------------------------------
\* A version stays past.
LEMMA PastGrows ==
    ASSUME TypeOK, TypeOK', rev <= rev'
    PROVE  /\ \A v : Past(v, rev) => Past(v, rev')
           /\ \A b : RowPast(b, rev) => RowPast(b, rev')
           /\ \A o : OpPast(o, rev) => OpPast(o, rev')
<1>1. rev \in Nat /\ rev' \in Nat
  BY DEF TypeOK, ServerOK
<1>2. \A v : Past(v, rev) => Past(v, rev')
  BY <1>1 DEF Past
<1> QED
  BY <1>2 DEF RowPast, InfoPast, OpPast

\* The size of a body, or of none.
LEMMA SizeFits == Fits(0) /\ \A b \in OrNone(Body) : Fits(SizeOf(b))
<1>1. ~OverLimit(0)
  BY SizeAssumption DEF OverLimit
<1> QED
  BY <1>1 DEF Fits, NoneTooLarge, SizeOf, OrNone

LEMMA StepRemembered ==
    ASSUME TypeOK, TypeOK', Remembered, rev <= rev',
           NEW a \in Actors, NEW label, NEW r, Goto(a, label, r), OpPast(r, rev'),
           RowPast(base', rev'), Past(root', rev'),
           RowPast(saved'.base, rev'), Past(saved'.root, rev')
    PROVE  Remembered'
<1>1. op' = [op EXCEPT ![a] = r] /\ op \in [Actors -> Op]
  BY DEF Goto, TypeOK, ActorsOK
<1>2. \A c \in Actors : OpPast(op'[c], rev')
  BY <1>1, PastGrows DEF Remembered
<1> QED
  BY <1>2 DEF Remembered

\* A step that leaves what is stored alone.
LEMMA LooseRemembered ==
    ASSUME TypeOK, TypeOK', Remembered, rev <= rev',
           NEW a \in Actors, NEW label, NEW r, Goto(a, label, r), OpPast(r, rev'),
           UNCHANGED <<db, saved>>
    PROVE  Remembered'
<1>1. /\ RowPast(base', rev') /\ Past(root', rev')
      /\ RowPast(saved'.base, rev') /\ Past(saved'.root, rev')
  BY PastGrows DEF Remembered, db
<1> QED
  BY <1>1, StepRemembered

LEMMA NoOpPast == \A n, bad : OpPast(NoOp, n) /\ OpPast([NoOp EXCEPT !.bad = bad], n)
  BY BodyAssumption DEF NoOp, OpPast, RowPast, InfoPast, Past

\* What an actor knows besides the body, the hash and the flags stays as it is.
SameSource(r, o) == r.cur = o.cur /\ r.base = o.base /\ r.row = o.row /\ r.info = o.info
LEMMA SamePast ==
    ASSUME NEW o, NEW r, NEW n, OpPast(o, n), SameSource(r, o)
    PROVE  OpPast(r, n)
  BY DEF OpPast, SameSource

LEMMA OverRemembered ==
    ASSUME TypeOK, TypeOK', Remembered, rev <= rev', NEW a \in Actors, NEW bad,
           End(a, bad) \/ Done(a, bad),
           RowPast(base', rev'), Past(root', rev'), RowPast(saved'.base, rev'), Past(saved'.root, rev')
    PROVE  Remembered'
<1>1. CASE End(a, bad)
  BY <1>1, StepRemembered, NoOpPast DEF End
<1>2. CASE Goto(a, "recheck", [op[a] EXCEPT !.bad = @ \/ bad])
  <2> DEFINE r == [op[a] EXCEPT !.bad = @ \/ bad]
  <2>1. SameSource(r, op[a]) /\ OpPast(op[a], rev')
    BY PastGrows DEF SameSource, Remembered, TypeOK, ActorsOK, Op
  <2>2. OpPast(r, rev')
    BY <2>1, SamePast
  <2> HIDE DEF r
  <2> QED
    BY <1>2, <2>2, StepRemembered DEF r
<1> QED
  BY <1>1, <1>2 DEF Done

\* What is stored, where a step leaves it alone.
LEMMA StoredRemembered ==
    ASSUME TypeOK, TypeOK', Remembered, rev <= rev'
    PROVE  /\ UNCHANGED base => RowPast(base', rev')
           /\ UNCHANGED root => Past(root', rev')
           /\ UNCHANGED saved => RowPast(saved'.base, rev') /\ Past(saved'.root, rev')
  BY PastGrows DEF Remembered

LEMMA UnsignPast == \A b \in OrNone(Row) : \A n : RowPast(b, n) => RowPast(Unsign(b), n)
<1> SUFFICES ASSUME NEW b \in OrNone(Row), NEW n, RowPast(b, n), b # None PROVE RowPast(Unsign(b), n)
  BY DEF RowPast, Unsign
<1>1. Unsign(b).rid = b.rid /\ Unsign(b).size = b.size
  BY DEF Unsign, Row, OrNone
<1> QED
  BY <1>1 DEF RowPast

LEMMA ListedPast == ServerOK => InfoPast(Listed, rev)
<1> SUFFICES ASSUME ServerOK, Listed # None PROVE Past(Listed.etag, rev) /\ Fits(Listed.size)
  BY DEF InfoPast
<1>1. srv.body \in Body /\ Listed.size = SizeOf(srv.body) /\ Listed.etag = rev
  BY BodyAssumption DEF ServerOK, Listed, OrNone, SizeOf
<1> QED
  BY <1>1, SizeFits DEF ServerOK, Past, OrNone

LEMMA RebuiltPast ==
    ASSUME NEW b \in OrNone(Row), NEW n, RowPast(b, n)
    PROVE  InfoPast(Rebuilt(b), n)
  BY BodyAssumption DEF Rebuilt, RowPast, InfoPast, Past

LEMMA IdPast == \A i \in Info : \A n : Past(i.etag, n) => Past(IdOf(i), n)
  BY BodyAssumption DEF Info, IdOf, Past, OrNone

LEMMA BodyPast == \A b \in Body : \A n : Past(b, n)
  BY BodyAssumption DEF Past

LEMMA WithRow ==
    ASSUME NEW o \in Op, NEW row, NEW n, OpPast(o, n), RowPast(row, n)
    PROVE  OpPast([o EXCEPT !.row = row], n)
  BY DEF OpPast, Op

LEMMA WithInfo ==
    ASSUME NEW o \in Op, NEW i, NEW at, NEW n, OpPast(o, n), InfoPast(i, n)
    PROVE  /\ OpPast([o EXCEPT !.info = i, !.at = at, !.raced = FALSE], n)
           /\ OpPast([o EXCEPT !.info = i, !.at = at, !.how = "probed"], n)
  BY DEF OpPast, Op
-----------------------------------------------------------------------------
LEMMA EnvironmentRemembered ==
    ASSUME TypeOK, TypeOK', Remembered, Environment
    PROVE  Remembered'
<1>0. base \in OrNone(Row) /\ saved.base \in OrNone(Row) /\ rev \in Nat
  BY DEF TypeOK, DeviceOK, ServerOK
<1>1. CASE UserEdit
  <2>1. PICK b \in OrNone(Body) \ {disk}, filtered \in Filters : UserEdit!(b, filtered)
    BY <1>1 DEF UserEdit
  <2>2. /\ rev' = rev /\ root' = root /\ base' = Unsign(base)
        /\ saved'.root = saved.root /\ saved'.base = Unsign(saved.base)
    BY <2>1 DEF server, WriteDisk, TypeOK, DeviceOK
  <2>3. \A a \in Actors : SameSource(Raced(a), op[a])
    BY DEF SameSource, Raced, TypeOK, ActorsOK, Op
  <2>4. CASE op' = [a \in Actors |-> Raced(a)]
    <3>1. \A a \in Actors : OpPast(op'[a], rev)
      BY <2>3, <2>4, SamePast DEF Remembered
    <3> QED
      BY <1>0, <2>2, <3>1, UnsignPast DEF Remembered
  <2>5. CASE op' = [op EXCEPT !["watch"] = StartDeletion]
    <3>1. OpPast(StartDeletion, rev)
      <4>1. /\ StartDeletion.cur = None /\ StartDeletion.row = None /\ StartDeletion.info = None
            /\ StartDeletion.base = Unsign(base)
        BY DEF StartDeletion, NoOp
      <4> QED
        BY <1>0, <4>1, UnsignPast, BodyAssumption DEF OpPast, RowPast, InfoPast, Past, Remembered
    <3>2. \A a \in Actors : OpPast(op'[a], rev)
      BY <2>5, <3>1 DEF Remembered, TypeOK, ActorsOK
    <3> QED
      BY <1>0, <2>2, <3>2, UnsignPast DEF Remembered
  <2> QED
    BY <2>1, <2>4, <2>5
<1>2. CASE ForeignEdit
  <2>1. rev' = rev + 1 /\ UNCHANGED <<base, root, saved, op>>
    BY <1>2 DEF ForeignEdit, local, db
  <2> QED
    BY <1>0, <2>1, PastGrows DEF Remembered
<1>3. CASE SaveTimer
  BY <1>3 DEF SaveTimer, Remembered, server, db
<1>4. CASE Crash
  <2>1. /\ rev' = rev /\ base' = saved.base /\ root' = saved.root /\ saved' = saved
        /\ \A a \in Actors : op'[a] = NoOp
    BY <1>4 DEF Crash, server, local
  <2> QED
    BY <2>1, NoOpPast DEF Remembered
<1> QED
  BY <1>1, <1>2, <1>3, <1>4 DEF Environment

LEMMA SessionRemembered ==
    ASSUME TypeOK, TypeOK', Remembered, Session
    PROVE  Remembered'
<1>0. /\ "scan" \in Actors /\ op["scan"] \in Op /\ OpPast(op["scan"], rev)
      /\ base \in OrNone(Row) /\ rev \in Nat /\ Past(None, rev)
  BY BodyAssumption DEF Actors, TypeOK, ActorsOK, DeviceOK, ServerOK, Remembered, Past
<1>a. UNCHANGED server => rev' = rev /\ rev <= rev'
  BY <1>0 DEF server
<1>b. UNCHANGED local => saved' = saved
  BY DEF local
<1>c. UNCHANGED db => base' = base /\ root' = root
  BY DEF db
<1>1. CASE StartSession
  BY <1>0, <1>1, <1>a, <1>b, NoOpPast, LooseRemembered DEF StartSession
<1>2. CASE ProbeRoot
  <2>1. PICK cur \in RootEtag : ProbeRoot!(cur)
    BY <1>2 DEF ProbeRoot
  <2>2. rev' = rev /\ base' = base /\ root' = root /\ saved' = saved
    BY <2>1, <1>a, <1>b
  <2>3. CASE Listing(Rebuilt(base), cur)
    <3>1. InfoPast(Rebuilt(base), rev)
      BY <1>0, RebuiltPast DEF Remembered
    <3>2. OpPast([op["scan"] EXCEPT !.info = Rebuilt(base), !.at = cur, !.raced = FALSE], rev)
      BY <1>0, <3>1, WithInfo
    <3> QED
      BY <1>0, <1>a, <2>1, <2>2, <2>3, <3>2, StepRemembered DEF Listing, Remembered
  <2>4. CASE Goto("scan", "list", [op["scan"] EXCEPT !.cur = cur])
    <3>1. OpPast([op["scan"] EXCEPT !.cur = cur], rev)
      BY <1>0 DEF OpPast, Op, RootEtag, Past
    <3> QED
      BY <1>0, <1>a, <2>1, <2>2, <2>4, <3>1, StepRemembered DEF Remembered
  <2> QED
    BY <2>1, <2>3, <2>4
<1>3. CASE ListRemote
  <2>1. OpPast([op["scan"] EXCEPT !.info = Listed, !.at = rev, !.raced = FALSE], rev)
    BY <1>0, ListedPast, WithInfo DEF TypeOK
  <2>2. Past(op["scan"].cur, rev)
    BY <1>0 DEF OpPast
  <2> QED
    BY <1>0, <1>3, <1>a, <1>b, <2>1, <2>2, StepRemembered DEF ListRemote, Listing, Remembered
<1>4. CASE ListFails
  BY <1>0, <1>4, <1>a, <1>b, NoOpPast, LooseRemembered DEF ListFails
<1>5. CASE Gate
  <2>1. Past(root', rev)
    BY <1>0, <1>5 DEF Gate, Armed, Remembered
  <2> QED
    BY <1>0, <1>5, <1>a, <1>b, <2>1, StepRemembered DEF Gate, Go, Remembered
<1>6. CASE SessionThrows
  BY <1>0, <1>6, <1>a, <1>b, LooseRemembered DEF SessionThrows, Go
<1>7. CASE Finish
  <2>1. RowPast(saved'.base, rev) /\ Past(saved'.root, rev)
    BY <1>7 DEF Finish, Remembered
  <2> QED
    BY <1>0, <1>7, <1>a, <1>c, <2>1, NoOpPast, StepRemembered DEF Finish, Remembered
<1>8. CASE Stopped
  BY <1>0, <1>8, <1>a, <1>b, <1>c, StoredRemembered, OverRemembered DEF Stopped
<1>9. CASE ScanLocal
  <2>1. PICK unchanged \in MaybeUnchanged(base) : ScanLocal!(unchanged)
    BY <1>9 DEF ScanLocal
  <2>2. rev' = rev /\ saved' = saved /\ base' = base /\ root' = root /\ UNCHANGED <<db, saved>>
    BY <2>1, <1>a, <1>b, <1>c
  <2>3. CASE End("scan", FALSE)
    BY <1>0, <1>a, <2>1, <2>2, <2>3, StoredRemembered, OverRemembered
  <2>4. CASE Goto("scan", "missing", [op["scan"] EXCEPT !.base = Unsign(base), !.how = "probed"])
    <3>1. RowPast(Unsign(base), rev)
      BY <1>0, UnsignPast DEF Remembered
    <3>2. OpPast([op["scan"] EXCEPT !.base = Unsign(base), !.how = "probed"], rev)
      BY <1>0, <3>1 DEF OpPast, Op
    <3> QED
      BY <1>0, <1>a, <2>1, <2>2, <2>4, <3>2, LooseRemembered
  <2>5. CASE Goto("scan", "read", [op["scan"] EXCEPT !.hash = disk, !.raced = FALSE])
    <3>1. SameSource([op["scan"] EXCEPT !.hash = disk, !.raced = FALSE], op["scan"])
      BY <1>0 DEF SameSource, Op
    <3> QED
      BY <1>0, <1>a, <2>1, <2>2, <2>5, <3>1, SamePast, LooseRemembered
  <2>6. CASE Go("scan", "recheck")
    BY <1>0, <1>a, <2>1, <2>2, <2>6, LooseRemembered DEF Go
  <2> QED
    BY <2>1, <2>3, <2>4, <2>5, <2>6
<1>10. CASE Candidate
  <2>1. /\ rev' = rev /\ rev <= rev' /\ saved' = saved /\ UNCHANGED <<db, saved>>
        /\ base' = base /\ root' = root
    BY <1>10, <1>a, <1>b, <1>c DEF Candidate
  <2>2. SameSource([op["scan"] EXCEPT !.raced = FALSE], op["scan"])
    BY <1>0 DEF SameSource, Op
  <2>3. \/ Goto("scan", "finish", [NoOp EXCEPT !.bad = TRUE])
        \/ Goto("scan", "ask", [op["scan"] EXCEPT !.raced = FALSE])
        \/ End("scan", FALSE)
    BY <1>10 DEF Candidate
  <2>4. CASE Goto("scan", "finish", [NoOp EXCEPT !.bad = TRUE])
    BY <1>0, <2>1, <2>4, NoOpPast, LooseRemembered
  <2>5. CASE Goto("scan", "ask", [op["scan"] EXCEPT !.raced = FALSE])
    BY <1>0, <2>1, <2>2, <2>5, SamePast, LooseRemembered
  <2>6. CASE End("scan", FALSE)
    <3>1. RowPast(base', rev') /\ Past(root', rev') /\ RowPast(saved'.base, rev') /\ Past(saved'.root, rev')
      BY <2>1 DEF Remembered
    <3> QED
      BY <1>0, <2>1, <2>6, <3>1, OverRemembered
  <2> QED
    BY <2>3, <2>4, <2>5, <2>6
<1>11. CASE AskServer
  <2>1. /\ rev' = rev /\ rev <= rev' /\ saved' = saved /\ UNCHANGED <<db, saved>>
        /\ base' = base /\ root' = root
    BY <1>11, <1>a, <1>b, <1>c DEF AskServer
  <2>2. Goto("scan", "trash", op["scan"]) \/ End("scan", FALSE)
    BY <1>11 DEF AskServer, Go
  <2>3. CASE Goto("scan", "trash", op["scan"])
    BY <1>0, <2>1, <2>3, LooseRemembered
  <2>4. CASE End("scan", FALSE)
    <3>1. RowPast(base', rev') /\ Past(root', rev') /\ RowPast(saved'.base, rev') /\ Past(saved'.root, rev')
      BY <2>1 DEF Remembered
    <3> QED
      BY <1>0, <2>1, <2>4, <3>1, OverRemembered
  <2> QED
    BY <2>2, <2>3, <2>4
<1>12. CASE TrashLocal
  <2>1. /\ rev' = rev /\ root' = root /\ base' = None /\ saved'.root = saved.root
        /\ saved'.base = Unsign(saved.base) /\ saved.base \in OrNone(Row)
    BY <1>12 DEF TrashLocal, Drop, WriteDisk, server, TypeOK, DeviceOK
  <2>2. RowPast(saved'.base, rev') /\ RowPast(base', rev') /\ Past(root', rev') /\ Past(saved'.root, rev')
    BY <2>1, UnsignPast DEF Remembered, RowPast
  <2>3. End("scan", FALSE) /\ rev <= rev'
    BY <1>12, <1>a DEF TrashLocal, Drop
  <2> QED
    BY <1>0, <2>2, <2>3, OverRemembered
<1>13. CASE TrashFails
  <2>1. rev' = rev /\ saved' = saved /\ base' = base /\ root' = None
    BY <1>13, <1>a, <1>b DEF TrashFails
  <2>2. RowPast(base', rev') /\ Past(root', rev') /\ RowPast(saved'.base, rev') /\ Past(saved'.root, rev')
    BY <1>0, <2>1 DEF Remembered
  <2>3. End("scan", FALSE) /\ rev <= rev'
    BY <1>13, <1>a DEF TrashFails
  <2> QED
    BY <1>0, <2>2, <2>3, OverRemembered
<1> QED
  BY <1>1, <1>2, <1>3, <1>4, <1>5, <1>6, <1>7, <1>8, <1>9, <1>10, <1>11, <1>12, <1>13 DEF Session

LEMMA FailureRemembered ==
    ASSUME TypeOK, TypeOK', Remembered, NEW a \in Actors, FailAndQueue(a), rev <= rev',
           UNCHANGED <<saved, base, root>>
    PROVE  Remembered'
  BY StoredRemembered, OverRemembered DEF FailAndQueue

LEMMA WatchRemembered ==
    ASSUME TypeOK, TypeOK', Remembered, Watch
    PROVE  Remembered'
<1>0. /\ "watch" \in Actors /\ op["watch"] \in Op /\ OpPast(op["watch"], rev)
      /\ base \in OrNone(Row) /\ rev \in Nat /\ rev' = rev /\ UNCHANGED <<saved, base, root, db>>
  BY DEF Watch, WatchModify, WatchStat, WatchStatFails, WatchEnd, server, local, db,
         Actors, TypeOK, ActorsOK, DeviceOK, ServerOK, Remembered
<1>1. CASE WatchModify
  <2>1. CASE WatchDrop
    BY <1>0, <2>1 DEF WatchDrop, Remembered
  <2>2. CASE Goto("watch", "stat", [NoOp EXCEPT !.hash = disk])
    <3>1. SameSource([NoOp EXCEPT !.hash = disk], NoOp)
      BY DEF SameSource, NoOp
    <3>2. OpPast(NoOp, rev)
      BY NoOpPast
    <3>3. OpPast([NoOp EXCEPT !.hash = disk], rev)
      BY <3>1, <3>2, SamePast
    <3> QED
      BY <1>0, <2>2, <3>3, LooseRemembered
  <2> QED
    BY <1>1, <2>1, <2>2 DEF WatchModify
<1>2. CASE WatchStat
  <2>1. OpPast([op["watch"] EXCEPT !.info = Listed, !.at = rev, !.raced = FALSE], rev)
    BY <1>0, ListedPast, WithInfo DEF TypeOK
  <2> QED
    BY <1>0, <1>2, <2>1, LooseRemembered DEF WatchStat
<1>3. CASE WatchStatFails
  BY <1>0, <1>3, FailureRemembered DEF WatchStatFails
<1>4. CASE WatchEnd
  <2>1. OpPast(StartDeletion, rev)
    <3>1. /\ StartDeletion.cur = None /\ StartDeletion.row = None /\ StartDeletion.info = None
          /\ StartDeletion.base = Unsign(base)
      BY DEF StartDeletion, NoOp
    <3> QED
      BY <1>0, <3>1, UnsignPast, BodyAssumption DEF OpPast, RowPast, InfoPast, Past, Remembered
  <2>2. Goto("watch", "missing", StartDeletion) \/ Goto("watch", "idle", NoOp)
    BY <1>4 DEF WatchEnd
  <2>3. OpPast(NoOp, rev)
    BY NoOpPast
  <2>4. CASE Goto("watch", "missing", StartDeletion)
    BY <1>0, <2>1, <2>4, LooseRemembered
  <2>5. CASE Goto("watch", "idle", NoOp)
    BY <1>0, <2>3, <2>5, LooseRemembered
  <2> QED
    BY <2>2, <2>4, <2>5
<1> QED
  BY <1>1, <1>2, <1>3, <1>4 DEF Watch
-----------------------------------------------------------------------------
\* No step takes the server back.
LEMMA VersionsGrow ==
    ASSUME TypeOK
    PROVE  /\ UNCHANGED server => rev <= rev'
           /\ \A b : Store(b) => rev <= rev'
           /\ Removed => rev <= rev'
  BY DEF TypeOK, ServerOK, Store, Removed, server

LEMMA SameRemembered ==
    ASSUME TypeOK, TypeOK', Remembered, NEW a \in Actors, NEW label, NEW r,
           Goto(a, label, r), SameSource(r, op[a]), rev <= rev', UNCHANGED <<base, root, saved>>
    PROVE  Remembered'
<1>1. OpPast(r, rev')
  BY PastGrows, SamePast DEF Remembered
<1>2. RowPast(base', rev') /\ Past(root', rev') /\ RowPast(saved'.base, rev') /\ Past(saved'.root, rev')
  BY StoredRemembered
<1> QED
  BY <1>1, <1>2, StepRemembered

\* A row about to be recorded.
LEMMA RowRemembered ==
    ASSUME TypeOK, TypeOK', Remembered, NEW a \in Actors, NEW o \in Op, NEW row,
           Goto(a, "record", [o EXCEPT !.row = row]), SameSource(o, op[a]),
           RowPast(row, rev'), rev <= rev', UNCHANGED <<root, saved>>, RowPast(base', rev')
    PROVE  Remembered'
<1>1. OpPast([o EXCEPT !.row = row], rev')
  BY PastGrows, SamePast, WithRow DEF Remembered
<1>2. Past(root', rev') /\ RowPast(saved'.base, rev') /\ Past(saved'.root, rev')
  BY StoredRemembered
<1> QED
  BY <1>1, <1>2, StepRemembered

LEMMA EndRemembered ==
    ASSUME TypeOK, TypeOK', Remembered, NEW a \in Actors, NEW bad, End(a, bad) \/ Done(a, bad),
           RowPast(base', rev'), rev <= rev', UNCHANGED <<root, saved>>
    PROVE  Remembered'
  BY StoredRemembered, OverRemembered

LEMMA ClassifyRemembered ==
    ASSUME TypeOK, TypeOK', Remembered, NEW a \in Actors, Classify(a)
    PROVE  Remembered'
<1>0. /\ op[a] \in Op /\ OpPast(op[a], rev) /\ op[a].info \in Info /\ base \in OrNone(Row)
      /\ RowPast(base, rev)
  BY DEF Classify, TypeOK, ActorsOK, DeviceOK, Op, OrNone, Remembered
<1>1. PICK u \in MaybeUnchanged(base) : Classify(a)!(u)
  BY DEF Classify
<1> DEFINE i == op[a].info
           h == LocalHash(base, disk, u)
           v == Verdict(base, i, disk, u)
           how == IF v = "fetch" THEN "get" ELSE "none"
           row == IF v = "record" THEN Converged(i, h, disk) ELSE None
           r == [op[a] EXCEPT !.base = Unsign(base), !.hash = h, !.raced = FALSE,
                     !.how = how, !.row = row]
<1>2. saved' = saved /\ root' = root /\ rev' = rev /\ Goto(a, v, r)
  BY <1>1 DEF local, server
<1>3. RowPast(base', rev)
  <2>1. base' = base \/ (base # None /\ base' = [base EXCEPT !.conf = FALSE])
    BY <1>1
  <2> QED
    BY <1>0, <2>1 DEF RowPast, Row, OrNone
<1>4. RowPast(row, rev)
  <2>1. Past(i.etag, rev)
    BY <1>0, NoneAssumption DEF OpPast, InfoPast
  <2>2. Past(IdOf(i), rev)
    BY <1>0, <2>1, IdPast
  <2>3. Converged(i, h, disk).rid = IdOf(i) /\ Fits(Converged(i, h, disk).size)
    BY SizeFits DEF Converged, TypeOK, DeviceOK
  <2>4. row = None \/ row = Converged(i, h, disk)
    OBVIOUS
  <2> HIDE DEF row, h, v
  <2> QED
    BY <2>2, <2>3, <2>4 DEF RowPast
<1>5. RowPast(Unsign(base), rev)
  BY <1>0, UnsignPast
<1>6. r.base = Unsign(base) /\ r.row = row /\ r.cur = op[a].cur /\ r.info = op[a].info
  <2> HIDE DEF h, how, row
  <2> QED
    BY <1>0 DEF Op
<1> HIDE DEF h, v, how, row, r
<1>7. OpPast(r, rev)
  BY <1>0, <1>4, <1>5, <1>6 DEF OpPast
<1>8. rev <= rev'
  BY <1>2 DEF TypeOK, ServerOK
<1> QED
  BY <1>2, <1>3, <1>7, <1>8, StepRemembered DEF Remembered

LEMMA TransferRemembered ==
    ASSUME TypeOK, TypeOK', Remembered, NEW a \in Actors, Transfer(a)
    PROVE  Remembered'
<1>0. /\ op[a] \in Op /\ OpPast(op[a], rev) /\ OpOK(pc[a], op[a])
      /\ base \in OrNone(Row) /\ RowPast(base, rev)
  BY DEF TypeOK, ActorsOK, DeviceOK, Remembered
<1>a. UNCHANGED server => rev' = rev /\ rev <= rev'
  BY VersionsGrow DEF server
<1>b. UNCHANGED local => saved' = saved
  BY DEF local
<1>c. UNCHANGED db => base' = base /\ root' = root
  BY DEF db
<1>d. UNCHANGED base /\ rev <= rev' => RowPast(base', rev')
  BY StoredRemembered
<1>1. CASE Classify(a)
  BY <1>1, ClassifyRemembered
<1>2. CASE Deferred(a)
  BY <1>2, <1>a, <1>b, <1>c, <1>d, EndRemembered DEF Deferred
<1>3. CASE ReadForUpload(a)
  <2>1. SameSource([op[a] EXCEPT !.data = disk], op[a])
    BY <1>0 DEF SameSource, Op
  <2>2. rev <= rev' /\ UNCHANGED <<base, root, saved>> /\ RowPast(base', rev')
    BY <1>3, <1>a, <1>b, <1>c, <1>d DEF ReadForUpload
  <2>3. CASE Done(a, FALSE)
    BY <2>2, <2>3, EndRemembered
  <2>4. CASE Goto(a, "send", [op[a] EXCEPT !.data = disk])
    BY <2>1, <2>2, <2>4, SameRemembered
  <2> QED
    BY <1>3, <2>3, <2>4 DEF ReadForUpload
<1>4. CASE Upload(a)
  <2> DEFINE row == [hash |-> op[a].hash, rid |-> op[a].hash, size |-> SizeOf(op[a].data),
                     sig |-> TRUE, conf |-> FALSE]
  <2>1. op[a].hash \in Body
    BY <1>0, <1>4 DEF Upload, OpOK, NeedsHash, Op, OrNone
  <2>2. RowPast(row, rev')
    <3>1. op[a].data \in OrNone(Body) /\ row.size = SizeOf(op[a].data) /\ row.rid = op[a].hash
      BY <1>0 DEF Op
    <3> QED
      BY <2>1, <3>1, BodyPast, SizeFits DEF RowPast
  <2>3. rev <= rev' /\ UNCHANGED <<base, root, saved>> /\ RowPast(base', rev')
    BY <1>4, <1>b, <1>c, <1>d, VersionsGrow DEF Upload
  <2>4. SameSource(op[a], op[a])
    BY DEF SameSource
  <2>5. Goto(a, "record", [op[a] EXCEPT !.row = row])
    BY <1>4 DEF Upload
  <2> HIDE DEF row
  <2> QED
    BY <1>0, <2>2, <2>3, <2>4, <2>5, RowRemembered
<1>5. CASE UploadRefused(a)
  <2>1. SameSource([op[a] EXCEPT !.data = None], op[a])
    BY <1>0 DEF SameSource, Op
  <2> QED
    BY <1>5, <1>a, <1>b, <1>c, <2>1, SameRemembered DEF UploadRefused
<1>6. CASE UploadFails(a)
  <2>1. rev <= rev'
    BY <1>6, <1>a, VersionsGrow DEF UploadFails
  <2> QED
    BY <1>6, <1>b, <1>c, <2>1, FailureRemembered DEF UploadFails
<1>7. CASE Record(a)
  <2>1. op[a].row \in Row /\ RowPast(op[a].row, rev)
    BY <1>0, <1>7 DEF Record, OpOK, Op, OrNone, OpPast
  <2>2. base' = [op[a].row EXCEPT !.sig = disk # None]
    BY <1>7 DEF Record
  <2>3. RowPast(base', rev)
    BY <2>1, <2>2, NoneAssumption DEF RowPast, Row
  <2>4. rev' = rev /\ rev <= rev' /\ UNCHANGED <<root, saved>>
    BY <1>7, <1>a, <1>b DEF Record
  <2> QED
    BY <1>7, <2>3, <2>4, EndRemembered DEF Record
<1>8. CASE DownloadSkipped(a)
  BY <1>8, <1>a, <1>b, <1>c, <1>d, EndRemembered DEF DownloadSkipped
<1>9. CASE Fetch(a)
  <2>1. SameSource([op[a] EXCEPT !.data = srv.body], op[a])
    BY <1>0 DEF SameSource, Op
  <2> QED
    BY <1>9, <1>a, <1>b, <1>c, <2>1, SameRemembered DEF Fetch
<1>10. CASE FetchGone(a)
  BY <1>10, <1>a, <1>b, <1>c, <1>d, EndRemembered DEF FetchGone
<1>11. CASE FetchFails(a)
  BY <1>11, <1>a, <1>b, <1>c, FailureRemembered DEF FetchFails
<1>12. CASE FetchAnomalous(a)
  <2>1. base' = base \/ (base # None /\ base' = [base EXCEPT !.conf = TRUE])
    BY <1>12 DEF FetchAnomalous
  <2>2. RowPast(base', rev)
    BY <1>0, <2>1 DEF RowPast, Row, OrNone
  <2>3. rev' = rev /\ rev <= rev' /\ UNCHANGED <<root, saved>>
    BY <1>12, <1>a, <1>b DEF FetchAnomalous
  <2> QED
    BY <1>12, <2>2, <2>3, EndRemembered DEF FetchAnomalous
<1>13. CASE WriteFetched(a)
  <2>1. op[a].info \in Info
    BY <1>0, <1>13 DEF WriteFetched, OpOK, NeedsInfo, Op, OrNone
  <2>2. RowPast(FetchedRow(a), rev)
    <3>1. Past(op[a].info.etag, rev) /\ Fits(FetchedRow(a).size)
      BY <1>0, <2>1, NoneAssumption DEF OpPast, InfoPast, FetchedRow
    <3>2. Past(IdOf(op[a].info), rev) /\ FetchedRow(a).rid = IdOf(op[a].info)
      BY <2>1, <3>1, IdPast DEF FetchedRow
    <3> QED
      BY <3>1, <3>2 DEF RowPast
  <2>3. RowPast(base', rev)
    BY <1>0, <1>13, UnsignPast DEF WriteFetched
  <2>4. RowPast(saved'.base, rev) /\ Past(saved'.root, rev)
    <3>1. saved' = saved \/ saved' = [saved EXCEPT !.base = Unsign(saved.base)]
      BY <1>13, <1>b DEF WriteFetched, WriteDisk
    <3>2. saved.base \in OrNone(Row) /\ saved \in [base: OrNone(Row), root: OrNone(Nat), skips: Nat]
      BY DEF TypeOK, DeviceOK
    <3>3. /\ [saved EXCEPT !.base = Unsign(saved.base)].base = Unsign(saved.base)
          /\ [saved EXCEPT !.base = Unsign(saved.base)].root = saved.root
      BY <3>2
    <3> QED
      BY <3>1, <3>2, <3>3, UnsignPast DEF Remembered
  <2>5. rev' = rev /\ rev <= rev' /\ root' = root
    BY <1>13, <1>a DEF WriteFetched
  <2>6. OpPast([op[a] EXCEPT !.row = FetchedRow(a)], rev)
    BY <1>0, <2>2, WithRow
  <2> QED
    BY <1>13, <2>3, <2>4, <2>5, <2>6, StepRemembered DEF WriteFetched, Remembered
<1> QED
  BY <1>1, <1>2, <1>3, <1>4, <1>5, <1>6, <1>7, <1>8, <1>9, <1>10, <1>11, <1>12, <1>13 DEF Transfer
-----------------------------------------------------------------------------
\* The rows the conflict path writes: the captured one, or one of the listed version.
LEMMA FlaggedPast ==
    ASSUME TypeOK, Remembered, NEW a \in Actors
    PROVE  RowPast(Flagged(a), rev)
<1>1. CASE op[a].base = None
  BY <1>1 DEF Flagged, Remembered
<1>2. CASE op[a].base # None
  <2>1. op[a].base \in Row /\ RowPast(op[a].base, rev)
    BY <1>2 DEF TypeOK, ActorsOK, Op, OrNone, Remembered, OpPast
  <2>2. Flagged(a).rid = op[a].base.rid /\ Flagged(a).size = op[a].base.size
    BY <1>2, <2>1 DEF Flagged, Row
  <2> QED
    BY <1>2, <2>1, <2>2 DEF RowPast
<1> QED
  BY <1>1, <1>2

LEMMA ListedRowPast ==
    ASSUME TypeOK, Remembered, NEW a \in Actors, op[a].info \in Info
    PROVE  /\ RowPast(NotPushed(a), rev)
           /\ \A h : RowPast(Converged(op[a].info, h, disk), rev)
<1>1. OpPast(op[a], rev) /\ op[a].info # None
  BY NoneAssumption DEF Remembered
<1>2. Past(op[a].info.etag, rev)
  BY <1>1 DEF OpPast, InfoPast
<1>3. Past(IdOf(op[a].info), rev)
  BY <1>2, IdPast
<1>4. /\ NotPushed(a).rid = IdOf(op[a].info) /\ NotPushed(a).size = SizeOf(disk)
      /\ \A h : /\ Converged(op[a].info, h, disk).rid = IdOf(op[a].info)
                /\ Converged(op[a].info, h, disk).size = SizeOf(disk)
  BY DEF NotPushed, Converged
<1>5. Fits(SizeOf(disk))
  BY SizeFits DEF TypeOK, DeviceOK
<1> QED
  BY <1>3, <1>4, <1>5 DEF RowPast

LEMMA RowForPast == \A b \in Body : \A n : RowPast(RowFor(b), n)
<1> SUFFICES ASSUME NEW b \in Body, NEW n PROVE RowPast(RowFor(b), n)
  OBVIOUS
<1>1. Fits(Size[b]) /\ Past(b, n)
  BY BodyPast DEF Fits, NoneTooLarge
<1> QED
  BY <1>1 DEF RowPast, RowFor

LEMMA ConflictRemembered ==
    ASSUME TypeOK, TypeOK', Remembered, NEW a \in Actors, Conflict(a)
    PROVE  Remembered'
<1>0. /\ op[a] \in Op /\ OpPast(op[a], rev) /\ OpOK(pc[a], op[a])
      /\ base \in OrNone(Row) /\ RowPast(base, rev) /\ SameSource(op[a], op[a])
  BY DEF TypeOK, ActorsOK, DeviceOK, Remembered, SameSource
<1>a. UNCHANGED server => rev' = rev /\ rev <= rev'
  BY VersionsGrow DEF server
<1>b. UNCHANGED local => saved' = saved
  BY DEF local
<1>c. UNCHANGED db => base' = base /\ root' = root
  BY DEF db
<1>d. UNCHANGED base /\ rev <= rev' => RowPast(base', rev')
  BY StoredRemembered
<1>e. pc[a] \in NeedsInfo => op[a].info \in Info
  BY <1>0 DEF OpOK, Op, OrNone
<1>f. pc[a] \in NeedsData => op[a].data \in Body
  BY <1>0 DEF OpOK, Op, OrNone
<1>g. \A d : SameSource([op[a] EXCEPT !.data = d], op[a])
  BY <1>0 DEF SameSource, Op
<1>1. CASE EnterConflict(a)
  <2>1. op[a].info \in Info /\ rev' = rev /\ rev <= rev' /\ UNCHANGED <<root, saved>>
    BY <1>1, <1>a, <1>b, <1>e DEF EnterConflict, NeedsInfo
  <2>2. CASE base' = Flagged(a) /\ End(a, FALSE)
    <3>1. RowPast(base', rev')
      BY <2>1, <2>2, FlaggedPast
    <3> QED
      BY <2>1, <2>2, <3>1, EndRemembered
  <2>3. CASE UNCHANGED base /\ Goto(a, "record", [op[a] EXCEPT !.row = Converged(op[a].info, disk, disk)])
    <3>1. RowPast(Converged(op[a].info, disk, disk), rev')
      BY <2>1, ListedRowPast
    <3>2. RowPast(base', rev')
      BY <1>d, <2>1, <2>3
    <3> QED
      BY <1>0, <2>1, <2>3, <3>1, <3>2, RowRemembered
  <2>4. CASE UNCHANGED base /\ Goto(a, "compare", op[a])
    BY <1>0, <2>1, <2>4, SameRemembered
  <2>5. CASE UNCHANGED base /\ Goto(a, "decide", op[a])
    BY <1>0, <2>1, <2>5, SameRemembered
  <2> QED
    BY <1>1, <2>2, <2>3, <2>4, <2>5 DEF EnterConflict, Go
<1>2. CASE Compare(a)
  <2>1. op[a].info \in Info /\ rev' = rev /\ rev <= rev' /\ UNCHANGED <<base, root, saved>>
    BY <1>2, <1>a, <1>b, <1>c, <1>e DEF Compare, NeedsInfo
  <2>2. RowPast(base', rev')
    BY <1>d, <2>1
  <2>3. CASE End(a, TRUE)
    BY <2>1, <2>2, <2>3, EndRemembered
  <2>4. CASE Goto(a, "record", [op[a] EXCEPT !.row = Converged(op[a].info, disk, disk)])
    <3>1. RowPast(Converged(op[a].info, disk, disk), rev')
      BY <2>1, ListedRowPast
    <3> QED
      BY <1>0, <2>1, <2>2, <2>4, <3>1, RowRemembered
  <2>5. CASE Goto(a, "decide", [op[a] EXCEPT !.data = srv.body])
    BY <1>g, <2>1, <2>5, SameRemembered
  <2> QED
    BY <1>2, <2>3, <2>4, <2>5 DEF Compare
<1>3. CASE CompareFails(a)
  BY <1>3, <1>a, <1>b, <1>c, FailureRemembered DEF CompareFails
<1>4. CASE Hold(a)
  <2>1. RowPast(base', rev') /\ rev <= rev' /\ UNCHANGED <<root, saved>>
    BY <1>4, <1>a, <1>b, FlaggedPast DEF Hold
  <2> QED
    BY <1>4, <2>1, EndRemembered DEF Hold
<1>5. CASE Tie(a)
  <2>1. /\ RowPast(base', rev') /\ Past(root', rev')
        /\ RowPast(saved'.base, rev') /\ Past(saved'.root, rev')
    BY <1>5, <1>a, <1>b, BodyAssumption DEF Tie, Remembered, Past
  <2> QED
    BY <1>5, <1>a, <2>1, OverRemembered DEF Tie
<1>6. CASE PreferLocal(a)
  BY <1>0, <1>6, <1>a, <1>b, <1>c, SameRemembered DEF PreferLocal, Go
<1>7. CASE PreferRemote(a)
  <2>1. SameSource([op[a] EXCEPT !.how = "remote"], op[a])
    BY <1>0 DEF SameSource, Op
  <2> QED
    BY <1>7, <1>a, <1>b, <1>c, <2>1, SameRemembered DEF PreferRemote
<1>8. CASE Merge(a)
  <2>1. rev <= rev' /\ UNCHANGED <<base, root, saved>> /\ RowPast(base', rev')
    BY <1>8, <1>a, <1>b, <1>c, <1>d DEF Merge
  <2>2. CASE End(a, TRUE)
    BY <2>1, <2>2, EndRemembered
  <2>3. ASSUME NEW k \in {"clean", "markers"}, NEW label, Goto(a, label, [op[a] EXCEPT !.how = k])
        PROVE  Remembered'
    <3>1. SameSource([op[a] EXCEPT !.how = k], op[a])
      BY <1>0 DEF SameSource, Op
    <3> QED
      BY <2>1, <2>3, <3>1, SameRemembered
  <2> QED
    BY <1>8, <2>2, <2>3 DEF Merge
<1>9. CASE ReadLocal(a)
  <2>1. rev <= rev' /\ UNCHANGED <<base, root, saved>> /\ RowPast(base', rev')
    BY <1>9, <1>a, <1>b, <1>c, <1>d DEF ReadLocal
  <2>2. CASE End(a, TRUE)
    BY <2>1, <2>2, EndRemembered
  <2>3. CASE End(a, FALSE)
    BY <2>1, <2>3, EndRemembered
  <2>4. CASE Goto(a, "sendLocal", [op[a] EXCEPT !.data = disk])
    BY <1>g, <2>1, <2>4, SameRemembered
  <2> QED
    BY <1>9, <2>2, <2>3, <2>4 DEF ReadLocal
<1>10. CASE SendLocal(a)
  <2>1. RowPast(RowFor(op[a].data), rev')
    BY <1>10, <1>f, RowForPast DEF SendLocal, NeedsData
  <2>2. rev <= rev' /\ UNCHANGED <<base, root, saved>> /\ RowPast(base', rev')
    BY <1>10, <1>b, <1>c, <1>d, VersionsGrow DEF SendLocal
  <2> QED
    BY <1>0, <1>10, <2>1, <2>2, RowRemembered DEF SendLocal
<1>11. CASE SendLocalFails(a)
  <2>1. rev <= rev'
    BY <1>11, <1>a, VersionsGrow DEF SendLocalFails
  <2> QED
    BY <1>11, <1>b, <1>c, <2>1, FailureRemembered DEF SendLocalFails
<1>12. CASE WriteMerged(a)
  <2>1. /\ RowPast(base', rev) /\ rev' = rev /\ rev <= rev' /\ root' = root
    BY <1>0, <1>12, <1>a, UnsignPast DEF WriteMerged
  <2>2. saved'.base = Unsign(saved.base) /\ saved'.root = saved.root /\ saved.base \in OrNone(Row)
    BY <1>12 DEF WriteMerged, WriteDisk, TypeOK, DeviceOK
  <2>3. RowPast(saved'.base, rev') /\ Past(saved'.root, rev') /\ Past(root', rev')
    BY <2>1, <2>2, UnsignPast DEF Remembered
  <2> QED
    BY <1>0, <1>12, <2>1, <2>3, StepRemembered DEF WriteMerged, Go
<1>13. CASE ReadMerged(a)
  <2>1. op[a].info \in Info /\ rev' = rev /\ rev <= rev' /\ UNCHANGED <<root, saved>>
    BY <1>13, <1>a, <1>b, <1>e DEF ReadMerged, NeedsInfo
  <2>2. CASE UNCHANGED base /\ End(a, TRUE)
    BY <1>d, <2>1, <2>2, EndRemembered
  <2>3. CASE base' = NotPushed(a) /\ End(a, MergeUnclean(a))
    <3>1. RowPast(base', rev')
      BY <2>1, <2>3, ListedRowPast
    <3> QED
      BY <2>1, <2>3, <3>1, EndRemembered
  <2>4. CASE UNCHANGED base /\ Goto(a, "sendMerged", [op[a] EXCEPT !.data = disk])
    BY <1>g, <2>1, <2>4, SameRemembered
  <2> QED
    BY <1>13, <2>2, <2>3, <2>4 DEF ReadMerged
<1>14. CASE SendMerged(a)
  <2> DEFINE row == [RowFor(op[a].data) EXCEPT !.size = SizeOf(disk), !.conf = MergeUnclean(a)]
             o == [op[a] EXCEPT !.bad = @ \/ MergeUnclean(a)]
             r == [op[a] EXCEPT !.row = row, !.bad = @ \/ MergeUnclean(a)]
  <2>1. op[a].data \in Body
    BY <1>14, <1>f DEF SendMerged, NeedsData
  <2>2. row.rid = op[a].data /\ row.size = SizeOf(disk)
    BY DEF RowFor
  <2>3. RowPast(row, rev')
    BY <2>1, <2>2, BodyPast, SizeFits DEF RowPast, TypeOK, DeviceOK
  <2>4. rev <= rev' /\ UNCHANGED <<base, root, saved>> /\ RowPast(base', rev')
    BY <1>14, <1>b, <1>c, <1>d, VersionsGrow DEF SendMerged
  <2>5. r.cur = op[a].cur /\ r.base = op[a].base /\ r.info = op[a].info /\ r.row = row
    <3> HIDE DEF row
    <3> QED
      BY <1>0 DEF Op
  <2>6. OpPast(op[a], rev')
    BY <1>0, <2>4, PastGrows
  <2>7. Goto(a, "record", r)
    BY <1>14 DEF SendMerged
  <2>8. Past(root', rev') /\ RowPast(saved'.base, rev') /\ Past(saved'.root, rev')
    BY <2>4, StoredRemembered
  <2> HIDE DEF r, row
  <2>9. OpPast(r, rev')
    BY <2>3, <2>5, <2>6 DEF OpPast
  <2> QED
    BY <2>4, <2>7, <2>8, <2>9, StepRemembered
<1>15. CASE SendMergedFails(a)
  <2>1. rev <= rev'
    BY <1>15, <1>a, VersionsGrow DEF SendMergedFails
  <2>2. RowPast(NotPushed(a), rev)
    BY <1>15, <1>e, ListedRowPast DEF SendMergedFails, NeedsInfo
  <2>3. RowPast(base', rev')
    BY <1>15, <2>1, <2>2, PastGrows DEF SendMergedFails
  <2> QED
    BY <1>15, <1>b, <2>1, <2>3, EndRemembered DEF SendMergedFails
<1> QED
  BY <1>1, <1>2, <1>3, <1>4, <1>5, <1>6, <1>7, <1>8, <1>9, <1>10, <1>11, <1>12, <1>13, <1>14, <1>15
     DEF Conflict

LEMMA DeletionRemembered ==
    ASSUME TypeOK, TypeOK', Remembered, NEW a \in Actors, Deletion(a)
    PROVE  Remembered'
<1>0. /\ op[a] \in Op /\ OpPast(op[a], rev) /\ \A n : RowPast(None, n)
  BY DEF TypeOK, ActorsOK, Remembered, RowPast
<1>a. UNCHANGED server => rev' = rev /\ rev <= rev'
  BY VersionsGrow DEF server
<1>b. UNCHANGED local => saved' = saved
  BY DEF local
<1>c. UNCHANGED db => base' = base /\ root' = root
  BY DEF db
<1>d. UNCHANGED base /\ rev <= rev' => RowPast(base', rev')
  BY StoredRemembered
<1>1. CASE ProveDeletion(a)
  <2> DEFINE r == [op[a] EXCEPT !.how = IF @ = "probed" THEN @ ELSE "get",
                                !.at = IF op[a].info.sum = None THEN rev ELSE @]
  <2>1. rev <= rev' /\ UNCHANGED <<base, root, saved>> /\ RowPast(base', rev')
    BY <1>1, <1>a, <1>b, <1>c, <1>d DEF ProveDeletion
  <2>2. PICK h \in ProofHashes(op[a].info) :
          IF h = None THEN End(a, FALSE)
          ELSE Goto(a, IF DeletionProven(a, h) THEN "delete" ELSE "fetch", r)
    BY <1>1 DEF ProveDeletion
  <2>3. SameSource(r, op[a])
    BY <1>0 DEF SameSource, Op
  <2> HIDE DEF r
  <2>4. CASE End(a, FALSE)
    BY <2>1, <2>4, EndRemembered
  <2>5. ASSUME NEW label, Goto(a, label, r) PROVE Remembered'
    BY <2>1, <2>3, <2>5, SameRemembered
  <2> QED
    BY <2>2, <2>4, <2>5
<1>2. CASE DeleteRemote(a)
  <2>1. rev <= rev' /\ RowPast(base', rev') /\ UNCHANGED <<root, saved>>
    BY <1>0, <1>2, <1>b, VersionsGrow DEF DeleteRemote, Drop
  <2> QED
    BY <1>2, <2>1, EndRemembered DEF DeleteRemote, Drop
<1>3. CASE DeleteFails(a)
  <2>1. rev <= rev'
    BY <1>3, <1>a, VersionsGrow DEF DeleteFails
  <2> QED
    BY <1>3, <1>b, <1>c, <2>1, FailureRemembered DEF DeleteFails
<1>4. CASE ProbeMissing(a)
  <2>1. rev' = rev /\ rev <= rev' /\ UNCHANGED <<root, saved>>
    BY <1>4, <1>a, <1>b DEF ProbeMissing
  <2>2. CASE Drop(a)
    BY <1>0, <2>1, <2>2, EndRemembered DEF Drop
  <2>3. CASE /\ UNCHANGED base /\ srv.body # None
             /\ Goto(a, "proof", [op[a] EXCEPT !.info = Listed, !.at = rev, !.how = "probed"])
    <3>1. OpPast([op[a] EXCEPT !.info = Listed, !.at = rev, !.how = "probed"], rev)
      BY <1>0, ListedPast, WithInfo DEF TypeOK
    <3> QED
      BY <2>1, <2>3, <3>1, StepRemembered DEF Remembered
  <2> QED
    BY <1>4, <2>2, <2>3 DEF ProbeMissing
<1>5. CASE ProbeMissingFails(a)
  <2>1. rev <= rev' /\ RowPast(base', rev') /\ UNCHANGED <<root, saved>>
    BY <1>5, <1>a, <1>b, <1>c, <1>d DEF ProbeMissingFails
  <2> QED
    BY <1>5, <2>1, EndRemembered DEF ProbeMissingFails
<1> QED
  BY <1>1, <1>2, <1>3, <1>4, <1>5 DEF Deletion
-----------------------------------------------------------------------------
LEMMA InitRemembered == Init => Remembered
<1> SUFFICES ASSUME Init PROVE Remembered
  OBVIOUS
<1>1. \A a \in Actors : OpPast(op[a], rev)
  BY NoOpPast DEF Init
<1>2. RowPast(base, rev) /\ Past(root, rev)
  <2>1. CASE Unseen
    BY <2>1, BodyAssumption DEF Unseen, RowPast, Past
  <2>2. CASE Synced
    BY <2>2, RowForPast DEF Init, Synced, Past
  <2> QED
    BY <2>1, <2>2 DEF Init
<1>3. saved.base = base /\ saved.root = root
  BY DEF Init
<1> QED
  BY <1>1, <1>2, <1>3 DEF Remembered

LEMMA NextRemembered == TypeOK /\ TypeOK' /\ Remembered /\ [Next]_vars => Remembered'
<1> SUFFICES ASSUME TypeOK, TypeOK', Remembered, [Next]_vars PROVE Remembered'
  OBVIOUS
<1>1. CASE Environment
  BY <1>1, EnvironmentRemembered
<1>2. CASE Session
  BY <1>2, SessionRemembered
<1>3. CASE Watch
  BY <1>3, WatchRemembered
<1>4. CASE \E a \in Actors : Transfer(a) \/ Conflict(a) \/ Deletion(a)
  BY <1>4, TransferRemembered, ConflictRemembered, DeletionRemembered
<1>5. CASE UNCHANGED vars
  BY <1>5 DEF vars, Remembered
<1> QED
  BY <1>1, <1>2, <1>3, <1>4, <1>5 DEF Next, Environment
-----------------------------------------------------------------------------
(***************************************************************************)
(* What an upload or a DELETE knows of the version it destroys.            *)
(***************************************************************************)
\* The id a listing would show of the version s, number n, of the file.
IdAt(s, n) == IF s.sum THEN s.body ELSE n

\* What an actor was told of the server is so, unless the server moved on since.
Told(o, s, n) ==
    /\ o.info # None /\ o.info.etag # None => o.info.etag <= o.at
    /\ o.at = n => s.body = None \/ (o.info # None /\ IdOf(o.info) = IdAt(s, n))

\* An upload knows the row its edit was based on.
Based(o) == o.info # None => o.base # None /\ o.base.rid = IdOf(o.info)

\* The file to be deleted is the one last synced, unless the server moved on since.
Proven(o, s, n) == o.at = n => s.body = None \/ s.body = o.base.hash

ToldLabels == {"classify", "read", "send", "proof"}
Grounded(label, o, s, n) ==
    /\ o.at <= n
    /\ label \in ToldLabels => Told(o, s, n)
    /\ label \in {"read", "send"} => Based(o)
    /\ label = "delete" => Proven(o, s, n)

\* The short circuit, about to be taken, would rebuild the true listing.
ShortCircuitIsTrue == pc["scan"] = "probe" /\ root = rev /\ srv.body # None => RowMatchesServer

\* The inductive invariant.
Informed == ShortCircuitIsTrue /\ \A a \in Actors : Grounded(pc[a], op[a], srv, rev)
-----------------------------------------------------------------------------
LEMMA ListedId == ServerOK /\ srv.body # None => Listed \in Info /\ IdOf(Listed) = IdAt(srv, rev)
  BY BodyAssumption, SizeAssumption DEF ServerOK, Listed, Info, IdOf, IdAt, OrNone

\* What was just listed is so.
LEMMA ListedTold ==
    ASSUME ServerOK, NEW o, o.info = Listed, o.at = rev
    PROVE  Told(o, srv, rev)
<1>1. Listed # None => Listed.etag = rev /\ srv.body # None
  BY DEF Listed
<1>2. srv.body # None => Listed # None /\ IdOf(Listed) = IdAt(srv, rev)
  BY ListedId, NoneAssumption
<1>3. rev \in Nat
  BY DEF ServerOK
<1> QED
  BY <1>1, <1>2, <1>3 DEF Told

\* A server that moved on since the listing makes nothing of it false.
LEMMA MovedOn ==
    ASSUME NEW label, NEW o \in Op, NEW s, NEW n \in Nat, NEW t, NEW m \in Nat,
           Grounded(label, o, s, n), n < m \/ (n = m /\ s = t)
    PROVE  Grounded(label, o, t, m)
<1>1. CASE n = m /\ s = t
  BY <1>1
<1>2. CASE n < m
  <2>1. o.at \in Nat /\ o.at <= n
    BY DEF Op, Grounded
  <2>2. o.at <= m /\ o.at # m
    BY <1>2, <2>1
  <2> QED
    BY <2>2 DEF Grounded, Told, Based, Proven
<1> QED
  BY <1>1, <1>2

\* The step of an actor in the middle of an operation: the other one is idle.
LEMMA StepInformed ==
    ASSUME TypeOK, TypeOK', Truthful, Informed, NEW a \in Actors, NEW label, NEW r,
           pc[a] # "idle", Goto(a, label, r), label # "probe", rev <= rev',
           Grounded(label, r, srv', rev')
    PROVE  Informed'
<1>1. pc'[a] = label /\ op'[a] = r
  BY DEF Goto, TypeOK, ActorsOK
<1>2. \A c \in Actors \ {a} : pc[c] = "idle" /\ pc'[c] = "idle" /\ op'[c] = op[c]
  BY DEF Truthful, Alone, Actors, Goto, TypeOK, ActorsOK
<1>3. pc'["scan"] # "probe"
  BY <1>1, <1>2 DEF Actors
<1>4. ASSUME NEW c \in Actors \ {a} PROVE Grounded(pc'[c], op'[c], srv', rev')
  <2>1. op[c].at \in Nat /\ op[c].at <= rev /\ rev \in Nat /\ rev' \in Nat
    BY DEF Informed, Grounded, TypeOK, ServerOK, ActorsOK, Op
  <2>2. op[c].at <= rev'
    BY <2>1
  <2> QED
    BY <1>2, <2>2 DEF Grounded, ToldLabels
<1>5. ShortCircuitIsTrue'
  BY <1>3 DEF ShortCircuitIsTrue
<1>6. \A c \in Actors : Grounded(pc'[c], op'[c], srv', rev')
  BY <1>1, <1>4
<1> QED
  BY <1>5, <1>6 DEF Informed

\* Most steps lead to a label at which nothing is claimed of the server.
LEMMA LooseInformed ==
    ASSUME TypeOK, TypeOK', Truthful, Informed, NEW a \in Actors, NEW label, NEW r,
           pc[a] # "idle", Goto(a, label, r), rev <= rev',
           label \notin ToldLabels \cup {"delete", "probe"}, r.at = op[a].at \/ r.at = 0
    PROVE  Informed'
<1>1. op[a].at \in Nat /\ op[a].at <= rev /\ rev \in Nat /\ rev' \in Nat
  BY DEF Informed, Grounded, TypeOK, ServerOK, ActorsOK, Op
<1>2. r.at <= rev'
  BY <1>1
<1>3. Grounded(label, r, srv', rev')
  BY <1>2 DEF Grounded, ToldLabels
<1> QED
  BY <1>3, StepInformed

\* A row about to be recorded.
LEMMA RecordInformed ==
    ASSUME TypeOK, TypeOK', Truthful, Informed, NEW a \in Actors, NEW row,
           pc[a] # "idle", Goto(a, "record", [op[a] EXCEPT !.row = row]), rev <= rev'
    PROVE  Informed'
<1> DEFINE r == [op[a] EXCEPT !.row = row]
<1>1. r.at = op[a].at /\ Goto(a, "record", r)
  BY DEF TypeOK, ActorsOK, Op
<1> HIDE DEF r
<1> QED
  BY <1>1, LooseInformed DEF ToldLabels

\* A step that leads to a label without reading anything of the server.
LEMMA KeptInformed ==
    ASSUME TypeOK, TypeOK', Truthful, Informed, NEW a \in Actors, NEW label,
           NEW r, pc[a] # "idle", Goto(a, label, r), UNCHANGED server,
           label \in {"read", "send", "proof"}, r.at = op[a].at, r.info = op[a].info,
           Told(op[a], srv, rev), label \in {"read", "send"} => Based(r)
    PROVE  Informed'
<1>1. srv' = srv /\ rev' = rev /\ rev <= rev' /\ op[a].at <= rev
  BY DEF server, TypeOK, ServerOK, Informed, Grounded
<1>2. Told(r, srv, rev)
  BY DEF Told
<1>3. Grounded(label, r, srv', rev')
  BY <1>1, <1>2 DEF Grounded
<1> QED
  BY <1>1, <1>3, StepInformed

LEMMA OverInformed ==
    ASSUME TypeOK, TypeOK', Truthful, Informed, NEW a \in Actors, NEW bad,
           pc[a] # "idle", End(a, bad) \/ Done(a, bad), rev <= rev'
    PROVE  Informed'
<1>1. CASE End(a, bad)
  <2>1. [NoOp EXCEPT !.bad = bad \/ op[a].bad].at = 0
    BY DEF NoOp
  <2> QED
    BY <1>1, <2>1, LooseInformed DEF End, ToldLabels
<1>2. CASE Goto(a, "recheck", [op[a] EXCEPT !.bad = @ \/ bad])
  <2>1. [op[a] EXCEPT !.bad = @ \/ bad].at = op[a].at
    BY DEF TypeOK, ActorsOK, Op
  <2> QED
    BY <1>2, <2>1, LooseInformed DEF ToldLabels
<1> QED
  BY <1>1, <1>2 DEF Done

LEMMA FailureInformed ==
    ASSUME TypeOK, TypeOK', Truthful, Informed, NEW a \in Actors, pc[a] # "idle",
           FailAndQueue(a), rev <= rev'
    PROVE  Informed'
  BY OverInformed DEF FailAndQueue
-----------------------------------------------------------------------------
LEMMA EnvironmentInformed ==
    ASSUME TypeOK, TypeOK', Truthful, Remembered, Informed, Environment
    PROVE  Informed'
<1>0. rev \in Nat /\ rev' \in Nat /\ \A a \in Actors : op[a] \in Op
  BY DEF TypeOK, ServerOK, ActorsOK
<1>1. CASE UserEdit
  <2>1. PICK b \in OrNone(Body) \ {disk}, filtered \in Filters : UserEdit!(b, filtered)
    BY <1>1 DEF UserEdit
  <2>2. srv' = srv /\ rev' = rev /\ root' = root /\ base' = Unsign(base)
    BY <2>1 DEF server
  <2>3. base # None => base' # None /\ base'.rid = base.rid
    BY <2>2, NoneAssumption DEF Unsign, TypeOK, DeviceOK, OrNone, Row
  <2>4. Listed' = Listed
    BY <2>2 DEF Listed
  <2>5. CASE op' = [a \in Actors |-> Raced(a)] /\ pc' = pc
    <3>1. \A a \in Actors : /\ op'[a].at = op[a].at /\ op'[a].info = op[a].info
                            /\ op'[a].base = op[a].base
      BY <1>0, <2>5 DEF Raced, Op
    <3>2. \A a \in Actors : Grounded(pc'[a], op'[a], srv', rev')
      BY <2>2, <2>5, <3>1 DEF Informed, Grounded, Told, Based, Proven
    <3>3. ShortCircuitIsTrue'
      BY <2>2, <2>3, <2>4, <2>5 DEF Informed, ShortCircuitIsTrue, RowMatchesServer
    <3> QED
      BY <3>2, <3>3 DEF Informed
  <2>6. CASE /\ DeletionStarts /\ pc' = [pc EXCEPT !["watch"] = "missing"]
             /\ op' = [op EXCEPT !["watch"] = StartDeletion]
    <3>1. /\ pc'["watch"] = "missing" /\ op'["watch"].at = 0
          /\ pc'["scan"] = "idle" /\ op'["scan"] = op["scan"]
      BY <2>6 DEF DeletionStarts, Running, StartDeletion, NoOp, TypeOK, ActorsOK, Actors
    <3>2. \A a \in Actors : op'[a].at <= rev'
      BY <1>0, <2>2, <3>1 DEF Informed, Grounded, Actors
    <3> QED
      BY <3>1, <3>2 DEF Informed, ShortCircuitIsTrue, Grounded, ToldLabels, Actors
  <2> QED
    BY <2>1, <2>5, <2>6
<1>2. CASE ForeignEdit
  <2>1. rev' = rev + 1 /\ UNCHANGED <<root, pc, op>>
    BY <1>2 DEF ForeignEdit, db
  <2>2. root \in OrNone(Nat) /\ (root \in Nat => root <= rev)
    BY DEF TypeOK, DeviceOK, Remembered, Past
  <2>3. root' # rev'
    BY <1>0, <2>1, <2>2, BodyAssumption DEF OrNone
  <2>4. \A a \in Actors : Grounded(pc'[a], op'[a], srv', rev')
    <3>1. rev < rev'
      BY <1>0, <2>1
    <3> QED
      BY <1>0, <2>1, <3>1, MovedOn DEF Informed
  <2> QED
    BY <2>3, <2>4 DEF Informed, ShortCircuitIsTrue
<1>3. CASE SaveTimer
  <2>1. UNCHANGED <<srv, rev, base, root, pc, op>>
    BY <1>3 DEF SaveTimer, server, db
  <2>2. \A a \in Actors : Grounded(pc'[a], op'[a], srv', rev')
    BY <2>1 DEF Informed
  <2>3. ShortCircuitIsTrue'
    BY <2>1 DEF Informed, ShortCircuitIsTrue, RowMatchesServer, Listed
  <2> QED
    BY <2>2, <2>3 DEF Informed
<1>4. CASE Crash
  <2>1. \A a \in Actors : pc'[a] = "idle" /\ op'[a].at = 0
    BY <1>4 DEF Crash, NoOp
  <2>2. \A a \in Actors : op'[a].at <= rev'
    BY <1>0, <2>1
  <2> QED
    BY <2>1, <2>2 DEF Informed, ShortCircuitIsTrue, Grounded, ToldLabels, Actors
<1> QED
  BY <1>1, <1>2, <1>3, <1>4 DEF Environment

\* The session is alone: the watch actor is idle while it runs.
LEMMA SessionInformed ==
    ASSUME TypeOK, TypeOK', Truthful, Remembered, Informed, Orderly, ArmedMeansConverged, Session
    PROVE  Informed'
<1>0. "scan" \in Actors /\ op["scan"] \in Op /\ rev \in Nat /\ op["scan"].at <= rev
  BY DEF Actors, TypeOK, ActorsOK, ServerOK, Informed, Grounded
<1>a. UNCHANGED server => srv' = srv /\ rev' = rev /\ rev <= rev'
  BY <1>0 DEF server
<1>n. NoOp.at = 0 /\ \A bad : [NoOp EXCEPT !.bad = bad].at = 0
  BY DEF NoOp
<1> USE DEF ToldLabels
<1>1. CASE StartSession
  <2>1. /\ pc["scan"] = "idle" /\ pc'["scan"] = "probe" /\ op'["scan"] = NoOp
        /\ pc'["watch"] = pc["watch"] /\ op'["watch"] = op["watch"]
        /\ UNCHANGED <<srv, rev, base, root>>
    BY <1>1 DEF StartSession, Goto, TypeOK, ActorsOK, Actors, server, db
  <2>2. Grounded("probe", NoOp, srv', rev')
    BY <1>0, <1>n, <2>1 DEF Grounded
  <2>3. \A a \in Actors : Grounded(pc'[a], op'[a], srv', rev')
    BY <2>1, <2>2 DEF Actors, Informed
  <2>4. ShortCircuitIsTrue'
    BY <2>1 DEF ShortCircuitIsTrue, ArmedMeansConverged, Running, RowMatchesServer, Listed
  <2> QED
    BY <2>3, <2>4 DEF Informed
<1>2. CASE ProbeRoot
  <2>1. PICK cur \in RootEtag : ProbeRoot!(cur)
    BY <1>2 DEF ProbeRoot
  <2>2. srv' = srv /\ rev' = rev /\ rev <= rev' /\ pc["scan"] = "probe"
    BY <1>a, <2>1
  <2> DEFINE r == [op["scan"] EXCEPT !.info = Rebuilt(base), !.at = cur, !.raced = FALSE]
  <2>3. CASE cur # None /\ cur = root /\ Goto("scan", "classify", r)
    <3>1. cur = rev /\ root = rev
      BY <2>3 DEF RootEtag
    <3>2. r.info = Rebuilt(base) /\ r.at = rev
      BY <1>0, <3>1 DEF Op
    <3>3. base \in OrNone(Row) /\ RowPast(base, rev)
      BY DEF TypeOK, DeviceOK, Remembered
    <3>4. base # None => Rebuilt(base) # None /\ IdOf(Rebuilt(base)) = base.rid
      <4>1. ASSUME base # None PROVE IdOf(Rebuilt(base)) = base.rid
        BY <3>3, <4>1, BodyAssumption DEF Rebuilt, IdOf, OrNone, Row, Id
      <4>2. ASSUME base # None PROVE Rebuilt(base) \in Info
        BY <3>3, <4>2, BodyAssumption DEF Rebuilt, Info, OrNone, Row, Id
      <4> QED
        BY <4>1, <4>2, NoneAssumption
    <3>5. Rebuilt(base) # None /\ Rebuilt(base).etag # None => Rebuilt(base).etag <= rev
      <4>1. ASSUME base # None, Rebuilt(base).etag # None PROVE Rebuilt(base).etag <= rev
        <5>1. Rebuilt(base).etag = base.rid /\ base.rid \in Nat
          BY <4>1 DEF Rebuilt
        <5>2. Past(base.rid, rev)
          BY <3>3, <4>1 DEF RowPast
        <5> QED
          BY <5>1, <5>2 DEF Past
      <4> QED
        BY <4>1 DEF Rebuilt
    <3>6. srv.body # None => base # None /\ base.rid = IdAt(srv, rev)
      <4>1. ASSUME srv.body # None PROVE base # None /\ base.rid = IdOf(Listed)
        BY <2>2, <3>1, <4>1 DEF Informed, ShortCircuitIsTrue, RowMatchesServer
      <4> QED
        BY <4>1, ListedId DEF TypeOK
    <3> HIDE DEF r
    <3>7. Told(r, srv, rev)
      BY <3>2, <3>4, <3>5, <3>6 DEF Told
    <3>8. Grounded("classify", r, srv', rev')
      BY <1>0, <2>2, <3>2, <3>7 DEF Grounded
    <3> QED
      BY <1>0, <2>2, <2>3, <3>8, StepInformed
  <2>4. CASE Goto("scan", "list", [op["scan"] EXCEPT !.cur = cur])
    <3>1. [op["scan"] EXCEPT !.cur = cur].at = op["scan"].at
      BY <1>0 DEF Op
    <3> QED
      BY <1>0, <2>2, <2>4, <3>1, LooseInformed
  <2> QED
    BY <2>1, <2>3, <2>4 DEF Listing
<1>3. CASE ListRemote
  <2> DEFINE r == [op["scan"] EXCEPT !.info = Listed, !.at = rev, !.raced = FALSE]
  <2>1. r.info = Listed /\ r.at = rev
    BY <1>0 DEF Op
  <2>2. srv' = srv /\ rev' = rev /\ rev <= rev' /\ pc["scan"] = "list" /\ Goto("scan", "classify", r)
    BY <1>3, <1>a DEF ListRemote, Listing
  <2> HIDE DEF r
  <2>3. Told(r, srv, rev)
    BY <2>1, ListedTold DEF TypeOK
  <2>4. Grounded("classify", r, srv', rev')
    BY <1>0, <2>1, <2>2, <2>3 DEF Grounded
  <2> QED
    BY <1>0, <2>2, <2>4, StepInformed
<1>4. CASE ListFails
  BY <1>0, <1>4, <1>a, <1>n, LooseInformed DEF ListFails
<1>5. CASE Gate
  BY <1>0, <1>5, <1>a, LooseInformed DEF Gate, Go
<1>6. CASE SessionThrows
  BY <1>0, <1>6, <1>a, LooseInformed DEF SessionThrows, Go
<1>7. CASE Finish
  <2>1. Goto("scan", "idle", NoOp) /\ rev <= rev' /\ pc["scan"] = "finish"
    BY <1>7, <1>a DEF Finish
  <2> QED
    BY <1>0, <1>n, <2>1, LooseInformed
<1>8. CASE Stopped
  BY <1>0, <1>8, <1>a, OverInformed DEF Stopped
<1>9. CASE ScanLocal
  <2>1. PICK unchanged \in MaybeUnchanged(base) : ScanLocal!(unchanged)
    BY <1>9 DEF ScanLocal
  <2>2. UNCHANGED server /\ rev <= rev' /\ pc["scan"] = "classify" /\ op["scan"].info = None
    BY <1>a, <2>1
  <2>3. CASE End("scan", FALSE)
    BY <1>0, <2>2, <2>3, OverInformed
  <2>4. CASE Goto("scan", "missing", [op["scan"] EXCEPT !.base = Unsign(base), !.how = "probed"])
    <3> DEFINE r == [op["scan"] EXCEPT !.base = Unsign(base), !.how = "probed"]
    <3>1. r.at = op["scan"].at /\ Goto("scan", "missing", r)
      BY <1>0, <2>4 DEF Op
    <3> HIDE DEF r
    <3> QED
      BY <1>0, <2>2, <3>1, LooseInformed
  <2>5. CASE Goto("scan", "read", [op["scan"] EXCEPT !.hash = disk, !.raced = FALSE])
    <3> DEFINE r == [op["scan"] EXCEPT !.hash = disk, !.raced = FALSE]
    <3>1. r.at = op["scan"].at /\ r.info = op["scan"].info
      BY <1>0 DEF Op
    <3> HIDE DEF r
    <3>2. Told(op["scan"], srv, rev) /\ Based(r)
      BY <1>0, <2>2, <3>1 DEF Informed, Grounded, Based
    <3> QED
      BY <1>0, <2>2, <2>5, <3>1, <3>2, KeptInformed DEF r
  <2>6. CASE Goto("scan", "recheck", op["scan"])
    BY <1>0, <2>2, <2>6, LooseInformed
  <2> QED
    BY <2>1, <2>3, <2>4, <2>5, <2>6 DEF Go
<1>10. CASE Candidate
  <2>1. rev <= rev' /\ pc["scan"] = "recheck"
    BY <1>10, <1>a DEF Candidate
  <2>2. \/ Goto("scan", "finish", [NoOp EXCEPT !.bad = TRUE])
        \/ Goto("scan", "ask", [op["scan"] EXCEPT !.raced = FALSE])
        \/ End("scan", FALSE)
    BY <1>10 DEF Candidate
  <2>3. [op["scan"] EXCEPT !.raced = FALSE].at = op["scan"].at
    BY <1>0 DEF Op
  <2>4. CASE Goto("scan", "finish", [NoOp EXCEPT !.bad = TRUE])
    BY <1>0, <1>n, <2>1, <2>4, LooseInformed
  <2>5. CASE Goto("scan", "ask", [op["scan"] EXCEPT !.raced = FALSE])
    BY <1>0, <2>1, <2>3, <2>5, LooseInformed
  <2>6. CASE End("scan", FALSE)
    BY <1>0, <2>1, <2>6, OverInformed
  <2> QED
    BY <2>2, <2>4, <2>5, <2>6
<1>11. CASE AskServer
  <2>1. rev <= rev' /\ pc["scan"] = "ask" /\ (Goto("scan", "trash", op["scan"]) \/ End("scan", FALSE))
    BY <1>11, <1>a DEF AskServer, Go
  <2> QED
    BY <1>0, <2>1, LooseInformed, OverInformed
<1>12. CASE TrashLocal
  BY <1>0, <1>12, <1>a, OverInformed DEF TrashLocal, Drop
<1>13. CASE TrashFails
  BY <1>0, <1>13, <1>a, OverInformed DEF TrashFails
<1> QED
  BY <1>1, <1>2, <1>3, <1>4, <1>5, <1>6, <1>7, <1>8, <1>9, <1>10, <1>11, <1>12, <1>13 DEF Session

LEMMA WatchInformed ==
    ASSUME TypeOK, TypeOK', Truthful, Informed, Watch
    PROVE  Informed'
<1>0. /\ "watch" \in Actors /\ op["watch"] \in Op /\ rev \in Nat
      /\ srv' = srv /\ rev' = rev /\ rev <= rev' /\ UNCHANGED <<base, root>>
  BY DEF Watch, WatchModify, WatchStat, WatchStatFails, WatchEnd, server, db,
         Actors, TypeOK, ActorsOK, ServerOK
<1> USE DEF ToldLabels
<1>1. CASE WatchModify
  <2>1. CASE WatchDrop
    <3>1. ShortCircuitIsTrue'
      BY <1>0, <2>1 DEF WatchDrop, Informed, ShortCircuitIsTrue, RowMatchesServer, Listed
    <3>2. \A a \in Actors : Grounded(pc'[a], op'[a], srv', rev')
      BY <1>0, <2>1 DEF WatchDrop, Informed
    <3> QED
      BY <3>1, <3>2 DEF Informed
  <2>2. CASE ~Running /\ Goto("watch", "stat", [NoOp EXCEPT !.hash = disk])
    <3>1. /\ pc'["watch"] = "stat" /\ op'["watch"].at = 0
          /\ pc'["scan"] = "idle" /\ op'["scan"] = op["scan"]
      BY <2>2 DEF Goto, Running, NoOp, TypeOK, ActorsOK, Actors
    <3>2. \A a \in Actors : op'[a].at <= rev'
      BY <1>0, <3>1 DEF Informed, Grounded, Actors
    <3> QED
      BY <3>1, <3>2 DEF Informed, ShortCircuitIsTrue, Grounded, Actors
  <2> QED
    BY <1>1, <2>1, <2>2 DEF WatchModify
<1>2. CASE WatchStat
  <2> DEFINE r == [op["watch"] EXCEPT !.info = Listed, !.at = rev, !.raced = FALSE]
             label == IF Listed = None THEN "read" ELSE "classify"
  <2>1. r.info = Listed /\ r.at = rev
    BY <1>0 DEF Op
  <2>2. pc["watch"] = "stat" /\ Goto("watch", label, r)
    BY <1>2 DEF WatchStat
  <2>3. label = "read" => r.info = None
    BY <2>1
  <2>4. label \in {"read", "classify"}
    OBVIOUS
  <2> HIDE DEF r, label
  <2>5. Told(r, srv, rev)
    BY <2>1, ListedTold DEF TypeOK
  <2>6. Grounded(label, r, srv', rev')
    BY <1>0, <2>1, <2>3, <2>4, <2>5 DEF Grounded, Based
  <2> QED
    BY <1>0, <2>2, <2>4, <2>6, StepInformed
<1>3. CASE WatchStatFails
  BY <1>0, <1>3, FailureInformed DEF WatchStatFails
<1>4. CASE WatchEnd
  <2>1. StartDeletion.at = 0 /\ NoOp.at = 0
    BY DEF StartDeletion, NoOp
  <2>2. pc["watch"] = "end" /\ (Goto("watch", "missing", StartDeletion) \/ Goto("watch", "idle", NoOp))
    BY <1>4 DEF WatchEnd
  <2> QED
    BY <1>0, <2>1, <2>2, LooseInformed
<1> QED
  BY <1>1, <1>2, <1>3, <1>4 DEF Watch
-----------------------------------------------------------------------------
LEMMA ClassifyInformed ==
    ASSUME TypeOK, TypeOK', Truthful, Informed, NEW a \in Actors, Classify(a)
    PROVE  Informed'
<1>0. /\ op[a] \in Op /\ op[a].info \in Info /\ pc[a] = "classify" /\ base \in OrNone(Row)
      /\ Told(op[a], srv, rev)
  BY DEF Classify, TypeOK, ActorsOK, DeviceOK, Op, OrNone, Informed, Grounded, ToldLabels
<1>1. PICK u \in MaybeUnchanged(base) : Classify(a)!(u)
  BY DEF Classify
<1> DEFINE i == op[a].info
           h == LocalHash(base, disk, u)
           v == Verdict(base, i, disk, u)
           how == IF v = "fetch" THEN "get" ELSE "none"
           row == IF v = "record" THEN Converged(i, h, disk) ELSE None
           r == [op[a] EXCEPT !.base = Unsign(base), !.hash = h, !.raced = FALSE,
                     !.how = how, !.row = row]
<1>2. UNCHANGED server /\ rev <= rev' /\ Goto(a, v, r)
  BY <1>1, VersionsGrow DEF server
<1>3. v \in {"proof", "record", "conflict", "read", "fetch", "end"}
  BY <1>0, VerdictTyped
<1>4. r.base = Unsign(base) /\ r.info = op[a].info /\ r.at = op[a].at
  <2> HIDE DEF h, v, how, row
  <2> QED
    BY <1>0 DEF Op
<1>5. v = "read" => base # None /\ base.rid = IdOf(i)
  BY DEF Verdict, RemoteChanged
<1>6. base # None => Unsign(base) # None /\ Unsign(base).rid = base.rid
  BY <1>0, NoneAssumption DEF Unsign, OrNone, Row
<1> HIDE DEF h, v, how, row, r
<1>7. v = "read" => Based(r)
  BY <1>4, <1>5, <1>6 DEF Based
<1>8. CASE v \in {"proof", "read"}
  BY <1>0, <1>2, <1>4, <1>7, <1>8, KeptInformed
<1>9. CASE v \in {"record", "conflict", "fetch", "end"}
  BY <1>0, <1>2, <1>4, <1>9, LooseInformed DEF ToldLabels
<1> QED
  BY <1>3, <1>8, <1>9

LEMMA TransferInformed ==
    ASSUME TypeOK, TypeOK', Truthful, Informed, NEW a \in Actors, Transfer(a)
    PROVE  Informed'
<1>0. op[a] \in Op /\ \A d : [op[a] EXCEPT !.data = d].at = op[a].at
  BY DEF TypeOK, ActorsOK, Op
<1>a. UNCHANGED server => rev <= rev'
  BY VersionsGrow
<1> USE DEF ToldLabels
<1>1. CASE Classify(a)
  BY <1>1, ClassifyInformed
<1>2. CASE Deferred(a)
  BY <1>2, <1>a, OverInformed DEF Deferred
<1>3. CASE ReadForUpload(a)
  <2>1. UNCHANGED server /\ rev <= rev' /\ pc[a] = "read"
    BY <1>3, <1>a DEF ReadForUpload
  <2>2. CASE Goto(a, "send", [op[a] EXCEPT !.data = disk])
    <3> DEFINE r == [op[a] EXCEPT !.data = disk]
    <3>1. r.at = op[a].at /\ r.info = op[a].info /\ r.base = op[a].base
      BY <1>0 DEF Op
    <3> HIDE DEF r
    <3>2. Told(op[a], srv, rev) /\ Based(r)
      BY <2>1, <3>1 DEF Informed, Grounded, Based
    <3> QED
      BY <2>1, <2>2, <3>1, <3>2, KeptInformed DEF r
  <2> QED
    BY <1>3, <2>1, <2>2, OverInformed DEF ReadForUpload
<1>4. CASE Upload(a)
  <2>1. rev <= rev' /\ pc[a] = "send"
    BY <1>4, VersionsGrow DEF Upload
  <2> QED
    BY <1>4, <2>1, RecordInformed DEF Upload
<1>5. CASE UploadRefused(a)
  BY <1>0, <1>5, <1>a, LooseInformed DEF UploadRefused
<1>6. CASE UploadFails(a)
  <2>1. rev <= rev'
    BY <1>6, <1>a, VersionsGrow DEF UploadFails
  <2> QED
    BY <1>6, <2>1, FailureInformed DEF UploadFails
<1>7. CASE Record(a)
  BY <1>7, <1>a, OverInformed DEF Record
<1>8. CASE DownloadSkipped(a)
  BY <1>8, <1>a, OverInformed DEF DownloadSkipped
<1>9. CASE Fetch(a)
  BY <1>0, <1>9, <1>a, LooseInformed DEF Fetch, MayFetch
<1>10. CASE FetchGone(a)
  BY <1>10, <1>a, OverInformed DEF FetchGone, MayFetch
<1>11. CASE FetchFails(a)
  BY <1>11, <1>a, FailureInformed DEF FetchFails, MayFetch
<1>12. CASE FetchAnomalous(a)
  BY <1>12, <1>a, OverInformed DEF FetchAnomalous, MayFetch
<1>13. CASE WriteFetched(a)
  BY <1>13, <1>a, RecordInformed DEF WriteFetched
<1> QED
  BY <1>1, <1>2, <1>3, <1>4, <1>5, <1>6, <1>7, <1>8, <1>9, <1>10, <1>11, <1>12, <1>13 DEF Transfer

\* Nothing is claimed of the server on the conflict path: its requests are unconditional.
LEMMA ConflictInformed ==
    ASSUME TypeOK, TypeOK', Truthful, Informed, NEW a \in Actors, Conflict(a)
    PROVE  Informed'
<1>0. op[a] \in Op /\ \A d : [op[a] EXCEPT !.data = d].at = op[a].at
  BY DEF TypeOK, ActorsOK, Op
<1>a. UNCHANGED server => rev <= rev'
  BY VersionsGrow
<1>h. \A how : [op[a] EXCEPT !.how = how].at = op[a].at
  BY <1>0 DEF Op
<1> USE DEF ToldLabels
<1>1. CASE EnterConflict(a)
  <2>1. rev <= rev' /\ pc[a] = "conflict"
    BY <1>1, <1>a DEF EnterConflict
  <2>2. \/ End(a, FALSE)
        \/ Goto(a, "record", [op[a] EXCEPT !.row = Converged(op[a].info, disk, disk)])
        \/ Goto(a, "compare", op[a]) \/ Goto(a, "decide", op[a])
    BY <1>1 DEF EnterConflict, Go
  <2> QED
    BY <2>1, <2>2, LooseInformed, RecordInformed, OverInformed
<1>2. CASE Compare(a)
  <2>1. rev <= rev' /\ pc[a] = "compare"
    BY <1>2, <1>a DEF Compare
  <2>2. \/ End(a, TRUE)
        \/ Goto(a, "record", [op[a] EXCEPT !.row = Converged(op[a].info, disk, disk)])
        \/ Goto(a, "decide", [op[a] EXCEPT !.data = srv.body])
    BY <1>2 DEF Compare
  <2> QED
    BY <1>0, <2>1, <2>2, LooseInformed, RecordInformed, OverInformed
<1>3. CASE CompareFails(a)
  BY <1>3, <1>a, FailureInformed DEF CompareFails
<1>4. CASE Hold(a)
  BY <1>4, <1>a, OverInformed DEF Hold
<1>5. CASE Tie(a)
  BY <1>5, <1>a, OverInformed DEF Tie
<1>6. CASE PreferLocal(a)
  BY <1>6, <1>a, LooseInformed DEF PreferLocal, Go
<1>7. CASE PreferRemote(a)
  BY <1>7, <1>a, <1>h, LooseInformed DEF PreferRemote
<1>8. CASE Merge(a)
  <2>1. rev <= rev' /\ pc[a] = "decide"
    BY <1>8, <1>a DEF Merge
  <2>2. \/ End(a, TRUE)
        \/ \E k : Goto(a, "fetch", [op[a] EXCEPT !.how = k])
        \/ \E k : Goto(a, "merge", [op[a] EXCEPT !.how = k])
    BY <1>8 DEF Merge
  <2> QED
    BY <1>h, <2>1, <2>2, LooseInformed, OverInformed
<1>9. CASE ReadLocal(a)
  <2>1. rev <= rev' /\ pc[a] = "readLocal"
    BY <1>9, <1>a DEF ReadLocal
  <2>2. \/ End(a, TRUE) \/ End(a, FALSE)
        \/ Goto(a, "sendLocal", [op[a] EXCEPT !.data = disk])
    BY <1>9 DEF ReadLocal
  <2> QED
    BY <1>0, <2>1, <2>2, LooseInformed, OverInformed
<1>10. CASE SendLocal(a)
  <2>1. rev <= rev' /\ pc[a] = "sendLocal"
    BY <1>10, VersionsGrow DEF SendLocal
  <2> QED
    BY <1>10, <2>1, RecordInformed DEF SendLocal
<1>11. CASE SendLocalFails(a)
  <2>1. rev <= rev'
    BY <1>11, <1>a, VersionsGrow DEF SendLocalFails
  <2> QED
    BY <1>11, <2>1, FailureInformed DEF SendLocalFails
<1>12. CASE WriteMerged(a)
  BY <1>12, <1>a, LooseInformed DEF WriteMerged, Go
<1>13. CASE ReadMerged(a)
  <2>1. rev <= rev' /\ pc[a] = "readMerged"
    BY <1>13, <1>a DEF ReadMerged
  <2>2. \/ End(a, TRUE) \/ End(a, MergeUnclean(a))
        \/ Goto(a, "sendMerged", [op[a] EXCEPT !.data = disk])
    BY <1>13 DEF ReadMerged
  <2> QED
    BY <1>0, <2>1, <2>2, LooseInformed, OverInformed
<1>14. CASE SendMerged(a)
  <2> DEFINE row == [RowFor(op[a].data) EXCEPT !.size = SizeOf(disk), !.conf = MergeUnclean(a)]
             r == [op[a] EXCEPT !.row = row, !.bad = @ \/ MergeUnclean(a)]
  <2>1. r.at = op[a].at
    <3> HIDE DEF row
    <3> QED
      BY <1>0 DEF Op
  <2>2. rev <= rev' /\ pc[a] = "sendMerged" /\ Goto(a, "record", r)
    BY <1>14, VersionsGrow DEF SendMerged
  <2> HIDE DEF r
  <2> QED
    BY <2>1, <2>2, LooseInformed
<1>15. CASE SendMergedFails(a)
  <2>1. rev <= rev'
    BY <1>15, <1>a, VersionsGrow DEF SendMergedFails
  <2> QED
    BY <1>15, <2>1, OverInformed DEF SendMergedFails
<1> QED
  BY <1>1, <1>2, <1>3, <1>4, <1>5, <1>6, <1>7, <1>8, <1>9, <1>10, <1>11, <1>12, <1>13, <1>14, <1>15
     DEF Conflict

LEMMA DeletionInformed ==
    ASSUME TypeOK, TypeOK', Truthful, Informed, NEW a \in Actors, Deletion(a)
    PROVE  Informed'
<1>0. op[a] \in Op /\ rev \in Nat /\ srv.body \in OrNone(Body) /\ op[a].at <= rev
  BY DEF TypeOK, ActorsOK, ServerOK, Informed, Grounded
<1>a. UNCHANGED server => srv' = srv /\ rev' = rev /\ rev <= rev'
  BY <1>0 DEF server
<1> USE DEF ToldLabels
<1>1. CASE ProveDeletion(a)
  <2> DEFINE r == [op[a] EXCEPT !.how = IF @ = "probed" THEN @ ELSE "get",
                                !.at = IF op[a].info.sum = None THEN rev ELSE @]
  <2>1. srv' = srv /\ rev' = rev /\ rev <= rev' /\ pc[a] = "proof"
    BY <1>1, <1>a DEF ProveDeletion
  <2>2. PICK h \in ProofHashes(op[a].info) :
          IF h = None THEN End(a, FALSE)
          ELSE Goto(a, IF DeletionProven(a, h) THEN "delete" ELSE "fetch", r)
    BY <1>1 DEF ProveDeletion
  <2>3. /\ op[a].info \in Info /\ Told(op[a], srv, rev)
    BY <2>1 DEF Informed, Grounded, TypeOK, ActorsOK, OpOK, NeedsInfo, Op, OrNone
  <2>4. /\ r.at = (IF op[a].info.sum = None THEN rev ELSE op[a].at)
        /\ r.base = op[a].base
    BY <1>0 DEF Op
  <2>5. r.at <= rev'
    BY <1>0, <2>1, <2>4
  <2> HIDE DEF r
  <2>6. CASE h = None
    BY <2>1, <2>2, <2>6, OverInformed
  <2>7. CASE h # None /\ ~DeletionProven(a, h)
    <3>1. Goto(a, "fetch", r) /\ Grounded("fetch", r, srv', rev')
      BY <2>2, <2>5, <2>7 DEF Grounded
    <3> QED
      BY <2>1, <3>1, StepInformed
  <2>8. CASE h # None /\ DeletionProven(a, h)
    <3>1. h = op[a].base.hash
      BY <2>8 DEF DeletionProven
    <3>2. ASSUME op[a].info.sum = None PROVE Proven(r, srv', rev')
      <4>1. h = srv.body
        BY <2>2, <2>8, <3>2 DEF ProofHashes
      <4> QED
        BY <2>1, <2>4, <3>1, <4>1 DEF Proven
    <3>3. ASSUME op[a].info.sum # None PROVE Proven(r, srv', rev')
      <4>1. h = op[a].info.sum /\ h \in Body /\ IdOf(op[a].info) = h
        BY <2>2, <2>3, <3>3 DEF ProofHashes, IdOf, Info, OrNone
      <4>2. op[a].at = rev => srv.body = None \/ h = IdAt(srv, rev)
        BY <2>3, <4>1 DEF Told
      <4>3. h = IdAt(srv, rev) => h = srv.body
        BY <1>0, <4>1, BodyAssumption DEF IdAt
      <4> QED
        BY <2>1, <2>4, <3>1, <3>3, <4>2, <4>3 DEF Proven
    <3>4. Proven(r, srv', rev') => Grounded("delete", r, srv', rev')
      BY <2>5 DEF Grounded
    <3>5. Goto(a, "delete", r)
      BY <2>2, <2>8
    <3>6. Proven(r, srv', rev')
      BY <3>2, <3>3
    <3> QED
      BY <2>1, <3>4, <3>5, <3>6, StepInformed
  <2> QED
    BY <2>6, <2>7, <2>8
<1>2. CASE DeleteRemote(a)
  <2>1. rev <= rev'
    BY <1>2, VersionsGrow DEF DeleteRemote
  <2> QED
    BY <1>2, <2>1, OverInformed DEF DeleteRemote, Drop
<1>3. CASE DeleteFails(a)
  <2>1. rev <= rev'
    BY <1>3, <1>a, VersionsGrow DEF DeleteFails
  <2> QED
    BY <1>3, <2>1, FailureInformed DEF DeleteFails
<1>4. CASE ProbeMissing(a)
  <2>1. srv' = srv /\ rev' = rev /\ rev <= rev' /\ pc[a] = "missing"
    BY <1>4, <1>a DEF ProbeMissing
  <2>2. CASE Drop(a)
    BY <2>1, <2>2, OverInformed DEF Drop
  <2>3. CASE Goto(a, "proof", [op[a] EXCEPT !.info = Listed, !.at = rev, !.how = "probed"])
    <3> DEFINE r == [op[a] EXCEPT !.info = Listed, !.at = rev, !.how = "probed"]
    <3>1. r.info = Listed /\ r.at = rev /\ Goto(a, "proof", r)
      BY <1>0, <2>3 DEF Op
    <3> HIDE DEF r
    <3>2. Told(r, srv, rev)
      BY <3>1, ListedTold DEF TypeOK
    <3>3. Grounded("proof", r, srv', rev')
      BY <1>0, <2>1, <3>1, <3>2 DEF Grounded
    <3> QED
      BY <2>1, <3>1, <3>3, StepInformed
  <2> QED
    BY <1>4, <2>2, <2>3 DEF ProbeMissing
<1>5. CASE ProbeMissingFails(a)
  BY <1>5, <1>a, OverInformed DEF ProbeMissingFails
<1> QED
  BY <1>1, <1>2, <1>3, <1>4, <1>5 DEF Deletion
-----------------------------------------------------------------------------
LEMMA InitInformed == Init => Informed
<1> SUFFICES ASSUME Init PROVE Informed
  OBVIOUS
<1>1. \A a \in Actors : pc[a] = "idle" /\ op[a].at = 0 /\ rev = 0
  BY DEF Init, NoOp
<1> QED
  BY <1>1 DEF Informed, ShortCircuitIsTrue, Grounded, ToldLabels, Actors

LEMMA NextInformed ==
    Orderly /\ TypeOK /\ TypeOK' /\ Truthful /\ Remembered /\ ArmedMeansConverged
        /\ Informed /\ [Next]_vars => Informed'
<1> SUFFICES ASSUME Orderly, TypeOK, TypeOK', Truthful, Remembered, ArmedMeansConverged,
                    Informed, [Next]_vars
             PROVE  Informed'
  OBVIOUS
<1>1. CASE Environment
  BY <1>1, EnvironmentInformed
<1>2. CASE Session
  BY <1>2, SessionInformed
<1>3. CASE Watch
  BY <1>3, WatchInformed
<1>4. CASE \E a \in Actors : Transfer(a) \/ Conflict(a) \/ Deletion(a)
  BY <1>4, TransferInformed, ConflictInformed, DeletionInformed
<1>5. CASE UNCHANGED vars
  BY <1>5 DEF vars, Informed, ShortCircuitIsTrue, RowMatchesServer, Listed
<1> QED
  BY <1>1, <1>2, <1>3, <1>4, <1>5 DEF Next, Environment

\* What the actors know of the server is right as long as the gate is.
LEMMA GateInforms ==
    ASSUME Orderly
    PROVE  Spec /\ []ArmedMeansConverged => [](TypeOK /\ Truthful /\ Remembered /\ Informed)
<1>1. TypeOK /\ Truthful /\ [Next]_vars => Truthful'
  BY NextTruthful
<1>2. TypeOK /\ TypeOK' /\ Remembered /\ [Next]_vars => Remembered'
  BY NextRemembered
<1>3. TypeOK /\ TypeOK' /\ Truthful /\ Remembered /\ ArmedMeansConverged /\ Informed
        /\ [Next]_vars => Informed'
  BY NextInformed
<1> QED
  BY <1>1, <1>2, <1>3, InitTruthful, InitRemembered, InitInformed, TypeCorrect, PTL DEF Spec
-----------------------------------------------------------------------------
\* The DELETE of a file is blind, so the proof taken before it is all there is.
LEMMA InformedDeletes ==
    ASSUME TypeOK, Informed, NEW a \in Actors, pc[a] = "delete"
    PROVE  srv.body = None \/ rev > op[a].at \/ srv.body = op[a].base.hash
<1>1. op[a].at \in Nat /\ rev \in Nat
  BY DEF TypeOK, ServerOK, ActorsOK, Op
<1>2. op[a].at <= rev /\ Proven(op[a], srv, rev)
  BY DEF Informed, Grounded
<1>3. rev > op[a].at \/ op[a].at = rev
  BY <1>1, <1>2
<1> QED
  BY <1>2, <1>3 DEF Proven

\* Only a PUT whose precondition the server granted ends a send with a new version.
LEMMA OnlyUploadsSend ==
    ASSUME TypeOK, [Next]_vars, NEW a \in Actors,
           pc[a] = "send", pc'[a] \in {"record", "end"}, rev' # rev
    PROVE  Precondition(op[a].info)
<1>0. \A c \in Actors : \A label, r : c # a /\ Goto(c, label, r) => pc'[a] = "send"
  BY DEF Goto, TypeOK, ActorsOK
<1>m. \A c \in Actors : \A bad : c # a => ~End(c, bad) /\ ~Done(c, bad)
  BY <1>0 DEF End, Done
<1>1. CASE Environment
  BY <1>1 DEF Environment, UserEdit, ForeignEdit, SaveTimer, Crash, server, TypeOK, ActorsOK
<1>2. CASE Session \/ Watch
  <2>1. UNCHANGED server
    BY <1>2 DEF Session, Watch, StartSession, ProbeRoot, ListRemote, ListFails, Gate,
       SessionThrows, Finish, Stopped, ScanLocal, Candidate, AskServer, TrashLocal, TrashFails,
       WatchModify, WatchStat, WatchStatFails, WatchEnd, server
  <2> QED
    BY <2>1 DEF server
<1>3. ASSUME NEW c \in Actors, Transfer(c) PROVE Precondition(op[a].info)
  <2>1. CASE Upload(c)
    BY <1>0, <2>1 DEF Upload
  <2>2. CASE UploadFails(c)
    <3>1. c = a
      BY <1>m, <2>2 DEF UploadFails, FailAndQueue
    <3> QED
      BY <2>2, <3>1 DEF UploadFails, server
  <2>3. UNCHANGED server \/ Upload(c) \/ UploadFails(c)
    BY <1>3 DEF Transfer, Classify, Deferred, ReadForUpload, UploadRefused, Record,
       DownloadSkipped, Fetch, FetchGone, FetchFails, FetchAnomalous, WriteFetched, server
  <2> QED
    BY <2>1, <2>2, <2>3 DEF server
<1>4. ASSUME NEW c \in Actors, Conflict(c) PROVE Precondition(op[a].info)
  <2>1. CASE SendLocal(c)
    BY <1>0, <2>1 DEF SendLocal
  <2>2. CASE SendMerged(c)
    BY <1>0, <2>2 DEF SendMerged
  <2>3. CASE SendLocalFails(c)
    BY <1>m, <2>3 DEF SendLocalFails, FailAndQueue
  <2>4. CASE SendMergedFails(c)
    BY <1>m, <2>4 DEF SendMergedFails
  <2>5. UNCHANGED server \/ SendLocal(c) \/ SendMerged(c) \/ SendLocalFails(c) \/ SendMergedFails(c)
    BY <1>4 DEF Conflict, EnterConflict, Compare, CompareFails, Hold, Tie, PreferLocal,
       PreferRemote, Merge, ReadLocal, WriteMerged, ReadMerged, server
  <2> QED
    BY <2>1, <2>2, <2>3, <2>4, <2>5 DEF server
<1>5. ASSUME NEW c \in Actors, Deletion(c) PROVE Precondition(op[a].info)
  <2>1. CASE DeleteRemote(c)
    BY <1>m, <2>1 DEF DeleteRemote, Drop
  <2>2. CASE DeleteFails(c)
    BY <1>m, <2>2 DEF DeleteFails, FailAndQueue
  <2>3. UNCHANGED server \/ DeleteRemote(c) \/ DeleteFails(c)
    BY <1>5 DEF Deletion, ProveDeletion, ProbeMissing, ProbeMissingFails, server
  <2> QED
    BY <2>1, <2>2, <2>3 DEF server
<1>6. CASE UNCHANGED vars
  BY <1>6 DEF vars
<1> QED
  BY <1>1, <1>2, <1>3, <1>4, <1>5, <1>6 DEF Next, Environment

LEMMA InformedUploads ==
    ASSUME TypeOK, Informed, NEW a \in Actors, pc[a] = "send", Precondition(op[a].info)
    PROVE  \/ srv.body = None
           \/ op[a].base # None /\ op[a].base.rid = IdOf(Listed)
           \/ rev > op[a].at /\ (op[a].info # None => op[a].info.etag = None)
<1>1. op[a].at \in Nat /\ rev \in Nat /\ ServerOK
  BY DEF TypeOK, ServerOK, ActorsOK, Op
<1>2. op[a].at <= rev /\ Told(op[a], srv, rev) /\ Based(op[a])
  BY DEF Informed, Grounded, ToldLabels
<1>3. CASE op[a].at = rev
  BY <1>1, <1>2, <1>3, ListedId DEF Told, Based
<1>4. CASE op[a].at # rev
  <2>1. rev > op[a].at
    BY <1>1, <1>2, <1>4
  <2>2. ASSUME op[a].info # None, op[a].info.etag # None PROVE FALSE
    <3>1. rev = op[a].info.etag
      BY <2>2 DEF Precondition
    <3>2. op[a].info.etag <= op[a].at
      BY <1>2, <2>2 DEF Told
    <3> QED
      BY <1>1, <2>1, <3>1, <3>2
  <2> QED
    BY <2>1, <2>2
<1> QED
  BY <1>3, <1>4

\* A blind DELETE destroys only the content this device last synced, in every
\* instance without overlap or slow edits whose gate keeps its promise: neither
\* the short circuit's rebuilt listing nor a checksum calculated on demand lets an
\* unseen version be deleted.
THEOREM DeletionsProven ==
    ASSUME Orderly
    PROVE  Spec /\ []ArmedMeansConverged => DeleteIsProven
<1>1. TypeOK /\ Informed /\ [Next]_vars =>
        [\A a \in Actors : pc[a] = "delete" /\ rev' # rev =>
           srv.body = None \/ rev > op[a].at \/ srv.body = op[a].base.hash]_vars
  BY InformedDeletes
<1> QED
  BY <1>1, GateInforms, PTL DEF Spec, DeleteIsProven

\* An ordinary upload replaces only the version its edit was based on, under the
\* same conditions: what If-Match does not protect, because the row has no ETag to
\* send, the gate does, up to the version that appears after the listing.
THEOREM UploadsReplaceBaseline ==
    ASSUME Orderly
    PROVE  Spec /\ []ArmedMeansConverged => UploadReplacesBaseline
<1>1. TypeOK /\ Informed /\ [Next]_vars =>
        [\A a \in Actors :
           pc[a] = "send" /\ pc'[a] \in {"record", "end"} /\ rev' # rev =>
             \/ srv.body = None
             \/ op[a].base # None /\ op[a].base.rid = IdOf(Listed)
             \/ rev > op[a].at /\ (op[a].info # None => op[a].info.etag = None)]_vars
  BY OnlyUploadsSend, InformedUploads
<1> QED
  BY <1>1, GateInforms, PTL DEF Spec, UploadReplacesBaseline
-----------------------------------------------------------------------------
(***************************************************************************)
(* Where the gate is right: in the environments that have none of the      *)
(* behaviours under which the code arms it wrongly.                        *)
(***************************************************************************)
Convergent == /\ Env \cap {"overlap", "stop", "throw", "noProof"} = {}
              /\ ~({"watch", "crash"} \subseteq Env)
              /\ NoneTooLarge

\* The row is of the file s, at version n.
Names(b, s, n) == b # None /\ b.rid = IdAt(s, n)

\* A session before its listing or after its gate; on a file its listing has not.
Outside == {"idle", "probe", "list", "finish"}
Absent == {"missing", "recheck", "ask", "trash"}

\* The stored root ETag is the server's, which has the file.
InForce == root = rev /\ srv.body # None

\* As long as it is, an actor was told the truth of the server, and leaves a row that
\* says so or something for the gate to see.
Knows(a, label, o, b, again, s, n) == label # "idle" =>
    /\ o.info # None => IdOf(o.info) = IdAt(s, n)
    /\ label = "record" => Names(o.row, s, n)
    /\ a = "watch" => Names(b, s, n) /\ (o.base # None => Names(o.base, s, n))
    /\ a = "scan" /\ label \in Outside \cup {"read", "send"} => Names(b, s, n)
    /\ a = "scan" /\ label = "end" => o.bad \/ again \/ Names(b, s, n)
    /\ a = "scan" /\ label \notin Outside \cup {"end"} => o.info # None

\* What a crash brings back is the end of a session, not the middle of one.
Restartable == "crash" \in Env =>
    /\ saved.root = rev /\ srv.body # None => Names(saved.base, srv, rev)
    /\ pc["watch"] = "idle" /\ events = {} /\ ~pending /\ ~timer

\* The inductive invariant.
Gated ==
    /\ Alone /\ Restartable
    /\ pc["scan"] \in Absent => op["scan"].info = None
    /\ InForce => /\ \A a \in Actors : Knows(a, pc[a], op[a], base, retry, srv, rev)
                  /\ ~Running => Names(base, srv, rev)
-----------------------------------------------------------------------------
\* A step that stores no root ETag, and at most lets the server move on.
Calm == /\ UNCHANGED server \/ rev < rev'
        /\ root' = root \/ root' = None
        /\ saved' = saved \/ saved' = [saved EXCEPT !.base = Unsign(saved.base)]
        /\ UNCHANGED watchVars

LEMMA SameRid == \A b \in OrNone(Row) : \A s, n : Names(b, s, n) => Names(Unsign(b), s, n)
<1> SUFFICES ASSUME NEW b \in OrNone(Row), b # None PROVE Unsign(b) # None /\ Unsign(b).rid = b.rid
  BY DEF Names
<1> QED
  BY NoneAssumption DEF Unsign, OrNone, Row

\* No root ETag becomes current by the server moving on.
LEMMA CalmLasts ==
    ASSUME TypeOK, TypeOK', Remembered, Calm, InForce'
    PROVE  InForce /\ srv' = srv /\ rev' = rev /\ root' = root
<1>1. rev \in Nat /\ rev' \in Nat /\ root' = rev' /\ srv'.body # None /\ (root \in Nat => root <= rev)
  BY DEF TypeOK, ServerOK, InForce, Remembered, Past
<1>2. root' = root
  BY <1>1, BodyAssumption DEF Calm
<1>3. srv' = srv /\ rev' = rev
  BY <1>1, <1>2 DEF Calm, server
<1> QED
  BY <1>1, <1>2, <1>3 DEF InForce

LEMMA CalmRestarts ==
    ASSUME TypeOK, TypeOK', Remembered, Restartable, Calm,
           "crash" \in Env => pc'["watch"] = "idle"
    PROVE  Restartable'
<1> SUFFICES ASSUME "crash" \in Env, saved'.root = rev', srv'.body # None
             PROVE  Names(saved'.base, srv', rev')
  BY DEF Restartable, Calm, watchVars
<1>1. /\ rev \in Nat /\ rev' \in Nat /\ (saved.root \in Nat => saved.root <= rev)
      /\ saved \in [base: OrNone(Row), root: OrNone(Nat), skips: Nat]
  BY DEF TypeOK, ServerOK, DeviceOK, Remembered, Past
<1>2. saved'.root = saved.root /\ (saved'.base = saved.base \/ saved'.base = Unsign(saved.base))
  BY <1>1 DEF Calm
<1>3. srv' = srv /\ rev' = rev
  BY <1>1, <1>2 DEF Calm, server
<1>4. Names(saved.base, srv, rev) /\ saved.base \in OrNone(Row)
  BY <1>1, <1>2, <1>3 DEF Restartable
<1> QED
  BY <1>2, <1>3, <1>4, SameRid

\* What an actor knows while the root ETag is current.
LEMMA Known ==
    ASSUME Gated, InForce, NEW a \in Actors, pc[a] # "idle"
    PROVE  /\ op[a].info # None => IdOf(op[a].info) = IdAt(srv, rev)
           /\ pc[a] = "record" => Names(op[a].row, srv, rev)
           /\ a = "watch" => Names(base, srv, rev) /\ (op[a].base # None => Names(op[a].base, srv, rev))
           /\ pc[a] \in {"probe", "list", "finish", "read", "send"} => Names(base, srv, rev)
           /\ pc[a] = "end" => op[a].bad \/ retry \/ Names(base, srv, rev)
           /\ a = "scan" /\ pc[a] \notin Outside \cup {"end"} => op[a].info # None
<1>1. Knows(a, pc[a], op[a], base, retry, srv, rev) /\ (a = "scan" \/ a = "watch")
  BY DEF Gated, Actors
<1> QED
  BY <1>1 DEF Knows, Outside

\* The step of an actor in the middle of an operation: the other one is idle.
LEMMA StepGated ==
    ASSUME TypeOK, TypeOK', Remembered, Gated, NEW a \in Actors, NEW label, NEW r,
           pc[a] # "idle", Goto(a, label, r), label # "idle", Restartable',
           a = "scan" /\ label \in Absent => r.info = None,
           InForce' => Knows(a, label, r, base', retry', srv', rev')
    PROVE  Gated'
<1>1. pc'[a] = label /\ op'[a] = r
  BY DEF Goto, TypeOK, ActorsOK
<1>2. \A c \in Actors \ {a} : pc[c] = "idle" /\ pc'[c] = "idle"
  BY DEF Gated, Alone, Actors, Goto, TypeOK, ActorsOK
<1>3. Alone'
  BY <1>1, <1>2 DEF Alone, Actors
<1>4. pc'["scan"] \in Absent => op'["scan"].info = None
  BY <1>1, <1>2 DEF Actors, Absent
<1>5. ASSUME InForce' PROVE \A c \in Actors : Knows(c, pc'[c], op'[c], base', retry', srv', rev')
  BY <1>1, <1>2, <1>5 DEF Knows
<1>6. ASSUME InForce', ~Running' PROVE Names(base', srv', rev')
  <2>1. a = "watch"
    BY <1>1, <1>6 DEF Running, Actors
  <2> QED
    BY <1>6, <2>1 DEF Knows
<1> QED
  BY <1>3, <1>4, <1>5, <1>6 DEF Gated

\* A step to a label at which nothing is claimed but what the actor already knows.
LEMMA KeepGated ==
    ASSUME TypeOK, TypeOK', Remembered, Gated, Calm, NEW a \in Actors, NEW label, NEW r,
           pc[a] \notin Outside \cup {"end"}, Goto(a, label, r),
           label \notin Outside \cup Absent \cup {"end", "record"},
           label \in {"read", "send"} => pc[a] \in {"read", "send"},
           r.info = op[a].info, r.base = op[a].base, base' = base \/ base' = Unsign(base)
    PROVE  Gated'
<1>1. pc[a] # "idle" /\ label # "idle" /\ base \in OrNone(Row)
  BY DEF Outside, TypeOK, DeviceOK
<1>2. Restartable'
  <2>1. "crash" \in Env => pc'["watch"] = "idle"
    BY <1>1 DEF Gated, Restartable, Goto, TypeOK, ActorsOK
  <2> QED
    BY <2>1, CalmRestarts DEF Gated
<1>3. ASSUME InForce' PROVE Knows(a, label, r, base', retry', srv', rev')
  <2>1. InForce /\ srv' = srv /\ rev' = rev
    BY <1>3, CalmLasts
  <2>2. Names(base, srv, rev) => Names(base', srv, rev)
    BY <1>1, SameRid
  <2>3. /\ r.info # None => IdOf(r.info) = IdAt(srv, rev)
        /\ a = "watch" => Names(base', srv, rev) /\ (r.base # None => Names(r.base, srv, rev))
        /\ label \in {"read", "send"} => Names(base', srv, rev)
        /\ a = "scan" => r.info # None
    BY <1>1, <2>1, <2>2, Known
  <2> QED
    BY <2>1, <2>3 DEF Knows
<1> QED
  BY <1>1, <1>2, <1>3, StepGated

\* A row of the version listed.
LEMMA RowGated ==
    ASSUME TypeOK, TypeOK', Remembered, Gated, Calm, NEW a \in Actors, NEW row,
           pc[a] \notin Outside \cup {"end"}, Goto(a, "record", [op[a] EXCEPT !.row = row]),
           op[a].info # None, row # None, row.rid = IdOf(op[a].info),
           base' = base \/ base' = Unsign(base)
    PROVE  Gated'
<1> DEFINE r == [op[a] EXCEPT !.row = row]
<1>1. /\ pc[a] # "idle" /\ base \in OrNone(Row) /\ r.info = op[a].info /\ r.base = op[a].base
      /\ r.row = row
  BY DEF Outside, TypeOK, DeviceOK, ActorsOK, Op
<1>a. Goto(a, "record", r)
  OBVIOUS
<1> HIDE DEF r
<1>2. Restartable'
  <2>1. "crash" \in Env => pc'["watch"] = "idle"
    BY <1>1, <1>a DEF Gated, Restartable, Goto, TypeOK, ActorsOK
  <2> QED
    BY <2>1, CalmRestarts DEF Gated
<1>3. ASSUME InForce' PROVE Knows(a, "record", r, base', retry', srv', rev')
  <2>1. InForce /\ srv' = srv /\ rev' = rev
    BY <1>3, CalmLasts
  <2>2. Names(base, srv, rev) => Names(base', srv, rev)
    BY <1>1, SameRid
  <2>3. IdOf(r.info) = IdAt(srv, rev)
    BY <1>1, <2>1, Known
  <2>4. a = "watch" => Names(base', srv, rev) /\ (r.base # None => Names(r.base, srv, rev))
    BY <1>1, <2>1, <2>2, Known
  <2>5. Names(r.row, srv, rev)
    BY <1>1, <2>3 DEF Names
  <2> QED
    BY <1>1, <2>1, <2>3, <2>4, <2>5 DEF Knows, Outside
<1> QED
  BY <1>1, <1>a, <1>2, <1>3, StepGated DEF Absent

\* The server has a new version: the root ETag is current no more.
LEMMA MovedGated ==
    ASSUME TypeOK, TypeOK', Remembered, Gated, Calm, NEW a \in Actors, NEW label, NEW r,
           pc[a] # "idle", Goto(a, label, r), label \notin {"idle"} \cup Absent, rev < rev'
    PROVE  Gated'
<1>1. Restartable'
  <2>1. "crash" \in Env => pc'["watch"] = "idle"
    BY DEF Gated, Restartable, Goto, TypeOK, ActorsOK
  <2> QED
    BY <2>1, CalmRestarts DEF Gated
<1>2. ~InForce'
  <2>1. rev \in Nat
    BY DEF TypeOK, ServerOK
  <2> QED
    BY <2>1, CalmLasts
<1> QED
  BY <1>1, <1>2, StepGated

\* The file is done: an error or the retry queue is left for the gate, or a row that
\* names the server's version.
LEMMA OverGated ==
    ASSUME TypeOK, TypeOK', Remembered, Gated, Calm, NEW a \in Actors, NEW bad,
           pc[a] \notin Outside \cup {"end"}, End(a, bad) \/ Done(a, bad),
           InForce' => \/ a = "scan" /\ (bad \/ retry')
                       \/ Names(base', srv', rev')
    PROVE  Gated'
<1>1. pc[a] # "idle"
  BY DEF Outside
<1>2. ASSUME NEW label, NEW r, Goto(a, label, r) PROVE Restartable'
  <2>1. "crash" \in Env => pc'["watch"] = "idle"
    BY <1>1, <1>2 DEF Gated, Restartable, Goto, TypeOK, ActorsOK
  <2> QED
    BY <2>1, CalmRestarts DEF Gated
<1>3. CASE End(a, bad)
  <2> DEFINE r == [NoOp EXCEPT !.bad = bad \/ op[a].bad]
  <2>1. r.info = None /\ r.base = None /\ r.bad = (bad \/ op[a].bad) /\ Goto(a, "end", r)
    BY <1>3 DEF End, NoOp
  <2> HIDE DEF r
  <2>2. InForce' => Knows(a, "end", r, base', retry', srv', rev')
    BY <2>1 DEF Knows, Outside
  <2> QED
    BY <1>1, <1>2, <2>1, <2>2, StepGated DEF Absent
<1>4. CASE a = "scan" /\ op[a].info = None /\ Goto(a, "recheck", [op[a] EXCEPT !.bad = @ \/ bad])
  <2> DEFINE r == [op[a] EXCEPT !.bad = @ \/ bad]
  <2>1. r.info = None
    BY <1>4 DEF TypeOK, ActorsOK, Op
  <2>2. Goto(a, "recheck", r)
    BY <1>4
  <2> HIDE DEF r
  <2>3. ~InForce'
    BY <1>1, <1>4, CalmLasts, Known
  <2> QED
    BY <1>1, <1>2, <2>1, <2>2, <2>3, StepGated DEF Absent
<1> QED
  BY <1>3, <1>4 DEF Done

LEMMA FailureGated ==
    ASSUME TypeOK, TypeOK', Remembered, Gated, Calm, NEW a \in Actors, FailAndQueue(a),
           pc[a] \notin Outside \cup {"end"}, UNCHANGED base
    PROVE  Gated'
<1>1. ASSUME InForce', a = "watch" PROVE Names(base', srv', rev')
  <2>1. InForce /\ srv' = srv /\ rev' = rev /\ pc[a] # "idle"
    BY <1>1, CalmLasts DEF Outside
  <2> QED
    BY <1>1, <2>1, Known
<1>2. Done(a, TRUE)
  BY DEF FailAndQueue
<1> QED
  BY <1>1, <1>2, OverGated DEF Actors
-----------------------------------------------------------------------------
LEMMA EnvironmentGated ==
    ASSUME TypeOK, TypeOK', Remembered, Gated, Convergent, Environment
    PROVE  Gated'
<1>0. base \in OrNone(Row) /\ \A a \in Actors : op[a] \in Op
  BY DEF TypeOK, DeviceOK, ActorsOK
<1>1. CASE UserEdit
  <2>1. PICK b \in OrNone(Body) \ {disk}, filtered \in Filters : UserEdit!(b, filtered)
    BY <1>1 DEF UserEdit
  <2>2. /\ srv' = srv /\ rev' = rev /\ root' = root /\ base' = Unsign(base) /\ retry' = retry
        /\ saved' = [saved EXCEPT !.base = Unsign(saved.base)]
        /\ pending' = pending /\ timer' = timer
    BY <2>1 DEF server, WriteDisk
  <2>3. \A s, n : Names(base, s, n) => Names(base', s, n)
    BY <1>0, <2>2, SameRid
  <2>4. InForce' => InForce
    BY <2>2 DEF InForce
  <2>5. "crash" \in Env => filtered = TRUE
    BY DEF Convergent, Filters
  <2>6. Restartable'
    <3>1. ASSUME "crash" \in Env PROVE pc'["watch"] = "idle" /\ events' = {}
      BY <2>1, <2>5, <3>1 DEF Gated, Restartable
    <3>2. ASSUME "crash" \in Env, saved'.root = rev', srv'.body # None
          PROVE  Names(saved'.base, srv', rev')
      <4>1. saved \in [base: OrNone(Row), root: OrNone(Nat), skips: Nat]
        BY DEF TypeOK, DeviceOK
      <4>2. saved'.root = saved.root /\ saved'.base = Unsign(saved.base) /\ saved.base \in OrNone(Row)
        BY <2>2, <4>1
      <4>3. Names(saved.base, srv, rev)
        BY <2>2, <3>2, <4>2 DEF Gated, Restartable
      <4> QED
        BY <2>2, <4>2, <4>3, SameRid
    <3> QED
      BY <2>2, <3>1, <3>2 DEF Gated, Restartable
  <2>7. CASE op' = [a \in Actors |-> Raced(a)] /\ pc' = pc
    <3>1. \A a \in Actors : /\ op'[a].info = op[a].info /\ op'[a].base = op[a].base
                            /\ op'[a].row = op[a].row /\ op'[a].bad = op[a].bad
      BY <1>0, <2>7 DEF Raced, Op
    <3>2. Alone' /\ (pc'["scan"] \in Absent => op'["scan"].info = None) /\ (~Running' => ~Running)
      BY <2>7, <3>1 DEF Gated, Alone, Actors, Running
    <3>3. ASSUME InForce', NEW a \in Actors PROVE Knows(a, pc'[a], op'[a], base', retry', srv', rev')
      <4>1. Knows(a, pc[a], op[a], base, retry, srv, rev)
        BY <2>4, <3>3 DEF Gated
      <4> QED
        BY <2>2, <2>3, <2>7, <3>1, <4>1 DEF Knows
    <3>4. InForce' /\ ~Running' => Names(base', srv', rev')
      BY <2>2, <2>3, <2>4, <3>2 DEF Gated
    <3> QED
      BY <2>6, <3>2, <3>3, <3>4 DEF Gated
  <2>8. CASE /\ DeletionStarts /\ pc' = [pc EXCEPT !["watch"] = "missing"]
             /\ op' = [op EXCEPT !["watch"] = StartDeletion]
    <3>1. /\ pc["scan"] = "idle" /\ pc'["scan"] = "idle" /\ pc'["watch"] = "missing"
          /\ op'["watch"] = StartDeletion
      BY <2>8 DEF DeletionStarts, Running, TypeOK, ActorsOK, Actors
    <3>2. StartDeletion.info = None /\ StartDeletion.base = Unsign(base)
      BY DEF StartDeletion, NoOp
    <3>3. InForce' => Names(base', srv', rev')
      BY <2>2, <2>3, <2>4, <3>1 DEF Gated, Running
    <3>4. ASSUME InForce', NEW a \in Actors PROVE Knows(a, pc'[a], op'[a], base', retry', srv', rev')
      <4>1. CASE a = "scan"
        BY <3>1, <4>1 DEF Knows
      <4>2. CASE a = "watch"
        BY <2>2, <3>1, <3>2, <3>3, <3>4, <4>2 DEF Knows
      <4> QED
        BY <4>1, <4>2 DEF Actors
    <3> QED
      BY <2>6, <3>1, <3>3, <3>4 DEF Gated, Alone, Absent
  <2> QED
    BY <2>1, <2>7, <2>8
<1>2. CASE ForeignEdit
  <2>1. rev' = rev + 1 /\ UNCHANGED <<root, saved, pc, op>> /\ UNCHANGED watchVars
    BY <1>2 DEF ForeignEdit, db, local
  <2>2. Calm /\ rev < rev'
    BY <2>1 DEF Calm, TypeOK, ServerOK
  <2>3. ~InForce'
    <3>1. rev \in Nat /\ rev' = rev + 1
      BY <2>1 DEF TypeOK, ServerOK
    <3> QED
      BY <2>2, <3>1, CalmLasts
  <2>4. Restartable'
    BY <2>1, <2>2, CalmRestarts DEF Gated, Restartable
  <2> QED
    BY <2>1, <2>3, <2>4 DEF Gated, Alone
<1>3. CASE SaveTimer
  <2>1. timer /\ UNCHANGED <<srv, rev, base, root, retry, pc, op>>
    BY <1>3 DEF SaveTimer, server, db
  <2>2. "crash" \notin Env
    BY <2>1 DEF Gated, Restartable
  <2>3. Restartable'
    BY <2>2 DEF Restartable
  <2>4. Alone' /\ (InForce' => InForce) /\ (Running' <=> Running)
    BY <2>1 DEF Gated, Alone, InForce, Running
  <2> QED
    BY <2>1, <2>3, <2>4 DEF Gated
<1>4. CASE Crash
  <2>1. /\ "crash" \in Env /\ srv' = srv /\ rev' = rev /\ saved' = saved /\ base' = saved.base
        /\ root' = saved.root /\ timer' = FALSE /\ pending' = FALSE /\ events' = {}
    BY <1>4 DEF Crash, server, local
  <2>2. \A a \in Actors : pc'[a] = "idle"
    BY <1>4 DEF Crash
  <2>3. InForce' => Names(base', srv', rev')
    BY <2>1 DEF Gated, Restartable, InForce
  <2>4. Restartable'
    BY <2>1, <2>2 DEF Gated, Restartable, Actors
  <2> QED
    BY <2>2, <2>3, <2>4 DEF Gated, Alone, Absent, Knows, Actors
<1> QED
  BY <1>1, <1>2, <1>3, <1>4 DEF Environment

LEMMA SessionGated ==
    ASSUME TypeOK, TypeOK', Remembered, Gated, Convergent, Session
    PROVE  Gated'
<1>0. /\ "scan" \in Actors /\ op["scan"] \in Op /\ rev \in Nat /\ base \in OrNone(Row)
      /\ \A bad : [NoOp EXCEPT !.bad = bad].info = None
  BY DEF Actors, TypeOK, ActorsOK, ServerOK, DeviceOK, NoOp
<1>s. UNCHANGED server <=> UNCHANGED srv /\ UNCHANGED rev
  BY DEF server
<1>w. pc["scan"] # "idle" => pc["watch"] = "idle"
  BY DEF Gated, Alone
<1>1. CASE StartSession
  <2>1. /\ pc["scan"] = "idle" /\ pc["watch"] = "idle"
        /\ pc'["scan"] = "probe" /\ op'["scan"] = NoOp /\ pc'["watch"] = "idle"
        /\ UNCHANGED <<srv, rev, base, root, saved>> /\ UNCHANGED watchVars
    BY <1>1 DEF StartSession, Goto, TypeOK, ActorsOK, Actors, server, local, db, Convergent
  <2>2. Calm
    BY <2>1 DEF Calm, server
  <2>3. Restartable'
    BY <2>1, <2>2, CalmRestarts DEF Gated
  <2>4. InForce' => Names(base', srv', rev')
    BY <2>1 DEF Gated, InForce, Running
  <2>5. NoOp.info = None
    BY DEF NoOp
  <2>6. ASSUME InForce', NEW a \in Actors PROVE Knows(a, pc'[a], op'[a], base', retry', srv', rev')
    BY <2>1, <2>4, <2>5, <2>6 DEF Knows, Outside, Actors
  <2> QED
    BY <2>1, <2>3, <2>4, <2>6 DEF Gated, Alone, Absent
<1>2. CASE ProbeRoot
  <2>1. PICK cur \in RootEtag : ProbeRoot!(cur)
    BY <1>2 DEF ProbeRoot
  <2>2. pc["scan"] = "probe" /\ Calm /\ srv' = srv /\ rev' = rev /\ base' = base
    BY <2>1 DEF Calm, server, local
  <2>3. (InForce' => InForce) /\ (InForce => Names(base, srv, rev))
    BY <1>0, <2>2, CalmLasts, Known
  <2>4. ASSUME NEW label, NEW r, Goto("scan", label, r) PROVE Restartable'
    <3>1. "crash" \in Env => pc'["watch"] = "idle"
      BY <2>4 DEF Gated, Restartable, Goto, TypeOK, ActorsOK
    <3> QED
      BY <2>2, <3>1, CalmRestarts DEF Gated
  <2>5. CASE Listing(Rebuilt(base), cur)
    <3> DEFINE r == [op["scan"] EXCEPT !.info = Rebuilt(base), !.at = cur, !.raced = FALSE]
    <3>1. r.info = Rebuilt(base) /\ Goto("scan", "classify", r)
      BY <1>0, <2>5 DEF Op, Listing
    <3> HIDE DEF r
    <3>2. ASSUME base # None PROVE Rebuilt(base) # None /\ IdOf(Rebuilt(base)) = base.rid
      <4>1. IdOf(Rebuilt(base)) = base.rid
        BY <1>0, <3>2, BodyAssumption DEF Rebuilt, IdOf, OrNone, Row, Id
      <4>2. Rebuilt(base) \in Info
        BY <1>0, <3>2, BodyAssumption DEF Rebuilt, Info, OrNone, Row, Id
      <4> QED
        BY <4>1, <4>2, NoneAssumption
    <3>3. ASSUME InForce' PROVE Knows("scan", "classify", r, base', retry', srv', rev')
      BY <2>2, <2>3, <3>1, <3>2, <3>3 DEF Knows, Names, Outside
    <3> QED
      BY <1>0, <2>2, <2>4, <3>1, <3>3, StepGated DEF Absent
  <2>6. CASE Goto("scan", "list", [op["scan"] EXCEPT !.cur = cur])
    <3> DEFINE r == [op["scan"] EXCEPT !.cur = cur]
    <3>1. r.info = op["scan"].info /\ Goto("scan", "list", r)
      BY <1>0, <2>6 DEF Op
    <3> HIDE DEF r
    <3>2. ASSUME InForce' PROVE Knows("scan", "list", r, base', retry', srv', rev')
      <4>1. r.info # None => IdOf(r.info) = IdAt(srv, rev)
        BY <1>0, <2>2, <2>3, <3>1, <3>2, Known
      <4> QED
        BY <2>2, <2>3, <3>2, <4>1 DEF Knows, Outside
    <3> QED
      BY <1>0, <2>2, <2>4, <3>1, <3>2, StepGated DEF Absent
  <2> QED
    BY <2>1, <2>5, <2>6
<1>3. CASE ListRemote
  <2> DEFINE r == [op["scan"] EXCEPT !.info = Listed, !.at = rev, !.raced = FALSE]
  <2>1. r.info = Listed /\ Goto("scan", "classify", r) /\ pc["scan"] = "list"
    BY <1>0, <1>3 DEF Op, ListRemote, Listing
  <2>2. /\ srv' = srv /\ rev' = rev /\ UNCHANGED <<saved, base>> /\ UNCHANGED watchVars
        /\ pc'["watch"] = pc["watch"]
    BY <1>3 DEF ListRemote, server, local, Listing, Goto, TypeOK, ActorsOK
  <2> HIDE DEF r
  <2>3. Restartable'
    BY <2>2 DEF Gated, Restartable, watchVars
  <2>4. ASSUME InForce' PROVE Knows("scan", "classify", r, base', retry', srv', rev')
    <3>1. srv.body # None
      BY <2>2, <2>4 DEF InForce
    <3>2. Listed \in Info /\ IdOf(Listed) = IdAt(srv, rev)
      BY <3>1, ListedId DEF TypeOK
    <3> QED
      BY <2>1, <2>2, <3>2, NoneAssumption DEF Knows, Outside
  <2> QED
    BY <1>0, <2>1, <2>3, <2>4, StepGated DEF Absent
<1>4. CASE ListFails
  <2>1. pc["scan"] = "list" /\ Calm /\ base' = base /\ Goto("scan", "finish", [NoOp EXCEPT !.bad = TRUE])
    BY <1>4 DEF ListFails, Calm, local, db
  <2>2. Restartable'
    <3>1. "crash" \in Env => pc'["watch"] = "idle"
      BY <2>1 DEF Gated, Restartable, Goto, TypeOK, ActorsOK
    <3> QED
      BY <2>1, <3>1, CalmRestarts DEF Gated
  <2>3. ASSUME InForce' PROVE Knows("scan", "finish", [NoOp EXCEPT !.bad = TRUE], base', retry', srv', rev')
    <3>1. srv' = srv /\ rev' = rev /\ Names(base, srv, rev)
      BY <1>0, <2>1, <2>3, CalmLasts, Known
    <3> QED
      BY <1>0, <2>1, <3>1 DEF Knows, Outside
  <2> QED
    BY <1>0, <2>1, <2>2, <2>3, StepGated DEF Absent
<1>5. CASE Gate
  <2>1. /\ pc["scan"] = "end" /\ Calm /\ base' = base /\ Goto("scan", "finish", op["scan"])
        /\ root' = Armed /\ srv' = srv /\ rev' = rev
    BY <1>5 DEF Gate, Go, Calm, Armed, server, local
  <2>2. Restartable'
    <3>1. "crash" \in Env => pc'["watch"] = "idle"
      BY <2>1 DEF Gated, Restartable, Goto, TypeOK, ActorsOK
    <3> QED
      BY <2>1, <3>1, CalmRestarts DEF Gated
  <2>3. ASSUME InForce' PROVE Knows("scan", "finish", op["scan"], base', retry', srv', rev')
    <3>1. InForce
      BY <2>1, <2>3, CalmLasts
    <3>2. root' # None
      BY <1>0, <2>1, <2>3, BodyAssumption DEF InForce
    <3>3. ~op["scan"].bad /\ ~retry
      BY <2>1, <3>2 DEF Armed, Unresolved
    <3>4. /\ Names(base, srv, rev)
          /\ op["scan"].info # None => IdOf(op["scan"].info) = IdAt(srv, rev)
      BY <1>0, <2>1, <3>1, <3>3, Known
    <3> QED
      BY <2>1, <3>4 DEF Knows, Outside
  <2> QED
    BY <1>0, <2>1, <2>2, <2>3, StepGated DEF Absent
<1>6. CASE SessionThrows
  BY <1>6 DEF SessionThrows, Convergent
<1>7. CASE Finish
  <2>1. PICK durable \in BOOLEAN : Finish!(durable)
    BY <1>7 DEF Finish
  <2>2. /\ pc["scan"] = "finish" /\ pc["watch"] = "idle" /\ UNCHANGED <<srv, rev, base, root, timer>>
        /\ pc'["scan"] = "idle" /\ pc'["watch"] = "idle" /\ pending' = FALSE /\ events' = Drained
        /\ saved' = (IF durable THEN [base |-> base, root |-> root, skips |-> skips] ELSE saved)
    BY <1>w, <2>1 DEF server, db, Goto, TypeOK, ActorsOK, Actors
  <2>3. InForce => Names(base, srv, rev)
    BY <1>0, <2>2, Known
  <2>4. Restartable'
    <3>1. ASSUME "crash" \in Env PROVE events' = {} /\ ~pending' /\ ~timer'
      BY <2>2, <3>1 DEF Gated, Restartable, Drained
    <3>2. ASSUME "crash" \in Env, saved'.root = rev', srv'.body # None
          PROVE  Names(saved'.base, srv', rev')
      <4>1. CASE durable
        <5>1. saved'.root = root /\ saved'.base = base
          BY <2>2, <4>1
        <5> QED
          BY <2>2, <2>3, <3>2, <5>1 DEF InForce
      <4>2. CASE ~durable
        BY <2>2, <3>2, <4>2 DEF Gated, Restartable
      <4> QED
        BY <4>1, <4>2
    <3> QED
      BY <2>2, <3>1, <3>2 DEF Restartable
  <2>5. InForce' => Names(base', srv', rev')
    BY <2>2, <2>3 DEF InForce
  <2> QED
    BY <2>2, <2>4, <2>5 DEF Gated, Alone, Absent, Knows, Actors
<1>8. CASE Stopped
  BY <1>8 DEF Stopped, Convergent
\* Until the session has seen it all, a file outside the listing is not on the server.
<1>9. ASSUME Calm, InForce',
             (pc["scan"] = "classify" /\ op["scan"].info = None) \/ pc["scan"] \in Absent
      PROVE  FALSE
  <2>1. InForce
    BY <1>9, CalmLasts
  <2>2. op["scan"].info = None /\ pc["scan"] \notin Outside \cup {"end"}
    BY <1>9 DEF Gated, Absent, Outside
  <2> QED
    BY <1>0, <2>1, <2>2, Known DEF Outside
<1>10. ASSUME Calm, NEW label, NEW r, Goto("scan", label, r), label # "idle",
              (pc["scan"] = "classify" /\ op["scan"].info = None) \/ pc["scan"] \in Absent,
              r.info = None
       PROVE  Gated'
  <2>1. pc["scan"] # "idle"
    BY <1>10 DEF Absent
  <2>2. "crash" \in Env => pc'["watch"] = "idle"
    BY <1>10 DEF Gated, Restartable, Goto, TypeOK, ActorsOK
  <2> QED
    BY <1>0, <1>9, <1>10, <2>1, <2>2, CalmRestarts, StepGated DEF Gated
<1>11. CASE ScanLocal
  <2>1. PICK unchanged \in MaybeUnchanged(base) : ScanLocal!(unchanged)
    BY <1>11 DEF ScanLocal
  <2>2. Calm /\ pc["scan"] = "classify" /\ op["scan"].info = None
    BY <2>1 DEF Calm, local, db
  <2>3. \A b, h : /\ [op["scan"] EXCEPT !.base = b, !.how = "probed"].info = None
                  /\ [op["scan"] EXCEPT !.hash = h, !.raced = FALSE].info = None
    BY <1>0, <2>2 DEF Op
  <2>4. CASE End("scan", FALSE)
    BY <1>0, <1>10, <2>2, <2>4 DEF End
  <2>5. CASE Goto("scan", "missing", [op["scan"] EXCEPT !.base = Unsign(base), !.how = "probed"])
    BY <1>10, <2>2, <2>3, <2>5
  <2>6. CASE Goto("scan", "read", [op["scan"] EXCEPT !.hash = disk, !.raced = FALSE])
    BY <1>10, <2>2, <2>3, <2>6
  <2>7. CASE Goto("scan", "recheck", op["scan"])
    BY <1>10, <2>2, <2>7
  <2> QED
    BY <2>1, <2>4, <2>5, <2>6, <2>7 DEF Go
<1>12. CASE Candidate
  <2>1. Calm /\ pc["scan"] = "recheck" /\ op["scan"].info = None
    BY <1>12 DEF Candidate, Calm, local, db, Gated, Absent
  <2>2. [op["scan"] EXCEPT !.raced = FALSE].info = None
    BY <1>0, <2>1 DEF Op
  <2>3. \/ Goto("scan", "finish", [NoOp EXCEPT !.bad = TRUE])
        \/ Goto("scan", "ask", [op["scan"] EXCEPT !.raced = FALSE])
        \/ End("scan", FALSE)
    BY <1>12 DEF Candidate
  <2> QED
    BY <1>0, <1>10, <2>1, <2>2, <2>3 DEF End, Absent
<1>13. CASE AskServer
  <2>1. Calm /\ pc["scan"] = "ask" /\ op["scan"].info = None
    BY <1>13 DEF AskServer, Calm, local, db, Gated, Absent
  <2>2. Goto("scan", "trash", op["scan"]) \/ End("scan", FALSE)
    BY <1>13 DEF AskServer, Go
  <2> QED
    BY <1>0, <1>10, <2>1, <2>2 DEF End, Absent
<1>14. CASE TrashLocal
  <2>1. Calm /\ pc["scan"] = "trash" /\ End("scan", FALSE)
    BY <1>14 DEF TrashLocal, Drop, Calm, WriteDisk
  <2> QED
    BY <1>0, <1>10, <2>1 DEF End, Absent
<1>15. CASE TrashFails
  <2>1. Calm /\ pc["scan"] = "trash" /\ End("scan", FALSE)
    BY <1>15 DEF TrashFails, Calm, local
  <2> QED
    BY <1>0, <1>10, <2>1 DEF End, Absent
<1> QED
  BY <1>1, <1>2, <1>3, <1>4, <1>5, <1>6, <1>7, <1>8, <1>11, <1>12, <1>13, <1>14, <1>15 DEF Session

LEMMA WatchGated ==
    ASSUME TypeOK, TypeOK', Remembered, Gated, Convergent, Watch
    PROVE  Gated'
<1>0. /\ "watch" \in Actors /\ op["watch"] \in Op /\ base \in OrNone(Row)
      /\ srv' = srv /\ rev' = rev /\ UNCHANGED <<saved, base, root>>
      /\ InForce' => InForce
  BY DEF Watch, WatchModify, WatchStat, WatchStatFails, WatchEnd, server, db, local, InForce,
         Actors, TypeOK, ActorsOK, DeviceOK
<1>c. "crash" \notin Env
  BY DEF Watch, WatchModify, WatchStat, WatchStatFails, WatchEnd, Gated, Restartable
<1>r. Restartable'
  BY <1>c DEF Restartable
<1>n. NoOp.info = None /\ NoOp.base = None /\ StartDeletion.info = None /\ StartDeletion.base = Unsign(base)
  BY DEF NoOp, StartDeletion
<1>k. InForce /\ pc["watch"] # "idle" => Names(base, srv, rev)
  BY <1>0, Known
<1>i. InForce /\ ~Running => Names(base, srv, rev)
  BY DEF Gated
\* An operation begins when no session runs.
<1>b. ASSUME NEW label, NEW r, Goto("watch", label, r), label \notin {"idle", "record"}, pc["scan"] = "idle",
             r.info = None, r.base # None => r.base = Unsign(base), InForce => Names(base, srv, rev)
      PROVE  Gated'
  <2>1. pc'["watch"] = label /\ op'["watch"] = r /\ pc'["scan"] = "idle"
    BY <1>b DEF Goto, TypeOK, ActorsOK, Actors
  <2>2. InForce' => Names(base', srv', rev') /\ (r.base # None => Names(r.base, srv', rev'))
    BY <1>0, <1>b, SameRid
  <2>3. ASSUME InForce', NEW a \in Actors PROVE Knows(a, pc'[a], op'[a], base', retry', srv', rev')
    <3>1. CASE a = "scan"
      BY <2>1, <3>1 DEF Knows
    <3>2. CASE a = "watch"
      BY <1>b, <2>1, <2>2, <2>3, <3>2 DEF Knows
    <3> QED
      BY <3>1, <3>2 DEF Actors
  <2> QED
    BY <1>r, <2>1, <2>2, <2>3 DEF Gated, Alone, Absent
<1>1. CASE WatchModify
  <2>1. CASE WatchDrop
    <3>1. UNCHANGED <<pc, op, retry>>
      BY <1>1, <2>1 DEF WatchModify, WatchDrop
    <3> QED
      BY <1>0, <1>r, <3>1 DEF Gated, Alone, Running
  <2>2. CASE ~Running /\ Goto("watch", "stat", [NoOp EXCEPT !.hash = disk])
    <3> DEFINE r == [NoOp EXCEPT !.hash = disk]
    <3>1. r.info = None /\ r.base = None /\ Goto("watch", "stat", r)
      BY <2>2 DEF NoOp
    <3>2. pc["scan"] = "idle"
      BY <2>2 DEF Running
    <3> HIDE DEF r
    <3> QED
      BY <1>b, <1>i, <2>2, <3>1, <3>2
  <2> QED
    BY <1>1, <2>1, <2>2 DEF WatchModify
<1>2. CASE WatchStat
  <2> DEFINE r == [op["watch"] EXCEPT !.info = Listed, !.at = rev, !.raced = FALSE]
             label == IF Listed = None THEN "read" ELSE "classify"
  <2>1. r.info = Listed /\ r.base = op["watch"].base
    BY <1>0 DEF Op
  <2>2. pc["watch"] = "stat" /\ Goto("watch", label, r) /\ label \in {"read", "classify"}
    BY <1>2 DEF WatchStat
  <2> HIDE DEF r, label
  <2>3. ASSUME InForce' PROVE Knows("watch", label, r, base', retry', srv', rev')
    <3>1. IdOf(Listed) = IdAt(srv, rev)
      BY <1>0, <2>3, ListedId DEF InForce, TypeOK
    <3>2. Names(base, srv, rev) /\ (r.base # None => Names(r.base, srv, rev))
      BY <1>0, <2>1, <2>2, <2>3, Known
    <3> QED
      BY <1>0, <2>1, <2>2, <3>1, <3>2 DEF Knows
  <2> QED
    BY <1>0, <1>r, <2>2, <2>3, StepGated
<1>3. CASE WatchStatFails
  <2>1. Calm /\ FailAndQueue("watch") /\ pc["watch"] = "stat"
    BY <1>3 DEF WatchStatFails, Calm, local, db
  <2> QED
    BY <1>0, <2>1, FailureGated DEF Outside
<1>4. CASE WatchEnd
  <2>1. pc["watch"] = "end" /\ pc["scan"] = "idle"
    BY <1>4 DEF WatchEnd, Gated, Alone
  <2>2. CASE Goto("watch", "missing", StartDeletion)
    BY <1>0, <1>b, <1>k, <1>n, <2>1, <2>2
  <2>3. CASE Goto("watch", "idle", NoOp)
    <3>1. pc'["watch"] = "idle" /\ pc'["scan"] = "idle"
      BY <2>1, <2>3 DEF Goto, TypeOK, ActorsOK, Actors
    <3>2. InForce' => Names(base', srv', rev')
      BY <1>0, <1>k, <2>1
    <3> QED
      BY <1>r, <3>1, <3>2 DEF Gated, Alone, Absent, Knows, Actors
  <2> QED
    BY <1>4, <2>2, <2>3 DEF WatchEnd
<1> QED
  BY <1>1, <1>2, <1>3, <1>4 DEF Watch
-----------------------------------------------------------------------------
\* Data at rest: no step of a transfer, a conflict or a deletion arms anything.
LEMMA ClassifyGated ==
    ASSUME TypeOK, TypeOK', Remembered, Gated, NEW a \in Actors, Classify(a)
    PROVE  Gated'
<1>0. /\ op[a] \in Op /\ op[a].info \in Info /\ pc[a] = "classify" /\ base \in OrNone(Row)
      /\ op[a].info # None /\ pc[a] \notin Outside \cup {"end"} /\ pc[a] # "idle"
  BY DEF Classify, TypeOK, ActorsOK, DeviceOK, Op, OrNone, Outside
<1>1. PICK u \in MaybeUnchanged(base) : Classify(a)!(u)
  BY DEF Classify
<1> DEFINE i == op[a].info
           h == LocalHash(base, disk, u)
           v == Verdict(base, i, disk, u)
           how == IF v = "fetch" THEN "get" ELSE "none"
           row == IF v = "record" THEN Converged(i, h, disk) ELSE None
           r == [op[a] EXCEPT !.base = Unsign(base), !.hash = h, !.raced = FALSE,
                     !.how = how, !.row = row]
<1>2. Calm /\ Goto(a, v, r)
  BY <1>1 DEF Calm, local
<1>3. v \in {"proof", "record", "conflict", "read", "fetch", "end"}
  BY <1>0, VerdictTyped
<1>4. r.base = Unsign(base) /\ r.info = op[a].info /\ r.row = row
  <2> HIDE DEF h, v, how, row
  <2> QED
    BY <1>0 DEF Op
<1>5. v \in {"read", "end"} => base # None /\ base.rid = IdOf(i)
  BY <1>0 DEF Verdict, RemoteChanged
<1>6. v = "record" => row # None /\ row.rid = IdOf(i)
  <2>1. Converged(i, h, disk).rid = IdOf(i)
    BY DEF Converged
  <2>2. v = "record" => row = Converged(i, h, disk) /\ row \in Row
    <3>1. v = "record" => r.row # None
      BY <1>2 DEF Goto, TypeOK, ActorsOK, OpOK
    <3> QED
      BY <1>4, <3>1, <1>2 DEF Goto, TypeOK, ActorsOK, OpOK, Op, OrNone
  <2> QED
    BY <2>1, <2>2, NoneAssumption
<1>7. base' = base \/ (base # None /\ base' = [base EXCEPT !.conf = FALSE])
  BY <1>1
<1>8. \A s, n : Names(base, s, n) => Names(base', s, n)
  <2>1. base # None => [base EXCEPT !.conf = FALSE].rid = base.rid /\ [base EXCEPT !.conf = FALSE] \in Row
    BY <1>0 DEF OrNone, Row
  <2> QED
    BY <1>7, <2>1, NoneAssumption DEF Names
<1> HIDE DEF h, v, how, row, r
<1>9. Restartable'
  <2>1. "crash" \in Env => pc'["watch"] = "idle"
    BY <1>0, <1>2 DEF Gated, Restartable, Goto, TypeOK, ActorsOK
  <2> QED
    BY <1>2, <2>1, CalmRestarts DEF Gated
<1>10. ASSUME InForce' PROVE Knows(a, v, r, base', retry', srv', rev')
  <2>1. InForce /\ srv' = srv /\ rev' = rev
    BY <1>2, <1>10, CalmLasts
  <2>2. IdOf(i) = IdAt(srv, rev)
    BY <1>0, <2>1, Known
  <2>3. a = "watch" => Names(base', srv, rev) /\ (r.base # None => Names(r.base, srv, rev))
    BY <1>0, <1>4, <1>8, <2>1, Known, SameRid
  <2>4. v \in {"read", "end"} => Names(base', srv, rev)
    BY <1>5, <1>8, <2>2 DEF Names
  <2>5. v = "record" => Names(r.row, srv, rev)
    BY <1>4, <1>6, <2>2 DEF Names
  <2> QED
    BY <1>0, <1>3, <1>4, <2>1, <2>2, <2>3, <2>4, <2>5 DEF Knows, Outside
<1> QED
  BY <1>0, <1>2, <1>3, <1>9, <1>10, StepGated DEF Absent

LEMMA TransferGated ==
    ASSUME TypeOK, TypeOK', Remembered, Gated, Convergent, NEW a \in Actors, Transfer(a)
    PROVE  Gated'
<1>0. /\ op[a] \in Op /\ OpOK(pc[a], op[a]) /\ base \in OrNone(Row) /\ rev \in Nat
  BY DEF TypeOK, ActorsOK, DeviceOK, ServerOK
<1>d. \A d : [op[a] EXCEPT !.data = d].info = op[a].info /\ [op[a] EXCEPT !.data = d].base = op[a].base
  BY <1>0 DEF Op
\* Sizes are within the limit.
<1>f. ~OverLimit(SizeOf(disk)) /\ (op[a].info # None => ~OverLimit(op[a].info.size))
  <2>1. disk \in OrNone(Body)
    BY DEF TypeOK, DeviceOK
  <2>2. op[a].info # None => Fits(op[a].info.size)
    BY DEF Remembered, OpPast, InfoPast
  <2> QED
    BY <2>1, <2>2, SizeFits DEF Fits, Convergent
<1>w. ASSUME a = "watch", Calm, InForce', base' = base, pc[a] # "idle" PROVE Names(base', srv', rev')
  BY <1>w, CalmLasts, Known
<1> USE DEF Outside, Absent
<1>1. CASE Classify(a)
  BY <1>1, ClassifyGated
<1>2. CASE Deferred(a)
  <2>1. Calm /\ pc[a] = "classify" /\ retry' = TRUE /\ base' = base /\ End(a, FALSE)
    BY <1>2 DEF Deferred, Calm, local, db
  <2> QED
    BY <1>w, <2>1, OverGated DEF Actors
<1>3. CASE ReadForUpload(a)
  <2>1. Calm /\ pc[a] = "read" /\ base' = base
    BY <1>3 DEF ReadForUpload, Calm, local, db
  <2>2. CASE Done(a, FALSE)
    <3>1. InForce' => Names(base', srv', rev')
      BY <2>1, CalmLasts, Known
    <3> QED
      BY <2>1, <2>2, <3>1, OverGated
  <2>3. CASE Goto(a, "send", [op[a] EXCEPT !.data = disk])
    BY <1>d, <2>1, <2>3, KeepGated
  <2> QED
    BY <1>3, <2>2, <2>3 DEF ReadForUpload
<1>4. CASE Upload(a)
  <2>1. Calm /\ pc[a] = "send" /\ rev < rev'
    BY <1>0, <1>4 DEF Upload, Store, Calm, local, db
  <2> QED
    BY <1>4, <2>1, MovedGated DEF Upload
<1>5. CASE UploadRefused(a)
  <2>1. /\ Calm /\ pc[a] = "send" /\ base' = base /\ Goto(a, "conflict", [op[a] EXCEPT !.data = None])
    BY <1>5 DEF UploadRefused, Calm, local, db
  <2> QED
    BY <1>d, <2>1, KeepGated
<1>6. CASE UploadFails(a)
  <2>1. Calm /\ pc[a] = "send" /\ base' = base /\ FailAndQueue(a)
    BY <1>0, <1>6 DEF UploadFails, Store, Calm, local, db
  <2> QED
    BY <2>1, FailureGated
<1>7. CASE Record(a)
  <2>1. Calm /\ pc[a] = "record" /\ base' = [op[a].row EXCEPT !.sig = disk # None] /\ Done(a, FALSE)
    BY <1>7 DEF Record, Calm, local
  <2>2. op[a].row \in Row
    BY <1>0, <2>1 DEF OpOK, Op, OrNone
  <2>3. base' # None /\ base'.rid = op[a].row.rid
    <3>1. base' \in Row /\ base'.rid = op[a].row.rid
      BY <2>1, <2>2 DEF Row
    <3> QED
      BY <3>1, NoneAssumption
  <2>4. ASSUME InForce' PROVE Names(base', srv', rev')
    <3>1. InForce /\ srv' = srv /\ rev' = rev
      BY <2>1, <2>4, CalmLasts
    <3>2. Names(op[a].row, srv, rev)
      BY <2>1, <3>1, Known
    <3> QED
      BY <2>3, <3>1, <3>2 DEF Names
  <2> QED
    BY <2>1, <2>4, OverGated
<1>8. CASE DownloadSkipped(a)
  <2>1. op[a].info # None
    BY <1>0, <1>8 DEF DownloadSkipped, OpOK, NeedsInfo
  <2> QED
    BY <1>8, <1>f, <2>1 DEF DownloadSkipped
<1>9. CASE Fetch(a)
  <2>1. Calm /\ pc[a] = "fetch" /\ base' = base
    BY <1>9 DEF Fetch, MayFetch, Calm, local, db
  <2>2. \/ Goto(a, "merge", [op[a] EXCEPT !.data = srv.body])
        \/ Goto(a, "write", [op[a] EXCEPT !.data = srv.body])
    BY <1>9 DEF Fetch
  <2> QED
    BY <1>d, <2>1, <2>2, KeepGated
<1>10. CASE FetchGone(a)
  <2>1. Calm /\ pc[a] = "fetch" /\ base' = base /\ End(a, TRUE)
    BY <1>10 DEF FetchGone, MayFetch, Calm, local, db
  <2> QED
    BY <1>w, <2>1, OverGated DEF Actors
<1>11. CASE FetchFails(a)
  <2>1. Calm /\ pc[a] = "fetch" /\ base' = base /\ FailAndQueue(a)
    BY <1>11 DEF FetchFails, MayFetch, Calm, local, db
  <2> QED
    BY <2>1, FailureGated
<1>12. CASE FetchAnomalous(a)
  <2>1. /\ Calm /\ pc[a] = "fetch" /\ retry' = TRUE /\ End(a, TRUE)
        /\ base' = base \/ (base # None /\ base' = [base EXCEPT !.conf = TRUE])
    BY <1>12 DEF FetchAnomalous, MayFetch, Calm, local
  <2>2. \A s, n : Names(base, s, n) => Names(base', s, n)
    <3>1. base # None => [base EXCEPT !.conf = TRUE].rid = base.rid /\ [base EXCEPT !.conf = TRUE] \in Row
      BY <1>0 DEF OrNone, Row
    <3> QED
      BY <2>1, <3>1, NoneAssumption DEF Names
  <2>3. a = "watch" /\ InForce' => Names(base', srv', rev')
    BY <2>1, <2>2, CalmLasts, Known
  <2> QED
    BY <2>1, <2>3, OverGated DEF Actors
<1>13. CASE WriteFetched(a)
  <2>1. /\ Calm /\ pc[a] = "write"
        /\ base' = base \/ base' = Unsign(base)
        /\ Goto(a, "record", [op[a] EXCEPT !.row = FetchedRow(a)])
    BY <1>13 DEF WriteFetched, WriteDisk, Calm, local
  <2>2. op[a].info # None
    BY <1>0, <2>1 DEF OpOK, NeedsInfo
  <2>3. [op[a] EXCEPT !.row = FetchedRow(a)] \in Op /\ [op[a] EXCEPT !.row = FetchedRow(a)].row # None
    BY <2>1 DEF Goto, TypeOK, ActorsOK, OpOK
  <2>4. FetchedRow(a) # None /\ FetchedRow(a).rid = IdOf(op[a].info)
    BY <1>0, <2>3 DEF FetchedRow, Op
  <2> QED
    BY <2>1, <2>2, <2>4, RowGated
<1> QED
  BY <1>1, <1>2, <1>3, <1>4, <1>5, <1>6, <1>7, <1>8, <1>9, <1>10, <1>11, <1>12, <1>13 DEF Transfer

\* The row captured when the file was classified names what the current one does.
LEMMA FlaggedNames ==
    ASSUME TypeOK, Gated, InForce, pc["watch"] # "idle"
    PROVE  Names(Flagged("watch"), srv, rev)
<1>0. "watch" \in Actors
  BY DEF Actors
<1>1. Names(base, srv, rev) /\ (op["watch"].base # None => Names(op["watch"].base, srv, rev))
  BY <1>0, Known
<1>2. CASE op["watch"].base = None
  BY <1>1, <1>2 DEF Flagged
<1>3. CASE op["watch"].base # None
  <2>1. op["watch"].base \in Row
    BY <1>0, <1>3 DEF TypeOK, ActorsOK, Op, OrNone
  <2>2. Flagged("watch") \in Row /\ Flagged("watch").rid = op["watch"].base.rid
    BY <1>3, <2>1 DEF Flagged, Row
  <2> QED
    BY <1>1, <1>3, <2>2, NoneAssumption DEF Names
<1> QED
  BY <1>2, <1>3

LEMMA ConflictGated ==
    ASSUME TypeOK, TypeOK', Remembered, Gated, Convergent, NEW a \in Actors, Conflict(a)
    PROVE  Gated'
<1>0. /\ op[a] \in Op /\ OpOK(pc[a], op[a]) /\ base \in OrNone(Row) /\ rev \in Nat
  BY DEF TypeOK, ActorsOK, DeviceOK, ServerOK
<1>d. \A d : [op[a] EXCEPT !.data = d].info = op[a].info /\ [op[a] EXCEPT !.data = d].base = op[a].base
  BY <1>0 DEF Op
<1>h. \A k : [op[a] EXCEPT !.how = k].info = op[a].info /\ [op[a] EXCEPT !.how = k].base = op[a].base
  BY <1>0 DEF Op
<1>i. pc[a] \in NeedsInfo => op[a].info # None
  BY <1>0 DEF OpOK
\* Sizes are within the limit.
<1>f. ~OverLimit(SizeOf(disk)) /\ (op[a].info # None => ~OverLimit(op[a].info.size))
  <2>1. disk \in OrNone(Body)
    BY DEF TypeOK, DeviceOK
  <2>2. op[a].info # None => Fits(op[a].info.size)
    BY DEF Remembered, OpPast, InfoPast
  <2> QED
    BY <2>1, <2>2, SizeFits DEF Fits, Convergent
\* Giving up with an error leaves the row that was there.
<1>e. ASSUME Calm, base' = base, pc[a] \notin Outside \cup {"end"}, End(a, TRUE) PROVE Gated'
  <2>1. a = "watch" /\ InForce' => Names(base', srv', rev')
    BY <1>e, CalmLasts, Known DEF Outside
  <2> QED
    BY <1>e, <2>1, OverGated DEF Actors
<1>c. ASSUME Calm, pc[a] \in NeedsInfo, base' = base,
             Goto(a, "record", [op[a] EXCEPT !.row = Converged(op[a].info, disk, disk)])
      PROVE  Gated'
  <2> DEFINE row == Converged(op[a].info, disk, disk)
  <2>1. row # None /\ row.rid = IdOf(op[a].info)
    <3>1. [op[a] EXCEPT !.row = row] \in Op /\ [op[a] EXCEPT !.row = row].row # None
      BY <1>c DEF Goto, TypeOK, ActorsOK, OpOK
    <3>2. [op[a] EXCEPT !.row = row].row = row
      BY <1>0 DEF Op
    <3>3. row.rid = IdOf(op[a].info)
      BY DEF Converged
    <3> QED
      BY <3>1, <3>2, <3>3
  <2>2. Goto(a, "record", [op[a] EXCEPT !.row = row])
    BY <1>c
  <2>3. pc[a] \notin Outside \cup {"end"}
    BY <1>c DEF NeedsInfo, Outside
  <2> HIDE DEF row
  <2> QED
    BY <1>c, <1>i, <2>1, <2>2, <2>3, RowGated
<1>k. ASSUME Calm, pc[a] \in NeedsInfo, NEW label \in NeedsInfo, NEW r, Goto(a, label, r),
             r.info = op[a].info, r.base = op[a].base, base' = base \/ base' = Unsign(base)
      PROVE  Gated'
  BY <1>k, KeepGated DEF NeedsInfo, Outside, Absent
<1> USE DEF Outside, Absent, NeedsInfo
<1>1. CASE EnterConflict(a)
  <2>1. Calm /\ pc[a] = "conflict"
    BY <1>1 DEF EnterConflict, Calm, local
  <2>2. ~OverLimit(op[a].info.size)
    BY <1>f, <1>i, <2>1
  <2>3. base' = base
    BY <1>1, <2>2 DEF EnterConflict
  <2>4. CASE Goto(a, "record", [op[a] EXCEPT !.row = Converged(op[a].info, disk, disk)])
    BY <1>c, <2>1, <2>3, <2>4
  <2>5. ASSUME NEW label \in {"compare", "decide"}, Goto(a, label, op[a]) PROVE Gated'
    BY <1>k, <2>1, <2>3, <2>5
  <2> QED
    BY <1>1, <2>2, <2>4, <2>5 DEF EnterConflict, Go
<1>2. CASE Compare(a)
  <2>1. Calm /\ pc[a] = "compare" /\ base' = base
    BY <1>2 DEF Compare, Calm, local, db
  <2>2. CASE End(a, TRUE)
    BY <1>e, <2>1, <2>2
  <2>3. CASE Goto(a, "record", [op[a] EXCEPT !.row = Converged(op[a].info, disk, disk)])
    BY <1>c, <2>1, <2>3
  <2>4. CASE Goto(a, "decide", [op[a] EXCEPT !.data = srv.body])
    BY <1>d, <1>k, <2>1, <2>4
  <2> QED
    BY <1>2, <2>2, <2>3, <2>4 DEF Compare
<1>3. CASE CompareFails(a)
  <2>1. Calm /\ pc[a] = "compare" /\ base' = base /\ FailAndQueue(a)
    BY <1>3 DEF CompareFails, Calm, local, db
  <2> QED
    BY <2>1, FailureGated
<1>4. CASE Hold(a)
  <2>1. Calm /\ pc[a] = "decide" /\ base' = Flagged(a) /\ End(a, TRUE)
    BY <1>4 DEF Hold, Calm, local
  <2>2. a = "watch" /\ InForce' => Names(base', srv', rev')
    BY <2>1, CalmLasts, FlaggedNames
  <2> QED
    BY <2>1, <2>2, OverGated DEF Actors
<1>5. CASE Tie(a)
  <2>1. Calm /\ pc[a] = "decide" /\ root' = None /\ End(a, FALSE)
    BY <1>5 DEF Tie, Calm, local
  <2>2. ~InForce'
    <3>1. rev' \in Nat
      BY DEF TypeOK, ServerOK
    <3> QED
      BY <2>1, <3>1, BodyAssumption DEF InForce
  <2> QED
    BY <2>1, <2>2, OverGated
<1>6. CASE PreferLocal(a)
  <2>1. Calm /\ pc[a] = "decide" /\ base' = base /\ Goto(a, "readLocal", op[a])
    BY <1>6 DEF PreferLocal, Go, Calm, local, db
  <2> QED
    BY <1>k, <2>1
<1>7. CASE PreferRemote(a)
  <2>1. Calm /\ pc[a] = "decide" /\ base' = base
    BY <1>7 DEF PreferRemote, Calm, local, db
  <2>2. ASSUME NEW label \in {"fetch", "write"}, Goto(a, label, [op[a] EXCEPT !.how = "remote"])
        PROVE  Gated'
    BY <1>h, <1>k, <2>1, <2>2
  <2> QED
    BY <1>7, <2>2 DEF PreferRemote
<1>8. CASE Merge(a)
  <2>1. Calm /\ pc[a] = "decide" /\ base' = base
    BY <1>8 DEF Merge, Calm, local, db
  <2>2. CASE End(a, TRUE)
    BY <1>e, <2>1, <2>2
  <2>3. ASSUME NEW k, NEW label \in {"fetch", "merge"}, Goto(a, label, [op[a] EXCEPT !.how = k])
        PROVE  Gated'
    BY <1>h, <1>k, <2>1, <2>3
  <2> QED
    BY <1>8, <2>2, <2>3 DEF Merge
<1>9. CASE ReadLocal(a)
  <2>1. Calm /\ pc[a] = "readLocal" /\ base' = base
    BY <1>9 DEF ReadLocal, Calm, local, db
  <2>2. CASE End(a, TRUE)
    BY <1>e, <2>1, <2>2
  <2>3. CASE Goto(a, "sendLocal", [op[a] EXCEPT !.data = disk])
    BY <1>d, <1>k, <2>1, <2>3
  <2> QED
    BY <1>9, <1>f, <2>2, <2>3 DEF ReadLocal
<1>10. CASE SendLocal(a)
  <2>1. Calm /\ pc[a] = "sendLocal" /\ rev < rev'
    BY <1>0, <1>10 DEF SendLocal, Store, Calm, local, db
  <2> QED
    BY <1>10, <2>1, MovedGated DEF SendLocal
<1>11. CASE SendLocalFails(a)
  <2>1. Calm /\ pc[a] = "sendLocal" /\ base' = base /\ FailAndQueue(a)
    BY <1>0, <1>11 DEF SendLocalFails, Store, Calm, local, db
  <2> QED
    BY <2>1, FailureGated
<1>12. CASE WriteMerged(a)
  <2>1. Calm /\ pc[a] = "merge" /\ base' = Unsign(base) /\ Goto(a, "readMerged", op[a])
    BY <1>12 DEF WriteMerged, WriteDisk, Go, Calm
  <2> QED
    BY <1>k, <2>1
<1>13. CASE ReadMerged(a)
  <2>1. Calm /\ pc[a] = "readMerged"
    BY <1>13 DEF ReadMerged, Calm, local
  <2>2. CASE UNCHANGED base /\ End(a, TRUE)
    BY <1>e, <2>1, <2>2
  <2>3. CASE UNCHANGED base /\ Goto(a, "sendMerged", [op[a] EXCEPT !.data = disk])
    BY <1>d, <1>k, <2>1, <2>3
  <2> QED
    BY <1>13, <1>f, <2>2, <2>3 DEF ReadMerged
<1>14. CASE SendMerged(a)
  <2> DEFINE r == [op[a] EXCEPT
                     !.row = [RowFor(op[a].data) EXCEPT !.size = SizeOf(disk), !.conf = MergeUnclean(a)],
                     !.bad = @ \/ MergeUnclean(a)]
  <2>1. Calm /\ pc[a] = "sendMerged" /\ rev < rev' /\ Goto(a, "record", r)
    BY <1>0, <1>14 DEF SendMerged, Store, Calm, local, db
  <2> HIDE DEF r
  <2> QED
    BY <2>1, MovedGated
<1>15. CASE SendMergedFails(a)
  <2>1. /\ Calm /\ pc[a] = "sendMerged" /\ base' = NotPushed(a) /\ retry' = TRUE
        /\ End(a, MergeUnclean(a))
    BY <1>0, <1>15 DEF SendMergedFails, Store, Calm, local
  <2>2. ASSUME InForce', a = "watch" PROVE Names(base', srv', rev')
    <3>1. InForce /\ srv' = srv /\ rev' = rev
      BY <2>1, <2>2, CalmLasts
    <3>2. IdOf(op[a].info) = IdAt(srv, rev)
      BY <1>i, <2>1, <3>1, Known
    <3>3. base' \in OrNone(Row) /\ base'.rid = IdOf(op[a].info)
      BY <2>1 DEF NotPushed, TypeOK, DeviceOK
    <3>4. base' # None
      <4>1. op[a].info \in Info /\ IdOf(op[a].info) \in Id
        BY <1>0, <1>i, <2>1 DEF Op, OrNone, Info, IdOf, Id
      <4>2. SizeOf(disk) \in Nat /\ (base # None => base.hash \in OrNone(Body))
        BY <1>0, SizeAssumption DEF SizeOf, TypeOK, DeviceOK, OrNone, Row
      <4>3. base' \in Row
        BY <2>1, <4>1, <4>2 DEF NotPushed, Row, OrNone
      <4> QED
        BY <4>3, NoneAssumption
    <3> QED
      BY <3>1, <3>2, <3>3, <3>4 DEF Names
  <2> QED
    BY <2>1, <2>2, OverGated DEF Actors
<1> QED
  BY <1>1, <1>2, <1>3, <1>4, <1>5, <1>6, <1>7, <1>8, <1>9, <1>10, <1>11, <1>12, <1>13, <1>14, <1>15
     DEF Conflict

LEMMA DeletionGated ==
    ASSUME TypeOK, TypeOK', Remembered, Gated, Convergent, NEW a \in Actors, Deletion(a)
    PROVE  Gated'
<1>0. op[a] \in Op /\ OpOK(pc[a], op[a]) /\ rev \in Nat /\ ServerOK
  BY DEF TypeOK, ActorsOK, ServerOK
<1>i. pc[a] \in {"proof", "delete"} => op[a].info \in Info
  BY <1>0 DEF OpOK, NeedsInfo, Op, OrNone
<1> USE DEF Outside, Absent
<1>1. CASE ProveDeletion(a)
  <2> DEFINE r == [op[a] EXCEPT !.how = IF @ = "probed" THEN @ ELSE "get",
                                !.at = IF op[a].info.sum = None THEN rev ELSE @]
  <2>1. Calm /\ pc[a] = "proof" /\ base' = base
    BY <1>1 DEF ProveDeletion, Calm, local, db
  <2>2. PICK h \in ProofHashes(op[a].info) :
          IF h = None THEN End(a, FALSE)
          ELSE Goto(a, IF DeletionProven(a, h) THEN "delete" ELSE "fetch", r)
    BY <1>1 DEF ProveDeletion
  <2>3. r.info = op[a].info /\ r.base = op[a].base
    BY <1>0 DEF Op
  <2> HIDE DEF r
  <2>4. CASE h = None
    <3>1. ~InForce'
      <4>1. srv.body = None
        BY <2>2, <2>4 DEF ProofHashes, Convergent
      <4> QED
        BY <2>1, <4>1, CalmLasts DEF InForce
    <3> QED
      BY <2>1, <2>2, <2>4, <3>1, OverGated
  <2>5. CASE h # None
    <3>1. ASSUME NEW label \in {"delete", "fetch"}, Goto(a, label, r) PROVE Gated'
      BY <2>1, <2>3, <3>1, KeepGated
    <3> QED
      BY <2>2, <2>5, <3>1
  <2> QED
    BY <2>4, <2>5
<1>2. CASE DeleteRemote(a)
  <2>1. Calm /\ pc[a] = "delete" /\ End(a, FALSE)
    <3>1. UNCHANGED server \/ rev < rev'
      BY <1>0, <1>2 DEF DeleteRemote, Removed
    <3> QED
      BY <1>2, <3>1 DEF DeleteRemote, Drop, Calm, local
  <2>2. ~InForce'
    BY <1>2 DEF DeleteRemote, Removed, server, InForce
  <2> QED
    BY <2>1, <2>2, OverGated
<1>3. CASE DeleteFails(a)
  <2>1. Calm /\ pc[a] = "delete" /\ base' = base /\ FailAndQueue(a)
    BY <1>0, <1>3 DEF DeleteFails, Removed, Calm, local, db
  <2> QED
    BY <2>1, FailureGated
<1>4. CASE ProbeMissing(a)
  <2>1. Calm /\ pc[a] = "missing" /\ UNCHANGED server
    BY <1>4 DEF ProbeMissing, Calm, local
  <2>2. CASE srv.body = None /\ Drop(a)
    <3>1. ~InForce' /\ End(a, FALSE)
      BY <2>1, <2>2 DEF InForce, Drop, server
    <3> QED
      BY <2>1, <3>1, OverGated DEF Gated
  <2>3. CASE /\ UNCHANGED base /\ srv.body # None
             /\ Goto(a, "proof", [op[a] EXCEPT !.info = Listed, !.at = rev, !.how = "probed"])
    <3> DEFINE r == [op[a] EXCEPT !.info = Listed, !.at = rev, !.how = "probed"]
    <3>1. r.info = Listed /\ r.base = op[a].base /\ Goto(a, "proof", r)
      BY <1>0, <2>3 DEF Op
    <3> HIDE DEF r
    <3>2. Listed # None /\ IdOf(Listed) = IdAt(srv, rev)
      BY <1>0, <2>3, ListedId, NoneAssumption
    <3>3. Restartable'
      <4>1. "crash" \in Env => pc'["watch"] = "idle"
        BY <2>1, <3>1 DEF Gated, Restartable, Goto, TypeOK, ActorsOK
      <4> QED
        BY <2>1, <4>1, CalmRestarts DEF Gated
    <3>4. ASSUME InForce' PROVE Knows(a, "proof", r, base', retry', srv', rev')
      <4>1. InForce /\ srv' = srv /\ rev' = rev
        BY <2>1, <3>4, CalmLasts
      <4>2. a = "watch" => Names(base', srv, rev) /\ (r.base # None => Names(r.base, srv, rev))
        BY <2>1, <2>3, <3>1, <4>1, Known
      <4> QED
        BY <3>1, <3>2, <4>1, <4>2 DEF Knows
    <3> QED
      BY <2>1, <3>1, <3>3, <3>4, StepGated
  <2> QED
    BY <1>4, <2>2, <2>3 DEF ProbeMissing
<1>5. CASE ProbeMissingFails(a)
  <2>1. Calm /\ pc[a] = "missing" /\ base' = base /\ End(a, TRUE)
    BY <1>5 DEF ProbeMissingFails, Calm, local, db
  <2>2. a = "watch" /\ InForce' => Names(base', srv', rev')
    BY <2>1, CalmLasts, Known
  <2> QED
    BY <2>1, <2>2, OverGated DEF Actors
<1> QED
  BY <1>1, <1>2, <1>3, <1>4, <1>5 DEF Deletion
-----------------------------------------------------------------------------
LEMMA InitGated == Init => Gated
<1> SUFFICES ASSUME Init PROVE Gated
  OBVIOUS
<1>1. /\ pc = [a \in Actors |-> "idle"] /\ rev = 0
      /\ saved = [base |-> base, root |-> root, skips |-> skips]
      /\ events = {} /\ pending = FALSE /\ timer = FALSE
  BY DEF Init
<1>2. root = rev /\ srv.body # None => Names(base, srv, rev)
  <2>1. CASE Unseen
    BY <1>1, <2>1, BodyAssumption DEF Unseen
  <2>2. CASE Synced
    <3>1. PICK b \in Body : srv = [body |-> b, sum |-> TRUE] /\ base = RowFor(b)
      BY <2>2 DEF Synced
    <3>2. RowFor(b) \in Row /\ RowFor(b).rid = b
      BY SizeAssumption DEF RowFor, Row, OrNone, Id
    <3> QED
      BY <3>1, <3>2, NoneAssumption DEF Names, IdAt
  <2> QED
    BY <2>1, <2>2 DEF Init
<1>3. Alone /\ Restartable
  BY <1>1, <1>2 DEF Alone, Restartable, Actors
<1> QED
  BY <1>1, <1>2, <1>3 DEF Gated, Absent, InForce, Knows, Actors

LEMMA NextGated ==
    ASSUME Convergent
    PROVE  TypeOK /\ TypeOK' /\ Remembered /\ Gated /\ [Next]_vars => Gated'
<1> SUFFICES ASSUME TypeOK, TypeOK', Remembered, Gated, [Next]_vars PROVE Gated'
  OBVIOUS
<1>1. CASE Environment
  BY <1>1, EnvironmentGated
<1>2. CASE Session
  BY <1>2, SessionGated
<1>3. CASE Watch
  BY <1>3, WatchGated
<1>4. ASSUME NEW a \in Actors, Transfer(a) PROVE Gated'
  BY <1>4, TransferGated
<1>5. ASSUME NEW a \in Actors, Conflict(a) PROVE Gated'
  BY <1>5, ConflictGated
<1>6. ASSUME NEW a \in Actors, Deletion(a) PROVE Gated'
  BY <1>6, DeletionGated
<1>7. CASE UNCHANGED vars
  BY <1>7 DEF vars, Gated, Alone, Restartable, InForce, Running
<1> QED
  BY <1>1, <1>2, <1>3, <1>4, <1>5, <1>6, <1>7 DEF Next, Environment

LEMMA GateHolds ==
    ASSUME Convergent
    PROVE  Spec => [](TypeOK /\ Remembered /\ Gated)
<1>1. TypeOK /\ TypeOK' /\ Remembered /\ [Next]_vars => Remembered'
  BY NextRemembered
<1>2. TypeOK /\ TypeOK' /\ Remembered /\ Gated /\ [Next]_vars => Gated'
  BY NextGated
<1> QED
  BY <1>1, <1>2, InitRemembered, InitGated, TypeCorrect, PTL DEF Spec

\* The convergence gate (docs/spec.md 8a.5) keeps its promise wherever none of the
\* behaviours is at large under which it fails (a session during a watch operation, a
\* stop, a throwing scan, a lost proof, a crash in watch mode, a file over the size
\* limit), for any contents, decisions, edits and failures: between sessions, a stored
\* root ETag that is the server's means that the row names the server's version.
THEOREM GateConverges ==
    ASSUME Convergent
    PROVE  Spec => []ArmedMeansConverged
<1>1. TypeOK /\ Gated => ArmedMeansConverged
  BY ListedId DEF TypeOK, Gated, ArmedMeansConverged, InForce, Names, RowMatchesServer
<1> QED
  BY <1>1, GateHolds, PTL

\* There, with no slow edit either, a blind DELETE destroys only the content this
\* device last synced, or a version that appeared after the proof was taken.
THEOREM ConvergentDeletions ==
    ASSUME Orderly, Convergent
    PROVE  Spec => DeleteIsProven
  BY GateConverges, DeletionsProven, PTL

\* There, an ordinary upload replaces only the version its edit was based on, or one
\* that appeared after the listing and whose ETag it had no way to know.
THEOREM ConvergentUploads ==
    ASSUME Orderly, Convergent
    PROVE  Spec => UploadReplacesBaseline
  BY GateConverges, UploadsReplaceBaseline, PTL
-----------------------------------------------------------------------------
(***************************************************************************)
(* A file deleted on the server.  Once the root ETag is the server's, the  *)
(* listing a short circuit rebuilds from the row has the file again, and   *)
(* only a vault file that is the row's gives it away as unchanged.  So the *)
(* deletion is missed in one way: the vault gets the row's content back    *)
(* while the short circuit is armed.                                       *)
(***************************************************************************)
\* The file gets the content a row names while its root ETag is the server's, which
\* has no such file.
PutBack(b, r) == /\ r = rev /\ srv.body = None /\ b # None
                 /\ disk' # disk /\ disk' # None /\ disk' \in {b.hash, b.rid}
HidesDeletion == \/ PutBack(base, root)
                 \/ "crash" \in Env /\ PutBack(saved.base, saved.root)

\* Where the session looks at every file it could not find in the listing.
Heeding == /\ Env \cap {"overlap", "slowEdit", "stop", "throw", "noAnswer"} = {}
           /\ ~({"watch", "crash"} \subseteq Env)
           /\ NoneTooLarge

\* A short circuit finds the vault's file d changed since its row b.
Departed(b, d) == b = None \/ d = None \/ d \notin {b.hash, b.rid}

\* The stored root ETag, or the one a crash brings back, is the server's, which has
\* no such file.
Vacant == root = rev /\ srv.body = None
Deserted == srv.body = None /\ (root = rev \/ ("crash" \in Env /\ saved.root = rev))

\* Nothing was fetched from a server that has nothing.
Fetching == {"write", "merge", "readMerged", "sendMerged"}
Deciding == {"conflict", "compare", "decide"}
Unfetched(label, o) == label \notin Fetching /\ (label \in Deciding => o.data = None)

\* What a session that took the short circuit goes by.
SameFile(x, b) == x = None \/ (b # None /\ x.hash = b.hash /\ x.rid = b.rid)
Recalls(o, b, d) == /\ Departed(b, d) /\ b # None /\ b.rid = IdOf(o.info)
                    /\ SameFile(o.base, b)
                    /\ o.info.sum = None \/ o.info.etag = None

\* A session ends with a changed file, or with something for the gate to see.
Heeds(label, o, b, d, again) ==
    /\ label # "record"
    /\ label \in Outside => Departed(b, d)
    /\ label = "end" => o.bad \/ again \/ Departed(b, d)
    /\ label = "recheck" => o.bad \/ again \/ Departed(b, d) \/ d = b.hash
    /\ label \notin Outside /\ o.info # None => Recalls(o, b, d)
    /\ label \in Deciding => o.info # None /\ o.info.sum = None

\* A single-file operation found no file on the server, and recorded none.
Attends(label, o, b, d) == label # "idle" => Departed(b, d) /\ o.info = None /\ label # "record"

\* What a crash brings back.
Recoverable == "crash" \in Env =>
    /\ pc["watch"] = "idle" /\ events = {} /\ ~pending /\ ~timer
    /\ saved.root = rev /\ srv.body = None => Departed(saved.base, disk)

\* The inductive invariant.
Ghostless ==
    /\ Recoverable
    /\ pc["scan"] \in {"probe", "list", "classify"} => op["scan"].data = None /\ op["scan"].base = None
    /\ pc["scan"] \in Absent => op["scan"].info = None
    /\ Deserted => Unfetched(pc["scan"], op["scan"])
    /\ Vacant => /\ Heeds(pc["scan"], op["scan"], base, disk, retry)
                 /\ Attends(pc["watch"], op["watch"], base, disk)
-----------------------------------------------------------------------------
\* No deletion becomes one to hide by the server moving on.
LEMMA CalmVacant ==
    ASSUME TypeOK, TypeOK', Remembered, Calm
    PROVE  /\ Vacant' => Vacant /\ srv' = srv /\ rev' = rev /\ root' = root
           /\ Deserted' => Deserted /\ srv' = srv /\ rev' = rev
<1>1. /\ rev \in Nat /\ rev' \in Nat /\ root' \in OrNone(Nat)
      /\ saved \in [base: OrNone(Row), root: OrNone(Nat), skips: Nat]
      /\ (root \in Nat => root <= rev) /\ (saved.root \in Nat => saved.root <= rev)
  BY DEF TypeOK, ServerOK, DeviceOK, Remembered, Past
<1>2. saved'.root = saved.root
  BY <1>1 DEF Calm
<1>3. ASSUME root' = rev' PROVE root' = root
  BY <1>1, <1>3, BodyAssumption DEF Calm
<1>4. ASSUME root' = rev' \/ saved'.root = rev' PROVE srv' = srv /\ rev' = rev
  <2>1. ~(rev < rev')
    BY <1>1, <1>2, <1>3, <1>4
  <2> QED
    BY <2>1 DEF Calm, server
<1> QED
  BY <1>2, <1>3, <1>4 DEF Vacant, Deserted

LEMMA SameContent ==
    \A b \in OrNone(Row) : /\ \A d : Departed(b, d) => Departed(Unsign(b), d)
                           /\ SameFile(Unsign(b), b)
                           /\ \A x : SameFile(x, b) => SameFile(x, Unsign(b))
                           /\ b # None => Unsign(b) # None /\ Unsign(b).rid = b.rid
<1> SUFFICES ASSUME NEW b \in OrNone(Row), b # None
             PROVE  Unsign(b) # None /\ Unsign(b).hash = b.hash /\ Unsign(b).rid = b.rid
  BY DEF Departed, SameFile, Unsign
<1> QED
  BY NoneAssumption DEF Unsign, OrNone, Row

\* No step of a session gives a deserted file content, as nothing was fetched.
LEMMA CalmRecovers ==
    ASSUME TypeOK, TypeOK', Remembered, Recoverable, Calm,
           "crash" \in Env => pc'["watch"] = "idle",
           Deserted => disk' \in {disk, None}
    PROVE  Recoverable'
<1> SUFFICES ASSUME "crash" \in Env, saved'.root = rev', srv'.body = None
             PROVE  Departed(saved'.base, disk')
  BY DEF Recoverable, Calm, watchVars
<1>1. Deserted /\ srv' = srv /\ rev' = rev
  BY CalmVacant DEF Deserted
<1>2. saved \in [base: OrNone(Row), root: OrNone(Nat), skips: Nat]
  BY DEF TypeOK, DeviceOK
<1>3. saved'.root = saved.root /\ (saved'.base = saved.base \/ saved'.base = Unsign(saved.base))
  BY <1>2 DEF Calm
<1>4. Departed(saved.base, disk)
  BY <1>1, <1>3 DEF Recoverable
<1>5. Departed(saved'.base, disk)
  BY <1>2, <1>3, <1>4, SameContent
<1> QED
  BY <1>1, <1>5 DEF Departed

\* The step of an actor in the middle of an operation: the other one is idle.
LEMMA StepGhostless ==
    ASSUME TypeOK, TypeOK', Alone, NEW a \in Actors, NEW label, NEW r,
           pc[a] # "idle", Goto(a, label, r), label # "idle", Recoverable',
           a = "scan" => /\ label \in {"probe", "list", "classify"} => r.data = None /\ r.base = None
                         /\ label \in Absent => r.info = None
                         /\ Deserted' => Unfetched(label, r)
                         /\ Vacant' => Heeds(label, r, base', disk', retry'),
           a = "watch" /\ Vacant' => Attends(label, r, base', disk')
    PROVE  Ghostless'
<1>1. pc'[a] = label /\ op'[a] = r
  BY DEF Goto, TypeOK, ActorsOK
<1>2. CASE a = "scan"
  <2>1. pc'["watch"] = "idle"
    BY <1>2 DEF Alone, Goto, TypeOK, ActorsOK, Actors
  <2> QED
    BY <1>1, <1>2, <2>1 DEF Ghostless, Attends
<1>3. CASE a = "watch"
  <2>1. pc'["scan"] = "idle"
    BY <1>3 DEF Alone, Goto, TypeOK, ActorsOK, Actors
  <2>2. Unfetched(pc'["scan"], op'["scan"])
    BY <2>1 DEF Unfetched, Fetching, Deciding
  <2>3. ASSUME Vacant' PROVE Attends(label, r, base', disk') /\ Departed(base', disk')
    BY <1>3, <2>3 DEF Attends
  <2>4. Vacant' => Heeds(pc'["scan"], op'["scan"], base', disk', retry')
    BY <2>1, <2>3 DEF Heeds, Outside, Deciding
  <2> QED
    BY <1>1, <1>3, <2>1, <2>2, <2>3, <2>4 DEF Ghostless, Absent
<1> QED
  BY <1>2, <1>3 DEF Actors

\* A step that arms nothing: of the server, nothing is there to be learnt.
LEMMA CalmGhostless ==
    ASSUME TypeOK, TypeOK', Remembered, Alone, Ghostless, Calm, NEW a \in Actors, NEW label, NEW r,
           pc[a] # "idle", Goto(a, label, r), label # "idle",
           Deserted => disk' \in {disk, None},
           a = "scan" => /\ label \in {"probe", "list", "classify"} => r.data = None /\ r.base = None
                         /\ label \in Absent => r.info = None
                         /\ Deserted /\ srv' = srv /\ rev' = rev => Unfetched(label, r),
           a = "scan" /\ Vacant /\ srv' = srv /\ rev' = rev /\ root' = root
               => Heeds(label, r, base', disk', retry'),
           a = "watch" /\ Vacant /\ srv' = srv /\ rev' = rev /\ root' = root
               => Attends(label, r, base', disk')
    PROVE  Ghostless'
<1>1. "crash" \in Env => pc'["watch"] = "idle"
  BY DEF Ghostless, Recoverable, Goto, TypeOK, ActorsOK
<1>2. Recoverable'
  BY <1>1, CalmRecovers DEF Ghostless
<1>3. /\ Vacant' => Vacant /\ srv' = srv /\ rev' = rev /\ root' = root
      /\ Deserted' => Deserted /\ srv' = srv /\ rev' = rev
  BY CalmVacant
<1> QED
  BY <1>2, <1>3, StepGhostless

\* The server has a new version, or the stored root ETag is gone: there is no ghost.
LEMMA MovedGhostless ==
    ASSUME TypeOK, TypeOK', Remembered, Alone, Ghostless, Calm, NEW a \in Actors, NEW label, NEW r,
           pc[a] # "idle", Goto(a, label, r),
           label \notin {"idle", "probe", "list", "classify"} \cup Absent, rev < rev',
           Deserted => disk' \in {disk, None}
    PROVE  Ghostless'
<1>1. rev' # rev
  BY DEF TypeOK, ServerOK
<1> QED
  BY <1>1, CalmGhostless

\* What an actor in the middle of an operation goes by.
LEMMA Heard ==
    ASSUME Ghostless, Vacant, NEW a \in Actors, pc[a] \notin Outside
    PROVE  /\ pc[a] # "record"
           /\ a = "watch" => Departed(base, disk) /\ op[a].info = None
           /\ a = "scan" /\ op[a].info # None => Recalls(op[a], base, disk)
<1>1. a = "scan" \/ a = "watch"
  BY DEF Actors
<1> QED
  BY <1>1 DEF Ghostless, Heeds, Attends, Outside

\* A step on, with what the actor already knows.
LEMMA KeepGhostless ==
    ASSUME TypeOK, TypeOK', Remembered, Alone, Ghostless, Calm, NEW a \in Actors, NEW label, NEW r,
           pc[a] \notin Outside \cup {"end"}, Goto(a, label, r),
           label \notin Outside \cup Absent \cup Fetching \cup {"classify", "end", "record"},
           label \in Deciding => pc[a] \in Deciding /\ r.data \in {op[a].data, None},
           r.info = op[a].info, r.base = op[a].base, base' = base, disk' = disk
    PROVE  Ghostless'
<1>1. pc[a] \notin Outside /\ pc[a] # "idle" /\ label # "idle"
  BY DEF Outside
<1>2. ASSUME a = "scan", Deserted PROVE Unfetched(label, r)
  BY <1>2 DEF Ghostless, Unfetched
<1>3. ASSUME a = "scan", Vacant PROVE Heeds(label, r, base', disk', retry')
  <2>1. r.info # None => Recalls(r, base', disk')
    BY <1>1, <1>3, Heard DEF Recalls
  <2>2. label \in Deciding => r.info # None /\ r.info.sum = None
    BY <1>3 DEF Ghostless, Heeds
  <2> QED
    BY <2>1, <2>2 DEF Heeds, Absent
<1>4. ASSUME a = "watch", Vacant PROVE Attends(label, r, base', disk')
  BY <1>1, <1>4, Heard DEF Attends
<1>5. label \notin {"probe", "list", "classify"} \cup Absent
  BY DEF Outside
<1> QED
  BY <1>1, <1>2, <1>3, <1>4, <1>5, CalmGhostless

\* The file is done: it departed from its row, or something is left for the gate.
LEMMA OverGhostless ==
    ASSUME TypeOK, TypeOK', Remembered, Alone, Ghostless, Calm, NEW a \in Actors, NEW bad,
           pc[a] # "idle", End(a, bad) \/ Done(a, bad),
           Deserted => disk' \in {disk, None},
           Vacant /\ srv' = srv /\ rev' = rev /\ root' = root
               => (a = "scan" /\ (bad \/ retry')) \/ Departed(base', disk')
    PROVE  Ghostless'
<1>1. CASE End(a, bad)
  <2> DEFINE r == [NoOp EXCEPT !.bad = bad \/ op[a].bad]
  <2>1. r.info = None /\ r.bad = (bad \/ op[a].bad) /\ Goto(a, "end", r)
    BY <1>1 DEF End, NoOp
  <2> HIDE DEF r
  <2>2. Unfetched("end", r)
    BY DEF Unfetched, Fetching, Deciding
  <2>3. (bad \/ retry') \/ Departed(base', disk') => Heeds("end", r, base', disk', retry')
    BY <2>1 DEF Heeds, Outside, Deciding
  <2>4. Departed(base', disk') => Attends("end", r, base', disk')
    BY <2>1 DEF Attends
  <2> QED
    BY <2>1, <2>2, <2>3, <2>4, CalmGhostless DEF Absent
<1>2. CASE a = "scan" /\ op[a].info = None /\ Goto(a, "recheck", [op[a] EXCEPT !.bad = @ \/ bad])
  <2> DEFINE r == [op[a] EXCEPT !.bad = @ \/ bad]
  <2>1. r.info = None /\ r.bad = (op[a].bad \/ bad) /\ Goto(a, "recheck", r)
    BY <1>2 DEF TypeOK, ActorsOK, Op
  <2> HIDE DEF r
  <2>2. Unfetched("recheck", r)
    BY DEF Unfetched, Fetching, Deciding
  <2>3. (bad \/ retry') \/ Departed(base', disk') => Heeds("recheck", r, base', disk', retry')
    BY <2>1 DEF Heeds, Outside, Deciding
  <2> QED
    BY <1>2, <2>1, <2>2, <2>3, CalmGhostless
<1> QED
  BY <1>1, <1>2 DEF Done

LEMMA FailureGhostless ==
    ASSUME TypeOK, TypeOK', Remembered, Alone, Ghostless, Calm, NEW a \in Actors, FailAndQueue(a),
           pc[a] \notin Outside, UNCHANGED <<base, disk>>
    PROVE  Ghostless'
<1>1. pc[a] # "idle" /\ Done(a, TRUE)
  BY DEF FailAndQueue, Outside
<1>2. Vacant /\ a = "watch" => Departed(base', disk')
  BY Heard
<1> QED
  BY <1>1, <1>2, OverGhostless DEF Actors
-----------------------------------------------------------------------------
LEMMA HeldBack ==
    ASSUME TypeOK, ~HidesDeletion, disk' # disk
    PROVE  /\ Vacant => Departed(base, disk')
           /\ "crash" \in Env /\ saved.root = rev /\ srv.body = None => Departed(saved.base, disk')
  BY DEF HidesDeletion, PutBack, Departed, Vacant

LEMMA EnvironmentGhostless ==
    ASSUME TypeOK, TypeOK', Remembered, Alone, Ghostless, Heeding, ~HidesDeletion, Environment
    PROVE  Ghostless'
<1>0. base \in OrNone(Row) /\ \A a \in Actors : op[a] \in Op
  BY DEF TypeOK, DeviceOK, ActorsOK
<1>1. CASE UserEdit
  <2>1. PICK b \in OrNone(Body) \ {disk}, filtered \in Filters : UserEdit!(b, filtered)
    BY <1>1 DEF UserEdit
  <2>2. /\ srv' = srv /\ rev' = rev /\ root' = root /\ base' = Unsign(base) /\ retry' = retry
        /\ saved' = [saved EXCEPT !.base = Unsign(saved.base)]
        /\ pending' = pending /\ timer' = timer /\ disk' = b /\ b # disk
    BY <2>1 DEF server, WriteDisk
  <2>3. saved'.root = saved.root /\ saved'.base = Unsign(saved.base) /\ saved.base \in OrNone(Row)
    BY <2>2 DEF TypeOK, DeviceOK
  <2>4. (Vacant' <=> Vacant) /\ (Deserted' <=> Deserted)
    BY <2>2, <2>3 DEF Vacant, Deserted
  <2>5. Vacant => Departed(base', disk')
    BY <1>0, <2>2, HeldBack, SameContent
  <2>6. Recoverable'
    <3>1. "crash" \in Env => filtered = TRUE
      BY DEF Heeding, Filters
    <3>2. ASSUME "crash" \in Env PROVE pc'["watch"] = "idle" /\ events' = {}
      BY <2>1, <3>1, <3>2 DEF Ghostless, Recoverable
    <3>3. "crash" \in Env /\ saved'.root = rev' /\ srv'.body = None => Departed(saved'.base, disk')
      BY <2>2, <2>3, HeldBack, SameContent
    <3> QED
      BY <2>2, <3>2, <3>3 DEF Ghostless, Recoverable
  <2>7. CASE op' = [a \in Actors |-> Raced(a)] /\ pc' = pc
    <3>1. \A a \in Actors : /\ op'[a].info = op[a].info /\ op'[a].base = op[a].base
                            /\ op'[a].data = op[a].data /\ op'[a].bad = op[a].bad
      BY <1>0, <2>7 DEF Raced, Op
    <3>2. "scan" \in Actors /\ "watch" \in Actors
      BY DEF Actors
    <3>3. Deserted => Unfetched(pc'["scan"], op'["scan"])
      BY <2>7, <3>1, <3>2 DEF Ghostless, Unfetched
    <3>4. ASSUME Vacant PROVE Heeds(pc'["scan"], op'["scan"], base', disk', retry')
      <4>1. Heeds(pc["scan"], op["scan"], base, disk, retry)
        BY <3>4 DEF Ghostless
      <4>2. Recalls(op["scan"], base, disk) => Recalls(op'["scan"], base', disk')
        BY <1>0, <2>2, <2>5, <3>1, <3>2, <3>4, SameContent DEF Recalls
      <4> QED
        BY <2>2, <2>5, <2>7, <3>1, <3>2, <3>4, <4>1, <4>2 DEF Heeds
    <3>5. ASSUME Vacant PROVE Attends(pc'["watch"], op'["watch"], base', disk')
      BY <2>5, <2>7, <3>1, <3>2, <3>5 DEF Ghostless, Attends
    <3> QED
      BY <2>4, <2>6, <2>7, <3>1, <3>2, <3>3, <3>4, <3>5 DEF Ghostless
  <2>8. CASE /\ DeletionStarts /\ pc' = [pc EXCEPT !["watch"] = "missing"]
             /\ op' = [op EXCEPT !["watch"] = StartDeletion]
    <3>1. /\ pc'["scan"] = "idle" /\ pc'["watch"] = "missing" /\ op'["watch"] = StartDeletion
      BY <2>8 DEF DeletionStarts, Running, TypeOK, ActorsOK, Actors
    <3>2. StartDeletion.info = None
      BY DEF StartDeletion, NoOp
    <3>3. Unfetched("idle", op'["scan"])
      BY DEF Unfetched, Fetching, Deciding
    <3>4. ASSUME Vacant
          PROVE  /\ Heeds("idle", op'["scan"], base', disk', retry')
                 /\ Attends("missing", op'["watch"], base', disk')
      BY <2>5, <3>1, <3>2, <3>4 DEF Heeds, Attends, Outside, Deciding
    <3> QED
      BY <2>4, <2>6, <3>1, <3>3, <3>4 DEF Ghostless, Absent
  <2> QED
    BY <2>1, <2>7, <2>8
<1>2. CASE ForeignEdit
  <2>1. rev' = rev + 1 /\ UNCHANGED <<root, saved, disk, pc, op>> /\ UNCHANGED watchVars
    BY <1>2 DEF ForeignEdit, db, local
  <2>2. Calm /\ rev < rev' /\ rev' # rev
    BY <2>1 DEF Calm, TypeOK, ServerOK
  <2>3. ~Vacant' /\ ~Deserted'
    BY <2>2, CalmVacant
  <2>4. Recoverable'
    BY <2>1, <2>2, CalmRecovers DEF Ghostless, Recoverable
  <2> QED
    BY <2>1, <2>3, <2>4 DEF Ghostless
<1>3. CASE SaveTimer
  <2>1. timer /\ UNCHANGED <<srv, rev, disk, base, root, retry, pc, op>>
    BY <1>3 DEF SaveTimer, server, db
  <2>2. "crash" \notin Env
    BY <2>1 DEF Ghostless, Recoverable
  <2>3. Recoverable' /\ (Deserted' <=> Deserted) /\ (Vacant' <=> Vacant)
    BY <2>1, <2>2 DEF Recoverable, Deserted, Vacant
  <2> QED
    BY <2>1, <2>3 DEF Ghostless
<1>4. CASE Crash
  <2>1. /\ "crash" \in Env /\ srv' = srv /\ rev' = rev /\ saved' = saved /\ base' = saved.base
        /\ root' = saved.root /\ disk' = disk
        /\ timer' = FALSE /\ pending' = FALSE /\ events' = {}
    BY <1>4 DEF Crash, server, local
  <2>2. pc'["scan"] = "idle" /\ pc'["watch"] = "idle"
    BY <1>4 DEF Crash, Actors
  <2>3. Vacant' => Departed(base', disk')
    BY <2>1 DEF Ghostless, Recoverable, Vacant
  <2>4. Recoverable'
    BY <2>1, <2>2 DEF Ghostless, Recoverable
  <2> QED
    BY <2>2, <2>3, <2>4 DEF Ghostless, Absent, Unfetched, Heeds, Attends, Outside, Deciding, Fetching
<1> QED
  BY <1>1, <1>2, <1>3, <1>4 DEF Environment

LEMMA SessionGhostless ==
    ASSUME TypeOK, TypeOK', Remembered, Truthful, Ghostless, Heeding, Session
    PROVE  Ghostless'
<1>0. /\ "scan" \in Actors /\ op["scan"] \in Op /\ rev \in Nat /\ base \in OrNone(Row) /\ Alone
      /\ Deserted => Unfetched(pc["scan"], op["scan"])
      /\ Vacant => Heeds(pc["scan"], op["scan"], base, disk, retry)
  BY DEF Actors, TypeOK, ActorsOK, ServerOK, DeviceOK, Truthful, Ghostless
<1>w. pc["scan"] # "idle" => pc["watch"] = "idle"
  BY <1>0 DEF Alone
<1>u. \A label, o : label \notin Fetching \cup Deciding => Unfetched(label, o)
  BY DEF Unfetched
<1>1. CASE StartSession
  <2>1. /\ pc["scan"] = "idle" /\ pc'["scan"] = "probe" /\ op'["scan"] = NoOp /\ pc'["watch"] = "idle"
        /\ UNCHANGED <<srv, rev, disk, base, root, saved, retry>> /\ UNCHANGED watchVars
    BY <1>1 DEF StartSession, Goto, TypeOK, ActorsOK, Actors, server, local, db, Heeding
  <2>2. Recoverable' /\ (Vacant' => Vacant)
    BY <2>1 DEF Ghostless, Recoverable, Vacant, watchVars
  <2>3. NoOp.info = None /\ NoOp.data = None /\ NoOp.base = None /\ Unfetched("probe", NoOp)
    BY <1>u DEF NoOp, Fetching, Deciding
  <2>4. Vacant => Heeds("probe", NoOp, base, disk, retry)
    BY <1>0, <2>1 DEF Heeds, Outside, Deciding
  <2> QED
    BY <2>1, <2>2, <2>3, <2>4 DEF Ghostless, Attends, Absent
<1>2. CASE ProbeRoot
  <2>1. PICK cur \in RootEtag : ProbeRoot!(cur)
    BY <1>2 DEF ProbeRoot
  <2>2. /\ pc["scan"] = "probe" /\ Calm /\ base' = base /\ disk' = disk
        /\ op["scan"].data = None /\ op["scan"].base = None
    BY <2>1 DEF Calm, server, local, Ghostless
  <2>3. Vacant => Departed(base, disk)
    BY <1>0, <2>2 DEF Heeds, Outside
  <2>4. CASE Listing(Rebuilt(base), cur)
    <3> DEFINE r == [op["scan"] EXCEPT !.info = Rebuilt(base), !.at = cur, !.raced = FALSE]
    <3>1. /\ r.info = Rebuilt(base) /\ r.data = None /\ r.base = None /\ Goto("scan", "classify", r)
      BY <1>0, <2>2, <2>4 DEF Op, Listing
    <3> HIDE DEF r
    <3>2. ASSUME base # None
          PROVE  /\ IdOf(Rebuilt(base)) = base.rid
                 /\ Rebuilt(base).sum = None \/ Rebuilt(base).etag = None
      BY <1>0, <3>2, BodyAssumption DEF Rebuilt, IdOf, OrNone, Row, Id
    <3>3. base = None => Rebuilt(base) = None
      BY DEF Rebuilt
    <3>4. ASSUME Vacant PROVE Heeds("classify", r, base', disk', retry')
      <4>1. ASSUME base # None PROVE Recalls(r, base, disk)
        BY <2>3, <3>1, <3>2, <3>4, <4>1 DEF Recalls, SameFile
      <4> QED
        BY <2>2, <3>1, <3>3, <4>1 DEF Heeds, Outside, Deciding
    <3> QED
      BY <1>0, <1>u, <2>2, <3>1, <3>4, CalmGhostless DEF Absent, Fetching, Deciding
  <2>5. CASE Goto("scan", "list", [op["scan"] EXCEPT !.cur = cur])
    <3> DEFINE r == [op["scan"] EXCEPT !.cur = cur]
    <3>1. r.data = None /\ r.base = None /\ Goto("scan", "list", r)
      BY <1>0, <2>2, <2>5 DEF Op
    <3> HIDE DEF r
    <3>2. Vacant => Heeds("list", r, base', disk', retry')
      BY <2>2, <2>3 DEF Heeds, Outside, Deciding
    <3> QED
      BY <1>0, <1>u, <2>2, <3>1, <3>2, CalmGhostless DEF Absent, Fetching, Deciding
  <2> QED
    BY <2>1, <2>4, <2>5
<1>3. CASE ListRemote
  <2> DEFINE r == [op["scan"] EXCEPT !.info = Listed, !.at = rev, !.raced = FALSE]
  <2>1. /\ r.info = Listed /\ r.data = None /\ r.base = None
        /\ Goto("scan", "classify", r) /\ pc["scan"] = "list"
    BY <1>0, <1>3 DEF Op, ListRemote, Listing, Ghostless
  <2>2. /\ srv' = srv /\ rev' = rev /\ UNCHANGED <<saved, base, disk>> /\ UNCHANGED watchVars
        /\ pc'["watch"] = pc["watch"]
    BY <1>3 DEF ListRemote, server, local, Listing, Goto, TypeOK, ActorsOK
  <2> HIDE DEF r
  <2>3. Recoverable'
    BY <2>2 DEF Ghostless, Recoverable, watchVars
  <2>4. ASSUME Vacant' PROVE Heeds("classify", r, base', disk', retry')
    <3>1. r.info = None
      BY <2>1, <2>2, <2>4 DEF Vacant, Listed
    <3> QED
      BY <3>1 DEF Heeds, Outside, Deciding
  <2> QED
    BY <1>0, <1>u, <2>1, <2>3, <2>4, StepGhostless DEF Absent, Fetching, Deciding
<1>4. CASE ListFails
  <2> DEFINE r == [NoOp EXCEPT !.bad = TRUE]
  <2>1. pc["scan"] = "list" /\ Calm /\ base' = base /\ disk' = disk /\ Goto("scan", "finish", r)
    BY <1>4 DEF ListFails, Calm, local, db
  <2> HIDE DEF r
  <2>2. Vacant => Heeds("finish", r, base', disk', retry')
    BY <1>0, <2>1 DEF Heeds, Outside, Deciding
  <2> QED
    BY <1>0, <1>u, <2>1, <2>2, CalmGhostless DEF Absent, Fetching, Deciding
<1>5. CASE Gate
  <2>1. /\ pc["scan"] = "end" /\ Calm /\ base' = base /\ disk' = disk /\ retry' = retry
        /\ Goto("scan", "finish", op["scan"]) /\ root' = Armed
    BY <1>5 DEF Gate, Go, Calm, Armed, local
  <2>2. ASSUME Vacant, root' = root PROVE Heeds("finish", op["scan"], base', disk', retry')
    <3>1. root # None
      BY <1>0, <2>2, BodyAssumption DEF Vacant
    <3>2. ~op["scan"].bad /\ ~retry
      BY <2>1, <2>2, <3>1 DEF Armed, Unresolved
    <3>3. Departed(base, disk)
      BY <1>0, <2>1, <2>2, <3>2 DEF Heeds
    <3> QED
      BY <2>1, <3>3 DEF Heeds, Outside, Deciding
  <2> QED
    BY <1>0, <1>u, <2>1, <2>2, CalmGhostless DEF Absent, Fetching, Deciding
<1>6. CASE SessionThrows
  BY <1>6 DEF SessionThrows, Heeding
<1>7. CASE Finish
  <2>1. PICK durable \in BOOLEAN : Finish!(durable)
    BY <1>7 DEF Finish
  <2>2. /\ pc["scan"] = "finish" /\ pc["watch"] = "idle" /\ UNCHANGED <<srv, rev, disk, base, root, timer>>
        /\ pc'["scan"] = "idle" /\ pc'["watch"] = "idle" /\ pending' = FALSE /\ events' = Drained
        /\ saved' = (IF durable THEN [base |-> base, root |-> root, skips |-> skips] ELSE saved)
    BY <1>w, <2>1 DEF server, db, Goto, TypeOK, ActorsOK, Actors
  <2>3. Vacant => Departed(base, disk)
    BY <1>0, <2>2 DEF Heeds, Outside
  <2>4. Recoverable'
    <3>1. ASSUME "crash" \in Env PROVE events' = {} /\ ~pending' /\ ~timer'
      BY <2>2, <3>1 DEF Ghostless, Recoverable, Drained
    <3>2. ASSUME "crash" \in Env, saved'.root = rev', srv'.body = None
          PROVE  Departed(saved'.base, disk')
      <4>1. CASE durable
        <5>1. saved'.root = root /\ saved'.base = base
          BY <2>2, <4>1
        <5> QED
          BY <2>2, <2>3, <3>2, <5>1 DEF Vacant
      <4>2. CASE ~durable
        BY <2>2, <3>2, <4>2 DEF Ghostless, Recoverable
      <4> QED
        BY <4>1, <4>2
    <3> QED
      BY <2>2, <3>1, <3>2 DEF Recoverable
  <2>5. Vacant' => Departed(base', disk')
    BY <2>2, <2>3 DEF Vacant
  <2> QED
    BY <2>2, <2>4, <2>5 DEF Ghostless, Absent, Unfetched, Heeds, Attends, Outside, Deciding, Fetching
<1>8. CASE Stopped
  BY <1>8 DEF Stopped, Heeding
\* A step of the local scan, on a file the listing does not have.
<1>9. ASSUME Calm, NEW label, NEW r, Goto("scan", label, r),
             label \in {"missing", "read", "ask", "trash", "recheck", "finish"}, pc["scan"] # "idle",
             disk' = disk, r.info = None,
             label \in {"recheck", "finish"} /\ Vacant =>
                 Departed(base', disk) \/ (label = "recheck" /\ disk = base'.hash)
      PROVE  Ghostless'
  <2>1. ASSUME Vacant PROVE Heeds(label, r, base', disk', retry')
    BY <1>9, <2>1 DEF Heeds, Outside, Deciding
  <2>2. Unfetched(label, r)
    BY <1>9 DEF Unfetched, Fetching, Deciding
  <2> QED
    BY <1>0, <1>9, <2>1, <2>2, CalmGhostless
<1>11. CASE ScanLocal
  <2>1. PICK unchanged \in MaybeUnchanged(base) : ScanLocal!(unchanged)
    BY <1>11 DEF ScanLocal
  <2>2. Calm /\ pc["scan"] = "classify" /\ op["scan"].info = None /\ base' = base /\ disk' = disk
    BY <2>1 DEF Calm, local, db
  <2>3. \A b, h : /\ [op["scan"] EXCEPT !.base = b, !.how = "probed"].info = None
                  /\ [op["scan"] EXCEPT !.hash = h, !.raced = FALSE].info = None
    BY <1>0, <2>2 DEF Op
  <2>4. CASE base = None /\ End("scan", FALSE)
    BY <1>0, <2>2, <2>4, OverGhostless DEF Departed
  <2>5. CASE Goto("scan", "missing", [op["scan"] EXCEPT !.base = Unsign(base), !.how = "probed"])
    BY <1>9, <2>2, <2>3, <2>5
  <2>6. CASE Goto("scan", "read", [op["scan"] EXCEPT !.hash = disk, !.raced = FALSE])
    BY <1>9, <2>2, <2>3, <2>6
  <2>7. CASE disk # None /\ ~LocalChanged(base, disk, unchanged) /\ Goto("scan", "recheck", op["scan"])
    <3>1. base # None /\ disk = base.hash
      BY <2>7 DEF LocalChanged, MaybeUnchanged, Truthful, RowTruthful
    <3> QED
      BY <1>9, <2>2, <2>7, <3>1
  <2> QED
    BY <2>1, <2>4, <2>5, <2>6, <2>7 DEF Go
<1>12. CASE Candidate
  <2>1. Calm /\ pc["scan"] = "recheck" /\ op["scan"].info = None /\ base' = base /\ disk' = disk /\ retry' = retry
    BY <1>12 DEF Candidate, Calm, local, db, Ghostless, Absent
  <2>2. [op["scan"] EXCEPT !.raced = FALSE].info = None /\ [NoOp EXCEPT !.bad = TRUE].info = None
    BY <1>0, <2>1 DEF Op, NoOp
  <2>3. CASE disk = None /\ Goto("scan", "finish", [NoOp EXCEPT !.bad = TRUE])
    BY <1>9, <2>1, <2>2, <2>3 DEF Departed
  <2>4. CASE Goto("scan", "ask", [op["scan"] EXCEPT !.raced = FALSE])
    BY <1>9, <2>1, <2>2, <2>4
  <2>5. CASE ~LastSynced /\ End("scan", FALSE)
    <3>1. Vacant => op["scan"].bad \/ retry' \/ Departed(base', disk')
      BY <1>0, <2>1, <2>5 DEF Heeds, LastSynced, Departed
    <3>2. CASE op["scan"].bad
      <4>1. End("scan", TRUE)
        BY <2>5, <3>2 DEF End
      <4> QED
        BY <1>0, <2>1, <4>1, OverGhostless
    <3>3. CASE ~op["scan"].bad
      BY <1>0, <2>1, <2>5, <3>1, <3>3, OverGhostless
    <3> QED
      BY <3>2, <3>3
  <2> QED
    BY <1>12, <2>3, <2>4, <2>5 DEF Candidate
\* Only an answer stops a deletion, and it is that the file is there.
<1>13. CASE AskServer
  <2>1. Calm /\ pc["scan"] = "ask" /\ op["scan"].info = None /\ base' = base /\ disk' = disk
    BY <1>13 DEF AskServer, Calm, local, db, Ghostless, Absent
  <2>2. CASE Goto("scan", "trash", op["scan"])
    BY <1>9, <2>1, <2>2
  <2>3. CASE srv.body # None /\ End("scan", FALSE)
    BY <1>0, <2>1, <2>3, OverGhostless DEF Vacant
  <2> QED
    BY <1>13, <2>2, <2>3 DEF AskServer, Go, Heeding
<1>14. CASE TrashLocal
  <2>1. Calm /\ pc["scan"] = "trash" /\ End("scan", FALSE) /\ base' = None /\ disk' = None
    BY <1>14 DEF TrashLocal, Drop, Calm, WriteDisk
  <2> QED
    BY <1>0, <2>1, OverGhostless DEF Departed
<1>15. CASE TrashFails
  <2>1. Calm /\ pc["scan"] = "trash" /\ End("scan", FALSE) /\ root' = None /\ disk' = disk
    BY <1>15 DEF TrashFails, Calm, local
  <2>2. ~(Vacant /\ root' = root)
    BY <1>0, <2>1, BodyAssumption DEF Vacant
  <2> QED
    BY <1>0, <2>1, <2>2, OverGhostless
<1> QED
  BY <1>1, <1>2, <1>3, <1>4, <1>5, <1>6, <1>7, <1>8, <1>11, <1>12, <1>13, <1>14, <1>15 DEF Session

LEMMA WatchGhostless ==
    ASSUME TypeOK, TypeOK', Remembered, Truthful, Ghostless, Heeding, Watch
    PROVE  Ghostless'
<1>0. /\ "watch" \in Actors /\ op["watch"] \in Op /\ base \in OrNone(Row) /\ Alone
      /\ srv' = srv /\ rev' = rev /\ UNCHANGED <<saved, base, root, disk>>
  BY DEF Watch, WatchModify, WatchStat, WatchStatFails, WatchEnd, server, db, local,
         Actors, TypeOK, ActorsOK, DeviceOK, Truthful
<1>c. "crash" \notin Env
  BY DEF Watch, WatchModify, WatchStat, WatchStatFails, WatchEnd, Ghostless, Recoverable
<1>r. Recoverable' /\ (Vacant' <=> Vacant) /\ (Deserted' <=> Deserted)
  BY <1>0, <1>c DEF Recoverable, Vacant, Deserted
<1>k. Vacant /\ (pc["watch"] # "idle" \/ ~Running) => Departed(base, disk)
  BY DEF Ghostless, Attends, Heeds, Running, Outside
\* An operation begins when no session runs.
<1>b. ASSUME NEW label, NEW r, Goto("watch", label, r), label # "record", pc["scan"] = "idle",
             label # "idle" => r.info = None, Vacant => Departed(base, disk)
      PROVE  Ghostless'
  <2>1. pc'["watch"] = label /\ op'["watch"] = r /\ pc'["scan"] = "idle"
    BY <1>b DEF Goto, TypeOK, ActorsOK, Actors
  <2>2. Unfetched("idle", op'["scan"])
    BY DEF Unfetched, Fetching, Deciding
  <2>3. Vacant => /\ Heeds("idle", op'["scan"], base', disk', retry')
                  /\ Attends(label, r, base', disk')
    BY <1>0, <1>b DEF Heeds, Attends, Outside, Deciding
  <2> QED
    BY <1>r, <2>1, <2>2, <2>3 DEF Ghostless, Absent
<1>1. CASE WatchModify
  <2>1. CASE WatchDrop
    <3>1. UNCHANGED <<pc, op, retry>>
      BY <1>1, <2>1 DEF WatchModify, WatchDrop
    <3> QED
      BY <1>0, <1>r, <3>1 DEF Ghostless
  <2>2. CASE ~Running /\ Goto("watch", "stat", [NoOp EXCEPT !.hash = disk])
    <3>1. [NoOp EXCEPT !.hash = disk].info = None
      BY DEF NoOp
    <3> QED
      BY <1>b, <1>k, <2>2, <3>1 DEF Running
  <2> QED
    BY <1>1, <2>1, <2>2 DEF WatchModify
<1>2. CASE WatchStat
  <2> DEFINE r == [op["watch"] EXCEPT !.info = Listed, !.at = rev, !.raced = FALSE]
             label == IF Listed = None THEN "read" ELSE "classify"
  <2>1. r.info = Listed
    BY <1>0 DEF Op
  <2>2. pc["watch"] = "stat" /\ Goto("watch", label, r) /\ label \in {"read", "classify"}
    BY <1>2 DEF WatchStat
  <2> HIDE DEF r, label
  <2>3. Vacant => Attends(label, r, base', disk')
    BY <1>0, <1>k, <2>1, <2>2 DEF Attends, Vacant, Listed
  <2> QED
    BY <1>0, <1>r, <2>2, <2>3, StepGhostless
<1>3. CASE WatchStatFails
  <2>1. Calm /\ FailAndQueue("watch") /\ pc["watch"] = "stat"
    BY <1>3 DEF WatchStatFails, Calm, local, db
  <2> QED
    BY <1>0, <2>1, FailureGhostless DEF Outside
<1>4. CASE WatchEnd
  <2>1. pc["watch"] = "end" /\ pc["scan"] = "idle"
    BY <1>0, <1>4 DEF WatchEnd, Alone
  <2>2. StartDeletion.info = None
    BY DEF StartDeletion, NoOp
  <2>3. Goto("watch", "missing", StartDeletion) \/ Goto("watch", "idle", NoOp)
    BY <1>4 DEF WatchEnd
  <2> QED
    BY <1>b, <1>k, <2>1, <2>2, <2>3
<1> QED
  BY <1>1, <1>2, <1>3, <1>4 DEF Watch
-----------------------------------------------------------------------------
\* Sizes are within the limit.
LEMMA HeedingFits ==
    ASSUME TypeOK, Remembered, Heeding, NEW a \in Actors
    PROVE  ~OverLimit(SizeOf(disk)) /\ (op[a].info # None => ~OverLimit(op[a].info.size))
<1>1. disk \in OrNone(Body)
  BY DEF TypeOK, DeviceOK
<1>2. op[a].info # None => Fits(op[a].info.size)
  BY DEF Remembered, OpPast, InfoPast
<1> QED
  BY <1>1, <1>2, SizeFits DEF Fits, Heeding

\* A short circuit sees nothing but a local change or a local deletion.
LEMMA ClassifyGhostless ==
    ASSUME TypeOK, TypeOK', Remembered, Truthful, Ghostless, NEW a \in Actors, Classify(a)
    PROVE  Ghostless'
<1>0. /\ op[a] \in Op /\ op[a].info \in Info /\ pc[a] = "classify" /\ base \in OrNone(Row)
      /\ op[a].info # None /\ Alone /\ (a = "scan" => op[a].data = None)
  BY DEF Classify, TypeOK, ActorsOK, DeviceOK, Op, OrNone, Truthful, Ghostless
<1>1. PICK u \in MaybeUnchanged(base) : Classify(a)!(u)
  BY DEF Classify
<1> DEFINE i == op[a].info
           h == LocalHash(base, disk, u)
           v == Verdict(base, i, disk, u)
           how == IF v = "fetch" THEN "get" ELSE "none"
           row == IF v = "record" THEN Converged(i, h, disk) ELSE None
           r == [op[a] EXCEPT !.base = Unsign(base), !.hash = h, !.raced = FALSE,
                     !.how = how, !.row = row]
<1>2. Calm /\ Goto(a, v, r) /\ disk' = disk /\ (v # "end" => base' = base)
  BY <1>1 DEF Calm, local
<1>3. v \in {"proof", "record", "conflict", "read", "fetch", "end"}
  BY <1>0, VerdictTyped
<1>4. r.base = Unsign(base) /\ r.info = op[a].info /\ r.data = op[a].data
  <2> HIDE DEF h, v, how, row
  <2> QED
    BY <1>0 DEF Op
<1>5. ASSUME a = "scan", Vacant PROVE Recalls(op[a], base, disk) /\ v \in {"proof", "read"}
  <2>1. Recalls(op[a], base, disk)
    BY <1>0, <1>5, Heard DEF Outside
  <2>2. base # None /\ base.rid = IdOf(i) /\ Departed(base, disk)
    BY <2>1 DEF Recalls
  <2>3. ~RemoteChanged(base, i)
    BY <2>2 DEF RemoteChanged
  <2>4. CASE disk = None
    BY <2>1, <2>2, <2>4 DEF Verdict
  <2>5. CASE disk # None
    <3>1. disk # base.hash /\ disk # base.rid
      BY <2>2, <2>5 DEF Departed
    <3>2. ~u
      BY <2>2, <3>1 DEF MaybeUnchanged, Truthful, RowTruthful
    <3>3. LocalChanged(base, disk, u) /\ LocalHash(base, disk, u) = disk
      BY <2>5, <3>1, <3>2 DEF LocalChanged, LocalHash
    <3>4. ~ProvenIdentical(i, disk, disk)
      BY <2>2, <3>1 DEF ProvenIdentical, IdOf
    <3> QED
      BY <2>1, <2>3, <2>5, <3>3, <3>4 DEF Verdict
  <2> QED
    BY <2>1, <2>4, <2>5
<1> HIDE DEF h, v, how, row, r
<1>6. ASSUME a = "scan", Vacant PROVE Heeds(v, r, base', disk', retry')
  <2>1. base' = base
    BY <1>2, <1>5, <1>6
  <2>2. Recalls(r, base, disk)
    BY <1>0, <1>4, <1>5, <1>6, SameContent DEF Recalls
  <2> QED
    BY <1>2, <1>5, <1>6, <2>1, <2>2 DEF Heeds, Outside, Deciding
<1>7. a = "watch" /\ Vacant => FALSE
  BY <1>0, Heard DEF Outside
<1>8. a = "scan" => Unfetched(v, r)
  BY <1>0, <1>3, <1>4 DEF Unfetched, Fetching, Deciding
<1> QED
  BY <1>0, <1>2, <1>3, <1>6, <1>7, <1>8, CalmGhostless DEF Absent

LEMMA TransferGhostless ==
    ASSUME TypeOK, TypeOK', Remembered, Truthful, Ghostless, Heeding, NEW a \in Actors, Transfer(a)
    PROVE  Ghostless'
<1>0. op[a] \in Op /\ OpOK(pc[a], op[a]) /\ rev \in Nat /\ Alone /\ (a = "scan" \/ a = "watch")
  BY DEF TypeOK, ActorsOK, ServerOK, Truthful, Actors
<1>d. \A d : [op[a] EXCEPT !.data = d].info = op[a].info /\ [op[a] EXCEPT !.data = d].base = op[a].base
             /\ [op[a] EXCEPT !.data = d].data = d
  BY <1>0 DEF Op
<1>f. ~OverLimit(SizeOf(disk)) /\ (op[a].info # None => ~OverLimit(op[a].info.size))
  BY HeedingFits
\* A single-file operation on a file of the server sees none that is gone.
<1>w. Vacant /\ a = "watch" /\ pc[a] \notin Outside => op[a].info = None
  BY Heard
<1>i. pc[a] \in NeedsInfo => op[a].info # None
  BY <1>0 DEF OpOK
<1>g. Deserted /\ a = "scan" => Unfetched(pc[a], op[a])
  BY DEF Ghostless
<1>v. Vacant => Deserted
  BY DEF Vacant, Deserted
<1>s. a = "watch" /\ pc[a] # "idle" => "crash" \notin Env
  BY DEF Ghostless, Recoverable
\* What is written was fetched.
<1>z. pc[a] \in Fetching => ~Vacant /\ (Deserted => a = "watch")
  BY <1>0, <1>g, <1>i, <1>v, <1>w DEF Unfetched, Fetching, NeedsInfo, Outside
<1> USE DEF Outside, Absent, Fetching, Deciding, NeedsInfo
<1>1. CASE Classify(a)
  BY <1>1, ClassifyGhostless
<1>2. CASE Deferred(a)
  <2>1. /\ Calm /\ pc[a] = "classify" /\ op[a].info # None /\ retry' = TRUE /\ disk' = disk
        /\ End(a, FALSE)
    BY <1>2 DEF Deferred, Calm, local, db
  <2> QED
    BY <1>0, <1>w, <2>1, OverGhostless
<1>3. CASE ReadForUpload(a)
  <2>1. Calm /\ pc[a] = "read" /\ base' = base /\ disk' = disk
    BY <1>3 DEF ReadForUpload, Calm, local, db
  <2>2. CASE disk = None /\ Done(a, FALSE)
    BY <1>0, <2>1, <2>2, OverGhostless DEF Departed
  <2>3. CASE Goto(a, "send", [op[a] EXCEPT !.data = disk])
    BY <1>0, <1>d, <2>1, <2>3, KeepGhostless
  <2> QED
    BY <1>3, <1>f, <2>2, <2>3 DEF ReadForUpload
<1>4. CASE Upload(a)
  <2>1. Calm /\ pc[a] = "send" /\ rev < rev' /\ disk' = disk
    BY <1>0, <1>4 DEF Upload, Store, Calm, local, db
  <2> QED
    BY <1>0, <1>4, <2>1, MovedGhostless DEF Upload
\* A refusal was for a version, not for a checksum.
<1>5. CASE UploadRefused(a)
  <2> DEFINE r == [op[a] EXCEPT !.data = None]
  <2>1. /\ Calm /\ pc[a] = "send" /\ base' = base /\ disk' = disk /\ Goto(a, "conflict", r)
        /\ op[a].info # None /\ op[a].info.etag # None
    BY <1>5 DEF UploadRefused, Precondition, Calm, local, db
  <2>2. r.info = op[a].info /\ r.base = op[a].base /\ r.data = None
    BY <1>d
  <2> HIDE DEF r
  <2>3. ASSUME a = "scan", Vacant PROVE Heeds("conflict", r, base', disk', retry')
    <3>1. Recalls(op[a], base, disk)
      BY <2>1, <2>3, Heard
    <3> QED
      BY <2>1, <2>2, <3>1 DEF Heeds, Recalls
  <2>4. Unfetched("conflict", r)
    BY <2>2 DEF Unfetched
  <2> QED
    BY <1>0, <1>w, <2>1, <2>3, <2>4, CalmGhostless
<1>6. CASE UploadFails(a)
  <2>1. Calm /\ pc[a] = "send" /\ base' = base /\ disk' = disk /\ FailAndQueue(a)
    BY <1>0, <1>6 DEF UploadFails, Store, Calm, local, db
  <2> QED
    BY <1>0, <2>1, FailureGhostless
<1>7. CASE Record(a)
  <2>1. Calm /\ pc[a] = "record" /\ disk' = disk /\ Done(a, FALSE)
    BY <1>7 DEF Record, Calm, local
  <2> QED
    BY <1>0, <2>1, Heard, OverGhostless
<1>8. CASE DownloadSkipped(a)
  BY <1>8, <1>f, <1>i DEF DownloadSkipped
<1>9. CASE Fetch(a)
  <2>1. Calm /\ pc[a] = "fetch" /\ disk' = disk /\ ~Vacant /\ ~Deserted
    BY <1>9 DEF Fetch, MayFetch, Calm, local, db, Vacant, Deserted
  <2>2. \/ Goto(a, "merge", [op[a] EXCEPT !.data = srv.body])
        \/ Goto(a, "write", [op[a] EXCEPT !.data = srv.body])
    BY <1>9 DEF Fetch
  <2> QED
    BY <1>0, <2>1, <2>2, CalmGhostless
<1>10. CASE FetchGone(a)
  <2>1. Calm /\ pc[a] = "fetch" /\ disk' = disk /\ End(a, TRUE)
    BY <1>10 DEF FetchGone, MayFetch, Calm, local, db
  <2> QED
    BY <1>0, <1>i, <1>w, <2>1, OverGhostless
<1>11. CASE FetchFails(a)
  <2>1. Calm /\ pc[a] = "fetch" /\ base' = base /\ disk' = disk /\ FailAndQueue(a)
    BY <1>11 DEF FetchFails, MayFetch, Calm, local, db
  <2> QED
    BY <1>0, <2>1, FailureGhostless
<1>12. CASE FetchAnomalous(a)
  <2>1. Calm /\ pc[a] = "fetch" /\ disk' = disk /\ End(a, TRUE)
    BY <1>12 DEF FetchAnomalous, MayFetch, Calm, local
  <2> QED
    BY <1>0, <1>i, <1>w, <2>1, OverGhostless
<1>13. CASE WriteFetched(a)
  <2>1. /\ Calm /\ pc[a] = "write"
        /\ Goto(a, "record", [op[a] EXCEPT !.row = FetchedRow(a)])
    BY <1>13 DEF WriteFetched, WriteDisk, Calm, local
  <2>2. ~Vacant /\ ~Deserted
    BY <1>s, <1>z, <2>1 DEF Vacant, Deserted
  <2> QED
    BY <1>0, <2>1, <2>2, CalmGhostless
<1> QED
  BY <1>1, <1>2, <1>3, <1>4, <1>5, <1>6, <1>7, <1>8, <1>9, <1>10, <1>11, <1>12, <1>13 DEF Transfer

LEMMA ConflictGhostless ==
    ASSUME TypeOK, TypeOK', Remembered, Truthful, Ghostless, Heeding, NEW a \in Actors, Conflict(a)
    PROVE  Ghostless'
<1>0. op[a] \in Op /\ OpOK(pc[a], op[a]) /\ rev \in Nat /\ Alone /\ (a = "scan" \/ a = "watch")
  BY DEF TypeOK, ActorsOK, ServerOK, Truthful, Actors
<1>d. \A d : [op[a] EXCEPT !.data = d].info = op[a].info /\ [op[a] EXCEPT !.data = d].base = op[a].base
             /\ [op[a] EXCEPT !.data = d].data = d
  BY <1>0 DEF Op
<1>h. \A k : [op[a] EXCEPT !.how = k].info = op[a].info /\ [op[a] EXCEPT !.how = k].base = op[a].base
             /\ [op[a] EXCEPT !.how = k].data = op[a].data
  BY <1>0 DEF Op
<1>f. ~OverLimit(SizeOf(disk)) /\ (op[a].info # None => ~OverLimit(op[a].info.size))
  BY HeedingFits
<1> USE DEF Outside, Absent, Fetching, Deciding, NeedsInfo
<1>i. pc[a] \in NeedsInfo => op[a].info # None
  BY <1>0 DEF OpOK
\* Here only a session meets a file that is gone, and has fetched nothing.
<1>w. Vacant /\ pc[a] \in NeedsInfo => a = "scan"
  BY <1>0, <1>i, Heard
<1>g. Deserted /\ a = "scan" => Unfetched(pc[a], op[a])
  BY DEF Ghostless
<1>v. Vacant => Deserted
  BY DEF Vacant, Deserted
<1>x. Deserted /\ a = "watch" /\ pc[a] # "idle" => Vacant
  BY DEF Ghostless, Recoverable, Vacant, Deserted
<1>y. Deserted /\ pc[a] \in NeedsInfo => a = "scan"
  BY <1>0, <1>w, <1>x
\* Giving up with an error.
<1>e. ASSUME Calm, disk' = disk, pc[a] \in NeedsInfo, End(a, TRUE) PROVE Ghostless'
  BY <1>0, <1>e, <1>w, OverGhostless
<1>k. ASSUME Calm, disk' = disk, base' = base, pc[a] \in NeedsInfo \ {"fetch"},
             NEW label \in NeedsInfo \ Fetching, NEW r, Goto(a, label, r),
             label \in Deciding => pc[a] \in Deciding /\ r.data = op[a].data,
             r.info = op[a].info, r.base = op[a].base
      PROVE  Ghostless'
  BY <1>0, <1>k, KeepGhostless
\* Nothing is to be seen on a server that has nothing.
<1>n. ASSUME Calm, NEW label \in Fetching \cup Deciding \cup {"record", "end"}, NEW r, Goto(a, label, r),
             pc[a] # "idle", ~Deserted
      PROVE  Ghostless'
  BY <1>0, <1>n, <1>v, CalmGhostless
<1>1. CASE EnterConflict(a)
  <2>1. Calm /\ pc[a] = "conflict" /\ disk' = disk /\ ~OverLimit(op[a].info.size)
    BY <1>1, <1>f, <1>i DEF EnterConflict, Calm, local
  <2>2. base' = base
    BY <1>1, <2>1 DEF EnterConflict
  <2>3. CASE /\ disk # None /\ op[a].info.sum = disk
             /\ Goto(a, "record", [op[a] EXCEPT !.row = Converged(op[a].info, disk, disk)])
    <3>1. ~Vacant
      BY <1>0, <1>w, <2>1, <2>3 DEF Ghostless, Heeds
    <3>2. \A r : Unfetched("record", r)
      BY DEF Unfetched
    <3> QED
      BY <1>0, <2>1, <2>3, <3>1, <3>2, CalmGhostless
  <2>4. ASSUME NEW label \in {"compare", "decide"}, Goto(a, label, op[a]) PROVE Ghostless'
    BY <1>k, <2>1, <2>2, <2>4
  <2> QED
    BY <1>1, <2>1, <2>3, <2>4 DEF EnterConflict, Go
<1>2. CASE Compare(a)
  <2>1. Calm /\ pc[a] = "compare" /\ disk' = disk
    BY <1>2 DEF Compare, Calm, local, db
  <2>2. CASE End(a, TRUE)
    BY <1>e, <2>1, <2>2
  <2>3. CASE srv.body # None
    <3>1. ~Deserted
      BY <2>3 DEF Deserted
    <3>2. \/ Goto(a, "record", [op[a] EXCEPT !.row = Converged(op[a].info, disk, disk)])
          \/ Goto(a, "decide", [op[a] EXCEPT !.data = srv.body])
      BY <1>2, <2>3 DEF Compare
    <3> QED
      BY <1>n, <2>1, <3>1, <3>2
  <2> QED
    BY <1>2, <2>2, <2>3 DEF Compare
<1>3. CASE CompareFails(a)
  <2>1. Calm /\ pc[a] = "compare" /\ base' = base /\ disk' = disk /\ FailAndQueue(a)
    BY <1>3 DEF CompareFails, Calm, local, db
  <2> QED
    BY <1>0, <2>1, FailureGhostless
<1>4. CASE Hold(a)
  <2>1. Calm /\ pc[a] = "decide" /\ disk' = disk /\ End(a, TRUE)
    BY <1>4 DEF Hold, Calm, local
  <2> QED
    BY <1>e, <2>1
<1>5. CASE Tie(a)
  <2>1. Calm /\ pc[a] = "decide" /\ disk' = disk /\ root' = None /\ End(a, FALSE)
    BY <1>5 DEF Tie, Calm, local
  <2>2. ~(Vacant /\ root' = root)
    BY <1>0, <2>1, BodyAssumption DEF Vacant
  <2> QED
    BY <1>0, <2>1, <2>2, OverGhostless
<1>6. CASE PreferLocal(a)
  <2>1. Calm /\ pc[a] = "decide" /\ base' = base /\ disk' = disk /\ Goto(a, "readLocal", op[a])
    BY <1>6 DEF PreferLocal, Go, Calm, local, db
  <2> QED
    BY <1>k, <2>1
<1>7. CASE PreferRemote(a)
  <2>1. Calm /\ pc[a] = "decide" /\ base' = base /\ disk' = disk
    BY <1>7 DEF PreferRemote, Calm, local, db
  <2>2. CASE Goto(a, "fetch", [op[a] EXCEPT !.how = "remote"])
    BY <1>h, <1>k, <2>1, <2>2
  <2>3. CASE op[a].data # None /\ Goto(a, "write", [op[a] EXCEPT !.how = "remote"])
    BY <1>g, <1>n, <1>y, <2>1, <2>3 DEF Unfetched
  <2> QED
    BY <1>7, <2>2, <2>3 DEF PreferRemote
<1>8. CASE Merge(a)
  <2>1. Calm /\ pc[a] = "decide" /\ base' = base /\ disk' = disk
    BY <1>8 DEF Merge, Calm, local, db
  <2>2. CASE End(a, TRUE)
    BY <1>e, <2>1, <2>2
  <2>3. ASSUME NEW k, Goto(a, "fetch", [op[a] EXCEPT !.how = k]) PROVE Ghostless'
    BY <1>h, <1>k, <2>1, <2>3
  <2>4. ASSUME NEW k, op[a].data # None, Goto(a, "merge", [op[a] EXCEPT !.how = k]) PROVE Ghostless'
    BY <1>g, <1>n, <1>y, <2>1, <2>4 DEF Unfetched
  <2> QED
    BY <1>8, <2>2, <2>3, <2>4 DEF Merge
<1>9. CASE ReadLocal(a)
  <2>1. Calm /\ pc[a] = "readLocal" /\ base' = base /\ disk' = disk
    BY <1>9 DEF ReadLocal, Calm, local, db
  <2>2. CASE End(a, TRUE)
    BY <1>e, <2>1, <2>2
  <2>3. CASE Goto(a, "sendLocal", [op[a] EXCEPT !.data = disk])
    BY <1>d, <1>k, <2>1, <2>3
  <2> QED
    BY <1>9, <1>f, <2>2, <2>3 DEF ReadLocal
<1>10. CASE SendLocal(a)
  <2>1. Calm /\ pc[a] = "sendLocal" /\ rev < rev' /\ disk' = disk
    BY <1>0, <1>10 DEF SendLocal, Store, Calm, local, db
  <2> QED
    BY <1>0, <1>10, <2>1, MovedGhostless DEF SendLocal
<1>11. CASE SendLocalFails(a)
  <2>1. Calm /\ pc[a] = "sendLocal" /\ base' = base /\ disk' = disk /\ FailAndQueue(a)
    BY <1>0, <1>11 DEF SendLocalFails, Store, Calm, local, db
  <2> QED
    BY <1>0, <2>1, FailureGhostless
\* Nothing was merged with a file that is gone.
<1>z. pc[a] \in Fetching => ~Deserted
  BY <1>g, <1>y DEF Unfetched
<1>12. CASE WriteMerged(a)
  <2>1. Calm /\ pc[a] = "merge" /\ Goto(a, "readMerged", op[a])
    BY <1>12 DEF WriteMerged, WriteDisk, Go, Calm
  <2> QED
    BY <1>n, <1>z, <2>1
<1>13. CASE ReadMerged(a)
  <2>1. Calm /\ pc[a] = "readMerged" /\ disk' = disk
    BY <1>13 DEF ReadMerged, Calm, local
  <2>2. CASE End(a, TRUE)
    BY <1>e, <2>1, <2>2
  <2>3. CASE Goto(a, "sendMerged", [op[a] EXCEPT !.data = disk])
    BY <1>n, <1>z, <2>1, <2>3
  <2> QED
    BY <1>13, <1>f, <2>2, <2>3 DEF ReadMerged
<1>14. CASE SendMerged(a)
  <2> DEFINE r == [op[a] EXCEPT
                     !.row = [RowFor(op[a].data) EXCEPT !.size = SizeOf(disk), !.conf = MergeUnclean(a)],
                     !.bad = @ \/ MergeUnclean(a)]
  <2>1. Calm /\ pc[a] = "sendMerged" /\ Goto(a, "record", r)
    BY <1>0, <1>14 DEF SendMerged, Store, Calm, local, db
  <2> HIDE DEF r
  <2> QED
    BY <1>n, <1>z, <2>1
<1>15. CASE SendMergedFails(a)
  <2>1. Calm /\ pc[a] = "sendMerged" /\ End(a, MergeUnclean(a))
    BY <1>0, <1>15 DEF SendMergedFails, Store, Calm, local
  <2> QED
    BY <1>0, <1>v, <1>z, <2>1, OverGhostless
<1> QED
  BY <1>1, <1>2, <1>3, <1>4, <1>5, <1>6, <1>7, <1>8, <1>9, <1>10, <1>11, <1>12, <1>13, <1>14, <1>15
     DEF Conflict

LEMMA DeletionGhostless ==
    ASSUME TypeOK, TypeOK', Remembered, Truthful, Ghostless, NEW a \in Actors, Deletion(a)
    PROVE  Ghostless'
<1>0. op[a] \in Op /\ OpOK(pc[a], op[a]) /\ rev \in Nat /\ Alone /\ (a = "scan" \/ a = "watch")
  BY DEF TypeOK, ActorsOK, ServerOK, Truthful, Actors
<1>i. pc[a] \in {"proof", "delete"} => op[a].info # None
  BY <1>0 DEF OpOK, NeedsInfo
<1> USE DEF Outside, Absent, Fetching, Deciding
<1>1. CASE ProveDeletion(a)
  <2> DEFINE r == [op[a] EXCEPT !.how = IF @ = "probed" THEN @ ELSE "get",
                                !.at = IF op[a].info.sum = None THEN rev ELSE @]
  <2>1. Calm /\ pc[a] = "proof" /\ base' = base /\ disk' = disk
    BY <1>1 DEF ProveDeletion, Calm, local, db
  <2>2. PICK h \in ProofHashes(op[a].info) :
          IF h = None THEN End(a, FALSE)
          ELSE Goto(a, IF DeletionProven(a, h) THEN "delete" ELSE "fetch", r)
    BY <1>1 DEF ProveDeletion
  <2>3. r.info = op[a].info /\ r.base = op[a].base
    BY <1>0 DEF Op
  <2> HIDE DEF r
  <2>4. CASE End(a, FALSE)
    <3>1. Vacant => Departed(base, disk)
      BY <1>0, <1>i, <2>1, Heard DEF Recalls
    <3> QED
      BY <1>0, <2>1, <2>4, <3>1, OverGhostless
  <2>5. ASSUME NEW label \in {"delete", "fetch"}, Goto(a, label, r) PROVE Ghostless'
    BY <1>0, <2>1, <2>3, <2>5, KeepGhostless
  <2> QED
    BY <2>2, <2>4, <2>5
<1>2. CASE DeleteRemote(a)
  <2>1. Calm /\ pc[a] = "delete" /\ End(a, FALSE) /\ base' = None /\ disk' = disk
    <3>1. UNCHANGED server \/ rev < rev'
      BY <1>0, <1>2 DEF DeleteRemote, Removed
    <3> QED
      BY <1>2, <3>1 DEF DeleteRemote, Drop, Calm, local
  <2> QED
    BY <1>0, <2>1, OverGhostless DEF Departed
<1>3. CASE DeleteFails(a)
  <2>1. Calm /\ pc[a] = "delete" /\ base' = base /\ disk' = disk /\ FailAndQueue(a)
    BY <1>0, <1>3 DEF DeleteFails, Removed, Calm, local, db
  <2> QED
    BY <1>0, <2>1, FailureGhostless
<1>4. CASE ProbeMissing(a)
  <2>1. Calm /\ pc[a] = "missing" /\ disk' = disk
    BY <1>4 DEF ProbeMissing, Calm, local
  <2>2. CASE Drop(a)
    BY <1>0, <2>1, <2>2, OverGhostless DEF Drop, Departed
  <2>3. CASE srv.body # None
    <3> DEFINE r == [op[a] EXCEPT !.info = Listed, !.at = rev, !.how = "probed"]
    <3>1. Goto(a, "proof", r) /\ ~Vacant /\ ~Deserted
      BY <1>4, <2>3 DEF ProbeMissing, Vacant, Deserted
    <3> HIDE DEF r
    <3> QED
      BY <1>0, <2>1, <3>1, CalmGhostless
  <2> QED
    BY <1>4, <2>2, <2>3 DEF ProbeMissing
<1>5. CASE ProbeMissingFails(a)
  <2>1. Calm /\ pc[a] = "missing" /\ base' = base /\ disk' = disk /\ End(a, TRUE)
    BY <1>5 DEF ProbeMissingFails, Calm, local, db
  <2>2. Vacant /\ a = "watch" => Departed(base', disk')
    BY <2>1, Heard
  <2> QED
    BY <1>0, <2>1, <2>2, OverGhostless
<1> QED
  BY <1>1, <1>2, <1>3, <1>4, <1>5 DEF Deletion
-----------------------------------------------------------------------------
LEMMA InitGhostless == Init => Ghostless
<1> SUFFICES ASSUME Init PROVE Ghostless
  OBVIOUS
<1>1. /\ pc["scan"] = "idle" /\ pc["watch"] = "idle" /\ rev = 0
      /\ saved = [base |-> base, root |-> root, skips |-> skips]
      /\ events = {} /\ pending = FALSE /\ timer = FALSE
  BY DEF Init, Actors
<1>2. ~(root = rev /\ srv.body = None)
  <2>1. CASE Unseen
    BY <1>1, <2>1, BodyAssumption DEF Unseen
  <2>2. CASE Synced
    BY <2>2, BodyAssumption DEF Synced
  <2> QED
    BY <2>1, <2>2 DEF Init
<1>3. Recoverable /\ ~Deserted /\ ~Vacant
  BY <1>1, <1>2 DEF Recoverable, Deserted, Vacant
<1> QED
  BY <1>1, <1>3 DEF Ghostless, Absent

LEMMA NextGhostless ==
    ASSUME TypeOK, TypeOK', Remembered, Truthful, Ghostless, Heeding, ~HidesDeletion, Next
    PROVE  Ghostless'
<1>0. Alone
  BY DEF Truthful
<1>1. CASE Environment
  BY <1>0, <1>1, EnvironmentGhostless
<1>2. CASE Session
  BY <1>2, SessionGhostless
<1>3. CASE Watch
  BY <1>3, WatchGhostless
<1>4. ASSUME NEW a \in Actors, Transfer(a) PROVE Ghostless'
  BY <1>4, TransferGhostless
<1>5. ASSUME NEW a \in Actors, Conflict(a) PROVE Ghostless'
  BY <1>5, ConflictGhostless
<1>6. ASSUME NEW a \in Actors, Deletion(a) PROVE Ghostless'
  BY <1>6, DeletionGhostless
<1> QED
  BY <1>1, <1>2, <1>3, <1>4, <1>5, <1>6 DEF Next, Environment

\* The convergence gate hides no deletion (docs/spec.md 8a.5, EAD-2), wherever a
\* session looks at every file it could not find (no stop, no throwing scan, no probe
\* without an answer, no session during a watch operation, no save between a read and
\* its stat, no crash in watch mode, no file over the size limit), for any contents,
\* decisions, edits, writes of other devices and failures, but for one step: the file
\* gets back the content of its row while the short circuit is armed.  Until that is
\* done, between sessions, no row is left from which a short circuit would rebuild, as
\* still on the server, a file the vault keeps unchanged.
THEOREM NoGhostUnlessPutBack ==
    ASSUME Heeding
    PROVE  Spec /\ [][~HidesDeletion]_vars => []ArmedHasNoGhost
<1>1. Orderly
  BY DEF Heeding, Orderly
<1>2. TypeOK /\ Truthful /\ [Next]_vars => Truthful'
  BY <1>1, NextTruthful
<1>3. TypeOK /\ TypeOK' /\ Remembered /\ [Next]_vars => Remembered'
  BY NextRemembered
<1>4. TypeOK /\ TypeOK' /\ Remembered /\ Truthful /\ Ghostless /\ [Next]_vars /\ [~HidesDeletion]_vars
        => Ghostless'
  <2>1. Ghostless /\ UNCHANGED vars => Ghostless'
    BY DEF vars, Ghostless, Recoverable, Deserted, Vacant
  <2> QED
    BY <2>1, NextGhostless
<1>5. Ghostless => ArmedHasNoGhost
  BY DEF Ghostless, ArmedHasNoGhost, Vacant, Heeds, Outside, Running, Departed
<1> QED
  BY <1>2, <1>3, <1>4, <1>5, InitTruthful, InitRemembered, InitGhostless, TypeCorrect, PTL DEF Spec
=============================================================================
