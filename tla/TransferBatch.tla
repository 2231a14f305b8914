---------------------------- MODULE TransferBatch ----------------------------
(***************************************************************************)
(* The transfers of one session: runFileBatch's limiter, byte budget and   *)
(* per-directory chains, and below them the client's writes, which share   *)
(* one cache of known remote collections with the requests of watch mode.  *)
(*                                                                         *)
(* A JavaScript callback runs to its next await: that is one step here.    *)
(* A write goes to a remote path the server may have no folder for; Above  *)
(* lists the folders on the way to it, outermost first.                    *)
(***************************************************************************)
EXTENDS Integers, Sequences, FiniteSets, FiniteSetsExt

CONSTANTS
    Items,         \* the uploads handed to runFileBatch, in order
    Others,        \* renames of watch mode, outside every batch
    Dirs,          \* remote collections
    How,           \* [Tasks -> the client call]
    Above,         \* [Tasks -> Seq(Dirs)]
    Bytes,         \* [Tasks -> Nat]
    Chunks,        \* chunks of a chunked upload
    Limit,         \* networkConcurrency, at least 1
    Budget,        \* MAX_INFLIGHT_BYTES
    SerializeByDir,
    MaxForeign,    \* bound: collections removed by another device
    MaxFaults      \* bound: refusals and lost answers

ItemSet == {Items[i] : i \in 1..Len(Items)}
Tasks == ItemSet \cup Others
Kinds == {"put", "chunked", "move"}

ASSUME ItemsAssumption == Items \in Seq(ItemSet) /\ ItemSet \cap Others = {}
                          /\ \A i, j \in 1..Len(Items) : Items[i] = Items[j] => i = j
ASSUME HowAssumption == /\ How \in [Tasks -> Kinds]
                        /\ \A f \in ItemSet : How[f] \in {"put", "chunked"}
                        /\ \A f \in Others : How[f] = "move"
ASSUME AboveAssumption == Above \in [Tasks -> Seq(Dirs)] /\ \A f \in Tasks : Above[f] # <<>>
\* A folder has one place, and the same folders above it whoever writes there.
ASSUME TreeAssumption ==
    \A f, g \in Tasks : \A i \in 1..Len(Above[f]), j \in 1..Len(Above[g]) :
        Above[f][i] = Above[g][j] => i = j /\ \A k \in 1..i : Above[f][k] = Above[g][k]
ASSUME NumbersAssumption ==
    /\ Bytes \in [Tasks -> Nat] /\ Chunks \in Nat \ {0}
    /\ Limit \in Nat \ {0} /\ Budget \in Nat \ {0} /\ SerializeByDir \in BOOLEAN
    /\ MaxForeign \in Nat /\ MaxFaults \in Nat

VARIABLES
    queue,      \* createLimiter: tasks that have no slot yet
    active,     \* createLimiter: slots taken
    chain,      \* dirChains: per directory, the uploads in their turn
    free,       \* ByteSemaphore.available
    waiters,    \* ByteSemaphore.waiters
    cancelled,  \* requestStop was called
    proven,     \* RemoteDirCache.proven
    pc,         \* where each task is
    op,         \* what each task has learned so far
    srvDirs,    \* collections on the server
    sessions,   \* chunked-upload sessions open on the server
    foreign, faults

limits == <<queue, active, chain, free, waiters>>
server == <<srvDirs, sessions>>
budgets == <<foreign, faults>>
vars == <<queue, active, chain, free, waiters, cancelled, proven, pc, op,
          srvDirs, sessions, foreign, faults>>

\* try: which write of the pair is next.  dir: how the folders above fared.
\* fell: a chunked upload fell back to a single PUT.  A NetworkError ends in
\* "missing" (404 or 409) or "net", any other error in "threw".  gone: another
\* device removed a folder above since the write began to put them back.
\* leaked: the DELETE of the upload session failed.
Record == [level: Nat \ {0}, try: {1, 2}, dir: {"ok", "refused", "lost"}, chunk: Nat,
           err: {"none", "missing", "net", "threw"}, fell: BOOLEAN, gone: BOOLEAN, leaked: BOOLEAN,
           result: {"none", "skipped", "stored", "missing", "net", "threw"}]
NoRecord == [level |-> 1, try |-> 1, dir |-> "ok", chunk |-> 0, err |-> "none",
             fell |-> FALSE, gone |-> FALSE, leaked |-> FALSE, result |-> "none"]

OnWire == {"mkcol", "write", "session", "chunk", "verify", "discard"}
Pcs == OnWire \cup {"idle", "queued", "started", "chained", "waiting", "ask", "join", "nodir", "done"}

Init ==
    /\ queue = SubSeq(Items, Limit + 1, Len(Items))
    /\ active = IF Len(Items) < Limit THEN Len(Items) ELSE Limit
    /\ chain = [d \in Dirs |-> <<>>]
    /\ free = Budget /\ waiters = <<>> /\ cancelled = FALSE /\ proven = {}
    /\ pc = [f \in Tasks |-> IF f \in Others THEN "idle"
                             ELSE IF \E i \in 1..Len(Items) : i <= Limit /\ Items[i] = f
                             THEN "started" ELSE "queued"]
    /\ op = [f \in Tasks |-> NoRecord]
    /\ srvDirs \in SUBSET Dirs /\ sessions = {}
    /\ \A f \in Tasks : \A i, j \in 1..Len(Above[f]) :
           i < j /\ Above[f][j] \in srvDirs => Above[f][i] \in srvDirs
    /\ foreign = 0 /\ faults = 0

AboveSet(f) == {Above[f][i] : i \in 1..Len(Above[f])}
DirOf(f) == Above[f][Len(Above[f])]
Chunked(f) == How[f] = "chunked" /\ ~op[f].fell

Fault == faults < MaxFaults /\ faults' = faults + 1 /\ UNCHANGED foreign
Goto(f, label, r) == pc' = [pc EXCEPT ![f] = label] /\ op' = [op EXCEPT ![f] = r]
-----------------------------------------------------------------------------
(* ByteSemaphore. *)

\* Mutant: no clamp, so an oversized file waits for more than there ever is.
Unclamped(f) == Bytes[f]
Need(f) == IF Bytes[f] < Budget THEN Bytes[f] ELSE Budget

\* drain: waiters are granted in order until the head does not fit.
FirstNeed(n) == MapThenSumSet(LAMBDA i : Need(waiters[i]), 1..n)
Granted(avail) == Cardinality({n \in 1..Len(waiters) : FirstNeed(n) <= avail})

\* The worker's first request.
First(f) == IF Chunked(f) THEN "session" ELSE "write"

\* acquire: what fits is granted at once.  Mutant: as long as any byte is free.
AcquireOver(f) ==
    IF free > 0
    THEN /\ free' = IF Need(f) < free THEN free - Need(f) ELSE 0
         /\ Goto(f, First(f), op[f]) /\ UNCHANGED waiters
    ELSE waiters' = Append(waiters, f) /\ Goto(f, "waiting", op[f]) /\ UNCHANGED free
Acquire(f) ==
    IF Need(f) <= free
    THEN /\ free' = free - Need(f) /\ UNCHANGED waiters
         /\ Goto(f, First(f), op[f])
    ELSE waiters' = Append(waiters, f) /\ Goto(f, "waiting", op[f]) /\ UNCHANGED free
-----------------------------------------------------------------------------
(* runFileBatch and createLimiter. *)

\* The slot goes to the next task in the queue.
PassSlot == IF queue = <<>> THEN active' = active - 1 /\ UNCHANGED queue
            ELSE active' = active /\ queue' = Tail(queue)
SlotTo(label, f) == IF queue # <<>> /\ Head(queue) = f THEN "started" ELSE label

\* dirChains.  Mutant: the directory's last upload is not waited for.
NoTurn(f) == TRUE
Turn(f) == \E i \in 1..Len(chain[DirOf(f)]) :
    /\ chain[DirOf(f)][i] = f
    /\ i > 1 => pc[chain[DirOf(f)][i - 1]] = "done"

\* A task the limiter started: a stop is looked at here and nowhere later.
Start(f) ==
    /\ pc[f] = "started"
    /\ \/ /\ cancelled
          /\ PassSlot
          /\ op' = [op EXCEPT ![f].result = "skipped"]
          /\ pc' = [g \in Tasks |-> IF g = f THEN "done" ELSE SlotTo(pc[g], g)]
          /\ UNCHANGED <<chain, free, waiters>>
       \/ /\ ~cancelled /\ SerializeByDir
          /\ chain' = [chain EXCEPT ![DirOf(f)] = Append(@, f)]
          /\ Goto(f, "chained", op[f])
          /\ UNCHANGED <<queue, active, free, waiters>>
       \/ /\ ~cancelled /\ ~SerializeByDir
          /\ Acquire(f)
          /\ UNCHANGED <<queue, active, chain>>
    /\ UNCHANGED <<cancelled, proven, server, budgets>>

RunOne(f) ==
    /\ pc[f] = "chained" /\ Turn(f)
    /\ Acquire(f)
    /\ UNCHANGED <<queue, active, chain, cancelled, proven, server, budgets>>

\* Watch mode renames a file, whatever the session does.
\* moveFile first makes sure of the target's folders, and ignores the outcome.
StartOther(f) ==
    /\ f \in Others /\ pc[f] = "idle"
    /\ Goto(f, "ask", op[f])
    /\ UNCHANGED <<limits, cancelled, proven, server, budgets>>

\* A stop after the last upload has its slot changes nothing.
RequestStop ==
    /\ queue # <<>> /\ ~cancelled /\ cancelled' = TRUE
    /\ UNCHANGED <<limits, proven, pc, op, server, budgets>>

\* The worker returns: the bytes are released and waiters granted, then the slot.
Finish(f, r) ==
    /\ op' = [op EXCEPT ![f] = r]
    /\ IF f \in Others
       THEN pc' = [pc EXCEPT ![f] = "done"] /\ UNCHANGED limits
       ELSE LET n == Granted(free + Need(f))
                woken == {waiters[i] : i \in 1..n}
            IN  /\ free' = free + Need(f) - FirstNeed(n)
                /\ waiters' = SubSeq(waiters, n + 1, Len(waiters))
                /\ pc' = [g \in Tasks |-> IF g = f THEN "done"
                                          ELSE IF g \in woken THEN First(g)
                                          ELSE SlotTo(pc[g], g)]
                /\ PassSlot /\ UNCHANGED chain
-----------------------------------------------------------------------------
(* RemoteDirCache and ensureRemoteDir. *)

Asked(f) == Above[f][op[f].level]
\* Mutant: nobody joins a MKCOL that is out.
NoJoin(d) == FALSE
InFlight(d) == \E f \in Tasks : pc[f] = "mkcol" /\ Asked(f) = d

\* forgetAncestorsOf.  Mutant: a 404 leaves the cache as it is.
ForgetNothing(f) == proven' = proven
Forget(f) == proven' = proven \ AboveSet(f)

Unproven(f) == {i \in op[f].level..Len(Above[f]) : Above[f][i] \notin proven}

Step(f, label, r) == Goto(f, label, r) /\ UNCHANGED limits
GiveUp(f, result) == Finish(f, [op[f] EXCEPT !.result = result])

\* The folders are there, as far as the cache knows, or one could not be made.
\* The write goes out all the same, and a rename's first attempt forgets the
\* failure too; only a repeated write is given up when the MKCOL got no answer.
AfterFolders(f, dir) ==
    IF How[f] = "move" /\ op[f].try = 1 THEN Step(f, "write", op[f])
    ELSE IF Chunked(f) \/ dir # "lost" THEN Step(f, "write", [op[f] EXCEPT !.dir = dir])
    ELSE GiveUp(f, "net")

\* ensure: skip what is proven, join a MKCOL that is out, else send one.
EnsureLevel(f) ==
    /\ pc[f] = "ask"
    /\ IF Unproven(f) = {} THEN AfterFolders(f, "ok")
       ELSE LET i == Min(Unproven(f))
            IN  Step(f, IF InFlight(Above[f][i]) THEN "join" ELSE "mkcol",
                     [op[f] EXCEPT !.level = i])
    /\ UNCHANGED <<cancelled, proven, server, budgets>>

\* Two requests on one collection at a time: Nextcloud answers one of them 423.
Collides(f) == \E g \in Tasks \ {f} :
    \/ pc[f] = "mkcol" /\ pc[g] = "mkcol" /\ Asked(g) = Asked(f)
    \/ pc[f] = "write" /\ pc[g] = "write" /\ DirOf(g) = DirOf(f)
Excused(f) == IF Collides(f) THEN UNCHANGED budgets ELSE Fault

Waiting(f) == {f} \cup {g \in Tasks : pc[g] = "join" /\ Asked(g) = Asked(f)}
CanMake(f) == \/ Asked(f) \in srvDirs
              \/ \A i \in 1..Len(Above[f]) : i < op[f].level => Above[f][i] \in srvDirs

\* 201 and 405 prove the collection: everyone who waited goes on to the next level.
MkcolProves(f) ==
    /\ pc[f] = "mkcol" /\ CanMake(f)
    /\ srvDirs' = srvDirs \cup {Asked(f)}
    /\ proven' = proven \cup {Asked(f)}
    /\ pc' = [g \in Tasks |-> IF g \in Waiting(f) THEN "ask" ELSE pc[g]]
    /\ UNCHANGED <<limits, cancelled, op, sessions, budgets>>

\* Any other status, or no answer, fails everyone who waited; the path stays unknown.
MkcolFails(f) == \E dir \in {"refused", "lost"}, made \in BOOLEAN :
    /\ pc[f] = "mkcol"
    /\ made => dir = "lost" /\ CanMake(f)
    /\ CASE dir = "lost" -> Fault
         [] dir = "refused" /\ CanMake(f) -> Excused(f)
         [] OTHER -> UNCHANGED budgets                  \* 409: no parent
    /\ srvDirs' = IF made THEN srvDirs \cup {Asked(f)} ELSE srvDirs
    /\ op' = [g \in Tasks |-> IF g \in Waiting(f) THEN [op[g] EXCEPT !.dir = dir] ELSE op[g]]
    /\ pc' = [g \in Tasks |-> IF g \in Waiting(f) THEN "nodir" ELSE pc[g]]
    /\ UNCHANGED <<limits, cancelled, proven, sessions>>

FolderFailed(f) ==
    /\ pc[f] = "nodir"
    /\ AfterFolders(f, op[f].dir)
    /\ UNCHANGED <<cancelled, proven, server, budgets>>
-----------------------------------------------------------------------------
(* uploadFile, moveFile and the assembling MOVE of uploadChunked. *)

Recover(f, r) == Step(f, "ask", [r EXCEPT !.level = 1, !.try = 2, !.gone = FALSE]) /\ Forget(f)

\* A chunked upload that fails discards its session, then goes on with err.
Fails(f, err) == IF Chunked(f) THEN Step(f, "discard", [op[f] EXCEPT !.err = err])
                 ELSE GiveUp(f, err)

\* The server has a folder for the file.
Written(f) ==
    /\ pc[f] = "write" /\ DirOf(f) \in srvDirs
    /\ IF Chunked(f) THEN Step(f, "verify", op[f]) /\ sessions' = sessions \ {f}
       ELSE GiveUp(f, "stored") /\ UNCHANGED sessions
    /\ UNCHANGED <<cancelled, proven, srvDirs, budgets>>

\* 404 or 409: the parent is missing; a rename gets it for a missing source too.
\* The write is repeated once, after its folders were asked for again.  A chunked
\* upload asked for them before its only MOVE.
MissingParent(f) ==
    /\ pc[f] = "write"
    /\ IF DirOf(f) \in srvDirs THEN How[f] = "move" /\ Fault ELSE UNCHANGED budgets
    /\ IF op[f].try = 1 /\ ~Chunked(f) THEN Recover(f, op[f])
       ELSE Fails(f, IF DirOf(f) \in srvDirs THEN "net" ELSE "missing") /\ UNCHANGED proven
    /\ UNCHANGED <<cancelled, server>>

\* Another refusal is a NetworkError, except 412; no answer is not one either.
\* A lost answer may hide a write that was done.
WriteFails(f) == \E err \in {"net", "threw"}, done \in BOOLEAN :
    /\ pc[f] = "write"
    /\ IF err = "net" THEN Excused(f) ELSE Fault
    /\ done => err = "threw" /\ DirOf(f) \in srvDirs
    /\ Fails(f, err)
    /\ sessions' = IF done THEN sessions \ {f} ELSE sessions
    /\ UNCHANGED <<cancelled, proven, srvDirs>>

\* uploadChunked opens its session, sends the chunks, then sees to the folders.
ChunkSent(f) ==
    /\ pc[f] \in {"session", "chunk"}
    /\ sessions' = sessions \cup {f}
    /\ LET r == [op[f] EXCEPT !.chunk = IF pc[f] = "session" THEN 0 ELSE @ + 1]
       IN  IF r.chunk < Chunks THEN Step(f, "chunk", r) /\ UNCHANGED proven
           ELSE Recover(f, r)
    /\ UNCHANGED <<cancelled, srvDirs, budgets>>

ChunkFails(f) == \E err \in {"net", "threw"}, opened \in BOOLEAN :
    /\ pc[f] \in {"session", "chunk"} /\ Fault
    /\ opened => pc[f] = "session" /\ err = "threw"
    /\ sessions' = IF opened THEN sessions \cup {f} ELSE sessions
    /\ Fails(f, err)
    /\ UNCHANGED <<cancelled, proven, srvDirs>>

\* The assembled file's checksum: equal, or not given, or different, or no answer.
Verify(f) ==
    /\ pc[f] = "verify"
    /\ \/ GiveUp(f, "stored") /\ UNCHANGED budgets
       \/ \E err \in {"net", "threw"} : Fault /\ Fails(f, err)
    /\ UNCHANGED <<cancelled, proven, server>>

\* ChunkedUploadStrategy: a NetworkError falls back to a single PUT.
AfterDiscard(f, r) ==
    IF r.err = "threw" THEN Finish(f, [r EXCEPT !.result = "threw"])
    ELSE Step(f, "write", [r EXCEPT !.fell = TRUE, !.err = "none", !.try = 1, !.dir = "ok"])

Discard(f) ==
    /\ pc[f] = "discard"
    /\ sessions' = sessions \ {f}
    /\ AfterDiscard(f, op[f])
    /\ UNCHANGED <<cancelled, proven, srvDirs, budgets>>

\* The DELETE of the session is best effort.
DiscardFails(f) ==
    /\ pc[f] = "discard" /\ Fault
    /\ AfterDiscard(f, [op[f] EXCEPT !.leaked = TRUE])
    /\ UNCHANGED <<cancelled, proven, server>>

\* Another device removes a folder and everything in it.
ForeignRemove(d) ==
    /\ foreign < MaxForeign /\ foreign' = foreign + 1
    /\ d \in srvDirs
    /\ srvDirs' = srvDirs \ {e \in Dirs : \E f \in Tasks : \E i, j \in 1..Len(Above[f]) :
                                 i <= j /\ Above[f][i] = d /\ Above[f][j] = e}
    /\ op' = [f \in Tasks |-> [op[f] EXCEPT !.gone = @ \/ (pc[f] # "done" /\ d \in AboveSet(f))]]
    /\ UNCHANGED <<limits, cancelled, proven, pc, sessions, faults>>
-----------------------------------------------------------------------------
Over == \A f \in ItemSet : pc[f] = "done"

\* Callbacks that are due run before the next answer or event is taken, and the
\* limiter's in the order they were started.
Due(f) == pc[f] \in {"started", "ask", "nodir"} \/ (pc[f] = "chained" /\ Turn(f))
Settled == \A f \in Tasks : ~Due(f)
Earlier(f, g) == \E i, j \in 1..Len(Items) : i < j /\ Items[i] = f /\ Items[j] = g

Callback(f) == \/ Start(f) /\ \A g \in ItemSet : pc[g] = "started" => ~Earlier(g, f)
               \/ RunOne(f) \/ EnsureLevel(f) \/ FolderFailed(f)

Answer(f) == /\ Settled
             /\ \/ MkcolProves(f) \/ MkcolFails(f)
                \/ Written(f) \/ MissingParent(f) \/ WriteFails(f)
                \/ ChunkSent(f) \/ ChunkFails(f) \/ Verify(f)
                \/ Discard(f) \/ DiscardFails(f)

Event == /\ Settled
         /\ \/ \E f \in Tasks : StartOther(f)
            \/ \E d \in Dirs : ForeignRemove(d)
            \/ RequestStop

Next == \/ \E f \in Tasks : Callback(f) \/ Answer(f)
        \/ Event

\* Every request is answered or times out (networkTimeoutSeconds), and every
\* callback runs.
Spec == Init /\ [][Next]_vars /\ \A f \in Tasks : WF_vars(Callback(f) \/ Answer(f))
-----------------------------------------------------------------------------
(* The properties. *)

TypeOK ==
    /\ queue \in Seq(ItemSet) /\ waiters \in Seq(ItemSet)
    /\ active \in 0..Limit /\ free \in 0..Budget
    /\ chain \in [Dirs -> Seq(ItemSet)]
    /\ cancelled \in BOOLEAN /\ proven \subseteq Dirs
    /\ pc \in [Tasks -> Pcs] /\ op \in [Tasks -> Record]
    /\ srvDirs \subseteq Dirs /\ sessions \subseteq Tasks
    /\ foreign \in 0..MaxForeign /\ faults \in 0..MaxFaults

Transferring == {f \in ItemSet : pc[f] \in OnWire \cup {"ask", "join", "nodir"}}

\* createLimiter: never more transfers run than there are slots, so a slot is given
\* back once, whoever was waiting for it.
SlotsAreBounded == Cardinality(Transferring) <= Limit
\* ByteSemaphore: the bodies held in memory stay within the byte budget, unless
\* one file alone is larger.
BytesAreBounded ==
    \/ MapThenSumSet(LAMBDA f : Bytes[f], Transferring) <= Budget
    \/ \E f \in Transferring : \A g \in Transferring \ {f} : Bytes[g] = 0
\* runFileBatch: the memory a batch holds is bounded by both.
MemoryIsBounded == SlotsAreBounded /\ BytesAreBounded
\* uploadChunked: when the upload is over its session is gone from the server,
\* unless a request to discard it failed.
SessionsAreDiscarded ==
    \A f \in sessions : pc[f] = "done" => op[f].leaked

\* The types, in particular those of the counters, what they are there to bound,
\* and nothing left behind on the server.
Safety == TypeOK /\ MemoryIsBounded /\ SessionsAreDiscarded

\* runFileBatch: two uploads into one directory are never under way together.
DirectoryIsExclusive == SerializeByDir =>
    \A f, g \in Transferring : f # g => DirOf(f) # DirOf(g)

\* As long as nothing fails outside, no device removes folders and watch mode
\* renames nothing, no upload fails: the uploads of this device never get in each
\* other's way, whatever folders the server lacks.
QuietBatchSucceeds ==
    (faults = 0 /\ foreign = 0 /\ \A f \in Others : pc[f] = "idle")
        => \A f \in Tasks : pc[f] = "done" => op[f].result \in {"stored", "skipped"}

\* uploadFile, moveFile: a write is given up for a missing parent only when a
\* folder above it could not be made, or another device removed one after the
\* write had begun to put them back.
MissingParentIsRecreated == \A f \in Tasks :
    "missing" \in {op[f].err, op[f].result} => op[f].dir # "ok" \/ op[f].gone

\* runFileBatch: every upload ends, however large, and whatever fails before it.
BatchEnds == <>Over
=============================================================================
