------------------------------ MODULE FileSync ------------------------------
(***************************************************************************)
(* One file of a vault that has other tracked files, the plugin's engine   *)
(* on one device, and a Nextcloud server other devices write to.           *)
(*                                                                         *)
(* Two actors run the same per-file code: "scan", the full sync session    *)
(* (runSyncSession), and "watch", the single-file operations started by    *)
(* vault events.  Every await that lets another actor, the user or another *)
(* device in is a step boundary; what an actor read before it is kept in   *)
(* its request record op[a].                                               *)
(*                                                                         *)
(* rev numbers the server's versions.  It is the ETag of the file, and,    *)
(* as Nextcloud propagates a change to every ancestor, of the vault root.  *)
(***************************************************************************)
EXTENDS Naturals

CONSTANTS
    Body,        \* file contents; a content stands for its SHA-256 too
    None,        \* absence: of a file, a row, a checksum or an ETag
    Size,        \* [Body -> Nat]
    SizeLimit,   \* maxFileSizeMB, 0 = unlimited
    SkipBudget,  \* FORCE_FULL_SCAN_EVERY
    Decisions,   \* the outcomes ConflictResolver may reach under the settings
    Env,         \* the environment's behaviours that are switched on
    MaxEdits,    \* bound: user edits
    MaxForeign,  \* bound: versions written by other devices
    MaxFaults    \* bound: failures, crashes, stops and deferrals

\* watch: vault events arrive.  overlap: a session starts during a watch operation,
\* which nothing prevents.  crash: the app is killed.  stop: requestStop.  throw: the
\* local scan of other files throws.  slowEdit: the user saves between the read of a
\* file and its re-stat.  noProof: the server cannot recalculate a checksum.
\* noAnswer: the existence probe before an absence deletion fails.
EnvKinds == {"watch", "overlap", "crash", "stop", "throw", "slowEdit", "noProof", "noAnswer"}
DecisionKinds == {"hold", "tie", "local", "remote", "clean", "markers"}

ASSUME BodyAssumption == None \notin Body /\ None \notin Nat /\ Body \cap Nat = {}
ASSUME SizeAssumption == Size \in [Body -> Nat] /\ SizeLimit \in Nat
ASSUME BudgetAssumption == SkipBudget \in Nat /\ MaxEdits \in Nat
                           /\ MaxForeign \in Nat /\ MaxFaults \in Nat
ASSUME KindsAssumption == Env \subseteq EnvKinds /\ Decisions \subseteq DecisionKinds

VARIABLES
    srv,     \* the file on the server: its body, and whether a checksum is stored
    rev,     \* the version the server is at
    disk,    \* the local file's body
    base,    \* the file's row in StateDB
    root,    \* StateDB.remoteRootEtag
    skips,   \* StateDB.fullScanSkipCount
    saved,   \* the state file: base, root and skips as last persisted
    timer,   \* a debounced requestSave is due
    retry,   \* the path is in retryQueue
    pending, \* the path is in WatchOperations.pendingPaths
    events,  \* vault events whose debounce has not fired
    pc,      \* where each actor is
    op,      \* what each actor has read and decided so far
    edits, foreign, faults   \* budgets spent

db      == <<base, root, skips>>
watchVars  == <<pending, events, timer>>
budgets == <<edits, foreign, faults>>
vars == <<srv, rev, disk, base, root, skips, saved, timer, retry, pending,
          events, pc, op, edits, foreign, faults>>

Actors == {"scan", "watch"}
OrNone(S) == S \cup {None}
Id == Body \cup Nat                        \* a checksum, or an ETag

\* FileState: sig says that localMtime/localSize equal the stat of the file now.
Row == [hash: OrNone(Body), rid: Id, size: Nat, sig: BOOLEAN, conf: BOOLEAN]
\* RemoteFileInfo, as a listing, a probe or the rebuilt listing gives it.
Info == {i \in [sum: OrNone(Body), etag: OrNone(Nat), size: Nat] : i.sum # None \/ i.etag # None}

ASSUME NoneAssumption == None \notin Row /\ None \notin Info

Pcs == {"idle", "probe", "list", "stat", "classify", "read", "send", "fetch", "write",
        "record", "conflict", "compare", "decide", "readLocal", "sendLocal", "merge",
        "readMerged", "sendMerged", "proof", "delete", "missing", "recheck", "ask",
        "trash", "end", "finish"}
Op == [info: OrNone(Info), base: OrNone(Row), at: Nat, cur: OrNone(Nat),
       hash: OrNone(Body), data: OrNone(Body), how: {"none", "get", "probed", "remote", "clean", "markers"},
       row: OrNone(Row), bad: BOOLEAN, raced: BOOLEAN]

NoOp == [info |-> None, base |-> None, at |-> 0, cur |-> None, hash |-> None,
         data |-> None, how |-> "none", row |-> None, bad |-> FALSE, raced |-> FALSE]

SizeOf(b) == IF b = None THEN 0 ELSE Size[b]
OverLimit(n) == SizeLimit > 0 /\ n > SizeLimit

\* remoteIdOf: the checksum, else the ETag.
IdOf(i) == IF i.sum # None THEN i.sum ELSE i.etag

\* What PROPFIND reports of the file.
Listed == IF srv.body = None THEN None
          ELSE [sum |-> IF srv.sum THEN srv.body ELSE None, etag |-> rev, size |-> Size[srv.body]]

\* rebuildRemoteFilesFromState: a row whose id is a checksum has no ETag.
Rebuilt(b) == IF b = None THEN None
              ELSE [sum  |-> IF b.rid \in Body THEN b.rid ELSE None,
                    etag |-> IF b.rid \in Nat THEN b.rid ELSE None, size |-> b.size]

\* this.running: cleared first in the session's finally.
Running == pc["scan"] # "idle"
-----------------------------------------------------------------------------
(* A file no session has seen yet, or one an earlier session brought into      *)
(* sync.  The vault's other rows exist in both cases: the very first sync of   *)
(* an empty state (initialSync) is another procedure.                          *)

RowFor(b) == [hash |-> b, rid |-> b, size |-> Size[b], sig |-> TRUE, conf |-> FALSE]

Unseen ==
    /\ srv \in [body: OrNone(Body), sum: {FALSE}] /\ disk \in OrNone(Body)
    /\ base = None /\ root = None

Synced == \E b \in Body :
    /\ srv = [body |-> b, sum |-> TRUE] /\ disk = b
    /\ base = RowFor(b) /\ root = 0

Init ==
    /\ Unseen \/ Synced
    /\ rev = 0 /\ skips = 0
    /\ saved = [base |-> base, root |-> root, skips |-> skips]
    /\ timer = FALSE /\ retry = FALSE /\ pending = FALSE /\ events = {}
    /\ pc = [a \in Actors |-> "idle"] /\ op = [a \in Actors |-> NoOp]
    /\ edits = 0 /\ foreign = 0 /\ faults = 0

Goto(a, label, r) == pc' = [pc EXCEPT ![a] = label] /\ op' = [op EXCEPT ![a] = r]
Go(a, label) == Goto(a, label, op[a])
\* The file is done: bad feeds the session's conflictedCount and errorCount.
End(a, bad) == Goto(a, "end", [NoOp EXCEPT !.bad = bad \/ op[a].bad])

Fault == faults < MaxFaults /\ faults' = faults + 1 /\ UNCHANGED <<edits, foreign>>
\* A file outside the listing still has the local scan's later steps to take.
Done(a, bad) == IF a = "scan" /\ op[a].info = None
                THEN Goto(a, "recheck", [op[a] EXCEPT !.bad = @ \/ bad])
                ELSE End(a, bad)
\* An error on the file is counted; a NetworkError is also queued for retry,
\* except by the callers of deleteLocallyMissing, which keep the row.
Queue(a) == retry' = (retry \/ op[a].how # "probed")
FailAndQueue(a) == Fault /\ Queue(a) /\ Done(a, TRUE)

Unsign(b) == IF b = None THEN None ELSE [b EXCEPT !.sig = FALSE]
\* The file gets a new stat: no row's signature matches it any longer.
WriteDisk(b) == /\ disk' = b
                /\ saved' = [saved EXCEPT !.base = Unsign(saved.base)]
\* The server takes a PUT with OC-Checksum.
Store(b) == srv' = [body |-> b, sum |-> TRUE] /\ rev' = rev + 1

server == <<srv, rev>>
local  == <<disk, saved>>
-----------------------------------------------------------------------------
(* The environment. *)

\* Between the read whose hash goes into the row and withLocalSignature's stat.
BeforeRestat == \/ pc["watch"] = "stat"
                \/ \E a \in Actors : pc[a] \in {"read", "send", "sendLocal", "sendMerged", "record"}

\* deleteSingleFile starts at once when its path lock is free and no session
\* runs; the row it acts on is captured then.
DeletionStarts == base # None /\ ~Running
StartDeletion == [NoOp EXCEPT !.base = Unsign(base), !.how = "probed"]

Raced(a) == IF pc[a] = "idle" THEN op[a] ELSE [op[a] EXCEPT !.raced = TRUE]

\* While the path is in the ignore list, 5 s after the plugin's own write, its
\* events are filtered; without watch mode they always are.
Filters == IF "watch" \in Env THEN BOOLEAN ELSE {TRUE}

\* withPathLock: one single-file operation at a time.
PathFree == pc["watch"] = "idle"

\* The vault events of a save or a deletion.  A modification waits for its
\* debounce, which a deletion cancels; a deletion waits for the path lock only.
UserEdit == \E b \in OrNone(Body) \ {disk}, filtered \in Filters :
    /\ edits < MaxEdits /\ edits' = edits + 1
    /\ "slowEdit" \in Env \/ ~BeforeRestat
    /\ WriteDisk(b) /\ base' = Unsign(base)
    /\ events' = CASE b = None /\ (filtered \/ PathFree) -> {}
                   [] b = None /\ ~filtered /\ ~PathFree  -> {"delete"}
                   [] b # None -> IF filtered THEN events ELSE events \cup {"modify"}
    /\ IF b = None /\ ~filtered /\ PathFree /\ DeletionStarts
       THEN pc' = [pc EXCEPT !["watch"] = "missing"] /\ op' = [op EXCEPT !["watch"] = StartDeletion]
       ELSE op' = [a \in Actors |-> Raced(a)] /\ UNCHANGED pc
    /\ UNCHANGED <<server, root, skips, timer, retry, pending, foreign, faults>>

ForeignEdit == \E b \in OrNone(Body) \ {srv.body}, c \in BOOLEAN :
    /\ foreign < MaxForeign /\ foreign' = foreign + 1
    /\ b = None => ~c
    /\ srv' = [body |-> b, sum |-> c] /\ rev' = rev + 1
    /\ UNCHANGED <<local, db, watchVars, retry, pc, op, edits, faults>>

\* StateDB.requestSave's trailing debounce fires.
SaveTimer ==
    /\ timer /\ timer' = FALSE
    /\ saved' = [base |-> base, root |-> root, skips |-> skips]
    /\ UNCHANGED <<server, disk, db, retry, pending, events, pc, op, budgets>>

\* The app is killed (routine on mobile) and restarted: StateDB.load.
Crash ==
    /\ "crash" \in Env /\ Fault
    /\ base' = saved.base /\ root' = saved.root /\ skips' = saved.skips
    /\ timer' = FALSE /\ retry' = FALSE /\ pending' = FALSE /\ events' = {}
    /\ pc' = [a \in Actors |-> "idle"] /\ op' = [a \in Actors |-> NoOp]
    /\ UNCHANGED <<server, local>>
-----------------------------------------------------------------------------
(* The session: syncManual, runSyncSession, incrementalSync. *)

StartSession ==
    /\ pc["scan"] = "idle"
    /\ pc["watch"] = "idle" \/ "overlap" \in Env
    /\ Goto("scan", "probe", NoOp)
    /\ UNCHANGED <<server, local, db, watchVars, retry, budgets>>

\* The listing arrived: the retry queue is spliced and the file is classified.
Listing(i, at) ==
    /\ Goto("scan", "classify", [op["scan"] EXCEPT !.info = i, !.at = at, !.raced = FALSE])
    /\ retry' = FALSE

\* getRootEtag never throws: a failure yields null, which forces a real scan.
RootEtag == {rev, None}
ProbeRoot == \E cur \in RootEtag :
    /\ pc["scan"] = "probe"
    /\ IF cur = None THEN Fault ELSE UNCHANGED budgets
    /\ \/ /\ cur # None /\ cur = root /\ skips < SkipBudget
          /\ skips' = skips + 1
          /\ Listing(Rebuilt(base), cur)
       \/ /\ ~(cur # None /\ cur = root /\ skips < SkipBudget)
          /\ Goto("scan", "list", [op["scan"] EXCEPT !.cur = cur])
          /\ UNCHANGED <<skips, retry>>
    /\ UNCHANGED <<server, local, base, root, watchVars>>

ListRemote ==
    /\ pc["scan"] = "list"
    /\ root' = op["scan"].cur /\ skips' = 0
    /\ Listing(Listed, rev)
    /\ UNCHANGED <<server, local, base, watchVars, budgets>>

\* getFiles throws: the session ends without reaching the convergence gate.
ListFails ==
    /\ pc["scan"] = "list" /\ Fault
    /\ Goto("scan", "finish", [NoOp EXCEPT !.bad = TRUE])
    /\ UNCHANGED <<server, local, db, watchVars, retry>>

\* Mutants: the gate forgets the retry queue; it stores the ETag of a later time.
ForgetsRetry == op["scan"].bad
ArmedLate == IF op["scan"].bad \/ retry THEN None ELSE rev

\* The gate: an unresolved file disarms the short circuit.
Unresolved == op["scan"].bad \/ retry
Armed == IF Unresolved THEN None ELSE root

Gate ==
    /\ pc["scan"] = "end"
    /\ root' = Armed
    /\ Go("scan", "finish")
    /\ UNCHANGED <<server, local, base, skips, watchVars, retry, budgets>>

\* processLocalModifications reads other files outside any try: a file that
\* vanished since the stat throws, and the exception passes over the gate.
SessionThrows ==
    /\ "throw" \in Env /\ pc["scan"] = "end" /\ Fault
    /\ Go("scan", "finish")
    /\ UNCHANGED <<server, local, db, watchVars, retry>>

\* drainPending: a deferred path is looked at again as after a save.
Drained == IF pending THEN events \cup {"modify"} ELSE events

\* The session's finally: running is cleared and the state saved (best effort);
\* then drainPending re-evaluates the deferred path.
Finish == \E durable \in BOOLEAN :
    /\ pc["scan"] = "finish"
    /\ IF durable THEN UNCHANGED budgets ELSE Fault
    /\ saved' = IF durable THEN [base |-> base, root |-> root, skips |-> skips] ELSE saved
    /\ Goto("scan", "idle", NoOp)
    /\ pending' = FALSE
    /\ events' = Drained
    /\ UNCHANGED <<server, disk, db, timer, retry>>
-----------------------------------------------------------------------------
(* Watch mode: syncSingleFile and deleteSingleFile. *)

WatchDrop == UNCHANGED <<pc, op>>

\* isLocallyUnchanged may say yes only while the signature matches; inside the
\* safety window around now or the last sync it says no all the same.
MaybeUnchanged(b) == IF b # None /\ b.sig THEN BOOLEAN ELSE {FALSE}

WatchModify == \E unchanged \in MaybeUnchanged(base) :
    /\ "modify" \in events /\ PathFree
    /\ events' = events \ {"modify"}
    /\ \/ Running /\ pending' = TRUE /\ WatchDrop
       \/ /\ ~Running /\ UNCHANGED pending
          /\ IF disk = None \/ (base # None /\ (unchanged \/ disk = base.hash))
             THEN WatchDrop
             ELSE Goto("watch", "stat", [NoOp EXCEPT !.hash = disk])
    /\ UNCHANGED <<server, local, db, timer, retry, budgets>>

\* statFile: classify what the server has now, or upload the file as new.
WatchStat ==
    /\ pc["watch"] = "stat"
    /\ Goto("watch", IF Listed = None THEN "read" ELSE "classify",
            [op["watch"] EXCEPT !.info = Listed, !.at = rev, !.raced = FALSE])
    /\ UNCHANGED <<server, local, db, watchVars, retry, budgets>>

WatchStatFails ==
    /\ pc["watch"] = "stat" /\ FailAndQueue("watch")
    /\ UNCHANGED <<server, local, db, watchVars>>

\* The operation is over and its path lock released: a deletion waiting for the
\* lock starts.
WatchEnd ==
    /\ pc["watch"] = "end"
    /\ IF "delete" \in events /\ DeletionStarts
       THEN Goto("watch", "missing", StartDeletion)
       ELSE Goto("watch", "idle", NoOp)
    /\ events' = events \ {"delete"}
    /\ \/ timer' = TRUE
       \/ op["watch"].bad /\ UNCHANGED timer      \* the operation threw
    /\ UNCHANGED <<server, local, db, pending, retry, budgets>>
-----------------------------------------------------------------------------
(* processRemoteFile: the decision for a file that is in the listing. *)

\* Mutants: only a tracked file counts as changed.
RemoteChangedIfTracked(b, i) == b # None /\ b.rid # IdOf(i)
LocalChangedIfTracked(b, d, unchanged) == d # None /\ b # None /\ ~unchanged /\ d # b.hash

RemoteChanged(b, i) == ~(b # None /\ b.rid = IdOf(i))
LocalChanged(b, d, unchanged) == d # None /\ ~(b # None /\ (unchanged \/ d = b.hash))
LocalHash(b, d, unchanged) == IF b # None /\ (d = None \/ unchanged) THEN b.hash ELSE d

\* An absent checksum proves nothing: an ETag or a size never proves identity.
ProvenIdentical(i, d, h) == i.sum # None /\ i.sum = h /\ SizeOf(d) = i.size

Verdict(b, i, d, unchanged) ==
    LET rc == RemoteChanged(b, i)
        lc == LocalChanged(b, d, unchanged)
    IN  IF d = None /\ b # None THEN "proof"
        ELSE IF d # None /\ (rc \/ lc) /\ ProvenIdentical(i, d, LocalHash(b, d, unchanged)) THEN "record"
        ELSE CASE lc /\ ~rc -> "read"
               [] rc /\ ~lc -> "fetch"
               [] rc /\ lc  -> "conflict"
               [] ~rc /\ ~lc -> IF d # None /\ SizeOf(d) # b.size THEN "conflict" ELSE "end"

\* The row a proven identity records.
Converged(i, h, d) == [hash |-> h, rid |-> IdOf(i), size |-> SizeOf(d), sig |-> TRUE, conf |-> FALSE]

Classify(a) == \E unchanged \in MaybeUnchanged(base) :
    LET i == op[a].info
        h == LocalHash(base, disk, unchanged)
        v == Verdict(base, i, disk, unchanged)
    IN
    /\ pc[a] = "classify" /\ i # None
    /\ Goto(a, v, [op[a] EXCEPT !.base = Unsign(base), !.hash = h, !.raced = FALSE,
                     !.how = IF v = "fetch" THEN "get" ELSE "none",
                     !.row = IF v = "record" THEN Converged(i, h, disk) ELSE None])
    /\ base' = IF v = "end" /\ base # None THEN [base EXCEPT !.conf = FALSE] ELSE base
    /\ UNCHANGED <<server, local, root, skips, watchVars, retry, budgets>>

\* deferIfBeingEdited: neither a download nor a conflict lands under the cursor.
Deferred(a) == \E unchanged \in MaybeUnchanged(base) :
    /\ pc[a] = "classify" /\ op[a].info # None
    /\ RemoteChanged(base, op[a].info)
    /\ Verdict(base, op[a].info, disk, unchanged) \in {"fetch", "conflict"}
    /\ Fault /\ retry' = TRUE /\ End(a, FALSE)
    /\ UNCHANGED <<server, local, db, watchVars>>

\* requestStop: a queued worker, of the listing or of the local scan's uploads,
\* becomes a no-op.
Stopped ==
    /\ "stop" \in Env /\ pc["scan"] = "classify" /\ Fault
    /\ op["scan"].info # None \/ LocalChanged(base, disk, FALSE)
    /\ Done("scan", FALSE)
    /\ UNCHANGED <<server, local, db, watchVars, retry>>
-----------------------------------------------------------------------------
(* TransferService.uploadFile *)

ReadForUpload(a) ==
    /\ pc[a] = "read"
    /\ IF disk = None \/ OverLimit(SizeOf(disk)) THEN Done(a, FALSE)
       ELSE Goto(a, "send", [op[a] EXCEPT !.data = disk])
    /\ UNCHANGED <<server, local, db, watchVars, retry, budgets>>

\* Mutant: a create that must not replace anything, whose refusal the caller was
\* not written for.
CreateOnly(i) == IF i = None THEN srv.body = None
                 ELSE i.etag # None => srv.body # None /\ rev = i.etag

\* If-Match is sent only when an ETag is known: never for a new file, nor for a
\* checksum row of a rebuilt listing.
Precondition(i) == i # None /\ i.etag # None => srv.body # None /\ rev = i.etag

Upload(a) ==
    /\ pc[a] = "send"
    /\ Precondition(op[a].info)
    /\ Store(op[a].data)
    /\ Goto(a, "record", [op[a] EXCEPT !.row =
              [hash |-> op[a].hash, rid |-> op[a].hash, size |-> SizeOf(op[a].data),
               sig |-> TRUE, conf |-> FALSE]])
    /\ UNCHANGED <<local, db, watchVars, retry, budgets>>

\* 412: handed to the conflict path with the listing's (now old) information.
UploadRefused(a) ==
    /\ pc[a] = "send"
    /\ ~Precondition(op[a].info)
    /\ Goto(a, "conflict", [op[a] EXCEPT !.data = None])
    /\ UNCHANGED <<server, local, db, watchVars, retry, budgets>>

\* The request fails, or the server took it and the answer was lost.
UploadFails(a) == \E landed \in BOOLEAN :
    /\ pc[a] = "send" /\ FailAndQueue(a)
    /\ IF landed /\ Precondition(op[a].info) THEN Store(op[a].data) ELSE UNCHANGED server
    /\ UNCHANGED <<local, db, watchVars>>

\* setFile(withLocalSignature(row)); an absent file leaves no signature.
Record(a) ==
    /\ pc[a] = "record"
    /\ base' = [op[a].row EXCEPT !.sig = disk # None]
    /\ Done(a, FALSE)
    /\ UNCHANGED <<server, local, root, skips, watchVars, retry, budgets>>
-----------------------------------------------------------------------------
(* TransferService.downloadFile, and the GETs of the conflict path. *)

Plain(a) == op[a].how \in {"get", "probed"}   \* a download, or the restore of a deletion

\* Over the size limit: skipped before the GET, and not an error.
DownloadSkipped(a) ==
    /\ pc[a] = "fetch" /\ Plain(a) /\ OverLimit(op[a].info.size)
    /\ End(a, FALSE)
    /\ UNCHANGED <<server, local, db, watchVars, retry, budgets>>

MayFetch(a) == pc[a] = "fetch" /\ ~(Plain(a) /\ OverLimit(op[a].info.size))

Fetch(a) ==
    /\ MayFetch(a) /\ srv.body # None
    /\ Goto(a, IF op[a].how \in {"clean", "markers"} THEN "merge" ELSE "write",
            [op[a] EXCEPT !.data = srv.body])
    /\ UNCHANGED <<server, local, db, watchVars, retry, budgets>>

\* 404: the file was deleted since the listing.
FetchGone(a) ==
    /\ MayFetch(a) /\ srv.body = None
    /\ Queue(a) /\ End(a, TRUE)
    /\ UNCHANGED <<server, local, db, watchVars, budgets>>

FetchFails(a) ==
    /\ MayFetch(a) /\ FailAndQueue(a)
    /\ UNCHANGED <<server, local, db, watchVars>>

\* An empty body for a file advertised as non-empty is refused.
FetchAnomalous(a) ==
    /\ MayFetch(a) /\ (Plain(a) \/ op[a].how = "remote") /\ op[a].info.size > 0
    /\ Fault /\ retry' = TRUE /\ End(a, TRUE)
    /\ base' = IF Plain(a) /\ base # None THEN [base EXCEPT !.conf = TRUE] ELSE base
    /\ UNCHANGED <<server, local, root, skips, watchVars>>

\* Mutants: the row keeps the hash, or the remote id, of before the download.
OldHashRow(a) == [hash |-> op[a].hash, rid |-> IdOf(op[a].info), size |-> op[a].info.size,
                  sig |-> TRUE, conf |-> FALSE]
OldIdRow(a) == [hash |-> op[a].data, rid |-> IF base = None THEN op[a].data ELSE base.rid,
                size |-> op[a].info.size, sig |-> TRUE, conf |-> FALSE]

FetchedRow(a) == [hash |-> op[a].data, rid |-> IdOf(op[a].info), size |-> op[a].info.size,
                  sig |-> TRUE, conf |-> FALSE]

\* A body equal to the local file is not written.
WriteFetched(a) ==
    /\ pc[a] = "write"
    /\ IF Plain(a) /\ disk = op[a].data
       THEN UNCHANGED <<local, base>>
       ELSE WriteDisk(op[a].data) /\ base' = Unsign(base)
    /\ Goto(a, "record", [op[a] EXCEPT !.row = FetchedRow(a)])
    /\ UNCHANGED <<server, root, skips, watchVars, retry, budgets>>
-----------------------------------------------------------------------------
(* ConflictApplier *)

\* setFile({...base, isConflicted: true}) writes back the row captured when the
\* file was classified.
Flagged(a) == IF op[a].base = None THEN base
              ELSE [op[a].base EXCEPT !.conf = TRUE,
                        !.sig = base # None /\ base.sig /\ base.hash = op[a].base.hash]

\* handleConflict: an oversized remote is flagged; identity is looked for first.
EnterConflict(a) ==
    LET i == op[a].info IN
    /\ pc[a] = "conflict"
    /\ \/ /\ OverLimit(i.size)
          /\ base' = Flagged(a)
          /\ End(a, FALSE)
       \/ /\ ~OverLimit(i.size) /\ UNCHANGED base
          /\ IF disk # None /\ i.sum = disk
             THEN Goto(a, "record", [op[a] EXCEPT !.row = Converged(i, disk, disk)])
             ELSE Go(a, IF disk # None /\ i.sum = None /\ SizeOf(disk) = i.size
                        THEN "compare" ELSE "decide")
    /\ UNCHANGED <<server, local, root, skips, watchVars, retry, budgets>>

\* No checksum and equal sizes: the body is fetched and compared.
Compare(a) ==
    /\ pc[a] = "compare"
    /\ \/ /\ srv.body = None /\ retry' = TRUE /\ End(a, TRUE)
       \/ /\ srv.body # None /\ UNCHANGED retry
          /\ IF srv.body = disk
             THEN Goto(a, "record", [op[a] EXCEPT !.row = Converged(op[a].info, disk, disk)])
             ELSE Goto(a, "decide", [op[a] EXCEPT !.data = srv.body])
    /\ UNCHANGED <<server, local, db, watchVars, budgets>>

CompareFails(a) ==
    /\ pc[a] = "compare" /\ FailAndQueue(a)
    /\ UNCHANGED <<server, local, db, watchVars>>

\* safe-hold: both sides stay, the captured row is written back flagged.
Hold(a) ==
    /\ pc[a] = "decide" /\ "hold" \in Decisions
    /\ base' = Flagged(a)
    /\ End(a, TRUE)
    /\ UNCHANGED <<server, local, root, skips, watchVars, retry, budgets>>

\* A tie counts as success, so it disarms the short circuit itself.
Tie(a) ==
    /\ pc[a] = "decide" /\ "tie" \in Decisions
    /\ root' = None
    /\ End(a, FALSE)
    /\ UNCHANGED <<server, local, base, skips, watchVars, retry, budgets>>

PreferLocal(a) ==
    /\ pc[a] = "decide" /\ "local" \in Decisions
    /\ Go(a, "readLocal")
    /\ UNCHANGED <<server, local, db, watchVars, retry, budgets>>

\* The deferred download happens only when the identity check fetched nothing.
PreferRemote(a) ==
    /\ pc[a] = "decide" /\ "remote" \in Decisions
    /\ Goto(a, IF op[a].data = None THEN "fetch" ELSE "write", [op[a] EXCEPT !.how = "remote"])
    /\ UNCHANGED <<server, local, db, watchVars, retry, budgets>>

\* A text merge needs the local text: reading an absent file throws.
Merge(a) == \E k \in {"clean", "markers"} \cap Decisions :
    /\ pc[a] = "decide"
    /\ IF disk = None THEN End(a, TRUE)
       ELSE Goto(a, IF op[a].data = None THEN "fetch" ELSE "merge", [op[a] EXCEPT !.how = k])
    /\ UNCHANGED <<server, local, db, watchVars, retry, budgets>>

\* resolveByPreferLocal: read, then PUT without a precondition.
ReadLocal(a) ==
    /\ pc[a] = "readLocal"
    /\ \/ disk = None /\ End(a, TRUE) /\ UNCHANGED retry
       \/ disk # None /\ OverLimit(SizeOf(disk)) /\ retry' = TRUE /\ End(a, FALSE)
       \/ /\ disk # None /\ ~OverLimit(SizeOf(disk)) /\ UNCHANGED retry
          /\ Goto(a, "sendLocal", [op[a] EXCEPT !.data = disk])
    /\ UNCHANGED <<server, local, db, watchVars, budgets>>

SendLocal(a) ==
    /\ pc[a] = "sendLocal"
    /\ Store(op[a].data)
    /\ Goto(a, "record", [op[a] EXCEPT !.row = RowFor(op[a].data)])
    /\ UNCHANGED <<local, db, watchVars, retry, budgets>>

SendLocalFails(a) == \E landed \in BOOLEAN :
    /\ pc[a] = "sendLocal" /\ FailAndQueue(a)
    /\ IF landed THEN Store(op[a].data) ELSE UNCHANGED server
    /\ UNCHANGED <<local, db, watchVars>>

\* resolveByWrite: the merged text is written locally, read back and pushed.
WriteMerged(a) == \E m \in Body :
    /\ pc[a] = "merge"
    /\ WriteDisk(m) /\ base' = Unsign(base)
    /\ Go(a, "readMerged")
    /\ UNCHANGED <<server, root, skips, watchVars, retry, budgets>>

MergeUnclean(a) == op[a].how = "markers"

\* The row after a push that did not happen: the old hash, so that the next scan
\* sees a local change and pushes again.
NotPushed(a) == [hash |-> IF base = None THEN None ELSE base.hash, rid |-> IdOf(op[a].info),
                 size |-> SizeOf(disk), sig |-> FALSE, conf |-> TRUE]

ReadMerged(a) ==
    /\ pc[a] = "readMerged"
    /\ \/ disk = None /\ End(a, TRUE) /\ UNCHANGED base
       \/ /\ disk # None /\ OverLimit(SizeOf(disk))
          /\ base' = NotPushed(a) /\ End(a, MergeUnclean(a))
       \/ /\ disk # None /\ ~OverLimit(SizeOf(disk)) /\ UNCHANGED base
          /\ Goto(a, "sendMerged", [op[a] EXCEPT !.data = disk])
    /\ UNCHANGED <<server, local, root, skips, watchVars, retry, budgets>>

SendMerged(a) ==
    /\ pc[a] = "sendMerged"
    /\ Store(op[a].data)
    /\ Goto(a, "record", [op[a] EXCEPT
              !.row = [RowFor(op[a].data) EXCEPT !.size = SizeOf(disk), !.conf = MergeUnclean(a)],
              !.bad = @ \/ MergeUnclean(a)])
    /\ UNCHANGED <<local, db, watchVars, retry, budgets>>

SendMergedFails(a) == \E landed \in BOOLEAN :
    /\ pc[a] = "sendMerged" /\ Fault
    /\ IF landed THEN Store(op[a].data) ELSE UNCHANGED server
    /\ base' = NotPushed(a) /\ retry' = TRUE /\ End(a, MergeUnclean(a))
    /\ UNCHANGED <<local, root, skips, watchVars>>
-----------------------------------------------------------------------------
(* DeletionService.applyLocalDeletion and deleteLocallyMissing *)

\* The listing's checksum, or one recalculated on demand (which may fail), is
\* the only proof that the server's copy is the one this device deleted.
ProofHashes(i) == IF i.sum # None THEN {i.sum}
                  ELSE IF "noProof" \in Env THEN {srv.body, None} ELSE {srv.body}

DeletionProven(a, h) == h = op[a].base.hash

ProveDeletion(a) == pc[a] = "proof" /\ \E h \in ProofHashes(op[a].info) :
    /\ IF h = None /\ srv.body # None THEN Fault ELSE UNCHANGED budgets
    /\ IF h = None THEN End(a, FALSE)
       ELSE Goto(a, IF DeletionProven(a, h) THEN "delete" ELSE "fetch",
                 [op[a] EXCEPT !.how = IF @ = "probed" THEN @ ELSE "get", !.at = IF op[a].info.sum = None THEN rev ELSE @])
    /\ UNCHANGED <<server, local, db, watchVars, retry>>

Drop(a) == base' = None /\ End(a, FALSE)

\* A blind DELETE; 404 is the desired end state.
\* deleteFile is blind: it asks for no version, and a file that is gone already will do.
Removed == IF srv.body = None THEN UNCHANGED server
           ELSE srv' = [body |-> None, sum |-> FALSE] /\ rev' = rev + 1
DeleteRemote(a) ==
    /\ pc[a] = "delete" /\ Removed /\ Drop(a)
    /\ UNCHANGED <<local, root, skips, watchVars, retry, budgets>>

DeleteFails(a) == \E landed \in BOOLEAN :
    /\ pc[a] = "delete" /\ FailAndQueue(a)
    /\ IF landed THEN Removed ELSE UNCHANGED server
    /\ UNCHANGED <<local, db, watchVars>>

\* Mutant: the file is there and was deleted locally, so it is deleted.
ProbeTrusted(a) ==
    /\ pc[a] = "missing"
    /\ IF srv.body = None THEN Drop(a)
       ELSE /\ Goto(a, "delete", [op[a] EXCEPT !.info = Listed, !.at = rev, !.how = "probed"])
            /\ UNCHANGED base
    /\ UNCHANGED <<server, local, root, skips, watchVars, retry, budgets>>

\* statFile of a path neither on disk nor in the listing: 404 drops the row.
ProbeMissing(a) ==
    /\ pc[a] = "missing"
    /\ IF srv.body = None THEN Drop(a)
       ELSE /\ Goto(a, "proof", [op[a] EXCEPT !.info = Listed, !.at = rev, !.how = "probed"])
            /\ UNCHANGED base
    /\ UNCHANGED <<server, local, root, skips, watchVars, retry, budgets>>

\* An unanswerable probe keeps the row.
ProbeMissingFails(a) ==
    /\ pc[a] = "missing" /\ Fault /\ End(a, TRUE)
    /\ UNCHANGED <<server, local, db, watchVars, retry>>
-----------------------------------------------------------------------------
(* processLocalModifications: the file is not in the listing. *)

ScanLocal == \E unchanged \in MaybeUnchanged(base) :
    /\ pc["scan"] = "classify" /\ op["scan"].info = None
    /\ IF disk = None
       THEN IF base = None THEN End("scan", FALSE)
            ELSE Goto("scan", "missing", [op["scan"] EXCEPT !.base = Unsign(base), !.how = "probed"])
       ELSE IF LocalChanged(base, disk, unchanged)
            THEN Goto("scan", "read", [op["scan"] EXCEPT !.hash = disk, !.raced = FALSE])
            ELSE Go("scan", "recheck")
    /\ UNCHANGED <<server, local, db, watchVars, retry, budgets>>

LastSynced == base # None /\ disk = base.hash

\* A tracked file absent from the listing is a candidate only while its content
\* is the one last synced.  Reading a file deleted meanwhile throws.
Candidate ==
    /\ pc["scan"] = "recheck"
    /\ IF disk = None THEN Goto("scan", "finish", [NoOp EXCEPT !.bad = TRUE])
       ELSE IF LastSynced THEN Goto("scan", "ask", [op["scan"] EXCEPT !.raced = FALSE])
       ELSE End("scan", FALSE)
    /\ UNCHANGED <<server, local, db, watchVars, retry, budgets>>

\* remoteExists: only a 404 means gone; a failed probe means present.
AskServer == \E answered \in BOOLEAN :
    /\ pc["scan"] = "ask"
    /\ IF answered THEN UNCHANGED budgets ELSE "noAnswer" \in Env /\ Fault
    /\ IF answered /\ srv.body = None THEN Go("scan", "trash") ELSE End("scan", FALSE)
    /\ UNCHANGED <<server, local, db, watchVars, retry>>

\* processRemoteDeletion
TrashLocal ==
    /\ pc["scan"] = "trash"
    /\ WriteDisk(None) /\ Drop("scan")
    /\ UNCHANGED <<server, root, skips, watchVars, retry, budgets>>

TrashFails ==
    /\ pc["scan"] = "trash" /\ Fault
    /\ root' = None /\ End("scan", FALSE)
    /\ UNCHANGED <<server, local, base, skips, watchVars, retry>>
-----------------------------------------------------------------------------
Session == \/ StartSession \/ ProbeRoot \/ ListRemote \/ ListFails \/ Gate
           \/ SessionThrows \/ Finish \/ Stopped
           \/ ScanLocal \/ Candidate \/ AskServer \/ TrashLocal \/ TrashFails

Watch == WatchModify \/ WatchStat \/ WatchStatFails \/ WatchEnd

Transfer(a) == \/ Classify(a) \/ Deferred(a)
               \/ ReadForUpload(a) \/ Upload(a) \/ UploadRefused(a) \/ UploadFails(a) \/ Record(a)
               \/ DownloadSkipped(a) \/ Fetch(a) \/ FetchGone(a) \/ FetchFails(a)
               \/ FetchAnomalous(a) \/ WriteFetched(a)

Conflict(a) == \/ EnterConflict(a) \/ Compare(a) \/ CompareFails(a)
               \/ Hold(a) \/ Tie(a) \/ PreferLocal(a) \/ PreferRemote(a) \/ Merge(a)
               \/ ReadLocal(a) \/ SendLocal(a) \/ SendLocalFails(a)
               \/ WriteMerged(a) \/ ReadMerged(a) \/ SendMerged(a) \/ SendMergedFails(a)

Deletion(a) == \/ ProveDeletion(a) \/ DeleteRemote(a) \/ DeleteFails(a)
               \/ ProbeMissing(a) \/ ProbeMissingFails(a)

Next == \/ UserEdit \/ ForeignEdit \/ SaveTimer \/ Crash
        \/ Session \/ Watch
        \/ \E a \in Actors : Transfer(a) \/ Conflict(a) \/ Deletion(a)

Spec == Init /\ [][Next]_vars

\* The interval timer, vault events and the event loop: an actor that can take a
\* step takes one.  Nothing obliges the environment to act or a request to fail.
Progress(a) == \/ Transfer(a) \/ Conflict(a) \/ Deletion(a)
               \/ a = "scan" /\ Session
               \/ a = "watch" /\ Watch

FairSpec == Spec /\ \A a \in Actors : WF_vars(Progress(a))
-----------------------------------------------------------------------------
ServerOK == srv \in [body: OrNone(Body), sum: BOOLEAN] /\ rev \in Nat

DeviceOK ==
    /\ disk \in OrNone(Body)
    /\ base \in OrNone(Row) /\ root \in OrNone(Nat) /\ skips \in Nat
    /\ saved \in [base: OrNone(Row), root: OrNone(Nat), skips: Nat]

QueuesOK ==
    /\ timer \in BOOLEAN /\ retry \in BOOLEAN /\ pending \in BOOLEAN
    /\ events \subseteq {"modify", "delete"}

BudgetsOK == edits \in Nat /\ foreign \in Nat /\ faults \in Nat

\* What an actor must have read before it reaches a step.
NeedsInfo == {"fetch", "write", "conflict", "compare", "decide", "readLocal", "sendLocal",
              "merge", "readMerged", "sendMerged", "proof", "delete"}
NeedsData == {"send", "write", "sendLocal", "sendMerged"}
NeedsHash == {"stat", "read", "send"}
NeedsBase == {"missing", "proof", "delete"}

OpOK(label, o) ==
    /\ label \in Pcs /\ o \in Op
    /\ label \in NeedsInfo => o.info # None
    /\ label \in NeedsData => o.data # None
    /\ label \in NeedsHash => o.hash # None
    /\ label \in NeedsBase => o.base # None
    /\ label = "record" => o.row # None

ActorsOK ==
    /\ pc \in [Actors -> Pcs] /\ op \in [Actors -> Op]
    /\ \A a \in Actors : OpOK(pc[a], op[a])

\* Every variable has its type, and no step is reached without what it uses: no
\* transfer, conflict or deletion step runs on a listing entry, a body, a hash or
\* a row its actor never obtained.
TypeOK == ServerOK /\ DeviceOK /\ QueuesOK /\ BudgetsOK /\ ActorsOK

\* The row describes the version the server holds.
RowMatchesServer == base # None /\ base.rid = IdOf(Listed)

\* The convergence gate (docs/spec.md 8a.5): between sessions, a stored root ETag
\* equal to the server's means the row describes the file the server holds, so
\* that the listing a short circuit would rebuild is the true one.
ArmedMeansConverged ==
    ~Running /\ root = rev /\ srv.body # None => RowMatchesServer

\* The same gate for a file that is gone (docs/spec.md 8a.5, EAD-2): no row is
\* left from which a short circuit would rebuild, as still on the server, a file
\* the vault keeps unchanged: its deletion would never arrive.
ArmedHasNoGhost ==
    ~Running /\ root = rev /\ srv.body = None =>
        base = None \/ disk = None \/ disk # base.hash

\* What "StateDB == remote" (docs/spec.md 8a.5) should say of the content: while
\* the short circuit is armed, a file the user has not touched since its row was
\* recorded is the server's file.
ArmedMeansInSync ==
    ~Running /\ root = rev /\ srv.body # None /\ base # None /\ disk = base.hash
        => disk = srv.body

\* The fast path skips reading a file whose stat matches the row: whenever the
\* signature matches, the row's hash is the hash of the file.
SignatureIsTruthful == base # None /\ base.sig => disk = base.hash

\* A regular upload (not a conflict resolution) replaces only the version its
\* edit was based on.  One that knows no ETag to send may also replace a version
\* that appeared after the listing was taken.
UploadReplacesBaseline == [][\A a \in Actors :
    pc[a] = "send" /\ pc'[a] \in {"record", "end"} /\ rev' # rev =>
        \/ srv.body = None
        \/ op[a].base # None /\ op[a].base.rid = IdOf(Listed)
        \/ rev > op[a].at /\ (op[a].info # None => op[a].info.etag = None)]_vars

\* "Every update carries an always-on If-Match precondition" (README.md:95): no
\* PUT replaces a version that appeared after the listing it was decided on.
EveryUpdateIsConditional == [][\A a \in Actors :
    (/\ pc[a] \in {"send", "sendLocal", "sendMerged"} /\ pc'[a] # pc[a]
     /\ op[a].info # None /\ rev' # rev) =>
        srv.body = None \/ rev = op[a].at]_vars

\* A DELETE destroys only the content this device last synced, or a version
\* that appeared after the proof was taken.
DeleteIsProven == [][\A a \in Actors :
    pc[a] = "delete" /\ rev' # rev =>
        srv.body = None \/ rev > op[a].at \/ srv.body = op[a].base.hash]_vars

\* A plain download, the restore of a deletion and an absence deletion destroy
\* only a synced local body, or one saved after the file was last looked at.
LocalWorkIsKept == [][\A a \in Actors :
    ((pc[a] = "write" /\ Plain(a)) \/ pc[a] = "trash") /\ disk' # disk =>
        disk = None \/ op[a].raced \/ (base # None /\ disk = base.hash)]_vars

Transferring(a) == pc[a] \in {"send", "sendLocal", "sendMerged", "fetch", "write", "merge",
                              "delete", "trash"}

\* Once the environment is quiet and conflicts are decided, the file is the same
\* on both sides, and later sessions neither upload nor download it again.
Settles == <>[](disk = srv.body /\ \A a \in Actors : ~Transferring(a))
=============================================================================
