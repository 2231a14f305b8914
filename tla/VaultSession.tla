------------------------------ MODULE VaultSession ------------------------------
(***************************************************************************)
(* A whole session over several files: the first sync of an empty state,   *)
(* the later sessions, and the re-seeding of a vanished vault folder.      *)
(*                                                                         *)
(* What happens to one file is one step here: FileSync takes that step     *)
(* apart.  What one file's turn cannot show is kept: the listing, the      *)
(* local stats and the sets of files computed from them go stale while     *)
(* the session works through them, and a session acts on files because     *)
(* they are absent from a listing.                                         *)
(***************************************************************************)
EXTENDS Naturals, FiniteSets, Functions

CONSTANTS
    Files, Body, None,
    MassDeleteLimit,   \* the setting, 0 = unlimited
    ForceEvery,        \* FORCE_FULL_SCAN_EVERY
    Decisions,         \* what conflict resolution may decide
    Env,               \* what may go wrong: subset of EnvKinds
    MaxUser, MaxForeign, MaxFaults   \* bounds

\* vanish: the vault folder disappears between sessions; midway: during one too.
\* false404: a listing says 404 of a folder that is there.  partial: a listing omits
\* a file.  request, vault: a request, or a local trash, fails.  crash: the app is killed.
EnvKinds == {"vanish", "midway", "false404", "partial", "request", "vault", "crash"}

ASSUME SetsAssumption ==
    /\ IsFiniteSet(Files) /\ Body # {}
    /\ Env \subseteq EnvKinds /\ Decisions \subseteq {"local", "remote", "hold"}
ASSUME NoneAssumption == None \notin Body \cup [hash : Body, rid : Body]
ASSUME NumbersAssumption ==
    {MassDeleteLimit, ForceEvery, MaxUser, MaxForeign, MaxFaults} \subseteq Nat

VARIABLES
    disk,       \* local files
    root, srv,  \* does the vault folder exist on the server; the files in it
    row,        \* StateDB: what was last synced, [hash, rid] or None
    etag,       \* stored root ETag: none, still the server's, or not
    skips,      \* fullScanSkipCount
    saved,      \* row, etag and skips as last persisted
    retry,      \* retryQueue
    pc, first, real,    \* the session's phase; is it initialSync; is its listing real
    list, stats,        \* the listing, and the local stats, it works from
    todo, moves, bad,   \* the files left in the phase; renames; errors and conflicts
    touched,    \* history: files the user changed while this session ran
    gone,       \* history: unedited files another device deleted
    orphan,     \* history: files whose server copy went with the vault folder
    user, foreign, faults

server  == <<root, srv>>
db      == <<row, etag, skips>>
session == <<pc, first, real, list, stats, todo, moves, bad>>
history == <<touched, gone, orphan>>
budgets == <<user, foreign, faults>>
vars == <<disk, root, srv, row, etag, skips, saved, retry, pc, first, real, list, stats,
          todo, moves, bad, touched, gone, orphan, user, foreign, faults>>

Content == Body \cup {None}
Row == [hash : Body, rid : Body]
Both(b) == [hash |-> b, rid |-> b]
There(s) == {f \in Files : s[f] # None}
Empty == [f \in Files |-> None]
Tracked == There(row)
HashOf(f) == IF row[f] = None THEN None ELSE row[f].hash
IdOf(f) == IF row[f] = None THEN None ELSE row[f].rid

Running == pc # "off"
Fault(kind) == kind \in Env /\ faults < MaxFaults /\ faults' = faults + 1 /\ UNCHANGED <<user, foreign>>
\* Every change below the root changes the root's ETag.
Older(e) == IF e = "same" THEN "stale" ELSE e
Moved == etag' = Older(etag) /\ saved' = [saved EXCEPT !.etag = Older(@)]
Still == UNCHANGED <<etag, saved>>

\* A state never synced, or one in sync.
SomeBody == CHOOSE b \in Body : TRUE
Unsynced == /\ disk \in [Files -> {SomeBody, None}] /\ srv \in [Files -> Content] /\ row = Empty
            /\ \A f \in Files : disk[f] = None => srv[f] = SomeBody
Synced == disk = [f \in Files |-> SomeBody] /\ srv = disk /\ row = [f \in Files |-> Both(SomeBody)]
Init ==
    /\ Unsynced \/ Synced
    /\ root = TRUE /\ etag = "none" /\ skips = 0
    /\ saved = [row |-> row, etag |-> etag, skips |-> skips] /\ retry = {}
    /\ pc = "off" /\ first = FALSE /\ real = FALSE /\ list = Empty /\ stats = Empty
    /\ todo = {} /\ moves = Empty /\ bad = FALSE /\ touched = {} /\ gone = {} /\ orphan = {}
    /\ user = 0 /\ foreign = 0 /\ faults = 0
-----------------------------------------------------------------------------
(* The user, the other devices, the server's keeper, and the end of the app. *)

Acts == user < MaxUser /\ user' = user + 1 /\ UNCHANGED <<foreign, faults>>
OthersAct == foreign < MaxForeign /\ foreign' = foreign + 1 /\ UNCHANGED <<user, faults>>
Edited(fs) == /\ gone' = gone \ fs /\ orphan' = orphan \ fs
              /\ touched' = IF Running THEN touched \cup fs ELSE {}

UserEdit(f, b) ==
    /\ Acts /\ disk[f] # b /\ disk' = [disk EXCEPT ![f] = b] /\ Edited({f})
    /\ UNCHANGED <<server, db, saved, retry, session>>
UserRename(f, g) ==
    /\ Acts /\ disk[f] # None /\ disk[g] = None
    /\ disk' = [disk EXCEPT ![f] = None, ![g] = disk[f]] /\ Edited({f, g})
    /\ UNCHANGED <<server, db, saved, retry, session>>

InSync(f) == row[f] # None /\ disk[f] = HashOf(f) /\ srv[f] = disk[f]
\* Another device makes the vault folder again when it is gone, by a PUT or a re-seed.  This
\* one then never finds it missing: it trashes what it still tracks and the listing lacks.
Lost == IF root THEN {} ELSE Tracked \cup There(saved.row)
\* gone leaves out the target of a rename this session still has to do: two missing files
\* with one content get one target, and the second MOVE may follow another device's delete.
ForeignEdit(f, b) ==
    /\ OthersAct /\ srv[f] # b /\ srv' = [srv EXCEPT ![f] = b] /\ root' = TRUE /\ Moved
    /\ orphan' = orphan \ (Lost \cup {f})
    /\ gone' = IF InSync(f) /\ b = None /\ f \notin touched /\ \A g \in todo : moves[g] # f
               THEN gone \cup {f} ELSE gone \ {f}
    /\ UNCHANGED <<disk, row, skips, retry, session, touched>>
\* The MKCOL of another device's re-seed, before any of its files.
ForeignRoot ==
    /\ OthersAct /\ ~root /\ root' = TRUE /\ Moved /\ orphan' = orphan \ Lost
    /\ UNCHANGED <<disk, srv, row, skips, retry, session, touched, gone>>

VanishRoot ==
    /\ root /\ Fault(IF Running THEN "midway" ELSE "vanish")
    /\ root' = FALSE /\ srv' = Empty /\ Moved
    /\ orphan' = {f \in Files : srv[f] # None /\ disk[f] = srv[f]}
    /\ UNCHANGED <<disk, row, skips, retry, session, touched, gone>>

Off == /\ pc' = "off" /\ first' = FALSE /\ real' = FALSE /\ list' = Empty /\ stats' = Empty
       /\ todo' = {} /\ moves' = Empty /\ bad' = FALSE /\ touched' = {}

\* What was not persisted is forgotten, and with it that a file was ever synced.
Crash ==
    /\ Running /\ Fault("crash") /\ Off /\ retry' = {}
    /\ row' = saved.row /\ etag' = saved.etag /\ skips' = saved.skips
    /\ gone' = {f \in gone : saved.row[f] = row[f]}
    /\ UNCHANGED <<disk, server, saved, orphan>>
-----------------------------------------------------------------------------
(* Starting, listing, re-seeding and ending. *)

StartSession ==
    /\ ~Running /\ pc' = "list" /\ first' = (Tracked = {})
    /\ UNCHANGED <<disk, server, db, saved, retry, real, list, stats, todo, moves, bad, history, budgets>>

Enter(phase, fs) == pc' = phase /\ todo' = fs
\* The scan of an incremental session: the queue is taken over, the files come first.
Scan(l, isReal) ==
    /\ Enter("files", There(l)) /\ list' = l /\ real' = isReal /\ retry' = {}
    /\ UNCHANGED <<disk, server, row, first, stats, moves, bad, history>>

ListReal == pc = "list" /\ ~first /\ root
ScanReal ==
    /\ ListReal /\ Scan(srv, TRUE) /\ UNCHANGED budgets
    /\ etag' = "same" /\ skips' = 0 /\ UNCHANGED saved
ScanPartly(f) ==
    /\ ListReal /\ srv[f] # None /\ Fault("partial") /\ Scan([srv EXCEPT ![f] = None], TRUE)
    /\ etag' = "same" /\ skips' = 0 /\ UNCHANGED saved
ScanCached ==
    /\ pc = "list" /\ ~first /\ etag = "same" /\ skips < ForceEvery
    /\ Scan([f \in Files |-> IdOf(f)], FALSE)
    /\ skips' = skips + 1 /\ UNCHANGED <<etag, saved, budgets>>

\* buildInitialPlan: uploads, downloads, then what is on both sides.
PlanFrom(l) ==
    /\ pc = "list" /\ first
    /\ Enter("up", There(disk) \ There(l)) /\ list' = l /\ real' = TRUE /\ stats' = disk
    /\ UNCHANGED <<disk, server, db, saved, retry, first, moves, bad, history>>
\* With nothing tracked a 404 of the vault folder, a false one too, is an empty listing.
FirstPlan ==
    \/ PlanFrom(srv) /\ UNCHANGED budgets
    \/ PlanFrom(Empty) /\ Fault("false404")
    \/ \E f \in There(srv) : PlanFrom([srv EXCEPT ![f] = None]) /\ Fault("partial")

Persist == saved' = [row |-> row', etag |-> etag', skips |-> skips']
End == Off /\ Persist
Throw == UNCHANGED <<row, etag, skips>> /\ End   \* the gate is not reached

ListFails ==
    /\ pc = "list" /\ Fault("request") /\ Throw
    /\ UNCHANGED <<disk, server, retry, gone, orphan>>

RootMissing ==   \* RemoteRootMissingError of a tracked vault
    /\ pc = "list" /\ ~first
    /\ \/ ~root /\ UNCHANGED budgets
       \/ Fault("false404")
    /\ pc' = "reseed"
    /\ UNCHANGED <<disk, server, db, saved, retry, first, real, list, stats, todo, moves, bad, history>>

\* createVaultRoot: 201 proves that the folder was missing.
MadeRoot == ~root /\ root' = TRUE
\* Mutant: the new folder counts as the tracked one, emptied.
ReseedKeepsRows ==
    /\ pc = "reseed" /\ MadeRoot /\ pc' = "list"
    /\ UNCHANGED <<disk, srv, db, saved, retry, first, real, list, stats, todo, moves, bad, history, budgets>>
\* reseedFromLocal: the tracking goes, which reset() persists at once, and initialSync follows.
Reseed ==
    /\ pc = "reseed" /\ MadeRoot
    /\ row' = Empty /\ etag' = "none" /\ skips' = 0 /\ Persist
    /\ pc' = "list" /\ first' = TRUE /\ gone' = {}
    /\ UNCHANGED <<disk, srv, retry, real, list, stats, todo, moves, bad, touched, orphan, budgets>>
\* MKCOL answers 405, or fails: the listing was wrong, or nothing is known.
ReseedRefused ==
    /\ pc = "reseed"
    /\ \/ root /\ UNCHANGED budgets
       \/ Fault("request")
    /\ Throw /\ UNCHANGED <<disk, server, retry, gone, orphan>>

\* The gate of incrementalSync, and the end of initialSync, which has none.
Finish ==
    /\ pc = (IF first THEN "conflict" ELSE "absent") /\ todo = {} /\ Off
    /\ etag' = IF ~first /\ (bad \/ retry # {}) THEN "none" ELSE etag
    /\ UNCHANGED <<row, skips>> /\ Persist
    /\ UNCHANGED <<disk, server, retry, gone, orphan, budgets>>
-----------------------------------------------------------------------------
(* What a session does to one file. *)

Turn(phase, f) == pc = phase /\ f \in todo /\ todo' = todo \ {f}
Rest == UNCHANGED <<pc, first, real, list, stats, moves, history>>
Fine == UNCHANGED <<retry, bad, budgets>>
Kept(f) == UNCHANGED <<disk, server, row>> /\ Still
\* A NetworkError is counted, and the file is queued for the next session.
Queued(f) == retry' = retry \cup {f} /\ bad' = TRUE /\ Kept(f)
\* The file to read is not there: only the first sync queues it then.
Unread(f) == bad' = TRUE /\ retry' = (IF first THEN retry \cup {f} ELSE retry) /\ Kept(f) /\ UNCHANGED budgets
Fails(f) == Fault("request") /\ Queued(f)
Set(f, r) == row' = [row EXCEPT ![f] = r]

\* A PUT into a folder that is gone makes the folder again.
Upload(f) ==
    /\ root' = TRUE /\ srv' = [srv EXCEPT ![f] = disk[f]] /\ Moved
    /\ Set(f, Both(disk[f])) /\ UNCHANGED disk /\ Fine
Download(f, id) ==
    IF srv[f] = None THEN Queued(f) /\ UNCHANGED budgets
    ELSE /\ disk' = [disk EXCEPT ![f] = srv[f]]
         /\ Set(f, [hash |-> srv[f], rid |-> id]) /\ UNCHANGED server /\ Still /\ Fine
Decide(f) ==
    \/ "local" \in Decisions /\ IF disk[f] # None THEN Upload(f) ELSE Unread(f)
    \/ "remote" \in Decisions /\ Download(f, list[f])
    \/ "hold" \in Decisions /\ bad' = TRUE /\ Kept(f) /\ UNCHANGED <<retry, budgets>>
Resolve(f) ==
    IF disk[f] = srv[f] /\ disk[f] # None
    THEN Set(f, [hash |-> disk[f], rid |-> list[f]]) /\ UNCHANGED <<disk, server>> /\ Still /\ Fine
    ELSE Decide(f)

Proven(f, id) == id = HashOf(f)
Untrack(f) == Set(f, None) /\ UNCHANGED disk
\* applyLocalDeletion: the DELETE is blind, a diverged copy is restored.
Delete(f, id) ==
    IF Proven(f, id)
    THEN /\ srv' = [srv EXCEPT ![f] = None] /\ UNCHANGED root
         /\ (IF srv[f] = None THEN Still ELSE Moved) /\ Untrack(f) /\ Fine
    ELSE Download(f, id)

\* Mutant: any local file that is not listed is uploaded.
LocalFile(f) == disk[f] # None
LocalEdit(f) == disk[f] \notin {None, HashOf(f)}
RemoteEdit(f) == list[f] # IdOf(f)

\* processRemoteFile.  Only a real listing has ETags: without one a PUT has no If-Match.
ProcessRemote(f) ==
    /\ Turn("files", f) /\ Rest /\ UNCHANGED skips
    /\ \/ disk[f] = None /\ row[f] # None /\ Delete(f, list[f])
       \/ disk[f] = list[f] /\ Set(f, Both(list[f])) /\ UNCHANGED <<disk, server>> /\ Still /\ Fine
       \/ /\ disk[f] # list[f] /\ ~LocalEdit(f) /\ ~RemoteEdit(f) /\ disk[f] # None
          /\ Kept(f) /\ Fine
       \/ /\ LocalEdit(f) /\ ~RemoteEdit(f) /\ disk[f] # list[f]
          /\ IF real /\ srv[f] # list[f] THEN Resolve(f) ELSE Upload(f)
       \/ /\ RemoteEdit(f) /\ ~LocalEdit(f) /\ (disk[f] # None \/ row[f] = None)
          /\ disk[f] # list[f] /\ Download(f, list[f])
       \/ RemoteEdit(f) /\ LocalEdit(f) /\ disk[f] # list[f] /\ Resolve(f)
       \/ Fails(f)
-----------------------------------------------------------------------------
(* executePlan: the phases of the first sync, from the listing and the stats of   *)
(* its start.  Nothing is deleted, and nothing here carries an If-Match.          *)

Then(phase, from, fs) ==
    /\ pc = from /\ todo = {} /\ Enter(phase, fs)
    /\ UNCHANGED <<disk, server, db, saved, retry, first, real, list, moves, bad, history, budgets>>
FirstPhase(phase, from, fs) == first /\ Then(phase, from, fs) /\ UNCHANGED stats
FirstNextPhase ==
    \/ FirstPhase("down", "up", There(list) \ There(stats))
    \/ FirstPhase("same", "down", {f \in There(list) : stats[f] = list[f]})
    \/ FirstPhase("conflict", "same", {f \in There(list) \cap There(stats) : stats[f] # list[f]})

FirstUpload(f) ==
    /\ first /\ Turn("up", f) /\ Rest /\ UNCHANGED skips
    /\ \/ disk[f] # None /\ Upload(f)
       \/ disk[f] = None /\ Unread(f)
       \/ Fails(f)
FirstDownload(f) == Turn("down", f) /\ Rest /\ UNCHANGED skips /\ (Download(f, list[f]) \/ Fails(f))
FirstUnchanged(f) ==
    /\ Turn("same", f) /\ Rest /\ UNCHANGED skips
    /\ Set(f, Both(list[f])) /\ UNCHANGED <<disk, server>> /\ Still /\ Fine
FirstConflict(f) == Turn("conflict", f) /\ Rest /\ UNCHANGED skips /\ (Resolve(f) \/ Fails(f))
-----------------------------------------------------------------------------
(* processLocalModifications. *)

\* New and edited files that the listing does not have.
CollectLocal ==
    /\ ~first /\ stats' = disk
    /\ Then("up", "files", {f \in There(disk) \ There(list) : LocalEdit(f)})
UploadModified(f) ==
    /\ ~first /\ Turn("up", f) /\ Rest /\ UNCHANGED skips
    /\ \/ LocalEdit(f) /\ Upload(f)
       \/ disk[f] # None /\ ~LocalEdit(f) /\ Kept(f) /\ Fine
       \/ Fails(f)

\* A read of a file that went since the stats were taken rejects the whole session.
Unreadable(f) == stats[f] # None /\ disk[f] = None
ReadThrows ==
    /\ ~first
    /\ \/ pc = "up" /\ \E f \in todo : Unreadable(f)
       \/ pc = "up" /\ todo = {} /\ \E f \in Files \ Tracked : Unreadable(f)
       \/ pc = "missing" /\ todo = {} /\ \E f \in Tracked \ There(list) : Unreadable(f)
    /\ Throw /\ UNCHANGED <<disk, server, retry, gone, orphan, budgets>>

\* Tracked, neither here nor listed.
Missing == {f \in Tracked : stats[f] = None /\ list[f] = None}
\* detectLocalRenamesByHash: for each, the first untracked local file of its content.
FirstLike(f, fs) == {g \in fs : disk[g] = HashOf(f)}
DetectRenames ==
    /\ ~first /\ pc = "up" /\ todo = {} /\ Enter("missing", Missing)
    /\ LET new == There(stats) \ Tracked IN
       /\ \A g \in new : disk[g] # None
       /\ \E m \in [Missing -> new \cup {None}] :
              /\ \A f \in Missing : IF FirstLike(f, new) = {} THEN m[f] = None ELSE m[f] \in FirstLike(f, new)
              /\ moves' = [f \in Files |-> IF f \in Missing THEN m[f] ELSE None]
    /\ UNCHANGED <<disk, server, db, saved, retry, first, real, list, stats, bad, history, budgets>>

\* MOVE, which makes the target's folder, and with it the vault folder, if it must.
\* An existing target (412) is left alone without an error.
Rename(f) ==
    /\ Turn("missing", f) /\ moves[f] # None /\ UNCHANGED <<pc, first, real, list, stats, moves, history, disk, skips, retry>>
    /\ \/ /\ srv[f] # None /\ srv[moves[f]] = None
          /\ srv' = [srv EXCEPT ![f] = None, ![moves[f]] = srv[f]] /\ Moved
          /\ row' = [row EXCEPT ![f] = None, ![moves[f]] = row[f]]
          /\ UNCHANGED <<root, bad, budgets>>
       \/ /\ srv[f] # None /\ srv[moves[f]] # None
          /\ UNCHANGED <<server, row, bad, budgets>> /\ Still
       \/ /\ srv[f] = None /\ root' = TRUE /\ UNCHANGED <<srv, row, budgets>> /\ bad' = TRUE
          /\ (IF root THEN Still ELSE Moved)
       \/ Fault("request") /\ bad' = TRUE /\ UNCHANGED <<server, row>> /\ Still

\* deleteLocallyMissing: the server is asked about the file itself.
DeleteMissing(f) ==
    /\ Turn("missing", f) /\ \A g \in todo : moves[g] = None
    /\ Rest /\ UNCHANGED skips
    /\ \/ row[f] = None /\ Kept(f) /\ Fine
       \/ row[f] # None /\ srv[f] = None /\ Untrack(f) /\ UNCHANGED server /\ Still /\ Fine
       \/ row[f] # None /\ srv[f] # None /\ Delete(f, srv[f])
       \/ /\ row[f] # None /\ Fault("request") /\ bad' = TRUE
          /\ Kept(f) /\ UNCHANGED retry

\* Mutant: an empty listing proves nothing (the guard of issue 50).
CandidatesIfAny ==
    {f \in Tracked : There(list) # {} /\ stats[f] # None /\ list[f] = None /\ disk[f] = HashOf(f)}
\* Tracked, here unedited, and not listed: that includes what this session uploaded.
Candidates == {f \in Tracked : stats[f] # None /\ list[f] = None /\ disk[f] = HashOf(f)}
OverLimit(n) == MassDeleteLimit > 0 /\ n > MassDeleteLimit
JudgeAbsent ==
    /\ pc = "missing" /\ todo = {} /\ \A f \in Tracked \ There(list) : ~Unreadable(f)
    /\ IF OverLimit(Cardinality(Candidates))
       THEN Enter("absent", {}) /\ bad' = TRUE
       ELSE Enter("absent", Candidates) /\ UNCHANGED bad
    /\ UNCHANGED <<disk, server, db, saved, retry, first, real, list, stats, moves, history, budgets>>
\* remoteExists, then processRemoteDeletion; anything but a 404 keeps the file.
TrashAbsent(f) ==
    /\ Turn("absent", f) /\ UNCHANGED <<pc, first, real, list, stats, moves, bad, retry, server, skips, touched, orphan>>
    /\ \/ /\ srv[f] = None /\ disk' = [disk EXCEPT ![f] = None] /\ Set(f, None) /\ Still
          /\ gone' = gone \ {f} /\ UNCHANGED budgets
       \/ srv[f] # None /\ UNCHANGED <<disk, row, gone, budgets>> /\ Still
       \/ srv[f] = None /\ Fault("request") /\ UNCHANGED <<disk, row, gone>> /\ Still
       \/ /\ srv[f] = None /\ Fault("vault") /\ UNCHANGED <<disk, row, gone, saved>>
          /\ etag' = "none"
-----------------------------------------------------------------------------
EnvNext ==
    \/ \E f \in Files : \E b \in Content : UserEdit(f, b) \/ ForeignEdit(f, b)
    \/ \E f, g \in Files : UserRename(f, g)
    \/ ForeignRoot \/ VanishRoot \/ Crash
FileNext(f) ==
    \/ ProcessRemote(f) \/ FirstUpload(f) \/ FirstDownload(f) \/ FirstUnchanged(f) \/ FirstConflict(f)
    \/ UploadModified(f) \/ Rename(f) \/ DeleteMissing(f) \/ TrashAbsent(f)
SessionNext ==
    \/ StartSession \/ ScanReal \/ ScanCached \/ FirstPlan \/ ListFails \/ RootMissing
    \/ Reseed \/ ReseedRefused \/ FirstNextPhase \/ CollectLocal \/ ReadThrows \/ DetectRenames
    \/ JudgeAbsent \/ Finish
    \/ \E f \in Files : ScanPartly(f) \/ FileNext(f)
Next == EnvNext \/ SessionNext
Spec == Init /\ [][Next]_vars
\* The timer starts sessions for ever, and each runs to its end.
FairSpec == Spec /\ WF_vars(SessionNext)
-----------------------------------------------------------------------------
TypeOK ==
    /\ {disk, srv, list, stats} \subseteq [Files -> Content] /\ (There(srv) # {} => root)
    /\ row \in [Files -> Row \cup {None}] /\ etag \in {"none", "same", "stale"} /\ skips \in 0..ForceEvery
    /\ {retry, todo, gone, orphan} \subseteq SUBSET Files /\ {root, first, real, bad} \subseteq BOOLEAN
    /\ pc \in {"off", "list", "reseed", "files", "up", "down", "same", "conflict", "missing", "absent"}

\* A file another device deleted while it was in sync here does not come back by a
\* session of this device, however stale the listing and the stats it works from.
DeletedStaysDeleted == \A f \in gone : srv[f] = None
\* With the types: the short circuit's budget is never overdrawn.
Safety == TypeOK /\ DeletedStaysDeleted

\* When the vault folder vanishes, no session takes a local file that was in sync with it,
\* "Nothing is deleted locally" (docs/spec.md section 8): unless another device made the
\* folder again while this one still tracked the file, which trashes it (Lost).
RootLossKeepsFiles == \A f \in orphan : srv[f] # None \/ disk[f] # None

\* Changed on both sides, which a conflict that is held leaves as it is.
InConflict(f) == LocalEdit(f) /\ srv[f] \notin {None, IdOf(f), disk[f]}
\* A body stands for its ETag here, so one that comes back looks as it did; an ETag is new
\* with every write, and the row of an overtaken download then differs from the listing.
Returned(f) == row[f] # None /\ srv[f] = IdOf(f) /\ srv[f] # HashOf(f)
\* More files are gone from the server than the breaker lets a session take.
Refused == OverLimit(Cardinality({f \in Tracked : srv[f] = None /\ disk[f] = HashOf(f)}))
\* Once everyone is quiet, sessions bring all files into agreement and empty the queue
\* (which a first sync that leaves the state empty never does);
\* what is left is a conflict, which may be held again every time, or what the breaker refuses.
VaultConverges == <>[](/\ \A f \in Files : disk[f] = srv[f] \/ InConflict(f) \/ Returned(f) \/ Refused
                      /\ (retry = {} \/ Tracked = {}))
=============================================================================
