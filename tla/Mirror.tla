--------------------------------- MODULE Mirror ---------------------------------
(***************************************************************************)
(* Mirror from remote: the vault is made an image of the server from a     *)
(* plan the user confirms, and the rows are made to say so, so that the    *)
(* sessions that follow send nothing of the old vault back.                *)
(*                                                                         *)
(* One folder is planned for, and files in it and beside it.  A session is *)
(* one step here, with no one else acting: FileSync and VaultSession take  *)
(* it apart.                                                               *)
(***************************************************************************)
EXTENDS Naturals

CONSTANTS
    Files, InD,    \* the files, and those in the folder
    D,             \* the folder
    Body, None,
    Env,           \* what may go wrong: subset of EnvKinds
    MaxActs, MaxMirrors    \* bounds: what users, devices and failures do; mirrors

\* partial: a listing omits a file.  request, vault, save: a request, a local removal or
\* mkdir, a save fails.  crash: the app is killed.  overlap: a session starts between
\* the plan and the end of the apply, as nothing keeps a timer from doing.
EnvKinds == {"partial", "request", "vault", "save", "crash", "overlap"}

ASSUME SetsAssumption == InD \subseteq Files /\ D \notin Files /\ Body # {} /\ Env \subseteq EnvKinds
ASSUME NoneAssumption == None \notin Body \cup [hash : Body, rid : Body, sig : Body]
ASSUME NumbersAssumption == {MaxActs, MaxMirrors} \subseteq Nat

VARIABLES
    disk, dir,     \* local files; is there a local folder
    srv, rdir,     \* the same of the server
    row, drow,     \* StateDB: [hash, rid, sig] or None per file; is the folder tracked
    etag,          \* stored root ETag: none, still the server's, or not
    saved,         \* row, drow and etag as last persisted
    pc, plan, todo,    \* where the mirror is, its MirrorPlan, the files left in the phase
    failed,        \* files, and D, whose local removal failed
    touched,       \* history: since the plan, what the user changed or no download reached
    moved,         \* history: since the plan, what others, sessions or failures changed
    pulled,        \* history: the last mirror ended and its rows are in force
    acts, mirrors  \* what the bounds count

vault   == <<disk, dir>>
server  == <<srv, rdir>>
db      == <<row, drow, etag>>
mirror  == <<pc, plan, todo, failed>>
history == <<touched, moved, pulled>>
budgets == <<acts, mirrors>>
vars == <<disk, dir, srv, rdir, row, drow, etag, saved, pc, plan, todo, failed,
          touched, moved, pulled, acts, mirrors>>

Content == Body \cup {None}
Row == [hash : Body, rid : Body, sig : Body]
Same(b) == [hash |-> b, rid |-> b, sig |-> b]
Empty == [f \in Files |-> None]
There(s) == {f \in Files : s[f] # None}
Holds(s) == There(s) \cap InD # {}
HashOf(r) == IF r = None THEN None ELSE r.hash
IdOf(r) == IF r = None THEN None ELSE r.rid
Item == Files \cup {D}
\* What is touched with a file: the folder it is in.
With(fs) == fs \cup (IF fs \cap InD # {} THEN {D} ELSE {})

NoPlan == [list |-> Empty, stats |-> Empty, rdir |-> FALSE, ldir |-> FALSE, downs |-> {}]
Idle == pc = "off"
Act == acts < MaxActs /\ acts' = acts + 1
Fault(kind) == kind \in Env /\ Act /\ UNCHANGED mirrors
Older(e) == IF e = "same" THEN "stale" ELSE e

SomeBody == CHOOSE b \in Body : TRUE
\* Anything may be unsynced before the first mirror.
Init ==
    /\ disk \in [Files -> Content] /\ srv \in [Files -> {SomeBody, None}]
    /\ dir \in BOOLEAN /\ rdir \in BOOLEAN /\ (Holds(disk) => dir) /\ (Holds(srv) => rdir)
    /\ row \in [Files -> {None, Same(SomeBody)}]
    /\ drow \in BOOLEAN /\ etag = "none" /\ saved = [row |-> row, drow |-> drow, etag |-> etag]
    /\ pc = "off" /\ plan = NoPlan /\ todo = {} /\ failed = {}
    /\ touched = {} /\ moved = {} /\ pulled = FALSE
    /\ acts = 0 /\ mirrors = 0
-----------------------------------------------------------------------------
(* The user, the other devices, the end of the app. *)

UserActs(t) == Act /\ touched' = touched \cup t /\ UNCHANGED <<server, db, saved, mirror, moved, pulled, mirrors>>
UserEdit(f, b) ==
    /\ disk[f] # b /\ disk' = [disk EXCEPT ![f] = b]
    /\ dir' = (dir \/ (f \in InD /\ b # None)) /\ UserActs(With({f}))
UserFolder ==
    /\ dir' = ~dir /\ disk' = [f \in Files |-> IF f \in InD THEN None ELSE disk[f]]
    /\ UserActs(InD \cup {D})

OthersAct(t) == Act /\ moved' = moved \cup t
                /\ etag' = Older(etag) /\ saved' = [saved EXCEPT !.etag = Older(@)]
                /\ UNCHANGED <<vault, row, drow, mirror, touched, pulled, mirrors>>
\* No device returns a file to the content it was listed with while another was fetched:
\* the row then has the hash of one and the id of the other (README, Deviations).
Fresh(f, b) == b = None \/ (b # plan.list[f] /\ (b = IdOf(row[f]) => b = HashOf(row[f])))
ForeignEdit(f, b) ==
    /\ srv[f] # b /\ Fresh(f, b) /\ srv' = [srv EXCEPT ![f] = b]
    /\ rdir' = (rdir \/ (f \in InD /\ b # None)) /\ OthersAct(With({f}))
ForeignFolder ==
    /\ rdir' = ~rdir /\ srv' = [f \in Files |-> IF f \in InD THEN None ELSE srv[f]]
    /\ OthersAct(InD \cup {D})

Off == pc' = "off" /\ plan' = NoPlan /\ todo' = {} /\ failed' = {}
Crash ==
    /\ Fault("crash") /\ Off
    /\ row' = saved.row /\ drow' = saved.drow /\ etag' = saved.etag
    /\ pulled' = (pulled /\ saved.row = row /\ saved.drow = drow)
    /\ UNCHANGED <<vault, server, saved, touched, moved>>
-----------------------------------------------------------------------------
(* planRemoteMirror, the confirmation, applyRemoteMirror. *)

\* Without a checksum a file is fetched whatever its content.
Downloads(listed, unsummed) == {f \in listed : srv[f] # disk[f] \/ f \in unsummed}
\* planFromListing: the listing, the local scan, and what differs.
FromListing(listed, unsummed) ==
    [list |-> [f \in Files |-> IF f \in listed THEN srv[f] ELSE None], stats |-> disk,
     rdir |-> rdir, ldir |-> dir, downs |-> Downloads(listed, unsummed)]
\* runPlanning: the plan is shown, and waits for the user.
Plan(listed, unsummed) ==
    /\ Idle /\ mirrors < MaxMirrors /\ mirrors' = mirrors + 1 /\ pc' = "ready"
    /\ plan' = FromListing(listed, unsummed)
    /\ touched' = {} /\ moved' = There(srv) \ listed
    /\ pulled' = FALSE /\ UNCHANGED <<vault, server, db, saved, todo, failed>>
PlanRemoteMirror ==
    \E unsummed \in SUBSET There(srv) :
        \/ Plan(There(srv), unsummed) /\ UNCHANGED acts
        \/ \E f \in There(srv) : Plan(There(srv) \ {f}, unsummed)
             /\ "partial" \in Env /\ Act

DeleteFiles == {f \in There(plan.stats) : plan.list[f] = None}
\* A folder stays if it, or a file in it, is listed.
DeleteDir == plan.ldir /\ ~plan.rdir /\ ~Holds(plan.list)
CreateDir == plan.rdir /\ ~plan.ldir
NothingToDo == plan.downs = {} /\ DeleteFiles = {} /\ ~DeleteDir

Cancel == pc = "ready" /\ Off /\ UNCHANGED <<vault, server, db, saved, history, budgets>>
Confirm ==
    /\ pc = "ready" /\ ~NothingToDo /\ pc' = "down" /\ todo' = plan.downs
    /\ UNCHANGED <<vault, server, db, saved, plan, failed, history, budgets>>

\* A forced overwrite, of whatever is there by now, by whatever the server has by now.
Download(f) ==
    /\ pc = "down" /\ f \in todo /\ todo' = todo \ {f}
    /\ \/ /\ srv[f] # None /\ disk' = [disk EXCEPT ![f] = srv[f]] /\ dir' = (dir \/ f \in InD)
          /\ row' = [row EXCEPT ![f] = [hash |-> srv[f], rid |-> plan.list[f], sig |-> srv[f]]]
          /\ UNCHANGED <<touched, budgets>>
       \/ /\ \/ srv[f] = None /\ UNCHANGED budgets
             \/ Fault("request")
          /\ touched' = touched \cup With({f}) /\ UNCHANGED <<disk, dir, row>>
    /\ UNCHANGED <<server, drow, etag, saved, pc, plan, failed, moved, pulled>>
Downloaded ==
    /\ pc = "down" /\ todo = {} /\ pc' = "trash" /\ todo' = DeleteFiles
    /\ UNCHANGED <<vault, server, db, saved, plan, failed, history, budgets>>

\* processRemoteDeletion: what is gone already loses its row too.
TrashFile(f) ==
    /\ pc = "trash" /\ f \in todo /\ todo' = todo \ {f}
    /\ \/ /\ disk' = [disk EXCEPT ![f] = None] /\ row' = [row EXCEPT ![f] = None]
          /\ UNCHANGED <<failed, moved, budgets>>
       \/ /\ disk[f] # None /\ Fault("vault") /\ failed' = failed \cup {f}
          /\ moved' = moved \cup With({f}) /\ UNCHANGED <<disk, row>>
    /\ UNCHANGED <<dir, server, drow, etag, saved, pc, plan, touched, pulled>>
\* The folder goes with its content and with the rows below it.
Out(s) == [f \in Files |-> IF f \in InD THEN None ELSE s[f]]
TrashFolder ==
    /\ pc = "trash" /\ todo = {} /\ pc' = "create"
    /\ \/ ~DeleteDir /\ UNCHANGED <<vault, row, drow, failed, moved, budgets>>
       \/ /\ DeleteDir /\ dir' = FALSE /\ disk' = Out(disk) /\ row' = Out(row) /\ drow' = FALSE
          /\ UNCHANGED <<failed, moved, budgets>>
       \/ /\ DeleteDir /\ dir /\ Fault("vault") /\ failed' = failed \cup {D}
          /\ moved' = moved \cup {D} /\ UNCHANGED <<vault, row, drow>>
    /\ UNCHANGED <<server, etag, saved, plan, todo, touched, pulled>>

LeftoverFiles == failed \cap There(disk)
LeftoverDir == D \in failed /\ dir
\* Failures are judged now: a file can still have gone with its folder.
CreateDirs ==
    /\ pc = "create" /\ pc' = "track"
    /\ failed' = LeftoverFiles \cup (IF LeftoverDir THEN {D} ELSE {})
    /\ \/ dir' = (dir \/ CreateDir) /\ UNCHANGED <<moved, budgets>>
       \/ CreateDir /\ Fault("vault") /\ moved' = moved \cup {D} /\ UNCHANGED dir
    /\ UNCHANGED <<disk, server, db, saved, plan, todo, touched, pulled>>

\* Skipped as identical, and not changed since the plan.
ToTrack(f) == plan.list[f] # None /\ f \notin plan.downs /\ disk[f] = plan.stats[f]
\* Mutant: only what this mirror removed loses its row.
DropNothing(f) == FALSE
ToDrop(f) == plan.list[f] = None /\ f \notin failed
\* leftoverFileState: in sync at this content with a server that has it no more.
LeftoverRow(f) == IF disk[f] = None THEN row[f] ELSE Same(disk[f])
RowFor(f) ==
    IF ToTrack(f) THEN [hash |-> plan.list[f], rid |-> plan.list[f], sig |-> disk[f]]
    ELSE IF ToDrop(f) THEN None
    ELSE IF f \in failed THEN LeftoverRow(f)
    ELSE row[f]
\* Mutant: the folders of the plan are tracked, whatever the vault has.
DirPlanned == plan.rdir \/ D \in failed
\* Only a folder that the vault has is tracked, and one that could not be removed.
DirTracked == (plan.rdir /\ dir) \/ D \in failed
\* Mutant: the root ETag stays as the last session left it.
ConvergeArmed ==
    /\ row' = [f \in Files |-> RowFor(f)] /\ drow' = DirTracked
    /\ UNCHANGED <<vault, server, etag>>
Converge ==
    /\ row' = [f \in Files |-> RowFor(f)] /\ drow' = DirTracked /\ etag' = "none"
    /\ UNCHANGED <<vault, server>>
ApplyEnds ==
    /\ pc = "track" /\ Converge /\ Off /\ pulled' = TRUE
    /\ \/ saved' = [row |-> row', drow |-> drow', etag |-> etag'] /\ UNCHANGED budgets
       \/ Fault("save") /\ UNCHANGED saved
    /\ UNCHANGED <<touched, moved>>
-----------------------------------------------------------------------------
(* A session: what processRemoteFile, processLocalModifications and the absence   *)
(* checks do to file f, given its listed id and a decision for conflicts.         *)

\* File, server file and row after it.
Now(d, s, r) == [disk |-> d, srv |-> s, row |-> r]
Fetched(f, id) == Now(srv[f], srv[f], [hash |-> srv[f], rid |-> id, sig |-> srv[f]])
Pushed(f) == Now(disk[f], disk[f], Same(disk[f]))
Kept(f) == Now(disk[f], srv[f], row[f])
Gone == Now(None, None, None)
Deleted(f, id) == IF id = HashOf(row[f]) THEN Gone ELSE Fetched(f, id)
\* isLocallyUnchanged, then the hash.
LocalEdit(f) == /\ disk[f] # None
                /\ row[f] # None => disk[f] \notin {row[f].sig, row[f].hash}
RemoteEdit(f, id) == id # IdOf(row[f])

Listed(f, id, side) ==
    IF srv[f] = None THEN Kept(f)
    ELSE IF disk[f] = None THEN IF row[f] = None THEN Fetched(f, id) ELSE Deleted(f, id)
    ELSE IF disk[f] = id THEN Now(disk[f], srv[f], [hash |-> id, rid |-> id, sig |-> id])
    ELSE IF LocalEdit(f) /\ (~RemoteEdit(f, id) \/ side = "local") THEN Pushed(f)
    ELSE IF RemoteEdit(f, id) THEN Fetched(f, id)
    ELSE Kept(f)
Unlisted(f) ==
    IF LocalEdit(f) THEN Pushed(f)
    ELSE IF srv[f] = None THEN Gone
    ELSE IF disk[f] = None /\ row[f] # None THEN Deleted(f, srv[f])
    ELSE Kept(f)
ForFile(f, list, side) == IF list[f] # None THEN Listed(f, list[f], side) ELSE Unlisted(f)

\* reconcileDirectories, after the files.
Reconcile(d, s, real) ==
    LET here == dir \/ Holds(d)
        there == rdir \/ Holds(s)
        known == IF real THEN there ELSE drow
    IN \/ here /\ known /\ dir' = TRUE /\ rdir' = there /\ drow' = TRUE /\ disk' = d
       \/ /\ here /\ ~known /\ ~drow /\ dir' = TRUE /\ rdir' = TRUE /\ drow' = TRUE /\ disk' = d
       \/ here /\ ~known /\ drow /\ dir' = FALSE /\ rdir' = FALSE /\ drow' = FALSE /\ disk' = Out(d)
       \/ ~here /\ known /\ ~drow /\ dir' = TRUE /\ rdir' = there /\ drow' = TRUE /\ disk' = d
       \/ /\ ~here /\ known /\ drow /\ dir' = FALSE /\ disk' = d
          /\ rdir' = (there /\ Holds(s)) /\ drow' = rdir'
       \/ ~here /\ ~known /\ dir' = FALSE /\ rdir' = there /\ drow' = FALSE /\ disk' = d

Sides == [Files -> {"local", "remote"}]
SyncAllowed == Idle \/ "overlap" \in Env
Session(stuck) ==
    LET real == etag # "same"
        list == IF real THEN srv ELSE [f \in Files |-> IdOf(row[f])]
    IN \E sides \in Sides :
        LET after == [f \in Files |-> IF f \in stuck THEN Kept(f) ELSE ForFile(f, list, sides[f])]
            d == [f \in Files |-> after[f].disk]
            s == [f \in Files |-> after[f].srv]
        IN /\ SyncAllowed /\ Reconcile(d, s, real) /\ srv' = s
           /\ row' = [f \in Files |-> IF d[f] # disk'[f] THEN None ELSE after[f].row]
           /\ etag' = IF stuck # {} THEN "none" ELSE IF server' # server THEN "stale" ELSE "same"
           /\ saved' = [row |-> row', drow |-> drow', etag |-> etag']
           /\ moved' = IF pulled THEN moved
                       ELSE moved \cup {f \in Files : disk'[f] # disk[f] \/ srv'[f] # srv[f]}
           /\ UNCHANGED <<mirror, touched, pulled>>
SyncSession ==
    \/ Session({}) /\ UNCHANGED budgets
    \/ \E f \in Files : Session({f}) /\ Fault("request")
-----------------------------------------------------------------------------
EnvNext ==
    \/ \E f \in Files : \E b \in Content : UserEdit(f, b) \/ ForeignEdit(f, b)
    \/ UserFolder \/ ForeignFolder \/ Crash
ApplyNext ==
    \/ Downloaded \/ TrashFolder \/ CreateDirs \/ ApplyEnds
    \/ \E f \in Files : Download(f) \/ TrashFile(f)
Next == EnvNext \/ PlanRemoteMirror \/ Cancel \/ Confirm \/ ApplyNext \/ SyncSession
Spec == Init /\ [][Next]_vars
\* An apply runs on by itself, and the timer starts sessions for ever.
FairSpec == Spec /\ WF_vars(ApplyNext) /\ WF_vars(SyncSession)
-----------------------------------------------------------------------------
TypeOK ==
    /\ {disk, srv, plan.list, plan.stats} \subseteq [Files -> Content] /\ row \in [Files -> Row \cup {None}]
    /\ {dir, rdir, drow, pulled} \subseteq BOOLEAN /\ (Holds(disk) => dir) /\ (Holds(srv) => rdir)
    /\ etag \in {"none", "same", "stale"} /\ {todo, plan.downs} \subseteq SUBSET Files
    /\ {failed, touched, moved} \subseteq SUBSET Item
    /\ pc \in {"off", "ready", "down", "trash", "create", "track"}

\* After a mirror, whatever it failed to do elsewhere, a file that no one changed since
\* the plan is the server's, or gone with the server's, and its row says so: "an ordinary
\* sync right afterwards converges with zero differences" (docs/spec.md section 14).
PulledIsInSync == pulled => \A f \in Files \ (touched \cup moved) :
    disk[f] = srv[f] /\ row[f] = (IF srv[f] = None THEN None ELSE Same(srv[f]))

\* An edit made while a mirror ran is not taken for the content its row has.
EditsAreSeen == \A f \in Files : disk[f] # None /\ row[f] # None /\ ~LocalEdit(f) => disk[f] = HashOf(row[f])
\* With the types, which hold of rows and vault through every failure.
Safety == TypeOK /\ PulledIsInSync /\ EditsAreSeen

\* Sessions after a mirror change nothing on the server, neither by what it removed here,
\* nor by what it failed to remove or to create, unless the user changed it since the plan
\* or no download reached it.
NothingIsSentBack ==
    [][pulled /\ server' # server /\ SyncSession =>
         /\ \A f \in Files \ touched : srv'[f] = srv[f]
         /\ D \notin touched => rdir' = rdir]_vars

\* Once everyone rests and no plan waits for the user's answer, vault and server come to
\* agree, after mirrors that were cut short or saved nothing too.
MirrorConverges == <>[](pc = "ready" \/ (disk = srv /\ dir = rdir))
=============================================================================
