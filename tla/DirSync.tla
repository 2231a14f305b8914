------------------------------- MODULE DirSync -------------------------------
(***************************************************************************)
(* Folders: the three-way reconciliation of a full session, the breaker    *)
(* and the user's resolution of what it refused, and the folder operations *)
(* of watch mode, which take no lock and share the client's cache of known *)
(* collections with everyone.                                              *)
(*                                                                         *)
(* A path is a sequence of names.  A folder holds at most one note here,   *)
(* and the files of a session are reconciled in one step (FileSync is      *)
(* about them): the order of files before folders, and what a note's       *)
(* presence does to its folder, are kept.                                  *)
(***************************************************************************)
EXTENDS Integers, Sequences, FiniteSets, SequencesExt

CONSTANTS
    Dirs,             \* the paths folders may have: with each, every ancestor
    MassDeleteLimit,  \* the setting: -1 automatic, 0 unlimited, else fixed
    MassDeleteMin, MassDeleteShare,  \* automatic: max(Min, n / Share)
    ForceEvery,       \* FORCE_FULL_SCAN_EVERY
    Faults,           \* what may fail: subset of FaultKinds
    Overlap,          \* do watch operations last longer than a step of a session?
    MaxUser, MaxForeign, MaxFaults   \* bounds

FaultKinds == {"list", "partial", "request", "vault", "cancel"}
ASSUME DirsAssumption == /\ Dirs \subseteq Seq(STRING) \ {<<>>} /\ IsFiniteSet(Dirs)
                         /\ \A d \in Dirs : \A n \in 1..Len(d) : SubSeq(d, 1, n) \in Dirs
ASSUME NumbersAssumption ==
    /\ MassDeleteLimit \in Int /\ MassDeleteMin \in Nat /\ MassDeleteShare \in Nat \ {0}
    /\ ForceEvery \in Nat /\ Faults \subseteq FaultKinds /\ Overlap \in BOOLEAN
    /\ MaxUser \in Nat /\ MaxForeign \in Nat /\ MaxFaults \in Nat

Sub(d) == {e \in Dirs : IsPrefix(d, e)}
Chain(d) == {e \in Dirs : IsPrefix(e, d)}
Above(d) == Chain(d) \ {d}
ChainAll(ds) == UNION {Chain(d) : d \in ds}

VARIABLES
    local, lnote,     \* folders, and folders that hold a note: the vault
    remote, rnote,    \* the server
    fresh,            \* notes of another device that no listing has shown yet
    late,             \* history: notes put where they are on the server since the last probe
    tracked, tnote,   \* StateDB: getAllDirs, and the rows of the notes
    proven,           \* RemoteDirCache: collections known to exist
    etag,             \* stored root ETag: none, still the server's, or not
    skips,            \* fullScanSkipCount
    pc, listing,      \* the session; the collections it takes for the server's
    plan, cur,        \* its plan, the folder it is at
    err, cancelled, omitted,   \* errors counted; requestStop; what the session did not see
    skipped,          \* dirBreakerSkipped of the last summary
    ops,              \* folder operations of watch mode under way
    dropped,          \* history: folders the user removed here
    back,             \* history: folders put on the server since the recheck of one to trash
    user, foreign, faults

vault == <<local, lnote>>
server == <<remote, rnote, fresh, late>>
rows == <<tracked, tnote>>
gate == <<etag, skips>>
session == <<pc, listing, plan, cur, err, cancelled, omitted>>
budgets == <<user, foreign, faults>>
vars == <<local, lnote, remote, rnote, fresh, late, tracked, tnote, proven, etag, skips, pc, listing, plan,
          cur, err, cancelled, omitted, skipped, ops, dropped, back, user, foreign, faults>>

NoPlan == [mkcol |-> {}, mkdir |-> {}, delete |-> {}, trash |-> {}, keep |-> {}, forget |-> {}]
NoSkip == [delete |-> {}, trash |-> {}, choice |-> "none"]

Init ==
    /\ local = {} /\ lnote = {} /\ fresh = {} /\ tracked = {} /\ tnote = {} /\ proven = {}
    /\ remote = {} /\ rnote = {} /\ late = {}
    /\ etag = "none" /\ skips = 0 /\ pc = "off" /\ listing = {} /\ plan = NoPlan
    /\ cur = <<>> /\ back = {}
    /\ err = FALSE /\ cancelled = FALSE /\ omitted = {} /\ skipped = NoSkip /\ ops = {}
    /\ dropped = {} /\ user = 0 /\ foreign = 0 /\ faults = 0

Running == pc # "off"
Fail(kind) == kind \in Faults /\ faults < MaxFaults /\ faults' = faults + 1 /\ UNCHANGED <<user, foreign>>
\* Every change of the server changes the root's ETag.
Moved == etag' = IF etag = "same" THEN "stale" ELSE etag
Shallow(s) == {d \in s : \A e \in s : Len(d) <= Len(e)}
Deep(s) == {d \in s : \A e \in s : Len(d) >= Len(e)}
-----------------------------------------------------------------------------
(* Requests on collections. *)

\* createDirectory: MKCOL for every level that is not proven, outermost first.
ToAsk(d) == Chain(d) \ proven
Made(d) == {e \in ToAsk(d) : Above(e) \subseteq remote \cup ToAsk(d)}
Created(d) ==   \* every level was proven or answered 201 or 405
    /\ Made(d) = ToAsk(d)
    /\ proven' = proven \cup ToAsk(d)
    /\ remote' = remote \cup ToAsk(d)
    /\ IF ToAsk(d) \subseteq remote THEN UNCHANGED etag ELSE Moved
    /\ UNCHANGED <<rnote, fresh, late>>
NotCreated(d) ==  \* a level without its parent answered 409, or no answer came
    /\ IF Made(d) = ToAsk(d) THEN Fail("request") ELSE UNCHANGED budgets
    /\ \E made \in {Made(d), {}} :
           /\ proven' = IF Made(d) = ToAsk(d) THEN proven ELSE proven \cup made
           /\ remote' = remote \cup made
           /\ IF made \subseteq remote THEN UNCHANGED etag ELSE Moved
           /\ Made(d) # ToAsk(d) => made = Made(d)
    /\ UNCHANGED <<rnote, fresh, late>>

\* deleteCollection takes everything below; 404 is success.
Deleted(d) ==
    /\ remote' = remote \ Sub(d) /\ rnote' = rnote \ Sub(d) /\ fresh' = fresh \ Sub(d) /\ late' = late \ Sub(d)
    /\ IF d \in remote THEN Moved ELSE UNCHANGED etag

\* Vault events: operations of watch mode start at once.  Unless a session runs, a
\* deletion is for the server when the folder is tracked.
Op(kind, d, e) == [kind |-> kind, dir |-> d, to |-> e, at |-> "send"]
Creations(ds) == {Op("create", d, d) : d \in ds}
Deletions(ds) == {Op("delete", d, d) : d \in IF Running THEN {} ELSE ds \cap tracked}
-----------------------------------------------------------------------------
(* The user and the other devices. *)

Acts == user < MaxUser /\ user' = user + 1 /\ UNCHANGED <<foreign, faults>>
OthersAct == foreign < MaxForeign /\ foreign' = foreign + 1 /\ UNCHANGED <<user, faults>>

UserMkdir(d) ==
    /\ Acts /\ d \notin local /\ Above(d) \subseteq local
    /\ local' = local \cup {d} /\ dropped' = dropped \ {d}
    /\ ops' = ops \cup Creations({d})
    /\ UNCHANGED <<lnote, server, rows, proven, gate, session, skipped>>

UserNote(d) ==
    /\ Acts /\ d \in local \ lnote
    /\ lnote' = lnote \cup {d}
    /\ UNCHANGED <<local, server, rows, proven, gate, session, skipped, ops, dropped>>

UserRemove(d) ==
    /\ Acts /\ d \in local
    /\ local' = local \ Sub(d) /\ lnote' = lnote \ Sub(d)
    /\ dropped' = dropped \cup (Sub(d) \cap local)
    /\ ops' = ops \cup Deletions(Sub(d) \cap local)
    /\ UNCHANGED <<server, rows, proven, gate, session, skipped>>

\* Where the folders of a renamed one end up.
At(d, e, f) == e \o SubSeq(f, Len(d) + 1, Len(f))
Renamed(d, e, s) == (s \ Sub(d)) \cup {At(d, e, f) : f \in s \cap Sub(d)}
UserRename(d, e) ==
    /\ Acts /\ d \in local /\ e \notin local \cup Sub(d) /\ Above(e) \subseteq local
    /\ Renamed(d, e, local) \subseteq Dirs
    /\ local' = Renamed(d, e, local) /\ lnote' = Renamed(d, e, lnote)
    /\ dropped' = (dropped \cup (Sub(d) \cap local)) \ local'
    /\ ops' = ops \cup {Op("rename", d, e)}
    /\ UNCHANGED <<server, rows, proven, gate, session, skipped>>

ForeignMkdir(d) ==
    /\ OthersAct /\ d \notin remote
    /\ remote' = remote \cup Chain(d) /\ Moved
    /\ UNCHANGED <<vault, rnote, fresh, late, rows, proven, skips, session, skipped, ops, dropped>>

ForeignNote(d) ==
    /\ OthersAct /\ d \in remote \ rnote
    /\ rnote' = rnote \cup {d} /\ fresh' = fresh \cup {d} /\ late' = late \cup {d} /\ Moved
    /\ UNCHANGED <<vault, remote, rows, proven, skips, session, skipped, ops, dropped>>

ForeignRemove(d) ==
    /\ OthersAct /\ d \in remote
    /\ Deleted(d)
    /\ UNCHANGED <<vault, rows, proven, skips, session, skipped, ops, dropped>>
-----------------------------------------------------------------------------
(* A session: the files, then the folders. *)

\* The root ETag is still the server's and the budget of skips is not used up.
ShortCircuit == etag = "same" /\ skips < ForceEvery

\* Mutant: a skip is not counted.
Uncounted == 0
CountSkip == IF ShortCircuit THEN skips + 1 ELSE 0

\* The listing of the files, rebuilt from the rows or real, against vault and rows.
\* A note that differs from its row's is restored, not deleted.
StartSession ==
    /\ ~Running
    /\ LET listed == IF ShortCircuit THEN tnote ELSE rnote
           up == lnote \ (listed \cup tnote)
           gone == (listed \cap tnote) \ lnote
           down == (listed \ (lnote \cup tnote)) \cup (gone \cap fresh)
           erased == (lnote \cap tnote) \ (listed \cup rnote)
       IN  /\ lnote' = (lnote \cup down) \ erased
           /\ local' = local \cup ChainAll(down)
           /\ rnote' = (rnote \cup up) \ (gone \ fresh)
           /\ remote' = remote \cup ChainAll(up)
           /\ fresh' = fresh \ listed /\ late' = {}
           /\ tnote' = lnote' \cap (rnote' \cup tnote)
           /\ proven' = proven \cup ChainAll(up)
           /\ ops' = ops \cup Creations(ChainAll(down) \ local)
           /\ dropped' = dropped \ local'
           /\ etag' = IF up = {} /\ gone \ fresh = {} THEN "same" ELSE "stale"
           /\ skips' = CountSkip
           /\ IF ShortCircuit THEN pc' = "listed" /\ listing' = tracked
              ELSE pc' = "list" /\ UNCHANGED listing
    /\ err' = FALSE /\ cancelled' = FALSE /\ skipped' = NoSkip
    /\ UNCHANGED <<tracked, plan, cur, omitted, budgets>>

RequestStop ==
    /\ Running /\ ~cancelled /\ Fail("cancel")
    /\ cancelled' = TRUE
    /\ UNCHANGED <<vault, server, rows, proven, gate, pc, listing, plan, cur, err, omitted, skipped, ops, dropped>>

\* classifyDirectories, by where a path is: Local, Remote, Tracked.
Classify(R) ==
    [mkcol  |-> local \ (R \cup tracked),   mkdir  |-> R \ (local \cup tracked),
     delete |-> (R \cap tracked) \ local,   trash  |-> (local \cap tracked) \ R,
     keep   |-> local \cap R,               forget |-> tracked \ (local \cup R)]

\* The largest of the three sets scales the automatic limit.
Largest(R) == CHOOSE n \in {Cardinality(s) : s \in {R, local, tracked}} :
                  \A s \in {R, local, tracked} : Cardinality(s) <= n
LimitFor(n) == IF MassDeleteLimit > 0 THEN MassDeleteLimit
               ELSE IF n \div MassDeleteShare > MassDeleteMin THEN n \div MassDeleteShare
               ELSE MassDeleteMin
Trips(p, R) == /\ MassDeleteLimit # 0
               /\ Cardinality(p.delete) + Cardinality(p.trash) > LimitFor(Largest(R))

\* Beyond the limit the whole destructive half is dropped, and kept for the user:
\* an error.
Refuse(p) == /\ plan' = [p EXCEPT !.delete = {}, !.trash = {}] /\ err' = TRUE
             /\ skipped' = [NoSkip EXCEPT !.delete = p.delete, !.trash = p.trash]

\* What the folders are compared with: the tracked ones as they were before the files
\* of a short-circuited session (cachedDirs, StartSession), or the server's collections,
\* or a listing that leaves some out, with all that is below them.
Listed(R) == pc' = "listed" /\ listing' = R
             /\ UNCHANGED <<vault, server, rows, proven, gate, plan, cur, err, cancelled, skipped, ops, dropped>>
List == pc = "list" /\ Listed(remote) /\ omitted' = {} /\ UNCHANGED budgets
ListPartly ==
    /\ pc = "list" /\ Fail("partial")
    /\ \E left \in SUBSET remote \ {{}} :
           /\ \A d \in left : Sub(d) \cap remote \subseteq left
           /\ omitted' = left /\ Listed(remote \ left)

\* Vault and rows are read when the listing is there: watch mode may have changed them.
Reconcile ==
    /\ pc = "listed" /\ pc' = "work" /\ listing' = {}
    /\ LET p == Classify(listing) IN
       IF Trips(p, listing) THEN Refuse(p) ELSE plan' = p /\ UNCHANGED <<skipped, err>>
    /\ UNCHANGED <<vault, server, rows, proven, gate, cur, cancelled, omitted, ops, dropped, budgets>>

\* The gate of the session: only errors disarm.  Mutant: nothing does.
StaysArmed(e) == UNCHANGED etag
Gate(e) == IF e THEN etag' = "none" ELSE UNCHANGED etag
End == /\ pc' = "off" /\ plan' = NoPlan /\ Gate(err)
       /\ UNCHANGED <<vault, server, proven, skips, listing, cur, err, cancelled, skipped, ops, dropped>>
ListFails == pc = "list" /\ Fail("list") /\ End /\ omitted' = remote /\ UNCHANGED rows

Pending(kinds) == \E k \in kinds : plan[k] # {}
Turn(kind, d) == /\ pc = "work" /\ ~cancelled
                 /\ CASE kind = "mkcol" -> d \in Shallow(plan.mkcol)
                      [] kind = "mkdir" -> d \in Shallow(plan.mkdir) /\ ~Pending({"mkcol"})
                      [] kind = "delete" -> d \in Deep(plan.delete) /\ ~Pending({"mkcol", "mkdir"})
                      [] kind = "trash" -> d \in Deep(plan.trash) /\ ~Pending({"mkcol", "mkdir", "delete"})
Past(kind, d) == plan' = [plan EXCEPT ![kind] = @ \ {d}]

MkcolRemote(d) ==
    /\ Turn("mkcol", d) /\ Past("mkcol", d)
    /\ \/ Created(d) /\ tracked' = tracked \cup {d} /\ UNCHANGED <<err, budgets>>
       \/ NotCreated(d) /\ err' = TRUE /\ UNCHANGED tracked
    /\ UNCHANGED <<vault, tnote, skips, pc, listing, cur, cancelled, omitted, skipped, ops, dropped>>

\* The adapter's mkdir makes the folders above too; its event starts an operation.
MkdirLocal(d) ==
    /\ Turn("mkdir", d) /\ Past("mkdir", d)
    /\ \/ /\ local' = local \cup Chain(d) /\ tracked' = tracked \cup {d}
          /\ ops' = ops \cup Creations(Chain(d) \ local)
          /\ dropped' = dropped \ Chain(d)
          /\ UNCHANGED <<err, budgets>>
       \/ Fail("vault") /\ err' = TRUE /\ UNCHANGED <<local, tracked, ops, dropped>>
    /\ UNCHANGED <<lnote, server, tnote, proven, gate, pc, listing, cur, cancelled, omitted, skipped>>

\* isRemoteDirEmpty: a child, a 404 or an unclear answer keeps the folder.
EmptyThere(d) == d \in remote \ rnote /\ Sub(d) \cap remote = {d}
Probe(d) ==
    /\ Turn("delete", d)
    /\ IF EmptyThere(d) THEN pc' = "delete" /\ cur' = d /\ late' = {} /\ UNCHANGED plan
       ELSE Past("delete", d) /\ UNCHANGED <<pc, cur, late>>
    /\ UNCHANGED <<vault, remote, rnote, fresh, rows, proven, gate, listing, err, cancelled, omitted, skipped, ops, dropped, budgets>>

DeleteRemote ==
    /\ pc = "delete" /\ pc' = "work" /\ Past("delete", cur)
    /\ \/ Deleted(cur) /\ tracked' = tracked \ {cur} /\ UNCHANGED <<err, budgets>>
       \/ /\ Fail("request") /\ err' = TRUE /\ UNCHANGED tracked
          /\ Deleted(cur) \/ UNCHANGED <<server, etag>>     \* no answer, or refused
    /\ UNCHANGED <<vault, tnote, proven, skips, listing, cur, cancelled, omitted, skipped, ops, dropped>>

\* remoteExists: only a definite 404 lets the folder be trashed.
NoRecheck(d) == TRUE                       \* Mutant: the listing is believed.
GoneThere(d) == d \notin remote
Recheck(d) ==
    /\ Turn("trash", d)
    /\ IF GoneThere(d) THEN pc' = "trash" /\ cur' = d /\ UNCHANGED plan
       ELSE Past("trash", d) /\ UNCHANGED <<pc, cur>>
    /\ UNCHANGED <<vault, server, rows, proven, gate, listing, err, cancelled, omitted, skipped, ops, dropped, budgets>>

\* forgetSubtree.  Mutant: the row of the folder alone.
ForgetOne(d) == tracked' = tracked \ {d} /\ UNCHANGED tnote
Forget(d) == tracked' = tracked \ Sub(d) /\ tnote' = tnote \ Sub(d)

\* Its own trash is no event: every tracked path below was registered, and an
\* event of another is for an untracked folder, which Deletions leaves alone.
Trashed(d) == local' = local \ Sub(d) /\ lnote' = lnote \ Sub(d) /\ Forget(d)
TrashLocal ==
    /\ pc = "trash" /\ pc' = "work" /\ Past("trash", cur)
    /\ \/ Trashed(cur) /\ UNCHANGED <<err, budgets>>
       \/ Fail("vault") /\ err' = TRUE /\ UNCHANGED <<vault, rows>>
    /\ UNCHANGED <<server, proven, gate, listing, cur, cancelled, omitted, skipped, ops, dropped>>

\* The rows of what is on both sides, or on neither, come last, after a stop too.
Finish ==
    /\ pc = "work" /\ (cancelled \/ ~Pending({"mkcol", "mkdir", "delete", "trash"}))
    /\ tracked' = (tracked \cup plan.keep) \ plan.forget
    /\ omitted' = omitted \cup plan.mkdir
    /\ End /\ UNCHANGED <<tnote, budgets>>
-----------------------------------------------------------------------------
(* resolveAllSkippedDirs: one choice, one path of the lists at a time.      *)

Resolving(choice) == ~Running /\ skipped.choice \in {"none", choice}
ResolveDelete(d, choice) ==
    /\ d \in skipped.delete /\ Resolving(choice)
    /\ skipped' = [skipped EXCEPT !.delete = @ \ {d}, !.choice = choice]
    /\ IF choice = "remote"
       THEN /\ local' = local \cup Chain(d) /\ tracked' = tracked \cup {d}
            /\ ops' = ops \cup Creations(Chain(d) \ local)
            /\ dropped' = dropped \ Chain(d)
            /\ UNCHANGED <<server, etag>>
       ELSE /\ Deleted(d) /\ tracked' = tracked \ {d}
            /\ UNCHANGED <<local, ops, dropped>>
    /\ UNCHANGED <<lnote, tnote, proven, skips, session, budgets>>

ResolveTrash(d, choice) ==
    /\ d \in skipped.trash /\ skipped.delete = {} /\ Resolving(choice)
    /\ skipped' = [skipped EXCEPT !.trash = @ \ {d}, !.choice = choice]
    /\ IF choice = "remote"
       THEN Trashed(d) /\ UNCHANGED <<server, proven, etag>>
       ELSE Created(d) /\ tracked' = tracked \cup {d} /\ UNCHANGED <<vault, tnote>>
    /\ UNCHANGED <<skips, session, ops, dropped, budgets>>
-----------------------------------------------------------------------------
(* createSingleFolder, deleteSingleFolder, renameSingleFolder. *)

Answered(op) == ops' = (ops \ {op}) \cup {[op EXCEPT !.at = "record"]}
Dropped(op) == ops' = ops \ {op}

Send(op) ==
    /\ op \in ops /\ op.at = "send"
    /\ \/ op.kind = "create" /\ Created(op.dir) /\ Answered(op) /\ UNCHANGED budgets
       \/ op.kind = "create" /\ NotCreated(op.dir) /\ Dropped(op)
       \/ op.kind = "delete" /\ Deleted(op.dir) /\ Answered(op) /\ UNCHANGED <<proven, budgets>>
       \/ /\ op.kind = "rename"
          /\ IF /\ op.dir \in remote /\ op.to \notin remote
                /\ Renamed(op.dir, op.to, remote) \subseteq Dirs
             THEN /\ remote' = Renamed(op.dir, op.to, remote) \cup Above(op.to)
                  /\ rnote' = Renamed(op.dir, op.to, rnote)
                  /\ fresh' = Renamed(op.dir, op.to, fresh)
                  /\ late' = Renamed(op.dir, op.to, late) \cup (rnote' \ rnote) /\ Answered(op)
             ELSE remote' = remote \cup Above(op.to) /\ Dropped(op) /\ UNCHANGED <<rnote, fresh, late>>
          /\ IF remote' = remote THEN UNCHANGED etag ELSE Moved
          /\ proven' = proven \cup Above(op.to) /\ UNCHANGED budgets
       \/ op.kind # "create" /\ Fail("request") /\ Dropped(op) /\ UNCHANGED <<server, proven, etag>>
    /\ UNCHANGED <<vault, rows, skips, session, skipped, dropped>>

Record(op) ==
    /\ op \in ops /\ op.at = "record" /\ Dropped(op)
    /\ tracked' = CASE op.kind = "create" -> tracked \cup {op.dir}
                    [] op.kind = "delete" -> tracked \ {op.dir}
                    [] OTHER -> (tracked \ {op.dir}) \cup {op.to}
    /\ UNCHANGED <<vault, server, tnote, proven, gate, session, skipped, dropped, budgets>>
-----------------------------------------------------------------------------
UserNext == \E d \in Dirs : UserMkdir(d) \/ UserNote(d) \/ UserRemove(d) \/ \E e \in Dirs : UserRename(d, e)
ForeignNext == \E d \in Dirs : ForeignMkdir(d) \/ ForeignNote(d) \/ ForeignRemove(d)
Alone == Overlap \/ ops = {}
SessionNext ==
    /\ Alone
    /\ \/ StartSession \/ List \/ ListPartly \/ ListFails \/ Reconcile
       \/ DeleteRemote \/ TrashLocal \/ Finish
       \/ \E d \in Dirs : MkcolRemote(d) \/ MkdirLocal(d) \/ Probe(d) \/ Recheck(d)
ResolveNext == Alone /\ \E d \in Dirs, c \in {"remote", "local"} : ResolveDelete(d, c) \/ ResolveTrash(d, c)
WatchNext == \E op \in ops : Send(op) \/ Record(op)
\* The folders that came to the server after a recheck, while its trash waits.
PutBack == back' = IF pc = "trash" /\ pc' = "trash" THEN back \cup (remote' \ remote) ELSE {}
Step == UserNext \/ ForeignNext \/ SessionNext \/ RequestStop \/ ResolveNext \/ WatchNext
Next == Step /\ PutBack

Spec == Init /\ [][Next]_vars
\* The timer starts sessions again and again and requests are answered or time out.
FairSpec == Spec /\ WF_vars(SessionNext /\ PutBack) /\ WF_vars(WatchNext /\ PutBack)
-----------------------------------------------------------------------------
Ops == [kind : {"create", "delete", "rename"}, dir : Dirs, to : Dirs, at : {"send", "record"}]

\* Vault and server are trees, a note has its folder, and the folder a session is
\* at is one of its plan, whatever happens to either side meanwhile.
TypeOK ==
    /\ \A s \in {local, remote} : s \subseteq Dirs /\ ChainAll(s) = s
    /\ lnote \subseteq local /\ rnote \subseteq remote /\ late \cup fresh \subseteq rnote
    /\ tracked \cup tnote \cup proven \cup dropped \cup omitted \cup listing \cup back \subseteq Dirs
    /\ etag \in {"none", "same", "stale"} /\ skips \in 0..ForceEvery
    /\ pc \in {"off", "list", "listed", "work", "delete", "trash"}
    /\ pc \in {"delete", "trash"} => cur \in plan[pc]
    /\ \A k \in DOMAIN NoPlan : plan[k] \subseteq Dirs
    /\ skipped.delete \cup skipped.trash \subseteq Dirs /\ (skipped.delete \cup skipped.trash # {} /\ Running => err)
    /\ ops \subseteq Ops /\ {err, cancelled} \subseteq BOOLEAN

\* A session plans to delete on the server only what the user removed here: never
\* what it trashed itself, what it could not make, or what it never had.  And its
\* collection DELETE takes no note but one put there since the probe of that very
\* folder, deep folders being emptied before their parents.
DeletionIsMeant ==
    [][/\ pc = "listed" /\ pc' = "work" => plan'.delete \subseteq dropped
       /\ pc = "delete" /\ pc' = "work" => rnote \ rnote' \subseteq late]_vars

\* The folders compared have, with each, the ones above it: a listing does, but the rows
\* of a short-circuited session may not (a rename moves the folder's own row alone).
SnapshotWhole == \A d \in listing : Above(d) \subseteq listing

\* A folder is trashed only when the server has none of what goes with it, but what came
\* there since the folder was asked for: not when the listing left it out, and not when
\* watch mode made it there after the listing or the snapshot was taken.
TrashIsProven == [][pc = "trash" /\ pc' = "work" => (local \ local') \cap remote \subseteq back]_vars

\* While the root ETag lets a session take the tracked folders for the server's, no
\* folder of the server is unknown to them, but what the last real
\* listing left out, or a listing that failed and a stop kept from being looked at.
NothingHidden == ~Running /\ etag = "same" => remote \subseteq tracked \cup omitted
\* With the types, among them that what the breaker refused counts as an error.
Safety == TypeOK /\ NothingHidden
\* The same without the excuse of a failed listing or a stop.
ArmedMeansTracked == ~Running /\ etag = "same" => remote \subseteq tracked

\* Once users and devices rest, vault, server and rows agree again and again, or
\* the breaker holds and waits for the user.
Agree == local = remote /\ tracked = remote /\ lnote = rnote
FoldersConverge == []<>(Agree \/ skipped.delete \cup skipped.trash # {})

\* A createDirectory that watch mode was told succeeded left the folder on the
\* server, unless another device or request has removed it meanwhile.
CreatedIsOnServer == [][\A op \in ops : op.kind = "create" /\ [op EXCEPT !.at = "record"] \in ops' \ ops
                               => op.dir \in remote']_vars
=============================================================================
