-------------------------------- MODULE Plugins --------------------------------
(***************************************************************************)
(* The bundle of one listed community plugin, on this device and on the    *)
(* server: which version wins, that its files come from one version, and   *)
(* that settings are not exchanged while the code on disk is not the code  *)
(* that runs.                                                              *)
(*                                                                         *)
(* main stands for main.js and styles.css, which the code treats alike.    *)
(* What happens to one file is one step (FileSync takes it apart), and the *)
(* server has checksums.                                                   *)
(***************************************************************************)
EXTENDS Naturals, FiniteSets

CONSTANTS
    Body, None,
    Version,        \* what the manifest of a body says
    TooNew,         \* bodies that need a newer Obsidian
    ByTime,         \* what latest-mtime or otherFileStrategy may decide: local, remote, tie
    Env,            \* what may happen: subset of EnvKinds
    MaxUser, MaxForeign, MaxFaults   \* bounds

\* crash: the app is killed; manifest: a manifest cannot be read or fetched; transfer: the
\* transfer of a file fails; relist: a plugin is listed again before a session saw it gone;
\* behind: code or the setting changes while a crash left the bundle half-written.
EnvKinds == {"crash", "manifest", "transfer", "relist", "behind"}

ASSUME SetsAssumption ==
    /\ None \notin Body /\ TooNew \subseteq Body /\ Version \in [Body -> Nat]
    /\ Env \subseteq EnvKinds /\ ByTime \subseteq {"local", "remote", "tie"} /\ ByTime # {}
ASSUME NumbersAssumption == {MaxUser, MaxForeign, MaxFaults} \subseteq Nat

VARIABLES
    disk, srv,      \* the bundle here and on the server: file -> body
    row,            \* StateDB: file -> [hash, rid] or None
    etag, scope,    \* stored root ETag: none, current, or not; fingerprint: was it listed
    saved,          \* row, etag and scope as last persisted
    listed, enabled, running,   \* the setting; community-plugins.json; the code that runs
    updated,        \* is Obsidian new enough for every body
    awaiting,       \* awaitingRestart
    later,          \* which manifest has the later time, to the second
    pc, list, stats, todo, bad,     \* the session: phase, listing, local stats, files left, errors
    inc, dir, on, held, wrote, waited,   \* PluginSessionState
    removed,        \* history: files the user uninstalled while listed, and did not put back
    user, foreign, faults

bundle  == <<disk, srv>>
db      == <<row, etag, scope>>
device  == <<listed, enabled, running, updated, awaiting, later>>
plugin  == <<inc, dir, on, held, wrote, waited>>
session == <<pc, list, stats, todo, bad, inc, dir, on, held, wrote, waited>>
budgets == <<user, foreign, faults>>
vars == <<disk, srv, row, etag, scope, saved, listed, enabled, running, updated, awaiting, later,
          pc, list, stats, todo, bad, inc, dir, on, held, wrote, waited, removed, user, foreign, faults>>

Code == {"main", "manifest"}
Files == Code \cup {"data"}
Content == Body \cup {None}
Row == [hash : Body, rid : Body]
ASSUME NoneAssumption == None \notin Row
Both(b) == [hash |-> b, rid |-> b]
There(s) == {f \in Files : s[f] # None}
Empty == [f \in Files |-> None]
Of(b, d) == [f \in Files |-> IF f = "data" THEN d ELSE b]   \* a whole bundle of one version
Hash(f) == IF row[f] = None THEN None ELSE row[f].hash
Id(f) == IF row[f] = None THEN None ELSE row[f].rid
InSession == pc # "off"
Moved(e) == IF e = "same" THEN "stale" ELSE e
Fault(kind) == kind \in Env /\ faults < MaxFaults /\ faults' = faults + 1 /\ UNCHANGED <<user, foreign>>

\* The times matter between two manifests of one version.
Rebuilt(b, c) == b # c /\ None \notin {b, c} /\ Version[b] = Version[c]
Times(b, c) == IF Rebuilt(b, c) THEN {"local", "remote", "hold"} ELSE {"hold"}
Idle ==
    /\ pc = "off" /\ list = Empty /\ stats = Empty /\ todo = {} /\ bad = FALSE
    /\ inc = "none" /\ dir = "none" /\ on = FALSE /\ held = FALSE /\ wrote = FALSE /\ waited = FALSE
\* The session's state is dropped, and what it left in the StateDB is written out.
Persist == saved' = [row |-> row', etag |-> etag', scope |-> scope']
Drop ==
    /\ pc' = "off" /\ list' = Empty /\ stats' = Empty /\ todo' = {} /\ bad' = FALSE
    /\ inc' = "none" /\ dir' = "none" /\ on' = FALSE /\ held' = FALSE /\ wrote' = FALSE /\ waited' = FALSE
\* A plugin listed for the first time, or one in sync that has perhaps just left the list.
Untracked ==
    /\ \E b \in Content : disk = Of(b, b) /\ running \in {b, None} /\ enabled = (running # None)
    /\ \E b \in Content : srv = Of(b, b)
    /\ row = Empty /\ scope = FALSE /\ listed = TRUE
InSync ==
    /\ \E b \in Body : disk = Of(b, b) /\ running = b /\ enabled = TRUE
    /\ srv = disk /\ row = [f \in Files |-> Both(disk[f])] /\ scope = TRUE /\ listed \in BOOLEAN
Init ==
    /\ Untracked \/ InSync
    /\ etag = "none"
    /\ saved = [row |-> row, etag |-> etag, scope |-> scope]
    /\ updated = FALSE /\ awaiting = FALSE /\ Idle
    /\ later \in Times(disk["manifest"], srv["manifest"])
    /\ removed = {} /\ user = 0 /\ foreign = 0 /\ faults = 0
-----------------------------------------------------------------------------
(* The user and Obsidian, and the other devices. *)

Acts == user < MaxUser /\ user' = user + 1 /\ UNCHANGED <<foreign, faults>>
Between == ~InSession /\ Acts /\ UNCHANGED <<srv, db, saved, session>>

Whole(s) == s["manifest"] \in {None, s["main"]}
Settled == (Whole(disk) /\ Whole(srv)) \/ "behind" \in Env
\* Obsidian installs or updates a plugin whole, and loads it when it is enabled.
Install(b) ==
    /\ Between /\ Settled /\ disk' = Of(b, disk["data"]) /\ removed' = removed \ Code
    /\ running' = IF enabled THEN b ELSE None
    /\ later' \in Times(b, srv["manifest"]) /\ UNCHANGED <<listed, enabled, updated, awaiting>>
Uninstall ==
    /\ Between /\ Settled /\ disk # Empty /\ disk' = Empty /\ removed' = (IF listed THEN removed \cup There(disk) ELSE {})
    /\ enabled' = FALSE /\ running' = None /\ UNCHANGED <<listed, updated, awaiting, later>>
Enable(e) ==
    /\ Between /\ enabled # e /\ enabled' = e
    /\ running' = IF e THEN disk["main"] ELSE None
    /\ UNCHANGED <<disk, listed, updated, awaiting, later, removed>>
SetListed(l) ==
    /\ Between /\ Settled /\ listed # l /\ listed' = l /\ removed' = {}
    /\ l => ~scope \/ "relist" \in Env
    /\ UNCHANGED <<disk, enabled, running, updated, awaiting, later>>
UpdateApp ==
    /\ Between /\ ~updated /\ updated' = TRUE /\ UNCHANGED <<disk, listed, enabled, running, awaiting, later, removed>>
\* The running code saves its settings in its own schema, whenever it likes.
SaveSettings ==
    /\ Acts /\ running # None /\ disk["data"] # running /\ disk' = [disk EXCEPT !["data"] = running]
    /\ removed' = removed \ {"data"}
    /\ UNCHANGED <<srv, db, saved, session, device>>

\* Restarting Obsidian empties the in-memory set and loads the code on disk.
Reload == awaiting' = FALSE /\ running' = (IF enabled THEN disk["main"] ELSE None) /\ UNCHANGED later
Restart == Between /\ Reload /\ UNCHANGED <<disk, listed, enabled, updated, removed>>
Crash ==
    /\ InSession /\ Fault("crash") /\ Drop /\ Reload
    /\ row' = saved.row /\ etag' = saved.etag /\ scope' = saved.scope
    /\ UNCHANGED <<bundle, saved, listed, enabled, updated, removed>>

OthersAct ==
    /\ foreign < MaxForeign /\ foreign' = foreign + 1 /\ UNCHANGED <<user, faults>>
    /\ etag' = Moved(etag) /\ saved' = [saved EXCEPT !.etag = Moved(@)]
    /\ UNCHANGED <<disk, row, scope, listed, enabled, running, updated, awaiting, session, removed>>
Publish(b) == ~InSession /\ Settled /\ OthersAct /\ srv' = Of(b, srv["data"])
              /\ later' \in Times(disk["manifest"], b)
ForeignUninstall == ~InSession /\ Settled /\ OthersAct /\ srv # Empty /\ srv' = Empty /\ UNCHANGED later
ForeignSettings(b) == OthersAct /\ srv["data"] # b /\ srv' = [srv EXCEPT !["data"] = b] /\ UNCHANGED later
-----------------------------------------------------------------------------
(* prepare: is the plugin part of this session, and in which direction. *)

\* sideChanged
Changed(now, base) == now # base
\* The remote manifest is read only when it can change the decision.
Fetched(l) == l["manifest"] \notin {None, disk["manifest"]} /\ (disk["manifest"] = None \/ l["manifest"] # Id("manifest"))
NeedsNewerApp(l) ==
    /\ ~updated
    /\ disk["manifest"] \in TooNew \/ (Fetched(l) /\ l["manifest"] \in TooNew)

\* newerSide: the version, then the time, which may be equal.
NewerSide(b, c) ==
    IF Version[b] > Version[c] THEN "local" ELSE IF Version[b] < Version[c] THEN "remote" ELSE later
\* decideBundleDirection
BundleDirection(local, remote, localChanged, remoteChanged) ==
    IF local = remote \/ (~localChanged /\ ~remoteChanged) THEN "none"
    ELSE IF ~remoteChanged \/ (localChanged /\ remote = None) THEN "local"
    ELSE IF ~localChanged \/ local = None THEN "remote"
    ELSE NewerSide(local, remote)
Direction(local, remote) ==
    BundleDirection(local, remote, Changed(local, Hash("manifest")), Changed(remote, Id("manifest")))

HoldsData(d) == d = "remote" /\ enabled

\* staleTrackedIds: the plugin is not part of the session, and not for a passing reason.
Stale(reason) == reason \in {"ignored", "unlisted"}
\* Mutant: only an ignored plugin loses its rows.
DropIgnored(reason) == row' = IF reason = "ignored" THEN Empty ELSE row
DropStale(reason) == row' = IF Stale(reason) THEN Empty ELSE row

\* A manifest that is there cannot be read or fetched.
Unavailable(l) == (disk["manifest"] # None \/ Fetched(l)) /\ Fault("manifest")
\* evaluatePlugin: the reason to leave the plugin out, or the direction.
Evaluate(l) ==
    \/ Unavailable(l) /\ inc' = "unavailable" /\ dir' = "none"
    \/ NeedsNewerApp(l) /\ inc' = "ignored" /\ dir' = "none" /\ UNCHANGED budgets
    \/ ~NeedsNewerApp(l) /\ inc' = "in" /\ dir' = Direction(disk["manifest"], l["manifest"]) /\ UNCHANGED budgets

\* begin and prepare, then dropStalePluginTracking.
Prepare(l) ==
    /\ list' = l /\ scope' = listed /\ on' = enabled /\ waited' = awaiting /\ wrote' = FALSE
    /\ \/ listed /\ Evaluate(l)
       \/ ~listed /\ inc' = "unlisted" /\ dir' = "none" /\ UNCHANGED budgets
    /\ held' = HoldsData(dir')
    /\ DropStale(inc')
    \* isPluginFileIncluded
    /\ todo' = IF inc' # "in" THEN {} ELSE There(l) \ (IF awaiting \/ held' THEN {"data"} ELSE {})
    /\ pc' = "files" /\ UNCHANGED <<bundle, saved, device, stats, bad, removed>>
ScanReal == ~InSession /\ Prepare(srv) /\ etag' = "same"
\* The short-circuit, unless the scope changed since.
ScanCached ==
    /\ ~InSession /\ etag = "same" /\ scope = listed
    /\ Prepare([f \in Files |-> Id(f)]) /\ UNCHANGED etag
Included(f) == inc = "in" /\ (f = "data" => ~awaiting /\ ~held)
-----------------------------------------------------------------------------
(* What a session does to one file. *)

Rest == UNCHANGED <<pc, list, stats, plugin, removed, scope>>
Turn(phase, f) == pc = phase /\ f \in todo /\ todo' = todo \ {f} /\ UNCHANGED device
Still == UNCHANGED <<etag, saved>>
Fine == UNCHANGED <<bad, budgets>>
Keep == UNCHANGED <<bundle, row>> /\ Still
Set(f, r) == row' = [row EXCEPT ![f] = r]
Touch == etag' = Moved(etag) /\ saved' = [saved EXCEPT !.etag = Moved(@)]

\* The write of a code file is remembered until the end of the session.
Written(f) == wrote' = (wrote \/ f \in Code)

Fails == Fault("transfer") /\ bad' = TRUE /\ Keep /\ UNCHANGED wrote
Upload(f) ==
    /\ srv' = [srv EXCEPT ![f] = disk[f]] /\ Touch /\ Set(f, Both(disk[f]))
    /\ UNCHANGED <<disk, wrote>> /\ Fine
Download(f) ==
    IF srv[f] = None THEN bad' = TRUE /\ Keep /\ UNCHANGED <<wrote, budgets>>
    ELSE /\ disk' = [disk EXCEPT ![f] = srv[f]] /\ Set(f, [hash |-> srv[f], rid |-> list[f]])
         /\ Written(f) /\ UNCHANGED srv /\ Still /\ Fine
Converged(f) == Set(f, Both(disk[f])) /\ UNCHANGED <<bundle, wrote>> /\ Still /\ Fine
Nothing == Keep /\ UNCHANGED wrote /\ Fine

\* conflictRuleFor: the direction, else the time; settings follow otherFileStrategy.
Rule(f) == IF f \in Code /\ dir # "none" THEN {dir} ELSE ByTime
Resolve(f) ==
    IF disk[f] = list[f] THEN Converged(f)
    ELSE \E r \in Rule(f) :
         \/ r = "local" /\ disk[f] # None /\ Upload(f)
         \/ r = "local" /\ disk[f] = None /\ bad' = TRUE /\ Keep /\ UNCHANGED <<wrote, budgets>>
         \/ r = "remote" /\ Download(f)
         \/ r = "hold" /\ bad' = TRUE /\ Keep /\ UNCHANGED <<wrote, budgets>>
         \/ r = "tie" /\ etag' = "none" /\ UNCHANGED <<bundle, row, saved, wrote>> /\ Fine
UploadOrConflict(f) == IF srv[f] # list[f] THEN Resolve(f) ELSE Upload(f)
Delete(f, id) ==
    IF id = Hash(f)
    THEN srv' = [srv EXCEPT ![f] = None] /\ Touch /\ Set(f, None) /\ UNCHANGED <<disk, wrote>> /\ Fine
    ELSE Download(f)

LocalEdit(f) == disk[f] \notin {None, Hash(f)}
RemoteEdit(f) == list[f] # Id(f)
Ordinary(f) ==
    \/ disk[f] = None /\ row[f] # None /\ Delete(f, list[f])
    \/ disk[f] = list[f] /\ Converged(f)
    \/ disk[f] \notin {None, list[f]} /\ ~LocalEdit(f) /\ ~RemoteEdit(f) /\ Nothing
    \/ disk[f] # list[f] /\ LocalEdit(f) /\ ~RemoteEdit(f) /\ UploadOrConflict(f)
    \/ (disk[f] # None \/ row[f] = None) /\ disk[f] # list[f] /\ ~LocalEdit(f) /\ RemoteEdit(f) /\ Download(f)
    \/ disk[f] # list[f] /\ LocalEdit(f) /\ RemoteEdit(f) /\ Resolve(f)

\* planBundleFileAction
Action(f) ==
    LET source == IF dir = "remote" THEN list[f] ELSE disk[f]
        target == IF dir = "remote" THEN disk[f] ELSE list[f] IN
    IF f = "data" \/ dir = "none" \/ disk[f] = list[f] THEN "ordinary"
    ELSE IF dir = "hold" THEN IF disk[f] = None \/ list[f] = None THEN "skip" ELSE "hold"
    ELSE IF source # None THEN "transfer"
    ELSE IF target # None /\ row[f] = None THEN "skip" ELSE "ordinary"

\* Mutant: the manifest goes when its turn comes.
AnyOrder(f) == TRUE
ManifestLast(f) == f = "manifest" => todo = {f}
\* processRemoteFile, in the order of the batch.
ProcessRemote(f) ==
    /\ Turn("files", f) /\ ManifestLast(f) /\ UNCHANGED <<pc, list, stats, inc, dir, on, held, waited, removed, scope>>
    /\ \/ Action(f) = "transfer" /\ dir = "remote" /\ Download(f)
       \/ Action(f) = "transfer" /\ dir = "local" /\ UploadOrConflict(f)
       \/ Action(f) = "hold" /\ Resolve(f)
       \/ Action(f) = "skip" /\ Nothing
       \/ Action(f) = "ordinary" /\ Ordinary(f)
       \/ Fails
-----------------------------------------------------------------------------
(* processLocalModifications. *)

Then(phase, from, fs) ==
    /\ pc = from /\ todo = {} /\ pc' = phase /\ todo' = fs
    /\ UNCHANGED <<bundle, db, saved, device, list, bad, plugin, removed, budgets>>
\* pluginSkips: the file is on one side only, and stays there.
Skips(f) == Action(f) = "skip"
CollectLocal ==
    /\ Then("up", "files", {f \in There(disk) \ There(list) : Included(f) /\ LocalEdit(f) /\ ~Skips(f)})
    /\ stats' = [f \in Files |-> IF Included(f) THEN disk[f] ELSE None]
\* The four paths are stat'ed manifest first, and uploaded in that order.
UploadLocal(f) ==
    /\ Turn("up", f) /\ ("manifest" \in todo => f = "manifest") /\ ("main" \in todo => f # "data")
    /\ UNCHANGED <<pc, list, stats, inc, dir, on, held, waited, removed, scope>>
    /\ \/ LocalEdit(f) /\ Upload(f)
       \/ ~LocalEdit(f) /\ Nothing
       \/ Fails
JudgeMissing ==
    /\ Then("missing", "up", {f \in There(row) : Included(f) /\ stats[f] = None /\ list[f] = None})
    /\ UNCHANGED stats
DeleteMissing(f) ==
    /\ Turn("missing", f) /\ UNCHANGED <<pc, list, stats, inc, dir, on, held, waited, removed, scope>>
    /\ \/ srv[f] = None /\ Set(f, None) /\ UNCHANGED <<bundle, wrote>> /\ Still /\ Fine
       \/ srv[f] # None /\ srv[f] = Hash(f) /\ Delete(f, srv[f])
       \/ srv[f] # None /\ srv[f] # Hash(f) /\ disk' = [disk EXCEPT ![f] = srv[f]] /\ Set(f, Both(srv[f]))
          /\ Written(f) /\ UNCHANGED srv /\ Still /\ Fine
JudgeAbsent ==
    /\ Then("absent", "missing",
            {f \in There(row) : Included(f) /\ stats[f] # None /\ list[f] = None /\ disk[f] = Hash(f)})
    /\ UNCHANGED stats
TrashAbsent(f) ==
    /\ Turn("absent", f) /\ Rest /\ Still /\ Fine /\ UNCHANGED srv
    /\ IF srv[f] = None THEN disk' = [disk EXCEPT ![f] = None] /\ Set(f, None)
                        ELSE UNCHANGED <<disk, row>>

\* Mutant: code that arrived leaves the root ETag as it is.
KeepsEtag == inc \in {"unavailable", "ignored"} \/ waited
\* buildOutcome: what keeps the next session from the short-circuit.
Invalidates == inc \in {"unavailable", "ignored"} \/ waited \/ held
\* Mutant: no restart is asked for.
NeverRestart == FALSE
NeedsRestart == wrote /\ on
Finish ==
    /\ pc = "absent" /\ todo = {} /\ Drop
    /\ awaiting' = (awaiting \/ NeedsRestart)
    /\ etag' = IF bad \/ Invalidates THEN "none" ELSE etag
    /\ UNCHANGED <<row, scope>> /\ Persist
    /\ UNCHANGED <<bundle, listed, enabled, running, updated, later, removed, budgets>>
-----------------------------------------------------------------------------
DeviceNext ==
    \/ \E b \in Body : Install(b) \/ Publish(b) \/ ForeignSettings(b)
    \/ \E x \in BOOLEAN : Enable(x) \/ SetListed(x)
    \/ Uninstall \/ UpdateApp \/ SaveSettings \/ Restart \/ Crash \/ ForeignUninstall
SessionNext ==
    \/ ScanReal \/ ScanCached \/ CollectLocal \/ JudgeMissing \/ JudgeAbsent \/ Finish
    \/ \E f \in Files : ProcessRemote(f) \/ UploadLocal(f) \/ DeleteMissing(f) \/ TrashAbsent(f)
Next == DeviceNext \/ SessionNext
Spec == Init /\ [][Next]_vars
\* The timer starts sessions for ever, and each runs to its end.
FairSpec == Spec /\ WF_vars(SessionNext)
-----------------------------------------------------------------------------
TypeOK ==
    /\ {disk, srv, list, stats} \subseteq [Files -> Content]
    /\ row \in [Files -> Row \cup {None}] /\ etag \in {"none", "same", "stale"}
    /\ {scope, listed, enabled, updated, awaiting, bad, on, held, wrote, waited} \subseteq BOOLEAN
    /\ running \in Content /\ later \in {"local", "remote", "hold"} /\ {todo, removed} \subseteq SUBSET Files
    /\ pc \in {"off", "files", "up", "missing", "absent"}
    /\ inc \in {"none", "in", "unavailable", "ignored", "unlisted"}
    /\ dir \in {"none", "local", "remote", "hold"} /\ (held => dir = "remote" /\ on)

\* Other code is on disk than the code that runs.
OldCodeRuns == running # None /\ disk["main"] \notin {None, running}
InTurn == InSession /\ todo' # todo /\ pc' = pc
\* Settings cross the network in neither direction while old code runs: it would write
\* them in its own schema (docs/spec.md section 7, CPS-13).  The session that brings the
\* code holds them back from its start, unless the code came by the ordinary path.
CodeCameOrdinarily == wrote /\ dir = "none"
SettingsWaitForRestart ==
    [][InTurn /\ (disk'["data"] # disk["data"] \/ srv'["data"] # srv["data"])
           => ~OldCodeRuns \/ CodeCameOrdinarily]_vars

\* A session deletes a file of the bundle on the server only when the user uninstalled
\* the plugin while it was listed (docs/spec.md section 7, CPS-12), or it is settings
\* saved again since the session found them missing.
DeleteIsUninstall ==
    [][InTurn => \A f \in Files : srv[f] # None /\ srv'[f] = None
                    => f \in removed \/ (f = "data" /\ disk[f] # None)]_vars

\* An armed root ETag hides nothing of the bundle from the next session: neither a file
\* the server has, nor that a file which is unedited here is gone.
ArmedHidesNothing ==
    ~InSession /\ etag = "same" /\ scope /\ listed /\ ~awaiting =>
        \A f \in Files : Id(f) # srv[f] => srv[f] = None /\ disk[f] # Hash(f)
\* With the types: settings are held only while code arrives for a plugin that runs.
Safety == TypeOK /\ ArmedHidesNothing

Tie == later = "hold" /\ Rebuilt(disk["manifest"], srv["manifest"])
\* Once everyone is quiet both sides have the same bundle, whose manifest is that of its
\* code (or the two are a held tie, or the app too old for one), and the same settings
\* unless a restart is due.
BundleConverges ==
    <>[](\/ ~listed
         \/ Tie
         \/ ~updated /\ {disk["manifest"], srv["manifest"]} \cap TooNew # {}
         \/ /\ \A f \in Code : disk[f] = srv[f]
            /\ Whole(disk)
            /\ disk["data"] = srv["data"] \/ awaiting)
=============================================================================
