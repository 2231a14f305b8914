------------------------------- MODULE Engine -------------------------------
(***************************************************************************)
(* The life of one sync engine around its store: sessions and the save     *)
(* that ends each, the plugin's commands that stop a session and wait for  *)
(* it (Reset vault index, Mirror from remote), watch mode, and the engine  *)
(* being torn down and built again.  StateStore has the files.             *)
(*                                                                         *)
(* What a session or an operation records is one new version of the state. *)
(* A stopped session ends sooner, which any session here may.              *)
(***************************************************************************)
EXTENDS StateStore

CONSTANTS
    None,
    Gap,        \* may a session start while the last one is being saved, as the code allows
    MaxRuns     \* bound: sessions

Runs == 1..MaxRuns
ASSUME NoneAssumption == None \notin Runs
ASSUME EngineAssumption == Gap \in BOOLEAN /\ MaxRuns \in Nat

VARIABLES
    open,       \* the engine is in use: main.ts holds it and its listeners are on
    phase,      \* of each session: new, run, save (running is false again), done
    current,    \* currentRun
    asker,      \* the command that aborts the session: none, reset, mirror; saving: the reset
    awaited,    \* the run it awaits
    owners,     \* who awaits each job of the store's queue
    rows,       \* history: the versions that have rows
    reset       \* history: no session since a reset that was asked for, or is done

engine == <<open, phase, current, asker, awaited, owners, rows, reset>>
allvars == <<vars, engine>>

EngineInit ==
    /\ Init
    /\ open = TRUE /\ phase = [r \in Runs |-> "new"] /\ current = None
    /\ asker = "none" /\ awaited = None /\ owners = <<>> /\ rows = {} /\ reset = "no"

Running == \E r \in Runs : phase[r] = "run"
Saving == \E r \in Runs : phase[r] = "save"
\* abortAndWait goes on at once when its run is over: nothing comes in between.
Due == asker \in {"reset", "mirror"} /\ (awaited # None => phase[awaited] = "done")
Awaits(kind, r) == owners' = Append(owners, <<kind, r>>)
Told(kind, r) == \A i \in DOMAIN owners : owners[i] # <<kind, r>>
-----------------------------------------------------------------------------
(* A session: syncManual, runSyncSession. *)

\* By hand, by the timer, at start or on resume, unless one is running.
StartSession(r) ==
    /\ open /\ Up /\ ~Due /\ ~Running /\ (Gap \/ ~Saving)
    /\ phase[r] = "new" /\ \A q \in Runs : q < r => phase[q] # "new"
    /\ phase' = [phase EXCEPT ![r] = "run"] /\ current' = r /\ reset' = "no"
    /\ UNCHANGED <<vars, open, asker, awaited, owners, rows>>

\* A reset that waits is left a version.
Spare == asker = "reset" => mem + 1 < MaxVersion
\* A file of the session sets its row.
RecordRow ==
    /\ Running /\ Spare
    /\ Set /\ rows' = rows \cup {mem'}
    /\ UNCHANGED <<open, phase, current, asker, awaited, owners, reset>>

\* Mutant: a session that is only being saved is nobody's currentRun any more.
EndForgets(r) ==
    /\ phase[r] = "run" /\ Save /\ Awaits("session", r) /\ phase' = [phase EXCEPT ![r] = "save"] /\ current' = None
    /\ UNCHANGED <<open, asker, awaited, rows, reset>>
\* running is cleared first, then the state is saved.
EndSession(r) ==
    /\ phase[r] = "run" /\ Save /\ Awaits("session", r) /\ phase' = [phase EXCEPT ![r] = "save"]
    /\ UNCHANGED <<open, current, asker, awaited, rows, reset>>

\* The save is over, or failed: syncManual clears currentRun, whosever it is.
SessionReturns(r) ==
    /\ phase[r] = "save" /\ Told("session", r)
    /\ phase' = [phase EXCEPT ![r] = "done"] /\ current' = None
    /\ UNCHANGED <<vars, open, asker, awaited, owners, rows, reset>>
-----------------------------------------------------------------------------
(* The commands of main.ts. *)

\* Mutant: the session is told to stop, and not waited for.
NobodyAwaited == None
Awaited == current

Ask(kind) ==
    /\ open /\ Up /\ asker = "none" /\ (kind = "reset" => mem < MaxVersion)
    /\ asker' = kind /\ awaited' = Awaited
    /\ UNCHANGED <<vars, open, phase, current, owners, rows, reset>>

\* resetIndex: abortAndWait, then StateDB.reset.
ResetIndex ==
    /\ asker = "reset" /\ Due /\ Reset /\ Awaits("reset", 0)
    /\ asker' = "saving" /\ awaited' = None /\ reset' = "asked" /\ rows' = rows \ {mem'}
    /\ UNCHANGED <<open, phase, current>>
ResetReturns ==
    /\ asker = "saving" /\ Told("reset", 0)
    /\ asker' = "none" /\ UNCHANGED <<vars, open, phase, current, awaited, owners, rows, reset>>
\* From here on Mirror applies.
PlanMirror ==
    /\ asker = "mirror" /\ Due /\ asker' = "none" /\ awaited' = None
    /\ UNCHANGED <<vars, open, phase, current, owners, rows, reset>>

\* An operation of watch mode records its file and asks for a save, outside a session.
WatchRecords ==
    /\ open /\ ~Running /\ Spare /\ SetAndRequest /\ rows' = rows \cup {mem'} /\ reset' = "no"
    /\ UNCHANGED <<open, phase, current, asker, awaited, owners>>

\* teardownSyncEngine: what waits in the debounce is saved now.
Teardown ==
    /\ open /\ Flush /\ open' = FALSE /\ Awaits("flush", 0)
    /\ UNCHANGED <<phase, current, asker, awaited, rows, reset>>

Idle == ~Running /\ ~Saving /\ asker = "none" /\ queue = <<>>
\* initSyncEngine: a new engine loads the state.  The code does not wait for the old one to
\* be idle; two engines on one file are not modelled.
InitSyncEngine ==
    /\ ~open /\ Up /\ Idle /\ open' = TRUE
    /\ Goto("load") /\ timer' = FALSE /\ mem' = 0 /\ json' = 0 /\ asked' = 0
    /\ reset' = IF reset = "done" THEN "done" ELSE "no"
    /\ UNCHANGED <<files, queue, faults, phase, current, asker, awaited, owners, rows>>
-----------------------------------------------------------------------------
(* The store. *)

\* Mutant: the caller of a save that failed is not told.
RejectionIsLost ==
    /\ DoSave
    /\ owners' = IF Len(queue') < Len(queue) /\ faults' = faults THEN Tail(owners) ELSE owners
    /\ reset' = IF Len(queue') < Len(queue) /\ Head(owners)[1] = "reset" /\ reset = "asked" /\ faults' = faults
                THEN "done" ELSE reset
    /\ UNCHANGED <<open, phase, current, asker, awaited, rows>>

\* A job goes on, or is over: its caller is told, whether it failed or not.
StoreStep ==
    /\ DoSave
    /\ owners' = IF Len(queue') < Len(queue) THEN Tail(owners) ELSE owners
    /\ reset' = IF Len(queue') < Len(queue) /\ Head(owners)[1] = "reset" /\ reset = "asked" /\ faults' = faults
                THEN "done" ELSE reset
    /\ UNCHANGED <<open, phase, current, asker, awaited, rows>>

DebounceFires == TimerFires /\ Awaits("timer", 0) /\ UNCHANGED <<open, phase, current, asker, awaited, rows, reset>>

\* The app is killed, and starts again.
Killed ==
    /\ Crash
    /\ open' = TRUE /\ phase' = [r \in Runs |-> IF phase[r] = "new" THEN "new" ELSE "done"]
    /\ current' = None /\ asker' = "none" /\ awaited' = None /\ owners' = <<>>
    /\ reset' = IF reset = "done" THEN "done" ELSE "no"
    /\ UNCHANGED rows
Loads == Loading /\ UNCHANGED engine
-----------------------------------------------------------------------------
SessionNext == \E r \in Runs : EndSession(r) \/ SessionReturns(r)
Command == ResetIndex \/ ResetReturns \/ PlanMirror

EngineNext ==
    \/ \E r \in Runs : StartSession(r)
    \/ RecordRow \/ SessionNext
    \/ \E kind \in {"reset", "mirror"} : Ask(kind)
    \/ Command \/ WatchRecords \/ Teardown \/ InitSyncEngine
    \/ StoreStep \/ DebounceFires \/ Killed \/ Loads

\* Sessions end, adapter calls return, and the callbacks of a promise run.
EngineSpec ==
    /\ EngineInit /\ [][EngineNext]_allvars
    /\ WF_allvars(SessionNext) /\ WF_allvars(Command) /\ WF_allvars(StoreStep) /\ WF_allvars(Loads)
-----------------------------------------------------------------------------
\* The types, with the mutex: each job has its caller, and at most one session runs.
EngineTypes ==
    /\ open \in BOOLEAN /\ phase \in [Runs -> {"new", "run", "save", "done"}]
    /\ {current, awaited} \subseteq Runs \cup {None}
    /\ asker \in {"none", "reset", "mirror", "saving"} /\ reset \in {"no", "asked", "done"}
    /\ Len(owners) = Len(queue) /\ rows \subseteq 1..MaxVersion
    /\ \A q, r \in Runs : phase[q] = "run" /\ phase[r] = "run" => q = r

\* After a reset the index stays empty until a session or an operation fills it again:
\* no session that was under way writes its rows back, here or, once the reset is
\* through, in the file ("the next sync runs as a first sync", resetIndex).
ResetStaysEmpty ==
    /\ reset # "no" => mem \notin rows
    /\ reset = "done" => Recoverable \notin rows

\* An engine that was torn down and is idle has left in its file all it knew, unless a
\* call failed: no update that was waiting for the debounce is lost.
TeardownKeepsAll == ~open /\ Idle /\ Up /\ faults = 0 => Recoverable = mem
EngineSafety == EngineTypes /\ ResetStaysEmpty /\ TeardownKeepsAll

\* When abortAndWait returns, no session is running, and none is still to be saved.
AbortWaits ==
    [][asker' # asker /\ asker \in {"reset", "mirror"} /\ step' # "load"
           => ~Running /\ ~Saving]_allvars

\* A command that waits for the session gets its turn and returns, whatever fails.
CommandsReturn == asker # "none" ~> asker = "none"
=============================================================================
