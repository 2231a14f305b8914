------------------------- MODULE VaultSession_proofs -------------------------
(***************************************************************************)
(* Whole sessions over any number of files: what another device deleted    *)
(* while it was in sync here stays deleted, and a vanished vault folder    *)
(* costs no local file that was in sync with it, as long as no other       *)
(* device makes the folder again first.                                    *)
(***************************************************************************)
EXTENDS VaultSession, TLAPS

Etags == {"none", "same", "stale"}
Rows == [Files -> Row \cup {None}]
Phase == {"off", "list", "reseed", "files", "up", "down", "same", "conflict", "missing", "absent"}

Types ==
    /\ disk \in [Files -> Content] /\ srv \in [Files -> Content]
    /\ list \in [Files -> Content] /\ stats \in [Files -> Content]
    /\ moves \in [Files -> Files \cup {None}]
    /\ row \in Rows /\ etag \in Etags /\ skips \in 0..ForceEvery
    /\ saved \in [row : Rows, etag : Etags, skips : 0..ForceEvery]
    /\ retry \subseteq Files /\ todo \subseteq Files /\ gone \subseteq Files /\ orphan \subseteq Files
    /\ touched \subseteq Files
    /\ root \in BOOLEAN /\ first \in BOOLEAN /\ real \in BOOLEAN /\ bad \in BOOLEAN
    /\ pc \in Phase
    /\ There(srv) # {} => root

\* A first sync and an incremental session share two phases.
Phases ==
    /\ pc = "off" => touched = {} /\ saved.row = row /\ ~first
    /\ pc \in {"off", "list", "reseed"} => todo = {}
    /\ first => pc \in {"list", "up", "down", "same", "conflict"}
    /\ pc \in {"down", "same", "conflict"} => first

\* What the phases of a first sync have still to come to after this one: no file
\* is in two of them, and none has a row before its turn.
InBoth == There(list) \cap There(stats)
Differing == {f \in InBoth : stats[f] # list[f]}
Later ==
    IF pc = "list" THEN Files
    ELSE IF pc = "up" THEN There(list)
    ELSE IF pc = "down" THEN InBoth
    ELSE IF pc = "same" THEN Differing
    ELSE {}
FirstRows == first => /\ \A f \in todo \cup Later : row[f] = None
                      /\ todo \cap Later = {}

\* How far the sets a session works from still say what is on disk.
Seen ==
    /\ pc \in {"files", "down", "same", "conflict"} => todo \subseteq There(list)
    /\ pc = "up" /\ ~first => \A f \in Files \ touched : stats[f] = disk[f]
    /\ pc = "missing" => \A f \in todo \ touched : disk[f] = None
    /\ pc = "missing" => \A f \in todo : moves[f] # None => moves[f] \notin gone
    /\ pc = "absent" => \A f \in todo : row[f] # None

\* A file another device deleted is still what the row says, so only its absence is news.
Gone(f) == srv[f] = None /\ row[f] # None /\ disk[f] = HashOf(f) /\ f \notin touched
AllGone == \A f \in gone : Gone(f)

IInv == Types /\ Phases /\ FirstRows /\ Seen /\ AllGone
-----------------------------------------------------------------------------
(* Rows, ETags and phases. *)

LEMMA RowFacts ==
    /\ None \notin Body /\ None \notin Row /\ SomeBody \in Body
    /\ \A b \in Body : Both(b) \in Row /\ Both(b).hash = b
    /\ \A b \in Body : \A i \in Body : [hash |-> b, rid |-> i] \in Row
    /\ \A r \in Row : r.hash \in Body /\ r.rid \in Body
BY NoneAssumption, SetsAssumption DEF Row, Both, SomeBody

LEMMA IdTypes ==
    ASSUME Types, NEW f \in Files
    PROVE  /\ row[f] \in Row \cup {None} /\ HashOf(f) \in Content /\ IdOf(f) \in Content
           /\ HashOf(f) = None <=> row[f] = None
           /\ disk[f] \in Content /\ srv[f] \in Content /\ list[f] \in Content /\ stats[f] \in Content
BY RowFacts DEF Types, Rows, HashOf, IdOf, Content

\* The stored ETags after a change on the server, or without one.
Tagged ==
    /\ etag' \in Etags /\ saved' \in [row : Rows, etag : Etags, skips : 0..ForceEvery]
    /\ saved'.row = saved.row
    /\ etag # "same" => etag' # "same"
    /\ saved.etag # "same" => saved'.etag # "same"

LEMMA OlderIs ==
    ASSUME NEW e \in Etags PROVE Older(e) \in Etags /\ Older(e) # "same"
BY DEF Older, Etags

LEMMA TagsKept == ASSUME Types, Still \/ Moved PROVE Tagged
<1>1. CASE Still BY <1>1 DEF Still, Tagged, Types
<1>2. CASE Moved
  <2>1. Older(etag) \in Etags /\ Older(saved.etag) \in Etags BY OlderIs DEF Types
  <2>2. Older(etag) # "same" /\ Older(saved.etag) # "same" BY OlderIs DEF Types
  <2>3. etag' = Older(etag) /\ saved' = [saved EXCEPT !.etag = Older(saved.etag)] BY <1>2 DEF Moved
  <2>4. saved' \in [row : Rows, etag : Etags, skips : 0..ForceEvery] /\ saved'.row = saved.row
        /\ saved'.etag = Older(saved.etag)
    BY <2>1, <2>3 DEF Types
  <2>. QED BY <2>1, <2>2, <2>3, <2>4 DEF Tagged
<1>. QED BY <1>1, <1>2

LEMMA EmptyIs == Empty \in [Files -> Content] /\ Empty \in Rows /\ Empty \in [Files -> Files \cup {None}]
                 /\ (\A f \in Files : Empty[f] = None) /\ There(Empty) = {}
BY DEF Empty, Content, Rows, There

\* The end of a session.
LEMMA OffIs ==
    ASSUME Off
    PROVE  /\ pc' = "off" /\ first' = FALSE /\ real' = FALSE /\ bad' = FALSE /\ todo' = {} /\ touched' = {}
           /\ list' \in [Files -> Content] /\ stats' \in [Files -> Content]
           /\ moves' \in [Files -> Files \cup {None}]
BY EmptyIs DEF Off

LEMMA PersistIs ==
    ASSUME Persist, row' \in Rows, etag' \in Etags, skips' \in 0..ForceEvery
    PROVE  saved' \in [row : Rows, etag : Etags, skips : 0..ForceEvery] /\ saved'.row = row'
           /\ saved'.etag = etag'
BY DEF Persist

LEMMA InitInv == Init => IInv
<1>. SUFFICES ASSUME Init PROVE IInv OBVIOUS
<1>1. row \in Rows
  <2>1. CASE row = Empty BY <2>1, EmptyIs
  <2>2. CASE row = [f \in Files |-> Both(SomeBody)] BY <2>2, RowFacts DEF Rows
  <2>. QED BY <2>1, <2>2 DEF Init, Unsynced, Synced
<1>2. disk \in [Files -> Content] /\ srv \in [Files -> Content]
  <2>1. CASE Unsynced BY <2>1, RowFacts DEF Unsynced, Content
  <2>2. CASE Synced BY <2>2, RowFacts DEF Synced, Content
  <2>. QED BY <2>1, <2>2 DEF Init
<1>3. 0 \in 0..ForceEvery BY NumbersAssumption
<1>4. Types BY <1>1, <1>2, <1>3, EmptyIs DEF Init, Types, Etags, Phase
<1>5. Phases /\ FirstRows /\ Seen /\ AllGone BY DEF Init, Phases, FirstRows, Seen, AllGone
<1>. QED BY <1>4, <1>5 DEF IInv
-----------------------------------------------------------------------------
(* What one file's turn may do to the file and its row. *)

Nothing == UNCHANGED <<disk, root, srv, row>>
\* A PUT: not of a body that was last synced, unless nothing was.
Sent(f) ==
    /\ disk[f] # None /\ (row[f] = None \/ disk[f] # HashOf(f))
    /\ disk' = disk /\ srv' = [srv EXCEPT ![f] = disk[f]] /\ root' = TRUE
    /\ row' = [row EXCEPT ![f] = Both(disk[f])]
Fetched(f) ==
    /\ srv[f] # None /\ disk' = [disk EXCEPT ![f] = srv[f]] /\ srv' = srv /\ root' = root
    /\ \E i \in Body : row' = [row EXCEPT ![f] = [hash |-> srv[f], rid |-> i]]
\* A row for a listed file that is not transferred.
Marked(f) ==
    /\ list[f] # None /\ disk' = disk /\ srv' = srv /\ root' = root
    /\ \E r \in Row : (r.hash = disk[f] \/ row[f] = None) /\ row' = [row EXCEPT ![f] = r]
\* The row goes, with what was left on the server: not of a file seen here in this session.
Dropped(f) ==
    /\ disk[f] = None \/ f \in touched
    /\ disk' = disk /\ srv' = [srv EXCEPT ![f] = None] /\ root' = root
    /\ row' = [row EXCEPT ![f] = None]
Effect(f) == Nothing \/ Sent(f) \/ Fetched(f) \/ Marked(f) \/ Dropped(f)

\* The effect, and what it does to ETags and the retry queue.
Worked(f) ==
    /\ Effect(f) /\ Tagged /\ retry' \subseteq Files /\ bad' \in BOOLEAN

LEMMA KeptWorks ==
    ASSUME Types, NEW f \in Files, Kept(f), retry' \subseteq Files, bad' \in BOOLEAN
    PROVE  Worked(f)
BY TagsKept DEF Kept, Worked, Effect, Nothing, server

LEMMA QueuedWorks ==
    ASSUME Types, NEW f \in Files, Queued(f)
    PROVE  Worked(f)
<1>1. retry' \subseteq Files BY DEF Queued, Types
<1>2. bad' \in BOOLEAN BY DEF Queued
<1>. QED BY <1>1, <1>2, KeptWorks DEF Queued

LEMMA UnreadWorks ==
    ASSUME Types, NEW f \in Files, Unread(f)
    PROVE  Worked(f)
<1>1. retry' \subseteq Files BY DEF Unread, Types
<1>2. bad' \in BOOLEAN BY DEF Unread
<1>. QED BY <1>1, <1>2, KeptWorks DEF Unread

LEMMA FineIs ==
    ASSUME Types, Fine PROVE retry' \subseteq Files /\ bad' \in BOOLEAN
<1>1. retry' \subseteq Files BY DEF Types, Fine
<1>2. bad' \in BOOLEAN BY DEF Types, Fine
<1>. QED BY <1>1, <1>2

LEMMA UploadWorks ==
    ASSUME Types, NEW f \in Files, Upload(f), disk[f] # None, row[f] = None \/ disk[f] # HashOf(f)
    PROVE  Worked(f)
<1>1. Tagged BY TagsKept DEF Upload
<1>2. Sent(f) BY DEF Upload, Set, Sent
<1>. QED BY <1>1, <1>2, FineIs DEF Upload, Worked, Effect

LEMMA DownloadWorks ==
    ASSUME Types, NEW f \in Files, NEW id \in Body, Download(f, id)
    PROVE  Worked(f)
<1>1. CASE srv[f] = None BY <1>1, QueuedWorks DEF Download
<1>2. CASE srv[f] # None
  <2>1. Tagged BY <1>2, TagsKept DEF Download
  <2>2. Fetched(f) BY <1>2 DEF Download, Set, Fetched, server
  <2>3. Fine BY <1>2 DEF Download
  <2>. QED BY <2>1, <2>2, <2>3, FineIs DEF Worked, Effect
<1>. QED BY <1>1, <1>2

LEMMA ResolveWorks ==
    ASSUME Types, NEW f \in Files, Resolve(f), list[f] \in Body, row[f] = None \/ disk[f] # HashOf(f)
    PROVE  Worked(f)
<1>1. CASE disk[f] = srv[f] /\ disk[f] # None
  <2>1. Set(f, [hash |-> disk[f], rid |-> list[f]]) /\ UNCHANGED <<disk, server>> /\ Still /\ Fine
    BY <1>1 DEF Resolve
  <2>2. disk[f] \in Body BY <1>1, IdTypes DEF Content
  <2>3. [hash |-> disk[f], rid |-> list[f]] \in Row BY <2>2, RowFacts
  <2>4. Marked(f) BY <2>1, <2>3, RowFacts DEF Marked, Set, server
  <2>. QED BY <2>1, <2>4, FineIs, TagsKept DEF Worked, Effect
<1>2. CASE ~(disk[f] = srv[f] /\ disk[f] # None)
  <2>1. Decide(f) BY <1>2 DEF Resolve
  <2>2. CASE IF disk[f] # None THEN Upload(f) ELSE Unread(f)
    BY <2>2, UploadWorks, UnreadWorks
  <2>3. CASE Download(f, list[f]) BY <2>3, DownloadWorks
  <2>4. CASE bad' = TRUE /\ Kept(f) /\ UNCHANGED <<retry, budgets>>
    <3>1. retry' \subseteq Files BY <2>4 DEF Types
    <3>2. bad' \in BOOLEAN BY <2>4
    <3>. QED BY <2>4, <3>1, <3>2, KeptWorks
  <2>. QED BY <2>1, <2>2, <2>3, <2>4 DEF Decide
<1>. QED BY <1>1, <1>2

LEMMA DeleteWorks ==
    ASSUME Types, NEW f \in Files, NEW id \in Body, Delete(f, id), disk[f] = None \/ f \in touched
    PROVE  Worked(f)
<1>1. CASE Proven(f, id)
  <2>1. /\ srv' = [srv EXCEPT ![f] = None] /\ UNCHANGED root
        /\ (IF srv[f] = None THEN Still ELSE Moved) /\ Untrack(f) /\ Fine
    BY <1>1 DEF Delete
  <2>2. Dropped(f) BY <2>1 DEF Dropped, Untrack, Set
  <2>. QED BY <2>1, <2>2, FineIs, TagsKept DEF Worked, Effect
<1>2. CASE ~Proven(f, id) BY <1>2, DownloadWorks DEF Delete
<1>. QED BY <1>1, <1>2

LEMMA FailsWorks ==
    ASSUME Types, NEW f \in Files, Fails(f)
    PROVE  Worked(f)
BY QueuedWorks DEF Fails
-----------------------------------------------------------------------------
(* The turns. *)

\* A turn of f, with the rest of the session as it was.
Turned(f) ==
    /\ f \in todo /\ todo' = todo \ {f} /\ pc \notin {"off", "list", "reseed"}
    /\ UNCHANGED <<pc, first, real, list, stats, moves, touched, gone, orphan, skips>>
    /\ Worked(f)

LEMMA TurnIs ==
    ASSUME NEW f, NEW phase \in Phase \ {"off", "list", "reseed"}, Turn(phase, f), Rest, UNCHANGED skips
    PROVE  /\ pc = phase /\ f \in todo /\ todo' = todo \ {f} /\ pc \notin {"off", "list", "reseed"}
           /\ UNCHANGED <<pc, first, real, list, stats, moves, touched, gone, orphan, skips>>
BY DEF Turn, Rest, history

LEMMA RemoteTurned ==
    ASSUME IInv, NEW f \in Files, ProcessRemote(f)
    PROVE  Turned(f)
<1>. USE DEF IInv
<1>1. /\ pc = "files" /\ f \in todo /\ todo' = todo \ {f} /\ pc \notin {"off", "list", "reseed"}
      /\ UNCHANGED <<pc, first, real, list, stats, moves, touched, gone, orphan, skips>>
  BY TurnIs DEF ProcessRemote, Phase
<1>2. list[f] \in Body BY <1>1, IdTypes DEF Seen, There, Content
<1>3. LocalEdit(f) => disk[f] # None /\ disk[f] # HashOf(f) BY DEF LocalEdit
<1>4. CASE disk[f] = None /\ row[f] # None /\ Delete(f, list[f]) BY <1>1, <1>2, <1>4, DeleteWorks DEF Turned
<1>5. CASE disk[f] = list[f] /\ Set(f, Both(list[f])) /\ UNCHANGED <<disk, server>> /\ Still /\ Fine
  <2>1. Marked(f) BY <1>2, <1>5, RowFacts DEF Marked, Set, server
  <2>2. Worked(f) BY <1>5, <2>1, FineIs, TagsKept DEF Worked, Effect
  <2>. QED BY <1>1, <2>2 DEF Turned
<1>6. CASE Kept(f) /\ Fine BY <1>1, <1>6, FineIs, KeptWorks DEF Turned
<1>7. CASE LocalEdit(f) /\ (IF real /\ srv[f] # list[f] THEN Resolve(f) ELSE Upload(f))
  BY <1>1, <1>2, <1>3, <1>7, ResolveWorks, UploadWorks DEF Turned
<1>8. CASE Download(f, list[f]) BY <1>1, <1>2, <1>8, DownloadWorks DEF Turned
<1>9. CASE LocalEdit(f) /\ Resolve(f) BY <1>1, <1>2, <1>3, <1>9, ResolveWorks DEF Turned
<1>10. CASE Fails(f) BY <1>1, <1>10, FailsWorks DEF Turned
<1>. QED BY <1>4, <1>5, <1>6, <1>7, <1>8, <1>9, <1>10 DEF ProcessRemote

LEMMA FirstTurned ==
    ASSUME IInv, NEW f \in Files, FirstUpload(f) \/ FirstDownload(f) \/ FirstUnchanged(f) \/ FirstConflict(f)
    PROVE  Turned(f)
<1>. USE DEF IInv
<1>1. ASSUME NEW phase \in {"up", "down", "same", "conflict"}, Turn(phase, f), Rest, UNCHANGED skips,
             phase = "up" => first
      PROVE  /\ pc = phase /\ f \in todo /\ todo' = todo \ {f} /\ pc \notin {"off", "list", "reseed"}
             /\ UNCHANGED <<pc, first, real, list, stats, moves, touched, gone, orphan, skips>>
             /\ row[f] = None
             /\ phase # "up" => list[f] \in Body
  <2>1. /\ pc = phase /\ f \in todo /\ todo' = todo \ {f} /\ pc \notin {"off", "list", "reseed"}
        /\ UNCHANGED <<pc, first, real, list, stats, moves, touched, gone, orphan, skips>>
    BY <1>1, TurnIs DEF Phase
  <2>2. row[f] = None BY <1>1, <2>1 DEF FirstRows, Phases
  <2>3. phase # "up" => list[f] \in Body BY <2>1, IdTypes DEF Seen, There, Content
  <2>. QED BY <2>1, <2>2, <2>3
<1>2. CASE FirstUpload(f)
  <2>1. Turn("up", f) /\ Rest /\ UNCHANGED skips /\ first BY <1>2 DEF FirstUpload
  <2>2. Worked(f) BY <1>2, <2>1, <1>1, UploadWorks, UnreadWorks, FailsWorks DEF FirstUpload
  <2>. QED BY <2>1, <2>2, <1>1 DEF Turned
<1>3. CASE FirstDownload(f)
  <2>1. Turn("down", f) /\ Rest /\ UNCHANGED skips BY <1>3 DEF FirstDownload
  <2>2. Worked(f) BY <1>3, <2>1, <1>1, DownloadWorks, FailsWorks DEF FirstDownload
  <2>. QED BY <2>1, <2>2, <1>1 DEF Turned
<1>4. CASE FirstUnchanged(f)
  <2>1. Turn("same", f) /\ Rest /\ UNCHANGED skips /\ Fine /\ Still BY <1>4 DEF FirstUnchanged
  <2>2. list[f] \in Body /\ row[f] = None BY <2>1, <1>1
  <2>3. Marked(f) BY <1>4, <2>2, RowFacts DEF FirstUnchanged, Marked, Set, server
  <2>4. Worked(f) BY <2>1, <2>3, FineIs, TagsKept DEF Worked, Effect
  <2>. QED BY <2>1, <2>4, <1>1 DEF Turned
<1>5. CASE FirstConflict(f)
  <2>1. Turn("conflict", f) /\ Rest /\ UNCHANGED skips BY <1>5 DEF FirstConflict
  <2>2. Worked(f) BY <1>5, <2>1, <1>1, ResolveWorks, FailsWorks DEF FirstConflict
  <2>. QED BY <2>1, <2>2, <1>1 DEF Turned
<1>. QED BY <1>2, <1>3, <1>4, <1>5

LEMMA ModifiedTurned ==
    ASSUME IInv, NEW f \in Files, UploadModified(f)
    PROVE  Turned(f)
<1>. USE DEF IInv
<1>1. /\ f \in todo /\ todo' = todo \ {f} /\ pc \notin {"off", "list", "reseed"}
      /\ UNCHANGED <<pc, first, real, list, stats, moves, touched, gone, orphan, skips>>
  BY TurnIs DEF UploadModified, Phase
<1>2. LocalEdit(f) => disk[f] # None /\ disk[f] # HashOf(f) BY DEF LocalEdit
<1>3. Worked(f) BY <1>2, UploadWorks, KeptWorks, FineIs, FailsWorks DEF UploadModified
<1>. QED BY <1>1, <1>3 DEF Turned

LEMMA MissingTurned ==
    ASSUME IInv, NEW f \in Files, DeleteMissing(f)
    PROVE  Turned(f) /\ \A g \in todo : moves[g] = None
<1>. USE DEF IInv
<1>1. /\ pc = "missing" /\ f \in todo /\ todo' = todo \ {f} /\ pc \notin {"off", "list", "reseed"}
      /\ UNCHANGED <<pc, first, real, list, stats, moves, touched, gone, orphan, skips>>
  BY TurnIs DEF DeleteMissing, Phase
<1>2. disk[f] = None \/ f \in touched BY <1>1 DEF Seen
<1>3. CASE Kept(f) /\ Fine BY <1>1, <1>3, KeptWorks, FineIs DEF Turned, DeleteMissing
<1>4. CASE row[f] # None /\ srv[f] = None /\ Untrack(f) /\ UNCHANGED server /\ Still /\ Fine
  <2>1. srv' = [srv EXCEPT ![f] = None] BY <1>4, IdTypes DEF server, Types
  <2>2. Dropped(f) BY <1>2, <1>4, <2>1 DEF Dropped, Untrack, Set, server
  <2>3. Worked(f) BY <1>4, <2>2, FineIs, TagsKept DEF Worked, Effect
  <2>. QED BY <1>1, <2>3 DEF Turned, DeleteMissing
<1>5. CASE row[f] # None /\ srv[f] # None /\ Delete(f, srv[f])
  <2>1. srv[f] \in Body BY <1>5, IdTypes DEF Content
  <2>2. Worked(f) BY <1>2, <1>5, <2>1, DeleteWorks
  <2>. QED BY <1>1, <2>2 DEF Turned, DeleteMissing
<1>6. CASE bad' = TRUE /\ Kept(f) /\ UNCHANGED retry
  <2>1. retry' \subseteq Files BY <1>6 DEF Types
  <2>2. bad' \in BOOLEAN BY <1>6
  <2>. QED BY <1>1, <1>6, <2>1, <2>2, KeptWorks DEF Turned, DeleteMissing
<1>. QED BY <1>3, <1>4, <1>5, <1>6 DEF DeleteMissing

\* Only the phases that fetch write to the disk.
LEMMA UpKeepsDisk ==
    ASSUME NEW f \in Files, FirstUpload(f) \/ UploadModified(f)
    PROVE  disk' = disk
BY DEF FirstUpload, UploadModified, Upload, Unread, Fails, Queued, Kept

LEMMA EffectIs ==
    ASSUME Types, NEW f \in Files, Effect(f)
    PROVE  /\ disk' \in [Files -> Content] /\ srv' \in [Files -> Content] /\ row' \in Rows /\ root' \in BOOLEAN
           /\ There(srv') # {} => root'
           /\ \A g \in Files \ {f} : disk'[g] = disk[g] /\ srv'[g] = srv[g] /\ row'[g] = row[g]
           /\ root => root'
<1>. USE DEF Types
<1>1. CASE Nothing BY <1>1 DEF Nothing, There
<1>2. CASE Sent(f)
  <2>1. disk[f] \in Body /\ Both(disk[f]) \in Row BY <1>2, IdTypes, RowFacts DEF Sent, Content
  <2>. QED BY <1>2, <2>1 DEF Sent, There, Rows
<1>3. CASE Fetched(f)
  <2>1. srv[f] \in Body BY <1>3, IdTypes DEF Fetched, Content
  <2>2. PICK r \in Row : row' = [row EXCEPT ![f] = r] BY <1>3, <2>1, RowFacts DEF Fetched
  <2>3. disk' \in [Files -> Content] /\ srv' = srv /\ root' = root
        /\ \A g \in Files \ {f} : disk'[g] = disk[g]
    BY <1>3, <2>1 DEF Fetched, Content
  <2>4. row' \in Rows /\ \A g \in Files \ {f} : row'[g] = row[g] BY <2>2 DEF Rows
  <2>. QED BY <2>3, <2>4 DEF There
<1>4. CASE Marked(f)
  <2>1. PICK r \in Row : row' = [row EXCEPT ![f] = r] BY <1>4 DEF Marked
  <2>2. disk' = disk /\ srv' = srv /\ root' = root BY <1>4 DEF Marked
  <2>. QED BY <2>1, <2>2 DEF Rows, There
<1>5. CASE Dropped(f) BY <1>5 DEF Dropped, There, Rows, Content
<1>. QED BY <1>1, <1>2, <1>3, <1>4, <1>5 DEF Effect

\* A turn never undoes what another device deleted.
LEMMA EffectGone ==
    ASSUME Types, NEW f \in Files, Effect(f), Gone(f), touched' = touched
    PROVE  Gone(f)'
<1>1. disk[f] = HashOf(f) /\ row[f] # None /\ srv[f] = None /\ f \notin touched /\ disk[f] # None
  BY IdTypes DEF Gone
<1>2. CASE Nothing BY <1>2 DEF Nothing, Gone, HashOf
<1>3. CASE Sent(f) BY <1>1, <1>3 DEF Sent
<1>4. CASE Fetched(f) BY <1>1, <1>4 DEF Fetched
<1>5. CASE Marked(f)
  <2>1. PICK r \in Row : r.hash = disk[f] /\ row' = [row EXCEPT ![f] = r] BY <1>1, <1>5 DEF Marked
  <2>2. disk' = disk /\ srv' = srv BY <1>5 DEF Marked
  <2>3. row'[f] = r /\ r # None BY <2>1, RowFacts DEF Types, Rows
  <2>. QED BY <1>1, <2>1, <2>2, <2>3 DEF Gone, HashOf
<1>6. CASE Dropped(f) BY <1>1, <1>6 DEF Dropped
<1>. QED BY <1>2, <1>3, <1>4, <1>5, <1>6 DEF Effect

LEMMA TurnedInv ==
    ASSUME IInv, NEW f \in Files, Turned(f), pc = "up" => disk' = disk
    PROVE  IInv'
<1>. USE DEF IInv
<1>1. /\ f \in todo /\ todo' = todo \ {f} /\ pc \notin {"off", "list", "reseed"}
      /\ UNCHANGED <<pc, first, real, list, stats, moves, touched, gone, orphan, skips>>
      /\ Effect(f) /\ Tagged /\ retry' \subseteq Files /\ bad' \in BOOLEAN
  BY DEF Turned, Worked
<1>2. /\ disk' \in [Files -> Content] /\ srv' \in [Files -> Content] /\ row' \in Rows /\ root' \in BOOLEAN
      /\ There(srv') # {} => root'
      /\ \A g \in Files \ {f} : disk'[g] = disk[g] /\ srv'[g] = srv[g] /\ row'[g] = row[g]
  BY <1>1, EffectIs
<1>3. There(srv)' = There(srv') BY DEF There
<1>4. Types'
  <2>1. todo' \subseteq Files BY <1>1 DEF Types
  <2>. QED BY <1>1, <1>2, <1>3, <2>1 DEF Types, Tagged
<1>5. Phases' BY <1>1 DEF Phases
<1>6. FirstRows'
  <2>1. Later' = Later BY <1>1 DEF Later, InBoth, Differing, There
  <2>2. ASSUME first PROVE \A g \in todo' \cup Later : row'[g] = None
    <3>1. Later \subseteq Files BY DEF Later, InBoth, Differing, There
    <3>2. \A g \in todo' \cup Later : g \in Files \ {f} /\ row[g] = None
      BY <1>1, <2>2, <3>1 DEF FirstRows, Types
    <3>. QED BY <1>2, <3>2
  <2>. QED BY <1>1, <2>1, <2>2 DEF FirstRows
<1>7. Seen'
  <2>1. There(list)' = There(list) BY <1>1 DEF There
  <2>2. pc = "missing" => \A g \in todo' \ touched' : disk'[g] = None BY <1>1, <1>2 DEF Seen, Types
  <2>3. pc = "absent" => \A g \in todo' : row'[g] # None BY <1>1, <1>2 DEF Seen, Types
  <2>4. pc = "missing" => \A g \in todo' : moves'[g] # None => moves'[g] \notin gone' BY <1>1 DEF Seen
  <2>5. pc = "up" /\ ~first => \A g \in Files \ touched' : stats'[g] = disk'[g] BY <1>1 DEF Seen
  <2>. QED BY <1>1, <2>1, <2>2, <2>3, <2>4, <2>5 DEF Seen
<1>8. AllGone'
  <2>1. ASSUME NEW g \in gone PROVE Gone(g)'
    <3>1. CASE g = f BY <1>1, <2>1, <3>1, EffectGone DEF AllGone
    <3>2. CASE g # f
      <4>1. g \in Files BY <2>1 DEF Types
      <4>2. disk'[g] = disk[g] /\ srv'[g] = srv[g] /\ row'[g] = row[g] BY <1>2, <3>2, <4>1
      <4>. QED BY <1>1, <2>1, <4>2 DEF AllGone, Gone, HashOf
    <3>. QED BY <3>1, <3>2
  <2>. QED BY <1>1, <2>1 DEF AllGone
<1>. QED BY <1>4, <1>5, <1>6, <1>7, <1>8
-----------------------------------------------------------------------------
(* A rename, and the trashing of an absent file. *)

LEMMA RenameInv ==
    ASSUME IInv, NEW f \in Files, Rename(f)
    PROVE  IInv'
<1>. USE DEF IInv
<1>1. /\ pc = "missing" /\ f \in todo /\ todo' = todo \ {f} /\ moves[f] # None
      /\ UNCHANGED <<pc, first, real, list, stats, moves, disk, skips, retry, touched, gone, orphan>>
  BY DEF Rename, Turn, history
<1>2. moves[f] \in Files /\ moves[f] \notin gone /\ ~first BY <1>1 DEF Types, Seen, Phases
<1>3. /\ srv' \in [Files -> Content] /\ row' \in Rows /\ root' \in BOOLEAN /\ bad' \in BOOLEAN /\ Tagged
      /\ There(srv') # {} => root'
      /\ \A g \in gone : srv'[g] = srv[g] /\ row'[g] = row[g]
  <2>1. CASE /\ srv[f] # None
             /\ srv' = [srv EXCEPT ![f] = None, ![moves[f]] = srv[f]] /\ Moved
             /\ row' = [row EXCEPT ![f] = None, ![moves[f]] = row[f]]
             /\ UNCHANGED <<root, bad, budgets>>
    <3>1. f \notin gone BY <2>1 DEF AllGone, Gone
    <3>2. srv[f] \in Content /\ row[f] \in Row \cup {None} /\ root BY <2>1, IdTypes DEF Types, There
    <3>3. srv' \in [Files -> Content] /\ row' \in Rows BY <2>1, <3>2 DEF Types, Rows, Content
    <3>4. \A g \in gone : srv'[g] = srv[g] /\ row'[g] = row[g]
      BY <1>2, <2>1, <3>1 DEF Types, Rows
    <3>5. root' = root /\ bad' = bad BY <2>1
    <3>6. root' \in BOOLEAN /\ bad' \in BOOLEAN BY <3>5 DEF Types
    <3>7. Tagged BY <2>1, TagsKept
    <3>. QED BY <3>2, <3>3, <3>4, <3>5, <3>6, <3>7
  <2>2. CASE UNCHANGED <<server, row, bad, budgets>> /\ Still
    BY <2>2, TagsKept DEF server, Types
  <2>3. CASE /\ srv[f] = None /\ root' = TRUE /\ UNCHANGED <<srv, row, budgets>> /\ bad' = TRUE
             /\ (IF root THEN Still ELSE Moved)
    BY <2>3, TagsKept DEF Types
  <2>4. CASE bad' = TRUE /\ UNCHANGED <<server, row>> /\ Still
    BY <2>4, TagsKept DEF server, Types
  <2>. QED BY <2>1, <2>2, <2>3, <2>4 DEF Rename
<1>4. Types' BY <1>1, <1>3 DEF Types, Tagged, There
<1>5. Phases' /\ FirstRows' BY <1>1, <1>2 DEF Phases, FirstRows
<1>6. Seen' BY <1>1, <1>2 DEF Seen
<1>7. AllGone' BY <1>1, <1>3 DEF AllGone, Gone, HashOf
<1>. QED BY <1>4, <1>5, <1>6, <1>7

LEMMA TrashInv ==
    ASSUME IInv, NEW f \in Files, TrashAbsent(f)
    PROVE  IInv'
<1>. USE DEF IInv
<1>1. /\ pc = "absent" /\ f \in todo /\ todo' = todo \ {f}
      /\ UNCHANGED <<pc, first, real, list, stats, moves, bad, retry, root, srv, skips, touched, orphan>>
  BY DEF TrashAbsent, Turn, server
<1>2. \/ /\ disk' = [disk EXCEPT ![f] = None] /\ row' = [row EXCEPT ![f] = None] /\ gone' = gone \ {f}
      \/ UNCHANGED <<disk, row, gone>>
  BY DEF TrashAbsent, Set
<1>3. etag' \in Etags /\ saved' = [saved EXCEPT !.etag = saved'.etag] /\ saved'.etag \in Etags
  BY DEF TrashAbsent, Still, Types, Etags
<1>4. disk' \in [Files -> Content] /\ row' \in Rows /\ gone' \subseteq Files
      /\ \A g \in Files \ {f} : disk'[g] = disk[g] /\ row'[g] = row[g]
  BY <1>2 DEF Types, Rows, Content
<1>5. Types' BY <1>1, <1>3, <1>4 DEF Types, There
<1>6. Phases' /\ FirstRows' BY <1>1 DEF Phases, FirstRows
<1>7. Seen' BY <1>1, <1>4 DEF Seen, Types
<1>8. AllGone' BY <1>1, <1>2, <1>4 DEF AllGone, Gone, HashOf, Types
<1>. QED BY <1>5, <1>6, <1>7, <1>8
-----------------------------------------------------------------------------
(* The user, the other devices, and the ends of a session. *)

\* An edit of some files by the user.
LEMMA EditedInv ==
    ASSUME IInv, NEW fs, fs \subseteq Files, Edited(fs), disk' \in [Files -> Content],
           \A g \in Files \ fs : disk'[g] = disk[g],
           UNCHANGED <<server, db, saved, retry, session>>
    PROVE  IInv'
<1>. USE DEF IInv
<1>1. /\ UNCHANGED <<root, srv, row, etag, skips, saved, retry>>
      /\ UNCHANGED <<pc, first, real, list, stats, todo, moves, bad>>
  BY DEF server, db, session
<1>2. /\ gone' = gone \ fs /\ orphan' = orphan \ fs
      /\ touched' \subseteq Files
      /\ pc = "off" => touched' = {}
      /\ pc # "off" => touched' = touched \cup fs
  BY DEF Edited, Running, Types
<1>3. Types' BY <1>1, <1>2 DEF Types, There
<1>4. Phases' /\ FirstRows' BY <1>1, <1>2 DEF Phases, FirstRows, Later, InBoth, Differing, There
<1>5. Seen' BY <1>1, <1>2 DEF Seen, There, Types
<1>6. AllGone'
  <2>1. ASSUME NEW g \in gone' PROVE Gone(g)'
    <3>1. g \in Files \ fs /\ Gone(g) BY <1>2, <2>1 DEF AllGone, Types
    <3>2. g \notin touched' BY <1>2, <3>1 DEF Gone
    <3>. QED BY <1>1, <3>1, <3>2 DEF Gone, HashOf
  <2>. QED BY <2>1 DEF AllGone
<1>. QED BY <1>3, <1>4, <1>5, <1>6

LEMMA UserInv ==
    ASSUME IInv, NEW f \in Files, NEW b \in Content, NEW g \in Files,
           UserEdit(f, b) \/ UserRename(f, g)
    PROVE  IInv'
<1>1. CASE UserEdit(f, b)
  <2>1. disk' \in [Files -> Content] /\ \A h \in Files \ {f} : disk'[h] = disk[h]
    BY <1>1 DEF UserEdit, IInv, Types
  <2>. QED BY <1>1, <2>1, EditedInv DEF UserEdit
<1>2. CASE UserRename(f, g)
  <2>1. disk' \in [Files -> Content] /\ \A h \in Files \ {f, g} : disk'[h] = disk[h]
    BY <1>2 DEF UserRename, IInv, Types, Content
  <2>. QED BY <1>2, <2>1, EditedInv DEF UserRename
<1>. QED BY <1>1, <1>2

LEMMA ForeignInv ==
    ASSUME IInv, NEW f \in Files, NEW b \in Content, ForeignEdit(f, b)
    PROVE  IInv'
<1>. USE DEF IInv
<1>1. /\ UNCHANGED <<disk, row, skips, retry, touched>> /\ root' = TRUE /\ srv' = [srv EXCEPT ![f] = b] /\ Moved
      /\ UNCHANGED <<pc, first, real, list, stats, todo, moves, bad>> /\ orphan' \subseteq orphan
  BY DEF ForeignEdit, session
<1>2. Tagged BY <1>1, TagsKept
<1>3. \/ gone' = gone \ {f}
      \/ /\ gone' = gone \cup {f} /\ InSync(f) /\ b = None /\ f \notin touched
         /\ \A g \in todo : moves[g] # f
  BY DEF ForeignEdit
<1>4. Types' BY <1>1, <1>2, <1>3 DEF Types, Tagged, There
<1>5. Phases' /\ FirstRows' BY <1>1, <1>2 DEF Phases, FirstRows, Later, InBoth, Differing, There, Tagged
<1>6. Seen'
  <2>1. pc = "missing" => \A g \in todo : moves[g] # None => moves[g] \notin gone' BY <1>3 DEF Seen
  <2>. QED BY <1>1, <2>1 DEF Seen, There
<1>7. AllGone'
  <2>1. ASSUME NEW g \in gone' PROVE Gone(g)'
    <3>1. CASE g = f
      <4>1. InSync(f) /\ b = None /\ f \notin touched BY <1>3, <2>1, <3>1
      <4>2. srv'[f] = None BY <1>1, <4>1 DEF Types
      <4>. QED BY <1>1, <3>1, <4>1, <4>2 DEF InSync, Gone, HashOf
    <3>2. CASE g # f
      <4>1. g \in gone /\ g \in Files BY <1>3, <2>1, <3>2 DEF Types
      <4>2. srv'[g] = srv[g] BY <1>1, <3>2, <4>1 DEF Types
      <4>. QED BY <1>1, <4>1, <4>2 DEF AllGone, Gone, HashOf
    <3>. QED BY <3>1, <3>2
  <2>. QED BY <2>1 DEF AllGone
<1>. QED BY <1>4, <1>5, <1>6, <1>7

LEMMA ForeignRootInv ==
    ASSUME IInv, ForeignRoot
    PROVE  IInv'
<1>. USE DEF IInv
<1>1. /\ UNCHANGED <<disk, srv, row, skips, retry, touched, gone>> /\ root' = TRUE /\ Moved
      /\ UNCHANGED <<pc, first, real, list, stats, todo, moves, bad>> /\ orphan' \subseteq orphan
  BY DEF ForeignRoot, session
<1>2. Tagged BY <1>1, TagsKept
<1>3. Types' BY <1>1, <1>2 DEF Types, Tagged, There
<1>4. Phases' /\ FirstRows' /\ Seen'
  BY <1>1, <1>2 DEF Phases, FirstRows, Seen, Later, InBoth, Differing, There, Tagged
<1>5. AllGone' BY <1>1 DEF AllGone, Gone, HashOf
<1>. QED BY <1>3, <1>4, <1>5

LEMMA VanishInv ==
    ASSUME IInv, VanishRoot
    PROVE  IInv'
<1>. USE DEF IInv
<1>1. /\ UNCHANGED <<disk, row, skips, retry, touched, gone>> /\ root' = FALSE /\ srv' = Empty /\ Moved
      /\ UNCHANGED <<pc, first, real, list, stats, todo, moves, bad>> /\ orphan' \subseteq Files
  BY DEF VanishRoot, session
<1>2. Tagged BY <1>1, TagsKept
<1>3. Types' BY <1>1, <1>2, EmptyIs DEF Types, Tagged, There
<1>4. Phases' /\ FirstRows' /\ Seen'
  BY <1>1, <1>2 DEF Phases, FirstRows, Seen, Later, InBoth, Differing, There, Tagged
<1>5. AllGone' BY <1>1, EmptyIs DEF AllGone, Gone, HashOf, Types
<1>. QED BY <1>3, <1>4, <1>5

\* A session that is over, its rows and the copy that was saved of them.
LEMMA OverInv ==
    ASSUME IInv, Off, UNCHANGED <<disk, server>>, retry' \subseteq Files, orphan' \subseteq Files,
           row' \in Rows, etag' \in Etags, skips' \in 0..ForceEvery,
           saved' \in [row : Rows, etag : Etags, skips : 0..ForceEvery], saved'.row = row',
           gone' \subseteq {f \in gone : row'[f] = row[f]}
    PROVE  IInv'
<1>. USE DEF IInv
<1>1. UNCHANGED <<disk, root, srv>> BY DEF server
<1>2. Types' BY <1>1, OffIs DEF Types, Phase, There
<1>3. Phases' /\ FirstRows' /\ Seen' BY OffIs DEF Phases, FirstRows, Seen
<1>4. AllGone' BY <1>1, OffIs DEF AllGone, Gone, HashOf
<1>. QED BY <1>2, <1>3, <1>4

LEMMA CrashInv ==
    ASSUME IInv, Crash
    PROVE  IInv'
<1>. USE DEF IInv
<1>1. /\ Off /\ retry' = {} /\ row' = saved.row /\ etag' = saved.etag /\ skips' = saved.skips
      /\ gone' = {f \in gone : saved.row[f] = row[f]} /\ UNCHANGED <<disk, server, saved, orphan>>
  BY DEF Crash
<1>. QED BY <1>1, OverInv DEF Types

LEMMA ThrowInv ==
    ASSUME IInv, Throw, UNCHANGED <<disk, server, retry, gone, orphan>>
    PROVE  IInv'
<1>. USE DEF IInv
<1>1. Off /\ Persist /\ UNCHANGED <<row, etag, skips>> BY DEF Throw, End
<1>. QED BY <1>1, OverInv, PersistIs DEF Types

LEMMA FinishInv ==
    ASSUME IInv, Finish
    PROVE  IInv'
<1>. USE DEF IInv
<1>1. Off /\ Persist /\ UNCHANGED <<row, skips, disk, server, retry, gone, orphan>> BY DEF Finish
<1>2. etag' \in Etags BY DEF Finish, Types, Etags
<1>. QED BY <1>1, <1>2, OverInv, PersistIs DEF Types
-----------------------------------------------------------------------------
(* Starting, listing, re-seeding, and from one phase to the next. *)

LEMMA StartInv ==
    ASSUME IInv, StartSession
    PROVE  IInv'
<1>. USE DEF IInv
<1>1. /\ pc = "off" /\ pc' = "list" /\ first' = (Tracked = {}) /\ first' \in BOOLEAN
      /\ UNCHANGED <<disk, root, srv, row, etag, skips, saved, retry, real, list, stats, todo, moves, bad,
                     touched, gone, orphan>>
  BY DEF StartSession, Running, server, db, history
<1>2. Types' BY <1>1 DEF Types, Phase, There
<1>3. Phases' /\ Seen' BY <1>1 DEF Phases, Seen
<1>4. FirstRows' BY <1>1 DEF FirstRows, Phases, Later, Tracked, There
<1>5. AllGone' BY <1>1 DEF AllGone, Gone, HashOf
<1>. QED BY <1>2, <1>3, <1>4, <1>5

LEMMA ScanInv ==
    ASSUME IInv, NEW l \in [Files -> Content], NEW r \in BOOLEAN, Scan(l, r), pc = "list", ~first,
           etag' \in Etags, skips' \in 0..ForceEvery, saved' = saved
    PROVE  IInv'
<1>. USE DEF IInv
<1>1. /\ pc' = "files" /\ todo' = There(l) /\ list' = l /\ real' = r /\ retry' = {}
      /\ UNCHANGED <<disk, root, srv, row, first, stats, moves, bad, touched, gone, orphan>>
  BY DEF Scan, Enter, server, history
<1>2. Types' BY <1>1 DEF Types, Phase, There
<1>3. Phases' /\ Seen' /\ FirstRows' BY <1>1 DEF Phases, Seen, FirstRows, There
<1>4. AllGone' BY <1>1 DEF AllGone, Gone, HashOf
<1>. QED BY <1>2, <1>3, <1>4

LEMMA ScansInv ==
    ASSUME IInv, ScanReal \/ ScanCached \/ \E f \in Files : ScanPartly(f)
    PROVE  IInv'
<1>. USE DEF IInv
<1>0. 0 \in 0..ForceEvery BY NumbersAssumption
<1>1. CASE ScanReal BY <1>0, <1>1, ScanInv DEF ScanReal, ListReal, Types, Etags
<1>2. CASE ScanCached
  <2>1. [f \in Files |-> IdOf(f)] \in [Files -> Content] BY IdTypes
  <2>2. skips' \in 0..ForceEvery BY <1>2, NumbersAssumption DEF ScanCached, Types
  <2>. QED BY <1>2, <2>1, <2>2, ScanInv DEF ScanCached, Types
<1>3. ASSUME NEW f \in Files, ScanPartly(f) PROVE IInv'
  <2>1. [srv EXCEPT ![f] = None] \in [Files -> Content] BY DEF Types, Content
  <2>. QED BY <1>0, <1>3, <2>1, ScanInv DEF ScanPartly, ListReal, Etags
<1>. QED BY <1>1, <1>2, <1>3

\* The listing of a first sync: what is on the server, or less.
LEMMA PlanIs ==
    ASSUME Types, FirstPlan
    PROVE  \E l \in [Files -> Content] : PlanFrom(l) /\ \A f \in Files : l[f] \in {srv[f], None}
<1>1. CASE PlanFrom(srv) BY <1>1 DEF Types
<1>2. CASE PlanFrom(Empty) BY <1>2, EmptyIs
<1>3. ASSUME NEW f \in Files, PlanFrom([srv EXCEPT ![f] = None]) PROVE \E l \in [Files -> Content] : PlanFrom(l) /\ \A g \in Files : l[g] \in {srv[g], None}
  <2>1. [srv EXCEPT ![f] = None] \in [Files -> Content] BY DEF Types, Content
  <2>2. \A g \in Files : [srv EXCEPT ![f] = None][g] \in {srv[g], None} BY DEF Types
  <2>. QED BY <1>3, <2>1, <2>2
<1>. QED BY <1>1, <1>2, <1>3 DEF FirstPlan, There

LEMMA FirstPlanInv ==
    ASSUME IInv, FirstPlan
    PROVE  IInv'
<1>. USE DEF IInv
<1>1. PICK l \in [Files -> Content] : PlanFrom(l) BY PlanIs
<1>2. /\ pc = "list" /\ first /\ pc' = "up" /\ todo' = There(disk) \ There(l) /\ list' = l /\ real' = TRUE
      /\ stats' = disk
      /\ UNCHANGED <<disk, root, srv, row, etag, skips, saved, retry, first, moves, bad, touched, gone, orphan>>
  BY <1>1 DEF PlanFrom, Enter, server, db, history
<1>3. Types' BY <1>2 DEF Types, Phase, There
<1>4. Phases' /\ Seen' BY <1>2 DEF Phases, Seen
<1>5. FirstRows' BY <1>2 DEF FirstRows, Later, There
<1>6. AllGone' BY <1>2 DEF AllGone, Gone, HashOf
<1>. QED BY <1>3, <1>4, <1>5, <1>6

LEMMA RootMissingInv ==
    ASSUME IInv, RootMissing
    PROVE  IInv'
<1>. USE DEF IInv
<1>1. /\ pc = "list" /\ ~first /\ pc' = "reseed"
      /\ UNCHANGED <<disk, root, srv, row, etag, skips, saved, retry, first, real, list, stats, todo, moves, bad,
                     touched, gone, orphan>>
  BY DEF RootMissing, server, db, history
<1>2. Types' BY <1>1 DEF Types, Phase, There
<1>3. Phases' /\ Seen' /\ FirstRows' BY <1>1 DEF Phases, Seen, FirstRows
<1>4. AllGone' BY <1>1 DEF AllGone, Gone, HashOf
<1>. QED BY <1>2, <1>3, <1>4

LEMMA ReseedInv ==
    ASSUME IInv, Reseed
    PROVE  IInv'
<1>. USE DEF IInv
<1>1. /\ pc = "reseed" /\ root' = TRUE /\ row' = Empty /\ etag' = "none" /\ skips' = 0 /\ Persist
      /\ pc' = "list" /\ first' = TRUE /\ gone' = {}
      /\ UNCHANGED <<disk, srv, retry, real, list, stats, todo, moves, bad, touched, orphan>>
  BY DEF Reseed, MadeRoot
<1>2. skips' \in 0..ForceEvery BY <1>1, NumbersAssumption
<1>3. saved' \in [row : Rows, etag : Etags, skips : 0..ForceEvery]
  BY <1>1, <1>2, EmptyIs, PersistIs DEF Etags
<1>4. Types' BY <1>1, <1>2, <1>3, EmptyIs DEF Types, Phase, Etags
<1>5. Phases' /\ Seen' BY <1>1 DEF Phases, Seen
<1>6. FirstRows' BY <1>1, EmptyIs DEF FirstRows, Phases, Later
<1>7. AllGone' BY <1>1 DEF AllGone
<1>. QED BY <1>4, <1>5, <1>6, <1>7

LEMMA FirstPhaseInv ==
    ASSUME IInv, FirstNextPhase
    PROVE  IInv'
<1>. USE DEF IInv
<1>1. ASSUME NEW phase \in {"down", "same", "conflict"}, NEW from \in {"up", "down", "same"}, NEW fs,
             FirstPhase(phase, from, fs), fs \subseteq There(list),
             fs \cup Later' \subseteq Later, fs \cap Later' = {}
      PROVE  IInv'
  <2>1. /\ first /\ pc' = phase /\ todo' = fs
        /\ UNCHANGED <<disk, root, srv, row, etag, skips, saved, retry, first, real, list, stats, moves, bad,
                       touched, gone, orphan>>
    BY <1>1 DEF FirstPhase, Then, Enter, server, db, history
  <2>2. Types' BY <1>1, <2>1 DEF Types, Phase, There
  <2>3. Phases' /\ Seen' BY <1>1, <2>1 DEF Phases, Seen, There
  <2>4. FirstRows' BY <1>1, <2>1 DEF FirstRows
  <2>5. AllGone' BY <2>1 DEF AllGone, Gone, HashOf
  <2>. QED BY <2>2, <2>3, <2>4, <2>5
<1>2. CASE FirstPhase("down", "up", There(list) \ There(stats))
  <2>1. pc = "up" /\ pc' = "down" /\ list' = list /\ stats' = stats BY <1>2 DEF FirstPhase, Then, Enter
  <2>2. Later = There(list) /\ Later' = InBoth BY <2>1 DEF Later, InBoth, There
  <2>. QED BY <1>1, <1>2, <2>2 DEF InBoth
<1>3. CASE FirstPhase("same", "down", {f \in There(list) : stats[f] = list[f]})
  <2>1. pc = "down" /\ pc' = "same" /\ list' = list /\ stats' = stats BY <1>3 DEF FirstPhase, Then, Enter
  <2>2. Later = InBoth /\ Later' = Differing BY <2>1 DEF Later, InBoth, Differing, There
  <2>3. {f \in There(list) : stats[f] = list[f]} \subseteq InBoth BY DEF InBoth, There
  <2>4. {f \in There(list) : stats[f] = list[f]} \cap Differing = {} BY DEF Differing
  <2>5. Differing \subseteq InBoth /\ InBoth \subseteq There(list) BY DEF Differing, InBoth
  <2>. QED BY <1>1, <1>3, <2>2, <2>3, <2>4, <2>5
<1>4. CASE FirstPhase("conflict", "same", {f \in There(list) \cap There(stats) : stats[f] # list[f]})
  <2>1. pc = "same" /\ pc' = "conflict" BY <1>4 DEF FirstPhase, Then, Enter
  <2>2. Later = Differing /\ Later' = {} BY <2>1 DEF Later
  <2>3. Differing = {f \in There(list) \cap There(stats) : stats[f] # list[f]} BY DEF Differing, InBoth
  <2>4. Differing \subseteq There(list) BY DEF Differing, InBoth
  <2>. QED BY <1>1, <1>4, <2>2, <2>3, <2>4
<1>. QED BY <1>2, <1>3, <1>4 DEF FirstNextPhase

LEMMA CollectInv ==
    ASSUME IInv, CollectLocal
    PROVE  IInv'
<1>. USE DEF IInv
<1>1. /\ ~first /\ stats' = disk /\ pc' = "up" /\ todo' \subseteq Files
      /\ UNCHANGED <<disk, root, srv, row, etag, skips, saved, retry, first, real, list, moves, bad,
                     touched, gone, orphan>>
  BY DEF CollectLocal, Then, Enter, server, db, history, There
<1>2. Types' BY <1>1 DEF Types, Phase, There
<1>3. Phases' /\ FirstRows' /\ Seen' BY <1>1 DEF Phases, FirstRows, Seen
<1>4. AllGone' BY <1>1 DEF AllGone, Gone, HashOf
<1>. QED BY <1>2, <1>3, <1>4

\* A rename's target has no row, so it is no file that was deleted elsewhere.
LEMMA DetectInv ==
    ASSUME IInv, DetectRenames
    PROVE  IInv'
<1>. USE DEF IInv
<1>1. /\ ~first /\ pc = "up" /\ pc' = "missing" /\ todo' = Missing
      /\ UNCHANGED <<disk, root, srv, row, etag, skips, saved, retry, first, real, list, stats, bad,
                     touched, gone, orphan>>
  BY DEF DetectRenames, Enter, server, db, history
<1>. DEFINE new == There(stats) \ Tracked
<1>2. PICK m \in [Missing -> new \cup {None}] :
          moves' = [f \in Files |-> IF f \in Missing THEN m[f] ELSE None]
  BY DEF DetectRenames
<1>3. new \subseteq Files /\ Missing \subseteq Files /\ \A g \in new : row[g] = None
  BY DEF There, Missing, Tracked
<1>4. moves' \in [Files -> Files \cup {None}] /\ \A f \in Files : moves'[f] # None => moves'[f] \in new
  BY <1>2, <1>3
<1>5. Types' BY <1>1, <1>3, <1>4 DEF Types, Phase, There
<1>6. Phases' /\ FirstRows' BY <1>1 DEF Phases, FirstRows
<1>7. Seen'
  <2>1. \A f \in Missing \ touched : disk[f] = None BY <1>1, <1>3 DEF Seen, Missing
  <2>2. \A g \in new : g \notin gone BY <1>3 DEF AllGone, Gone
  <2>3. \A f \in Missing : moves'[f] # None => moves'[f] \notin gone BY <1>3, <1>4, <2>2
  <2>. QED BY <1>1, <2>1, <2>3 DEF Seen
<1>8. AllGone' BY <1>1 DEF AllGone, Gone, HashOf
<1>. QED BY <1>5, <1>6, <1>7, <1>8

LEMMA JudgeInv ==
    ASSUME IInv, JudgeAbsent
    PROVE  IInv'
<1>. USE DEF IInv
<1>1. /\ pc = "missing" /\ pc' = "absent" /\ (todo' = {} \/ todo' = Candidates)
      /\ UNCHANGED <<disk, root, srv, row, etag, skips, saved, retry, first, real, list, stats, moves,
                     touched, gone, orphan>>
  BY DEF JudgeAbsent, Enter, server, db, history
<1>2. bad' \in BOOLEAN BY DEF JudgeAbsent, Types
<1>3. Candidates \subseteq Files /\ \A f \in Candidates : row[f] # None BY DEF Candidates, Tracked, There
<1>4. Types' BY <1>1, <1>2, <1>3 DEF Types, Phase, There
<1>5. Phases' /\ FirstRows' /\ Seen' BY <1>1, <1>3 DEF Phases, FirstRows, Seen
<1>6. AllGone' BY <1>1 DEF AllGone, Gone, HashOf
<1>. QED BY <1>4, <1>5, <1>6

LEMMA ThrowsInv ==
    ASSUME IInv, ListFails \/ ReseedRefused \/ ReadThrows
    PROVE  IInv'
BY ThrowInv DEF ListFails, ReseedRefused, ReadThrows

LEMMA NextInv ==
    ASSUME IInv, [Next]_vars
    PROVE  IInv'
<1>1. CASE UNCHANGED vars
  BY <1>1 DEF vars, IInv, Types, Phases, FirstRows, Seen, AllGone, Gone, HashOf, Later, InBoth, Differing, There
<1>2. CASE EnvNext
  <2>1. CASE \E f \in Files : \E b \in Content : UserEdit(f, b) \/ ForeignEdit(f, b)
    BY <2>1, UserInv, ForeignInv
  <2>2. CASE \E f, g \in Files : UserRename(f, g)
    <3>1. None \in Content BY DEF Content
    <3>. QED BY <2>2, <3>1, UserInv
  <2>. QED BY <1>2, <2>1, <2>2, ForeignRootInv, VanishInv, CrashInv DEF EnvNext
<1>3. ASSUME NEW f \in Files, FileNext(f) PROVE IInv'
  <2>1. CASE ProcessRemote(f)
    <3>1. Turned(f) /\ pc = "files" BY <2>1, RemoteTurned DEF ProcessRemote, Turn
    <3>. QED BY <3>1, TurnedInv
  <2>2. CASE FirstUpload(f) BY <2>2, FirstTurned, UpKeepsDisk, TurnedInv
  <2>3. CASE FirstDownload(f) \/ FirstUnchanged(f) \/ FirstConflict(f)
    <3>1. Turned(f) /\ pc # "up" BY <2>3, FirstTurned DEF FirstDownload, FirstUnchanged, FirstConflict, Turn
    <3>. QED BY <3>1, TurnedInv
  <2>4. CASE UploadModified(f) BY <2>4, ModifiedTurned, UpKeepsDisk, TurnedInv
  <2>5. CASE DeleteMissing(f)
    <3>1. Turned(f) /\ pc = "missing" BY <2>5, MissingTurned DEF DeleteMissing, Turn
    <3>. QED BY <3>1, TurnedInv
  <2>. QED BY <1>3, <2>1, <2>2, <2>3, <2>4, <2>5, RenameInv, TrashInv DEF FileNext
<1>4. CASE SessionNext
  BY <1>3, <1>4, StartInv, ScansInv, FirstPlanInv, RootMissingInv, ReseedInv, FirstPhaseInv, CollectInv,
     DetectInv, JudgeInv, ThrowsInv, FinishInv DEF SessionNext
<1>. QED BY <1>1, <1>2, <1>4 DEF Next

LEMMA InvariantHolds == Spec => []IInv
BY InitInv, NextInv, PTL DEF Spec

\* Whatever the sessions of this device do, and whatever fails, a file that another
\* device deleted while it was in sync here does not come back by them, for any files,
\* decisions and environment: no stale listing, local stat, rename or first sync
\* uploads it, and the short circuit never overdraws its budget.
THEOREM SessionsSafe == Spec => []Safety
<1>1. IInv => Safety
  <2>1. IInv => TypeOK
    BY DEF IInv, Types, TypeOK, Rows, Etags, Phase
  <2>2. IInv => DeletedStaysDeleted BY DEF IInv, AllGone, Gone, DeletedStaysDeleted
  <2>. QED BY <2>1, <2>2 DEF Safety
<1>. QED BY <1>1, InvariantHolds, PTL
-----------------------------------------------------------------------------
(* The vault folder vanishes, between two sessions. *)

Midway == "midway" \in Env
AtStart == pc \in {"off", "list", "reseed"}

\* No root ETag is current then, so a session finds out, or it is a first sync: and
\* until a PUT has made the folder again that one has recorded nothing.
RootGone ==
    ~root =>
        /\ etag # "same" /\ saved.etag # "same"
        /\ ~AtStart => first /\ list = Empty
        /\ first => row = Empty /\ saved.row = Empty

\* A file that went with the folder is here; as long as it is not on the server again,
\* nothing says that it ever was.
Orphan(f) ==
    /\ f \notin touched /\ disk[f] # None
    /\ srv[f] = None /\ root => row[f] = None /\ saved.row[f] = None
    /\ srv[f] = None /\ ~AtStart => list[f] = None
AllOrphans == \A f \in orphan : Orphan(f)
RInv == RootGone /\ AllOrphans

LEMMA EmptyRow == ASSUME NEW f \in Files, row = Empty PROVE row[f] = None /\ IdOf(f) = None
BY DEF Empty, IdOf

LEMMA TurnedOrphans ==
    ASSUME IInv, RInv, NEW f \in Files, Turned(f), pc = "up" => disk' = disk
    PROVE  RInv'
<1>. USE DEF IInv, RInv
<1>1. /\ f \in todo /\ ~AtStart /\ AtStart' = AtStart
      /\ UNCHANGED <<pc, first, real, list, stats, moves, touched, gone, orphan, skips>>
      /\ Effect(f) /\ Tagged
  BY DEF Turned, Worked, AtStart
<1>2. /\ \A g \in Files \ {f} : disk'[g] = disk[g] /\ srv'[g] = srv[g] /\ row'[g] = row[g]
      /\ root => root'
  BY <1>1, EffectIs
<1>3. saved'.row = saved.row /\ (etag # "same" => etag' # "same") /\ (saved.etag # "same" => saved'.etag # "same")
  BY <1>1 DEF Tagged
<1>4. ASSUME ~root' PROVE row' = row
  <2>1. ~root /\ first /\ list = Empty /\ row = Empty BY <1>1, <1>2, <1>4 DEF RootGone
  <2>2. srv[f] = None BY <2>1 DEF Types, There
  <2>3. list[f] = None /\ row[f] = None BY <2>1, EmptyIs
  <2>4. CASE Dropped(f) BY <2>1, <2>3, <2>4 DEF Dropped, Types, Rows, Empty
  <2>. QED BY <1>1, <1>4, <2>2, <2>3, <2>4 DEF Effect, Nothing, Sent, Fetched, Marked
<1>5. RootGone' BY <1>1, <1>2, <1>3, <1>4 DEF RootGone
<1>6. ASSUME NEW g \in orphan PROVE Orphan(g)'
  <2>1. g \in Files /\ Orphan(g) BY <1>6 DEF AllOrphans, Types
  <2>2. srv[g] = None => row[g] = None /\ saved.row[g] = None
    <3>1. CASE root BY <2>1, <3>1 DEF Orphan
    <3>2. CASE ~root BY <1>1, <2>1, <3>2, EmptyIs DEF RootGone
    <3>. QED BY <3>1, <3>2
  <2>3. CASE g # f
    BY <1>1, <1>2, <1>3, <2>1, <2>2, <2>3 DEF Orphan
  <2>4. CASE g = f
    <3>1. f \notin touched /\ disk[f] # None /\ (srv[f] = None => list[f] = None)
      BY <1>1, <2>1, <2>4 DEF Orphan
    <3>2. CASE Nothing BY <1>1, <1>3, <2>1, <2>2, <3>2 DEF Nothing, Orphan
    <3>3. CASE Sent(f) BY <1>1, <2>4, <3>1, <3>3 DEF Sent, Orphan, Types
    <3>4. CASE Fetched(f) BY <1>1, <2>4, <3>1, <3>4 DEF Fetched, Orphan, Types
    <3>5. CASE Marked(f) BY <1>1, <2>4, <3>1, <3>5 DEF Marked, Orphan, Types
    <3>6. CASE Dropped(f) BY <3>1, <3>6 DEF Dropped
    <3>. QED BY <1>1, <3>2, <3>3, <3>4, <3>5, <3>6 DEF Effect
  <2>. QED BY <2>3, <2>4
<1>7. AllOrphans' BY <1>1, <1>6 DEF AllOrphans
<1>. QED BY <1>5, <1>7

LEMMA RenameOrphans ==
    ASSUME IInv, RInv, NEW f \in Files, Rename(f)
    PROVE  RInv'
<1>. USE DEF IInv, RInv
<1>1. /\ pc = "missing" /\ f \in todo /\ moves[f] \in Files /\ ~first
      /\ UNCHANGED <<pc, first, list, disk, touched, orphan>>
  BY DEF Rename, Turn, history, Phases, Types
<1>2. ~AtStart /\ root BY <1>1 DEF AtStart, RootGone
<1>3. f \notin orphan BY <1>1 DEF Seen, AllOrphans, Orphan
<1>4. root' /\ Tagged /\ \A g \in orphan : srv'[g] = None => row'[g] = row[g] /\ srv[g] = None
  <2>1. CASE /\ srv[f] # None
             /\ srv' = [srv EXCEPT ![f] = None, ![moves[f]] = srv[f]] /\ Moved
             /\ row' = [row EXCEPT ![f] = None, ![moves[f]] = row[f]]
             /\ UNCHANGED <<root, bad, budgets>>
    <3>1. \A g \in orphan : srv'[g] = None => row'[g] = row[g] /\ srv[g] = None
      BY <1>1, <1>3, <2>1 DEF Types, Rows
    <3>. QED BY <1>2, <2>1, <3>1, TagsKept
  <2>2. CASE UNCHANGED <<server, row>> /\ Still BY <1>2, <2>2, TagsKept DEF server
  <2>3. CASE root' = TRUE /\ UNCHANGED <<srv, row>> /\ (IF root THEN Still ELSE Moved)
    BY <2>3, TagsKept
  <2>. QED BY <2>1, <2>2, <2>3 DEF Rename
<1>5. AllOrphans' BY <1>1, <1>2, <1>4 DEF AllOrphans, Orphan, Tagged, AtStart
<1>. QED BY <1>4, <1>5 DEF RootGone

\* The only step that takes a local file asks the server about one that has a row.
LEMMA TrashOrphans ==
    ASSUME IInv, RInv, NEW f \in Files, TrashAbsent(f)
    PROVE  RInv'
<1>. USE DEF IInv, RInv
<1>1. /\ pc = "absent" /\ f \in todo /\ ~first
      /\ UNCHANGED <<pc, first, list, srv, root, touched, orphan>>
  BY DEF TrashAbsent, Turn, server, Phases
<1>2. ~AtStart /\ root BY <1>1 DEF AtStart, RootGone
<1>3. saved'.row = saved.row BY DEF TrashAbsent, Still, Types
<1>4. f \in orphan => srv[f] # None BY <1>1, <1>2 DEF Seen, AllOrphans, Orphan
<1>5. \A g \in orphan : disk'[g] = disk[g] /\ row'[g] = row[g]
  <2>1. CASE srv[f] = None /\ disk' = [disk EXCEPT ![f] = None] /\ Set(f, None)
    BY <1>4, <2>1 DEF Set, Types, Rows
  <2>2. CASE UNCHANGED <<disk, row>> BY <2>2
  <2>. QED BY <2>1, <2>2 DEF TrashAbsent
<1>6. AllOrphans' BY <1>1, <1>3, <1>5 DEF AllOrphans, Orphan, AtStart
<1>. QED BY <1>1, <1>2, <1>6 DEF RootGone

LEMMA EditedOrphans ==
    ASSUME IInv, RInv, NEW fs, fs \subseteq Files, Edited(fs), disk' \in [Files -> Content],
           \A g \in Files \ fs : disk'[g] = disk[g],
           UNCHANGED <<server, db, saved, retry, session>>
    PROVE  RInv'
<1>. USE DEF IInv, RInv
<1>1. UNCHANGED <<root, srv, row, etag, saved, pc, first, list>> BY DEF server, db, session
<1>2. orphan' = orphan \ fs /\ touched' \subseteq touched \cup fs BY DEF Edited
<1>3. \A g \in orphan' : g \in Files \ fs /\ Orphan(g) BY <1>2 DEF AllOrphans, Types
<1>4. AllOrphans' BY <1>1, <1>2, <1>3 DEF AllOrphans, Orphan, AtStart
<1>. QED BY <1>1, <1>4 DEF RootGone, AtStart

LEMMA UserOrphans ==
    ASSUME IInv, RInv, NEW f \in Files, NEW b \in Content, NEW g \in Files,
           UserEdit(f, b) \/ UserRename(f, g)
    PROVE  RInv'
<1>1. CASE UserEdit(f, b)
  <2>1. disk' \in [Files -> Content] /\ \A h \in Files \ {f} : disk'[h] = disk[h]
    BY <1>1 DEF UserEdit, IInv, Types
  <2>. QED BY <1>1, <2>1, EditedOrphans DEF UserEdit
<1>2. CASE UserRename(f, g)
  <2>1. disk' \in [Files -> Content] /\ \A h \in Files \ {f, g} : disk'[h] = disk[h]
    BY <1>2 DEF UserRename, IInv, Types, Content
  <2>. QED BY <1>2, <2>1, EditedOrphans DEF UserRename
<1>. QED BY <1>1, <1>2

\* When another device makes the folder again, only what is still tracked here is lost.
LEMMA LostIs ==
    ASSUME IInv, RInv, NEW g \in orphan, g \notin Lost
    PROVE  /\ g \in Files /\ g \notin touched /\ disk[g] # None
           /\ srv[g] = None => row[g] = None /\ saved.row[g] = None
           /\ srv[g] = None /\ ~AtStart => list[g] = None
BY DEF IInv, Types, RInv, AllOrphans, Orphan, Lost, Tracked, There

LEMMA ForeignOrphans ==
    ASSUME IInv, RInv, NEW f \in Files, NEW b \in Content, ForeignEdit(f, b)
    PROVE  RInv'
<1>. USE DEF IInv
<1>1. /\ UNCHANGED <<disk, row, touched, pc, first, list>> /\ root' = TRUE /\ srv' = [srv EXCEPT ![f] = b] /\ Moved
      /\ orphan' = orphan \ (Lost \cup {f})
  BY DEF ForeignEdit, session
<1>2. saved'.row = saved.row BY <1>1, TagsKept DEF Tagged
<1>3. ASSUME NEW g \in orphan' PROVE Orphan(g)'
  <2>1. g \in orphan /\ g \notin Lost /\ g # f BY <1>1, <1>3
  <2>2. srv'[g] = srv[g] BY <1>1, <2>1 DEF Types
  <2>. QED BY <1>1, <1>2, <2>1, <2>2, LostIs DEF Orphan, AtStart
<1>. QED BY <1>1, <1>3 DEF RInv, RootGone, AllOrphans

LEMMA ForeignRootOrphans ==
    ASSUME IInv, RInv, ForeignRoot
    PROVE  RInv'
<1>. USE DEF IInv
<1>1. /\ UNCHANGED <<disk, srv, row, touched, pc, first, list>> /\ root' = TRUE /\ Moved
      /\ orphan' = orphan \ Lost
  BY DEF ForeignRoot, session
<1>2. saved'.row = saved.row BY <1>1, TagsKept DEF Tagged
<1>3. ASSUME NEW g \in orphan' PROVE Orphan(g)' BY <1>1, <1>2, <1>3, LostIs DEF Orphan, AtStart
<1>. QED BY <1>1, <1>3 DEF RInv, RootGone, AllOrphans

LEMMA VanishOrphans ==
    ASSUME ~Midway, IInv, RInv, VanishRoot
    PROVE  RInv'
<1>. USE DEF IInv, RInv
<1>1. pc = "off" BY DEF VanishRoot, Fault, Midway, Running
<1>2. /\ UNCHANGED <<disk, row, touched, pc, first>> /\ root' = FALSE /\ Moved
      /\ orphan' = {f \in Files : srv[f] # None /\ disk[f] = srv[f]} /\ ~first /\ touched = {}
  BY <1>1 DEF VanishRoot, session, Phases
<1>3. etag' # "same" /\ saved'.etag # "same" BY <1>2, OlderIs DEF Moved, Types
<1>. QED BY <1>1, <1>2, <1>3 DEF RootGone, AllOrphans, Orphan, AtStart

LEMMA OverOrphans ==
    ASSUME IInv, RInv, Off, UNCHANGED <<disk, server, orphan>>,
           \/ row' = saved.row /\ etag' = saved.etag /\ saved' = saved
           \/ row' = row /\ (etag' = etag \/ etag' = "none") /\ saved'.row = row' /\ saved'.etag = etag'
    PROVE  RInv'
<1>. USE DEF IInv, RInv
<1>1. pc' = "off" /\ first' = FALSE /\ touched' = {} /\ AtStart' BY DEF Off, AtStart
<1>2. UNCHANGED <<root, srv>> BY DEF server
<1>3. RootGone' BY <1>1, <1>2 DEF RootGone
<1>4. AllOrphans' BY <1>1, <1>2 DEF AllOrphans, Orphan
<1>. QED BY <1>3, <1>4

LEMMA EndsOrphans ==
    ASSUME IInv, RInv, Crash \/ ListFails \/ ReseedRefused \/ ReadThrows \/ Finish
    PROVE  RInv'
<1>1. CASE Crash BY <1>1, OverOrphans DEF Crash
<1>2. CASE ListFails \/ ReseedRefused \/ ReadThrows
  <2>1. Throw /\ UNCHANGED <<disk, server, orphan>> BY <1>2 DEF ListFails, ReseedRefused, ReadThrows
  <2>. QED BY <2>1, OverOrphans DEF Throw, End, Persist
<1>3. CASE Finish BY <1>3, OverOrphans DEF Finish, Persist
<1>. QED BY <1>1, <1>2, <1>3

LEMMA StartOrphans ==
    ASSUME IInv, RInv, StartSession
    PROVE  RInv'
<1>. USE DEF IInv, RInv
<1>1. /\ pc = "off" /\ pc' = "list" /\ first' = (Tracked = {}) /\ AtStart /\ AtStart'
      /\ UNCHANGED <<disk, root, srv, row, etag, saved, list, touched, orphan>>
  BY DEF StartSession, Running, server, db, history, AtStart
<1>2. Tracked = {} => row = Empty BY DEF Tracked, There, Empty, Types, Rows
<1>3. saved.row = row BY <1>1 DEF Phases
<1>. QED BY <1>1, <1>2, <1>3 DEF RootGone, AllOrphans, Orphan

LEMMA ScanOrphans ==
    ASSUME IInv, RInv, NEW l, NEW r, Scan(l, r), root, saved' = saved,
           \A f \in orphan : srv[f] = None => l[f] = None
    PROVE  RInv'
<1>1. UNCHANGED <<disk, root, srv, row, touched, orphan>> /\ list' = l BY DEF Scan, server, history
<1>. QED BY <1>1 DEF RInv, RootGone, AllOrphans, Orphan

LEMMA ScansOrphans ==
    ASSUME IInv, RInv, ScanReal \/ ScanCached \/ \E f \in Files : ScanPartly(f)
    PROVE  RInv'
<1>1. CASE ScanReal BY <1>1, ScanOrphans DEF ScanReal, ListReal
<1>2. CASE ScanCached
  <2>1. root BY <1>2 DEF ScanCached, RInv, RootGone
  <2>2. \A f \in orphan : srv[f] = None => [g \in Files |-> IdOf(g)][f] = None
    BY <2>1 DEF IInv, Types, RInv, AllOrphans, Orphan, IdOf
  <2>. QED BY <1>2, <2>1, <2>2, ScanOrphans DEF ScanCached
<1>3. ASSUME NEW f \in Files, ScanPartly(f) PROVE RInv'
  <2>1. \A g \in orphan : srv[g] = None => [srv EXCEPT ![f] = None][g] = None BY DEF IInv, Types
  <2>. QED BY <1>3, <2>1, ScanOrphans DEF ScanPartly, ListReal
<1>. QED BY <1>1, <1>2, <1>3

LEMMA PlanOrphans ==
    ASSUME IInv, RInv, FirstPlan
    PROVE  RInv'
<1>. USE DEF IInv, RInv
<1>1. PICK l \in [Files -> Content] : PlanFrom(l) /\ \A f \in Files : l[f] \in {srv[f], None} BY PlanIs
<1>2. /\ first /\ first' = first /\ list' = l
      /\ UNCHANGED <<disk, root, srv, row, etag, saved, touched, orphan>>
  BY <1>1 DEF PlanFrom, server, db, history
<1>3. ~root => list' = Empty
  <2>1. ~root => \A f \in Files : l[f] = None BY <1>1 DEF Types, There
  <2>. QED BY <1>2, <2>1 DEF Empty
<1>4. \A f \in orphan : srv[f] = None => list'[f] = None BY <1>1, <1>2 DEF Types
<1>. QED BY <1>1, <1>2, <1>3, <1>4 DEF RootGone, AllOrphans, Orphan

LEMMA ReseedOrphans ==
    ASSUME IInv, RInv, Reseed
    PROVE  RInv'
<1>. USE DEF IInv, RInv
<1>1. /\ root' = TRUE /\ row' = Empty /\ saved'.row = Empty /\ pc' = "list"
      /\ UNCHANGED <<disk, srv, touched, orphan>>
  BY DEF Reseed, MadeRoot, Persist
<1>2. AtStart' BY <1>1 DEF AtStart
<1>3. \A f \in Files : Empty[f] = None BY EmptyIs
<1>. QED BY <1>1, <1>2, <1>3 DEF RootGone, AllOrphans, Orphan, Types

\* From one phase to the next, or to the request that makes the folder again.
LEMMA PhaseOrphans ==
    ASSUME IInv, RInv, RootMissing \/ FirstNextPhase \/ CollectLocal \/ DetectRenames \/ JudgeAbsent
    PROVE  RInv'
<1>1. UNCHANGED <<disk, root, srv, row, etag, saved, first, list, touched, orphan>>
  BY DEF RootMissing, FirstNextPhase, FirstPhase, CollectLocal, Then, DetectRenames, JudgeAbsent,
         server, db, history
<1>2. AtStart' = AtStart
  BY DEF RootMissing, FirstNextPhase, FirstPhase, CollectLocal, Then, Enter, DetectRenames, JudgeAbsent, AtStart
<1>. QED BY <1>1, <1>2 DEF RInv, RootGone, AllOrphans, Orphan

LEMMA NextOrphans ==
    ASSUME ~Midway, IInv, RInv, [Next]_vars
    PROVE  RInv'
<1>1. CASE UNCHANGED vars BY <1>1 DEF vars, RInv, RootGone, AllOrphans, Orphan, AtStart
<1>2. CASE EnvNext
  <2>1. CASE \E f \in Files : \E b \in Content : UserEdit(f, b) \/ ForeignEdit(f, b)
    BY <2>1, UserOrphans, ForeignOrphans
  <2>2. CASE \E f, g \in Files : UserRename(f, g)
    <3>1. None \in Content BY DEF Content
    <3>. QED BY <2>2, <3>1, UserOrphans
  <2>. QED BY <1>2, <2>1, <2>2, ForeignRootOrphans, VanishOrphans, EndsOrphans DEF EnvNext
<1>3. ASSUME NEW f \in Files, FileNext(f) PROVE RInv'
  <2>1. CASE ProcessRemote(f)
    <3>1. Turned(f) /\ pc = "files" BY <2>1, RemoteTurned DEF ProcessRemote, Turn
    <3>. QED BY <3>1, TurnedOrphans
  <2>2. CASE FirstUpload(f) BY <2>2, FirstTurned, UpKeepsDisk, TurnedOrphans
  <2>3. CASE FirstDownload(f) \/ FirstUnchanged(f) \/ FirstConflict(f)
    <3>1. Turned(f) /\ pc # "up" BY <2>3, FirstTurned DEF FirstDownload, FirstUnchanged, FirstConflict, Turn
    <3>. QED BY <3>1, TurnedOrphans
  <2>4. CASE UploadModified(f) BY <2>4, ModifiedTurned, UpKeepsDisk, TurnedOrphans
  <2>5. CASE DeleteMissing(f)
    <3>1. Turned(f) /\ pc = "missing" BY <2>5, MissingTurned DEF DeleteMissing, Turn
    <3>. QED BY <3>1, TurnedOrphans
  <2>. QED BY <1>3, <2>1, <2>2, <2>3, <2>4, <2>5, RenameOrphans, TrashOrphans DEF FileNext
<1>4. CASE SessionNext
  BY <1>3, <1>4, StartOrphans, ScansOrphans, PlanOrphans, ReseedOrphans, PhaseOrphans, EndsOrphans
     DEF SessionNext
<1>. QED BY <1>1, <1>2, <1>4 DEF Next

\* When the vault folder vanishes while no session runs, no session takes a local file
\* that was in sync with it, whatever fails afterwards, for any limit of the breaker and
\* any files, as long as no other device makes the folder again before this one has given
\* up its tracking of the file.  What the others do besides, to it and to the other files,
\* makes no difference.
THEOREM RootLossHarmless == ASSUME ~Midway PROVE Spec => []RootLossKeepsFiles
<1>1. Init => RInv
  <2>. SUFFICES ASSUME Init PROVE RInv OBVIOUS
  <2>1. root = TRUE /\ orphan = {} BY DEF Init
  <2>. QED BY <2>1 DEF RInv, RootGone, AllOrphans
<1>2. IInv /\ RInv /\ [Next]_vars => RInv' BY NextOrphans
<1>3. RInv => RootLossKeepsFiles BY DEF RInv, AllOrphans, Orphan, RootLossKeepsFiles
<1>. QED BY <1>1, <1>2, <1>3, InvariantHolds, PTL DEF Spec
=============================================================================
