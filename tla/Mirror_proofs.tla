---------------------------- MODULE Mirror_proofs ----------------------------
(***************************************************************************)
(* Mirror from remote: what the rows say when an apply is over is so, for  *)
(* any files, one folder, and whatever users, devices and failures do in   *)
(* between, sessions that overlap the apply included; and the sessions     *)
(* that follow send nothing of the old vault back, if none overlapped it.  *)
(***************************************************************************)
EXTENDS Mirror, TLAPS

GoodRow == {r \in Row : r.sig = r.hash}
Rows == [Files -> GoodRow \cup {None}]
Etags == {"none", "same", "stale"}
Plans == [list : [Files -> Content], stats : [Files -> Content], rdir : BOOLEAN, ldir : BOOLEAN,
          downs : SUBSET Files]

\* A file that is not to be fetched was in the vault as it was listed.
PlanOK ==
    /\ plan.downs \subseteq There(plan.list)
    /\ \A f \in Files : plan.list[f] # None /\ f \notin plan.downs => plan.stats[f] = plan.list[f]
    /\ Holds(plan.list) => plan.rdir

\* The types, with what every row says: the signature is that of the body it names.
Types ==
    /\ disk \in [Files -> Content] /\ srv \in [Files -> Content] /\ row \in Rows
    /\ dir \in BOOLEAN /\ rdir \in BOOLEAN /\ drow \in BOOLEAN /\ pulled \in BOOLEAN
    /\ Holds(disk) => dir
    /\ Holds(srv) => rdir
    /\ etag \in Etags /\ saved \in [row : Rows, drow : BOOLEAN, etag : Etags]
    /\ plan \in Plans /\ PlanOK /\ todo \subseteq Files
    /\ failed \subseteq Item /\ touched \subseteq Item /\ moved \subseteq Item
    /\ pc \in {"off", "ready", "down", "trash", "create", "track"}
    /\ pc = "down" => todo \subseteq plan.downs

LEMMA SameIsRow == \A b \in Body : Same(b) \in GoodRow /\ Same(b) # None /\ HashOf(Same(b)) = b /\ IdOf(Same(b)) = b
  BY NoneAssumption DEF Same, GoodRow, Row, HashOf, IdOf

LEMMA RowFacts ==
    /\ None \notin Body /\ None \notin GoodRow
    /\ \A r \in GoodRow : r.hash \in Body /\ r.rid \in Body /\ r.sig = r.hash /\ HashOf(r) = r.hash /\ IdOf(r) = r.rid
    /\ HashOf(None) = None /\ IdOf(None) = None
    /\ \A b \in Body : \A i \in Body : [hash |-> b, rid |-> i, sig |-> b] \in GoodRow
  BY NoneAssumption DEF GoodRow, Row, HashOf, IdOf

LEMMA InitTypes == Init => Types
<1> SUFFICES ASSUME Init PROVE Types
  OBVIOUS
<1>1. SomeBody \in Body
  BY SetsAssumption DEF SomeBody
<1>2. disk \in [Files -> Content] /\ srv \in [Files -> Content]
  BY <1>1 DEF Init, Content
<1>3. row \in Rows
  BY <1>1, SameIsRow DEF Init, Rows
<1>4. plan \in Plans /\ PlanOK
  BY SetsAssumption DEF Init, NoPlan, Plans, Empty, Content, PlanOK, There, Holds
<1>5. saved \in [row : Rows, drow : BOOLEAN, etag : Etags]
  BY <1>3 DEF Init, Etags
<1> QED
  BY <1>2, <1>3, <1>4, <1>5 DEF Init, Types, Etags

\* With no plan.
LEMMA OffTypes ==
  ASSUME Off
  PROVE  plan' \in Plans /\ PlanOK' /\ todo' = {} /\ failed' = {} /\ pc' = "off"
BY DEF Off, NoPlan, Plans, Empty, Content, PlanOK, There, Holds
-----------------------------------------------------------------------------
(* The user, the other devices, the end of the app. *)

LEMMA EnvTypes ==
  ASSUME Types, EnvNext
  PROVE  Types'
<1> USE DEF Types
<1>1. ASSUME NEW f \in Files, NEW b \in Content, UserEdit(f, b) PROVE Types'
  <2>1. disk' \in [Files -> Content] /\ (Holds(disk') => dir') /\ dir' \in BOOLEAN
    BY <1>1 DEF UserEdit, Holds, There
  <2>2. touched' \subseteq Item /\ UNCHANGED <<server, db, saved, mirror, moved, pulled>>
    BY <1>1, SetsAssumption DEF UserEdit, UserActs, With, Item
  <2> QED
    BY <2>1, <2>2 DEF server, db, mirror, PlanOK, Holds, There
<1>2. CASE UserFolder
  <2>1. disk' \in [Files -> Content] /\ ~Holds(disk') /\ dir' \in BOOLEAN
    BY <1>2 DEF UserFolder, Holds, There, Content
  <2>2. touched' \subseteq Item /\ UNCHANGED <<server, db, saved, mirror, moved, pulled>>
    BY <1>2, SetsAssumption DEF UserFolder, UserActs, Item
  <2> QED
    BY <2>1, <2>2 DEF server, db, mirror, PlanOK, Holds, There
<1>3. ASSUME NEW t, t \subseteq Item, OthersAct(t)
      PROVE  /\ moved' \subseteq Item /\ etag' \in Etags /\ saved' \in [row : Rows, drow : BOOLEAN, etag : Etags]
             /\ UNCHANGED <<disk, dir, row, drow, pc, plan, todo, failed, touched, pulled>>
  BY <1>3 DEF OthersAct, Older, Etags, vault, mirror
<1>4. ASSUME NEW f \in Files, NEW b \in Content, ForeignEdit(f, b) PROVE Types'
  <2>1. srv' \in [Files -> Content] /\ (Holds(srv') => rdir') /\ rdir' \in BOOLEAN
    BY <1>4 DEF ForeignEdit, Holds, There
  <2>2. With({f}) \subseteq Item /\ OthersAct(With({f}))
    BY <1>4, SetsAssumption DEF ForeignEdit, With, Item
  <2> QED
    BY <2>1, <2>2, <1>3 DEF PlanOK, Holds, There
<1>5. CASE ForeignFolder
  <2>1. srv' \in [Files -> Content] /\ ~Holds(srv') /\ rdir' \in BOOLEAN
    BY <1>5 DEF ForeignFolder, Holds, There, Content
  <2>2. InD \cup {D} \subseteq Item /\ OthersAct(InD \cup {D})
    BY <1>5, SetsAssumption DEF ForeignFolder, Item
  <2> QED
    BY <2>1, <2>2, <1>3 DEF PlanOK, Holds, There
<1>6. CASE Crash
  <2>1. /\ row' = saved.row /\ drow' = saved.drow /\ etag' = saved.etag /\ pulled' \in BOOLEAN
        /\ UNCHANGED <<disk, dir, srv, rdir, saved, touched, moved>>
    BY <1>6 DEF Crash, vault, server
  <2> QED
    BY <1>6, <2>1, OffTypes, SetsAssumption DEF Crash, Holds, There, Item
<1> QED
  BY <1>1, <1>2, <1>4, <1>5, <1>6 DEF EnvNext
-----------------------------------------------------------------------------
(* planRemoteMirror and applyRemoteMirror. *)

LEMMA PlanTypes ==
  ASSUME Types, NEW listed, NEW unsummed, listed \subseteq There(srv), Plan(listed, unsummed)
  PROVE  Types'
<1> USE DEF Types
<1>1. plan' = FromListing(listed, unsummed) /\ listed \subseteq Files
  BY DEF Plan, There
<1>2. plan' \in Plans
  BY <1>1 DEF FromListing, Downloads, Plans, Content
<1>3. PlanOK'
  <2>1. /\ plan'.list = [f \in Files |-> IF f \in listed THEN srv[f] ELSE None] /\ plan'.stats = disk
        /\ plan'.downs = Downloads(listed, unsummed) /\ plan'.rdir = rdir
    BY <1>1 DEF FromListing
  <2>2. plan'.downs \subseteq There(plan'.list)
    BY <1>1, <2>1 DEF Downloads, There
  <2>3. \A f \in Files : plan'.list[f] # None /\ f \notin plan'.downs => plan'.stats[f] = plan'.list[f]
    BY <2>1 DEF Downloads
  <2>4. Holds(plan'.list) => plan'.rdir
    BY <2>1 DEF Holds, There
  <2> QED
    BY <2>2, <2>3, <2>4 DEF PlanOK
<1>4. /\ UNCHANGED <<disk, dir, srv, rdir, row, drow, etag, saved, todo, failed>>
      /\ touched' = {} /\ moved' = There(srv) \ listed /\ pulled' = FALSE /\ pc' = "ready"
  BY DEF Plan, vault, server, db
<1>5. moved' \subseteq Item
  BY <1>4 DEF There, Item
<1> QED
  BY <1>2, <1>3, <1>4, <1>5 DEF Holds, There

\* What a file's row becomes when the plan has been applied.
LEMMA RowForTypes ==
  ASSUME Types, NEW f \in Files
  PROVE  RowFor(f) \in GoodRow \cup {None}
<1> USE DEF Types
<1>1. row[f] \in GoodRow \cup {None} /\ disk[f] \in Content /\ plan.list[f] \in Content
  BY DEF Rows, Plans
<1>2. CASE ToTrack(f)
  <2>1. disk[f] = plan.list[f] /\ disk[f] \in Body
    BY <1>1, <1>2 DEF ToTrack, PlanOK, Content
  <2> QED
    BY <1>2, <2>1, RowFacts DEF RowFor
<1>3. CASE ~ToTrack(f)
  BY <1>1, <1>3, SameIsRow DEF RowFor, LeftoverRow, Content
<1> QED
  BY <1>2, <1>3

LEMMA ApplyTypes ==
  ASSUME Types, ApplyNext
  PROVE  Types'
<1> USE DEF Types
<1>1. ASSUME NEW f \in Files, Download(f) PROVE Types'
  <2>1. /\ pc = "down" /\ f \in todo /\ todo' = todo \ {f} /\ todo' \subseteq plan.downs /\ todo' \subseteq Files
        /\ UNCHANGED <<srv, rdir, drow, etag, saved, pc, plan, failed, moved, pulled>>
    BY <1>1 DEF Download, server
  <2>2. CASE srv[f] # None /\ disk' = [disk EXCEPT ![f] = srv[f]]
             /\ dir' = (dir \/ f \in InD) /\ UNCHANGED touched
             /\ row' = [row EXCEPT ![f] = [hash |-> srv[f], rid |-> plan.list[f], sig |-> srv[f]]]
    <3>1. srv[f] \in Body /\ plan.list[f] \in Body
      BY <2>1, <2>2 DEF PlanOK, There, Plans, Content
    <3>2. row' \in Rows
      BY <2>2, <3>1, RowFacts DEF Rows
    <3>3. disk' \in [Files -> Content] /\ dir' \in BOOLEAN
      BY <2>2, <3>1 DEF Content
    <3>4. Holds(disk') => dir'
      BY <2>2 DEF Holds, There
    <3> QED
      BY <2>1, <2>2, <3>2, <3>3, <3>4 DEF PlanOK, Holds, There
  <2>3. CASE touched' = touched \cup With({f}) /\ UNCHANGED <<disk, dir, row>>
    <3>1. touched' \subseteq Item
      BY <2>3 DEF With, Item
    <3> QED
      BY <2>1, <2>3, <3>1 DEF PlanOK, Holds, There
  <2> QED
    BY <1>1, <2>2, <2>3 DEF Download
<1>2. CASE Downloaded
  <2>1. todo' \subseteq Files
    BY <1>2 DEF Downloaded, DeleteFiles, There
  <2> QED
    BY <1>2, <2>1 DEF Downloaded, vault, server, db, history, PlanOK, Holds, There
<1>3. ASSUME NEW f \in Files, TrashFile(f) PROVE Types'
  <2>1. /\ pc = "trash" /\ todo' \subseteq Files /\ UNCHANGED <<dir, srv, rdir, drow, etag, saved, pc, plan, touched, pulled>>
    BY <1>3 DEF TrashFile, server
  <2>2. disk' \in [Files -> Content] /\ (Holds(disk') => dir') /\ row' \in Rows
    BY <1>3, <2>1 DEF TrashFile, Content, Rows, Holds, There
  <2>3. failed' \subseteq Item /\ moved' \subseteq Item
    BY <1>3 DEF TrashFile, With, Item
  <2> QED
    BY <2>1, <2>2, <2>3 DEF PlanOK, Holds, There
<1>4. CASE TrashFolder
  <2>1. pc' = "create" /\ UNCHANGED <<srv, rdir, etag, saved, plan, todo, touched, pulled>>
    BY <1>4 DEF TrashFolder, server
  <2>2. disk' \in [Files -> Content] /\ row' \in Rows
    BY <1>4 DEF TrashFolder, vault, Out, Content, Rows
  <2>3. dir' \in BOOLEAN /\ drow' \in BOOLEAN /\ (Holds(disk') => dir')
    BY <1>4 DEF TrashFolder, vault, Out, Holds, There
  <2>4. failed' \subseteq Item /\ moved' \subseteq Item
    BY <1>4 DEF TrashFolder, Item
  <2> QED
    BY <2>1, <2>2, <2>3, <2>4 DEF PlanOK, Holds, There
<1>5. CASE CreateDirs
  <2>1. /\ pc' = "track" /\ UNCHANGED <<disk, srv, rdir, row, drow, etag, saved, plan, todo, touched, pulled>>
        /\ dir' \in BOOLEAN /\ (dir => dir')
    BY <1>5 DEF CreateDirs, server, db, CreateDir
  <2>2. failed' \subseteq Item /\ moved' \subseteq Item
    BY <1>5 DEF CreateDirs, Item, LeftoverFiles
  <2> QED
    BY <2>1, <2>2 DEF PlanOK, Holds, There
<1>6. CASE ApplyEnds
  <2>1. /\ row' = [f \in Files |-> RowFor(f)] /\ drow' \in BOOLEAN /\ etag' = "none" /\ pulled' = TRUE
        /\ UNCHANGED <<disk, dir, srv, rdir, touched, moved>>
    BY <1>6 DEF ApplyEnds, Converge, vault, server, DirTracked, Plans
  <2>2. row' \in Rows
    BY <2>1, RowForTypes DEF Rows
  <2>3. saved' \in [row : Rows, drow : BOOLEAN, etag : Etags]
    BY <1>6, <2>1, <2>2 DEF ApplyEnds, Etags
  <2> QED
    BY <1>6, <2>1, <2>2, <2>3, OffTypes DEF ApplyEnds, Etags, Holds, There, Item
<1> QED
  BY <1>1, <1>2, <1>3, <1>4, <1>5, <1>6 DEF ApplyNext
-----------------------------------------------------------------------------
(* A session, as one file and the folder see it. *)

Listing == IF etag # "same" THEN srv ELSE [f \in Files |-> IdOf(row[f])]
Outcomes(f) == {Kept(f)} \cup {ForFile(f, Listing, side) : side \in {"local", "remote"}}
Outcome == [disk : Content, srv : Content, row : GoodRow \cup {None}]

LEMMA FileTypes ==
  ASSUME Types, NEW f \in Files
  PROVE  /\ disk[f] \in Content /\ srv[f] \in Content /\ row[f] \in GoodRow \cup {None}
         /\ Listing[f] \in Content /\ Kept(f) \in Outcome /\ Gone \in Outcome
         /\ srv[f] # None => \A id \in Body : Fetched(f, id) \in Outcome /\ Deleted(f, id) \in Outcome
         /\ disk[f] # None => Pushed(f) \in Outcome
<1>1. disk[f] \in Content /\ srv[f] \in Content /\ row[f] \in GoodRow \cup {None}
  BY DEF Types, Rows
<1>2. Listing[f] \in Content
  BY <1>1, RowFacts DEF Listing, Content
<1>3. Kept(f) \in Outcome /\ Gone \in Outcome
  BY <1>1 DEF Kept, Gone, Now, Outcome, Content
<1>4. ASSUME srv[f] # None, NEW id \in Body PROVE Fetched(f, id) \in Outcome /\ Deleted(f, id) \in Outcome
  <2>1. [hash |-> srv[f], rid |-> id, sig |-> srv[f]] \in GoodRow
    BY <1>1, <1>4, RowFacts DEF Content
  <2>2. Fetched(f, id) \in Outcome
    BY <1>1, <2>1 DEF Fetched, Now, Outcome
  <2> QED
    BY <1>3, <2>2 DEF Deleted
<1>5. ASSUME disk[f] # None PROVE Pushed(f) \in Outcome
  BY <1>1, <1>5, SameIsRow DEF Pushed, Now, Outcome, Content
<1> QED
  BY <1>1, <1>2, <1>3, <1>4, <1>5

LEMMA OutcomeTypes ==
  ASSUME Types, NEW f \in Files, NEW n \in Outcomes(f)
  PROVE  n \in Outcome
<1>1. ASSUME NEW side \in {"local", "remote"} PROVE ForFile(f, Listing, side) \in Outcome
  <2>1. ASSUME NEW id \in Body PROVE Listed(f, id, side) \in Outcome
    <3>1. disk[f] = id => Now(disk[f], srv[f], [hash |-> id, rid |-> id, sig |-> id]) \in Outcome
      BY FileTypes, RowFacts DEF Now, Outcome
    <3> QED
      BY <3>1, FileTypes DEF Listed, LocalEdit
  <2>2. Unlisted(f) \in Outcome
    BY FileTypes DEF Unlisted, LocalEdit, Content
  <2> QED
    BY <2>1, <2>2, FileTypes DEF ForFile, Content
<1> QED
  BY <1>1, FileTypes DEF Outcomes

LEMMA OutcomeExists ==
  ASSUME Types, NEW stuck, NEW sides \in Sides, NEW f \in Files
  PROVE  (IF f \in stuck THEN Kept(f) ELSE ForFile(f, Listing, sides[f])) \in Outcomes(f)
BY DEF Outcomes, Sides

\* The files have their outcomes d, s and r before the folders are reconciled.
Ends(d, s, r) ==
    /\ \A f \in Files : [disk |-> d[f], srv |-> s[f], row |-> r[f]] \in Outcomes(f)
    /\ Reconcile(d, s, etag # "same") /\ srv' = s
    /\ row' = [f \in Files |-> IF d[f] # disk'[f] THEN None ELSE r[f]]

LEMMA SessionEffect ==
  ASSUME Types, NEW stuck, Session(stuck)
  PROVE  /\ \E d \in [Files -> Content] : \E s \in [Files -> Content] : \E r \in Rows : Ends(d, s, r)
         /\ etag' \in Etags /\ saved' = [row |-> row', drow |-> drow', etag |-> etag']
         /\ moved' = (IF pulled THEN moved
                      ELSE moved \cup {f \in Files : disk'[f] # disk[f] \/ srv'[f] # srv[f]})
         /\ UNCHANGED <<mirror, touched, pulled>> /\ SyncAllowed
<1> DEFINE after(sides) == [f \in Files |-> IF f \in stuck THEN Kept(f) ELSE ForFile(f, Listing, sides[f])]
           dd(sides) == [f \in Files |-> after(sides)[f].disk]
           ss(sides) == [f \in Files |-> after(sides)[f].srv]
           rr(sides) == [f \in Files |-> after(sides)[f].row]
<1>1. PICK sides \in Sides :
        /\ Reconcile(dd(sides), ss(sides), etag # "same") /\ srv' = ss(sides)
        /\ row' = [f \in Files |-> IF dd(sides)[f] # disk'[f] THEN None ELSE after(sides)[f].row]
        /\ etag' = (IF stuck # {} THEN "none" ELSE IF server' # server THEN "stale" ELSE "same")
        /\ saved' = [row |-> row', drow |-> drow', etag |-> etag']
        /\ moved' = (IF pulled THEN moved
                     ELSE moved \cup {f \in Files : disk'[f] # disk[f] \/ srv'[f] # srv[f]})
        /\ UNCHANGED <<mirror, touched, pulled>> /\ SyncAllowed
  BY DEF Session, Listing
<1>2. ASSUME NEW f \in Files PROVE after(sides)[f] \in Outcomes(f) /\ after(sides)[f] \in Outcome
  BY OutcomeExists, OutcomeTypes
<1>3. dd(sides) \in [Files -> Content] /\ ss(sides) \in [Files -> Content] /\ rr(sides) \in Rows
  BY <1>2 DEF Outcome, Rows
<1>4. ASSUME NEW f \in Files
      PROVE  [disk |-> dd(sides)[f], srv |-> ss(sides)[f], row |-> rr(sides)[f]] = after(sides)[f]
  BY <1>2 DEF Outcome
<1>5. row' = [f \in Files |-> IF dd(sides)[f] # disk'[f] THEN None ELSE rr(sides)[f]]
  BY <1>1
<1>6. Ends(dd(sides), ss(sides), rr(sides))
  BY <1>1, <1>2, <1>4, <1>5 DEF Ends
<1> QED
  BY <1>1, <1>3, <1>6 DEF Etags

\* A file that goes with its folder is gone from the server too.
LEMMA OutIsGone ==
  ASSUME Types, NEW d \in [Files -> Content], NEW s \in [Files -> Content], NEW real \in BOOLEAN, Reconcile(d, s, real)
  PROVE  \/ disk' = d
         \/ disk' = Out(d) /\ \A f \in InD : s[f] = None
BY SetsAssumption DEF Reconcile, Types, Holds, There

\* Folders hold what is in them, as before.
LEMMA ReconcileTypes ==
  ASSUME Types, NEW d \in [Files -> Content], NEW s \in [Files -> Content], NEW real \in BOOLEAN, Reconcile(d, s, real),
         srv' = s
  PROVE  /\ disk' \in [Files -> Content] /\ dir' \in BOOLEAN /\ rdir' \in BOOLEAN /\ drow' \in BOOLEAN
         /\ Holds(disk') => dir'
         /\ Holds(srv') => rdir'
<1> USE DEF Types
<1>1. disk' \in [Files -> Content]
  BY DEF Reconcile, Out, Content
<1>2. dir' \in BOOLEAN /\ rdir' \in BOOLEAN /\ drow' \in BOOLEAN
  BY DEF Reconcile
<1>3. Holds(disk') => dir'
  <2>1. CASE disk' = d
    <3>1. Holds(disk') = Holds(d)
      BY <2>1 DEF Holds, There
    <3>2. CASE Holds(d)
      BY <3>2, <2>1 DEF Reconcile, Out, Holds, There
    <3> QED
      BY <3>1, <3>2
  <2>2. CASE disk' = Out(d)
    BY <2>2 DEF Out, Holds, There
  <2> QED
    BY <2>1, <2>2, OutIsGone
<1>4. Holds(srv') => rdir'
  BY DEF Reconcile
<1> QED
  BY <1>1, <1>2, <1>3, <1>4

LEMMA SessionTypes ==
  ASSUME Types, SyncSession
  PROVE  Types'
<1> USE DEF Types
<1>1. PICK stuck : Session(stuck)
  BY DEF SyncSession
<1>2. PICK d \in [Files -> Content], s \in [Files -> Content], r \in Rows : Ends(d, s, r)
  BY <1>1, SessionEffect
<1>3. /\ disk' \in [Files -> Content] /\ dir' \in BOOLEAN /\ rdir' \in BOOLEAN /\ drow' \in BOOLEAN
      /\ Holds(disk') => dir'
      /\ Holds(srv') => rdir'
  BY <1>2, ReconcileTypes DEF Ends
<1>4. srv' \in [Files -> Content] /\ row' \in Rows
  BY <1>2 DEF Ends, Rows
<1>5. etag' \in Etags /\ saved' \in [row : Rows, drow : BOOLEAN, etag : Etags]
  BY <1>1, <1>3, <1>4, SessionEffect
<1>6. moved' \subseteq Item /\ UNCHANGED <<pc, plan, todo, failed, touched, pulled>>
  BY <1>1, SessionEffect DEF mirror, Item
<1> QED
  BY <1>3, <1>4, <1>5, <1>6 DEF PlanOK, Holds, There

LEMMA NextTypes ==
  ASSUME Types, [Next]_vars
  PROVE  Types'
<1>1. CASE PlanRemoteMirror
  <2>1. PICK listed \in SUBSET There(srv), unsummed \in SUBSET There(srv) : Plan(listed, unsummed)
    BY <1>1 DEF PlanRemoteMirror
  <2> QED
    BY <2>1, PlanTypes
<1>2. CASE Cancel
  <2>1. UNCHANGED <<vault, server, db, saved, history>>
    BY <1>2 DEF Cancel
  <2> QED
    BY <1>2, <2>1, OffTypes DEF Cancel, vault, server, db, history, Types, Holds, There, Item
<1>3. CASE Confirm
  BY <1>3 DEF Confirm, vault, server, db, history, Types, PlanOK, Plans, Holds, There
<1>4. CASE UNCHANGED vars
  BY <1>4 DEF vars, Types, PlanOK, Holds, There
<1> QED
  BY <1>1, <1>2, <1>3, <1>4, EnvTypes, ApplyTypes, SessionTypes DEF Next

LEMMA TypesInvariant == Spec => []Types
BY InitTypes, NextTypes, PTL DEF Spec
-----------------------------------------------------------------------------
(***************************************************************************)
(* A clean file is one that no one touched since the plan.  Each phase of  *)
(* the apply leaves it a little more settled, and a session, at any time,  *)
(* either counts it as moved or leaves it as settled as it was.            *)
(***************************************************************************)
Clean(f) == f \notin touched \cup moved
Settled(f) == disk[f] = srv[f] /\ row[f] = (IF srv[f] = None THEN None ELSE Same(srv[f]))
Applying == pc \in {"trash", "create", "track"}

\* The phase decides what the plan has left to do, and which failures there can be.
Phases ==
    /\ pulled => pc = "off"
    /\ pc = "trash" => todo \subseteq DeleteFiles
    /\ pc \in {"create", "track"} => todo = {}
    /\ failed # {} => Applying
    /\ failed \subseteq moved
    /\ \A f \in Files : f \in failed => plan.list[f] = None

Applied(f) ==
    /\ pc # "off" => srv[f] = plan.list[f]
    /\ pc # "off" /\ plan.list[f] # None /\ f \notin plan.downs => disk[f] = plan.stats[f]
    /\ pc \in {"ready", "down"} /\ plan.list[f] = None => disk[f] = plan.stats[f]
    /\ pc = "down" /\ f \in plan.downs \ todo => Settled(f)
    /\ Applying /\ f \in plan.downs => Settled(f)
    /\ Applying /\ plan.list[f] = None /\ (pc = "trash" => f \notin todo) => disk[f] = None
    /\ pulled => Settled(f)

AllApplied == Phases /\ \A f \in Files : Clean(f) => Applied(f)

\* A session leaves a settled file settled, whatever it lists.
LEMMA SettledOutcome ==
  ASSUME Types, NEW f \in Files, Settled(f), NEW n \in Outcomes(f)
  PROVE  n.disk = srv[f] /\ n.srv = srv[f] /\ n.row = (IF srv[f] = None THEN None ELSE Same(srv[f]))
<1>1. Listing[f] = srv[f] /\ srv[f] \in Content
  BY SameIsRow, RowFacts DEF Settled, Listing, Types, Content
<1>2. CASE srv[f] = None
  BY <1>1, <1>2 DEF Settled, Outcomes, ForFile, Unlisted, LocalEdit, Gone, Kept, Now
<1>3. CASE srv[f] # None
  <2>1. ForFile(f, Listing, "local") = Kept(f) /\ ForFile(f, Listing, "remote") = Kept(f)
    BY <1>1, <1>3 DEF Settled, ForFile, Listed, Kept, Now, Same
  <2> QED
    BY <1>3, <2>1 DEF Settled, Outcomes, Kept, Now
<1> QED
  BY <1>2, <1>3

LEMMA SessionSettled ==
  ASSUME Types, NEW stuck, Session(stuck), NEW f \in Files, Settled(f)
  PROVE  Settled(f)' /\ srv'[f] = srv[f]
<1>1. PICK d \in [Files -> Content], s \in [Files -> Content], r \in Rows : Ends(d, s, r)
  BY SessionEffect
<1>2. d[f] = srv[f] /\ s[f] = srv[f] /\ r[f] = (IF srv[f] = None THEN None ELSE Same(srv[f]))
  BY <1>1, SettledOutcome DEF Ends
<1>3. disk'[f] = d[f]
  BY <1>1, <1>2, OutIsGone DEF Ends, Out
<1> QED
  BY <1>1, <1>2, <1>3 DEF Ends, Settled

LEMMA SessionApplied ==
  ASSUME Types, AllApplied, SyncSession
  PROVE  AllApplied'
<1>1. PICK stuck : Session(stuck)
  BY DEF SyncSession
<1>2. /\ moved' = (IF pulled THEN moved
                   ELSE moved \cup {f \in Files : disk'[f] # disk[f] \/ srv'[f] # srv[f]})
      /\ UNCHANGED <<pc, plan, todo, failed, touched, pulled>>
  BY <1>1, SessionEffect DEF mirror
<1>3. Phases'
  BY <1>2 DEF AllApplied, Phases, Applying, DeleteFiles, There
<1>4. ASSUME NEW f \in Files, Clean(f)' PROVE Applied(f)'
  <2>1. Clean(f) /\ Applied(f)
    BY <1>2, <1>4 DEF Clean, AllApplied
  <2>2. Settled(f) => Settled(f)'
    BY <1>1, SessionSettled
  <2>3. CASE pulled
    BY <1>2, <2>1, <2>2, <2>3 DEF Applied, AllApplied, Phases, Applying
  <2>4. CASE ~pulled
    <3>1. disk'[f] = disk[f] /\ srv'[f] = srv[f]
      BY <1>2, <1>4, <2>4 DEF Clean
    <3> QED
      BY <1>2, <2>1, <2>2, <3>1 DEF Applied, Applying
  <2> QED
    BY <2>3, <2>4
<1> QED
  BY <1>3, <1>4 DEF AllApplied

\* What happens to other files, or to none, leaves a file as it was.
LEMMA AppliedStays ==
  ASSUME NEW f \in Files, Applied(f), disk'[f] = disk[f], srv'[f] = srv[f], row'[f] = row[f],
         UNCHANGED <<pc, plan, todo, pulled>>
  PROVE  Applied(f)'
BY DEF Applied, Settled, Applying

LEMMA EnvApplied ==
  ASSUME Types, AllApplied, EnvNext
  PROVE  AllApplied'
<1>1. ASSUME NEW g \in Files, NEW b \in Content, UserEdit(g, b) PROVE AllApplied'
  <2>1. touched' = touched \cup With({g}) /\ UNCHANGED <<srv, row, plan, pc, todo, failed, moved, pulled>>
    BY <1>1 DEF UserEdit, UserActs, server, db, mirror
  <2>2. \A f \in Files : Clean(f)' => Clean(f) /\ disk'[f] = disk[f]
    BY <1>1, <2>1 DEF Clean, With, UserEdit, Types
  <2> QED
    BY <2>1, <2>2, AppliedStays DEF AllApplied, Phases, Applying, DeleteFiles, There
<1>2. CASE UserFolder
  <2>1. touched' = touched \cup (InD \cup {D}) /\ UNCHANGED <<srv, row, plan, pc, todo, failed, moved, pulled>>
    BY <1>2 DEF UserFolder, UserActs, server, db, mirror
  <2>2. \A f \in Files : Clean(f)' => Clean(f) /\ disk'[f] = disk[f]
    BY <1>2, <2>1 DEF Clean, UserFolder
  <2> QED
    BY <2>1, <2>2, AppliedStays DEF AllApplied, Phases, Applying, DeleteFiles, There
<1>3. ASSUME NEW g \in Files, NEW b \in Content, ForeignEdit(g, b) PROVE AllApplied'
  <2>1. moved' = moved \cup With({g}) /\ UNCHANGED <<disk, row, plan, pc, todo, failed, touched, pulled>>
    BY <1>3 DEF ForeignEdit, OthersAct, vault, mirror
  <2>2. \A f \in Files : Clean(f)' => Clean(f) /\ srv'[f] = srv[f]
    BY <1>3, <2>1 DEF Clean, With, ForeignEdit, Types
  <2>3. failed' \subseteq moved'
    BY <2>1 DEF AllApplied, Phases
  <2> QED
    BY <2>1, <2>2, <2>3, AppliedStays DEF AllApplied, Phases, Applying, DeleteFiles, There
<1>4. CASE ForeignFolder
  <2>1. moved' = moved \cup (InD \cup {D}) /\ UNCHANGED <<disk, row, plan, pc, todo, failed, touched, pulled>>
    BY <1>4 DEF ForeignFolder, OthersAct, vault, mirror
  <2>2. \A f \in Files : Clean(f)' => Clean(f) /\ srv'[f] = srv[f]
    BY <1>4, <2>1 DEF Clean, ForeignFolder
  <2>3. failed' \subseteq moved'
    BY <2>1 DEF AllApplied, Phases
  <2> QED
    BY <2>1, <2>2, <2>3, AppliedStays DEF AllApplied, Phases, Applying, DeleteFiles, There
<1>5. CASE Crash
  <2>1. /\ pulled' => pulled /\ row' = row
        /\ UNCHANGED <<disk, srv, touched, moved>> /\ pc' = "off" /\ todo' = {} /\ failed' = {}
    BY <1>5 DEF Crash, vault, server, Off
  <2>2. Phases'
    BY <2>1 DEF Phases, Applying
  <2>3. ASSUME NEW f \in Files, Clean(f)' PROVE Applied(f)'
    BY <2>1, <2>3 DEF AllApplied, Clean, Applied, Settled, Applying
  <2> QED
    BY <2>2, <2>3 DEF AllApplied
<1> QED
  BY <1>1, <1>2, <1>3, <1>4, <1>5 DEF EnvNext

LEMMA PlanApplied ==
  ASSUME Types, AllApplied, PlanRemoteMirror
  PROVE  AllApplied'
<1>1. PICK listed \in SUBSET There(srv), unsummed \in SUBSET There(srv) : Plan(listed, unsummed)
  BY DEF PlanRemoteMirror
<1>2. /\ plan'.list = [f \in Files |-> IF f \in listed THEN srv[f] ELSE None] /\ plan'.stats = disk
      /\ UNCHANGED <<disk, srv, row, todo, failed>> /\ touched' = {} /\ moved' = There(srv) \ listed
      /\ pc' = "ready" /\ pulled' = FALSE /\ pc = "off"
  BY <1>1 DEF Plan, FromListing, vault, server, db, Idle
<1>3. Phases'
  BY <1>2 DEF AllApplied, Phases, Applying
<1>4. ASSUME NEW f \in Files, Clean(f)' PROVE Applied(f)'
  <2>1. srv[f] = plan'.list[f]
    BY <1>2, <1>4 DEF Clean, There
  <2> QED
    BY <1>2, <2>1 DEF Applied, Applying
<1> QED
  BY <1>3, <1>4 DEF AllApplied

LEMMA DownloadApplied ==
  ASSUME Types, AllApplied, NEW g \in Files, Download(g)
  PROVE  AllApplied'
<1>1. /\ pc = "down" /\ g \in todo /\ g \in plan.downs /\ todo' = todo \ {g}
      /\ UNCHANGED <<srv, pc, plan, failed, moved, pulled>>
  BY DEF Download, server, Types
<1>2. Phases'
  BY <1>1 DEF AllApplied, Phases, Applying
<1>3. ASSUME NEW f \in Files, Clean(f)' PROVE Applied(f)'
  <2>1. touched \subseteq touched'
    BY DEF Download
  <2>2. Clean(f) /\ Applied(f)
    BY <1>1, <1>3, <2>1 DEF Clean, AllApplied
  <2>3. CASE f = g
    <3>1. srv[g] # None /\ disk'[g] = srv[g] /\ row'[g] = [hash |-> srv[g], rid |-> plan.list[g], sig |-> srv[g]]
      <4>1. touched' # touched \cup With({g})
        BY <1>3, <2>3 DEF Clean, With
      <4> QED
        BY <4>1 DEF Download, Types, Rows
    <3>2. Settled(g)'
      BY <1>1, <2>2, <2>3, <3>1 DEF Applied, Settled, Same
    <3> QED
      BY <1>1, <2>2, <2>3, <3>1, <3>2 DEF Applied, Applying, Types, PlanOK, There
  <2>4. CASE f # g
    <3>1. disk'[f] = disk[f] /\ row'[f] = row[f]
      BY <2>4 DEF Download, Types, Rows
    <3> QED
      BY <1>1, <2>2, <2>4, <3>1 DEF Applied, Settled, Applying
  <2> QED
    BY <2>3, <2>4
<1> QED
  BY <1>2, <1>3 DEF AllApplied

LEMMA DownloadedApplied ==
  ASSUME Types, AllApplied, Downloaded
  PROVE  AllApplied'
<1>1. /\ pc = "down" /\ todo = {} /\ pc' = "trash" /\ todo' = DeleteFiles
      /\ UNCHANGED <<disk, srv, row, plan, failed, touched, moved, pulled>>
  BY DEF Downloaded, vault, server, db, history
<1>2. Phases'
  BY <1>1 DEF AllApplied, Phases, Applying, DeleteFiles, There
<1>3. ASSUME NEW f \in Files, Clean(f)' PROVE Applied(f)'
  <2>1. Clean(f) /\ Applied(f)
    BY <1>1, <1>3 DEF Clean, AllApplied
  <2>2. ~pulled /\ (plan.list[f] = None /\ f \notin DeleteFiles => plan.stats[f] = None)
    BY <1>1 DEF AllApplied, Phases, DeleteFiles, There
  <2> QED
    BY <1>1, <2>1, <2>2 DEF Applied, Settled, Applying
<1> QED
  BY <1>2, <1>3 DEF AllApplied

LEMMA TrashFileApplied ==
  ASSUME Types, AllApplied, NEW g \in Files, TrashFile(g)
  PROVE  AllApplied'
<1>1. /\ pc = "trash" /\ g \in todo /\ plan.list[g] = None /\ todo' = todo \ {g}
      /\ UNCHANGED <<srv, pc, plan, touched, pulled>>
  BY DEF TrashFile, server, AllApplied, Phases, DeleteFiles
<1>2. \/ /\ disk' = [disk EXCEPT ![g] = None] /\ row' = [row EXCEPT ![g] = None]
         /\ UNCHANGED <<failed, moved>>
      \/ failed' = failed \cup {g} /\ moved' = moved \cup With({g}) /\ UNCHANGED <<disk, row>>
  BY DEF TrashFile
<1>3. Phases'
  <2>1. todo' \subseteq DeleteFiles'
    BY <1>1 DEF AllApplied, Phases, DeleteFiles, There
  <2>2. failed' \subseteq moved'
    BY <1>2 DEF AllApplied, Phases, With
  <2>3. \A f \in Files : f \in failed' => plan'.list[f] = None
    BY <1>1, <1>2 DEF AllApplied, Phases
  <2> QED
    BY <1>1, <2>1, <2>2, <2>3 DEF AllApplied, Phases, Applying
<1>4. ASSUME NEW f \in Files, Clean(f)' PROVE Applied(f)'
  <2>1. Clean(f) /\ Applied(f)
    BY <1>1, <1>2, <1>4 DEF Clean, AllApplied
  <2>2. CASE f = g
    <3>1. disk'[f] = None
      BY <1>2, <1>4, <2>2 DEF Clean, With, Types
    <3>2. f \notin plan.downs /\ ~pulled
      BY <1>1, <2>2 DEF Types, PlanOK, There, AllApplied, Phases
    <3> QED
      BY <1>1, <2>1, <2>2, <3>1, <3>2 DEF Applied, Applying
  <2>3. CASE f # g
    <3>1. disk'[f] = disk[f] /\ row'[f] = row[f]
      BY <1>2, <2>3 DEF Types, Rows
    <3> QED
      BY <1>1, <2>1, <2>3, <3>1 DEF Applied, Settled, Applying
  <2> QED
    BY <2>2, <2>3
<1> QED
  BY <1>3, <1>4 DEF AllApplied

LEMMA TrashFolderApplied ==
  ASSUME Types, AllApplied, TrashFolder
  PROVE  AllApplied'
<1>1. /\ pc = "trash" /\ todo = {} /\ pc' = "create" /\ todo' = {}
      /\ UNCHANGED <<srv, plan, touched, pulled>>
  BY DEF TrashFolder, server
<1>2. \/ UNCHANGED <<disk, row, failed, moved>>
      \/ DeleteDir /\ disk' = Out(disk) /\ row' = Out(row) /\ UNCHANGED <<failed, moved>>
      \/ failed' = failed \cup {D} /\ moved' = moved \cup {D} /\ UNCHANGED <<disk, row>>
  BY DEF TrashFolder, vault
<1>3. Phases'
  BY <1>1, <1>2, SetsAssumption DEF AllApplied, Phases, Applying
<1>4. ASSUME NEW f \in Files, Clean(f)' PROVE Applied(f)'
  <2>1. Clean(f) /\ Applied(f) /\ ~pulled
    BY <1>1, <1>2, <1>4 DEF Clean, AllApplied, Phases
  <2>2. CASE disk'[f] = disk[f] /\ row'[f] = row[f]
    BY <1>1, <2>1, <2>2 DEF Applied, Settled, Applying
  <2>3. CASE DeleteDir /\ f \in InD /\ disk'[f] = None
    <3>1. plan.list[f] = None /\ f \notin plan.downs
      BY <2>3 DEF DeleteDir, Holds, There, Types, PlanOK
    <3> QED
      BY <1>1, <2>1, <2>3, <3>1 DEF Applied, Applying
  <2> QED
    BY <1>2, <2>2, <2>3 DEF Out
<1> QED
  BY <1>3, <1>4 DEF AllApplied

LEMMA CreateDirsApplied ==
  ASSUME Types, AllApplied, CreateDirs
  PROVE  AllApplied'
<1>1. /\ pc = "create" /\ pc' = "track" /\ UNCHANGED <<disk, srv, row, plan, todo, touched, pulled>>
      /\ failed' \subseteq failed /\ moved \subseteq moved'
  BY DEF CreateDirs, server, db, LeftoverFiles, LeftoverDir
<1>2. todo = {}
  BY <1>1 DEF AllApplied, Phases
<1>3. Phases'
  BY <1>1, <1>2 DEF AllApplied, Phases, Applying
<1>4. ASSUME NEW f \in Files, Clean(f)' PROVE Applied(f)'
  BY <1>1, <1>4 DEF AllApplied, Clean, Applied, Settled, Applying
<1> QED
  BY <1>3, <1>4 DEF AllApplied

LEMMA ApplyEndsApplied ==
  ASSUME Types, AllApplied, ApplyEnds
  PROVE  AllApplied'
<1>1. /\ pc = "track" /\ row' = [f \in Files |-> RowFor(f)] /\ pulled' = TRUE
      /\ pc' = "off" /\ failed' = {} /\ todo' = {} /\ UNCHANGED <<disk, srv, touched, moved>>
  BY DEF ApplyEnds, Converge, Off, vault, server
<1>2. Phases'
  BY <1>1 DEF Phases, Applying
<1>3. ASSUME NEW f \in Files, Clean(f)' PROVE Applied(f)'
  <2>1. Clean(f) /\ Applied(f) /\ f \notin failed /\ row'[f] = RowFor(f)
    BY <1>1, <1>3 DEF Clean, AllApplied, Phases
  <2>2. CASE plan.list[f] = None
    BY <1>1, <2>1, <2>2 DEF Applied, Applying, Settled, RowFor, ToTrack, ToDrop
  <2>3. CASE plan.list[f] # None /\ f \in plan.downs
    BY <1>1, <2>1, <2>3 DEF Applied, Applying, Settled, RowFor, ToTrack, ToDrop
  <2>4. CASE plan.list[f] # None /\ f \notin plan.downs
    <3>1. disk[f] = plan.list[f] /\ srv[f] = plan.list[f] /\ ToTrack(f)
      BY <1>1, <2>1, <2>4 DEF Applied, ToTrack, Types, PlanOK
    <3> QED
      BY <1>1, <2>1, <2>4, <3>1 DEF Applied, Applying, Settled, RowFor, Same
  <2> QED
    BY <2>2, <2>3, <2>4
<1> QED
  BY <1>2, <1>3 DEF AllApplied

LEMMA NextApplied ==
  ASSUME Types, AllApplied, [Next]_vars
  PROVE  AllApplied'
<1>1. CASE ApplyNext
  BY <1>1, DownloadApplied, DownloadedApplied, TrashFileApplied, TrashFolderApplied,
     CreateDirsApplied, ApplyEndsApplied DEF ApplyNext
<1>2. CASE Cancel
  <2>1. /\ pc = "ready" /\ pc' = "off" /\ todo' = {} /\ failed' = {}
        /\ UNCHANGED <<disk, srv, row, touched, moved, pulled>>
    BY <1>2 DEF Cancel, Off, vault, server, db, history
  <2> QED
    BY <2>1 DEF AllApplied, Phases, Applying, Applied
<1>3. CASE Confirm
  <2>1. /\ pc = "ready" /\ pc' = "down" /\ todo' = plan.downs
        /\ UNCHANGED <<disk, srv, row, plan, failed, touched, moved, pulled>>
    BY <1>3 DEF Confirm, vault, server, db, history
  <2> QED
    BY <2>1 DEF AllApplied, Phases, Applying, Applied, Clean
<1>4. CASE UNCHANGED vars
  BY <1>4 DEF vars, AllApplied, Phases, Applying, DeleteFiles, There, Clean, Applied, Settled
<1> QED
  BY <1>1, <1>2, <1>3, <1>4, EnvApplied, PlanApplied, SessionApplied DEF Next

\* A mirror that ends has every file that no one changed since its plan as the server
\* has it, or gone as there, and the row saying so, through all the sessions that
\* follow: for any files and plan, with failing requests, removals and saves, partial
\* listings, crashes and overlapping sessions.
THEOREM PulledInSync == Spec => []PulledIsInSync
<1>1. Init => AllApplied
  BY DEF Init, AllApplied, Phases, Applying, Applied
<1>2. Types /\ AllApplied /\ [Next]_vars => AllApplied'
  BY NextApplied
<1>3. AllApplied => PulledIsInSync
  BY DEF AllApplied, Clean, Applied, Settled, PulledIsInSync
<1> QED
  BY <1>1, <1>2, <1>3, TypesInvariant, PTL DEF Spec

\* All that Mirror_pull checks of the states, with the types: an edit made while a
\* mirror ran is not taken for what its row has, since every row's signature is that
\* of the body it names.
THEOREM MirrorSafe == Spec => []Safety
<1>1. Types => TypeOK
  <2> SUFFICES ASSUME Types PROVE TypeOK
    OBVIOUS
  <2>1. row \in [Files -> Row \cup {None}]
    BY DEF Types, Rows, GoodRow
  <2>2. plan.list \in [Files -> Content] /\ plan.stats \in [Files -> Content] /\ plan.downs \subseteq Files
    BY DEF Types, Plans
  <2> QED
    BY <2>1, <2>2 DEF Types, TypeOK, Etags
<1>2. Types => EditsAreSeen
  BY RowFacts DEF Types, Rows, EditsAreSeen, LocalEdit
<1> QED
  BY <1>1, <1>2, TypesInvariant, PulledInSync, PTL DEF Safety
-----------------------------------------------------------------------------
(***************************************************************************)
(* Without overlapping sessions the rows also say the truth of every file  *)
(* and folder the user left alone, wherever other devices moved the server *)
(* and whatever the apply failed to do: no session then takes what the     *)
(* mirror did, or could not do, for the user's wish.                       *)
(***************************************************************************)
NoOverlap == "overlap" \notin Env

Known(f) == disk[f] = HashOf(row[f])

Staged(f) ==
    /\ pc \in {"ready", "down"} /\ plan.list[f] = None => disk[f] = plan.stats[f]
    /\ pc # "off" /\ plan.list[f] # None /\ f \notin plan.downs => disk[f] = plan.stats[f]
    /\ pc = "down" /\ f \in plan.downs \ todo => Known(f)
    /\ Applying /\ f \in plan.downs => Known(f)
    /\ Applying /\ plan.list[f] = None /\ (pc = "trash" => f \notin todo) => disk[f] = None \/ f \in failed
    /\ pc = "track" /\ f \in failed => disk[f] # None
    /\ pulled => Known(f)

StagedFolder ==
    /\ pc \in {"ready", "down", "trash"} => dir = plan.ldir \/ plan.rdir
    /\ pc \in {"create", "track"} /\ ~plan.rdir => D \in failed \/ ~dir
    /\ pc = "track" /\ D \in failed => dir
    /\ pulled => dir = drow

AllStaged ==
    /\ \A f \in Files \ touched : Staged(f)
    /\ D \notin touched => StagedFolder /\ touched \cap InD = {}

\* A session leaves the server's file alone when the row says what the vault has.
LEMMA KnownOutcome ==
  ASSUME Types, NEW f \in Files, Known(f), NEW n \in Outcomes(f)
  PROVE  /\ n.srv = srv[f] /\ n.disk = HashOf(n.row)
         /\ disk[f] = None /\ n.disk # None => srv[f] # None /\ etag # "same"
<1>1. disk[f] \in Content /\ srv[f] \in Content /\ row[f] \in GoodRow \cup {None} /\ Listing[f] \in Content
  BY FileTypes
<1>2. ~LocalEdit(f)
  BY <1>1, RowFacts DEF Known, LocalEdit, HashOf
<1>3. CASE n = Kept(f)
  BY <1>3 DEF Kept, Now, Known
<1>4. ASSUME NEW side \in {"local", "remote"}, n = ForFile(f, Listing, side)
      PROVE  /\ n.srv = srv[f] /\ n.disk = HashOf(n.row)
             /\ disk[f] = None /\ n.disk # None => srv[f] # None /\ etag # "same"
  <2>1. \A id \in Body : srv[f] # None =>
             LET m == Fetched(f, id) IN m.srv = srv[f] /\ m.disk = srv[f] /\ HashOf(m.row) = srv[f]
    BY <1>1, RowFacts DEF Fetched, Now, Content
  <2>2. disk[f] = None <=> row[f] = None
    BY <1>1, RowFacts DEF Known
  <2>3. CASE Listing[f] = None
    <3>1. n = Unlisted(f)
      BY <1>4, <2>3 DEF ForFile
    <3>2. srv[f] = None => n = Gone
      BY <1>2, <3>1 DEF Unlisted
    <3>3. srv[f] # None => n = Kept(f)
      BY <1>2, <2>2, <3>1 DEF Unlisted
    <3> QED
      BY <1>3, <3>2, <3>3, RowFacts DEF Gone, Now
  <2>4. CASE Listing[f] # None
    <3>1. n = Listed(f, Listing[f], side) /\ Listing[f] \in Body
      BY <1>1, <1>4, <2>4 DEF ForFile, Content
    <3>2. CASE srv[f] = None
      BY <1>3, <3>1, <3>2 DEF Listed
    <3>3. CASE srv[f] # None /\ disk[f] = None
      <4>1. n = Fetched(f, Listing[f])
        BY <2>2, <3>1, <3>3 DEF Listed
      <4>2. etag # "same"
        BY <2>2, <2>4, <3>3, RowFacts DEF Listing
      <4> QED
        BY <2>1, <3>1, <3>3, <4>1, <4>2
    <3>4. CASE srv[f] # None /\ disk[f] # None
      <4>1. \/ n = Kept(f)
            \/ n = Fetched(f, Listing[f])
            \/ n = Now(disk[f], srv[f], [hash |-> disk[f], rid |-> disk[f], sig |-> disk[f]])
        BY <1>2, <3>1, <3>4 DEF Listed
      <4>2. disk[f] \in Body
        BY <1>1, <3>4 DEF Content
      <4> QED
        BY <1>3, <2>1, <3>1, <3>4, <4>1, <4>2, RowFacts DEF Now
    <3> QED
      BY <3>2, <3>3, <3>4
  <2> QED
    BY <2>3, <2>4
<1> QED
  BY <1>3, <1>4 DEF Outcomes

LEMMA SessionKnown ==
  ASSUME Types, NEW stuck, Session(stuck), NEW f \in Files, Known(f)
  PROVE  srv'[f] = srv[f] /\ Known(f)'
<1>1. PICK d \in [Files -> Content], s \in [Files -> Content], r \in Rows : Ends(d, s, r)
  BY SessionEffect
<1>2. s[f] = srv[f] /\ d[f] = HashOf(r[f])
  BY <1>1, KnownOutcome DEF Ends
<1>3. disk'[f] = d[f] \/ disk'[f] = None
  BY <1>1, OutIsGone DEF Ends, Out
<1> QED
  BY <1>1, <1>2, <1>3, RowFacts DEF Ends, Known

\* So does it the server's folder, when it is tracked just when the vault has it.
LEMMA SessionFolder ==
  ASSUME Types, NEW stuck, Session(stuck), dir = drow, \A f \in InD : Known(f)
  PROVE  rdir' = rdir /\ dir' = drow'
<1>1. PICK d \in [Files -> Content], s \in [Files -> Content], r \in Rows : Ends(d, s, r)
  BY SessionEffect
<1>2. ASSUME NEW f \in InD
      PROVE  s[f] = srv[f] /\ (disk[f] = None /\ d[f] # None => srv[f] # None /\ etag # "same")
  BY <1>1, <1>2, KnownOutcome, SetsAssumption DEF Ends
<1>3. Holds(s) => rdir
  BY <1>2 DEF Holds, There, Types
<1>4. ~dir /\ Holds(d) => rdir /\ etag # "same"
  BY <1>2 DEF Holds, There, Types
<1>5. Reconcile(d, s, etag # "same")
  BY <1>1 DEF Ends
<1> HIDE DEF Holds
<1> QED
  BY <1>3, <1>4, <1>5 DEF Reconcile, Types

LEMMA SessionStaged ==
  ASSUME NoOverlap, Types, AllStaged, SyncSession
  PROVE  AllStaged'
<1>1. PICK stuck : Session(stuck)
  BY DEF SyncSession
<1>2. pc = "off" /\ UNCHANGED <<pc, plan, todo, failed, touched, pulled>>
  BY <1>1, SessionEffect DEF SyncAllowed, NoOverlap, Idle, mirror
<1>3. ASSUME NEW f \in Files \ touched PROVE Staged(f)'
  BY <1>1, <1>2, <1>3, SessionKnown DEF AllStaged, Staged, Applying
<1>4. ASSUME D \notin touched PROVE StagedFolder'
  <2>1. pulled => dir = drow /\ \A f \in InD : Known(f)
    BY <1>4, SetsAssumption DEF AllStaged, StagedFolder, Staged
  <2> QED
    BY <1>1, <1>2, <2>1, SessionFolder DEF StagedFolder
<1> QED
  BY <1>2, <1>3, <1>4 DEF AllStaged

LEMMA EnvStaged ==
  ASSUME Types, AllStaged, EnvNext
  PROVE  AllStaged'
<1>1. ASSUME NEW g \in Files, NEW b \in Content, UserEdit(g, b) PROVE AllStaged'
  <2>1. touched' = touched \cup With({g}) /\ UNCHANGED <<srv, row, drow, plan, pc, todo, failed, pulled>>
    BY <1>1 DEF UserEdit, UserActs, server, db, mirror
  <2>2. \A f \in Files \ touched' : f \notin touched /\ disk'[f] = disk[f]
    BY <1>1, <2>1 DEF With, UserEdit, Types
  <2>3. \A f \in Files \ touched' : Staged(f)'
    BY <2>1, <2>2 DEF AllStaged, Staged, Applying, Known
  <2>4. D \notin touched' => dir' = dir /\ D \notin touched /\ touched' \cap InD = touched \cap InD
    BY <1>1, <2>1 DEF With, UserEdit, Types
  <2> QED
    BY <2>1, <2>3, <2>4 DEF AllStaged, StagedFolder
<1>2. CASE UserFolder
  <2>1. touched' = touched \cup (InD \cup {D}) /\ UNCHANGED <<srv, row, plan, pc, todo, failed, pulled>>
    BY <1>2 DEF UserFolder, UserActs, server, db, mirror
  <2>2. \A f \in Files \ touched' : f \notin touched /\ disk'[f] = disk[f]
    BY <1>2, <2>1 DEF UserFolder
  <2> QED
    BY <2>1, <2>2 DEF AllStaged, Staged, Applying, Known
<1>3. ASSUME UNCHANGED <<disk, dir, row, drow, pc, plan, todo, failed, touched, pulled>> PROVE AllStaged'
  BY <1>3 DEF AllStaged, Staged, StagedFolder, Applying, Known
<1>4. CASE ForeignFolder \/ \E g \in Files : \E b \in Content : ForeignEdit(g, b)
  BY <1>3, <1>4 DEF ForeignFolder, ForeignEdit, OthersAct, vault, mirror
<1>5. CASE Crash
  <2>1. /\ pulled' => pulled /\ row' = row /\ drow' = drow
        /\ UNCHANGED <<disk, dir, srv, touched>> /\ pc' = "off" /\ todo' = {} /\ failed' = {}
    BY <1>5 DEF Crash, vault, server, Off
  <2> QED
    BY <2>1 DEF AllStaged, Staged, StagedFolder, Applying, Known
<1> QED
  BY <1>1, <1>2, <1>4, <1>5 DEF EnvNext

LEMMA PlanStaged ==
  ASSUME Types, PlanRemoteMirror
  PROVE  AllStaged'
<1>1. PICK listed \in SUBSET There(srv), unsummed \in SUBSET There(srv) : Plan(listed, unsummed)
  BY DEF PlanRemoteMirror
<1>2. /\ plan'.stats = disk /\ plan'.ldir = dir /\ UNCHANGED <<disk, dir>> /\ touched' = {}
      /\ pc' = "ready" /\ pulled' = FALSE
  BY <1>1 DEF Plan, FromListing, vault
<1> QED
  BY <1>2 DEF AllStaged, Staged, StagedFolder, Applying, Types

LEMMA DownloadStaged ==
  ASSUME Types, Phases, AllStaged, NEW g \in Files, Download(g)
  PROVE  AllStaged'
<1>1. /\ pc = "down" /\ g \in todo /\ g \in plan.downs /\ plan.list[g] # None /\ todo' = todo \ {g}
      /\ UNCHANGED <<srv, drow, pc, plan, failed, pulled>>
  BY DEF Download, server, Types, PlanOK, There
<1>2. ~pulled
  BY <1>1 DEF Phases
<1>3. CASE touched' = touched \cup With({g}) /\ UNCHANGED <<disk, dir, row>>
  <2>1. ASSUME NEW f \in Files \ touched' PROVE Staged(f)'
    BY <1>1, <1>3, <2>1 DEF AllStaged, Staged, Applying, Known, With
  <2>2. D \notin touched' => D \notin touched /\ touched' \cap InD = touched \cap InD
    BY <1>3 DEF With
  <2> QED
    BY <1>1, <1>3, <2>1, <2>2 DEF AllStaged, StagedFolder
<1>4. CASE /\ srv[g] # None /\ disk' = [disk EXCEPT ![g] = srv[g]] /\ dir' = (dir \/ g \in InD) /\ UNCHANGED touched
           /\ row' = [row EXCEPT ![g] = [hash |-> srv[g], rid |-> plan.list[g], sig |-> srv[g]]]
  <2>1. ASSUME NEW f \in Files \ touched' PROVE Staged(f)'
    <3>1. CASE f = g
      <4>1. srv[g] \in Body /\ plan.list[g] \in Body
        BY <1>1, <1>4 DEF Types, Plans, Content
      <4>2. Known(g)'
        BY <1>4, <4>1, RowFacts DEF Known, Types, Rows
      <4> QED
        BY <1>1, <1>2, <3>1, <4>2 DEF Staged, Applying
    <3>2. CASE f # g
      BY <1>1, <1>4, <2>1, <3>2 DEF AllStaged, Staged, Applying, Known, Types, Rows
    <3> QED
      BY <3>1, <3>2
  <2>2. g \in InD => plan.rdir
    BY <1>1 DEF Types, PlanOK, Holds, There
  <2>3. D \notin touched' => StagedFolder'
    BY <1>1, <1>2, <1>4, <2>2 DEF AllStaged, StagedFolder, Types
  <2> QED
    BY <1>4, <2>1, <2>3 DEF AllStaged
<1> QED
  BY <1>3, <1>4 DEF Download

LEMMA DownloadedStaged ==
  ASSUME Types, Phases, AllStaged, Downloaded
  PROVE  AllStaged'
<1>1. /\ pc = "down" /\ todo = {} /\ pc' = "trash" /\ todo' = DeleteFiles
      /\ UNCHANGED <<disk, dir, srv, row, drow, plan, failed, touched, pulled>>
  BY DEF Downloaded, vault, server, db, history
<1>2. ASSUME NEW f \in Files \ touched' PROVE Staged(f)'
  <2>1. Staged(f) /\ ~pulled
    BY <1>1, <1>2 DEF AllStaged, Phases
  <2>2. plan.list[f] = None /\ f \notin DeleteFiles => plan.stats[f] = None
    BY <1>2 DEF DeleteFiles, There
  <2> QED
    BY <1>1, <2>1, <2>2 DEF Staged, Applying, Known
<1> QED
  BY <1>1, <1>2 DEF AllStaged, StagedFolder, Phases

LEMMA TrashFileStaged ==
  ASSUME Types, Phases, AllStaged, NEW g \in Files, TrashFile(g)
  PROVE  AllStaged'
<1>1. /\ pc = "trash" /\ g \in todo /\ plan.list[g] = None /\ todo' = todo \ {g}
      /\ UNCHANGED <<dir, srv, drow, pc, plan, touched, pulled>>
  BY DEF TrashFile, server, Phases, DeleteFiles
<1>2. \/ disk' = [disk EXCEPT ![g] = None] /\ row' = [row EXCEPT ![g] = None] /\ failed' = failed
      \/ failed' = failed \cup {g} /\ UNCHANGED <<disk, row>>
  BY DEF TrashFile
<1>3. ASSUME NEW f \in Files \ touched' PROVE Staged(f)'
  <2>1. Staged(f) /\ ~pulled
    BY <1>1, <1>3 DEF AllStaged, Phases
  <2>2. CASE f = g
    <3>1. disk'[g] = None \/ g \in failed'
      BY <1>2 DEF Types
    <3>2. f \notin plan.downs
      BY <1>1, <2>2 DEF Types, PlanOK, There
    <3> QED
      BY <1>1, <2>1, <2>2, <3>1, <3>2 DEF Staged, Applying
  <2>3. CASE f # g
    <3>1. disk'[f] = disk[f] /\ row'[f] = row[f] /\ (f \in failed' <=> f \in failed)
      BY <1>2, <2>3 DEF Types, Rows
    <3> QED
      BY <1>1, <2>1, <2>3, <3>1 DEF Staged, Applying, Known
  <2> QED
    BY <2>2, <2>3
<1> QED
  BY <1>1, <1>3 DEF AllStaged, StagedFolder, Phases

LEMMA TrashFolderStaged ==
  ASSUME Types, Phases, AllStaged, TrashFolder
  PROVE  AllStaged'
<1>1. /\ pc = "trash" /\ todo = {} /\ pc' = "create" /\ todo' = {} /\ failed \subseteq failed'
      /\ UNCHANGED <<srv, plan, touched, pulled>> /\ ~pulled
  BY DEF TrashFolder, server, Phases
<1>2. \/ ~DeleteDir /\ UNCHANGED <<disk, dir, row>>
      \/ DeleteDir /\ dir' = FALSE /\ disk' = Out(disk) /\ row' = Out(row)
      \/ DeleteDir /\ D \in failed' /\ UNCHANGED <<disk, dir, row>>
  BY DEF TrashFolder, vault
<1>3. ASSUME NEW f \in Files \ touched' PROVE Staged(f)'
  <2>1. Staged(f)
    BY <1>1, <1>3 DEF AllStaged
  <2>2. CASE disk'[f] = disk[f] /\ row'[f] = row[f]
    BY <1>1, <2>1, <2>2 DEF Staged, Applying, Known
  <2>3. CASE DeleteDir /\ f \in InD /\ disk'[f] = None
    <3>1. plan.list[f] = None /\ f \notin plan.downs
      BY <2>3 DEF DeleteDir, Holds, There, Types, PlanOK
    <3> QED
      BY <1>1, <2>3, <3>1 DEF Staged, Applying
  <2> QED
    BY <1>2, <2>2, <2>3 DEF Out
<1>4. D \notin touched' => StagedFolder'
  <2> SUFFICES ASSUME D \notin touched PROVE ~plan.rdir => D \in failed' \/ ~dir'
    BY <1>1 DEF StagedFolder
  <2>1. dir = plan.ldir \/ plan.rdir
    BY <1>1 DEF AllStaged, StagedFolder
  <2>2. ~plan.rdir => (DeleteDir <=> plan.ldir)
    BY DEF DeleteDir, Types, PlanOK
  <2> QED
    BY <1>2, <2>1, <2>2
<1> QED
  BY <1>1, <1>3, <1>4 DEF AllStaged

LEMMA CreateDirsStaged ==
  ASSUME Types, Phases, AllStaged, CreateDirs
  PROVE  AllStaged'
<1>1. /\ pc = "create" /\ pc' = "track" /\ UNCHANGED <<disk, srv, row, drow, plan, todo, touched, pulled>> /\ ~pulled
      /\ failed' = LeftoverFiles \cup (IF LeftoverDir THEN {D} ELSE {})
      /\ dir' \in {dir, dir \/ CreateDir}
  BY DEF CreateDirs, server, db, Phases
<1>2. ASSUME NEW f \in Files \ touched' PROVE Staged(f)'
  <2>1. Staged(f) /\ todo = {}
    BY <1>1, <1>2 DEF AllStaged, Phases
  <2>2. f \in failed' <=> f \in failed /\ disk[f] # None
    BY <1>1, <1>2, SetsAssumption DEF LeftoverFiles, There
  <2> QED
    BY <1>1, <2>1, <2>2 DEF Staged, Applying, Known
<1>3. D \notin touched' => StagedFolder'
  <2>1. D \in failed' <=> D \in failed /\ dir
    BY <1>1, SetsAssumption DEF LeftoverFiles, LeftoverDir, There
  <2> QED
    BY <1>1, <2>1 DEF AllStaged, StagedFolder, CreateDir, Types
<1> QED
  BY <1>1, <1>2, <1>3 DEF AllStaged

LEMMA ApplyEndsStaged ==
  ASSUME Types, Phases, AllStaged, ApplyEnds
  PROVE  AllStaged'
<1>1. /\ pc = "track" /\ row' = [f \in Files |-> RowFor(f)] /\ drow' = DirTracked /\ pulled' = TRUE
      /\ pc' = "off" /\ failed' = {} /\ todo' = {} /\ UNCHANGED <<disk, dir, srv, touched>>
  BY DEF ApplyEnds, Converge, Off, vault, server
<1>2. ASSUME NEW f \in Files \ touched' PROVE Staged(f)'
  <2>1. /\ Staged(f) /\ row'[f] = RowFor(f) /\ (f \in failed => plan.list[f] = None)
        /\ disk[f] \in Content /\ plan.list[f] \in Content
    BY <1>1, <1>2 DEF AllStaged, Phases, Types, Plans
  <2>2. CASE plan.list[f] = None
    <3>1. CASE f \in failed
      <4>1. disk[f] \in Body /\ RowFor(f) = Same(disk[f])
        BY <1>1, <2>1, <2>2, <3>1 DEF Staged, Content, RowFor, ToTrack, ToDrop, LeftoverRow
      <4> QED
        BY <1>1, <2>1, <4>1, SameIsRow DEF Staged, Applying, Known
    <3>2. CASE f \notin failed
      <4>1. disk[f] = None /\ RowFor(f) = None
        BY <1>1, <2>1, <2>2, <3>2 DEF Staged, Applying, RowFor, ToTrack, ToDrop
      <4> QED
        BY <1>1, <2>1, <4>1, RowFacts DEF Staged, Applying, Known
    <3> QED
      BY <3>1, <3>2
  <2>3. CASE plan.list[f] # None /\ f \in plan.downs
    BY <1>1, <2>1, <2>3 DEF Staged, Applying, Known, RowFor, ToTrack, ToDrop
  <2>4. CASE plan.list[f] # None /\ f \notin plan.downs
    <3>1. disk[f] = plan.list[f] /\ ToTrack(f) /\ disk[f] \in Body
      BY <1>1, <1>2, <2>1, <2>4 DEF Staged, ToTrack, Types, PlanOK, Content
    <3>2. HashOf(RowFor(f)) = disk[f]
      BY <3>1, RowFacts DEF RowFor
    <3> QED
      BY <1>1, <2>1, <3>2 DEF Staged, Applying, Known
  <2> QED
    BY <2>2, <2>3, <2>4
<1>3. D \notin touched' => StagedFolder'
  BY <1>1 DEF AllStaged, StagedFolder, DirTracked, Types, Plans
<1> QED
  BY <1>1, <1>2, <1>3 DEF AllStaged

LEMMA NextStaged ==
  ASSUME NoOverlap, Types, Phases, AllStaged, [Next]_vars
  PROVE  AllStaged'
<1>1. CASE ApplyNext
  BY <1>1, DownloadStaged, DownloadedStaged, TrashFileStaged, TrashFolderStaged,
     CreateDirsStaged, ApplyEndsStaged DEF ApplyNext
<1>2. CASE Cancel
  <2>1. pc = "ready" /\ pc' = "off" /\ UNCHANGED <<disk, dir, row, drow, touched, pulled>>
    BY <1>2 DEF Cancel, Off, vault, server, db, history
  <2> QED
    BY <2>1 DEF AllStaged, Phases, Applying, Staged, StagedFolder
<1>3. CASE Confirm
  <2>1. /\ pc = "ready" /\ pc' = "down" /\ todo' = plan.downs
        /\ UNCHANGED <<disk, dir, row, drow, plan, failed, touched, pulled>>
    BY <1>3 DEF Confirm, vault, server, db, history
  <2> QED
    BY <2>1 DEF AllStaged, Phases, Applying, Staged, StagedFolder
<1>4. CASE UNCHANGED vars
  BY <1>4 DEF vars, AllStaged, Applying, Staged, StagedFolder, Known
<1> QED
  BY <1>1, <1>2, <1>3, <1>4, EnvStaged, PlanStaged, SessionStaged DEF Next

LEMMA StepSendsNothing ==
  ASSUME Types, AllStaged, pulled, SyncSession
  PROVE  /\ \A f \in Files \ touched : srv'[f] = srv[f]
         /\ D \notin touched => rdir' = rdir
<1>1. PICK stuck : Session(stuck)
  BY DEF SyncSession
<1>2. \A f \in Files \ touched : Known(f)
  BY DEF AllStaged, Staged
<1>3. D \notin touched => dir = drow /\ \A f \in InD : Known(f)
  BY <1>2, SetsAssumption DEF AllStaged, StagedFolder
<1> QED
  BY <1>1, <1>2, <1>3, SessionKnown, SessionFolder

\* The sessions after a mirror change nothing on the server that the user did not
\* touch, neither by what the mirror removed nor by what it failed to remove or to
\* create, wherever failures, crashes and other devices fall: provided that no session
\* overlapped the apply.
THEOREM NothingSentBack == ASSUME NoOverlap PROVE Spec => NothingIsSentBack
<1>1. Init => AllApplied /\ AllStaged
  BY DEF Init, AllApplied, Phases, Applying, Applied, AllStaged, Staged, StagedFolder
<1>2. Types /\ AllApplied /\ AllStaged /\ [Next]_vars => AllApplied' /\ AllStaged'
  BY NextApplied, NextStaged DEF AllApplied
<1>3. Types /\ AllStaged /\ [Next]_vars =>
        [pulled /\ server' # server /\ SyncSession =>
           /\ \A f \in Files \ touched : srv'[f] = srv[f]
           /\ D \notin touched => rdir' = rdir]_vars
  BY StepSendsNothing
<1> QED
  BY <1>1, <1>2, <1>3, TypesInvariant, PTL DEF Spec, NothingIsSentBack
=============================================================================
