---------------------------- MODULE Plugins_proofs ----------------------------
(***************************************************************************)
(* What a session may do to a plugin's bundle, whatever the versions, the  *)
(* settings and the environment: settings wait for the restart, only an    *)
(* uninstallation deletes, and an armed root ETag hides nothing from the   *)
(* next session but what somebody put back.                                *)
(***************************************************************************)
EXTENDS Plugins, TLAPS

Etags == {"none", "same", "stale"}
Rows == [Files -> Row \cup {None}]
Saved == [row : Rows, etag : Etags, scope : BOOLEAN]

\* What the session's phases know of the files that are left.
Looked ==
    /\ inc # "in" => todo = {}
    /\ ~InSession => todo = {} /\ inc = "none"
    /\ pc = "files" => todo \subseteq There(list)
    /\ pc = "up" => \A f \in Code : Included(f) /\ stats[f] = None => disk[f] = None
    /\ pc = "missing" => \A f \in todo : row[f] # None /\ (f \in Code => disk[f] = None)
    /\ "data" \in todo => Included("data")

\* TypeOK, one variable at a time.
Types ==
    /\ disk \in [Files -> Content] /\ srv \in [Files -> Content]
    /\ list \in [Files -> Content] /\ stats \in [Files -> Content]
    /\ row \in Rows /\ etag \in Etags
    /\ scope \in BOOLEAN /\ listed \in BOOLEAN /\ enabled \in BOOLEAN /\ updated \in BOOLEAN
    /\ awaiting \in BOOLEAN /\ bad \in BOOLEAN /\ on \in BOOLEAN /\ held \in BOOLEAN
    /\ wrote \in BOOLEAN /\ waited \in BOOLEAN
    /\ running \in Content /\ later \in {"local", "remote", "hold"}
    /\ todo \subseteq Files /\ removed \subseteq Files
    /\ pc \in {"off", "files", "up", "missing", "absent"}
    /\ inc \in {"none", "in", "unavailable", "ignored", "unlisted"}
    /\ dir \in {"none", "local", "remote", "hold"} /\ (held => dir = "remote" /\ on)

Typed == TypeOK /\ saved \in Saved /\ Looked

\* The kinds of change one turn may make to its file.
Same(f) == UNCHANGED <<disk, srv, row, wrote>>
Noted(f) == UNCHANGED <<disk, srv, wrote>> /\ disk[f] # None /\ \E r \in Row : Set(f, r)
Sent(f) == /\ UNCHANGED <<disk, wrote>> /\ disk[f] # None
           /\ srv' = [srv EXCEPT ![f] = disk[f]] /\ \E r \in Row : Set(f, r)
Got(f) == /\ UNCHANGED srv /\ srv[f] # None /\ disk' = [disk EXCEPT ![f] = srv[f]]
          /\ Written(f) /\ \E r \in Row : Set(f, r)
Gone(f) == UNCHANGED <<disk, wrote>> /\ srv' = [srv EXCEPT ![f] = None] /\ Set(f, None)
Forgot(f) == /\ UNCHANGED <<srv, wrote>> /\ Set(f, None)
             /\ disk' = disk \/ disk' = [disk EXCEPT ![f] = None]

\* What a turn leaves alone, and what it may do besides.
Around(f) ==
    /\ f \in todo /\ todo' = todo \ {f} /\ InSession
    /\ UNCHANGED <<pc, list, stats, inc, dir, on, held, waited, removed, scope, device>>
    /\ etag' \in Etags /\ bad' \in BOOLEAN
    /\ saved' = saved \/ saved' = [saved EXCEPT !.etag = Moved(@)]

\* Code of the server replaces code here only when it is the newer side, the ordinary
\* rules apply, or the file is missing though tracked.
Fetches(f) == f = "data" \/ dir \in {"none", "remote"} \/ (disk[f] = None /\ row[f] # None)
\* A file is deleted on the server when it is tracked and missing here, or, if it is the
\* settings, was when the session looked.
Deletes(f) == row[f] # None /\ (disk[f] = None \/ f = "data")

Turned(f) ==
    /\ Around(f) /\ (pc = "up" => disk' = disk)
    /\ \/ Same(f) \/ Noted(f) \/ Sent(f) \/ Forgot(f)
       \/ Got(f) /\ Fetches(f)
       \/ Gone(f) /\ Deletes(f)
-----------------------------------------------------------------------------
LEMMA TypeParts == TypeOK <=> Types
  BY DEF TypeOK, Types, Rows, Etags

LEMMA TypePartsNext == TypeOK' <=> Types'
  BY TypeParts, PTL

LEMMA MovedTypes == \A e \in Etags : Moved(e) \in Etags
  BY DEF Moved, Etags

LEMMA BodyRow == \A b, c \in Body : [hash |-> b, rid |-> c] \in Row /\ Both(b) \in Row
  BY DEF Row, Both

\* The pieces of a turn.
LEMMA DownloadDoes ==
    ASSUME Typed, NEW f \in Files, list[f] # None, Download(f)
    PROVE  (Same(f) \/ Got(f)) /\ Still /\ bad' \in BOOLEAN
<1>1. CASE srv[f] = None
  BY <1>1, TypeParts DEF Types, Download, Keep, bundle, Still, Same, Typed
<1>2. CASE srv[f] # None
  <2>1. srv[f] \in Body /\ list[f] \in Body
    BY <1>2, TypeParts DEF Types, Typed, Content
  <2> QED
    BY <1>2, <2>1, BodyRow, TypeParts DEF Types, Download, Fine, Still, Got, Typed
<1> QED
  BY <1>1, <1>2

\* etag and saved of a turn.
Carried == etag' \in Etags /\ (saved' = saved \/ saved' = [saved EXCEPT !.etag = Moved(@)])

LEMMA StillCarried ==
    ASSUME Typed, Still \/ Touch \/ (etag' = "none" /\ UNCHANGED saved)
    PROVE  Carried
  BY TypeParts, MovedTypes DEF Types, Still, Touch, Carried, Typed, Etags

LEMMA UploadDoes ==
    ASSUME Typed, NEW f \in Files, disk[f] # None, Upload(f)
    PROVE  Sent(f) /\ Carried /\ bad' \in BOOLEAN
<1>1. disk[f] \in Body
  BY TypeParts DEF Types, Typed, Content
<1>2. Carried /\ bad' \in BOOLEAN
  BY StillCarried, TypeParts DEF Types, Upload, Fine, Typed
<1>3. Sent(f)
  BY <1>1, BodyRow DEF Upload, Sent
<1> QED
  BY <1>2, <1>3

LEMMA ResolveDoes ==
    ASSUME Typed, NEW f \in Files, list[f] # None, Resolve(f)
    PROVE  /\ Same(f) \/ Noted(f) \/ Sent(f) \/ (Got(f) /\ (f = "data" \/ dir \in {"none", "remote"}))
           /\ Carried /\ bad' \in BOOLEAN
<1>1. CASE disk[f] = list[f]
  <2>1. disk[f] \in Body
    BY <1>1, TypeParts DEF Types, Typed, Content
  <2>2. Converged(f)
    BY <1>1 DEF Resolve
  <2>3. Noted(f)
    BY <1>1, <2>1, <2>2, BodyRow DEF Converged, Noted, bundle
  <2>4. Carried /\ bad' \in BOOLEAN
    BY <2>2, StillCarried, TypeParts DEF Types, Converged, Fine, Typed
  <2> QED
    BY <2>3, <2>4
<1>2. CASE disk[f] # list[f]
  <2>1. PICK r \in Rule(f) :
         \/ r = "local" /\ disk[f] # None /\ Upload(f)
         \/ r = "local" /\ disk[f] = None /\ bad' = TRUE /\ Keep /\ UNCHANGED <<wrote, budgets>>
         \/ r = "remote" /\ Download(f)
         \/ r = "hold" /\ bad' = TRUE /\ Keep /\ UNCHANGED <<wrote, budgets>>
         \/ r = "tie" /\ etag' = "none" /\ UNCHANGED <<bundle, row, saved, wrote>> /\ Fine
    BY <1>2 DEF Resolve
  <2>2. CASE r = "local" /\ disk[f] # None /\ Upload(f)
    BY <2>2, UploadDoes
  <2>3. CASE bad' = TRUE /\ Keep /\ UNCHANGED <<wrote, budgets>>
    <3>1. Same(f) /\ bad' \in BOOLEAN
      BY <2>3 DEF Keep, bundle, Same
    <3>2. Carried
      BY <2>3, StillCarried DEF Keep
    <3> QED
      BY <3>1, <3>2
  <2>4. CASE r = "remote" /\ Download(f)
    <3>1. f = "data" \/ dir \in {"none", "remote"}
      BY <2>4, TypeParts DEF Types, Rule, Code, Files, Typed
    <3>2. (Same(f) \/ Got(f)) /\ Still /\ bad' \in BOOLEAN
      BY <2>4, DownloadDoes
    <3>3. Carried
      BY <3>2, StillCarried
    <3> QED
      BY <3>1, <3>2, <3>3
  <2>5. CASE etag' = "none" /\ UNCHANGED <<bundle, row, saved, wrote>> /\ Fine
    <3>1. Same(f) /\ bad' \in BOOLEAN
      BY <2>5, TypeParts DEF Types, bundle, Same, Fine, Typed
    <3>2. Carried
      BY <2>5, StillCarried
    <3> QED
      BY <3>1, <3>2
  <2> QED
    BY <2>1, <2>2, <2>3, <2>4, <2>5
<1> QED
  BY <1>1, <1>2

LEMMA UploadOrConflictDoes ==
    ASSUME Typed, NEW f \in Files, list[f] # None, disk[f] # None, UploadOrConflict(f)
    PROVE  /\ Same(f) \/ Noted(f) \/ Sent(f) \/ (Got(f) /\ (f = "data" \/ dir \in {"none", "remote"}))
           /\ Carried /\ bad' \in BOOLEAN
  BY UploadDoes, ResolveDoes DEF UploadOrConflict

LEMMA OrdinaryDoes ==
    ASSUME Typed, NEW f \in Files, list[f] # None, Ordinary(f)
    PROVE  /\ Same(f) \/ Noted(f) \/ Sent(f) \/ (Gone(f) /\ Deletes(f))
              \/ (Got(f) /\ disk[f] # list[f] /\ ((disk[f] # None \/ row[f] = None) \/ Fetches(f)))
           /\ Carried /\ bad' \in BOOLEAN
<1>1. CASE disk[f] = None /\ row[f] # None /\ Delete(f, list[f])
  <2>1. CASE list[f] = Hash(f)
    <3>1. Gone(f) /\ Deletes(f)
      BY <1>1, <2>1 DEF Delete, Gone, Deletes
    <3>2. Carried /\ bad' \in BOOLEAN
      BY <1>1, <2>1, StillCarried, TypeParts DEF Types, Delete, Fine, Typed
    <3> QED
      BY <3>1, <3>2
  <2>2. CASE list[f] # Hash(f)
    <3>1. (Same(f) \/ Got(f)) /\ Still /\ bad' \in BOOLEAN
      BY <1>1, <2>2, DownloadDoes DEF Delete
    <3>2. Carried
      BY <3>1, StillCarried
    <3>3. Fetches(f)
      BY <1>1 DEF Fetches
    <3> QED
      BY <1>1, <3>1, <3>2, <3>3
  <2> QED
    BY <2>1, <2>2
<1>2. CASE disk[f] = list[f] /\ Converged(f)
  <2>1. disk[f] \in Body
    BY <1>2, TypeParts DEF Types, Typed, Content
  <2>2. Noted(f)
    BY <1>2, <2>1, BodyRow DEF Converged, Noted, bundle
  <2>3. Carried /\ bad' \in BOOLEAN
    BY <1>2, StillCarried, TypeParts DEF Types, Converged, Fine, Typed
  <2> QED
    BY <2>2, <2>3
<1>3. CASE Nothing
  <2>1. Same(f) /\ bad' \in BOOLEAN
    BY <1>3, TypeParts DEF Types, Nothing, Keep, bundle, Same, Fine, Typed
  <2>2. Carried
    BY <1>3, StillCarried DEF Nothing, Keep
  <2> QED
    BY <2>1, <2>2
<1>4. CASE LocalEdit(f) /\ disk[f] # list[f] /\ (UploadOrConflict(f) \/ Resolve(f))
  BY <1>4, UploadOrConflictDoes, ResolveDoes DEF LocalEdit
<1>5. CASE (disk[f] # None \/ row[f] = None) /\ disk[f] # list[f] /\ Download(f)
  <2>1. (Same(f) \/ Got(f)) /\ Still /\ bad' \in BOOLEAN
    BY <1>5, DownloadDoes
  <2>2. Carried
    BY <2>1, StillCarried
  <2> QED
    BY <1>5, <2>1, <2>2
<1> QED
  BY <1>1, <1>2, <1>3, <1>4, <1>5 DEF Ordinary

\* What a turn leaves alone, with how it carried the ETag.
LEMMA AroundTurn ==
    ASSUME Typed, NEW f \in Files, NEW phase, phase # "off", Turn(phase, f), Carried, bad' \in BOOLEAN,
           UNCHANGED <<pc, list, stats, inc, dir, on, held, waited, removed, scope>>
    PROVE  Around(f)
  BY DEF Turn, Carried, Around, InSession

LEMMA FailsDoes == ASSUME Typed, NEW f \in Files, Fails PROVE Same(f) /\ Carried /\ bad' \in BOOLEAN
<1>1. Same(f) /\ bad' \in BOOLEAN
  BY DEF Fails, Keep, bundle, Same
<1>2. Carried
  BY StillCarried DEF Fails, Keep
<1> QED
  BY <1>1, <1>2

LEMMA ProcessRemoteDoes ==
    ASSUME Typed, NEW f \in Files, ProcessRemote(f)
    PROVE  Turned(f)
<1>1. pc = "files" /\ list[f] # None /\ Turn("files", f)
      /\ UNCHANGED <<pc, list, stats, inc, dir, on, held, waited, removed, scope>>
  BY DEF ProcessRemote, Turn, Typed, Looked, There
<1>2. ASSUME Same(f) \/ Noted(f) \/ Sent(f) \/ (Got(f) /\ Fetches(f)) \/ (Gone(f) /\ Deletes(f)),
             Carried, bad' \in BOOLEAN
      PROVE  Turned(f)
  <2>1. Around(f)
    BY <1>1, <1>2, AroundTurn
  <2> QED
    BY <1>1, <1>2, <2>1 DEF Turned
<1>3. CASE dir = "remote" /\ Download(f)
  <2>1. (Same(f) \/ Got(f)) /\ Still /\ bad' \in BOOLEAN
    BY <1>1, <1>3, DownloadDoes
  <2>2. Carried
    BY <2>1, StillCarried
  <2>3. Fetches(f)
    BY <1>3 DEF Fetches
  <2> QED
    BY <1>2, <2>1, <2>2, <2>3
<1>4. CASE Action(f) = "transfer" /\ dir = "local" /\ UploadOrConflict(f)
  <2>1. disk[f] # None
    BY <1>4 DEF Action
  <2>2. Same(f) \/ Noted(f) \/ Sent(f) \/ (Got(f) /\ (f = "data" \/ dir \in {"none", "remote"}))
    BY <1>1, <1>4, <2>1, UploadOrConflictDoes
  <2>3. Carried /\ bad' \in BOOLEAN
    BY <1>1, <1>4, <2>1, UploadOrConflictDoes
  <2> QED
    BY <1>2, <2>2, <2>3 DEF Fetches
<1>5. CASE Resolve(f)
  <2>1. Same(f) \/ Noted(f) \/ Sent(f) \/ (Got(f) /\ (f = "data" \/ dir \in {"none", "remote"}))
    BY <1>1, <1>5, ResolveDoes
  <2>2. Carried /\ bad' \in BOOLEAN
    BY <1>1, <1>5, ResolveDoes
  <2> QED
    BY <1>2, <2>1, <2>2 DEF Fetches
<1>6. CASE Nothing
  <2>1. Same(f) /\ bad' \in BOOLEAN
    BY <1>6, TypeParts DEF Types, Nothing, Keep, bundle, Same, Fine, Typed
  <2>2. Carried
    BY <1>6, StillCarried DEF Nothing, Keep
  <2> QED
    BY <1>2, <2>1, <2>2
<1>7. CASE Action(f) = "ordinary" /\ Ordinary(f)
  <2>1. disk[f] # list[f] /\ (disk[f] # None \/ row[f] = None) => Fetches(f)
    BY <1>1, <1>7, TypeParts DEF Types, Action, Fetches, Typed
  <2>2. \/ Same(f) \/ Noted(f) \/ Sent(f) \/ (Gone(f) /\ Deletes(f))
        \/ (Got(f) /\ disk[f] # list[f] /\ ((disk[f] # None \/ row[f] = None) \/ Fetches(f)))
    BY <1>1, <1>7, OrdinaryDoes
  <2>3. Carried /\ bad' \in BOOLEAN
    BY <1>1, <1>7, OrdinaryDoes
  <2> QED
    BY <1>2, <2>1, <2>2, <2>3
<1>8. CASE Fails
  BY <1>2, <1>8, FailsDoes
<1> QED
  BY <1>3, <1>4, <1>5, <1>6, <1>7, <1>8 DEF ProcessRemote

LEMMA UploadLocalDoes ==
    ASSUME Typed, NEW f \in Files, UploadLocal(f)
    PROVE  Turned(f)
<1>1. Turn("up", f) /\ UNCHANGED <<pc, list, stats, inc, dir, on, held, waited, removed, scope>>
  BY DEF UploadLocal
<1>2. ASSUME Same(f) \/ Sent(f), Carried, bad' \in BOOLEAN PROVE Turned(f)
  <2>1. Around(f) /\ disk' = disk
    BY <1>1, <1>2, AroundTurn DEF Same, Sent
  <2> QED
    BY <1>2, <2>1 DEF Turned
<1>3. CASE LocalEdit(f) /\ Upload(f)
  BY <1>2, <1>3, UploadDoes DEF LocalEdit
<1>4. CASE Nothing
  <2>1. Same(f) /\ bad' \in BOOLEAN
    BY <1>4, TypeParts DEF Types, Nothing, Keep, bundle, Same, Fine, Typed
  <2>2. Carried
    BY <1>4, StillCarried DEF Nothing, Keep
  <2> QED
    BY <1>2, <2>1, <2>2
<1>5. CASE Fails
  BY <1>2, <1>5, FailsDoes
<1> QED
  BY <1>3, <1>4, <1>5 DEF UploadLocal

LEMMA DeleteMissingDoes ==
    ASSUME Typed, NEW f \in Files, DeleteMissing(f)
    PROVE  Turned(f)
<1>1. /\ Turn("missing", f) /\ UNCHANGED <<pc, list, stats, inc, dir, on, held, waited, removed, scope>>
      /\ row[f] # None /\ (f \in Code => disk[f] = None)
  BY DEF DeleteMissing, Turn, Typed, Looked
<1>2. f = "data" \/ disk[f] = None
  BY <1>1 DEF Files
<1>3. ASSUME Forgot(f) \/ Got(f) \/ Gone(f) \/ Same(f), Carried, bad' \in BOOLEAN PROVE Turned(f)
  <2>1. Around(f) /\ Fetches(f) /\ Deletes(f)
    BY <1>1, <1>2, <1>3, AroundTurn DEF Fetches, Deletes
  <2> QED
    BY <1>1, <1>3, <2>1 DEF Turned, Turn
<1>4. CASE srv[f] = None /\ Set(f, None) /\ UNCHANGED <<bundle, wrote>> /\ Still /\ Fine
  <2>1. Forgot(f)
    BY <1>4 DEF Forgot, bundle
  <2>2. Carried /\ bad' \in BOOLEAN
    BY <1>4, StillCarried, TypeParts DEF Types, Fine, Typed
  <2> QED
    BY <1>3, <2>1, <2>2
<1>5. CASE srv[f] # None /\ srv[f] = Hash(f) /\ Delete(f, srv[f])
  <2>1. Gone(f)
    BY <1>5 DEF Delete, Gone
  <2>2. Carried /\ bad' \in BOOLEAN
    BY <1>5, StillCarried, TypeParts DEF Types, Delete, Fine, Typed
  <2> QED
    BY <1>3, <2>1, <2>2
<1>6. CASE /\ srv[f] # None /\ disk' = [disk EXCEPT ![f] = srv[f]] /\ Set(f, Both(srv[f]))
           /\ Written(f) /\ UNCHANGED srv /\ Still /\ Fine
  <2>1. srv[f] \in Body
    BY <1>6, TypeParts DEF Types, Typed, Content
  <2>2. Got(f)
    BY <1>6, <2>1, BodyRow DEF Got
  <2>3. Carried /\ bad' \in BOOLEAN
    BY <1>6, StillCarried, TypeParts DEF Types, Fine, Typed
  <2> QED
    BY <1>3, <2>2, <2>3
<1> QED
  BY <1>4, <1>5, <1>6 DEF DeleteMissing

LEMMA TrashAbsentDoes ==
    ASSUME Typed, NEW f \in Files, TrashAbsent(f)
    PROVE  Turned(f)
<1>1. Turn("absent", f) /\ UNCHANGED <<pc, list, stats, inc, dir, on, held, waited, removed, scope>>
  BY DEF TrashAbsent, Rest, plugin
<1>2. Carried /\ bad' \in BOOLEAN
  BY StillCarried, TypeParts DEF Types, TrashAbsent, Fine, Typed
<1>3. Same(f) \/ Forgot(f)
  <2>1. UNCHANGED <<srv, wrote>>
    BY DEF TrashAbsent, Rest, plugin
  <2>2. \/ disk' = [disk EXCEPT ![f] = None] /\ Set(f, None)
        \/ UNCHANGED <<disk, row>>
    BY DEF TrashAbsent
  <2> QED
    BY <2>1, <2>2 DEF Same, Forgot
<1>4. Around(f)
  BY <1>1, <1>2, AroundTurn
<1> QED
  BY <1>1, <1>3, <1>4 DEF Turned, Turn

\* All a session does to a file.
FileStep(f) == ProcessRemote(f) \/ UploadLocal(f) \/ DeleteMissing(f) \/ TrashAbsent(f)

LEMMA FileStepTurns == ASSUME Typed, NEW f \in Files, FileStep(f) PROVE Turned(f)
  BY ProcessRemoteDoes, UploadLocalDoes, DeleteMissingDoes, TrashAbsentDoes DEF FileStep
-----------------------------------------------------------------------------
(* The types, and what the phases know of their files. *)

LEMMA InitTyped == Init => Typed
<1> SUFFICES ASSUME Init PROVE Typed
  OBVIOUS
<1>1. \A b, d \in Content : Of(b, d) \in [Files -> Content]
  BY DEF Of
<1>2. /\ disk \in [Files -> Content] /\ srv \in [Files -> Content]
      /\ row \in Rows /\ scope \in BOOLEAN /\ listed \in BOOLEAN
      /\ running \in Content /\ enabled \in BOOLEAN
  <2>1. CASE Untracked
    BY <1>1, <2>1 DEF Untracked, Empty, Rows, Content
  <2>2. CASE InSync
    <3>1. PICK b \in Body : disk = Of(b, b) /\ running = b
      BY <2>2 DEF InSync
    <3>2. \A f \in Files : disk[f] = b
      BY <3>1 DEF Of
    <3>3. row \in Rows
      BY <2>2, <3>2, BodyRow DEF InSync, Rows
    <3> QED
      BY <1>1, <2>2, <3>1, <3>3 DEF InSync, Content
  <2> QED
    BY <2>1, <2>2 DEF Init
<1>3. list \in [Files -> Content] /\ stats \in [Files -> Content]
  BY DEF Init, Idle, Empty, Content
<1>4. later \in {"local", "remote", "hold"}
  BY DEF Init, Times
<1>5. TypeOK
  <2>1. Types
    BY <1>2, <1>3, <1>4 DEF Init, Idle, Types, Etags
  <2> QED
    BY <2>1, TypeParts
<1>6. saved \in Saved
  BY <1>2 DEF Init, Saved, Etags
<1>7. Looked
  BY DEF Init, Idle, Looked, InSession
<1> QED
  BY <1>5, <1>6, <1>7 DEF Typed

\* A session that is no more knows nothing.
LEMMA OffLooked == ASSUME pc' = "off", todo' = {}, inc' = "none" PROVE Looked'
  BY DEF Looked, InSession

LEMMA DeviceTyped == ASSUME Typed, DeviceNext PROVE Typed'
<1>0. Types /\ saved \in Saved
  BY TypeParts DEF Typed
<1>a. \A b, d \in Content : Of(b, d) \in [Files -> Content]
  BY DEF Of
<1>b. \A b, c \in Content : Times(b, c) \subseteq {"local", "remote", "hold"}
  BY DEF Times
<1>c. ASSUME Between, Types' PROVE Typed'
  <2>1. Looked'
    <3>1. pc' = "off" /\ todo' = {} /\ inc' = "none"
      BY <1>c DEF Between, session, InSession, Typed, Looked
    <3> QED
      BY <3>1, OffLooked
  <2>2. saved' \in Saved
    BY <1>0, <1>c DEF Between
  <2> QED
    BY <1>c, <2>1, <2>2, TypePartsNext DEF Typed
<1>d. ASSUME OthersAct, srv' \in [Files -> Content], later' \in {"local", "remote", "hold"} PROVE Typed'
  <2>1. UNCHANGED <<disk, row, scope, listed, enabled, running, updated, awaiting>> /\ UNCHANGED session
        /\ UNCHANGED removed /\ etag' = Moved(etag) /\ saved' = [saved EXCEPT !.etag = Moved(@)]
    BY <1>d DEF OthersAct
  <2>2. Types'
    BY <1>0, <1>d, <2>1, MovedTypes DEF Types, session
  <2>3. saved' \in Saved
    BY <1>0, <2>1, MovedTypes DEF Saved
  <2>4. Looked'
    BY <2>1 DEF Typed, Looked, session, InSession, Included
  <2> QED
    BY <2>2, <2>3, <2>4, TypePartsNext DEF Typed
<1>1. ASSUME NEW b \in Body, Install(b) PROVE Typed'
  <2>1. Types'
    <3>1. disk["data"] \in Content /\ srv["manifest"] \in Content /\ b \in Content
      BY <1>0 DEF Types, Files, Code, Content
    <3>2. /\ disk' \in [Files -> Content] /\ later' \in {"local", "remote", "hold"}
          /\ running' \in Content
      BY <1>1, <1>a, <1>b, <3>1 DEF Install, Content
    <3>3. removed' \subseteq Files
      BY <1>0, <1>1 DEF Install, Types
    <3> QED
      BY <1>0, <1>1, <3>2, <3>3 DEF Install, Between, Types, db, session
  <2> QED
    BY <1>1, <1>c, <2>1 DEF Install
<1>2. ASSUME NEW b \in Body, Publish(b) PROVE Typed'
  <2>1. srv' \in [Files -> Content]
    BY <1>0, <1>2, <1>a DEF Publish, Types, Content, Files
  <2>2. later' \in {"local", "remote", "hold"}
    BY <1>0, <1>2, <1>b DEF Publish, Types, Content, Files, Code
  <2> QED
    BY <1>2, <1>d, <2>1, <2>2 DEF Publish
<1>3. ASSUME NEW b \in Body, ForeignSettings(b) PROVE Typed'
  <2>1. srv' \in [Files -> Content] /\ later' = later
    BY <1>0, <1>3 DEF ForeignSettings, Types, Content
  <2> QED
    BY <1>0, <1>3, <1>d, <2>1 DEF ForeignSettings, Types
<1>4. ASSUME NEW x \in BOOLEAN, Enable(x) PROVE Typed'
  <2>1. Types'
    BY <1>0, <1>4 DEF Enable, Between, Types, db, session, Content, Files, Code
  <2> QED
    BY <1>4, <1>c, <2>1 DEF Enable
<1>5. ASSUME NEW x \in BOOLEAN, SetListed(x) PROVE Typed'
  <2>1. Types'
    BY <1>0, <1>5 DEF SetListed, Between, Types, db, session
  <2> QED
    BY <1>5, <1>c, <2>1 DEF SetListed
<1>6. CASE Uninstall
  <2>1. disk' \in [Files -> Content] /\ There(disk) \subseteq Files
    BY <1>6 DEF Uninstall, Empty, Content, There
  <2>2. Types'
    <3>1. removed' \subseteq Files /\ running' \in Content /\ enabled' \in BOOLEAN
      BY <1>0, <1>6, <2>1 DEF Uninstall, Types, Content
    <3> QED
      BY <1>0, <1>6, <2>1, <3>1 DEF Uninstall, Between, Types, db, session
  <2> QED
    BY <1>6, <1>c, <2>2 DEF Uninstall
<1>7. CASE UpdateApp
  <2>1. Types'
    BY <1>0, <1>7 DEF UpdateApp, Between, Types, db, session
  <2> QED
    BY <1>7, <1>c, <2>1 DEF UpdateApp
<1>8. CASE SaveSettings
  <2>1. /\ disk' = [disk EXCEPT !["data"] = running] /\ removed' = removed \ {"data"}
        /\ UNCHANGED srv /\ UNCHANGED db /\ UNCHANGED saved /\ UNCHANGED session /\ UNCHANGED device
    BY <1>8 DEF SaveSettings
  <2>2. Types'
    BY <1>0, <2>1 DEF Types, db, session, device, Files
  <2>3. Looked'
    BY <1>0, <2>1 DEF Typed, Looked, db, session, device, InSession, Included, Code, Types
  <2> QED
    BY <1>0, <2>1, <2>2, <2>3, TypePartsNext DEF Typed
<1>9. CASE Restart
  <2>1. running' \in Content
    BY <1>0, <1>9 DEF Restart, Reload, Types, Content, Files, Code
  <2>2. /\ UNCHANGED <<disk, listed, enabled, updated, removed, later>>
        /\ awaiting' \in BOOLEAN
        /\ UNCHANGED srv /\ UNCHANGED db /\ UNCHANGED session
    BY <1>9 DEF Restart, Reload, Between
  <2>3. Types'
    BY <1>0, <2>1, <2>2 DEF Types, db, session
  <2> QED
    BY <1>9, <1>c, <2>3 DEF Restart
<1>10. CASE Crash
  <2>1. Empty \in [Files -> Content]
    BY DEF Empty, Content
  <2>2. /\ row' = saved.row /\ etag' = saved.etag /\ scope' = saved.scope /\ saved' = saved
        /\ saved.row \in Rows /\ saved.etag \in Etags /\ saved.scope \in BOOLEAN
    BY <1>0, <1>10 DEF Crash, Saved
  <2>3. Types'
    BY <1>0, <1>10, <2>1, <2>2 DEF Crash, Drop, Reload, Types, bundle, Content, Files, Code
  <2>4. Looked'
    BY <1>10, OffLooked DEF Crash, Drop
  <2> QED
    BY <1>0, <2>2, <2>3, <2>4, TypePartsNext DEF Typed
<1>11. CASE ForeignUninstall
  <2>1. srv' \in [Files -> Content] /\ later' = later
    BY <1>11 DEF ForeignUninstall, Empty, Content
  <2> QED
    BY <1>0, <1>11, <1>d, <2>1 DEF ForeignUninstall, Types
<1> QED
  BY <1>1, <1>2, <1>3, <1>4, <1>5, <1>6, <1>7, <1>8, <1>9, <1>10, <1>11 DEF DeviceNext

LEMMA PrepareTyped == ASSUME Typed, NEW l \in [Files -> Content], ~InSession, Prepare(l), etag' \in Etags
                      PROVE  Typed'
<1>0. Types /\ saved \in Saved
  BY TypeParts DEF Typed
<1>1. /\ inc' \in {"none", "in", "unavailable", "ignored", "unlisted"}
      /\ dir' \in {"none", "local", "remote", "hold"}
  <2>1. CASE listed /\ Evaluate(l)
    <3>1. dir' = "none" \/ dir' = Direction(disk["manifest"], l["manifest"])
      BY <2>1 DEF Evaluate
    <3>2. Direction(disk["manifest"], l["manifest"]) \in {"none", "local", "remote", "hold"}
      BY <1>0 DEF Direction, BundleDirection, NewerSide, Types
    <3> QED
      BY <2>1, <3>1, <3>2 DEF Evaluate
  <2>2. CASE ~listed
    BY <2>2 DEF Prepare
  <2> QED
    BY <2>1, <2>2 DEF Prepare
<1>2. /\ list' = l /\ scope' = listed /\ on' = enabled /\ waited' = awaiting /\ wrote' = FALSE
      /\ held' = (dir' = "remote" /\ enabled) /\ pc' = "files"
      /\ UNCHANGED <<bundle, saved, device, stats, bad, removed>>
      /\ todo' = IF inc' # "in" THEN {} ELSE There(l) \ (IF awaiting \/ held' THEN {"data"} ELSE {})
  BY DEF Prepare, HoldsData
<1>3. row' \in Rows
  <2>1. row' = Empty \/ row' = row
    BY DEF Prepare, DropStale
  <2>2. Empty \in Rows
    BY DEF Empty, Rows
  <2> QED
    BY <1>0, <2>1, <2>2 DEF Types
<1>4. todo' \subseteq There(l) /\ There(l) \subseteq Files
  BY <1>2 DEF There
<1>5. Types'
  <2>1. UNCHANGED <<disk, srv, listed, enabled, running, updated, awaiting, later, stats, bad, removed>>
    BY <1>2 DEF bundle, device
  <2>2. held' \in BOOLEAN /\ (held' => dir' = "remote" /\ on') /\ todo' \subseteq Files
    BY <1>2, <1>4
  <2> QED
    BY <1>0, <1>1, <1>2, <1>3, <2>1, <2>2 DEF Types
<1>6. Looked'
  <2>1. awaiting' = awaiting
    BY <1>2 DEF device
  <2>2. todo' \subseteq There(list')
    BY <1>2, <1>4
  <2>3. There(list') = There(list)'
    BY DEF There
  <2> QED
    BY <1>2, <2>1, <2>2, <2>3 DEF Looked, InSession, Included
<1>7. saved' \in Saved
  BY <1>0, <1>2
<1> QED
  BY <1>5, <1>6, <1>7, TypePartsNext DEF Typed

LEMMA TurnedTyped == ASSUME Typed, NEW f \in Files, Turned(f) PROVE Typed'
<1>0. Types /\ saved \in Saved /\ Around(f)
  BY TypeParts DEF Typed, Turned
<1>1. disk' \in [Files -> Content] /\ srv' \in [Files -> Content] /\ row' \in Rows /\ wrote' \in BOOLEAN
  <2>1. srv[f] \in Content /\ disk[f] \in Content
    BY <1>0 DEF Types
  <2>2. CASE Same(f)
    BY <1>0, <2>2 DEF Same, Types
  <2>3. CASE Noted(f)
    BY <1>0, <2>3 DEF Noted, Set, Types, Rows
  <2>4. CASE Sent(f)
    BY <1>0, <2>1, <2>4 DEF Sent, Set, Types, Rows
  <2>5. CASE Got(f)
    BY <1>0, <2>1, <2>5 DEF Got, Written, Set, Types, Rows
  <2>6. CASE Gone(f)
    BY <1>0, <2>6 DEF Gone, Set, Types, Rows, Content
  <2>7. CASE Forgot(f)
    BY <1>0, <2>7 DEF Forgot, Set, Types, Rows, Content
  <2> QED
    BY <2>2, <2>3, <2>4, <2>5, <2>6, <2>7 DEF Turned
<1>2. /\ UNCHANGED <<pc, list, stats, inc, dir, on, held, waited, removed, scope>>
      /\ UNCHANGED <<listed, enabled, running, updated, awaiting, later>>
      /\ etag' \in Etags /\ bad' \in BOOLEAN /\ todo' = todo \ {f} /\ f \in todo /\ InSession
  BY <1>0 DEF Around, device
<1>3. Types'
  BY <1>0, <1>1, <1>2 DEF Types
<1>4. saved' \in Saved
  <2>1. CASE saved' = saved
    BY <1>0, <2>1
  <2>2. CASE saved' = [saved EXCEPT !.etag = Moved(@)]
    BY <1>0, <2>2, MovedTypes DEF Saved
  <2> QED
    BY <1>0, <2>1, <2>2 DEF Around
<1>5. \A g \in Files \ {f} : row'[g] = row[g] /\ disk'[g] = disk[g]
  BY <1>0 DEF Turned, Same, Noted, Sent, Got, Gone, Forgot, Set, Types, Rows
<1>7. Looked'
  <2>1. (inc' # "in" => todo' = {}) /\ (~InSession)' = ~InSession /\ pc' # "off"
    BY <1>2 DEF Typed, Looked, InSession
  <2>2. pc' = "files" => todo' \subseteq There(list)'
    BY <1>2 DEF Typed, Looked, There
  <2>3. \A g : Included(g)' = Included(g)
    BY <1>2 DEF Included
  <2>4. pc' = "up" => \A g \in Code : Included(g)' /\ stats'[g] = None => disk'[g] = None
    <3>1. pc' = "up" => disk' = disk /\ pc = "up" /\ stats' = stats
      BY <1>2 DEF Turned
    <3> QED
      BY <2>3, <3>1 DEF Typed, Looked
  <2>5. pc' = "missing" => \A g \in todo' : row'[g] # None /\ (g \in Code => disk'[g] = None)
    BY <1>0, <1>2, <1>5 DEF Typed, Looked, Types
  <2>6. "data" \in todo' => Included("data")'
    BY <1>2, <2>3 DEF Typed, Looked
  <2> QED
    BY <2>1, <2>2, <2>4, <2>5, <2>6 DEF Looked, InSession
<1> QED
  BY <1>3, <1>4, <1>7, TypePartsNext DEF Typed

LEMMA SessionTyped == ASSUME Typed, SessionNext PROVE Typed'
<1>0. Types /\ saved \in Saved
  BY TypeParts DEF Typed
<1>a. ASSUME NEW phase \in {"up", "missing", "absent"}, NEW from, NEW fs, from # "off",
             Then(phase, from, fs), fs \subseteq Files, stats' \in [Files -> Content]
      PROVE  Types' /\ saved' \in Saved /\ InSession /\ InSession'
  BY <1>0, <1>a DEF Then, Types, bundle, db, device, plugin, InSession
<1>1. CASE ScanReal
  <2>1. srv \in [Files -> Content] /\ etag' \in Etags
    BY <1>0, <1>1 DEF ScanReal, Types, Etags
  <2> QED
    BY <1>1, <2>1, PrepareTyped DEF ScanReal
<1>2. CASE ScanCached
  <2> DEFINE l == [f \in Files |-> Id(f)]
  <2>1. l \in [Files -> Content] /\ etag' \in Etags
    BY <1>0, <1>2 DEF ScanCached, Types, Id, Rows, Row, Content
  <2>2. ~InSession /\ Prepare(l)
    BY <1>2 DEF ScanCached
  <2> HIDE DEF l
  <2> QED
    BY <2>1, <2>2, PrepareTyped
<1>3. CASE CollectLocal
  <2> DEFINE fs == {f \in There(disk) \ There(list) : Included(f) /\ LocalEdit(f) /\ ~Skips(f)}
  <2>1. Then("up", "files", fs) /\ stats' = [f \in Files |-> IF Included(f) THEN disk[f] ELSE None]
    BY <1>3 DEF CollectLocal
  <2>2. fs \subseteq Files /\ \A f \in fs : Included(f)
    BY DEF There
  <2>3. stats' \in [Files -> Content]
    BY <1>0, <2>1 DEF Types, Content
  <2> HIDE DEF fs
  <2>4. Types' /\ saved' \in Saved /\ InSession'
    BY <1>a, <2>1, <2>2, <2>3
  <2>5. /\ pc' = "up" /\ todo' = fs /\ UNCHANGED <<inc, held, awaiting, disk>>
    BY <2>1 DEF Then, plugin, device, bundle
  <2>6. Looked'
    BY <2>1, <2>2, <2>4, <2>5 DEF Looked, Included, InSession, Files
  <2> QED
    BY <2>4, <2>6, TypePartsNext DEF Typed
<1>4. CASE JudgeMissing
  <2> DEFINE fs == {f \in There(row) : Included(f) /\ stats[f] = None /\ list[f] = None}
  <2>1. Then("missing", "up", fs) /\ stats' = stats
    BY <1>4 DEF JudgeMissing
  <2>2. fs \subseteq Files /\ \A f \in fs : Included(f) /\ row[f] # None /\ stats[f] = None
    BY DEF There
  <2> HIDE DEF fs
  <2>3. Types' /\ saved' \in Saved /\ InSession'
    BY <1>0, <1>a, <2>1, <2>2 DEF Types
  <2>4. /\ pc = "up" /\ pc' = "missing" /\ todo' = fs /\ UNCHANGED <<inc, held, awaiting, disk, row>>
    BY <2>1 DEF Then, plugin, device, bundle, db
  <2>5. \A f \in fs : f \in Code => disk[f] = None
    BY <2>2, <2>4 DEF Typed, Looked
  <2>6. Looked'
    BY <2>2, <2>3, <2>4, <2>5 DEF Looked, Included, InSession
  <2> QED
    BY <2>3, <2>6, TypePartsNext DEF Typed
<1>5. CASE JudgeAbsent
  <2> DEFINE fs == {f \in There(row) : /\ Included(f) /\ stats[f] # None
                                      /\ list[f] = None /\ disk[f] = Hash(f)}
  <2>1. Then("absent", "missing", fs) /\ stats' = stats
    BY <1>5 DEF JudgeAbsent
  <2>2. fs \subseteq Files /\ \A f \in fs : Included(f)
    BY DEF There
  <2> HIDE DEF fs
  <2>3. Types' /\ saved' \in Saved /\ InSession'
    BY <1>0, <1>a, <2>1, <2>2 DEF Types
  <2>4. pc' = "absent" /\ todo' = fs /\ UNCHANGED <<inc, held, awaiting>>
    BY <2>1 DEF Then, plugin, device
  <2>5. Looked'
    BY <2>2, <2>3, <2>4 DEF Looked, Included, InSession
  <2> QED
    BY <2>3, <2>5, TypePartsNext DEF Typed
<1>6. CASE Finish
  <2>1. Empty \in [Files -> Content]
    BY DEF Empty, Content
  <2>2. awaiting' \in BOOLEAN /\ etag' \in Etags /\ row' = row /\ scope' = scope
    BY <1>0, <1>6 DEF Finish, NeedsRestart, Types, Etags
  <2>3. UNCHANGED <<disk, srv, listed, enabled, running, updated, later, removed>>
    BY <1>6 DEF Finish, bundle
  <2>4. Types'
    BY <1>0, <1>6, <2>1, <2>2, <2>3 DEF Finish, Drop, Types
  <2>5. saved' \in Saved
    BY <1>6, <2>4 DEF Finish, Persist, Types, Saved
  <2>6. Looked'
    BY <1>6, OffLooked DEF Finish, Drop
  <2> QED
    BY <2>4, <2>5, <2>6, TypePartsNext DEF Typed
<1>7. ASSUME NEW f \in Files, FileStep(f) PROVE Typed'
  BY <1>7, FileStepTurns, TurnedTyped
<1> QED
  BY <1>1, <1>2, <1>3, <1>4, <1>5, <1>6, <1>7 DEF SessionNext, FileStep

LEMMA StutterTyped == ASSUME Typed, UNCHANGED vars PROVE Typed'
<1>1. Types'
  BY TypeParts DEF Typed, Types, vars
<1>2. Looked' /\ saved' = saved
  BY DEF Typed, Looked, vars, InSession, Included, There
<1> QED
  BY <1>1, <1>2, TypePartsNext DEF Typed

LEMMA TypesHold == Spec => []Typed
<1>1. Typed /\ [Next]_vars => Typed'
  BY DeviceTyped, SessionTyped, StutterTyped DEF Next
<1> QED
  BY <1>1, InitTyped, PTL DEF Spec

\* Types, and what the flags mean: settings are held only while code arrives for a
\* plugin that runs.
THEOREM PluginsTyped == Spec => []TypeOK
<1>1. Typed => TypeOK
  BY DEF Typed
<1> QED
  BY <1>1, TypesHold, PTL
-----------------------------------------------------------------------------
(* Settings wait for the restart. *)

\* Old code runs only until a restart that was asked for, or in the session that brought
\* the new: no tracked file is missing under code that runs.
Loaded ==
    /\ running # None => enabled
    /\ running # None /\ disk["main"] = None => row["main"] = None
    /\ OldCodeRuns => awaiting \/ (InSession /\ wrote /\ (dir = "none" \/ held))
    /\ InSession => (on <=> enabled) /\ (held <=> dir = "remote" /\ on)

\* The code that runs is that on disk, or none.
Fresh == running' # None => enabled' /\ running' = disk'["main"]

LEMMA FreshLoaded == ASSUME Fresh, ~InSession' PROVE Loaded'
<1>1. OldCodeRuns' = (running' # None /\ disk'["main"] \notin {None, running'})
  BY DEF OldCodeRuns
<1> QED
  BY <1>1 DEF Fresh, Loaded

LEMMA InitLoaded == Init => Loaded
<1> SUFFICES ASSUME Init PROVE Loaded
  OBVIOUS
<1>1. \A b, d : Of(b, d)["main"] = b
  BY DEF Of, Files, Code
<1>2. ~InSession
  BY DEF Init, Idle, InSession
<1>3. running # None => enabled /\ disk["main"] = running
  BY <1>1 DEF Init, Untracked, InSync
<1> QED
  BY <1>2, <1>3 DEF Loaded, OldCodeRuns

\* A step that touches neither the code nor what is known of it.
LEMMA SameLoaded ==
    ASSUME Loaded, UNCHANGED <<running, enabled, awaiting, wrote, dir, on, held>>,
           disk'["main"] = disk["main"], row'["main"] = row["main"], InSession' <=> InSession
    PROVE  Loaded'
  BY DEF Loaded, OldCodeRuns

LEMMA DeviceLoaded == ASSUME Typed, Loaded, DeviceNext PROVE Loaded'
<1>0. Types
  BY TypeParts DEF Typed
<1>a. \A b, d : Of(b, d)["main"] = b
  BY DEF Of, Files, Code
<1>b. ASSUME Between PROVE ~InSession' /\ UNCHANGED <<row, wrote, dir, on, held>> /\ (InSession' <=> InSession)
  BY <1>b DEF Between, db, session, InSession
<1>c. ASSUME OthersAct PROVE Loaded'
  <2>1. UNCHANGED <<disk, row, running, enabled, awaiting, wrote, dir, on, held, pc>>
    BY <1>c DEF OthersAct, session
  <2> QED
    BY <2>1, SameLoaded DEF InSession
<1>1. ASSUME NEW b \in Body, Install(b) PROVE Loaded'
  <2>1. Fresh
    BY <1>1, <1>a DEF Install, Fresh
  <2> QED
    BY <1>1, <1>b, <2>1, FreshLoaded DEF Install
<1>2. ASSUME NEW b \in Body, Publish(b) \/ ForeignSettings(b) PROVE Loaded'
  BY <1>2, <1>c DEF Publish, ForeignSettings
<1>3. CASE ForeignUninstall
  BY <1>3, <1>c DEF ForeignUninstall
<1>4. ASSUME NEW x \in BOOLEAN, Enable(x) PROVE Loaded'
  <2>1. Fresh
    BY <1>4 DEF Enable, Fresh
  <2> QED
    BY <1>4, <1>b, <2>1, FreshLoaded DEF Enable
<1>5. ASSUME NEW x \in BOOLEAN, SetListed(x) PROVE Loaded'
  <2>1. Between /\ UNCHANGED <<disk, enabled, running, awaiting>>
    BY <1>5 DEF SetListed
  <2> QED
    BY <1>b, <2>1, SameLoaded
<1>6. CASE Uninstall
  <2>1. Between /\ Fresh
    BY <1>6 DEF Uninstall, Fresh
  <2> QED
    BY <1>b, <2>1, FreshLoaded
<1>7. CASE UpdateApp
  <2>1. Between /\ UNCHANGED <<disk, enabled, running, awaiting>>
    BY <1>7 DEF UpdateApp
  <2> QED
    BY <1>b, <2>1, SameLoaded
<1>8. CASE SaveSettings
  <2>1. UNCHANGED <<row, running, enabled, awaiting, wrote, dir, on, held, pc>>
    BY <1>8 DEF SaveSettings, db, session, device
  <2>2. disk'["main"] = disk["main"]
    BY <1>0, <1>8 DEF SaveSettings, Types, Files, Code
  <2> QED
    BY <2>1, <2>2, SameLoaded DEF InSession
<1>9. CASE Restart
  <2>1. Between /\ Fresh
    BY <1>9 DEF Restart, Reload, Fresh
  <2> QED
    BY <1>b, <2>1, FreshLoaded
<1>10. CASE Crash
  <2>1. Fresh /\ ~InSession'
    BY <1>10 DEF Crash, Reload, Drop, Fresh, InSession, bundle
  <2> QED
    BY <2>1, FreshLoaded
<1> QED
  BY <1>1, <1>2, <1>3, <1>4, <1>5, <1>6, <1>7, <1>8, <1>9, <1>10 DEF DeviceNext

LEMMA PrepareLoaded == ASSUME Typed, Loaded, NEW l, ~InSession, Prepare(l) PROVE Loaded'
<1>1. /\ UNCHANGED <<disk, running, enabled, awaiting>> /\ on' = enabled /\ InSession'
      /\ held' = (dir' = "remote" /\ enabled)
  BY DEF Prepare, HoldsData, bundle, device, InSession
<1>2. row' = Empty \/ row' = row
  BY DEF Prepare, DropStale
<1>3. row["main"] = None => row'["main"] = None
  BY <1>2 DEF Empty, Files, Code
<1>4. OldCodeRuns' => awaiting'
  BY <1>1 DEF Loaded, OldCodeRuns
<1> QED
  BY <1>1, <1>3, <1>4 DEF Loaded

LEMMA TurnedLoaded == ASSUME Typed, Loaded, NEW f \in Files, Turned(f) PROVE Loaded'
<1>0. Types /\ "main" \in Files
  BY TypeParts DEF Typed, Files, Code
<1>1. UNCHANGED <<running, enabled, awaiting, dir, on, held>> /\ InSession /\ InSession'
  BY DEF Turned, Around, device, InSession
<1>2. wrote' = wrote \/ wrote' = (wrote \/ f \in Code)
  BY DEF Turned, Same, Noted, Sent, Got, Gone, Forgot, Written
<1>3. wrote => wrote'
  BY <1>0, <1>2 DEF Types
<1>4. CASE disk'["main"] = disk["main"] /\ (disk["main"] = None => row'["main"] \in {None, row["main"]})
  BY <1>1, <1>3, <1>4 DEF Loaded, OldCodeRuns
<1>5. CASE disk'["main"] = None /\ row'["main"] = None
  BY <1>1, <1>5 DEF Loaded, OldCodeRuns
<1>6. CASE f = "main" /\ Got(f) /\ Fetches(f)
  <2>1. wrote' /\ disk'["main"] # None
    BY <1>0, <1>6 DEF Got, Written, Code, Types
  <2>2. running # None => dir = "none" \/ held
    BY <1>1, <1>6 DEF Fetches, Loaded
  <2>3. OldCodeRuns' => running # None
    BY <1>1 DEF OldCodeRuns
  <2> QED
    BY <1>1, <2>1, <2>2, <2>3 DEF Loaded
<1> QED
  <2>1. CASE f # "main"
    <3>1. disk'["main"] = disk["main"] /\ row'["main"] = row["main"]
      BY <1>0, <2>1 DEF Turned, Same, Noted, Sent, Got, Gone, Forgot, Set, Types, Rows
    <3> QED
      BY <1>4, <3>1
  <2>2. CASE f = "main" /\ (Same(f) \/ Noted(f) \/ Sent(f) \/ Gone(f) \/ Forgot(f))
    <3>1. Same(f) \/ Noted(f) \/ Sent(f) => disk' = disk /\ (disk["main"] # None \/ row' = row)
      BY <2>2 DEF Same, Noted, Sent
    <3>2. Gone(f) \/ Forgot(f) => /\ row'["main"] = None
                                  /\ disk'["main"] = disk["main"] \/ disk'["main"] = None
      BY <1>0, <2>2 DEF Gone, Forgot, Set, Types, Rows
    <3> QED
      BY <1>4, <1>5, <2>2, <3>1, <3>2
  <2> QED
    BY <1>6, <2>1, <2>2 DEF Turned

LEMMA SessionLoaded == ASSUME Typed, Loaded, SessionNext PROVE Loaded'
<1>1. CASE ScanReal
  BY <1>1, PrepareLoaded DEF ScanReal
<1>2. CASE ScanCached
  BY <1>2, PrepareLoaded DEF ScanCached
<1>3. ASSUME NEW phase \in {"up", "missing", "absent"}, NEW from \in {"files", "up", "missing"},
             NEW fs, Then(phase, from, fs) PROVE Loaded'
  <2>1. UNCHANGED <<running, enabled, awaiting, wrote, dir, on, held, disk, row>>
        /\ InSession /\ InSession'
    BY <1>3 DEF Then, bundle, db, device, plugin, InSession
  <2> QED
    BY <2>1, SameLoaded
<1>4. CASE Finish
  <2>1. /\ UNCHANGED <<disk, row, enabled, running>> /\ InSession /\ ~InSession'
        /\ awaiting' = (awaiting \/ (wrote /\ on))
    BY <1>4 DEF Finish, Drop, NeedsRestart, bundle, InSession
  <2>2. OldCodeRuns => awaiting'
    BY <2>1, TypeParts DEF Loaded, OldCodeRuns, Typed, Types
  <2>3. OldCodeRuns' = OldCodeRuns
    BY <2>1 DEF OldCodeRuns
  <2> QED
    BY <2>1, <2>2, <2>3 DEF Loaded
<1>5. ASSUME NEW f \in Files, FileStep(f) PROVE Loaded'
  BY <1>5, FileStepTurns, TurnedLoaded
<1> QED
  BY <1>1, <1>2, <1>3, <1>4, <1>5 DEF SessionNext, FileStep, CollectLocal, JudgeMissing, JudgeAbsent

LEMMA LoadedHolds == Spec => [](Typed /\ Loaded)
<1>1. Loaded /\ UNCHANGED vars => Loaded'
  BY DEF Loaded, OldCodeRuns, InSession, vars
<1>2. Typed /\ Loaded /\ [Next]_vars => Loaded'
  BY <1>1, DeviceLoaded, SessionLoaded DEF Next
<1> QED
  BY <1>2, InitLoaded, TypesHold, PTL DEF Spec

\* A turn of the session is a step on one of its files.
LEMMA TurnsAreSteps == ASSUME Typed, [Next]_vars, InTurn PROVE \E f \in Files : Turned(f)
<1>1. todo' # todo /\ pc' = pc /\ pc # "off"
  BY DEF InTurn, InSession
<1>2. ~DeviceNext
  <2>1. ~Between
    BY <1>1 DEF Between, InSession
  <2>2. ~OthersAct /\ ~SaveSettings
    BY <1>1 DEF OthersAct, SaveSettings, session
  <2>3. ~Crash
    BY <1>1 DEF Crash, Drop
  <2> QED
    BY <2>1, <2>2, <2>3 DEF DeviceNext, Install, Publish, ForeignSettings, Enable, SetListed,
                            Uninstall, UpdateApp, Restart, ForeignUninstall
<1>3. ~(ScanReal \/ ScanCached \/ CollectLocal \/ JudgeMissing \/ JudgeAbsent \/ Finish)
  BY <1>1 DEF ScanReal, ScanCached, CollectLocal, JudgeMissing, JudgeAbsent, Finish, Prepare, Then,
              Drop, InSession
<1>4. ~UNCHANGED vars
  BY <1>1 DEF vars
<1> QED
  BY <1>2, <1>3, <1>4, FileStepTurns DEF Next, SessionNext, FileStep

\* While the code on disk is not the code that runs, no session takes the plugin's
\* settings in or sends them out, unless the code came by the ordinary path: whatever
\* the versions and the other devices, however often the app is killed and transfers
\* fail (docs/spec.md section 7, CPS-13).
THEOREM SettingsWait == Spec => SettingsWaitForRestart
<1>1. Typed /\ Loaded /\ [Next]_vars =>
        [InTurn /\ (disk'["data"] # disk["data"] \/ srv'["data"] # srv["data"])
           => ~OldCodeRuns \/ CodeCameOrdinarily]_vars
  <2> SUFFICES ASSUME Typed, Loaded, [Next]_vars, InTurn, OldCodeRuns,
                      disk'["data"] # disk["data"] \/ srv'["data"] # srv["data"]
               PROVE  CodeCameOrdinarily
    OBVIOUS
  <2>1. PICK f \in Files : Turned(f)
    BY TurnsAreSteps
  <2>2. f = "data"
    <3>1. Types /\ "data" \in Files
      BY TypeParts DEF Typed, Files
    <3> QED
      BY <2>1, <3>1 DEF Turned, Same, Noted, Sent, Got, Gone, Forgot, Types
  <2>3. ~awaiting /\ ~held /\ InSession
    BY <2>1, <2>2 DEF Turned, Around, Typed, Looked, Included
  <2> QED
    BY <2>3 DEF Loaded, CodeCameOrdinarily
<1> QED
  BY <1>1, LoadedHolds, PTL DEF Spec, SettingsWaitForRestart
-----------------------------------------------------------------------------
(* Only an uninstallation deletes. *)

\* No crash brings a row back whose file is gone, and no plugin is listed again before a
\* session saw it gone.
Remembers == Env \cap {"crash", "relist"} = {}

\* A tracked file of a listed plugin that is missing was removed by the user; the rows of
\* an unlisted one go with its first session.
Meant ==
    /\ ~InSession /\ ~scope => row = Empty
    /\ InSession => (scope <=> listed)
    /\ inc = "in" => listed
    /\ ~listed /\ InSession => row = Empty
    /\ listed => \A f \in Files : row[f] # None /\ disk[f] = None => f \in removed

LEMMA InitMeant == Init => Meant
<1> SUFFICES ASSUME Init PROVE Meant
  OBVIOUS
<1>1. ~InSession /\ inc = "none"
  BY DEF Init, Idle, InSession
<1>2. CASE Untracked
  BY <1>1, <1>2 DEF Untracked, Meant, Empty
<1>3. CASE InSync
  <2>1. scope = TRUE /\ \A f \in Files : disk[f] \in Body
    BY <1>3 DEF InSync, Of
  <2> QED
    BY <1>1, <2>1, SetsAssumption DEF Meant
<1> QED
  BY <1>2, <1>3 DEF Init

\* A step that leaves the plugin listed, or not, and no tracked file newly missing.
LEMMA SameMeant ==
    ASSUME Meant, UNCHANGED <<scope, listed, inc, row>>, InSession' <=> InSession,
           listed => \A f \in Files : row[f] # None /\ disk'[f] = None =>
                        (disk[f] = None /\ (f \in removed => f \in removed')) \/ f \in removed'
    PROVE  Meant'
  BY DEF Meant

LEMMA DeviceMeant == ASSUME Remembers, Typed, Meant, DeviceNext PROVE Meant'
<1>0. Types
  BY TypeParts DEF Typed
<1>a. \A b, d : \A f \in Files : Of(b, d)[f] = IF f = "data" THEN d ELSE b
  BY DEF Of
<1>b. ASSUME Between PROVE UNCHANGED <<scope, inc, row>> /\ (InSession' <=> InSession) /\ ~InSession
  BY <1>b DEF Between, db, session, InSession
<1>c. ASSUME OthersAct PROVE Meant'
  <2>1. UNCHANGED <<disk, row, scope, listed, inc, pc, removed>>
    BY <1>c DEF OthersAct, session
  <2> QED
    BY <2>1, SameMeant DEF InSession
<1>1. ASSUME NEW b \in Body, Install(b) PROVE Meant'
  <2>1. Between /\ listed' = listed /\ disk' = Of(b, disk["data"]) /\ removed' = removed \ Code
    BY <1>1 DEF Install
  <2>2. \A f \in Files : disk'[f] = None => f = "data" /\ disk[f] = None
    BY <1>a, <2>1, SetsAssumption
  <2>3. "data" \notin Code
    BY DEF Code
  <2> QED
    BY <1>b, <2>1, <2>2, <2>3, SameMeant
<1>2. ASSUME NEW b \in Body, Publish(b) \/ ForeignSettings(b) PROVE Meant'
  BY <1>2, <1>c DEF Publish, ForeignSettings
<1>3. CASE ForeignUninstall
  BY <1>3, <1>c DEF ForeignUninstall
<1>4. CASE (\E x \in BOOLEAN : Enable(x)) \/ UpdateApp \/ Restart
  <2>1. Between /\ UNCHANGED <<disk, listed, removed>>
    BY <1>4 DEF Enable, UpdateApp, Restart
  <2> QED
    BY <1>b, <2>1, SameMeant
<1>5. ASSUME NEW x \in BOOLEAN, SetListed(x) PROVE Meant'
  <2>1. /\ Between /\ listed # x /\ listed' = x /\ UNCHANGED disk
        /\ x => ~scope
    BY <1>5 DEF SetListed, Remembers
  <2>2. ~InSession /\ inc = "none" /\ UNCHANGED <<scope, inc, row>> /\ ~InSession'
    BY <1>b, <2>1 DEF Typed, Looked
  <2>3. x => \A f \in Files : row[f] = None
    BY <2>1, <2>2 DEF Meant, Empty
  <2> QED
    BY <2>1, <2>2, <2>3 DEF Meant
<1>6. CASE Uninstall
  <2>1. Between /\ listed' = listed /\ (listed => removed' = removed \cup There(disk))
    BY <1>6 DEF Uninstall
  <2>2. \A f \in Files : f \in There(disk) \/ disk[f] = None
    BY DEF There
  <2> QED
    BY <1>b, <2>1, <2>2, SameMeant
<1>7. CASE SaveSettings
  <2>1. UNCHANGED <<scope, listed, inc, row, pc>> /\ removed' = removed \ {"data"}
        /\ running # None /\ disk' = [disk EXCEPT !["data"] = running]
    BY <1>7 DEF SaveSettings, db, session, device
  <2>2. \A f \in Files : disk'[f] = None => f # "data" /\ disk[f] = None
    BY <1>0, <2>1 DEF Types
  <2> QED
    BY <2>1, <2>2, SameMeant DEF InSession
<1>8. CASE Crash
  BY <1>8 DEF Crash, Fault, Remembers
<1> QED
  BY <1>1, <1>2, <1>3, <1>4, <1>5, <1>6, <1>7, <1>8 DEF DeviceNext

LEMMA PrepareMeant == ASSUME Typed, Meant, NEW l, ~InSession, Prepare(l) PROVE Meant'
<1>1. UNCHANGED <<disk, listed, removed>> /\ scope' = listed /\ InSession'
  BY DEF Prepare, bundle, device, InSession
<1>2. row' = Empty \/ row' = row
  BY DEF Prepare, DropStale
<1>3. ~listed => inc' = "unlisted" /\ row' = Empty
  BY DEF Prepare, DropStale, Stale
<1>4. \A f \in Files : row'[f] # None => row'[f] = row[f]
  BY <1>2 DEF Empty
<1> QED
  BY <1>1, <1>3, <1>4 DEF Meant

LEMMA TurnedMeant == ASSUME Typed, Meant, NEW f \in Files, Turned(f) PROVE Meant'
<1>0. Types
  BY TypeParts DEF Typed
<1>1. /\ UNCHANGED <<listed, removed, scope, inc>> /\ InSession /\ InSession' /\ inc = "in"
  BY DEF Turned, Around, device, InSession, Typed, Looked
<1>2. listed
  BY <1>1 DEF Meant
<1>3. \A g \in Files \ {f} : row'[g] = row[g] /\ disk'[g] = disk[g]
  BY <1>0 DEF Turned, Same, Noted, Sent, Got, Gone, Forgot, Set, Types, Rows
<1>4. row'[f] # None /\ disk'[f] = None => row[f] # None /\ disk[f] = None
  BY <1>0 DEF Turned, Same, Noted, Sent, Got, Gone, Forgot, Set, Types, Rows
<1> QED
  BY <1>1, <1>2, <1>3, <1>4 DEF Meant

LEMMA SessionMeant == ASSUME Typed, Meant, SessionNext PROVE Meant'
<1>1. CASE ScanReal
  BY <1>1, PrepareMeant DEF ScanReal
<1>2. CASE ScanCached
  BY <1>2, PrepareMeant DEF ScanCached
<1>3. ASSUME NEW phase \in {"up", "missing", "absent"}, NEW from \in {"files", "up", "missing"},
             NEW fs, Then(phase, from, fs) PROVE Meant'
  <2>1. UNCHANGED <<scope, listed, inc, row, disk, removed>> /\ InSession /\ InSession'
    BY <1>3 DEF Then, bundle, db, device, plugin, InSession
  <2> QED
    BY <2>1, SameMeant
<1>4. CASE Finish
  <2>1. UNCHANGED <<disk, row, scope, listed, removed>> /\ InSession /\ ~InSession' /\ inc' = "none"
    BY <1>4 DEF Finish, Drop, bundle, InSession
  <2> QED
    BY <2>1 DEF Meant
<1>5. ASSUME NEW f \in Files, FileStep(f) PROVE Meant'
  BY <1>5, FileStepTurns, TurnedMeant
<1> QED
  BY <1>1, <1>2, <1>3, <1>4, <1>5 DEF SessionNext, FileStep, CollectLocal, JudgeMissing, JudgeAbsent

\* A session deletes a file of the bundle on the server only when the user uninstalled the
\* plugin while it was listed, or the settings came back after the session looked
\* (docs/spec.md section 7, CPS-12), unless a crash or a new listing brings old rows back.
THEOREM DeletedIsUninstalled ==
    ASSUME Remembers
    PROVE  Spec => DeleteIsUninstall
<1>1. Meant /\ UNCHANGED vars => Meant'
  BY DEF Meant, InSession, vars
<1>2. Typed /\ Meant /\ [Next]_vars => Meant'
  BY <1>1, DeviceMeant, SessionMeant DEF Next
<1>3. Typed /\ Meant /\ [Next]_vars =>
        [InTurn => \A f \in Files : srv[f] # None /\ srv'[f] = None
                      => f \in removed \/ (f = "data" /\ disk[f] # None)]_vars
  <2> SUFFICES ASSUME Typed, Meant, [Next]_vars, InTurn,
                      NEW f \in Files, srv[f] # None, srv'[f] = None
               PROVE  f \in removed \/ (f = "data" /\ disk[f] # None)
    OBVIOUS
  <2>1. PICK g \in Files : Turned(g)
    BY TurnsAreSteps
  <2>2. f = g /\ Deletes(f)
    <3>1. Types
      BY TypeParts DEF Typed
    <3> QED
      BY <2>1, <3>1 DEF Turned, Same, Noted, Sent, Got, Gone, Forgot, Types
  <2>3. listed
    BY <2>1 DEF Turned, Around, Typed, Looked, Meant
  <2> QED
    BY <2>2, <2>3 DEF Deletes, Meant
<1> QED
  BY <1>2, <1>3, InitMeant, TypesHold, PTL DEF Spec, DeleteIsUninstall
-----------------------------------------------------------------------------
(* An armed root ETag hides nothing. *)

\* What a step on a file does to the ETags, the errors and its row.
Steady == UNCHANGED <<srv, saved>> /\ etag' \in {etag, "none"}
RowFetched(f) == Set(f, [hash |-> srv[f], rid |-> list[f]])
Rowed(f) == \/ row' = row \/ Set(f, None) \/ \E b \in Body : Set(f, Both(b))
            \/ pc = "files" /\ srv[f] # None /\ RowFetched(f)
Accounts(f) == (Steady \/ Touch) /\ (bad => bad') /\ Rowed(f)

LEMMA DownloadAccounts ==
    ASSUME NEW f \in Files, pc = "files", Download(f) PROVE Accounts(f)
<1>1. CASE srv[f] = None
  BY <1>1 DEF Download, Keep, bundle, Still, Accounts, Steady, Rowed
<1>2. CASE srv[f] # None
  BY <1>2 DEF Download, Fine, Still, Accounts, Steady, Rowed, RowFetched
<1> QED
  BY <1>1, <1>2

LEMMA UploadAccounts ==
    ASSUME Typed, NEW f \in Files, disk[f] # None, Upload(f) PROVE Accounts(f) /\ Touch
<1>1. disk[f] \in Body
  BY TypeParts DEF Types, Typed, Content
<1> QED
  BY <1>1 DEF Upload, Fine, Accounts, Rowed

LEMMA ConvergedAccounts ==
    ASSUME Typed, NEW f \in Files, disk[f] # None, Converged(f) PROVE Accounts(f)
<1>1. disk[f] \in Body
  BY TypeParts DEF Types, Typed, Content
<1> QED
  BY <1>1 DEF Converged, bundle, Still, Fine, Accounts, Steady, Rowed

LEMMA NothingAccounts == ASSUME NEW f \in Files, Nothing \/ Fails PROVE Accounts(f)
  BY DEF Nothing, Fails, Keep, bundle, Still, Fine, Accounts, Steady, Rowed

LEMMA ResolveAccounts ==
    ASSUME Typed, NEW f \in Files, pc = "files", list[f] # None, Resolve(f) PROVE Accounts(f)
<1>1. CASE disk[f] = list[f]
  BY <1>1, ConvergedAccounts DEF Resolve
<1>2. CASE disk[f] # list[f]
  <2>1. PICK r \in Rule(f) :
         \/ r = "local" /\ disk[f] # None /\ Upload(f)
         \/ r = "local" /\ disk[f] = None /\ bad' = TRUE /\ Keep /\ UNCHANGED <<wrote, budgets>>
         \/ r = "remote" /\ Download(f)
         \/ r = "hold" /\ bad' = TRUE /\ Keep /\ UNCHANGED <<wrote, budgets>>
         \/ r = "tie" /\ etag' = "none" /\ UNCHANGED <<bundle, row, saved, wrote>> /\ Fine
    BY <1>2 DEF Resolve
  <2>2. CASE bad' = TRUE /\ Keep
    BY <2>2 DEF Keep, bundle, Still, Accounts, Steady, Rowed
  <2>3. CASE etag' = "none" /\ UNCHANGED <<bundle, row, saved, wrote>> /\ Fine
    BY <2>3 DEF bundle, Fine, Accounts, Steady, Rowed
  <2> QED
    BY <2>1, <2>2, <2>3, UploadAccounts, DownloadAccounts
<1> QED
  BY <1>1, <1>2

LEMMA DeleteAccounts ==
    ASSUME NEW f \in Files, NEW id, id = Hash(f) \/ pc = "files", Delete(f, id) PROVE Accounts(f)
<1>1. CASE id = Hash(f)
  BY <1>1 DEF Delete, Fine, Accounts, Rowed
<1>2. CASE id # Hash(f)
  BY <1>2, DownloadAccounts DEF Delete
<1> QED
  BY <1>1, <1>2

LEMMA FileStepAccounts == ASSUME Typed, NEW f \in Files, FileStep(f) PROVE Accounts(f)
<1>1. CASE ProcessRemote(f)
  <2>1. pc = "files" /\ list[f] # None
    BY <1>1 DEF ProcessRemote, Turn, Typed, Looked, There
  <2>2. ASSUME Ordinary(f) PROVE Accounts(f)
    BY <2>1, <2>2, DeleteAccounts, ConvergedAccounts, NothingAccounts, UploadAccounts, ResolveAccounts,
       DownloadAccounts DEF Ordinary, UploadOrConflict, LocalEdit
  <2>3. ASSUME Action(f) = "transfer", dir = "local", UploadOrConflict(f) PROVE Accounts(f)
    <3>1. disk[f] # None
      BY <2>3 DEF Action
    <3> QED
      BY <2>1, <2>3, <3>1, UploadAccounts, ResolveAccounts DEF UploadOrConflict
  <2> QED
    BY <1>1, <2>1, <2>2, <2>3, DownloadAccounts, ResolveAccounts, NothingAccounts DEF ProcessRemote
<1>2. CASE UploadLocal(f)
  BY <1>2, UploadAccounts, NothingAccounts DEF UploadLocal, LocalEdit
<1>3. CASE DeleteMissing(f)
  <2>1. CASE srv[f] = None /\ Set(f, None) /\ UNCHANGED <<bundle, wrote>> /\ Still /\ Fine
    BY <2>1 DEF bundle, Still, Fine, Accounts, Steady, Rowed
  <2>2. CASE srv[f] # None /\ srv[f] = Hash(f) /\ Delete(f, srv[f])
    BY <2>2, DeleteAccounts
  <2>3. CASE /\ srv[f] # None /\ disk' = [disk EXCEPT ![f] = srv[f]] /\ Set(f, Both(srv[f]))
             /\ Written(f) /\ UNCHANGED srv /\ Still /\ Fine
    <3>1. srv[f] \in Body
      BY <2>3, TypeParts DEF Types, Typed, Content
    <3> QED
      BY <2>3, <3>1 DEF Still, Fine, Accounts, Steady, Rowed
  <2> QED
    BY <1>3, <2>1, <2>2, <2>3 DEF DeleteMissing
<1>4. CASE TrashAbsent(f)
  BY <1>4 DEF TrashAbsent, Still, Fine, Accounts, Steady, Rowed
<1> QED
  BY <1>1, <1>2, <1>3, <1>4 DEF FileStep

\* Every file the server has is in its row; a row keeps one version of the code.
Served(r) == \A f \in Files : srv[f] # None => r[f] # None /\ r[f].rid = srv[f]
OneVersion(r) == \A f \in Code : r[f] # None => r[f].hash = r[f].rid

Resting == ~InSession /\ etag = "same" /\ scope
Stored == saved.etag = "same" /\ saved.scope
\* The session will leave the root ETag armed if nothing more happens.
InForce == InSession /\ etag = "same" /\ ~bad /\ inc = "in" /\ ~waited /\ ~held

Waits(f) == pc = "files" /\ f \in todo
Opposed == dir \in {"hold", "local"}
\* The manifest's turn is still to come: it disarms.
Undecided ==
    \/ pc = "files" /\ ("manifest" \in todo \/ (dir = "local" /\ list["manifest"] = None))
    \/ pc = "up" /\ dir = "local" /\ "manifest" \in todo
\* Why it will.
ManifestDiffers(d, l, r) ==
    /\ d["manifest"] # l["manifest"]
    /\ dir = "hold" => None \notin {d["manifest"], l["manifest"]}
    /\ dir = "local" /\ l["manifest"] = None => ~(r["manifest"] # None /\ d["manifest"] = r["manifest"].hash)
    /\ dir = "local" /\ d["manifest"] = None => r["manifest"] # None /\ r["manifest"].rid = l["manifest"]
Known(f) == srv[f] # None => list[f] = srv[f] /\ (Waits(f) \/ Id(f) = srv[f] \/ Opposed)

Honest ==
    /\ Resting => Served(row)
    /\ Stored => Served(saved.row)
    /\ OneVersion(row) /\ OneVersion(saved.row)
    /\ pc = "files" => \A f \in Code \cap todo : srv[f] \in {list[f], None}
    /\ pc = "up" => \A f \in Code \cap todo : LocalEdit(f)
    /\ pc \in {"up", "missing", "absent"} => \A f \in todo : list[f] = None
    /\ InSession => (waited <=> awaiting) /\ inc # "none" /\ (inc = "unlisted" => ~scope)
    /\ InForce => \A f \in Files : Known(f)
    /\ InForce /\ Opposed => Undecided /\ (pc = "files" => ManifestDiffers(disk, list, row))

LEMMA InitHonest == Init => Honest
<1> SUFFICES ASSUME Init PROVE Honest
  OBVIOUS
<1>1. pc = "off" /\ etag = "none" /\ saved = [row |-> row, etag |-> etag, scope |-> scope]
  BY DEF Init, Idle
<1>2. OneVersion(row)
  <2>1. CASE Untracked
    BY <2>1 DEF Untracked, Empty, OneVersion, Files
  <2>2. CASE InSync
    BY <2>2 DEF InSync, OneVersion, Both, Files
  <2> QED
    BY <2>1, <2>2 DEF Init
<1> QED
  BY <1>1, <1>2 DEF Honest, Resting, Stored, InForce, InSession

\* No session runs before or after the step, and the rows and the server stay.
LEMMA RestHonest ==
    ASSUME Honest, ~InSession, ~InSession', UNCHANGED <<srv, row, etag, scope, saved>> PROVE Honest'
  BY DEF Honest, Resting, Stored, InForce, InSession, Served, OneVersion

LEMMA DeviceHonest == ASSUME Typed, Honest, DeviceNext PROVE Honest'
<1>0. Types /\ saved \in Saved
  BY TypeParts DEF Typed
<1>b. ASSUME Between PROVE ~InSession /\ ~InSession' /\ UNCHANGED <<srv, row, etag, scope, saved>>
  BY <1>b DEF Between, db, session, InSession
<1>1. CASE (\E b \in Body : Install(b)) \/ (\E x \in BOOLEAN : Enable(x) \/ SetListed(x))
           \/ Uninstall \/ UpdateApp \/ Restart
  <2>1. Between
    BY <1>1 DEF Install, Enable, SetListed, Uninstall, UpdateApp, Restart
  <2> QED
    BY <1>b, <2>1, RestHonest
<1>2. ASSUME OthersAct, \A f \in Code : srv'[f] = srv[f] \/ ~InSession PROVE Honest'
  <2>1. /\ UNCHANGED <<disk, row, scope, awaiting, pc, list, stats, todo, bad, inc, dir, held, waited>>
        /\ etag' = Moved(etag) /\ saved' = [saved EXCEPT !.etag = Moved(@)]
    BY <1>2 DEF OthersAct, session
  <2>2. etag' # "same" /\ saved'.etag # "same" /\ saved'.row = saved.row
    BY <1>0, <2>1 DEF Moved, Saved
  <2>3. ~Resting' /\ ~Stored' /\ ~InForce'
    BY <2>2 DEF Resting, Stored, InForce
  <2>4. OneVersion(row)' /\ OneVersion(saved.row)'
    BY <2>1, <2>2 DEF Honest, OneVersion
  <2>5. pc' = "files" => \A f \in Code \cap todo' : srv'[f] \in {list'[f], None}
    BY <1>2, <2>1 DEF Honest, InSession
  <2>6. pc' = "up" => \A f \in Code \cap todo' : LocalEdit(f)'
    BY <2>1 DEF Honest, LocalEdit, Hash
  <2>7. pc' \in {"up", "missing", "absent"} => \A f \in todo' : list'[f] = None
    BY <2>1 DEF Honest
  <2>8. InSession' => (waited' <=> awaiting') /\ inc' # "none" /\ (inc' = "unlisted" => ~scope')
    BY <2>1 DEF Honest, InSession
  <2> QED
    BY <2>3, <2>4, <2>5, <2>6, <2>7, <2>8 DEF Honest
<1>3. ASSUME NEW b \in Body, Publish(b) PROVE Honest'
  BY <1>2, <1>3 DEF Publish
<1>4. ASSUME NEW b \in Body, ForeignSettings(b) PROVE Honest'
  <2>1. \A f \in Code : srv'[f] = srv[f]
    BY <1>0, <1>4 DEF ForeignSettings, Types, Files, Code
  <2> QED
    BY <1>2, <1>4, <2>1 DEF ForeignSettings
<1>5. CASE ForeignUninstall
  BY <1>2, <1>5 DEF ForeignUninstall
<1>6. CASE SaveSettings
  <2>1. /\ UNCHANGED <<srv, row, etag, scope, saved, awaiting, pc, list, stats, todo, bad, inc, dir, held, waited>>
        /\ disk' = [disk EXCEPT !["data"] = running]
    BY <1>6 DEF SaveSettings, db, session, device
  <2>2. \A f \in Code : disk'[f] = disk[f]
    BY <1>0, <2>1 DEF Types, Files, Code
  <2>3. \A f \in Code : LocalEdit(f)' <=> LocalEdit(f)
    BY <2>1, <2>2 DEF LocalEdit, Hash
  <2>4. ManifestDiffers(disk, list, row) => ManifestDiffers(disk, list, row)'
    BY <2>1, <2>2 DEF ManifestDiffers, Code
  <2>5. Resting' = Resting /\ Stored' = Stored /\ InForce' = InForce /\ Opposed' = Opposed /\ Undecided' = Undecided
    BY <2>1 DEF Resting, Stored, InForce, Opposed, Undecided, InSession
  <2>6. \A f \in Files : Known(f)' <=> Known(f)
    BY <2>1, <2>5 DEF Known, Waits, Id
  <2>7. Served(row)' = Served(row) /\ Served(saved.row)' = Served(saved.row)
        /\ OneVersion(row)' = OneVersion(row) /\ OneVersion(saved.row)' = OneVersion(saved.row)
    BY <2>1 DEF Served, OneVersion
  <2>8. InSession' = InSession
    BY <2>1 DEF InSession
  <2> QED
    BY <2>1, <2>3, <2>4, <2>5, <2>6, <2>7, <2>8 DEF Honest
<1>7. CASE Crash
  <2>1. /\ pc' = "off" /\ row' = saved.row /\ etag' = saved.etag /\ scope' = saved.scope
        /\ UNCHANGED <<srv, saved>>
    BY <1>7 DEF Crash, Drop, bundle
  <2> QED
    BY <2>1 DEF Honest, Resting, Stored, InForce, InSession, Served, OneVersion
<1> QED
  BY <1>1, <1>3, <1>4, <1>5, <1>6, <1>7 DEF DeviceNext

\* What the direction says of the two manifests.
LEMMA DirectionMeans ==
    ASSUME Typed, NEW b \in Content, NEW d, d = Direction(disk["manifest"], b)
    PROVE  /\ d \in {"hold", "local"} => disk["manifest"] # b
           /\ d = "hold" => None \notin {disk["manifest"], b}
           /\ d = "local" /\ b = None => disk["manifest"] # Hash("manifest")
           /\ d = "local" /\ disk["manifest"] = None => row["manifest"] # None /\ row["manifest"].rid = b
<1>1. later \in {"local", "remote", "hold"}
  BY TypeParts DEF Typed, Types
<1> QED
  BY <1>1 DEF Direction, BundleDirection, NewerSide, Changed, Id

LEMMA PrepareHonest ==
    ASSUME Typed, Honest, NEW l \in [Files -> Content], ~InSession, Prepare(l),
           listed => \A f \in Files : srv[f] # None => l[f] = srv[f]
    PROVE  Honest'
<1>1. /\ list' = l /\ scope' = listed /\ on' = enabled /\ waited' = awaiting /\ pc' = "files"
      /\ UNCHANGED <<disk, srv, saved, awaiting, bad>>
      /\ todo' = IF inc' # "in" THEN {} ELSE There(l) \ (IF awaiting \/ held' THEN {"data"} ELSE {})
  BY DEF Prepare, bundle, device
<1>2. /\ inc' # "none" /\ (inc' = "in" => listed) /\ (inc' = "unlisted" => ~listed)
      /\ (inc' = "in" => dir' = Direction(disk["manifest"], l["manifest"]) /\ row' = row)
      /\ row' = Empty \/ row' = row
  BY DEF Prepare, Evaluate, DropStale, Stale
<1>3. OneVersion(row)' /\ OneVersion(saved.row)' /\ (Stored' => Served(saved.row)')
  BY <1>1, <1>2 DEF Honest, OneVersion, Empty, Stored, Served, Files
<1>4. \A f \in Code \cap todo' : srv'[f] \in {list'[f], None}
  BY <1>1, <1>2 DEF Files
<1>5. ASSUME InForce' PROVE \A f \in Files : Known(f)'
  <2>1. listed /\ todo' = There(l) /\ list' = l /\ srv' = srv /\ pc' = "files"
    BY <1>1, <1>2, <1>5 DEF InForce
  <2>2. \A f \in Files : srv[f] # None => l[f] = srv[f] /\ f \in There(l)
    BY <2>1 DEF There
  <2> QED
    BY <2>1, <2>2 DEF Known, Waits
<1>6. ASSUME InForce', Opposed' PROVE Undecided' /\ ManifestDiffers(disk, list, row)'
  <2>1. /\ todo' = There(l) /\ list' = l /\ disk' = disk /\ pc' = "files" /\ row' = row
        /\ dir' = Direction(disk["manifest"], l["manifest"])
    BY <1>1, <1>2, <1>6 DEF InForce
  <2>2. "manifest" \in Files /\ l["manifest"] \in Content
    BY DEF Files, Code
  <2>3. /\ dir' \in {"hold", "local"} /\ disk["manifest"] # l["manifest"]
        /\ dir' = "hold" => None \notin {disk["manifest"], l["manifest"]}
        /\ dir' = "local" /\ l["manifest"] = None => disk["manifest"] # Hash("manifest")
        /\ dir' = "local" /\ disk["manifest"] = None
             => row["manifest"] # None /\ row["manifest"].rid = l["manifest"]
    BY <1>6, <2>1, <2>2, DirectionMeans DEF Opposed
  <2>4. Undecided'
    BY <2>1, <2>2, <2>3 DEF Undecided, There
  <2> QED
    BY <2>1, <2>3, <2>4 DEF ManifestDiffers, Hash
<1>7. ~Resting' /\ InSession'
  BY <1>1 DEF Resting, InSession
<1> QED
  BY <1>1, <1>2, <1>3, <1>4, <1>5, <1>6, <1>7 DEF Honest

\* A step between two phases, which takes up the files fs.
LEMMA ThenHonest ==
    ASSUME Typed, Honest, NEW phase \in {"up", "missing", "absent"}, NEW from \in {"files", "up", "missing"},
           NEW fs, Then(phase, from, fs), \A f \in fs : list[f] = None,
           phase = "up" <=> from = "files", phase = "up" => \A f \in Code \cap fs : LocalEdit(f),
           phase = "up" /\ InForce /\ dir = "local" /\ list["manifest"] = None => "manifest" \in fs
    PROVE  Honest'
<1>1. /\ UNCHANGED <<disk, srv, row, etag, scope, saved, awaiting, list, bad, inc, dir, held, waited>>
      /\ pc = from /\ todo = {} /\ pc' = phase /\ todo' = fs /\ InSession /\ InSession'
  BY DEF Then, bundle, db, device, plugin, InSession
<1>2. (Resting' <=> Resting) /\ (Stored' <=> Stored) /\ (InForce' <=> InForce) /\ (Opposed' <=> Opposed)
  BY <1>1 DEF Resting, Stored, InForce, Opposed
<1>3. /\ Served(row)' = Served(row) /\ Served(saved.row)' = Served(saved.row)
      /\ OneVersion(row)' = OneVersion(row) /\ OneVersion(saved.row)' = OneVersion(saved.row)
  BY <1>1 DEF Served, OneVersion
<1>4. \A f \in Files : Known(f) => Known(f)'
  BY <1>1, <1>2 DEF Known, Waits, Id
<1>5. pc' = "up" => \A f \in Code \cap todo' : LocalEdit(f)'
  BY <1>1 DEF LocalEdit, Hash
<1>6. InForce /\ Opposed /\ Undecided => Undecided'
  <2> SUFFICES ASSUME InForce, Opposed, Undecided PROVE Undecided'
    OBVIOUS
  <2>1. pc = "files" /\ dir = "local" /\ list["manifest"] = None /\ from = "files"
    BY <1>1 DEF Undecided
  <2> QED
    BY <1>1, <2>1 DEF Undecided
<1> QED
  BY <1>1, <1>2, <1>3, <1>4, <1>5, <1>6 DEF Honest

\* What a turn does to its file when the root ETag stays in force.
Disarms == etag' # "same" \/ bad'
Agreed(f) == UNCHANGED <<disk, row>> /\ disk[f] # list[f] /\ disk[f] # None /\ disk[f] = Hash(f) /\ Id(f) = list[f]
Skipped(f) == UNCHANGED <<disk, row>> /\ Action(f) = "skip"
Matched(f) == UNCHANGED disk /\ disk[f] = list[f] /\ Set(f, Both(list[f]))
Brought(f) ==
    /\ srv[f] # None /\ disk' = [disk EXCEPT ![f] = srv[f]] /\ RowFetched(f)
    /\ f = "data" \/ dir \in {"none", "remote"} \/ (disk[f] = None /\ row[f] # None /\ list[f] # Hash(f))
Left(f) == UNCHANGED <<disk, row>> /\ ~LocalEdit(f)
Cleaned(f) == (disk' = disk \/ disk' = [disk EXCEPT ![f] = None]) /\ Set(f, None) /\ srv[f] = None

ArmedTurn(f) ==
    \/ pc = "files" /\ (Agreed(f) \/ Skipped(f) \/ Matched(f) \/ Brought(f))
    \/ pc = "up" /\ Left(f)
    \/ pc \in {"missing", "absent"} /\ (InForce /\ Known(f) /\ list[f] = None => Cleaned(f))

LEMMA UploadDisarms == Touch => etag' # "same"
  BY DEF Touch, Moved

LEMMA ResolveArmed ==
    ASSUME Typed, NEW f \in Files, list[f] # None, Resolve(f), ~Disarms
    PROVE  \/ Matched(f)
           \/ /\ disk[f] # list[f] /\ Download(f)
              /\ f = "data" \/ dir \in {"none", "remote"}
<1>1. CASE disk[f] = list[f]
  BY <1>1 DEF Resolve, Converged, Matched, bundle
<1>2. CASE disk[f] # list[f]
  <2>1. PICK r \in Rule(f) :
         \/ r = "local" /\ disk[f] # None /\ Upload(f)
         \/ r = "local" /\ disk[f] = None /\ bad' = TRUE /\ Keep /\ UNCHANGED <<wrote, budgets>>
         \/ r = "remote" /\ Download(f)
         \/ r = "hold" /\ bad' = TRUE /\ Keep /\ UNCHANGED <<wrote, budgets>>
         \/ r = "tie" /\ etag' = "none" /\ UNCHANGED <<bundle, row, saved, wrote>> /\ Fine
    BY <1>2 DEF Resolve
  <2>2. ~Upload(f)
    BY UploadDisarms DEF Disarms, Upload
  <2>3. r = "remote" /\ Download(f)
    BY <2>1, <2>2 DEF Disarms
  <2>4. f = "data" \/ dir \in {"none", "remote"}
    BY <2>3, TypeParts DEF Types, Rule, Code, Files, Typed
  <2> QED
    BY <1>2, <2>3, <2>4
<1> QED
  BY <1>1, <1>2

LEMMA DownloadArmed ==
    ASSUME NEW f \in Files, Download(f), ~Disarms
    PROVE  srv[f] # None /\ disk' = [disk EXCEPT ![f] = srv[f]] /\ RowFetched(f)
  BY DEF Download, Disarms, RowFetched

LEMMA ProcessRemoteArmed ==
    ASSUME Typed, NEW f \in Files, ProcessRemote(f), ~Disarms
    PROVE  ArmedTurn(f)
<1>1. pc = "files" /\ list[f] # None
  BY DEF ProcessRemote, Turn, Typed, Looked, There
<1>2. ASSUME Download(f), f = "data" \/ dir \in {"none", "remote"} \/ (disk[f] = None /\ row[f] # None /\ list[f] # Hash(f))
      PROVE  ArmedTurn(f)
  BY <1>1, <1>2, DownloadArmed DEF ArmedTurn, Brought
<1>3. ASSUME Resolve(f) PROVE ArmedTurn(f)
  BY <1>1, <1>2, <1>3, ResolveArmed DEF ArmedTurn
<1>4. ASSUME UploadOrConflict(f) PROVE ArmedTurn(f)
  BY <1>3, <1>4, UploadDisarms DEF UploadOrConflict, Upload, Disarms
<1>5. ASSUME Action(f) = "ordinary", Ordinary(f) PROVE ArmedTurn(f)
  <2>1. disk[f] # list[f] => f = "data" \/ dir \in {"none", "remote"} \/ (disk[f] = None /\ row[f] # None)
    BY <1>1, <1>5, TypeParts DEF Types, Action, Typed
  <2>2. CASE disk[f] = None /\ row[f] # None /\ Delete(f, list[f])
    <3>1. list[f] # Hash(f)
      BY <2>2, UploadDisarms DEF Delete, Disarms
    <3> QED
      BY <1>1, <1>2, <2>2, <3>1, <2>1 DEF Delete
  <2>3. CASE disk[f] = list[f] /\ Converged(f)
    BY <1>1, <2>3 DEF Converged, ArmedTurn, Matched, bundle
  <2>4. CASE disk[f] \notin {None, list[f]} /\ ~LocalEdit(f) /\ ~RemoteEdit(f) /\ Nothing
    BY <1>1, <2>4 DEF Nothing, Keep, bundle, LocalEdit, RemoteEdit, ArmedTurn, Agreed
  <2>5. CASE (disk[f] # None \/ row[f] = None) /\ disk[f] # list[f] /\ Download(f)
    BY <1>2, <2>1, <2>5
  <2> QED
    BY <1>3, <1>4, <1>5, <2>2, <2>3, <2>4, <2>5 DEF Ordinary
<1>6. ASSUME Action(f) = "skip", Nothing PROVE ArmedTurn(f)
  BY <1>1, <1>6 DEF Nothing, Keep, bundle, ArmedTurn, Skipped
<1> QED
  BY <1>2, <1>3, <1>4, <1>5, <1>6 DEF ProcessRemote, Fails, Disarms

LEMMA FileStepArmed ==
    ASSUME Typed, NEW f \in Files, FileStep(f), ~Disarms
    PROVE  ArmedTurn(f)
<1>1. CASE ProcessRemote(f)
  BY <1>1, ProcessRemoteArmed
<1>2. CASE UploadLocal(f)
  <2>1. pc = "up"
    BY <1>2 DEF UploadLocal, Turn
  <2>2. ~LocalEdit(f) /\ Nothing
    BY <1>2, UploadDisarms DEF UploadLocal, Upload, Fails, Disarms
  <2> QED
    BY <2>1, <2>2 DEF ArmedTurn, Left, Nothing, Keep, bundle
<1>3. CASE DeleteMissing(f)
  <2>1. pc = "missing"
    BY <1>3 DEF DeleteMissing, Turn
  <2>2. ASSUME InForce, Known(f), list[f] = None PROVE Cleaned(f)
    <3>1. srv[f] = None
      BY <2>2 DEF Known
    <3> QED
      BY <1>3, <3>1 DEF DeleteMissing, Cleaned, bundle
  <2> QED
    BY <2>1, <2>2 DEF ArmedTurn
<1>4. CASE TrashAbsent(f)
  <2>1. pc = "absent"
    BY <1>4 DEF TrashAbsent, Turn
  <2>2. ASSUME InForce, Known(f), list[f] = None PROVE Cleaned(f)
    <3>1. srv[f] = None
      BY <2>2 DEF Known
    <3> QED
      BY <1>4, <3>1 DEF TrashAbsent, Cleaned
  <2> QED
    BY <2>1, <2>2 DEF ArmedTurn
<1> QED
  BY <1>1, <1>2, <1>3, <1>4 DEF FileStep

\* A turn leaves the other files alone.
LEMMA OthersAlone ==
    ASSUME Typed, NEW f \in Files, Turned(f)
    PROVE  \A g \in Files \ {f} : disk'[g] = disk[g] /\ srv'[g] = srv[g] /\ row'[g] = row[g]
  BY TypeParts DEF Typed, Turned, Same, Noted, Sent, Got, Gone, Forgot, Set, Types, Rows

\* A turn after which the root ETag is in force was one before which it was.
LEMMA TurnInForce ==
    ASSUME Typed, NEW f \in Files, FileStep(f), InForce'
    PROVE  InForce /\ ~Disarms /\ UNCHANGED <<srv, saved>>
<1>1. Turned(f) /\ Accounts(f)
  BY FileStepTurns, FileStepAccounts
<1>2. etag' = "same" /\ ~bad'
  BY DEF InForce
<1>3. ~Touch
  BY <1>2, UploadDisarms
<1>4. Steady /\ (bad => bad')
  BY <1>1, <1>3 DEF Accounts
<1>5. etag = "same" /\ UNCHANGED <<srv, saved>>
  BY <1>2, <1>4 DEF Steady
<1> QED
  BY <1>1, <1>2, <1>4, <1>5 DEF InForce, Disarms, Turned, Around, InSession

LEMMA TurnKnown ==
    ASSUME Typed, Honest, NEW f \in Files, FileStep(f), InForce'
    PROVE  /\ \A g \in Files : Known(g)'
           /\ Opposed' => Undecided' /\ (pc' = "files" => ManifestDiffers(disk, list, row)')
<1>0. Types /\ "manifest" \in Files
  BY TypeParts DEF Typed, Files, Code
<1>1. /\ Turned(f) /\ InForce /\ ~Disarms /\ UNCHANGED <<srv, saved>> /\ ArmedTurn(f)
  BY FileStepTurns, TurnInForce, FileStepArmed
<1>2. /\ f \in todo /\ todo' = todo \ {f} /\ UNCHANGED <<pc, list, stats, inc, dir, held, waited>>
  BY <1>1 DEF Turned, Around
<1>3. \A g \in Files \ {f} : disk'[g] = disk[g] /\ row'[g] = row[g]
  BY <1>1, OthersAlone
<1>4. (Opposed' <=> Opposed) /\ Known(f) /\ (Opposed => Undecided)
  BY <1>1, <1>2 DEF Opposed, Honest
<1>5. pc \in {"missing", "absent"} => ~Opposed /\ list[f] = None /\ Cleaned(f)
  BY <1>1, <1>2, <1>4 DEF Honest, Undecided, ArmedTurn
<1>6. \A g \in Files \ {f} : Known(g)'
  BY <1>1, <1>2, <1>3, <1>4 DEF Honest, Known, Waits, Id
<1>7. Known(f)'
  <2> SUFFICES ASSUME srv[f] # None, ~Opposed PROVE list[f] = srv[f] /\ Id(f)' = srv[f]
    BY <1>1, <1>2, <1>4 DEF Known
  <2>1. list[f] = srv[f]
    BY <1>4 DEF Known
  <2>2. CASE Agreed(f)
    BY <2>1, <2>2 DEF Agreed, Id
  <2>3. CASE Skipped(f)
    <3>1. dir = "remote"
      BY <1>0, <2>3 DEF Skipped, Action, Opposed, Types
    <3> QED
      BY <2>1, <2>3, <3>1 DEF Skipped, Action
  <2>4. CASE Matched(f) \/ Brought(f)
    <3>1. row'[f] # None /\ row'[f].rid = list[f]
      <4>1. PICK h \in Body : Set(f, [hash |-> h, rid |-> list[f]])
        <5>1. list[f] \in Body
          BY <1>0, <2>1 DEF Types, Content
        <5> QED
          BY <2>1, <2>4, <5>1 DEF Matched, Brought, RowFetched, Both
      <4>2. row'[f] = [hash |-> h, rid |-> list[f]] /\ list[f] \in Body
        BY <1>0, <2>1, <4>1 DEF Types, Content, Rows, Set
      <4>3. row'[f] \in Row
        BY <4>2, BodyRow
      <4> QED
        BY <4>2, <4>3, NoneAssumption
    <3> QED
      BY <2>1, <3>1 DEF Id
  <2>5. CASE pc = "up"
    <3>1. UNCHANGED row /\ ~Waits(f)
      BY <1>1, <2>5 DEF ArmedTurn, Left, Waits
    <3>2. Id(f) = srv[f]
      BY <1>4, <3>1 DEF Known
    <3> QED
      BY <2>1, <3>1, <3>2 DEF Id
  <2>6. CASE pc \in {"missing", "absent"}
    BY <1>5, <2>6 DEF Cleaned
  <2> QED
    BY <1>1, <2>2, <2>3, <2>4, <2>5, <2>6 DEF ArmedTurn
<1>8. ASSUME Opposed PROVE f # "manifest"
  <2> SUFFICES ASSUME f = "manifest" PROVE FALSE
    OBVIOUS
  <2>0. f \in Code /\ (row[f] # None => row[f].hash = row[f].rid)
    BY DEF Code, Honest, OneVersion
  <2>1. CASE pc = "files"
    <3>1. list[f] # None /\ ManifestDiffers(disk, list, row)
      BY <1>1, <1>2, <1>8, <2>1 DEF Honest, Typed, Looked, There
    <3>2. CASE Agreed(f)
      BY <2>0, <3>1, <3>2 DEF Agreed, Hash, Id, ManifestDiffers
    <3>3. CASE Skipped(f)
      BY <1>8, <2>0, <3>1, <3>3 DEF Skipped, Action, Opposed, ManifestDiffers
    <3>4. CASE Matched(f)
      BY <3>1, <3>4 DEF Matched, ManifestDiffers
    <3>5. CASE Brought(f)
      BY <1>8, <2>0, <3>1, <3>5 DEF Brought, Hash, Opposed, ManifestDiffers
    <3> QED
      BY <1>1, <2>1, <3>2, <3>3, <3>4, <3>5 DEF ArmedTurn
  <2>2. CASE pc = "up"
    BY <1>1, <1>2, <2>0, <2>2 DEF ArmedTurn, Left, Honest
  <2> QED
    BY <1>0, <1>1, <1>5, <1>8, <2>1, <2>2 DEF Types, InForce, InSession
<1>9. ASSUME Opposed PROVE Undecided' /\ (pc' = "files" => ManifestDiffers(disk, list, row)')
  <2>1. disk'["manifest"] = disk["manifest"] /\ row'["manifest"] = row["manifest"]
    BY <1>0, <1>3, <1>8, <1>9
  <2>2. Undecided /\ (pc = "files" => ManifestDiffers(disk, list, row))
    BY <1>1, <1>9 DEF Honest
  <2> QED
    BY <1>2, <1>8, <1>9, <2>1, <2>2 DEF Undecided, ManifestDiffers
<1> QED
  BY <1>4, <1>6, <1>7, <1>9

LEMMA TurnHonest == ASSUME Typed, Honest, NEW f \in Files, FileStep(f) PROVE Honest'
<1>0. Types /\ saved \in Saved
  BY TypeParts DEF Typed
<1>1. Turned(f) /\ Accounts(f)
  BY FileStepTurns, FileStepAccounts
<1>2. /\ f \in todo /\ todo' = todo \ {f} /\ InSession /\ InSession'
      /\ UNCHANGED <<pc, list, stats, inc, dir, held, waited, scope, awaiting>>
  BY <1>1 DEF Turned, Around, device, InSession
<1>3. \A g \in Files \ {f} : disk'[g] = disk[g] /\ srv'[g] = srv[g] /\ row'[g] = row[g]
  BY <1>1, OthersAlone
<1>4. saved'.row = saved.row /\ (Stored' => Stored /\ UNCHANGED <<srv, saved>>)
  <2>1. CASE Steady
    BY <2>1 DEF Steady, Stored
  <2>2. CASE Touch
    BY <1>0, <2>2 DEF Touch, Moved, Stored, Saved
  <2> QED
    BY <1>1, <2>1, <2>2 DEF Accounts
<1>5. Stored' => Served(saved.row)'
  BY <1>4 DEF Honest, Served
<1>6. OneVersion(row)' /\ OneVersion(saved.row)'
  <2>1. ASSUME f \in Code, row'[f] # None PROVE row'[f].hash = row'[f].rid
    <3>1. CASE row' = row
      BY <2>1, <3>1 DEF Honest, OneVersion
    <3>2. CASE Set(f, None)
      BY <1>0, <2>1, <3>2 DEF Set, Types, Rows
    <3>3. CASE \E b \in Body : Set(f, Both(b))
      BY <1>0, <3>3 DEF Set, Types, Rows, Both
    <3>4. CASE pc = "files" /\ srv[f] # None /\ RowFetched(f)
      <4>1. srv[f] = list[f]
        BY <1>2, <2>1, <3>4 DEF Honest
      <4> QED
        BY <1>0, <3>4, <4>1 DEF RowFetched, Set, Types, Rows
    <3> QED
      BY <1>1, <3>1, <3>2, <3>3, <3>4 DEF Accounts, Rowed
  <2>2. \A g \in Code : g # f => row'[g] = row[g]
    BY <1>3 DEF Files
  <2> QED
    BY <1>4, <2>1, <2>2 DEF Honest, OneVersion
<1>7. pc' = "files" => \A g \in Code \cap todo' : srv'[g] \in {list'[g], None}
  BY <1>2, <1>3 DEF Honest, Files
<1>8. pc' = "up" => \A g \in Code \cap todo' : LocalEdit(g)'
  BY <1>2, <1>3 DEF Honest, Files, LocalEdit, Hash
<1>9. pc' \in {"up", "missing", "absent"} => \A g \in todo' : list'[g] = None
  BY <1>2 DEF Honest
<1>10. ~Resting' /\ (waited' <=> awaiting') /\ inc' # "none" /\ (inc' = "unlisted" => ~scope')
  BY <1>2 DEF Honest, Resting
<1> QED
  BY <1>5, <1>6, <1>7, <1>8, <1>9, <1>10, TurnKnown DEF Honest

LEMMA SessionHonest == ASSUME Typed, Honest, SessionNext PROVE Honest'
<1>0. Types
  BY TypeParts DEF Typed
<1>1. CASE ScanReal
  BY <1>0, <1>1, PrepareHonest DEF ScanReal, Types
<1>2. CASE ScanCached
  <2> DEFINE l == [f \in Files |-> Id(f)]
  <2>1. l \in [Files -> Content]
    BY <1>0 DEF Types, Id, Rows, Row, Content
  <2>2. ~InSession /\ Prepare(l) /\ (listed => Resting)
    BY <1>0, <1>2 DEF ScanCached, Resting, Types
  <2>3. listed => \A f \in Files : srv[f] # None => l[f] = srv[f]
    BY <2>2 DEF Honest, Served, Id
  <2> HIDE DEF l
  <2> QED
    BY <2>1, <2>2, <2>3, PrepareHonest
<1>3. CASE CollectLocal
  <2> DEFINE fs == {f \in There(disk) \ There(list) : Included(f) /\ LocalEdit(f) /\ ~Skips(f)}
  <2>1. Then("up", "files", fs)
    BY <1>3 DEF CollectLocal
  <2>2. \A f \in fs : list[f] = None /\ LocalEdit(f)
    BY DEF There
  <2>3. ASSUME InForce, dir = "local", list["manifest"] = None PROVE "manifest" \in fs
    <3>1. pc = "files" /\ ManifestDiffers(disk, list, row)
      BY <2>1, <2>3 DEF Then, Honest, Opposed
    <3>2. /\ "manifest" \in There(disk) \ There(list) /\ Included("manifest")
          /\ disk["manifest"] # None
      BY <2>3, <3>1 DEF ManifestDiffers, There, Files, Code, Included, InForce
    <3>3. LocalEdit("manifest")
      BY <2>3, <3>1, <3>2 DEF ManifestDiffers, LocalEdit, Hash
    <3>4. ~Skips("manifest")
      BY <2>3, <3>2 DEF Skips, Action
    <3> QED
      BY <3>2, <3>3, <3>4
  <2> HIDE DEF fs
  <2> QED
    BY <2>1, <2>2, <2>3, ThenHonest
<1>4. CASE JudgeMissing
  <2> DEFINE fs == {f \in There(row) : Included(f) /\ stats[f] = None /\ list[f] = None}
  <2>1. Then("missing", "up", fs) /\ \A f \in fs : list[f] = None
    BY <1>4 DEF JudgeMissing
  <2> HIDE DEF fs
  <2> QED
    BY <2>1, ThenHonest
<1>5. CASE JudgeAbsent
  <2> DEFINE fs == {f \in There(row) : /\ Included(f) /\ stats[f] # None
                                      /\ list[f] = None /\ disk[f] = Hash(f)}
  <2>1. Then("absent", "missing", fs) /\ \A f \in fs : list[f] = None
    BY <1>5 DEF JudgeAbsent
  <2> HIDE DEF fs
  <2> QED
    BY <2>1, ThenHonest
<1>6. CASE Finish
  <2>1. /\ pc = "absent" /\ todo = {} /\ pc' = "off"
        /\ UNCHANGED <<disk, srv, row, scope>> /\ etag' = IF bad \/ Invalidates THEN "none" ELSE etag
        /\ saved' = [row |-> row', etag |-> etag', scope |-> scope']
    BY <1>6 DEF Finish, Drop, Persist, bundle
  <2>2. ASSUME etag' = "same", scope PROVE Served(row)
    <3>1. InForce
      BY <1>0, <2>1, <2>2 DEF InForce, Invalidates, InSession, Honest, Types
    <3>2. ~Opposed
      BY <2>1, <3>1 DEF Honest, Undecided
    <3>3. \A f \in Files : srv[f] # None => Id(f) = srv[f]
      BY <2>1, <3>1, <3>2 DEF Honest, Known, Waits
    <3> QED
      BY <3>3 DEF Served, Id
  <2>3. (Resting' => Served(row)') /\ (Stored' => Served(saved.row)')
    BY <2>1, <2>2 DEF Resting, Stored, Served
  <2>4. OneVersion(row)' /\ OneVersion(saved.row)'
    BY <2>1 DEF Honest, OneVersion
  <2>5. ~InSession' /\ ~InForce'
    BY <2>1 DEF InSession, InForce
  <2> QED
    BY <2>1, <2>3, <2>4, <2>5 DEF Honest
<1>7. ASSUME NEW f \in Files, FileStep(f) PROVE Honest'
  BY <1>7, TurnHonest
<1> QED
  BY <1>1, <1>2, <1>3, <1>4, <1>5, <1>6, <1>7 DEF SessionNext, FileStep

LEMMA HonestHolds == Spec => [](Typed /\ Honest)
<1>1. Honest /\ UNCHANGED vars => Honest'
  BY DEF Honest, Resting, Stored, InForce, InSession, Served, OneVersion, LocalEdit, Hash, Known, Waits,
         Id, Opposed, Undecided, ManifestDiffers, vars
<1>2. Typed /\ Honest /\ [Next]_vars => Honest'
  BY <1>1, DeviceHonest, SessionHonest DEF Next
<1> QED
  BY <1>2, InitHonest, TypesHold, PTL DEF Spec

\* Half of what an armed root ETag promises holds of every behaviour: between sessions
\* it hides no file that the server has.
NothingServedIsHidden ==
    ~InSession /\ etag = "same" /\ scope => \A f \in Files : srv[f] # None => Id(f) = srv[f]
\* Whatever the user, the other devices, crashes and failed transfers do, an armed short
\* circuit lists every file of the bundle that the server has as the server has it.
THEOREM ServedIsKnown == Spec => []NothingServedIsHidden
<1>1. Honest => NothingServedIsHidden
  BY DEF Honest, Resting, Served, Id, NothingServedIsHidden
<1> QED
  BY <1>1, HonestHolds, PTL

\* The other half, a file that is gone from the server, has one way to fail: while the
\* root ETag is armed (or will be again after a crash), the user or the plugin puts back
\* the very content that the row left by the local edit still records.
HidesIn(f, r, e) == e = "same" /\ r[f] # None /\ srv[f] = None /\ disk'[f] \in {r[f].hash, r[f].rid}
PutsBack == \E f \in Files : disk'[f] # disk[f] /\ (HidesIn(f, row, etag) \/ HidesIn(f, saved.row, saved.etag))

\* No row is left for the file, or one of another content than the file's.
Departed(r, f) == r[f] = None \/ disk[f] \notin {r[f].hash, r[f].rid}
Cleared(r) == \A f \in Files : srv[f] = None => Departed(r, f)

\* A tracked file that the server has not: known to be edited, or still to be trashed.
Doomed(f) ==
    \/ pc = "files"
    \/ pc = "up" /\ (stats[f] = None \/ disk[f] = Hash(f) \/ (f \in todo /\ LocalEdit(f))
                     \/ (f \notin todo /\ Departed(row, f)))
    \/ pc = "missing" /\ (IF stats[f] = None THEN f \in todo ELSE disk[f] = Hash(f) \/ Departed(row, f))
    \/ pc = "absent" /\ (f \in todo \/ Departed(row, f))
Unlisted(f) == row[f] = None \/ Doomed(f)
Outdated(f) == Id(f) = list[f] /\ Departed(row, f) /\ (Waits(f) \/ Opposed)
Lost(f) == srv[f] = None => IF list[f] = None THEN Unlisted(f) ELSE Outdated(f)

Clear ==
    /\ Resting => Cleared(row)
    /\ Stored => Cleared(saved.row)
    /\ InForce => \A f \in Files : Lost(f)

LEMMA InitClear == Init => Clear
  BY DEF Init, Idle, Clear, Resting, Stored, InForce, InSession

\* A file that has departed stays so, unless it is put back.
LEMMA StaysDeparted ==
    ASSUME ~PutsBack, NEW f \in Files, srv[f] = None
    PROVE  /\ etag = "same" /\ Departed(row, f) => row[f] = None \/ disk'[f] \notin {row[f].hash, row[f].rid}
           /\ saved.etag = "same" /\ Departed(saved.row, f)
                => saved.row[f] = None \/ disk'[f] \notin {saved.row[f].hash, saved.row[f].rid}
  BY DEF PutsBack, HidesIn, Departed

LEMMA StaysCleared ==
    ASSUME ~PutsBack, UNCHANGED srv
    PROVE  /\ etag = "same" /\ Cleared(row) /\ UNCHANGED row => Cleared(row)'
           /\ saved.etag = "same" /\ Cleared(saved.row) /\ saved'.row = saved.row => Cleared(saved.row)'
<1>1. ASSUME etag = "same", Cleared(row), UNCHANGED row PROVE Cleared(row)'
  <2> SUFFICES ASSUME NEW f \in Files, srv[f] = None PROVE Departed(row, f)'
    BY DEF Cleared
  <2>1. row[f] = None \/ disk'[f] \notin {row[f].hash, row[f].rid}
    BY <1>1, StaysDeparted DEF Cleared
  <2> QED
    BY <1>1, <2>1 DEF Departed
<1>2. ASSUME saved.etag = "same", Cleared(saved.row), saved'.row = saved.row PROVE Cleared(saved.row)'
  <2> SUFFICES ASSUME NEW f \in Files, srv[f] = None PROVE Departed(saved.row, f)'
    BY DEF Cleared
  <2>1. saved.row[f] = None \/ disk'[f] \notin {saved.row[f].hash, saved.row[f].rid}
    BY <1>2, StaysDeparted DEF Cleared
  <2> QED
    BY <1>2, <2>1 DEF Departed
<1> QED
  BY <1>1, <1>2

LEMMA DeviceClear == ASSUME Typed, Clear, ~PutsBack, DeviceNext PROVE Clear'
<1>0. Types /\ saved \in Saved
  BY TypeParts DEF Typed
<1>1. ASSUME Between PROVE Clear'
  <2>1. ~InSession' /\ ~InForce' /\ UNCHANGED <<srv, row, etag, scope, saved, pc>>
    BY <1>1 DEF Between, db, session, InSession, InForce
  <2> QED
    BY <2>1, StaysCleared DEF Clear, Resting, Stored, InSession
<1>2. ASSUME OthersAct PROVE Clear'
  <2>1. etag' = Moved(etag) /\ saved' = [saved EXCEPT !.etag = Moved(@)]
    BY <1>2 DEF OthersAct
  <2>2. etag' # "same" /\ saved'.etag # "same"
    BY <1>0, <2>1 DEF Moved, Saved
  <2> QED
    BY <2>2 DEF Clear, Resting, Stored, InForce
<1>3. CASE SaveSettings
  <2>1. /\ UNCHANGED <<srv, row, etag, scope, saved, pc, list, stats, todo, bad, inc, dir, held, waited>>
        /\ disk' = [disk EXCEPT !["data"] = running] /\ running # None
    BY <1>3 DEF SaveSettings, db, session, device
  <2>2. /\ (Resting' <=> Resting) /\ (Stored' <=> Stored) /\ (InForce' <=> InForce)
        /\ (Opposed' <=> Opposed)
    BY <2>1 DEF Resting, Stored, InForce, InSession, Opposed
  <2>3. (Resting' => Cleared(row)') /\ (Stored' => Cleared(saved.row)')
    BY <2>1, <2>2, StaysCleared DEF Clear, Resting, Stored
  <2>4. ASSUME InForce, NEW f \in Files PROVE Lost(f)'
    <3> SUFFICES ASSUME srv[f] = None, Lost(f) PROVE Lost(f)'
      BY <2>1, <2>4 DEF Clear, Lost
    <3>1. etag = "same"
      BY <2>4 DEF InForce
    <3>2. Departed(row, f) => Departed(row, f)'
      BY <2>1, <3>1, StaysDeparted DEF Departed
    <3>3. CASE disk'[f] = disk[f]
      BY <2>1, <2>2, <3>3 DEF Lost, Unlisted, Doomed, Outdated, Departed, Waits, Id, Hash, LocalEdit
    <3>4. CASE disk'[f] # disk[f]
      <4>1. row[f] # None => disk'[f] \notin {row[f].hash, row[f].rid}
        BY <2>1, <3>1, <3>4 DEF PutsBack, HidesIn
      <4>2. disk'[f] # None
        BY <1>0, <2>1, <3>4 DEF Types
      <4>3. Departed(row, f)' /\ (row[f] # None => LocalEdit(f)')
        BY <2>1, <4>1, <4>2 DEF Departed, LocalEdit, Hash
      <4> QED
        BY <2>1, <2>2, <4>3 DEF Lost, Unlisted, Doomed, Outdated, Waits, Id
    <3> QED
      BY <3>3, <3>4
  <2> QED
    BY <2>2, <2>3, <2>4 DEF Clear
<1>4. CASE Crash
  <2>1. /\ pc' = "off" /\ row' = saved.row /\ etag' = saved.etag /\ scope' = saved.scope
        /\ UNCHANGED <<disk, srv, saved>>
    BY <1>4 DEF Crash, Drop, bundle
  <2> QED
    BY <2>1 DEF Clear, Resting, Stored, InForce, InSession, Cleared, Departed
<1> QED
  BY <1>1, <1>2, <1>3, <1>4 DEF DeviceNext, Install, Publish, ForeignSettings, Enable, SetListed,
                                Uninstall, UpdateApp, Restart, ForeignUninstall

LEMMA TurnClear == ASSUME Typed, Honest, Clear, ~PutsBack, NEW f \in Files, FileStep(f) PROVE Clear'
<1>0. Types /\ saved \in Saved
  BY TypeParts DEF Typed
<1>1. Turned(f) /\ Accounts(f)
  BY FileStepTurns, FileStepAccounts
<1>2. /\ f \in todo /\ todo' = todo \ {f} /\ InSession /\ InSession'
      /\ UNCHANGED <<pc, list, stats, inc, dir, held, waited, scope, awaiting>>
  BY <1>1 DEF Turned, Around, device, InSession
<1>3. Stored' => Cleared(saved.row)'
  <2>1. Stored' => Stored /\ UNCHANGED <<srv, saved>>
    <3>1. CASE Steady
      BY <3>1 DEF Steady, Stored
    <3>2. CASE Touch
      BY <1>0, <3>2 DEF Touch, Moved, Stored, Saved
    <3> QED
      BY <1>1, <3>1, <3>2 DEF Accounts
  <2> QED
    BY <2>1, StaysCleared DEF Clear, Stored
<1>4. ASSUME InForce', NEW g \in Files PROVE Lost(g)'
  <2>1. InForce /\ ~Disarms /\ UNCHANGED <<srv, saved>> /\ ArmedTurn(f)
    BY <1>4, TurnInForce, FileStepArmed
  <2> SUFFICES ASSUME srv[g] = None, Lost(g) PROVE Lost(g)'
    BY <1>4, <2>1 DEF Clear, Lost
  <2>2. CASE g # f
    <3>1. disk'[g] = disk[g] /\ row'[g] = row[g]
      BY <1>1, <2>2, OthersAlone
    <3> QED
      BY <1>2, <2>2, <3>1 DEF Lost, Unlisted, Doomed, Outdated, Departed, Waits, Id, Hash, LocalEdit, Opposed
  <2>3. CASE g = f
    <3>1. CASE pc = "files"
      <4>1. list[f] # None /\ Id(f) = list[f] /\ Departed(row, f) /\ row[f] # None
        BY <1>2, <2>3, <3>1 DEF Typed, Looked, There, Lost, Outdated, Id
      <4>2. Skipped(f)
        BY <2>1, <2>3, <3>1, <4>1 DEF ArmedTurn, Agreed, Matched, Brought, Departed, Hash, Id
      <4>3. Opposed
        BY <1>0, <4>1, <4>2 DEF Skipped, Action, Opposed, Types
      <4> QED
        BY <1>2, <2>3, <4>1, <4>2, <4>3 DEF Skipped, Lost, Outdated, Departed, Id, Opposed
    <3>2. CASE pc = "up"
      <4>1. list[f] = None /\ Left(f)
        BY <1>2, <2>1, <3>2 DEF Honest, ArmedTurn
      <4> QED
        BY <1>2, <2>3, <3>2, <4>1 DEF Lost, Unlisted, Doomed, Left, Hash
    <3>3. CASE pc \in {"missing", "absent"}
      <4>1. list[f] = None /\ Known(f)
        BY <1>2, <2>1, <3>3 DEF Honest
      <4>2. row'[f] = None
        BY <1>0, <2>1, <3>3, <4>1 DEF ArmedTurn, Cleaned, Set, Types, Rows
      <4> QED
        BY <1>2, <2>3, <4>1, <4>2 DEF Lost, Unlisted
    <3> QED
      BY <2>1, <3>1, <3>2, <3>3 DEF ArmedTurn
  <2> QED
    BY <2>2, <2>3
<1> QED
  BY <1>2, <1>3, <1>4 DEF Clear, Resting

LEMMA PrepareClear ==
    ASSUME Typed, Clear, NEW l \in [Files -> Content], ~InSession, Prepare(l),
           listed => \A f \in Files : srv[f] = None => l[f] = None \/ (l[f] = Id(f) /\ Departed(row, f))
    PROVE  Clear'
<1>1. /\ list' = l /\ waited' = awaiting /\ pc' = "files" /\ UNCHANGED <<disk, srv, saved, awaiting>>
      /\ todo' = IF inc' # "in" THEN {} ELSE There(l) \ (IF awaiting \/ held' THEN {"data"} ELSE {})
      /\ (inc' = "in" => listed /\ row' = row)
  BY DEF Prepare, Evaluate, DropStale, Stale, bundle, device
<1>2. ASSUME InForce', NEW f \in Files, srv[f] = None PROVE Lost(f)'
  <2>1. listed /\ todo' = There(l) /\ row' = row
    BY <1>1, <1>2 DEF InForce
  <2>2. CASE l[f] = None
    BY <1>1, <2>2 DEF Lost, Unlisted, Doomed
  <2>3. CASE l[f] # None
    <3>1. l[f] = Id(f) /\ Departed(row, f) /\ f \in todo'
      BY <1>2, <2>1, <2>3 DEF There
    <3> QED
      BY <1>1, <2>1, <2>3, <3>1 DEF Lost, Outdated, Departed, Waits, Id
  <2> QED
    BY <2>2, <2>3
<1>3. Stored' => Cleared(saved.row)'
  BY <1>1 DEF Clear, Stored, Cleared, Departed
<1> QED
  BY <1>1, <1>2, <1>3 DEF Clear, Resting, InSession, Lost

\* A step between two phases, when every file that is gone stays accounted for.
LEMMA ThenClear ==
    ASSUME Clear, NEW phase, NEW from, NEW fs, phase # "off", from # "off", Then(phase, from, fs),
           \A f \in Files : InForce /\ srv[f] = None /\ Lost(f) => Lost(f)'
    PROVE  Clear'
<1>1. /\ UNCHANGED <<disk, srv, row, etag, scope, saved, bad, inc, held, waited>>
      /\ InSession /\ InSession'
  BY DEF Then, bundle, db, device, plugin, InSession
<1>2. (Stored' <=> Stored) /\ (InForce' <=> InForce) /\ ~Resting'
  BY <1>1 DEF Stored, InForce, Resting
<1>3. Cleared(saved.row) => Cleared(saved.row)'
  BY <1>1 DEF Cleared, Departed
<1>4. \A f \in Files : srv[f] # None => Lost(f)'
  BY <1>1 DEF Lost
<1> QED
  BY <1>2, <1>3, <1>4 DEF Clear

LEMMA SessionClear == ASSUME Typed, Honest, Clear, ~PutsBack, SessionNext PROVE Clear'
<1>0. Types
  BY TypeParts DEF Typed
<1>a. ASSUME NEW phase, NEW from, NEW fs, Then(phase, from, fs)
      PROVE  /\ UNCHANGED <<disk, srv, row, awaiting, list, inc, dir, held, waited>>
             /\ pc = from /\ todo = {} /\ pc' = phase /\ todo' = fs /\ (Opposed' <=> Opposed)
             /\ \A f \in Files : (Departed(row, f)' <=> Departed(row, f)) /\ Id(f)' = Id(f) /\ ~Waits(f)
                                 /\ Hash(f)' = Hash(f) /\ (LocalEdit(f)' <=> LocalEdit(f))
  BY <1>a DEF Then, bundle, db, device, plugin, Departed, Id, Hash, LocalEdit, Waits, Opposed
<1>b. InForce => inc = "in" /\ ~awaiting /\ ~held /\ \A f \in Files : Included(f)
  BY DEF InForce, Honest, Included
<1>1. CASE ScanReal
  BY <1>0, <1>1, PrepareClear DEF ScanReal, Types
<1>2. CASE ScanCached
  <2> DEFINE l == [f \in Files |-> Id(f)]
  <2>1. l \in [Files -> Content]
    BY <1>0 DEF Types, Id, Rows, Row, Content
  <2>2. ~InSession /\ Prepare(l) /\ (listed => Resting)
    BY <1>0, <1>2 DEF ScanCached, Resting, Types
  <2>3. listed => \A f \in Files : srv[f] = None => l[f] = Id(f) /\ Departed(row, f)
    BY <2>2 DEF Clear, Cleared
  <2> HIDE DEF l
  <2> QED
    BY <2>1, <2>2, <2>3, PrepareClear
<1>3. CASE CollectLocal
  <2> DEFINE fs == {f \in There(disk) \ There(list) : Included(f) /\ LocalEdit(f) /\ ~Skips(f)}
  <2>1. Then("up", "files", fs) /\ stats' = [f \in Files |-> IF Included(f) THEN disk[f] ELSE None]
    BY <1>3 DEF CollectLocal
  <2>2. ASSUME NEW f \in Files, InForce, srv[f] = None, Lost(f) PROVE Lost(f)'
    <3>1. CASE list[f] # None
      BY <1>a, <2>1, <2>2, <3>1 DEF Lost, Outdated
    <3>2. CASE row[f] = None /\ list[f] = None
      BY <1>a, <2>1, <3>2 DEF Lost, Unlisted
    <3>3. CASE row[f] # None /\ list[f] = None
      <4>1. stats'[f] = disk[f]
        BY <1>b, <2>1, <2>2
      <4>2. dir # "hold"
        BY <1>a, <2>1, <2>2 DEF Honest, Undecided, Opposed
      <4>3. ASSUME LocalEdit(f) PROVE f \in fs
        <5>1. f \in There(disk) \ There(list)
          BY <3>3, <4>3 DEF LocalEdit, There
        <5>2. ~Skips(f)
          BY <3>3, <4>2 DEF Skips, Action
        <5> QED
          BY <1>b, <2>2, <4>3, <5>1, <5>2
      <4>4. stats'[f] = None \/ disk[f] = Hash(f) \/ LocalEdit(f)
        BY <4>1 DEF LocalEdit
      <4> HIDE DEF fs
      <4>5. Doomed(f)'
        BY <1>a, <2>1, <4>3, <4>4 DEF Doomed
      <4> QED
        BY <1>a, <2>1, <3>3, <4>5 DEF Lost, Unlisted
    <3> QED
      BY <3>1, <3>2, <3>3
  <2> HIDE DEF fs
  <2> QED
    BY <2>1, <2>2, ThenClear
<1>4. CASE JudgeMissing
  <2> DEFINE fs == {f \in There(row) : Included(f) /\ stats[f] = None /\ list[f] = None}
  <2>1. Then("missing", "up", fs) /\ stats' = stats
    BY <1>4 DEF JudgeMissing
  <2>2. ASSUME NEW f \in Files, InForce, srv[f] = None, Lost(f) PROVE Lost(f)'
    <3>1. list[f] = None
      BY <1>a, <2>1, <2>2 DEF Honest, Undecided, Opposed, Lost, Outdated
    <3>2. CASE row[f] = None
      BY <1>a, <2>1, <3>1, <3>2 DEF Lost, Unlisted
    <3>3. CASE row[f] # None
      <4>1. pc = "up" /\ todo = {} /\ Doomed(f)
        BY <1>a, <2>1, <2>2, <3>1, <3>3 DEF Lost, Unlisted
      <4>2. stats[f] = None => f \in fs
        BY <1>b, <2>2, <3>1, <3>3 DEF There
      <4> HIDE DEF fs
      <4>3. stats[f] = None \/ disk[f] = Hash(f) \/ Departed(row, f)
        BY <4>1 DEF Doomed
      <4>4. pc' = "missing" /\ todo' = fs /\ stats' = stats /\ disk' = disk
        BY <1>a, <2>1
      <4>5. Doomed(f)'
        BY <1>a, <2>1, <4>2, <4>3, <4>4 DEF Doomed
      <4> QED
        BY <1>a, <2>1, <3>1, <4>5 DEF Lost, Unlisted
    <3> QED
      BY <3>2, <3>3
  <2> HIDE DEF fs
  <2> QED
    BY <2>1, <2>2, ThenClear
<1>5. CASE JudgeAbsent
  <2> DEFINE fs == {f \in There(row) : /\ Included(f) /\ stats[f] # None
                                      /\ list[f] = None /\ disk[f] = Hash(f)}
  <2>1. Then("absent", "missing", fs) /\ stats' = stats
    BY <1>5 DEF JudgeAbsent
  <2>2. ASSUME NEW f \in Files, InForce, srv[f] = None, Lost(f) PROVE Lost(f)'
    <3>1. list[f] = None
      BY <1>a, <2>1, <2>2 DEF Honest, Undecided, Opposed, Lost, Outdated
    <3>2. CASE row[f] = None
      BY <1>a, <2>1, <3>1, <3>2 DEF Lost, Unlisted
    <3>3. CASE row[f] # None
      <4>1. pc = "missing" /\ todo = {} /\ Doomed(f)
        BY <1>a, <2>1, <2>2, <3>1, <3>3 DEF Lost, Unlisted
      <4>2. stats[f] # None /\ (disk[f] = Hash(f) \/ Departed(row, f))
        BY <4>1 DEF Doomed
      <4>3. disk[f] = Hash(f) => f \in fs
        BY <1>b, <2>2, <3>1, <3>3, <4>2 DEF There
      <4> HIDE DEF fs
      <4>4. pc' = "absent" /\ todo' = fs
        BY <1>a, <2>1
      <4>5. Doomed(f)'
        BY <1>a, <2>1, <4>2, <4>3, <4>4 DEF Doomed
      <4> QED
        BY <1>a, <2>1, <3>1, <4>5 DEF Lost, Unlisted
    <3> QED
      BY <3>2, <3>3
  <2> HIDE DEF fs
  <2> QED
    BY <2>1, <2>2, ThenClear
<1>6. CASE Finish
  <2>1. /\ pc = "absent" /\ todo = {} /\ pc' = "off"
        /\ UNCHANGED <<disk, srv, row, scope>> /\ etag' = IF bad \/ Invalidates THEN "none" ELSE etag
        /\ saved' = [row |-> row', etag |-> etag', scope |-> scope']
    BY <1>6 DEF Finish, Drop, Persist, bundle
  <2>2. ASSUME etag' = "same", scope PROVE Cleared(row)
    <3>1. InForce
      BY <1>0, <2>1, <2>2 DEF InForce, Invalidates, InSession, Honest, Types
    <3>2. ~Opposed
      BY <2>1, <3>1 DEF Honest, Undecided
    <3> SUFFICES ASSUME NEW f \in Files, srv[f] = None PROVE Departed(row, f)
      BY DEF Cleared
    <3>3. Lost(f)
      BY <3>1 DEF Clear
    <3> QED
      BY <2>1, <3>2, <3>3 DEF Lost, Outdated, Unlisted, Doomed, Departed, Waits
  <2>3. (Resting' => Cleared(row)') /\ (Stored' => Cleared(saved.row)')
    BY <2>1, <2>2 DEF Resting, Stored, Cleared, Departed
  <2> QED
    BY <2>1, <2>3 DEF Clear, InSession, InForce
<1>7. ASSUME NEW f \in Files, FileStep(f) PROVE Clear'
  BY <1>7, TurnClear
<1> QED
  BY <1>1, <1>2, <1>3, <1>4, <1>5, <1>6, <1>7 DEF SessionNext, FileStep

\* Between sessions an armed root ETag hides nothing of the bundle from the next session,
\* neither a file that the server has nor that an unedited one is gone, in every behaviour
\* in which nobody puts the recorded content of a file that is gone back while the root
\* ETag is armed: whatever the versions, the edits, the other devices, crashes and faults.
THEOREM HiddenOnlyWhenPutBack == Spec /\ [][~PutsBack]_vars => []Safety
<1>1. Clear /\ UNCHANGED vars => Clear'
  BY DEF Clear, Resting, Stored, InForce, InSession, Cleared, Departed, LocalEdit, Hash, Lost, Unlisted,
         Doomed, Outdated, Waits, Id, Opposed, vars
<1>2. Typed /\ Honest /\ Clear /\ [Next]_vars /\ [~PutsBack]_vars => Clear'
  BY <1>1, DeviceClear, SessionClear DEF Next
<1>3. Typed /\ Honest /\ Clear => Safety
  <2> SUFFICES ASSUME Typed, Honest, Clear PROVE ArmedHidesNothing
    BY DEF Typed, Safety
  <2> SUFFICES ASSUME Resting, NEW f \in Files, Id(f) # srv[f] PROVE srv[f] = None /\ disk[f] # Hash(f)
    BY DEF ArmedHidesNothing, Resting
  <2>1. srv[f] = None
    BY DEF Honest, Served, Id
  <2>2. row[f] # None /\ Departed(row, f)
    BY <2>1 DEF Clear, Cleared, Id
  <2> QED
    BY <2>1, <2>2 DEF Departed, Hash
<1> QED
  BY <1>2, <1>3, InitClear, HonestHolds, PTL DEF Spec
=============================================================================
