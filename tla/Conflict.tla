------------------------------- MODULE Conflict -------------------------------
(***************************************************************************)
(* One note on several devices: how a conflict is decided and merged       *)
(* (ConflictResolver, MergeEngine, FrontmatterMergeStrategy), what the     *)
(* device records of it (row, merge base, the two clean sides), and how    *)
(* the user settles it.  A sync of the note is one step here, FileSync is  *)
(* about its steps.                                                        *)
(*                                                                         *)
(* A note is its frontmatter and a body of regions that diff3 aligns; a    *)
(* region is a sequence of lines, numbers, among them the marker lines.    *)
(***************************************************************************)
EXTENDS Integers, Sequences, FiniteSets, SequencesExt

CONSTANTS
    Devices,
    Configs,          \* the settings to look at, with the part of the note users edit
    Starts,           \* subset of StartKinds
    Commands,         \* of the user: subset of {"force", "compare", "halve", "break", "old"}
    MaxEdits, MaxFaults

Strategies == {"merge", "local-win", "remote-win", "biggest-size", "latest-mtime"}
StartKinds == {"synced", "empty", "first"}
ASSUME ConflictAssumption ==
    /\ Configs \subseteq [kind : {"markdown", "text", "other", "binary"}, fm : Strategies, body : Strategies,
                          conflict : (Strategies \ {"merge"}) \cup {"conflict-markers"},
                          part : {"frontmatter", "body"}]
    /\ Starts \subseteq StartKinds /\ MaxEdits \in Nat /\ MaxFaults \in Nat

VARIABLES
    conf,             \* the settings, the same on every device
    note, server,     \* the content on each device and on the server
    row, base, clean, \* per device: StateDB, MergeBaseStore, CleanSideStore
    edits, faults,
    live, tags        \* history: lines and items some user wrote and none removed

device == <<note, row, base, clean>>
history == <<live, tags>>
vars == <<conf, note, server, row, base, clean, edits, faults, live, tags>>

Open == -1
Mid == -2
Close == -3
None == <<>>
Flat(b) == FlattenSeq(b)
Lines(c) == ToSet(Flat(c.body))
FmSize(fm) == Cardinality(DOMAIN fm.map) + IF "tags" \in DOMAIN fm.map THEN Cardinality(fm.map["tags"]) ELSE 0
Size(c) == FmSize(c.fm) + Len(Flat(c.body))
Compare(a, b) == IF a = b THEN "tie" ELSE IF a > b THEN "local" ELSE "remote"
-----------------------------------------------------------------------------
(* Picking and merging. *)

\* pickWholeSide, pickRegion and pickScalarByConflict: an equal size falls to the
\* mtime, an equal mtime to the remote.
LocalWins(strategy, bigger, newer) ==
    CASE strategy = "local-win" -> TRUE
      [] strategy = "remote-win" -> FALSE
      [] strategy = "biggest-size" /\ bigger # "tie" -> bigger = "local"
      [] OTHER -> newer = "local"

\* A deletion against a change: the larger is the value, else the newer operation.
DeletionWins(deleter, strategy, newer) ==
    CASE strategy = "local-win" -> deleter = "local"
      [] strategy = "remote-win" -> deleter = "remote"
      [] strategy = "biggest-size" -> FALSE
      [] OTHER -> (deleter = "local") = (newer = "local")

\* mergeArrayField: where the sides disagree, the one that differs from the base wins.
MergeList(b, l, r) ==
    {i \in b \cup l \cup r : IF (i \in l) = (i \in r) THEN i \in l ELSE i \notin b}

MergeFrontmatter(b, l, r, strategy, newer) ==
    LET has(m, k) == k \in DOMAIN m
        same(m, k) == has(b, k) /\ m[k] = b[k]
        kept(k) ==
            \/ has(l, k) /\ has(r, k)
            \/ has(l, k) /\ ~has(r, k) /\ (has(b, k) => ~same(l, k) /\ ~DeletionWins("remote", strategy, newer))
            \/ has(r, k) /\ ~has(l, k) /\ (has(b, k) => ~same(r, k) /\ ~DeletionWins("local", strategy, newer))
        list(m, k) == IF has(m, k) THEN m[k] ELSE {}
        value(k) ==
            IF ~has(r, k) THEN l[k]
            ELSE IF ~has(l, k) THEN r[k]
            ELSE IF k = "tags" THEN MergeList(list(b, k), l[k], r[k])
            ELSE IF same(r, k) \/ (~same(l, k) /\ LocalWins(strategy, "tie", newer)) THEN l[k] ELSE r[k]
    IN  [k \in {k \in DOMAIN l \cup DOMAIN r : kept(k)} |-> value(k)]

\* resolveFrontmatterBlock: never a marker; an unparseable side is taken or left whole.
ResolveFrontmatter(b, l, r, newer) ==
    LET fallback == IF conf.conflict = "conflict-markers" THEN "latest-mtime" ELSE conf.conflict
        whole(strategy) ==
            IF LocalWins(strategy, Compare(FmSize(l), FmSize(r)), newer) THEN l ELSE r
    IN  IF l = r THEN l
        ELSE IF conf.fm # "merge" THEN whole(conf.fm)
        ELSE IF l.ok /\ r.ok
             THEN [ok |-> TRUE, map |-> MergeFrontmatter(IF b.ok THEN b.map ELSE None, l.map, r.map,
                                                         conf.conflict, newer)]
        ELSE whole(fallback)

Marked(l, r) == <<Open>> \o l \o <<Mid>> \o r \o <<Close>>
\* Mutant: a region both sides changed is the local one's.
LocalRegion(b, l, r, newer) == IF l = b THEN r ELSE l
\* One region of diff3, a conflicting one by the second-level strategy.
Region(b, l, r, newer) ==
    IF l = r \/ r = b THEN l
    ELSE IF l = b THEN r
    ELSE IF conf.conflict = "conflict-markers" THEN Marked(l, r)
    ELSE IF LocalWins(conf.conflict, Compare(Len(l), Len(r)), newer) THEN l ELSE r

Clean(body) == [body |-> body, marked |-> FALSE]
\* pickWholeSide of two bodies, and wholeConflict.
OneBody(strategy, l, r, newer) ==
    Clean(IF LocalWins(strategy, Compare(Len(Flat(l)), Len(Flat(r))), newer) THEN l ELSE r)
Whole(l, r, newer) ==
    IF conf.conflict = "conflict-markers"
    THEN [body |-> <<Marked(Flat(l), Flat(r)), <<>>>>, marked |-> TRUE]
    ELSE OneBody(conf.conflict, l, r, newer)

\* mergeBodyByRegions.  Without a base reconcile-text makes a union; when that looks
\* duplicated or fused, the whole body conflicts.
ByRegions(b, l, r, newer) ==
    CASE Flat(b) # <<>> ->
             {[body |-> [i \in DOMAIN l |-> Region(b[i], l[i], r[i], newer)],
               marked |-> /\ conf.conflict = "conflict-markers"
                          /\ \E i \in DOMAIN l : Cardinality({b[i], l[i], r[i]}) = 3]}
      [] Flat(b) = <<>> /\ Flat(l) = <<>> -> {Clean(r)}
      [] Flat(b) = <<>> /\ Flat(l) # <<>> /\ Flat(r) = <<>> -> {Clean(l)}
      [] OTHER -> {Clean([i \in DOMAIN l |-> IF l[i] = r[i] THEN l[i] ELSE l[i] \o r[i]]), Whole(l, r, newer)}

ResolveBody(strategy, b, l, r, newer) ==
    CASE l = r -> {Clean(l)}
      [] l # r /\ strategy = "merge" -> ByRegions(b, l, r, newer)
      [] OTHER -> {OneBody(strategy, l, r, newer)}
-----------------------------------------------------------------------------
(* Deciding. *)

Complete(c) == {Open, Close} \subseteq Lines(c)
Stacked(c) == LET s == Flat(c.body) IN
    \E i, j \in DOMAIN s : i < j /\ s[i] = Open /\ s[j] = Open /\ \A k \in i..j : s[k] # Close

Blank == [fm |-> [ok |-> TRUE, map |-> None], body |-> <<<<>>, <<>>>>]
Act(action) == [action |-> action, content |-> Blank, clean |-> TRUE]
Hold == Act("safe-hold")
BySide(which) == CASE which = "tie" -> Act("no-op") [] which = "local" -> Act("prefer-local") [] OTHER -> Act("prefer-remote")
ByComparison(strategy, l, r, newer) ==
    CASE strategy = "local-win" -> Act("prefer-local")
      [] strategy = "remote-win" -> Act("prefer-remote")
      [] strategy = "biggest-size" -> BySide(Compare(Size(l), Size(r)))
      [] strategy = "latest-mtime" -> BySide(newer)
      [] OTHER -> Hold

Mergeable(l, r) == ~Complete(l) /\ ~Complete(r)

\* Mutant: stacked markers are written.
Writes(fm, merged) == [action |-> "write", content |-> [fm |-> fm, body |-> merged.body], clean |-> ~merged.marked]
\* Nested markers are never persisted.
WriteOrHold(fm, merged) == IF Stacked(merged) THEN Hold ELSE Writes(fm, merged)

decideMarkdown(b, l, r, newer) ==
    IF Mergeable(l, r)
    THEN {WriteOrHold(ResolveFrontmatter(b.fm, l.fm, r.fm, newer), merged) :
              merged \in ResolveBody(conf.body, b.body, l.body, r.body, newer)}
    ELSE {Hold}
decideMerge(b, l, r, newer) ==
    IF Mergeable(l, r)
    THEN {WriteOrHold(l.fm, merged) : merged \in ResolveBody("merge", b.body, l.body, r.body, newer)}
    ELSE {Hold}
\* Only "merge" depends on the content; binary content cannot carry markers.
decide(b, l, r, newer) ==
    CASE conf.kind = "markdown" -> decideMarkdown(b, l, r, newer)
      [] conf.kind = "text" /\ conf.body = "merge" -> decideMerge(b, l, r, newer)
      [] conf.kind = "binary" /\ conf.body = "merge" -> {ByComparison(conf.conflict, l, r, newer)}
      [] OTHER -> {ByComparison(conf.body, l, r, newer)}
-----------------------------------------------------------------------------
(* What a sync does with the note of one device. *)

NoRow == [hash |-> Blank, id |-> Blank, size |-> 0, known |-> FALSE, conflicted |-> FALSE]
Row(c) == [hash |-> c, id |-> c, size |-> Size(c), known |-> TRUE, conflicted |-> FALSE]
NoBase == [known |-> FALSE, content |-> Blank]
Base(c) == [known |-> TRUE, content |-> c]
NoSides == [known |-> FALSE, local |-> Blank, remote |-> Blank]
Sides(l, r) == [known |-> TRUE, local |-> l, remote |-> r]
\* Whose mtime is later: the clocks of devices and server are not the same.
Order == {"local", "remote", "tie"}

NoServer == [known |-> FALSE, content |-> Blank]
Put(c) == server' = [known |-> TRUE, content |-> c]
Fail == faults < MaxFaults /\ faults' = faults + 1
\* sweepResolvedSnapshots, at the end of the session.
Sweep(d) == clean' = [clean EXCEPT ![d] = IF row'[d].conflicted THEN @ ELSE NoSides]
SetRow(d, r) == row' = [row EXCEPT ![d] = r]
SetBase(d, c) == base' = [base EXCEPT ![d] = Base(c)]

LocalChanged(d) == ~row[d].known \/ note[d] # row[d].hash
RemoteChanged(d) == ~row[d].known \/ server.content # row[d].id
Identical(d) == server.known /\ note[d] = server.content

Upload(d) ==
    /\ ~Identical(d) /\ LocalChanged(d)
    /\ \/ ~server.known
       \/ ~RemoteChanged(d)
    /\ Put(note[d])
    /\ SetRow(d, Row(note[d])) /\ SetBase(d, note[d]) /\ Sweep(d)
    /\ UNCHANGED <<conf, note, edits, faults, live, tags>>

Download(d) ==
    /\ ~Identical(d) /\ server.known /\ ~LocalChanged(d) /\ RemoteChanged(d)
    /\ note' = [note EXCEPT ![d] = server.content]
    /\ SetRow(d, Row(server.content)) /\ SetBase(d, server.content) /\ Sweep(d)
    /\ UNCHANGED <<conf, server, edits, faults, history>>

\* Identical content is only recorded: when the server's checksum tells, without the merge
\* base; else in the conflict, upload or download that finds it so, with it.  Nothing changed
\* on either side clears the flag of the row, unless the size tells of a divergence.
Divergent(d) == ~LocalChanged(d) /\ ~RemoteChanged(d) /\ Size(note[d]) # row[d].size
Converge(d) ==
    /\ \/ /\ Identical(d) /\ SetRow(d, Row(note[d]))
          /\ \/ UNCHANGED base
             \/ (LocalChanged(d) \/ RemoteChanged(d)) /\ SetBase(d, note[d])
       \/ /\ ~Identical(d) /\ ~LocalChanged(d) /\ ~RemoteChanged(d) /\ ~Divergent(d)
          /\ SetRow(d, [row[d] EXCEPT !.conflicted = FALSE]) /\ UNCHANGED base
    /\ Sweep(d)
    /\ UNCHANGED <<conf, note, server, edits, faults, history>>

\* safe-hold flags the row, if there is one; a tie does nothing.
HoldConflict(d, decision) ==
    /\ decision.action \in {"safe-hold", "no-op"}
    /\ SetRow(d, IF decision.action = "safe-hold" /\ row[d].known THEN [row[d] EXCEPT !.conflicted = TRUE] ELSE row[d])
    /\ UNCHANGED <<server, note, base, clean, faults>>

PreferLocal(d, decision) ==
    /\ decision.action = "prefer-local"
    /\ \/ Put(note[d]) /\ SetRow(d, Row(note[d])) /\ SetBase(d, note[d])
         /\ Sweep(d) /\ UNCHANGED faults
       \/ Fail /\ UNCHANGED <<server, row, base, clean>>
    /\ UNCHANGED note

PreferRemote(d, decision) ==
    /\ decision.action = "prefer-remote"
    /\ note' = [note EXCEPT ![d] = server.content]
    /\ SetRow(d, Row(server.content)) /\ SetBase(d, server.content) /\ Sweep(d)
    /\ UNCHANGED <<server, faults>>

\* Mutant: the base advances although the merge was not pushed.
AdvancesUnpushed(clean_, pushed) == clean_
\* The merge base advances once a clean merge reached the server.
Advances(clean_, pushed) == clean_ /\ pushed
\* Mutant: a merge that was not pushed is recorded as the last synced content.
HashedRow(d, c, clean_, pushed) ==
    [Row(c) EXCEPT !.conflicted = ~clean_ \/ ~pushed, !.id = IF pushed THEN c ELSE server.content]
\* A failed push keeps the old hash, so that the next session sees a local change.
WrittenRow(d, c, clean_, pushed) ==
    IF pushed THEN [Row(c) EXCEPT !.conflicted = ~clean_]
    ELSE [hash |-> row[d].hash, id |-> server.content, size |-> Size(c), known |-> TRUE, conflicted |-> TRUE]

\* Is a note left at the very content its row records?  Then nothing tells the next
\* session of a change.
Fresh(d, c) == c = row[d].hash => "old" \in Commands
\* captureCleanSides before markers are written, then resolveByWrite.
WriteMerge(d, decision) ==
    /\ decision.action = "write"
    /\ note' = [note EXCEPT ![d] = decision.content]
    /\ \E pushed \in BOOLEAN :
           /\ IF pushed THEN Put(decision.content) /\ UNCHANGED faults ELSE UNCHANGED server /\ Fail /\ Fresh(d, decision.content)
           /\ SetRow(d, WrittenRow(d, decision.content, decision.clean, pushed))
           /\ base' = IF Advances(decision.clean, pushed) THEN [base EXCEPT ![d] = Base(decision.content)] ELSE base
    /\ clean' = [clean EXCEPT ![d] = CASE ~decision.clean -> Sides(note[d], server.content)
                                       [] decision.clean /\ row'[d].conflicted -> @
                                       [] OTHER -> NoSides]

handleConflict(d) ==
    /\ server.known /\ ~Identical(d)
    /\ (LocalChanged(d) /\ RemoteChanged(d)) \/ Divergent(d)
    /\ \E newer \in Order : \E decision \in decide(base[d].content, note[d], server.content, newer) :
           \/ HoldConflict(d, decision) \/ PreferLocal(d, decision)
           \/ PreferRemote(d, decision) \/ WriteMerge(d, decision)
    /\ UNCHANGED <<conf, edits, live, tags>>

Sync(d) == Upload(d) \/ Download(d) \/ Converge(d) \/ handleConflict(d)
-----------------------------------------------------------------------------
(* The user. *)

Counted == edits < MaxEdits /\ edits' = edits + 1
Edit(d, c, lines, items) ==
    /\ Counted /\ Fresh(d, c)
    /\ note' = [note EXCEPT ![d] = c]
    /\ live' = lines /\ tags' = items
    /\ UNCHANGED <<conf, server, row, base, clean, faults>>

Marker(x) == x < 0
Replace(d, i, r) == [note[d] EXCEPT !.body[i] = r]
EditLine(d, i) ==
    LET old == note[d].body[i]
    IN  /\ conf.part = "body" /\ \A n \in DOMAIN old : ~Marker(old[n])
        /\ \E new \in {<<>>, <<10 + edits>>} :
               Edit(d, Replace(d, i, new), (live \ ToSet(old)) \cup ToSet(new), tags)

Untracked == 0
Field(d, map) == [note[d] EXCEPT !.fm.map = map]
HasTags(d) == "tags" \in DOMAIN note[d].fm.map
EditTags(d) ==
    LET old == note[d].fm.map["tags"]
    IN  /\ conf.part = "frontmatter" /\ note[d].fm.ok /\ HasTags(d)
        /\ \E new \in {old \cup {10 + edits}} \cup {old \ {i} : i \in old} :
               Edit(d, Field(d, [note[d].fm.map EXCEPT !["tags"] = new]), live,
                    IF Untracked \in tags THEN tags ELSE (tags \ old) \cup (new \ (old \ tags)))
EditTitle(d) ==
    LET map == note[d].fm.map
        without == [k \in DOMAIN map \ {"title"} |-> map[k]]
    IN  /\ conf.part = "frontmatter" /\ note[d].fm.ok
        /\ \E new \in {without, [k \in DOMAIN map \cup {"title"} |-> IF k = "title" THEN 10 + edits ELSE map[k]]} :
               new # map /\ Edit(d, Field(d, new), live, tags)
\* The user leaves a frontmatter no YAML parser reads.
BreakFrontmatter(d) ==
    /\ "break" \in Commands /\ conf.part = "frontmatter" /\ note[d].fm.ok
    /\ Edit(d, [note[d] EXCEPT !.fm.ok = FALSE], live, {Untracked})

Markers(d) == {i \in DOMAIN note[d].body : \E x \in ToSet(note[d].body[i]) : Marker(x)}
\* The lines of a set, each once, in order.
InOrder(lines) ==
    [n \in 1..Cardinality(lines) |-> CHOOSE x \in lines : Cardinality({y \in lines : y < x}) = n - 1]
\* The user settles a conflict region by hand: keeps every line of it once, or one.
Settle(d) == \E i \in Markers(d) :
    LET lines == {x \in ToSet(note[d].body[i]) : ~Marker(x)}
        all == Replace(d, i, InOrder(lines))
    IN  /\ Fresh(d, all) /\ note' = [note EXCEPT ![d] = all]
        /\ UNCHANGED <<conf, server, row, base, clean, edits, faults, live, tags>>
KeepOne(d) == \E i \in Markers(d) :
    LET lines == {x \in ToSet(note[d].body[i]) : ~Marker(x)}
    IN  \E x \in lines : Edit(d, Replace(d, i, <<x>>), live \ (lines \ {x}), tags)
\* ... or deletes only its last line, which leaves an orphan marker.
HalveMarkers(d) == \E i \in Markers(d) :
    /\ "halve" \in Commands /\ Last(note[d].body[i]) = Close
    /\ Edit(d, Replace(d, i, Front(note[d].body[i])), live, tags)

\* What the user gives up by taking content c.
Discards(d, c) ==
    live' = live \ ((Lines(note[d]) \cup Lines(server.content)) \ Lines(c))
pushLocalToRemote(d) ==   \* neither push nor pull touches the merge base
    /\ Put(note[d]) /\ SetRow(d, Row(note[d])) /\ Discards(d, note[d])
    /\ UNCHANGED <<note, base, clean>>
pullRemoteToLocal(d) ==
    /\ server.known /\ note' = [note EXCEPT ![d] = server.content] /\ SetRow(d, Row(server.content))
    /\ Discards(d, server.content)
    /\ UNCHANGED <<server, base, clean>>
\* Upload first, then the local write: the clean content is on both sides.
applyCleanSide(d, c) ==
    /\ Put(c) /\ note' = [note EXCEPT ![d] = c] /\ SetRow(d, Row(c)) /\ SetBase(d, c)
    /\ clean' = [clean EXCEPT ![d] = NoSides] /\ Discards(d, c)
ByMetric(choice, l, r, newer) ==
    CASE choice = "latest" -> newer
      [] choice = "biggest" -> Compare(Size(l), Size(r))
      [] OTHER -> choice

\* applyForceResolution, offered for a row flagged as conflicted; equal metrics do nothing.
ForceResolve(d, choice) ==
    /\ "force" \in Commands /\ row[d].conflicted
    /\ \E newer \in Order :
           \/ /\ clean[d].known
              /\ LET side == ByMetric(choice, clean[d].local, clean[d].remote, newer)
                 IN  side # "tie" /\ applyCleanSide(d, IF side = "local" THEN clean[d].local ELSE clean[d].remote)
           \/ /\ ~clean[d].known
              /\ LET side == ByMetric(choice, note[d], server.content, newer)
                 IN  \/ side = "local" /\ pushLocalToRemote(d)
                     \/ side = "remote" /\ pullRemoteToLocal(d)
    /\ Counted /\ tags' = {Untracked}
    /\ UNCHANGED <<conf, faults>>

\* The two buttons of the compare dialog, used when the sides differ.
CompareCommand(d) ==
    /\ "compare" \in Commands /\ note[d] # server.content
    /\ pushLocalToRemote(d) \/ pullRemoteToLocal(d)
    /\ Counted /\ tags' = {Untracked}
    /\ UNCHANGED <<conf, faults>>
-----------------------------------------------------------------------------
Note(body) == [fm |-> [ok |-> TRUE, map |-> [k \in {"tags"} |-> {}]], body |-> body]
TwoLines == Note(<<<<1>>, <<2>>>>)
\* Everything synced, with a body or without; or every device comes with its own note,
\* which counts as two edits.
Init ==
    /\ conf \in Configs /\ faults = 0 /\ tags = {}
    /\ clean = [d \in Devices |-> NoSides]
    /\ \E start \in Starts, own \in [Devices -> {<<1>>, <<3>>}] :
           LET c == IF start = "empty" THEN Note(<<<<>>, <<>>>>) ELSE TwoLines
               first == [d \in Devices |-> Note(<<own[d], <<2>>>>)]
           IN  IF start = "first"
               THEN /\ edits = 2 /\ note = first /\ server = NoServer
                    /\ row = [d \in Devices |-> NoRow] /\ base = [d \in Devices |-> NoBase]
                    /\ live = UNION {Lines(first[d]) : d \in Devices}
               ELSE /\ edits = 0 /\ note = [d \in Devices |-> c] /\ server = [known |-> TRUE, content |-> c]
                    /\ row = [d \in Devices |-> Row(c)] /\ base = [d \in Devices |-> Base(c)]
                    /\ live = Lines(c)

User(d) ==
    \/ \E i \in {1, 2} : EditLine(d, i)
    \/ EditTags(d) \/ EditTitle(d) \/ BreakFrontmatter(d) \/ KeepOne(d) \/ HalveMarkers(d)
    \/ \E choice \in {"remote", "local", "latest", "biggest"} : ForceResolve(d, choice)
    \/ CompareCommand(d)
Next == \E d \in Devices : User(d) \/ Settle(d) \/ Sync(d)
Spec == Init /\ [][Next]_vars
\* Every device goes on syncing, and the user settles what is marked.
FairSpec == Spec /\ \A d \in Devices : WF_vars(Sync(d)) /\ WF_vars(Settle(d))
-----------------------------------------------------------------------------
Contents == {note[d] : d \in Devices} \cup {server.content}
Merging == conf.body = "merge" /\ conf.kind \in {"markdown", "text"}

\* Rows, bases and captures name contents, and a capture is of markers written here.
TypeOK ==
    /\ edits \in 0..(MaxEdits + 2) /\ faults \in 0..MaxFaults
    /\ \A d \in Devices : clean[d].known => row[d].known
    /\ \A d \in Devices : ~row[d].known => ~base[d].known

\* With merging and markers, a line some user wrote and none removed is in a note
\* of some device or on the server, whatever was merged, held, retried or forced in
\* between (README: "Your writing is never lost").  A line that stands twice in an
\* ancestor is the exception (Torn in Conflict_proofs), beyond the bounds of the runs.
WritingIsNeverLost ==
    Merging /\ conf.conflict = "conflict-markers" => live \subseteq UNION {Lines(c) : c \in Contents}
\* The same for the items of a list in the frontmatter, whichever strategy settles
\* the rest: a merge of lists keeps the additions of both sides.
TagsAreNeverLost ==
    conf.kind = "markdown" /\ conf.fm = "merge" /\ Untracked \notin tags =>
        tags \subseteq UNION {c.fm.map["tags"] : c \in {c \in Contents : c.fm.ok /\ "tags" \in DOMAIN c.fm.map}}
\* With the types: no capture without a row.
Safety == TypeOK /\ WritingIsNeverLost /\ TagsAreNeverLost

\* No merge stacks markers on markers: a note that has them got them from the
\* server or from its user's hand.
MergesNeverStack ==
    [][\A d \in Devices : Stacked(note'[d]) /\ note'[d] # note[d] =>
            note'[d] = server.content \/ edits' # edits \/ Stacked(note[d])]_vars

\* The common ancestor of a later merge is what the server holds when it is
\* recorded: never a merge that only this device has seen.
BaseIsShared == [][\A d \in Devices : base'[d] # base[d] => base'[d].content = server'.content]_vars

\* A note left with the markers this device wrote can still be restored from its
\* two clean sides.
SnapshotOutlivesMarkers ==
    [][\A d \in Devices : clean[d].known /\ ~clean'[d].known => ~Complete(note'[d])]_vars

\* Once the edits stop, every device and the server hold the same note: no two
\* devices keep merging each other's merges.
Agree == <>[](Merging => \A d \in Devices : note[d] = server.content)
=============================================================================
