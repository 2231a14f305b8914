------------------------------ MODULE MCConflict ------------------------------
(* Two devices, and the settings under which a conflict ends differently. *)
EXTENDS Conflict
Setting(kind, fm, body, conflict, part) ==
    [kind |-> kind, fm |-> fm, body |-> body, conflict |-> conflict, part |-> part]
MarkersBody == Setting("markdown", "merge", "merge", "conflict-markers", "body")
Settings ==
    {MarkersBody,
     Setting("markdown", "merge", "merge", "conflict-markers", "frontmatter"),
     Setting("markdown", "merge", "latest-mtime", "biggest-size", "frontmatter"),
     Setting("markdown", "biggest-size", "merge", "local-win", "body"),
     Setting("text", "merge", "merge", "biggest-size", "body"),
     Setting("binary", "merge", "merge", "latest-mtime", "body"),
     Setting("other", "merge", "biggest-size", "remote-win", "body")}
Default == {MarkersBody}
=============================================================================
