---------------------------- MODULE MCTaskEvents ----------------------------
(* Two torrents that download, stall, get another name, fail when complete  *)
(* and upload.                                                              *)
EXTENDS TaskEvents

CONSTANTS h1, h2

OneTorrent  == {h1}
TwoTorrents == {h1, h2}

Looks(state, progress, meta) == [state |-> state, progress |-> progress, meta |-> meta]

FewLooks  == {Looks("DOWNLOADING", 0, 0), Looks("ERROR", 1, 0), Looks("UPLOADING", 1, 0)}
SomeLooks == FewLooks \cup {Looks("DOWNLOADING", 0, 1), Looks("STALLED_DOWNLOAD", 0, 0)}
=============================================================================
