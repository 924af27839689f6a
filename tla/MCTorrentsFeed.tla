--------------------------- MODULE MCTorrentsFeed ---------------------------
(* The constants of TorrentsFeed are given values in its cfg. *)
EXTENDS TorrentsFeed
=============================================================================
