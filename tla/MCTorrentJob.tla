---------------------------- MODULE MCTorrentJob ----------------------------
(* Model values for TorrentJob. *)
EXTENDS TorrentJob
=============================================================================
