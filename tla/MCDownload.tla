----------------------------- MODULE MCDownload -----------------------------
(* Instance of Download for TLC: rows stamped to half a second, chunks of  *)
(* two seconds.                                                            *)
EXTENDS Download
=============================================================================
