-------------------------- MODULE MCDownloadManager --------------------------
(* Values for the model-checking runs of DownloadManager.                  *)
EXTENDS DownloadManager, TLC

CONSTANTS t1, t2

Shrinks    == <<2, 1>>
=============================================================================
