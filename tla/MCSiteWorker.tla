---------------------------- MODULE MCSiteWorker ----------------------------
(* SiteWorker as TLC checks it: all that is to be given is MaxUnread.      *)
EXTENDS SiteWorker
=============================================================================
