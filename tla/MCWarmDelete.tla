--------------------------- MODULE MCWarmDelete ----------------------------
(***************************************************************************)
(* WarmIndex with a history variable: the paths that delete_project has    *)
(* evicted since the process started.                                      *)
(***************************************************************************)
EXTENDS MCWarmIndex

VARIABLE evicted

HistoryInit == Init /\ evicted = {}

HistoryNext ==
  /\ Next
  /\ evicted' = evicted \cup
       {p \in Paths : \E w \in Workers : pc[w] = "evict" /\ arg[w] = p /\ pc'[w] = "rmcache"}

HistorySpec == HistoryInit /\ [][HistoryNext]_<<vars, evicted>>

(* delete_project evicts "so a subsequent Resolve against a re-indexed path  *)
(* cannot serve a ForceClose'd (or stale)" repo: for a path that was deleted *)
(* and indexed again, the warm repo is at least as recent as the row.        *)
NoStaleAfterDelete ==
  \A p \in rows \cap evicted : index[p] # NoRepo => content[index[p]] >= rowContent[p]
=============================================================================
