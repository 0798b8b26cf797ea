---------------------------- MODULE MCReadCache ----------------------------
(* Small instances of ReadCache for TLC. *)
EXTENDS ReadCache, TLC

(* Two views are too many for all their copies at once: what is read and   *)
(* cached at any moment is one of them.                                    *)
InUse(v) ==
  \/ redis[v] # "none"
  \/ \E w \in Workers : own[w][v] # "none"
  \/ \E r \in Tasks : task[r].view = v

OneViewAtATime == \A v, u \in Views : InUse(v) /\ InUse(u) => v = u

MCCacheNext == CacheNext /\ OneViewAtATime'

MCCacheSpec == TrackedInit /\ [][MCCacheNext]_trackedVars /\ CacheFairness
=============================================================================
