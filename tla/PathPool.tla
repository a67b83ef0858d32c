------------------------------ MODULE PathPool ------------------------------
(***************************************************************************)
(* What an enumeration engine of FAPE promises, whatever its buffers,      *)
(* batches and order of work: a pool of pending partial paths, each of     *)
(* which is expanded once or, when it closes, counted once.  An engine may *)
(* give up with an error; if it completes, the number it reports is exact. *)
(* The kernel module MYDFS implements this specification.                  *)
(***************************************************************************)
EXTENDS HopJob

VARIABLES jid,      \* the job being worked on
          pending,  \* the partial paths not yet dealt with
          ans,      \* ans_paths_num
          status    \* "run", "complete" or "error" (bufferDebug[0] # 0)

poolVars == <<jid, pending, ans, status>>

ThisJob == Job[jid]

PoolInit ==
    /\ jid \in JobId
    /\ pending = Range(Job[jid].tasks)
    /\ ans = 0
    /\ status = "run"

(* A batch of paths is replaced by the admissible extensions.              *)
Expand(S) ==
    /\ status = "run"
    /\ S # {}
    /\ \A p \in S : ~ Closing(ThisJob, p)
    /\ pending' = (pending \ S) \cup UNION { Children(ThisJob, p) : p \in S }
    /\ UNCHANGED <<jid, ans, status>>

BugEmitKeeps(p) ==
    /\ status = "run"
    /\ Closing(ThisJob, p)
    /\ ans' = ans + 1
    /\ UNCHANGED <<jid, pending, status>>

(* A path that closes is counted and forgotten.                            *)
Emit(p) ==
    /\ status = "run"
    /\ Closing(ThisJob, p)
    /\ ans' = ans + 1
    /\ pending' = pending \ {p}
    /\ UNCHANGED <<jid, status>>

BugFinishEarly ==
    /\ status = "run"
    /\ \A p \in pending : ~ Closing(ThisJob, p)
    /\ status' = "complete"
    /\ UNCHANGED <<jid, pending, ans>>

Finish ==
    /\ status = "run"
    /\ pending = {}
    /\ status' = "complete"
    /\ UNCHANGED <<jid, pending, ans>>

(* A limit of the engine is hit; what is pending is abandoned.             *)
Abort ==
    /\ status = "run"
    /\ status' = "error"
    /\ UNCHANGED <<jid, pending, ans>>

Stopped == status # "run" /\ UNCHANGED poolVars

PoolNext ==
    \/ \E S \in SUBSET pending : Expand(S)
    \/ \E p \in pending : Emit(p)
    \/ Finish
    \/ Abort
    \/ Stopped

PoolSpec == PoolInit /\ [][PoolNext]_poolVars

-----------------------------------------------------------------------------
(* The results that a pending path still stands for.                       *)
Covered == { q \in ResultsOf[jid] : \E p \in pending : Prefix(p, q) }

(* Every result is either counted or still covered by a pending path, and  *)
(* none is both or counted twice: the sum is constant while next_task and  *)
(* run move paths about.                                                   *)
Conservation == ans + Cardinality(Covered) = Cardinality(ResultsOf[jid])

(* An engine that ends without an error has counted exactly the k-hop      *)
(* simple paths of its tasks (ans_paths_num with bufferDebug[0] = 0).      *)
CompleteIsExact == status = "complete" => ans = Cardinality(ResultsOf[jid])

(* No two pending paths continue one another, so no result can be reached  *)
(* from both.                                                              *)
NoOverlap == \A p, q \in pending : Prefix(p, q) => p = q
=============================================================================
