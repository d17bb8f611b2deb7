------------------------- MODULE KnowledgeIngestion -------------------------
(***************************************************************************)
(* Ingestion jobs of one document.  A worker takes a Redis lock on the     *)
(* document, replaces the document's index in one transaction, and gives   *)
(* the lock back before that transaction commits.  The task is             *)
(* acknowledged late, so a job whose worker is lost is delivered again.    *)
(* Who creates the jobs is not in the repository.                          *)
(***************************************************************************)
EXTENDS Naturals, FiniteSets

CONSTANTS Job   \* ingestion jobs of the document

VARIABLES document, \* status of the document
          job,      \* [Job -> status of the row]
          index,    \* the chunks of the document, by job: whole, or without vectors
          locked,   \* [Redis key] the job that set the lock, or NoJob
          work,     \* [Job -> what its worker does]
          early     \* history: jobs that got the lock before another committed

ingestVars == <<document, job, index, locked, work, early>>

NoJob == "no job"
ASSUME IngestAssumption == NoJob \notin Job

Chunks == [of : Job, vectors : BOOLEAN]
Rest == [at |-> "rest"]
Work == {Rest, [at |-> "queued"]}
  \cup [at : {"locked"}]
  \cup [at : {"deleted"}, gone : SUBSET Chunks]
  \cup [at : {"finished", "released"}, gone : SUBSET Chunks, put : SUBSET Chunks,
        ok : BOOLEAN]

IngestInit ==
  /\ document = "pending"
  /\ job = [j \in Job |-> "pending"]
  /\ index = {}
  /\ locked = NoJob
  /\ work = [j \in Job |-> [at |-> "queued"]]
  /\ early = {}

Goto(j, w) == work' = [work EXCEPT ![j] = w]
InWork(j) == work[j].at \in {"locked", "deleted", "finished"}

-----------------------------------------------------------------------------
(* run: no lock, no work; the job is left as it is and the message acked.  *)
(* NeverTaken is a lock that everybody gets.                               *)
NeverTaken == FALSE
LockTaken == locked # NoJob
Acquire(j) ==
  /\ work[j].at = "queued"
  /\ IF LockTaken
     THEN Goto(j, Rest) /\ UNCHANGED <<locked, early>>
     ELSE /\ locked' = j
          /\ early' = IF \E k \in Job : work[k].at = "released"
                        THEN early \cup {j} ELSE early
          /\ Goto(j, [at |-> "locked"])
  /\ UNCHANGED <<document, job, index>>

(* delete_doc_index: the rows it sees are committed ones, and those that   *)
(* another transaction is deleting it waits for.                           *)
DeletedBy(k) == IF work[k].at \in {"deleted", "finished", "released"} THEN work[k].gone ELSE {}
DeleteIndex(j) ==
  /\ work[j].at = "locked"
  /\ \A k \in Job \ {j} : index \cap DeletedBy(k) = {}
  /\ Goto(j, [at |-> "deleted", gone |-> index])
  /\ UNCHANGED <<document, job, index, locked, early>>

(* Chunks added, embedded in batches and indexed: the job succeeds.        *)
Finished(j, ok) ==
  Goto(j, [at |-> "finished", gone |-> work[j].gone, ok |-> ok,
           put |-> {[of |-> j, vectors |-> ok]}])
Embed(j) ==
  /\ work[j].at = "deleted"
  /\ Finished(j, TRUE)
  /\ UNCHANGED <<document, job, index, locked, early>>

(* _fail, in the same session: what was deleted and added before it stays  *)
(* part of the transaction.                                                *)
FailEmbed(j) ==
  /\ work[j].at = "deleted"
  /\ Finished(j, FALSE)
  /\ UNCHANGED <<document, job, index, locked, early>>

FailParse(j) ==
  /\ work[j].at = "locked"
  /\ Goto(j, [at |-> "finished", gone |-> {}, put |-> {}, ok |-> FALSE])
  /\ UNCHANGED <<document, job, index, locked, early>>

(* The finally of run: the key is deleted, whoever set it.                 *)
Release(j) ==
  /\ work[j].at = "finished"
  /\ locked' = NoJob
  /\ Goto(j, [work[j] EXCEPT !.at = "released"])
  /\ UNCHANGED <<document, job, index, early>>

(* The end of session_scope.  KeptStatus forgets the document in _fail.    *)
KeptStatus(ok) == IF ok THEN "indexed" ELSE document
DocStatus(ok) == IF ok THEN "indexed" ELSE "failed"
Commit(j) ==
  LET w == work[j] IN
  /\ w.at = "released"
  /\ index' = (index \ w.gone) \cup w.put
  /\ document' = DocStatus(w.ok)
  /\ job' = [job EXCEPT ![j] = IF w.ok THEN "success" ELSE "failed"]
  /\ Goto(j, Rest)
  /\ UNCHANGED <<locked, early>>

(* A worker is lost: the transaction with it; the lock stays for its hour, *)
(* which a task cannot outlive; the message is delivered again.            *)
Crash(j) ==
  /\ InWork(j) \/ work[j].at = "released"
  /\ Goto(j, [at |-> "queued"])
  /\ UNCHANGED <<document, job, index, locked, early>>

ExpireLock ==
  /\ locked # NoJob /\ ~InWork(locked)
  /\ locked' = NoJob
  /\ UNCHANGED <<document, job, index, work, early>>

(* The document is submitted once more.                                    *)
Resubmit(j) ==
  /\ work[j] = Rest
  /\ Goto(j, [at |-> "queued"])
  /\ UNCHANGED <<document, job, index, locked, early>>

IngestNext ==
  \/ ExpireLock
  \/ \E j \in Job : \/ Acquire(j) \/ DeleteIndex(j) \/ Embed(j) \/ FailEmbed(j) \/ FailParse(j)
                    \/ Release(j) \/ Commit(j) \/ Crash(j) \/ Resubmit(j)

IngestSpec == IngestInit /\ [][IngestNext]_ingestVars

-----------------------------------------------------------------------------
IngestTypeOK ==
  /\ document \in {"pending", "indexed", "failed"}
  /\ job \in [Job -> {"pending", "success", "failed"}]
  /\ index \subseteq Chunks
  /\ locked \in Job \cup {NoJob}
  /\ work \in [Job -> Work]
  /\ early \subseteq Job

(* The index holds the chunks of one job, all with their vectors when the  *)
(* document is said to be indexed, across failures, lost workers, expired  *)
(* locks and repeated deliveries.  The exception is a job that began when  *)
(* another had given the lock back and not committed yet.                  *)
IndexMatchesStatus ==
  early = {} =>
    /\ Cardinality(index) <= 1
    /\ document = "indexed" => index # {} /\ \A c \in index : c.vectors
=============================================================================
