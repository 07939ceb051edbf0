----------------------------- MODULE JobContract -----------------------------
(***************************************************************************)
(* What the job service promises to the client who polls GET /jobs/{id}    *)
(* and downloads GET /jobs/{id}/artifact.zip: a job is queued, then runs,  *)
(* then has one verdict until it expires; a job that is reported complete  *)
(* has its archive on disk, and what follows complete is gone, not failed. *)
(* No thread, table or queue is visible here.                              *)
(*                                                                         *)
(* What it does not promise: that a job once gone stays gone.  A worker    *)
(* that was given up may leave its error note after the directory was      *)
(* removed, and the job is reported failed again (Resurface).              *)
(***************************************************************************)
CONSTANTS
  Jobs,
  Durable    \* rows survive the process (jobs_store_pg)

VARIABLES
  status,    \* what GET /jobs/{id} answers for each job
  archive    \* jobs whose artifact.zip exists

cvars == <<status, archive>>

Live     == {"queued", "running"}
Verdict  == {"complete", "failed"}

ContractInit == status = [j \in Jobs |-> "unknown"] /\ archive = {}

Submit(j) == /\ status[j] = "unknown"
             /\ status' = [status EXCEPT ![j] = "queued"]
             /\ UNCHANGED archive

Claim(j) == /\ status[j] = "queued"
            /\ status' = [status EXCEPT ![j] = "running"]
            /\ UNCHANGED archive

\* A worker writes the archive: of a running job, or, being a zombie the
\* watchdog gave up or a worker the store was told nothing of, of any other
\* that was dispatched once.
Produce(j) == /\ status[j] \notin {"unknown", "queued"}
              /\ archive' = archive \cup {j}
              /\ UNCHANGED status

Decide(j, v) == /\ status[j] = "running"
                /\ v = "complete" => j \in archive
                /\ status' = [status EXCEPT ![j] = v]
                /\ UNCHANGED archive

\* A dispatch that failed removes what the job's directory may hold.
Discard(j) == /\ status[j] = "running"
              /\ archive' = archive \ {j}
              /\ UNCHANGED status

\* One cleanup pass takes every row that is due; the error note of a failed job
\* answers for it until its directory is removed.
Expire == \E due \in SUBSET {j \in Jobs : status[j] \in Verdict} :
          \E noted \in SUBSET {j \in due : status[j] = "failed"} :
            /\ status' = [j \in Jobs |-> IF j \in due \ noted THEN "gone" ELSE status[j]]
            /\ UNCHANGED archive

Remove(j) == /\ status[j] \in {"failed", "gone"}
             /\ status' = [status EXCEPT ![j] = "gone"]
             /\ archive' = archive \ {j}

\* A zombie's error note: the one way back from gone.
Resurface(j) == /\ status[j] = "gone"
                /\ status' = [status EXCEPT ![j] = "failed"]
                /\ UNCHANGED archive

\* The process dies and takes an in-memory store with it; error notes stay.
Forget == /\ ~Durable
          /\ \E noted \in SUBSET {j \in Jobs : status[j] \in {"running", "failed"}} :
               status' = [j \in Jobs |-> IF status[j] = "unknown" THEN "unknown"
                                         ELSE IF j \in noted THEN "failed" ELSE "gone"]
          /\ UNCHANGED archive

ContractNext ==
  \/ \E j \in Jobs : \/ Submit(j) \/ Claim(j) \/ Produce(j) \/ Discard(j)
                     \/ Remove(j) \/ Resurface(j)
                     \/ \E v \in Verdict : Decide(j, v)
  \/ Expire \/ Forget

Contract == ContractInit /\ [][ContractNext]_cvars
=============================================================================
