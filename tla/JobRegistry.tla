---------------------------- MODULE JobRegistry ----------------------------
(***************************************************************************)
(* The jobs table of the cloud gateway and everybody who writes to it      *)
(* (scripts/db/server.py): the handler of /qvm/submit with its backends,   *)
(* the background worker of the cudaq backend, /check_job, which asks IBM  *)
(* between reading and writing a row, and the two ways to delete a job.    *)
(* Requests run concurrently, each write is one transaction and can fail,  *)
(* and the server can be restarted: rows stay, requests and workers go.    *)
(***************************************************************************)
EXTENDS Naturals

CONSTANTS
  Jobs,      \* job uids
  Checkers,  \* concurrent /check_job requests
  NoRow,     \* no row in the table
  NoCheck    \* no request

VARIABLES
  jobs,      \* the table: a row or NoRow for each uid
  stage,     \* where the request or the worker of a job is
  remote,    \* the job at the provider
  check,     \* what each /check_job has read so far
  lost       \* jobs whose request or worker went without a last write

vars == <<jobs, stage, remote, check, lost>>

Backends == {"ibm", "cudaq", "qctrl", "zi", "other"}
Statuses == {"QUEUED", "RUNNING", "DONE", "ERROR"}
Terminal(status) == status \in {"DONE", "ERROR"}

Row == [backend  : Backends,
        status   : Statuses,                     \* status_str
        results  : {"none", "counts", "error"},
        ended    : BOOLEAN,                      \* end_time is set
        provided : BOOLEAN]                      \* job_id or provider_job_id is set

Check == [job : Jobs, previous : Statuses, seen : Statuses \cup {"unknown"}]

ASSUME NoRowAssumption == NoRow \notin Row
ASSUME NoCheckAssumption == NoCheck \notin Check

Exists(j) == jobs[j] # NoRow

Init ==
  /\ jobs = [j \in Jobs |-> NoRow]
  /\ stage = [j \in Jobs |-> [backend |-> "other", at |-> "new"]]
  /\ remote = [j \in Jobs |-> "none"]
  /\ check = [c \in Checkers |-> NoCheck]
  /\ lost = {}

At(j, backends, here) == stage[j].at = here /\ stage[j].backend \in backends
Goto(j, there) == stage' = [stage EXCEPT ![j].at = there]

\* UPDATE ... WHERE uid: nothing happens without a row.
Change(j, row) == IF Exists(j) THEN [jobs EXCEPT ![j] = row] ELSE jobs

\* Mutant: the short UPDATE for every status.
UpdateStatusOnly(j, status, results) == Change(j, [jobs[j] EXCEPT !.status = status])

\* update_job_status: the table after it.
Update(j, status, results) ==
  IF Terminal(status)
  THEN Change(j, [jobs[j] EXCEPT !.status = status, !.results = results, !.ended = TRUE])
  ELSE Change(j, [jobs[j] EXCEPT !.status = status])

-----------------------------------------------------------------------------
(* /qvm/submit.                                                            *)

\* What a backend starts with.
First(backend) ==
  CASE backend = "cudaq"         -> "starting"
    [] backend = "qctrl"         -> "announcing"
    [] backend \in {"ibm", "zi"} -> "calling"
    [] backend = "other"         -> "abandoning"

\* Mutant: an exception is logged and that is all.
OnFailureLogs(backend, here) == "over"

\* Where an exception leads.  The worker, _submit_qctrl_job_core and
\* _submit_zi_job_core write ERROR themselves first ("failing");
\* _submit_qctrl_job_core and _submit_ibm_job_core answer 500 ("rejecting");
\* what is raised in the handler of the request ends there ("abandoning").
OnFailure(backend, here) ==
  CASE here = "abandoning"                                     -> "over"
    [] here \in {"starting", "refusing", "rejecting"}          -> "abandoning"
    [] here = "failing" /\ backend = "cudaq"                   -> "over"
    [] here = "failing" /\ backend = "qctrl"                   -> "rejecting"
    [] here = "failing" /\ backend = "zi"                      -> "abandoning"
    [] here \in {"announcing", "calling", "storing", "stashing"} ->
         IF backend = "ibm" THEN "rejecting" ELSE "failing"

\* A write that succeeds leads on, one that fails leads to the error path.
Write(j, table, there) ==
  \/ /\ jobs' = table
     /\ Goto(j, there)
     /\ UNCHANGED <<remote, check, lost>>
  \/ LET next == OnFailure(stage[j].backend, stage[j].at) IN
     /\ Goto(j, next)
     /\ lost' = IF next = "over" THEN lost \cup {j} ELSE lost
     /\ UNCHANGED <<jobs, remote, check>>

\* create_job_record; if it fails there is no job.
Submit(j, backend) ==
  /\ stage[j].at = "new"
  /\ jobs' = [jobs EXCEPT ![j] =
       [backend |-> backend, status |-> "QUEUED", results |-> "none",
        ended |-> FALSE, provided |-> FALSE]]
  /\ stage' = [stage EXCEPT ![j] = [backend |-> backend, at |-> First(backend)]]
  /\ UNCHANGED <<remote, check, lost>>

\* The thread of the worker.
Start(j) ==
  /\ stage[j].at = "starting"
  /\ Goto(j, "announcing") \/ Goto(j, OnFailure("cudaq", "starting"))
  /\ UNCHANGED <<jobs, remote, check, lost>>

Announce(j) ==
  /\ stage[j].at = "announcing"
  /\ Write(j, Update(j, "RUNNING", "none"), "calling")

\* The call to the provider.  Node B and the emulator answer with the results,
\* IBM and Q-CTRL accept a job.  Without its options a zi job is refused.
Call(j) ==
  /\ stage[j].at = "calling"
  /\ \/ /\ Goto(j, "storing")
        /\ remote' = [remote EXCEPT ![j] =
             IF stage[j].backend \in {"cudaq", "zi"} THEN "done" ELSE "accepted"]
     \/ /\ \/ Goto(j, OnFailure(stage[j].backend, "calling"))
           \/ stage[j].backend = "zi" /\ Goto(j, "rejecting")
        /\ UNCHANGED remote
  /\ UNCHANGED <<jobs, check, lost>>

Store(j) ==
  \/ At(j, {"cudaq", "zi"}, "storing") /\ Write(j, Update(j, "DONE", "counts"), "over")
  \/ At(j, {"ibm"}, "storing")
     /\ Write(j, Change(j, [jobs[j] EXCEPT !.provided = TRUE]), "over")
  \/ At(j, {"qctrl"}, "storing")
     /\ Write(j, Change(j, [jobs[j] EXCEPT !.provided = TRUE, !.status = "QUEUED"]),
              "stashing")

\* The second write of _submit_qctrl_job_core; it returns 202, which qvm_submit
\* does not take for a success.
Stash(j) ==
  /\ stage[j].at = "stashing"
  /\ Write(j, Update(j, "QUEUED", "none"), "refusing")

\* The backend's or the worker's own error write.
Fail(j) ==
  \/ At(j, {"cudaq"}, "failing") /\ Write(j, Update(j, "ERROR", "error"), "over")
  \/ At(j, {"qctrl", "zi"}, "failing")
     /\ Write(j, Update(j, "ERROR", "error"), "rejecting")

\* status != 200 in qvm_submit, without and with an error to store; and its
\* exception handlers.
Refuse(j) == stage[j].at = "refusing" /\ Write(j, Update(j, "ERROR", "none"), "over")
Reject(j) == stage[j].at = "rejecting" /\ Write(j, Update(j, "ERROR", "error"), "over")
Abandon(j) == stage[j].at = "abandoning" /\ Write(j, Update(j, "ERROR", "error"), "over")

-----------------------------------------------------------------------------
(* The other writers.                                                      *)

\* The provider finishes an accepted job.
RemoteEnds(j) ==
  /\ remote[j] = "accepted"
  /\ \E outcome \in {"done", "failed"} : remote' = [remote EXCEPT ![j] = outcome]
  /\ UNCHANGED <<jobs, stage, check, lost>>

\* check_job reads the row of a job with an IBM id.
CheckReads(c, j) ==
  /\ check[c] = NoCheck
  /\ Exists(j) /\ jobs[j].backend = "ibm" /\ jobs[j].provided
  /\ check' = [check EXCEPT ![c] =
                 [job |-> j, previous |-> jobs[j].status, seen |-> "unknown"]]
  /\ UNCHANGED <<jobs, stage, remote, lost>>

\* It asks IBM.
CheckAsks(c) ==
  /\ check[c] # NoCheck /\ check[c].seen = "unknown"
  /\ check' = [check EXCEPT ![c].seen =
       CASE remote[check[c].job] = "accepted" -> "RUNNING"
         [] remote[check[c].job] = "done"     -> "DONE"
         [] remote[check[c].job] = "failed"   -> "ERROR"]
  /\ UNCHANGED <<jobs, stage, remote, lost>>

\* Mutant: the two branches of the second test exchanged.
CheckWritesStatus(c) ==
  /\ check[c] # NoCheck /\ check[c].seen # "unknown"
  /\ LET j == check[c].job  done == check[c].seen = "DONE" IN
     jobs' = Change(j, [jobs[j] EXCEPT
       !.status  = IF done \/ check[c].previous # "DONE" THEN check[c].seen ELSE @,
       !.results = IF done THEN "counts" ELSE @,
       !.ended   = @ \/ check[c].previous = "DONE"])
  /\ check' = [check EXCEPT ![c] = NoCheck]
  /\ UNCHANGED <<stage, remote, lost>>

\* And writes: status and results of a finished job, then the end_time of a job
\* that was not DONE before or the status of one that was.
CheckWrites(c) ==
  /\ check[c] # NoCheck /\ check[c].seen # "unknown"
  /\ LET j == check[c].job  done == check[c].seen = "DONE" IN
     jobs' = Change(j, [jobs[j] EXCEPT
       !.status  = IF done \/ check[c].previous = "DONE" THEN check[c].seen ELSE @,
       !.results = IF done THEN "counts" ELSE @,
       !.ended   = @ \/ check[c].previous # "DONE"])
  /\ check' = [check EXCEPT ![c] = NoCheck]
  /\ UNCHANGED <<stage, remote, lost>>

\* An exception: nothing is committed.
CheckFails(c) ==
  /\ check[c] # NoCheck
  /\ check' = [check EXCEPT ![c] = NoCheck]
  /\ UNCHANGED <<jobs, stage, remote, lost>>

\* DELETE /qvm/job and /del_job.
Delete(j) ==
  /\ Exists(j)
  /\ jobs' = [jobs EXCEPT ![j] = NoRow]
  /\ UNCHANGED <<stage, remote, check, lost>>

InProgress == {j \in Jobs : stage[j].at \notin {"new", "over"}}

\* The server is restarted; its workers are daemon threads.
Restart ==
  /\ InProgress # {} \/ \E c \in Checkers : check[c] # NoCheck
  /\ stage' = [j \in Jobs |-> IF j \in InProgress THEN [stage[j] EXCEPT !.at = "over"]
                              ELSE stage[j]]
  /\ lost' = lost \cup InProgress
  /\ check' = [c \in Checkers |-> NoCheck]
  /\ UNCHANGED <<jobs, remote>>

Request(j) ==
  \/ Start(j) \/ Announce(j) \/ Call(j) \/ Store(j) \/ Stash(j)
  \/ Fail(j) \/ Refuse(j) \/ Reject(j) \/ Abandon(j)

Next ==
  \/ \E j \in Jobs : \/ \E backend \in Backends : Submit(j, backend)
                     \/ Request(j) \/ RemoteEnds(j) \/ Delete(j)
  \/ \E c \in Checkers : \/ \E j \in Jobs : CheckReads(c, j)
                         \/ CheckAsks(c) \/ CheckWrites(c) \/ CheckFails(c)
  \/ Restart

Spec == Init /\ [][Next]_vars

-----------------------------------------------------------------------------
(* Properties.                                                             *)

Stages == {"new", "starting", "announcing", "calling", "storing", "stashing", "failing",
           "refusing", "rejecting", "abandoning", "over"}

\* Type correctness.
TypeOK ==
  /\ jobs \in [Jobs -> Row \cup {NoRow}]
  /\ stage \in [Jobs -> [backend : Backends, at : Stages]]
  /\ remote \in [Jobs -> {"none", "accepted", "done", "failed"}]
  /\ check \in [Checkers -> {NoCheck} \cup Check]
  /\ lost \subseteq Jobs

\* A job that is DONE stays DONE, although a slower /check_job may have asked
\* before it finished and writes after it was stored.
DoneIsFinal ==
  [][\A j \in Jobs : Exists(j) /\ jobs[j].status = "DONE"
                     => jobs'[j] = NoRow \/ jobs'[j].status = "DONE"]_jobs

\* A job is DONE only if its provider finished it, and with its results.
DoneHasCounts ==
  \A j \in Jobs : Exists(j) /\ jobs[j].status = "DONE"
                  => jobs[j].results = "counts" /\ remote[j] = "done"

\* A job that is DONE or ERROR has an end_time, whoever wrote it.
TerminalHasEndTime ==
  \A j \in Jobs : Exists(j) /\ Terminal(jobs[j].status) => jobs[j].ended

\* A job nobody works on any more is decided or can be checked at IBM, unless
\* its last write failed or the server was restarted.
NothingLeftUndecided ==
  \A j \in Jobs :
    Exists(j) /\ stage[j].at = "over" /\ j \notin lost
      => Terminal(jobs[j].status) \/ (jobs[j].backend = "ibm" /\ jobs[j].provided)

\* "Persist provider fields (and keep job queued)" (server.py): a job Q-CTRL
\* accepted, whose id was stored and whose writes all succeeded, is queued.
AcceptedStaysQueued ==
  \A j \in Jobs :
    /\ Exists(j) /\ jobs[j].backend = "qctrl" /\ jobs[j].provided
    /\ stage[j].at = "over" /\ j \notin lost /\ jobs[j].results # "error"
    => jobs[j].status = "QUEUED"
==============================================================================
