-------------------------- MODULE JobRegistryProofs --------------------------
(***************************************************************************)
(* Proofs about JobRegistry, for any sets of jobs and of /check_job        *)
(* requests.  The invariant says of a row how far its request has come and *)
(* what its provider has done, and of a check what it may still write.     *)
(***************************************************************************)
EXTENDS JobRegistry, TLAPS

Early == {"new", "starting", "announcing", "calling"}

RowOK(j) ==
  Exists(j) =>
    /\ jobs[j].backend = stage[j].backend
    /\ stage[j].at # "new"
    /\ jobs[j].provided => remote[j] # "none"
    /\ jobs[j].backend = "ibm" /\ jobs[j].provided => stage[j].at = "over"
    /\ jobs[j].status = "DONE" =>
         jobs[j].results = "counts" /\ remote[j] = "done" /\ stage[j].at = "over"
    /\ Terminal(jobs[j].status) => jobs[j].ended

StageOK(j) ==
  /\ remote[j] # "none" => stage[j].at \notin Early
  /\ stage[j].at = "storing" =>
       remote[j] # "none" /\ (stage[j].backend \in {"cudaq", "zi"} => remote[j] = "done")

CheckOK(c) ==
  check[c] # NoCheck =>
    /\ remote[check[c].job] # "none" /\ stage[check[c].job].at = "over"
    /\ check[c].previous = "DONE" =>
         remote[check[c].job] = "done" /\ check[c].seen \in {"unknown", "DONE"}
    /\ check[c].seen = "DONE" => remote[check[c].job] = "done"
    /\ Exists(check[c].job) =>
         /\ jobs[check[c].job].backend = "ibm" /\ jobs[check[c].job].provided
         /\ check[c].previous = "DONE" => jobs[check[c].job].ended

Decided(j) ==
  Exists(j) /\ stage[j].at = "over" /\ j \notin lost
    => Terminal(jobs[j].status) \/ (jobs[j].backend = "ibm" /\ jobs[j].provided)

\* The inductive invariant.
IInv ==
  /\ TypeOK
  /\ \A j \in Jobs : RowOK(j) /\ StageOK(j) /\ Decided(j)
  /\ \A c \in Checkers : CheckOK(c)

-----------------------------------------------------------------------------

\* What a row is after a change to it: one job changes, and only if it is there.
LEMMA ChangedTable ==
  ASSUME TypeOK, NEW j \in Jobs, NEW row, Exists(j) => row \in Row
  PROVE  /\ Change(j, row) \in [Jobs -> Row \cup {NoRow}]
         /\ \A k \in Jobs : k # j => Change(j, row)[k] = jobs[k]
         /\ Change(j, row)[j] = IF Exists(j) THEN row ELSE NoRow
BY DEF TypeOK, Change, Exists

\* update_job_status leaves everything else of the row alone.
LEMMA UpdatedTable ==
  ASSUME TypeOK, NEW j \in Jobs, NEW status \in Statuses,
         NEW results \in {"none", "counts", "error"}
  PROVE  /\ Update(j, status, results) \in [Jobs -> Row \cup {NoRow}]
         /\ \A k \in Jobs : k # j => Update(j, status, results)[k] = jobs[k]
         /\ ~Exists(j) => Update(j, status, results)[j] = NoRow
         /\ Exists(j) =>
              LET row == Update(j, status, results)[j] IN
              /\ row \in Row /\ row.status = status
              /\ row.backend = jobs[j].backend /\ row.provided = jobs[j].provided
              /\ Terminal(status) => row.ended /\ row.results = results
              /\ jobs[j].ended => row.ended
<1>1. CASE Terminal(status)
  <2> DEFINE row == [jobs[j] EXCEPT !.status = status, !.results = results, !.ended = TRUE]
  <2>1. Update(j, status, results) = Change(j, row)
    BY <1>1 DEF Update
  <2>2. Exists(j) => jobs[j] \in Row
    BY DEF TypeOK, Exists
  <2>3. Exists(j) => /\ row \in Row /\ row.status = status /\ row.results = results
                     /\ row.ended = TRUE /\ row.backend = jobs[j].backend
                     /\ row.provided = jobs[j].provided
    BY <2>2 DEF Row
  <2> HIDE DEF row
  <2> QED BY <2>1, <2>3, ChangedTable
<1>2. CASE ~Terminal(status)
  <2> DEFINE row == [jobs[j] EXCEPT !.status = status]
  <2>1. Update(j, status, results) = Change(j, row)
    BY <1>2 DEF Update
  <2>2. Exists(j) => jobs[j] \in Row
    BY DEF TypeOK, Exists
  <2>3. Exists(j) => /\ row \in Row /\ row.status = status
                     /\ row.ended = jobs[j].ended /\ row.backend = jobs[j].backend
                     /\ row.provided = jobs[j].provided
    BY <2>2 DEF Row
  <2> HIDE DEF row
  <2> QED BY <1>2, <2>1, <2>3, ChangedTable
<1> QED BY <1>1, <1>2

-----------------------------------------------------------------------------
(* What a step of the request of one job does to the invariant.            *)

Working == Stages \ {"new", "over"}
Retreats == {"failing", "refusing", "rejecting", "abandoning", "over"}

\* The other jobs do not notice, and nobody checks a job still worked on.
LEMMA OneJob ==
  ASSUME IInv, TypeOK', NEW j \in Jobs,
         \A k \in Jobs \ {j} : /\ jobs'[k] = jobs[k] /\ stage'[k] = stage[k]
                               /\ (k \in lost' <=> k \in lost),
         stage[j].at # "over", UNCHANGED check, \A k \in Jobs \ {j} : remote'[k] = remote[k],
         RowOK(j)', StageOK(j)', Decided(j)'
  PROVE  IInv'
<1>1. ASSUME NEW k \in Jobs PROVE RowOK(k)' /\ StageOK(k)' /\ Decided(k)'
  <2>1. CASE k = j
    BY <2>1
  <2>2. CASE k # j
    <3>1. /\ jobs'[k] = jobs[k] /\ stage'[k] = stage[k] /\ remote'[k] = remote[k]
          /\ (k \in lost' <=> k \in lost)
      BY <2>2
    <3>2. RowOK(k) /\ StageOK(k) /\ Decided(k)
      BY DEF IInv
    <3>3. QED
      BY <3>1, <3>2 DEF RowOK, StageOK, Decided, Exists
  <2>3. QED
    BY <2>1, <2>2
<1>2. ASSUME NEW c \in Checkers PROVE CheckOK(c)'
  <2>1. CheckOK(c) /\ check'[c] = check[c]
    BY DEF IInv
  <2>2. CASE check[c] = NoCheck
    BY <2>1, <2>2 DEF CheckOK
  <2>3. CASE check[c] # NoCheck
    <3>1. check[c].job \in Jobs /\ check[c].job # j
      BY <2>1, <2>3 DEF CheckOK, IInv, TypeOK, Check
    <3>2. /\ jobs'[check[c].job] = jobs[check[c].job]
          /\ stage'[check[c].job] = stage[check[c].job]
          /\ remote'[check[c].job] = remote[check[c].job]
      BY <3>1
    <3>3. QED
      BY <2>1, <3>2 DEF CheckOK, Exists
  <2>4. QED
    BY <2>2, <2>3
<1>3. QED
  BY <1>1, <1>2 DEF IInv

\* Going to another stage leaves the backend and the other jobs alone.
LEMMA Gone ==
  ASSUME TypeOK, NEW j \in Jobs, NEW there \in Stages, Goto(j, there)
  PROVE  /\ stage' \in [Jobs -> [backend : Backends, at : Stages]]
         /\ stage'[j].at = there /\ stage'[j].backend = stage[j].backend
         /\ \A k \in Jobs \ {j} : stage'[k] = stage[k]
BY DEF TypeOK, Goto

\* An error path: nothing is written, and the last error is a loss.
LEMMA Retreating ==
  ASSUME IInv, NEW j \in Jobs, NEW there \in Retreats, stage[j].at \in Working,
         Goto(j, there), lost' = (IF there = "over" THEN lost \cup {j} ELSE lost),
         UNCHANGED <<jobs, remote, check>>
  PROVE  IInv'
<1>1. TypeOK /\ RowOK(j) /\ StageOK(j)
  BY DEF IInv
<1>2. there \in Stages \ {"new", "storing"} /\ there \notin Early
  BY DEF Retreats, Stages, Early
<1>3. /\ stage' \in [Jobs -> [backend : Backends, at : Stages]]
      /\ stage'[j].at = there /\ stage'[j].backend = stage[j].backend
      /\ \A k \in Jobs \ {j} : stage'[k] = stage[k]
  BY <1>1, <1>2, Gone
<1>4. TypeOK'
  BY <1>1, <1>3 DEF TypeOK
<1>5. stage[j].at # "over"
  BY DEF Working
<1>6. RowOK(j)'
  BY <1>1, <1>2, <1>3, <1>5 DEF RowOK, Exists
<1>7. StageOK(j)'
  BY <1>1, <1>2, <1>3 DEF StageOK
<1>8. Decided(j)'
  BY <1>3 DEF Decided
<1>9. \A k \in Jobs \ {j} : jobs'[k] = jobs[k] /\ remote'[k] = remote[k] /\ (k \in lost' <=> k \in lost)
  OBVIOUS
<1>10. QED
  BY <1>3, <1>4, <1>5, <1>6, <1>7, <1>8, <1>9, OneJob

\* Every error path leads to a stage that is one.
LEMMA FailurePaths ==
  ASSUME NEW backend \in Backends, NEW here \in Working,
         here = "failing" => backend \in {"cudaq", "qctrl", "zi"}
  PROVE  OnFailure(backend, here) \in Retreats
<1>1. CASE here \in {"abandoning", "starting", "refusing", "rejecting"}
  BY <1>1 DEF OnFailure, Retreats
<1>2. CASE here = "failing"
  BY <1>2 DEF OnFailure, Retreats
<1>3. CASE here \in {"announcing", "calling", "storing", "stashing"}
  BY <1>3 DEF OnFailure, Retreats
<1>4. QED
  BY <1>1, <1>2, <1>3 DEF Working, Stages

\* A row a request may write when it goes on to there.
Fits(j, row, there) ==
  /\ row \in Row
  /\ row.backend = stage[j].backend
  /\ row.provided => remote[j] # "none"
  /\ row.backend = "ibm" /\ row.provided => there = "over"
  /\ row.status = "DONE" => row.results = "counts" /\ remote[j] = "done" /\ there = "over"
  /\ Terminal(row.status) => row.ended
  /\ there = "over" => Terminal(row.status) \/ (row.backend = "ibm" /\ row.provided)

\* A write of a fitting row, or of none, keeps the invariant, done or failed.
LEMMA Writing ==
  ASSUME IInv, NEW j \in Jobs, NEW table, NEW there \in Stages \ {"new", "storing"},
         stage[j].at \in Working,
         stage[j].at = "failing" => stage[j].backend \in {"cudaq", "qctrl", "zi"},
         there \in Early => remote[j] = "none",
         table \in [Jobs -> Row \cup {NoRow}],
         \A k \in Jobs \ {j} : table[k] = jobs[k],
         table[j] = NoRow \/ Fits(j, table[j], there),
         Write(j, table, there)
  PROVE  IInv'
<1>1. TypeOK /\ stage[j].at # "over" /\ stage[j].backend \in Backends
  BY DEF IInv, Working, TypeOK
<1>2. CASE jobs' = table /\ Goto(j, there) /\ UNCHANGED <<remote, check, lost>>
  <2>1. /\ stage' \in [Jobs -> [backend : Backends, at : Stages]]
        /\ stage'[j].at = there /\ stage'[j].backend = stage[j].backend
        /\ \A k \in Jobs \ {j} : stage'[k] = stage[k]
    BY <1>1, <1>2, Gone
  <2>2. TypeOK'
    BY <1>1, <1>2, <2>1 DEF TypeOK
  <2>3. RowOK(j)'
    BY <1>2, <2>1 DEF RowOK, Fits, Exists
  <2>4. StageOK(j)'
    BY <1>2, <2>1 DEF StageOK
  <2>5. Decided(j)'
    BY <1>2, <2>1 DEF Decided, Fits, Exists
  <2>6. \A k \in Jobs \ {j} : jobs'[k] = jobs[k] /\ remote'[k] = remote[k] /\ (k \in lost' <=> k \in lost)
    BY <1>2
  <2>7. UNCHANGED check
    BY <1>2
  <2>8. QED
    BY <1>1, <2>1, <2>2, <2>3, <2>4, <2>5, <2>6, <2>7, OneJob
<1>3. CASE /\ Goto(j, OnFailure(stage[j].backend, stage[j].at))
           /\ lost' = IF OnFailure(stage[j].backend, stage[j].at) = "over"
                      THEN lost \cup {j} ELSE lost
           /\ UNCHANGED <<jobs, remote, check>>
  <2>1. OnFailure(stage[j].backend, stage[j].at) \in Retreats
    BY <1>1, FailurePaths
  <2>2. QED
    BY <1>3, <2>1, Retreating
<1>4. QED
  BY <1>2, <1>3 DEF Write

-----------------------------------------------------------------------------
(* The inductive invariant, action by action.                              *)

\* The empty table satisfies the invariant.
LEMMA InitIInv == Init => IInv
<1> SUFFICES ASSUME Init PROVE IInv
  OBVIOUS
<1>1. TypeOK
  BY DEF Init, TypeOK, Backends, Stages
<1>2. \A j \in Jobs : RowOK(j) /\ StageOK(j) /\ Decided(j)
  BY DEF Init, RowOK, StageOK, Decided, Exists, Early
<1>3. \A c \in Checkers : CheckOK(c)
  BY DEF Init, CheckOK
<1>4. QED
  BY <1>1, <1>2, <1>3 DEF IInv

\* A new job is queued, and its backend starts at one of its first stages.
LEMMA SubmitIInv ==
  ASSUME IInv, NEW j \in Jobs, NEW backend \in Backends, Submit(j, backend)
  PROVE  IInv'
<1>1. TypeOK /\ stage[j].at = "new" /\ StageOK(j)
  BY DEF IInv, Submit
<1>2. First(backend) \in {"starting", "announcing", "calling", "abandoning"}
  BY DEF First, Backends
<1>3. /\ stage'[j].backend = backend /\ stage'[j].at = First(backend)
      /\ stage' \in [Jobs -> [backend : Backends, at : Stages]]
      /\ \A k \in Jobs \ {j} : stage'[k] = stage[k]
  BY <1>1, <1>2 DEF Submit, TypeOK, Stages
<1> DEFINE row == [backend |-> backend, status |-> "QUEUED", results |-> "none",
                   ended |-> FALSE, provided |-> FALSE]
<1>4. row \in Row
  BY DEF Row, Statuses
<1>5. /\ jobs' \in [Jobs -> Row \cup {NoRow}] /\ jobs'[j] = row
      /\ \A k \in Jobs \ {j} : jobs'[k] = jobs[k]
      /\ UNCHANGED <<remote, check, lost>>
  BY <1>1, <1>4 DEF Submit, TypeOK
<1>6. TypeOK'
  BY <1>1, <1>3, <1>5 DEF TypeOK
<1>7. remote[j] = "none"
  BY <1>1 DEF StageOK, Early
<1>8. RowOK(j)'
  BY <1>2, <1>3, <1>5 DEF RowOK, Terminal
<1>9. StageOK(j)' /\ Decided(j)'
  BY <1>2, <1>3, <1>5, <1>7 DEF StageOK, Decided
<1>10. \A k \in Jobs \ {j} : remote'[k] = remote[k] /\ (k \in lost' <=> k \in lost)
  BY <1>5
<1>11. QED
  BY <1>1, <1>3, <1>5, <1>6, <1>8, <1>9, <1>10, OneJob

\* The worker's thread starts, or its start is refused.
LEMMA StartIInv ==
  ASSUME IInv, NEW j \in Jobs, Start(j) PROVE IInv'
<1>1. /\ TypeOK /\ stage[j].at = "starting" /\ stage[j].at \in Working
      /\ RowOK(j) /\ StageOK(j)
  BY DEF IInv, Start, Working, Stages
<1>2. UNCHANGED <<jobs, remote, check, lost>>
  BY DEF Start
<1>3. CASE Goto(j, OnFailure("cudaq", "starting"))
  <2>1. OnFailure("cudaq", "starting") = "abandoning"
    BY DEF OnFailure
  <2>2. QED
    BY <1>1, <1>2, <1>3, <2>1, Retreating DEF Retreats
<1>4. CASE Goto(j, "announcing")
  <2>1. /\ stage' \in [Jobs -> [backend : Backends, at : Stages]]
        /\ stage'[j].at = "announcing" /\ stage'[j].backend = stage[j].backend
        /\ \A k \in Jobs \ {j} : stage'[k] = stage[k]
    BY <1>1, <1>4, Gone DEF Stages
  <2>2. TypeOK' /\ remote[j] = "none"
    BY <1>1, <1>2, <2>1 DEF TypeOK, StageOK, Early
  <2>3. RowOK(j)' /\ StageOK(j)' /\ Decided(j)'
    BY <1>1, <1>2, <2>1, <2>2 DEF RowOK, StageOK, Decided, Exists
  <2>4. \A k \in Jobs \ {j} : jobs'[k] = jobs[k] /\ remote'[k] = remote[k] /\ (k \in lost' <=> k \in lost)
    BY <1>2
  <2>5. QED
    BY <1>1, <1>2, <2>1, <2>2, <2>3, <2>4, OneJob
<1>5. QED
  BY <1>3, <1>4 DEF Start

\* RUNNING is written before anybody has called the provider.
LEMMA AnnounceIInv ==
  ASSUME IInv, NEW j \in Jobs, Announce(j) PROVE IInv'
<1>1. /\ TypeOK /\ stage[j].at = "announcing" /\ stage[j].at \in Working
      /\ RowOK(j) /\ StageOK(j)
  BY DEF IInv, Announce, Working, Stages
<1>2. remote[j] = "none"
  BY <1>1 DEF StageOK, Early
<1> DEFINE table == Update(j, "RUNNING", "none")
<1>3. /\ table \in [Jobs -> Row \cup {NoRow}]
      /\ \A k \in Jobs : k # j => table[k] = jobs[k]
      /\ ~Exists(j) => table[j] = NoRow
      /\ Exists(j) => /\ table[j] \in Row /\ table[j].status = "RUNNING"
                      /\ table[j].backend = jobs[j].backend
                      /\ table[j].provided = jobs[j].provided
  BY <1>1, UpdatedTable DEF Statuses
<1>4. Write(j, table, "calling")
  BY DEF Announce
<1> HIDE DEF table
<1>5. table[j] = NoRow \/ Fits(j, table[j], "calling")
  BY <1>1, <1>2, <1>3 DEF Fits, RowOK, Terminal
<1>6. "calling" \in Stages \ {"new", "storing"}
  BY DEF Stages
<1>7. QED
  BY <1>1, <1>2, <1>3, <1>4, <1>5, <1>6, Writing

\* The provider accepts the job, or answers with its results; or the call fails.
LEMMA CallIInv ==
  ASSUME IInv, NEW j \in Jobs, Call(j) PROVE IInv'
<1>1. /\ TypeOK /\ stage[j].at = "calling" /\ stage[j].at \in Working
      /\ RowOK(j) /\ StageOK(j) /\ stage[j].backend \in Backends
  BY DEF IInv, Call, Working, Stages, TypeOK
<1>2. UNCHANGED <<jobs, check, lost>>
  BY DEF Call
<1>3. CASE /\ Goto(j, "storing")
           /\ remote' = [remote EXCEPT ![j] =
                IF stage[j].backend \in {"cudaq", "zi"} THEN "done" ELSE "accepted"]
  <2>1. /\ stage' \in [Jobs -> [backend : Backends, at : Stages]]
        /\ stage'[j].at = "storing" /\ stage'[j].backend = stage[j].backend
        /\ \A k \in Jobs \ {j} : stage'[k] = stage[k]
    BY <1>1, <1>3, Gone DEF Stages
  <2>2. /\ remote' \in [Jobs -> {"none", "accepted", "done", "failed"}]
        /\ remote'[j] = IF stage[j].backend \in {"cudaq", "zi"} THEN "done" ELSE "accepted"
        /\ \A k \in Jobs \ {j} : remote'[k] = remote[k]
    BY <1>1, <1>3 DEF TypeOK
  <2>3. TypeOK'
    BY <1>1, <1>2, <2>1, <2>2 DEF TypeOK
  <2>4. RowOK(j)' /\ StageOK(j)' /\ Decided(j)'
    BY <1>1, <1>2, <2>1, <2>2 DEF RowOK, StageOK, Decided, Exists, Early
  <2>5. \A k \in Jobs \ {j} : jobs'[k] = jobs[k] /\ (k \in lost' <=> k \in lost)
    BY <1>2
  <2>6. QED
    BY <1>1, <1>2, <2>1, <2>2, <2>3, <2>4, <2>5, OneJob
<1>4. CASE (\/ Goto(j, OnFailure(stage[j].backend, "calling")) \/ Goto(j, "rejecting"))
           /\ UNCHANGED remote
  <2>1. /\ OnFailure(stage[j].backend, "calling") \in Retreats
        /\ OnFailure(stage[j].backend, "calling") # "over"
    BY <1>1 DEF OnFailure, Retreats
  <2>2. PICK there \in Retreats : Goto(j, there) /\ there # "over"
    BY <1>4, <2>1 DEF Retreats
  <2>3. QED
    BY <1>1, <1>2, <1>4, <2>2, Retreating
<1>5. QED
  BY <1>3, <1>4 DEF Call

\* The results, or the provider's id: only a provider that finished gives DONE.
LEMMA StoreIInv ==
  ASSUME IInv, NEW j \in Jobs, Store(j) PROVE IInv'
<1>1. /\ TypeOK /\ stage[j].at = "storing" /\ stage[j].at \in Working
      /\ RowOK(j) /\ StageOK(j)
  BY DEF IInv, Store, At, Working, Stages
<1>2. remote[j] # "none" /\ (stage[j].backend \in {"cudaq", "zi"} => remote[j] = "done")
  BY <1>1 DEF StageOK
<1>3. CASE At(j, {"cudaq", "zi"}, "storing") /\ Write(j, Update(j, "DONE", "counts"), "over")
  <2> DEFINE table == Update(j, "DONE", "counts")
  <2>1. /\ table \in [Jobs -> Row \cup {NoRow}]
        /\ \A k \in Jobs : k # j => table[k] = jobs[k]
        /\ ~Exists(j) => table[j] = NoRow
        /\ Exists(j) => /\ table[j] \in Row /\ table[j].status = "DONE"
                        /\ table[j].backend = jobs[j].backend
                        /\ table[j].provided = jobs[j].provided
                        /\ table[j].ended /\ table[j].results = "counts"
    BY <1>1, UpdatedTable DEF Statuses, Terminal
  <2>2. Write(j, table, "over") /\ stage[j].backend \in {"cudaq", "zi"}
    BY <1>3 DEF At
  <2> HIDE DEF table
  <2>3. table[j] = NoRow \/ Fits(j, table[j], "over")
    BY <1>1, <1>2, <2>1, <2>2 DEF Fits, RowOK, Terminal
  <2>4. "over" \in Stages \ {"new", "storing"} /\ "over" \notin Early
    BY DEF Stages, Early
  <2>5. QED
    BY <1>1, <2>1, <2>2, <2>3, <2>4, Writing
<1>4. CASE /\ At(j, {"ibm"}, "storing")
           /\ Write(j, Change(j, [jobs[j] EXCEPT !.provided = TRUE]), "over")
  <2> DEFINE row == [jobs[j] EXCEPT !.provided = TRUE]
             table == Change(j, row)
  <2>1. Exists(j) => jobs[j] \in Row
    BY <1>1 DEF TypeOK, Exists
  <2>2. Exists(j) => /\ row \in Row /\ row.provided /\ row.backend = jobs[j].backend
                     /\ row.status = jobs[j].status /\ row.ended = jobs[j].ended
    BY <2>1 DEF Row
  <2>3. Write(j, table, "over") /\ stage[j].backend = "ibm"
    BY <1>4 DEF At
  <2> HIDE DEF row
  <2>4. /\ table \in [Jobs -> Row \cup {NoRow}]
        /\ \A k \in Jobs : k # j => table[k] = jobs[k]
        /\ table[j] = IF Exists(j) THEN row ELSE NoRow
    BY <1>1, <2>2, ChangedTable
  <2> HIDE DEF table
  <2>5. table[j] = NoRow \/ Fits(j, table[j], "over")
    BY <1>1, <1>2, <2>2, <2>3, <2>4 DEF Fits, RowOK
  <2>6. "over" \in Stages \ {"new", "storing"} /\ "over" \notin Early
    BY DEF Stages, Early
  <2>7. QED
    BY <1>1, <2>3, <2>4, <2>5, <2>6, Writing
<1>5. CASE /\ At(j, {"qctrl"}, "storing")
           /\ Write(j, Change(j, [jobs[j] EXCEPT !.provided = TRUE, !.status = "QUEUED"]),
                    "stashing")
  <2> DEFINE row == [jobs[j] EXCEPT !.provided = TRUE, !.status = "QUEUED"]
             table == Change(j, row)
  <2>1. Exists(j) => jobs[j] \in Row
    BY <1>1 DEF TypeOK, Exists
  <2>2. Exists(j) => /\ row \in Row /\ row.provided /\ row.backend = jobs[j].backend
                     /\ row.status = "QUEUED"
    BY <2>1 DEF Row, Statuses
  <2>3. Write(j, table, "stashing") /\ stage[j].backend = "qctrl"
    BY <1>5 DEF At
  <2> HIDE DEF row
  <2>4. /\ table \in [Jobs -> Row \cup {NoRow}]
        /\ \A k \in Jobs : k # j => table[k] = jobs[k]
        /\ table[j] = IF Exists(j) THEN row ELSE NoRow
    BY <1>1, <2>2, ChangedTable
  <2> HIDE DEF table
  <2>5. table[j] = NoRow \/ Fits(j, table[j], "stashing")
    BY <1>1, <1>2, <2>2, <2>3, <2>4 DEF Fits, RowOK, Terminal
  <2>6. "stashing" \in Stages \ {"new", "storing"} /\ "stashing" \notin Early
    BY DEF Stages, Early
  <2>7. QED
    BY <1>1, <2>3, <2>4, <2>5, <2>6, Writing
<1>6. QED
  BY <1>3, <1>4, <1>5 DEF Store

\* update_job_status on an error path, or the second write for Q-CTRL.
LEMMA UpdatingIInv ==
  ASSUME IInv, NEW j \in Jobs, NEW status \in {"QUEUED", "ERROR"},
         NEW results \in {"none", "error"},
         NEW there \in {"refusing", "rejecting", "over"},
         there = "over" => status = "ERROR",
         stage[j].at \in Working,
         stage[j].at = "failing" => stage[j].backend \in {"cudaq", "qctrl", "zi"},
         Write(j, Update(j, status, results), there)
  PROVE  IInv'
<1>1. TypeOK /\ RowOK(j) /\ stage[j].at # "over"
  BY DEF IInv, Working
<1> DEFINE table == Update(j, status, results)
<1>2. status \in Statuses /\ results \in {"none", "counts", "error"}
  BY DEF Statuses
<1>3. /\ table \in [Jobs -> Row \cup {NoRow}]
      /\ \A k \in Jobs : k # j => table[k] = jobs[k]
      /\ ~Exists(j) => table[j] = NoRow
      /\ Exists(j) => /\ table[j] \in Row /\ table[j].status = status
                      /\ table[j].backend = jobs[j].backend
                      /\ table[j].provided = jobs[j].provided
                      /\ Terminal(status) => table[j].ended
  BY <1>1, <1>2, UpdatedTable
<1> HIDE DEF table
<1>4. table[j] = NoRow \/ Fits(j, table[j], there)
  BY <1>1, <1>3 DEF Fits, RowOK, Terminal
<1>5. there \in Stages \ {"new", "storing"} /\ there \notin Early
  BY DEF Stages, Early
<1>6. Write(j, table, there)
  BY DEF table
<1>7. QED
  BY <1>3, <1>4, <1>5, <1>6, Writing

\* The error paths keep the invariant.
LEMMA EndingIInv ==
  ASSUME IInv, NEW j \in Jobs,
         Stash(j) \/ Fail(j) \/ Refuse(j) \/ Reject(j) \/ Abandon(j)
  PROVE  IInv'
<1>1. CASE Stash(j)
  BY <1>1, UpdatingIInv DEF Stash, Working, Stages
<1>2. CASE Fail(j)
  BY <1>2, UpdatingIInv DEF Fail, At, Working, Stages
<1>3. CASE Refuse(j)
  BY <1>3, UpdatingIInv DEF Refuse, Working, Stages
<1>4. CASE Reject(j)
  BY <1>4, UpdatingIInv DEF Reject, Working, Stages
<1>5. CASE Abandon(j)
  BY <1>5, UpdatingIInv DEF Abandon, Working, Stages
<1>6. QED
  BY <1>1, <1>2, <1>3, <1>4, <1>5

\* The provider finishes a job; nothing in the table said so yet.
LEMMA RemoteEndsIInv ==
  ASSUME IInv, NEW j \in Jobs, RemoteEnds(j) PROVE IInv'
<1>1. /\ TypeOK /\ remote[j] = "accepted" /\ remote'[j] \in {"done", "failed"}
      /\ remote' \in [Jobs -> {"none", "accepted", "done", "failed"}]
      /\ \A k \in Jobs \ {j} : remote'[k] = remote[k]
      /\ UNCHANGED <<jobs, stage, check, lost>>
  BY DEF RemoteEnds, IInv, TypeOK
<1>2. TypeOK'
  BY <1>1 DEF TypeOK
<1>3. ASSUME NEW k \in Jobs PROVE RowOK(k)' /\ StageOK(k)' /\ Decided(k)'
  <2>1. RowOK(k) /\ StageOK(k) /\ Decided(k)
    BY DEF IInv
  <2>2. CASE k = j
    BY <1>1, <2>1, <2>2 DEF RowOK, StageOK, Decided, Exists
  <2>3. CASE k # j
    BY <1>1, <2>1, <2>3 DEF RowOK, StageOK, Decided, Exists
  <2>4. QED
    BY <2>2, <2>3
<1>4. ASSUME NEW c \in Checkers PROVE CheckOK(c)'
  <2>1. CheckOK(c) /\ (check[c] # NoCheck => check[c].job \in Jobs)
    BY <1>1 DEF IInv, TypeOK, Check
  <2>2. CASE check[c] # NoCheck /\ check[c].job = j
    BY <1>1, <2>1, <2>2 DEF CheckOK, Exists
  <2>3. CASE ~(check[c] # NoCheck /\ check[c].job = j)
    BY <1>1, <2>1, <2>3 DEF CheckOK, Exists
  <2>4. QED
    BY <2>2, <2>3
<1>5. QED
  BY <1>2, <1>3, <1>4 DEF IInv

\* A step of one check that leaves the table alone keeps the invariant if what
\* the check may write from then on is right.
LEMMA OneCheck ==
  ASSUME IInv, NEW c \in Checkers, NEW after \in {NoCheck} \cup Check,
         check' = [check EXCEPT ![c] = after],
         UNCHANGED <<jobs, stage, remote, lost>>, CheckOK(c)'
  PROVE  IInv'
<1>1. TypeOK'
  BY DEF IInv, TypeOK
<1>2. \A j \in Jobs : RowOK(j)' /\ StageOK(j)' /\ Decided(j)'
  BY DEF IInv, RowOK, StageOK, Decided, Exists
<1>3. ASSUME NEW d \in Checkers PROVE CheckOK(d)'
  <2>1. CASE d = c
    BY <2>1
  <2>2. CASE d # c
    <3>1. check'[d] = check[d] /\ CheckOK(d)
      BY <2>2 DEF IInv, TypeOK
    <3>2. QED
      BY <3>1 DEF CheckOK, Exists
  <2>3. QED
    BY <2>1, <2>2
<1>4. QED
  BY <1>1, <1>2, <1>3 DEF IInv

\* A check reads a row with an IBM id: its request is over, and if the row is
\* DONE so is the job at IBM.
LEMMA CheckReadsIInv ==
  ASSUME IInv, NEW c \in Checkers, NEW j \in Jobs, CheckReads(c, j) PROVE IInv'
<1> DEFINE new == [job |-> j, previous |-> jobs[j].status, seen |-> "unknown"]
<1>1. /\ TypeOK /\ RowOK(j) /\ Exists(j) /\ jobs[j] \in Row
      /\ jobs[j].backend = "ibm" /\ jobs[j].provided
      /\ check' = [check EXCEPT ![c] = new] /\ UNCHANGED <<jobs, stage, remote, lost>>
  BY DEF IInv, TypeOK, CheckReads, Exists
<1>2. new \in Check
  BY <1>1 DEF Check, Row
<1>3. check'[c] = new
  BY <1>1 DEF TypeOK
<1>4. CheckOK(c)'
  BY <1>1, <1>3 DEF CheckOK, RowOK, Exists, Terminal
<1>5. QED
  BY <1>1, <1>2, <1>4, OneCheck

\* IBM's answer: a job that was DONE when the row was read is DONE.
LEMMA CheckAsksIInv ==
  ASSUME IInv, NEW c \in Checkers, CheckAsks(c) PROVE IInv'
<1> DEFINE answer == CASE remote[check[c].job] = "accepted" -> "RUNNING"
                       [] remote[check[c].job] = "done"     -> "DONE"
                       [] remote[check[c].job] = "failed"   -> "ERROR"
           new == [check[c] EXCEPT !.seen = answer]
<1>1. /\ TypeOK /\ CheckOK(c) /\ check[c] # NoCheck /\ check[c] \in Check
      /\ check' = [check EXCEPT ![c] = new] /\ UNCHANGED <<jobs, stage, remote, lost>>
  BY DEF IInv, TypeOK, CheckAsks
<1>2. remote[check[c].job] \in {"accepted", "done", "failed"}
  BY <1>1 DEF CheckOK, TypeOK, Check
<1>3. answer \in {"RUNNING", "DONE", "ERROR"} /\ (answer = "DONE" <=> remote[check[c].job] = "done")
  BY <1>2
<1> HIDE DEF answer
<1>4. /\ new \in Check /\ new.seen = answer /\ new.job = check[c].job
      /\ new.previous = check[c].previous
  BY <1>1, <1>3 DEF Check, Statuses
<1>5. check'[c] = new
  BY <1>1 DEF TypeOK
<1> HIDE DEF new
<1>6. CheckOK(c)'
  BY <1>1, <1>3, <1>4, <1>5 DEF CheckOK, Exists
<1>7. QED
  BY <1>1, <1>4, <1>6, OneCheck

\* A check that fails is gone.
LEMMA CheckFailsIInv ==
  ASSUME IInv, NEW c \in Checkers, CheckFails(c) PROVE IInv'
<1>1. check' = [check EXCEPT ![c] = NoCheck] /\ UNCHANGED <<jobs, stage, remote, lost>>
  BY DEF CheckFails
<1>2. CheckOK(c)'
  BY <1>1 DEF CheckOK, IInv, TypeOK
<1>3. QED
  BY <1>1, <1>2, OneCheck

\* What a check writes into the row of its job.
Written(c) ==
  LET row == jobs[check[c].job]  done == check[c].seen = "DONE" IN
  [row EXCEPT
    !.status  = IF done \/ check[c].previous = "DONE" THEN check[c].seen ELSE @,
    !.results = IF done THEN "counts" ELSE @,
    !.ended   = @ \/ check[c].previous # "DONE"]

\* The table after a check's write.
LEMMA CheckedTable ==
  ASSUME IInv, NEW c \in Checkers, CheckWrites(c)
  PROVE  LET j == check[c].job IN
         /\ j \in Jobs /\ check[c].seen \in Statuses
         /\ jobs' \in [Jobs -> Row \cup {NoRow}]
         /\ \A k \in Jobs : k # j => jobs'[k] = jobs[k]
         /\ jobs'[j] = IF Exists(j) THEN Written(c) ELSE NoRow
         /\ Exists(j) => /\ Written(c) \in Row
                         /\ Written(c).backend = jobs[j].backend
                         /\ Written(c).provided = jobs[j].provided
                         /\ Written(c).status =
                              (IF check[c].seen = "DONE" \/ check[c].previous = "DONE"
                               THEN check[c].seen ELSE jobs[j].status)
                         /\ Written(c).results =
                              (IF check[c].seen = "DONE" THEN "counts" ELSE jobs[j].results)
                         /\ Written(c).ended = (jobs[j].ended \/ check[c].previous # "DONE")
<1> DEFINE j == check[c].job
<1>1. /\ TypeOK /\ j \in Jobs /\ check[c].seen \in Statuses
      /\ check[c] # NoCheck /\ jobs' = Change(j, Written(c))
  BY DEF IInv, TypeOK, CheckWrites, Check, Written
<1>2. Exists(j) => jobs[j] \in Row
  BY <1>1 DEF TypeOK, Exists
<1>3. Exists(j) => /\ Written(c) \in Row
                   /\ Written(c).backend = jobs[j].backend
                   /\ Written(c).provided = jobs[j].provided
                   /\ Written(c).status =
                        (IF check[c].seen = "DONE" \/ check[c].previous = "DONE"
                         THEN check[c].seen ELSE jobs[j].status)
                   /\ Written(c).results =
                        (IF check[c].seen = "DONE" THEN "counts" ELSE jobs[j].results)
                   /\ Written(c).ended = (jobs[j].ended \/ check[c].previous # "DONE")
  BY <1>1, <1>2 DEF Row, Written
<1>4. QED
  BY <1>1, <1>3, ChangedTable

\* A check's late write keeps the invariant: what it read is still true of the
\* job at IBM, and the row it writes to may be gone.
LEMMA CheckWritesIInv ==
  ASSUME IInv, NEW c \in Checkers, CheckWrites(c) PROVE IInv'
<1>0. PICK j \in Jobs : j = check[c].job
  BY CheckedTable
<1>1. /\ TypeOK /\ CheckOK(c) /\ check[c] # NoCheck
      /\ check[c].seen \in Statuses /\ check[c].seen # "unknown"
      /\ check' = [check EXCEPT ![c] = NoCheck] /\ UNCHANGED <<stage, remote, lost>>
  BY CheckedTable DEF IInv, CheckWrites, Statuses
<1>2. /\ jobs' \in [Jobs -> Row \cup {NoRow}]
      /\ \A k \in Jobs : k # j => jobs'[k] = jobs[k]
      /\ jobs'[j] = IF Exists(j) THEN Written(c) ELSE NoRow
      /\ Exists(j) => /\ Written(c) \in Row
                      /\ Written(c).backend = jobs[j].backend
                      /\ Written(c).provided = jobs[j].provided
                      /\ Written(c).status =
                           (IF check[c].seen = "DONE" \/ check[c].previous = "DONE"
                            THEN check[c].seen ELSE jobs[j].status)
                      /\ Written(c).results =
                           (IF check[c].seen = "DONE" THEN "counts" ELSE jobs[j].results)
                      /\ Written(c).ended = (jobs[j].ended \/ check[c].previous # "DONE")
  BY <1>0, CheckedTable
<1>3. TypeOK'
  BY <1>1, <1>2 DEF TypeOK
<1>4. /\ remote[j] # "none" /\ stage[j].at = "over"
      /\ check[c].previous = "DONE" => remote[j] = "done" /\ check[c].seen = "DONE"
      /\ check[c].seen = "DONE" => remote[j] = "done"
      /\ Exists(j) => /\ jobs[j].backend = "ibm" /\ jobs[j].provided
                      /\ check[c].previous = "DONE" => jobs[j].ended
  BY <1>0, <1>1 DEF CheckOK
<1>5. ASSUME NEW k \in Jobs PROVE RowOK(k)' /\ StageOK(k)' /\ Decided(k)'
  <2>1. RowOK(k) /\ StageOK(k) /\ Decided(k)
    BY DEF IInv
  <2>2. CASE k = j
    <3>1. RowOK(j)'
      BY <1>1, <1>2, <1>4, <2>1, <2>2 DEF RowOK, Exists, Terminal
    <3>2. StageOK(j)' /\ Decided(j)'
      BY <1>1, <1>2, <1>4, <2>1, <2>2 DEF StageOK, Decided, Exists
    <3>3. QED
      BY <2>2, <3>1, <3>2
  <2>3. CASE k # j
    BY <1>1, <1>2, <2>1, <2>3 DEF RowOK, StageOK, Decided, Exists
  <2>4. QED
    BY <2>2, <2>3
<1>6. ASSUME NEW d \in Checkers PROVE CheckOK(d)'
  <2>1. CheckOK(d) /\ (check[d] # NoCheck => check[d].job \in Jobs)
    BY <1>1 DEF IInv, TypeOK, Check
  <2>2. CASE d = c
    BY <1>1, <2>2 DEF CheckOK, TypeOK
  <2>3. CASE d # c
    <3>1. check'[d] = check[d]
      BY <1>1, <2>3 DEF TypeOK
    <3>2. CASE check[d].job = j
      <4>1. Exists(j)' => /\ Exists(j) /\ jobs'[j].backend = jobs[j].backend
                          /\ jobs'[j].provided = jobs[j].provided
                          /\ jobs[j].ended => jobs'[j].ended
        BY <1>2 DEF Exists
      <4>2. QED
        BY <1>1, <2>1, <3>1, <3>2, <4>1 DEF CheckOK
    <3>3. CASE check[d] = NoCheck
      BY <3>1, <3>3 DEF CheckOK
    <3>4. CASE check[d] # NoCheck /\ check[d].job # j
      <4>1. /\ jobs'[check[d].job] = jobs[check[d].job]
            /\ stage'[check[d].job] = stage[check[d].job]
            /\ remote'[check[d].job] = remote[check[d].job]
        BY <1>1, <1>2, <2>1, <3>4
      <4>2. QED
        BY <2>1, <3>1, <4>1 DEF CheckOK, Exists
    <3>5. QED
      BY <3>2, <3>3, <3>4
  <2>4. QED
    BY <2>2, <2>3
<1>7. QED
  BY <1>3, <1>5, <1>6 DEF IInv

\* A deleted job constrains nothing.
LEMMA DeleteIInv ==
  ASSUME IInv, NEW j \in Jobs, Delete(j) PROVE IInv'
<1>1. /\ TypeOK /\ jobs' = [jobs EXCEPT ![j] = NoRow]
      /\ UNCHANGED <<stage, remote, check, lost>>
  BY DEF IInv, Delete
<1>2. TypeOK'
  BY <1>1 DEF TypeOK
<1>3. \A k \in Jobs : jobs'[k] = NoRow \/ jobs'[k] = jobs[k]
  BY <1>1 DEF TypeOK
<1>4. ASSUME NEW k \in Jobs PROVE RowOK(k)' /\ StageOK(k)' /\ Decided(k)'
  BY <1>1, <1>3 DEF IInv, RowOK, StageOK, Decided, Exists
<1>5. ASSUME NEW c \in Checkers PROVE CheckOK(c)'
  <2>1. CheckOK(c) /\ (check[c] # NoCheck => check[c].job \in Jobs)
    BY <1>1 DEF IInv, TypeOK, Check
  <2>2. QED
    BY <1>1, <1>3, <2>1 DEF CheckOK, Exists
<1>6. QED
  BY <1>2, <1>4, <1>5 DEF IInv

\* After a restart nobody works on or checks anything.
LEMMA RestartIInv ==
  ASSUME IInv, Restart PROVE IInv'
<1>1. /\ TypeOK /\ UNCHANGED <<jobs, remote>>
      /\ lost' = lost \cup InProgress /\ check' = [c \in Checkers |-> NoCheck]
      /\ stage' = [j \in Jobs |-> IF j \in InProgress THEN [stage[j] EXCEPT !.at = "over"]
                                  ELSE stage[j]]
  BY DEF IInv, Restart
<1>2. ASSUME NEW j \in Jobs
      PROVE  /\ stage'[j] \in [backend : Backends, at : Stages]
             /\ stage'[j].backend = stage[j].backend
             /\ stage'[j].at = IF j \in InProgress THEN "over" ELSE stage[j].at
  BY <1>1 DEF TypeOK, Stages
<1>3. TypeOK'
  BY <1>1, <1>2 DEF TypeOK, InProgress
<1>4. ASSUME NEW j \in Jobs PROVE RowOK(j)' /\ StageOK(j)' /\ Decided(j)'
  <2>1. RowOK(j) /\ StageOK(j) /\ Decided(j)
    BY DEF IInv
  <2>2. CASE j \in InProgress
    BY <1>1, <1>2, <2>1, <2>2 DEF RowOK, StageOK, Decided, Exists, Early
  <2>3. CASE j \notin InProgress
    BY <1>1, <1>2, <2>1, <2>3 DEF RowOK, StageOK, Decided, Exists
  <2>4. QED
    BY <2>2, <2>3
<1>5. \A c \in Checkers : CheckOK(c)'
  BY <1>1 DEF CheckOK
<1>6. QED
  BY <1>3, <1>4, <1>5 DEF IInv

\* Every step keeps the invariant.
LEMMA NextIInv == IInv /\ [Next]_vars => IInv'
<1> SUFFICES ASSUME IInv, [Next]_vars PROVE IInv'
  OBVIOUS
<1>1. ASSUME NEW j \in Jobs, NEW backend \in Backends, Submit(j, backend) PROVE IInv'
  BY <1>1, SubmitIInv
<1>2. ASSUME NEW j \in Jobs, Request(j) PROVE IInv'
  BY <1>2, StartIInv, AnnounceIInv, CallIInv, StoreIInv, EndingIInv DEF Request
<1>3. ASSUME NEW j \in Jobs, RemoteEnds(j) PROVE IInv'
  BY <1>3, RemoteEndsIInv
<1>4. ASSUME NEW j \in Jobs, Delete(j) PROVE IInv'
  BY <1>4, DeleteIInv
<1>5. ASSUME NEW c \in Checkers, NEW j \in Jobs, CheckReads(c, j) PROVE IInv'
  BY <1>5, CheckReadsIInv
<1>6. ASSUME NEW c \in Checkers, CheckAsks(c) \/ CheckWrites(c) \/ CheckFails(c) PROVE IInv'
  BY <1>6, CheckAsksIInv, CheckWritesIInv, CheckFailsIInv
<1>7. CASE Restart
  BY <1>7, RestartIInv
<1>8. CASE UNCHANGED vars
  BY <1>8 DEF vars, IInv, TypeOK, RowOK, StageOK, Decided, CheckOK, Exists
<1>9. QED
  BY <1>1, <1>2, <1>3, <1>4, <1>5, <1>6, <1>7, <1>8 DEF Next

-----------------------------------------------------------------------------
(* Theorems.                                                               *)

\* The invariant holds in every reachable state of the gateway.
THEOREM JobsInvariant == Spec => []IInv
BY InitIInv, NextIInv, PTL DEF Spec

\* The rows, the requests and the checks keep their types.
THEOREM JobsTypeCorrect == Spec => []TypeOK
<1>1. IInv => TypeOK
  BY DEF IInv
<1>2. QED
  BY <1>1, JobsInvariant, PTL

\* Whoever wrote it, a row that is DONE has the results of a job that its
\* provider has finished.
THEOREM OnlyFinishedJobsAreDone == Spec => []DoneHasCounts
<1>1. IInv => DoneHasCounts
  BY DEF IInv, RowOK, DoneHasCounts, Exists
<1>2. QED
  BY <1>1, JobsInvariant, PTL

\* A row that is DONE or ERROR has its end_time: a check reads whether the row
\* was DONE before it asks IBM, and writes after others have.
THEOREM EndedJobsHaveATime == Spec => []TerminalHasEndTime
<1>1. IInv => TerminalHasEndTime
  BY DEF IInv, RowOK, TerminalHasEndTime, Exists
<1>2. QED
  BY <1>1, JobsInvariant, PTL

\* Every way out of submitting a job, with the error paths of each backend,
\* leaves a row that is decided or that a check can still decide.
THEOREM EveryJobIsDecided == Spec => []NothingLeftUndecided
<1>1. IInv => NothingLeftUndecided
  BY DEF IInv, Decided, NothingLeftUndecided
<1>2. QED
  BY <1>1, JobsInvariant, PTL

\* A step that writes a row writes one of a request still worked on, which is
\* not DONE, or the answer of a check, which is DONE if the row was.
LEMMA DoneStays ==
  ASSUME IInv, [Next]_vars, NEW j \in Jobs, Exists(j), jobs[j].status = "DONE"
  PROVE  jobs'[j] = NoRow \/ jobs'[j].status = "DONE"
<1>1. TypeOK /\ RowOK(j) /\ stage[j].at = "over"
  BY DEF IInv, RowOK
<1>2. ASSUME NEW k \in Jobs, NEW backend \in Backends, Submit(k, backend)
      PROVE  jobs'[j] = jobs[j]
  BY <1>1, <1>2 DEF Submit, TypeOK
<1>3. ASSUME NEW k \in Jobs, NEW status \in Statuses, NEW there \in Stages,
             NEW results \in {"none", "counts", "error"},
             stage[k].at # "over", Write(k, Update(k, status, results), there)
      PROVE  jobs'[j] = jobs[j]
  <2>1. Update(k, status, results)[j] = jobs[j]
    BY <1>1, <1>3, UpdatedTable
  <2>2. jobs' = Update(k, status, results) \/ jobs' = jobs
    BY <1>3 DEF Write
  <2>3. QED
    BY <2>1, <2>2
<1>4. ASSUME NEW k \in Jobs, Request(k) PROVE jobs'[j] = jobs[j]
  <2>1. CASE Start(k) \/ Call(k)
    BY <2>1 DEF Start, Call
  <2>2. CASE Announce(k)
    BY <1>3, <2>2 DEF Announce, Statuses, Stages
  <2>3. CASE Store(k)
    <3>1. CASE At(k, {"cudaq", "zi"}, "storing") /\ Write(k, Update(k, "DONE", "counts"), "over")
      BY <1>3, <3>1 DEF At, Statuses, Stages
    <3>2. ASSUME NEW row, NEW there, stage[k].at = "storing", Write(k, Change(k, row), there)
          PROVE  jobs'[j] = jobs[j]
      BY <1>1, <3>2 DEF Write, Change, TypeOK
    <3>3. QED
      BY <2>3, <3>1, <3>2 DEF Store, At
  <2>4. CASE Stash(k)
    BY <1>3, <2>4 DEF Stash, Statuses, Stages
  <2>5. CASE Fail(k)
    BY <1>3, <2>5 DEF Fail, At, Statuses, Stages
  <2>6. CASE Refuse(k) \/ Reject(k) \/ Abandon(k)
    BY <1>3, <2>6 DEF Refuse, Reject, Abandon, Statuses, Stages
  <2>7. QED
    BY <1>4, <2>1, <2>2, <2>3, <2>4, <2>5, <2>6 DEF Request
<1>5. ASSUME NEW c \in Checkers, CheckWrites(c) PROVE jobs'[j].status = "DONE"
  <2>1. CASE check[c].job = j
    <3>1. /\ jobs'[j] = Written(c)
          /\ Written(c).status =
               (IF check[c].seen = "DONE" \/ check[c].previous = "DONE"
                THEN check[c].seen ELSE jobs[j].status)
      BY <1>5, <2>1, CheckedTable
    <3>2. check[c].previous = "DONE" => check[c].seen = "DONE"
      BY <1>5 DEF IInv, CheckOK, CheckWrites
    <3>3. QED
      BY <3>1, <3>2
  <2>2. CASE check[c].job # j
    BY <1>5, <2>2, CheckedTable
  <2>3. QED
    BY <2>1, <2>2
<1>6. ASSUME NEW k \in Jobs, Delete(k) PROVE jobs'[j] = NoRow \/ jobs'[j] = jobs[j]
  BY <1>1, <1>6 DEF Delete, TypeOK
<1>7. ASSUME NEW c \in Checkers,
             (\E k \in Jobs : CheckReads(c, k)) \/ CheckAsks(c) \/ CheckFails(c)
      PROVE  jobs' = jobs
  BY <1>7 DEF CheckReads, CheckAsks, CheckFails
<1>8. CASE Restart \/ (\E k \in Jobs : RemoteEnds(k)) \/ UNCHANGED vars
  BY <1>8 DEF Restart, RemoteEnds, vars
<1>9. QED
  BY <1>2, <1>4, <1>5, <1>6, <1>7, <1>8 DEF Next

\* DONE is final, for any number of checks that read before it was stored and
\* write after.
THEOREM DoneJobsStayDone == Spec => DoneIsFinal
<1>1. IInv /\ [Next]_vars =>
        [\A j \in Jobs : Exists(j) /\ jobs[j].status = "DONE"
                         => jobs'[j] = NoRow \/ jobs'[j].status = "DONE"]_jobs
  BY DoneStays
<1>2. QED
  BY <1>1, JobsInvariant, PTL DEF Spec, DoneIsFinal
==============================================================================
