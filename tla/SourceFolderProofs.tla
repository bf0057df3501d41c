------------------------- MODULE SourceFolderProofs -------------------------
(***************************************************************************)
(* Theorems about SourceFolder, for any requests, sessions and uploads:    *)
(* what a folder holds when nobody writes to it, what a launch loads from  *)
(* it, and why a request is refused.                                       *)
(***************************************************************************)
EXTENDS SourceFolder, Integers, TLAPS

-----------------------------------------------------------------------------
(* The inductive invariant.                                                *)

Uploading == {"clearing", "entry", "opening", "writing"}
Mirroring == {"copying", "copyingFile"}
Launching == {"finding", "loading"}

\* What a request is doing fits the job, the entries and the file it has.
JobFits(r) ==
  /\ at[r] \in Uploading \cup Mirroring \cup Launching => Session(r) \in Sessions
  /\ at[r] \in Uploading => job[r].kind = "upload" /\ job[r].from = NoSession
  /\ at[r] \in Mirroring => job[r].kind = "mirror" /\ job[r].from \in Sessions
  /\ at[r] \in Launching => job[r].kind = "launch" /\ job[r].from = NoSession
  /\ reply[r] # "none" => at[r] = "done"
  /\ at[r] \in Uploading => rest[r] \in Seq(Entry)
  /\ at[r] \in Launching => rest[r] \in Seq(Place)
  /\ at[r] \in {"opening", "writing"} => rest[r] # <<>> /\ Head(rest[r]).ok
  /\ at[r] = "writing" => handle[r].file = Head(rest[r]).file
  /\ at[r] = "copyingFile" => handle[r].file \in Files

\* Who is alone shares no folder with another that writes to it.
AloneIsAlone ==
  \A r, o \in Active : r # o /\ alone[r] => Writes(job[o]) \cap Uses(job[r]) = {}

\* How many of some entries were dealt with when these are left.
Dealt(entries, left) == Len(entries) - Len(left)

\* The entries that are left are the last ones, and those before them could be
\* written.
IsRest(entries, left) ==
  /\ Len(left) <= Len(entries)
  /\ \A i \in 1..Len(left) : left[i] = entries[Dealt(entries, left) + i]
  /\ \A i \in 1..Dealt(entries, left) : ~Unwritable(entries, i)

\* A file was among those that were dealt with.
WasDealt(entries, left, f) == \E i \in 1..Dealt(entries, left) : entries[i].file = f

\* What the folder of an upload that is alone holds of its entries.
Holds(r, f) == IF WasDealt(job[r].entries, rest[r], f) THEN r ELSE NoFile

\* The subfolder is there for the file in it only, or for the one that is next.
SubfolderFits(r) ==
  /\ subfolder[Session(r)] <=>
       \/ folder[Session(r)]["nested"] # NoFile
       \/ at[r] = "opening" /\ Head(rest[r]).file = "nested"
  /\ subfolder[Session(r)] => folder[Session(r)]["plain"] = NoFile

\* An upload that is alone: how far it has come is what the folder holds.
UploadProgress(r) ==
  /\ at[r] = "clearing" =>
       /\ Present(Session(r)) \subseteq todo[r] /\ todo[r] \subseteq Listed(Session(r))
       /\ rest[r] = job[r].entries
  /\ at[r] \in {"entry", "opening", "writing"} =>
       /\ IsRest(job[r].entries, rest[r])
       /\ \A f \in Files : at[r] # "writing" \/ f # handle[r].file =>
            folder[Session(r)][f] = Holds(r, f)
       /\ SubfolderFits(r)
  /\ at[r] = "writing" =>
       /\ handle[r].attached
       /\ folder[Session(r)][handle[r].file] = Empty

\* Of these files some are where others need a folder.
Clash(files, others) ==
  \E f, g \in Files : Collide(f, g) /\ files[f] # NoFile /\ others[g] # NoFile

\* A folder whose files are these has the subfolder for the file in it only.
Tidy(s, files) ==
  /\ subfolder[s] <=> files["nested"] # NoFile
  /\ files["nested"] # NoFile => files["plain"] = NoFile

\* A mirror that is alone: the other folder is known and stays; the own one has
\* the files that were copied, and what it had of the others; a clash of the two
\* is met with the subfolder's path.
MirrorProgress(r) ==
  at[r] \in Mirroring =>
    LET from == expected[job[r].from]  own == expected[Session(r)] IN
    /\ job[r].from # Session(r) /\ from # Unknown /\ own # Unknown
    /\ folder[job[r].from] = from /\ Tidy(job[r].from, from)
    /\ own["nested"] # NoFile => own["plain"] = NoFile
    /\ \A f \in todo[r] : from[f] # NoFile \/ (f = "plain" /\ from["nested"] # NoFile)
    /\ "plain" \notin todo[r] => ~Clash(from, own)
    /\ subfolder[Session(r)] <=>
         own["nested"] # NoFile \/ ("plain" \notin todo[r] /\ from["nested"] # NoFile)
    /\ \A f \in Files : at[r] = "copying" \/ f # handle[r].file =>
         folder[Session(r)][f] = IF f \in todo[r] THEN own[f] ELSE Copied(job[r])[f]
    /\ at[r] = "copyingFile" =>
         /\ handle[r].attached
         /\ handle[r].file \notin todo[r]
         /\ from[handle[r].file] # NoFile
         /\ handle[r].read = from[handle[r].file]
         /\ folder[Session(r)][handle[r].file] = Empty

\* The first n of its places are looked at; nothing is there, and something is at
\* the next one when the file has been found.
HasLookedAt(r, n) ==
  /\ n \in 0..4 /\ Len(rest[r]) = 4 - n
  /\ \A i \in 1..(4 - n) : rest[r][i] = Places(Session(r))[n + i]
  /\ \A i \in 1..n : At(Places(Session(r))[i]) = NoFile
  /\ at[r] = "loading" /\ n # 4 => At(Places(Session(r))[n + 1]) # NoFile

\* A launch that is alone still finds what it found.
LaunchProgress(r) == at[r] \in Launching => \E n \in 0..4 : HasLookedAt(r, n)

Progress(r) ==
  alone[r] => UploadProgress(r) /\ MirrorProgress(r) /\ LaunchProgress(r)

\* FolderIsWhatWasSent, and the subfolders.
FoldersAreKnown ==
  \A s \in Sessions :
    expected[s] # Unknown /\ (\A r \in Active : s \notin Writes(job[r]))
      => folder[s] = expected[s] /\ Tidy(s, expected[s])

IInv ==
  /\ TypeOK
  /\ \A r \in Requests : JobFits(r)
  /\ AloneIsAlone
  /\ \A r \in Requests : Progress(r)
  /\ FoldersAreKnown

-----------------------------------------------------------------------------
(* Types.                                                                  *)

\* What the operators of the account return.
LEMMA AccountTypes ==
  ASSUME TypeOK, NEW r \in Requests
  PROVE  /\ \A entries \in Seq(Entry) : Sent(r, entries) \in [Files -> Contents]
         /\ \A j \in Job : j.session \in Sessions /\ j.from \in Sessions
              /\ expected[j.session] # Unknown /\ expected[j.from] # Unknown
                => Copied(j) \in [Files -> Contents]
  <1>1. \A entries \in Seq(Entry) : Sent(r, entries) \in [Files -> Contents]
    BY DEF Sent, Contents
  <1>2. ASSUME NEW j \in Job, j.session \in Sessions, j.from \in Sessions,
               expected[j.session] # Unknown, expected[j.from] # Unknown
        PROVE  Copied(j) \in [Files -> Contents]
    <2>1. /\ expected[j.session] \in [Files -> Contents]
          /\ expected[j.from] \in [Files -> Contents]
      BY <1>2 DEF TypeOK
    <2> QED
      BY <2>1 DEF Copied
  <1> QED
    BY <1>1, <1>2

\* What a file holds after it was written over.
LEMMA OverTypes ==
  ASSUME NEW held \in Contents, NEW content \in Contents
  PROVE  Over(held, content) \subseteq Contents
  BY DEF Over, Contents

\* One file of one folder changes.
LEMMA FolderTypes ==
  ASSUME TypeOK, NEW s \in Sessions, NEW f, NEW content \in Contents,
         folder' = [folder EXCEPT ![s][f] = content]
  PROVE  /\ folder' \in [Sessions -> [Files -> Contents]]
         /\ folder'[s] = [folder[s] EXCEPT ![f] = content]
         /\ \A u \in Sessions : u # s => folder'[u] = folder[u]
  <1>1. folder \in [Sessions -> [Files -> Contents]]
    BY DEF TypeOK
  <1>2. [folder[s] EXCEPT ![f] = content] \in [Files -> Contents]
    BY <1>1
  <1> QED
    BY <1>1, <1>2

\* A request that ends writes what it was sent, or that nobody knows.
LEMMA EndsTypes ==
  ASSUME TypeOK, NEW r \in Requests, JobFits(r), Progress(r), NEW from, NEW answer,
         Ends(r, from, answer), from \in Uploading \cup Mirroring \cup Launching,
         answer \in Contents \cup {"ok", "bad request", "error", Demo, Lost}
  PROVE  /\ at' \in [Requests -> {"idle", "clearing", "entry", "opening", "writing", "copying",
                                 "copyingFile", "finding", "loading", "done"}]
         /\ reply' \in [Requests -> Contents \cup {"none", "ok", "bad request", "error", Demo, Lost}]
         /\ expected' \in [Sessions -> [Files -> Contents] \cup {Unknown}]
  <1>1. at[r] = from /\ Session(r) \in Sessions /\ job[r] \in Job
    BY DEF TypeOK, Ends, Goes, JobFits
  <1>2. job[r].kind # "launch" => Expectation(r, answer) \in [Files -> Contents] \cup {Unknown}
    <2> SUFFICES ASSUME job[r].kind # "launch", alone[r]
                 PROVE  Expectation(r, answer) \in [Files -> Contents] \cup {Unknown}
      BY DEF Expectation
    <2>1. CASE job[r].kind = "upload"
      BY <2>1, <1>1, AccountTypes DEF Expectation, Job
    <2>2. CASE job[r].kind # "upload"
      <3>1. at[r] \in Mirroring
        BY <2>2, <1>1 DEF JobFits
      <3>2. /\ job[r].from \in Sessions /\ expected[job[r].from] # Unknown
            /\ expected[Session(r)] # Unknown
        BY <3>1 DEF JobFits, Progress, MirrorProgress
      <3> QED
        BY <2>2, <3>2, <1>1, AccountTypes DEF Expectation, Session
    <2> QED
      BY <2>1, <2>2
  <1> QED
    BY <1>1, <1>2 DEF TypeOK, Ends, Goes

\* The four places of a launch.
LEMMA PlacesAre ==
  ASSUME NEW s \in Sessions
  PROVE  /\ Places(s) \in Seq(Place) /\ Len(Places(s)) = 4
         /\ Places(s)[1] = [in |-> Default, file |-> "top"]
         /\ Places(s)[2] = [in |-> Default, file |-> "nested"]
         /\ Places(s)[3] = [in |-> s, file |-> "top"]
         /\ Places(s)[4] = [in |-> s, file |-> "nested"]
  <1>1. \A u \in Sessions : InFolder(u) \in Seq(Place) /\ Len(InFolder(u)) = 2
    BY DEF InFolder, Place, Files
  <1>2. Default \in Sessions
    BY SessionsAssumption
  <1> QED
    BY <1>1, <1>2 DEF Places, InFolder

-----------------------------------------------------------------------------
(* What a step of one request leaves to the others.                        *)

\* A step of a request that is under way, as the others see it: only the folder
\* it writes to has changed, and whoever has a file of that folder open.
StepOf(r) ==
  /\ r \in Active
  /\ job' = job /\ alone' = alone
  /\ \A q \in Requests : q # r =>
       /\ at'[q] = at[q] /\ rest'[q] = rest[q] /\ todo'[q] = todo[q] /\ reply'[q] = reply[q]
       /\ handle'[q].file = handle[q].file
       /\ Session(r) \notin Uses(job[q]) \/ job[r].kind = "launch" => handle'[q] = handle[q]
  /\ \A s \in Sessions : s # Session(r) \/ job[r].kind = "launch" =>
       folder'[s] = folder[s] /\ subfolder'[s] = subfolder[s] /\ expected'[s] = expected[s]

\* What a mirror has come to depends on its own state and on its two folders.
LEMMA MirrorStays ==
  ASSUME NEW q \in Requests, at'[q] = at[q], todo'[q] = todo[q], handle'[q] = handle[q],
         job'[q] = job[q],
         at[q] \in Mirroring => \A s \in {Session(q), job[q].from} :
           folder'[s] = folder[s] /\ subfolder'[s] = subfolder[s] /\ expected'[s] = expected[s]
  PROVE  MirrorProgress(q) => MirrorProgress(q)'
  <1> SUFFICES ASSUME MirrorProgress(q), at[q] \in Mirroring
               PROVE  MirrorProgress(q)'
    BY DEF MirrorProgress
  <1>1. /\ folder'[Session(q)] = folder[Session(q)]
        /\ subfolder'[Session(q)] = subfolder[Session(q)]
        /\ expected'[Session(q)] = expected[Session(q)]
        /\ folder'[job[q].from] = folder[job[q].from]
        /\ subfolder'[job[q].from] = subfolder[job[q].from]
        /\ expected'[job[q].from] = expected[job[q].from]
        /\ Session(q)' = Session(q)
    BY DEF Session
  <1>2. \A f \in Files : Copied(job[q])'[f] = Copied(job[q])[f]
    BY <1>1 DEF Copied, Session
  <1>3. /\ Tidy(job[q].from, expected[job[q].from])' <=> Tidy(job[q].from, expected[job[q].from])
        /\ Clash(expected[job[q].from], expected[Session(q)])'
             <=> Clash(expected[job[q].from], expected[Session(q)])
    BY <1>1 DEF Tidy, Clash
  <1> QED
    BY <1>1, <1>2, <1>3 DEF MirrorProgress

\* Whoever is alone does not notice.
LEMMA OthersKeep ==
  ASSUME IInv, NEW r \in Requests, StepOf(r)
  PROVE  \A q \in Requests : q # r => JobFits(q)' /\ Progress(q)'
  <1> SUFFICES ASSUME NEW q \in Requests, q # r
               PROVE  JobFits(q)' /\ Progress(q)'
    OBVIOUS
  <1>1. JobFits(q)'
    BY DEF IInv, JobFits, StepOf, Session
  <1>2. Progress(q)'
    <2> SUFFICES ASSUME alone[q], q \in Active
                 PROVE  Progress(q)'
      BY DEF Progress, UploadProgress, MirrorProgress, LaunchProgress, StepOf, Active,
             Mirroring, Launching
    <2>1. Session(q) \in Sessions /\ Session(q) # NoSession
      BY SessionsAssumption DEF IInv, TypeOK, JobFits, Active, Uploading, Mirroring, Launching
    <2>2. Writes(job[r]) \cap Uses(job[q]) = {}
      BY DEF IInv, AloneIsAlone, StepOf
    <2>3. handle'[q] = handle[q]
      BY <2>2 DEF StepOf, Writes, Session
    <2>4. \A s \in Sessions : s \in Uses(job[q]) =>
            folder'[s] = folder[s] /\ subfolder'[s] = subfolder[s] /\ expected'[s] = expected[s]
      BY <2>2 DEF StepOf, Writes, Session
    <2>5. /\ folder'[Session(q)] = folder[Session(q)]
          /\ subfolder'[Session(q)] = subfolder[Session(q)]
          /\ expected'[Session(q)] = expected[Session(q)]
      BY <2>1, <2>4, SessionsAssumption DEF Uses, Session
    <2>6. at[q] \in Mirroring =>
            /\ folder'[job[q].from] = folder[job[q].from]
            /\ subfolder'[job[q].from] = subfolder[job[q].from]
            /\ expected'[job[q].from] = expected[job[q].from]
      BY <2>4, SessionsAssumption DEF IInv, JobFits, Uses, Mirroring, Launching, Uploading
    <2>7. /\ at'[q] = at[q] /\ rest'[q] = rest[q] /\ todo'[q] = todo[q]
          /\ job' = job /\ alone' = alone /\ Session(q)' = Session(q)
      BY DEF StepOf, Session
    <2>8. UploadProgress(q) /\ MirrorProgress(q) /\ LaunchProgress(q)
      BY DEF IInv, Progress
    <2>9. UploadProgress(q)'
      <3>2. \A f \in Files : Holds(q, f)' = Holds(q, f)
        BY <2>7 DEF Holds
      <3>3. /\ Present(Session(q))' = Present(Session(q))
            /\ Listed(Session(q))' = Listed(Session(q))
        BY <2>5, <2>7 DEF Present, Listed
      <3>4. SubfolderFits(q)' <=> SubfolderFits(q)
        BY <2>5, <2>7 DEF SubfolderFits
      <3> QED
        BY <2>3, <2>5, <2>7, <2>8, <3>2, <3>3, <3>4 DEF UploadProgress
    <2>10. MirrorProgress(q)'
      BY <2>3, <2>5, <2>6, <2>7, <2>8, MirrorStays
    <2>11. LaunchProgress(q)'
      <3> SUFFICES ASSUME at[q] \in Launching
                   PROVE  LaunchProgress(q)'
        BY <2>7 DEF LaunchProgress
      <3>1. job[q].kind = "launch" /\ Default \in Uses(job[q])
        BY DEF IInv, JobFits, Uses
      <3>2. \A i \in 1..4 : At(Places(Session(q))[i])' = At(Places(Session(q))[i])
        <4>1. folder'[Default] = folder[Default] /\ folder'[Session(q)] = folder[Session(q)]
          BY <3>1, <2>4, <2>5, SessionsAssumption
        <4>2. Places(Session(q))' = Places(Session(q))
          BY <2>7
        <4>3. \A i \in 1..4 : Places(Session(q))[i].in \in {Default, Session(q)}
          <5>1. /\ Places(Session(q))[1].in = Default /\ Places(Session(q))[2].in = Default
                /\ Places(Session(q))[3].in = Session(q) /\ Places(Session(q))[4].in = Session(q)
            <6>1. /\ Places(Session(q))[1] = [in |-> Default, file |-> "top"]
                  /\ Places(Session(q))[2] = [in |-> Default, file |-> "nested"]
                  /\ Places(Session(q))[3] = [in |-> Session(q), file |-> "top"]
                  /\ Places(Session(q))[4] = [in |-> Session(q), file |-> "nested"]
              BY <2>1, PlacesAre
            <6> QED
              BY <6>1
          <5>2. \A i \in 1..4 : i = 1 \/ i = 2 \/ i = 3 \/ i = 4
            OBVIOUS
          <5> QED
            BY <5>1, <5>2
        <4> QED
          BY <4>1, <4>2, <4>3 DEF At
      <3>3. \A n \in 0..4 : HasLookedAt(q, n) => HasLookedAt(q, n)'
        BY <3>2, <2>7 DEF HasLookedAt
      <3> QED
        BY <3>3, <2>7, <2>8 DEF LaunchProgress
    <2> QED
      BY <2>9, <2>10, <2>11 DEF Progress
  <1> QED
    BY <1>1, <1>2

\* A step of a request that is under way keeps the invariant if it keeps what
\* concerns that request.
LEMMA StepKeeps ==
  ASSUME IInv, NEW r \in Requests, StepOf(r), TypeOK', JobFits(r)', Progress(r)',
         at'[r] # "idle",
         at'[r] = "done" /\ job[r].kind # "launch" /\ expected'[Session(r)] # Unknown
           => /\ folder'[Session(r)] = expected'[Session(r)]
              /\ Tidy(Session(r), expected[Session(r)])'
  PROVE  IInv'
  <1>1. \A q \in Requests : JobFits(q)' /\ Progress(q)'
    BY OthersKeep
  <1>2. Active' \subseteq Active /\ \A q \in Active : q # r => q \in Active'
    BY DEF Active, StepOf
  <1>3. AloneIsAlone'
    BY <1>2 DEF IInv, AloneIsAlone, StepOf, Writes, Uses
  <1>4. FoldersAreKnown'
    <2> SUFFICES ASSUME NEW s \in Sessions, expected'[s] # Unknown,
                        \A q \in Active' : s \notin Writes(job[q])
                 PROVE  folder'[s] = expected'[s] /\ Tidy(s, expected[s])'
      BY DEF FoldersAreKnown, StepOf, Writes, Unknown
    <2>1. CASE s # Session(r) \/ job[r].kind = "launch"
      <3>1. \A q \in Active : s \notin Writes(job[q])
        BY <2>1, <1>2 DEF Writes, Session
      <3> QED
        BY <2>1, <3>1 DEF IInv, FoldersAreKnown, StepOf, Tidy
    <2>2. CASE s = Session(r) /\ job[r].kind # "launch"
      <3>1. r \notin Active'
        BY <2>2 DEF Writes, Session
      <3>2. at'[r] \in {"idle", "done"}
        BY <3>1 DEF Active
      <3>3. Session(r)' = Session(r)
        BY DEF StepOf, Session
      <3> QED
        BY <3>2, <3>3, <2>2 DEF Tidy
    <2> QED
      BY <2>1, <2>2
  <1> QED
    BY <1>1, <1>3, <1>4 DEF IInv

\* A request that begins is alone if nobody writes to its folders, and takes that
\* from the others to whose folders it writes.
LEMMA BeginKeeps ==
  ASSUME IInv, TypeOK', NEW r \in Requests, NEW j \in Job, NEW to,
         to \in {"clearing", "copying", "finding"}, Goes(r, "idle", to), Begin(r, j),
         j.session \in Sessions,
         UNCHANGED <<folder, subfolder, handle, reply, expected>>,
         \A q \in Requests : q # r => rest'[q] = rest[q] /\ todo'[q] = todo[q],
         JobFits(r)', Progress(r)'
  PROVE  IInv'
  <1>1. /\ at[r] = "idle" /\ r \notin Active /\ Active' = Active \cup {r}
        /\ \A q \in Requests : q # r => at'[q] = at[q] /\ job'[q] = job[q]
        /\ at'[r] = to /\ job'[r] = j
    <2>1. at \in [Requests -> {"idle", "clearing", "entry", "opening", "writing", "copying",
                              "copyingFile", "finding", "loading", "done"}]
          /\ job \in [Requests -> Job]
      BY DEF IInv, TypeOK
    <2>2. at[r] = "idle" /\ at' = [at EXCEPT ![r] = to] /\ job' = [job EXCEPT ![r] = j]
      BY DEF Goes, Begin
    <2>3. \A q \in Requests : at'[q] = IF q = r THEN to ELSE at[q]
      BY <2>1, <2>2
    <2>4. r \notin Active /\ Active' = Active \cup {r}
      BY <2>2, <2>3 DEF Active
    <2> QED
      BY <2>1, <2>2, <2>3, <2>4
  <1>2. /\ \A q \in Requests : q # r =>
             alone'[q] = (alone[q] /\ (q \in Active => Uses(job[q]) \cap Writes(j) = {}))
        /\ alone'[r] => \A o \in Active : Writes(job[o]) \cap Uses(j) = {}
    BY DEF Begin
  <1>3. ASSUME NEW q \in Requests
        PROVE  JobFits(q)' /\ Progress(q)'
    <2>1. CASE q = r
      BY <2>1
    <2>2. CASE q # r
      <3>1. JobFits(q)'
        BY <2>2, <1>1 DEF IInv, JobFits, Session
      <3>2. Progress(q)'
        <4> SUFFICES ASSUME alone'[q]
                     PROVE  Progress(q)'
          BY DEF Progress
        <4>1. UploadProgress(q) /\ MirrorProgress(q) /\ LaunchProgress(q)
          BY <2>2, <1>2 DEF IInv, Progress
        <4>2. /\ Session(q)' = Session(q) /\ at'[q] = at[q] /\ job'[q] = job[q]
              /\ rest'[q] = rest[q] /\ todo'[q] = todo[q] /\ handle'[q] = handle[q]
          BY <2>2, <1>1 DEF Session
        <4>3. /\ \A f \in Files : Holds(q, f)' = Holds(q, f)
              /\ Present(Session(q))' = Present(Session(q))
              /\ Listed(Session(q))' = Listed(Session(q))
              /\ SubfolderFits(q)' <=> SubfolderFits(q)
          BY <4>2 DEF Holds, Present, Listed, SubfolderFits
        <4>4. UploadProgress(q)'
          BY <4>1, <4>2, <4>3 DEF UploadProgress
        <4>6. MirrorProgress(q)'
          BY <4>1, <4>2, MirrorStays
        <4>7. LaunchProgress(q)'
          BY <4>1, <4>2 DEF LaunchProgress, HasLookedAt, At
        <4> QED
          BY <4>4, <4>6, <4>7 DEF Progress
      <3> QED
        BY <3>1, <3>2
    <2> QED
      BY <2>1, <2>2
  <1>4. AloneIsAlone'
    <2> SUFFICES ASSUME NEW q \in Active', NEW o \in Active', q # o, alone'[q]
                 PROVE  Writes(job'[o]) \cap Uses(job'[q]) = {}
      BY DEF AloneIsAlone, Writes, Uses
    <2>1. q \in Requests /\ o \in Requests
      BY DEF Active
    <2>2. CASE q = r
      BY <2>1, <2>2, <1>1, <1>2
    <2>3. CASE o = r
      <3>1. Uses(job[q]) \cap Writes(j) = {}
        BY <2>1, <2>3, <1>1, <1>2
      <3> QED
        BY <2>1, <2>3, <3>1, <1>1
    <2>4. CASE q # r /\ o # r
      <3>1. q \in Active /\ o \in Active /\ alone[q]
        BY <2>1, <2>4, <1>1, <1>2
      <3> QED
        BY <2>1, <2>4, <3>1, <1>1 DEF IInv, AloneIsAlone
    <2> QED
      BY <2>2, <2>3, <2>4
  <1>5. FoldersAreKnown'
    <2> SUFFICES ASSUME NEW s \in Sessions, expected[s] # Unknown,
                        \A q \in Active' : s \notin Writes(job'[q])
                 PROVE  folder[s] = expected[s] /\ Tidy(s, expected[s])'
      BY DEF FoldersAreKnown, Writes, Unknown
    <2>1. \A q \in Active : s \notin Writes(job[q])
      BY <1>1 DEF Active
    <2> QED
      BY <2>1 DEF IInv, FoldersAreKnown, Tidy
  <1> QED
    BY <1>3, <1>4, <1>5 DEF IInv

-----------------------------------------------------------------------------
(* Begin.                                                                  *)

LEMMA StartKeeps ==
  ASSUME IInv, NEW r \in Requests, Start(r)
  PROVE  IInv'
  <1>1. PICK s \in Sessions, entries \in Uploads :
          /\ Begin(r, [kind |-> "upload", session |-> s, from |-> NoSession, entries |-> entries])
          /\ rest' = [rest EXCEPT ![r] = entries]
          /\ todo' = [todo EXCEPT ![r] = Listed(s)]
    BY DEF Start
  <1> DEFINE j == [kind |-> "upload", session |-> s, from |-> NoSession, entries |-> entries]
  <1>2. j \in Job /\ entries \in Seq(Entry)
    BY UploadsAssumption DEF Job
  <1>3. at' = [at EXCEPT ![r] = "clearing"] /\ at[r] = "idle"
        /\ UNCHANGED <<folder, subfolder, handle, reply, expected>>
    BY DEF Start, Goes, fsVars
  <1>4. job' = [job EXCEPT ![r] = j] /\ alone' \in [Requests -> BOOLEAN]
    BY <1>1 DEF Begin, IInv, TypeOK
  <1>5. TypeOK'
    BY <1>1, <1>2, <1>3, <1>4 DEF IInv, TypeOK, Present, Listed, Files
  <1>6. job'[r] = j /\ rest'[r] = entries /\ todo'[r] = Listed(s) /\ at'[r] = "clearing"
    BY <1>1, <1>3, <1>4 DEF IInv, TypeOK
  <1>7. JobFits(r)'
    BY <1>2, <1>3, <1>6 DEF IInv, JobFits, Session, Uploading, Mirroring, Launching
  <1>8. Progress(r)'
    BY <1>3, <1>6 DEF Progress, UploadProgress, MirrorProgress, LaunchProgress, Session,
                      Present, Listed, Mirroring, Launching
  <1> HIDE DEF j
  <1> QED
    BY <1>1, <1>2, <1>3, <1>5, <1>6, <1>7, <1>8, BeginKeeps DEF Start, j, IInv, TypeOK

LEMMA StartMirrorKeeps ==
  ASSUME IInv, NEW r \in Requests, StartMirror(r)
  PROVE  IInv'
  <1>1. PICK s \in Sessions, u \in Sessions :
          /\ Begin(r, [kind |-> "mirror", session |-> s, from |-> u, entries |-> <<>>])
          /\ todo' = [todo EXCEPT ![r] = Listed(u)]
    BY DEF StartMirror
  <1> DEFINE j == [kind |-> "mirror", session |-> s, from |-> u, entries |-> <<>>]
  <1>2. j \in Job /\ s # NoSession /\ u # NoSession
    BY SessionsAssumption DEF Job
  <1>3. /\ at' = [at EXCEPT ![r] = "copying"] /\ at[r] = "idle"
        /\ UNCHANGED <<folder, subfolder, rest, handle, reply, expected>>
    BY DEF StartMirror, Goes, fsVars
  <1>4. job' = [job EXCEPT ![r] = j] /\ alone' \in [Requests -> BOOLEAN]
    BY <1>1 DEF Begin, IInv, TypeOK
  <1>5. TypeOK'
    BY <1>1, <1>2, <1>3, <1>4 DEF IInv, TypeOK, Present, Listed, Files
  <1>6. job'[r] = j /\ todo'[r] = Listed(u) /\ at'[r] = "copying"
    BY <1>1, <1>3, <1>4 DEF IInv, TypeOK
  <1>7. JobFits(r)'
    BY <1>3, <1>6 DEF IInv, JobFits, Session, Uploading, Mirroring, Launching
  <1>8. Progress(r)'
    <2> SUFFICES ASSUME alone'[r]
                 PROVE  MirrorProgress(r)'
      BY <1>6 DEF Progress, UploadProgress, LaunchProgress, Launching
    <2>1. /\ \A o \in Active : Writes(job[o]) \cap Uses(j) = {}
          /\ u # s /\ expected[u] # Unknown /\ expected[s] # Unknown
      BY <1>1 DEF Begin
    <2>2. /\ folder[u] = expected[u] /\ Tidy(u, expected[u])
          /\ folder[s] = expected[s] /\ Tidy(s, expected[s])
      BY <2>1, <1>2 DEF Uses, IInv, FoldersAreKnown
    <2>3. \A f \in Files :
            f \in Listed(u) <=> expected[u][f] # NoFile \/ (f = "plain" /\ expected[u]["nested"] # NoFile)
      BY <2>2 DEF Present, Listed, Tidy
    <2>4. "plain" \notin Listed(u) => ~Clash(expected[u], expected[s])
      BY <2>3 DEF Clash, Collide, Files
    <2>5. \A f \in Files : f \notin Listed(u) => Copied(j)[f] = expected[s][f]
      BY <2>3 DEF Copied
    <2>8. /\ "plain" \in Files
          /\ "plain" \notin Listed(u) => expected[u]["nested"] = NoFile
      BY <2>3 DEF Files
    <2>9. Listed(u) \subseteq Files
      BY DEF Listed, Present, Files
    <2>10. /\ subfolder[s] <=> expected[s]["nested"] # NoFile
           /\ expected[s]["nested"] # NoFile => expected[s]["plain"] = NoFile
      BY <2>2 DEF Tidy
    <2>11. Tidy(u, expected[u])'
      BY <2>2, <1>3 DEF Tidy
    <2>6. Copied(job[r])' = Copied(j) /\ Session(r)' = s
      BY <1>3, <1>6 DEF Copied, Session
    <2> HIDE DEF j
    <2>7. j.from = u
      BY DEF j
    <2> QED
      BY <2>1, <2>2, <2>3, <2>4, <2>5, <2>6, <2>7, <2>8, <2>9, <2>10, <2>11, <1>3, <1>6
      DEF MirrorProgress
  <1> HIDE DEF j
  <1> QED
    BY <1>1, <1>2, <1>3, <1>5, <1>6, <1>7, <1>8, BeginKeeps DEF StartMirror, j, IInv, TypeOK

LEMMA StartLaunchKeeps ==
  ASSUME IInv, NEW r \in Requests, StartLaunch(r)
  PROVE  IInv'
  <1>1. PICK s \in Sessions :
          /\ Begin(r, [kind |-> "launch", session |-> s, from |-> NoSession, entries |-> <<>>])
          /\ rest' = [rest EXCEPT ![r] = Places(s)]
    BY DEF StartLaunch
  <1> DEFINE j == [kind |-> "launch", session |-> s, from |-> NoSession, entries |-> <<>>]
  <1>2. j \in Job
    BY DEF Job
  <1>3. /\ at' = [at EXCEPT ![r] = "finding"] /\ at[r] = "idle"
        /\ UNCHANGED <<folder, subfolder, todo, handle, reply, expected>>
    BY DEF StartLaunch, Goes, fsVars
  <1>4. job' = [job EXCEPT ![r] = j] /\ alone' \in [Requests -> BOOLEAN]
    BY <1>1 DEF Begin, IInv, TypeOK
  <1>9. Places(s) \in Seq(Place) /\ Len(Places(s)) = 4
    BY PlacesAre
  <1>5. TypeOK'
    BY <1>1, <1>2, <1>3, <1>4, <1>9 DEF IInv, TypeOK
  <1>6. job'[r] = j /\ at'[r] = "finding" /\ rest'[r] = Places(s)
    BY <1>1, <1>3, <1>4 DEF IInv, TypeOK
  <1>7. JobFits(r)'
    BY <1>3, <1>6, <1>9 DEF IInv, JobFits, Session, Uploading, Mirroring, Launching
  <1>8. Progress(r)'
    <2>1. Session(r)' = s
      BY <1>6 DEF Session
    <2>2. HasLookedAt(r, 0)'
      BY <2>1, <1>6, <1>9 DEF HasLookedAt
    <2>3. LaunchProgress(r)'
      BY <2>2 DEF LaunchProgress
    <2> QED
      BY <2>3, <1>6 DEF Progress, UploadProgress, MirrorProgress, Mirroring
  <1> HIDE DEF j
  <1> QED
    BY <1>1, <1>2, <1>3, <1>5, <1>6, <1>7, <1>8, BeginKeeps DEF StartLaunch, j, IInv, TypeOK

-----------------------------------------------------------------------------
(* The steps of an upload.                                                 *)

\* What every step of an upload starts from.
LEMMA UploadFacts ==
  ASSUME IInv, NEW r \in Requests, at[r] \in Uploading
  PROVE  /\ r \in Active /\ Session(r) \in Sessions /\ job[r].kind = "upload"
         /\ job[r].from = NoSession /\ reply[r] = "none" /\ job[r] \in Job
         /\ job[r].entries \in Seq(Entry) /\ rest[r] \in Seq(Entry)
         /\ \A q \in Requests : Session(q) = Session(r) => Session(r) \in Uses(job[q])
         /\ Progress(r) /\ TypeOK
  <1>1. TypeOK /\ Progress(r) /\ JobFits(r)
    BY DEF IInv
  <1>2. /\ r \in Active /\ Session(r) \in Sessions /\ job[r].kind = "upload"
        /\ job[r].from = NoSession
    BY <1>1 DEF JobFits, Uploading, Active
  <1>3. job[r] \in Job /\ rest[r] \in Seq(Entry) /\ reply[r] = "none"
    BY <1>1 DEF TypeOK, JobFits, Uploading
  <1>4. job[r].entries \in Seq(Entry)
    BY <1>3 DEF Job
  <1>5. \A q \in Requests : Session(q) = Session(r) => Session(r) \in Uses(job[q])
    BY <1>2, SessionsAssumption DEF Uses, Session
  <1> QED
    BY <1>1, <1>2, <1>3, <1>4, <1>5

LEMMA UnlinkKeeps ==
  ASSUME IInv, NEW r \in Requests, Unlink(r)
  PROVE  IInv'
  <1>1. /\ at[r] = "clearing" /\ at' = at /\ UNCHANGED <<subfolder, job, rest, reply, alone, expected>>
    BY DEF Unlink
  <1>2. PICK f \in Files :
          /\ f \in todo[r] \cup Present(Session(r))
          /\ folder' = [folder EXCEPT ![Session(r)][f] = NoFile]
          /\ todo' = [todo EXCEPT ![r] = @ \ {f}]
          /\ Detach(Session(r), f)
    BY DEF Unlink
  <1>3. /\ r \in Active /\ Session(r) \in Sessions /\ job[r].kind = "upload"
        /\ \A q \in Requests : Session(q) = Session(r) => Session(r) \in Uses(job[q])
        /\ Progress(r) /\ TypeOK
    BY <1>1, UploadFacts DEF Uploading
  <1>4. \A q \in Requests :
          /\ handle'[q] = IF handle[q].file = f /\ Session(q) = Session(r)
                          THEN [handle[q] EXCEPT !.attached = FALSE] ELSE handle[q]
    BY <1>2 DEF Detach
  <1>5. handle' \in [Requests -> Handle]
    <2>1. \A q \in Requests : handle[q] \in Handle
      BY <1>3 DEF TypeOK
    <2>2. \A h \in Handle : [h EXCEPT !.attached = FALSE] \in Handle
      BY DEF Handle
    <2> QED
      BY <2>1, <2>2, <1>2 DEF Detach
  <1>6. TypeOK'
    <2>1. folder' \in [Sessions -> [Files -> Contents]]
      BY <1>2, <1>3, FolderTypes DEF Contents
    <2>2. todo' \in [Requests -> SUBSET Files]
      BY <1>2, <1>3 DEF TypeOK
    <2> QED
      BY <2>1, <2>2, <1>1, <1>3, <1>5 DEF TypeOK
  <1>7. StepOf(r)
    <2>1. \A s \in Sessions : s # Session(r) => folder'[s] = folder[s]
      BY <1>2, <1>3, FolderTypes DEF Contents
    <2>2. \A q \in Requests : q # r => todo'[q] = todo[q]
      BY <1>2, <1>3 DEF TypeOK
    <2>3. \A q \in Requests :
            /\ handle'[q].file = handle[q].file
            /\ Session(r) \notin Uses(job[q]) => handle'[q] = handle[q]
      <3>1. \A h \in Handle : [h EXCEPT !.attached = FALSE].file = h.file
        BY DEF Handle
      <3>2. \A q \in Requests : handle[q] \in Handle
        BY <1>3 DEF TypeOK
      <3> QED
        BY <3>1, <3>2, <1>3, <1>4
    <2> QED
      BY <2>1, <2>2, <2>3, <1>1, <1>3 DEF StepOf
  <1>8. JobFits(r)'
    BY <1>1 DEF IInv, JobFits, Session
  <1>9. Progress(r)'
    <2>1. Session(r)' = Session(r) /\ folder'[Session(r)] = [folder[Session(r)] EXCEPT ![f] = NoFile]
          /\ todo'[r] = todo[r] \ {f}
      BY <1>1, <1>2, <1>3 DEF TypeOK, Session
    <2>2. /\ Present(Session(r))' = Present(Session(r)) \ {f}
          /\ Listed(Session(r)) \ {f} \subseteq Listed(Session(r))'
      <3>1. folder[Session(r)] \in [Files -> Contents] /\ subfolder'[Session(r)'] = subfolder[Session(r)]
        BY <2>1, <1>1, <1>3 DEF TypeOK
      <3>2. Present(Session(r))' = Present(Session(r)) \ {f}
        BY <3>1, <2>1 DEF Present
      <3> QED
        BY <3>1, <3>2 DEF Listed
    <2> QED
      BY <1>1, <1>3, <2>1, <2>2
      DEF Progress, UploadProgress, MirrorProgress, LaunchProgress, Mirroring, Launching
  <1> QED
    BY <1>1, <1>3, <1>6, <1>7, <1>8, <1>9, StepKeeps, UploadFacts DEF Uploading

\* Before the first entry nothing was dealt with.
LEMMA NothingDealt ==
  ASSUME NEW entries \in Seq(Entry)
  PROVE  IsRest(entries, entries) /\ \A f \in Files : ~WasDealt(entries, entries, f)
  <1>1. Len(entries) \in Nat /\ Dealt(entries, entries) = 0
    BY DEF Dealt
  <1> QED
    BY <1>1 DEF IsRest, WasDealt

LEMMA MeetSubfolderKeeps ==
  ASSUME IInv, NEW r \in Requests, MeetSubfolder(r)
  PROVE  IInv'
  <1>1. /\ at[r] = "clearing" /\ folder[Session(r)]["plain"] = NoFile
        /\ subfolder' = [subfolder EXCEPT ![Session(r)] =
                           @ /\ folder[Session(r)]["nested"] # NoFile]
        /\ todo' = [todo EXCEPT ![r] = @ \ {"plain"}]
        /\ UNCHANGED <<folder, at, job, rest, handle, reply, alone, expected>>
    BY DEF MeetSubfolder
  <1>2. /\ r \in Active /\ Session(r) \in Sessions /\ job[r].kind = "upload" /\ reply[r] = "none"
        /\ Progress(r) /\ TypeOK
    BY <1>1, UploadFacts DEF Uploading
  <1>3. TypeOK'
    BY <1>1, <1>2 DEF TypeOK
  <1>4. todo'[r] = todo[r] \ {"plain"} /\ \A q \in Requests : q # r => todo'[q] = todo[q]
    BY <1>1, <1>2 DEF TypeOK
  <1>5. StepOf(r)
    BY <1>1, <1>2, <1>4 DEF StepOf, TypeOK
  <1>6. JobFits(r)'
    BY <1>1 DEF IInv, JobFits, Session
  <1>7. Progress(r)'
    <2>1. Session(r)' = Session(r)
      BY <1>1 DEF Session
    <2>2. /\ Present(Session(r))' = Present(Session(r)) /\ "plain" \notin Present(Session(r))
          /\ Listed(Session(r)) \ {"plain"} \subseteq Listed(Session(r))'
      BY <2>1, <1>1 DEF Present, Listed
    <2> QED
      BY <2>1, <2>2, <1>1, <1>2, <1>4
      DEF Progress, UploadProgress, MirrorProgress, LaunchProgress, Mirroring, Launching
  <1> QED
    BY <1>1, <1>2, <1>3, <1>5, <1>6, <1>7, StepKeeps

LEMMA RemoveSubfolderKeeps ==
  ASSUME IInv, NEW r \in Requests, RemoveSubfolder(r)
  PROVE  IInv'
  <1>1. /\ at[r] = "clearing" /\ at' = [at EXCEPT ![r] = "entry"] /\ todo[r] = {}
        /\ subfolder' = [subfolder EXCEPT ![Session(r)] =
                           @ /\ folder[Session(r)]["nested"] # NoFile]
        /\ UNCHANGED <<folder, job, todo, rest, handle, reply, alone, expected>>
    BY DEF RemoveSubfolder, Goes
  <1>2. /\ r \in Active /\ Session(r) \in Sessions /\ job[r].kind = "upload" /\ reply[r] = "none"
        /\ job[r].entries \in Seq(Entry) /\ Progress(r) /\ TypeOK
    BY <1>1, UploadFacts DEF Uploading
  <1>3. TypeOK'
    BY <1>1, <1>2 DEF TypeOK
  <1>4. at'[r] = "entry" /\ \A q \in Requests : q # r => at'[q] = at[q]
    BY <1>1, <1>2 DEF TypeOK
  <1>5. StepOf(r)
    BY <1>1, <1>2, <1>4 DEF StepOf, TypeOK
  <1>6. JobFits(r)'
    BY <1>1, <1>2, <1>4 DEF IInv, JobFits, Session, Uploading, Mirroring, Launching
  <1>7. Progress(r)'
    <2> SUFFICES ASSUME alone[r]
                 PROVE  UploadProgress(r)'
      BY <1>1, <1>4 DEF Progress, MirrorProgress, LaunchProgress, Mirroring, Launching
    <2>1. Present(Session(r)) = {} /\ rest[r] = job[r].entries
      BY <1>1, <1>2 DEF Progress, UploadProgress
    <2>2. \A f \in Files : folder[Session(r)][f] = NoFile
      BY <2>1 DEF Present
    <2>5. SubfolderFits(r)'
      <3>1. folder[Session(r)]["nested"] = NoFile /\ folder[Session(r)]["plain"] = NoFile
        BY <2>2 DEF Files
      <3>2. subfolder'[Session(r)] = FALSE
        BY <3>1, <1>1, <1>2 DEF TypeOK
      <3> QED
        BY <3>1, <3>2, <1>1, <1>4 DEF SubfolderFits, Session
    <2>3. IsRest(job[r].entries, job[r].entries)
          /\ \A f \in Files : ~WasDealt(job[r].entries, job[r].entries, f)
      BY <1>2, NothingDealt
    <2>4. \A f \in Files : Holds(r, f)' = NoFile
      BY <2>1, <2>3, <1>1 DEF Holds
    <2> QED
      BY <2>1, <2>2, <2>3, <2>4, <2>5, <1>1, <1>2, <1>4 DEF UploadProgress, Session
  <1> QED
    BY <1>1, <1>2, <1>3, <1>4, <1>5, <1>6, <1>7, StepKeeps

\* The first entry that is left cannot be written.
Blocked(entries, left) == Unwritable(entries, Dealt(entries, left) + 1)

\* When it cannot, what was dealt with is what comes before the first such one.
LEMMA UpToTheBadOne ==
  ASSUME NEW entries \in Seq(Entry), NEW left \in Seq(Entry), IsRest(entries, left),
         left # <<>> => Blocked(entries, left)
  PROVE  /\ \A f \in Files : WasDealt(entries, left, f)
              <=> (\E i \in 1..Len(entries) :
                     entries[i].file = f /\ \A j \in 1..i : ~Unwritable(entries, j))
         /\ left # <<>> => \E i \in 1..Len(entries) : Unwritable(entries, i)
  <1> DEFINE n == Len(entries) - Len(left)
  <1>1. /\ Len(left) \in Nat /\ Len(entries) \in Nat /\ n \in 0..Len(entries)
        /\ \A i \in 1..n : ~Unwritable(entries, i)
    BY DEF IsRest, Dealt
  <1>2. left # <<>> => Len(left) >= 1
    OBVIOUS
  <1>3. left # <<>> => n + 1 \in 1..Len(entries) /\ Unwritable(entries, n + 1)
    BY <1>1, <1>2 DEF Blocked, Dealt
  <1>4. left = <<>> => n = Len(entries)
    BY <1>1
  <1>5. \A i \in 1..Len(entries) : (\A j \in 1..i : ~Unwritable(entries, j)) => i \in 1..n
    BY <1>1, <1>3, <1>4
  <1>6. \A f \in Files : WasDealt(entries, left, f) <=> \E i \in 1..n : entries[i].file = f
    BY DEF WasDealt, Dealt
  <1> HIDE DEF n
  <1> QED
    BY <1>1, <1>3, <1>5, <1>6

\* An upload that is alone has written what it was sent when it has dealt with
\* its entries up to one that cannot be written or the end.
LEMMA UploadedIsSent ==
  ASSUME IInv, NEW r \in Requests, at[r] \in {"entry", "opening"}, alone[r],
         rest[r] # <<>> => Blocked(job[r].entries, rest[r])
  PROVE  /\ folder[Session(r)] = Sent(r, job[r].entries)
         /\ rest[r] # <<>> => \E i \in 1..Len(job[r].entries) : Unwritable(job[r].entries, i)
  <1>1. /\ job[r].entries \in Seq(Entry) /\ rest[r] \in Seq(Entry)
        /\ folder[Session(r)] \in [Files -> Contents]
        /\ Sent(r, job[r].entries) \in [Files -> Contents]
    BY UploadFacts, AccountTypes DEF Uploading, TypeOK
  <1>2. /\ IsRest(job[r].entries, rest[r])
        /\ \A f \in Files : folder[Session(r)][f] = Holds(r, f)
    BY DEF IInv, Progress, UploadProgress
  <1>4. /\ \A f \in Files : WasDealt(job[r].entries, rest[r], f)
            <=> (\E i \in 1..Len(job[r].entries) :
                   job[r].entries[i].file = f /\ \A j \in 1..i : ~Unwritable(job[r].entries, j))
        /\ rest[r] # <<>> => \E i \in 1..Len(job[r].entries) : Unwritable(job[r].entries, i)
    BY <1>1, <1>2, UpToTheBadOne
  <1>5. \A f \in Files : Holds(r, f) = Sent(r, job[r].entries)[f]
    BY <1>4 DEF Holds, Sent
  <1> QED
    BY <1>1, <1>2, <1>4, <1>5

\* What is next for an upload that is alone.
LEMMA NextEntry ==
  ASSUME IInv, NEW r \in Requests, at[r] \in Uploading, at[r] # "clearing", alone[r], rest[r] # <<>>
  PROVE  LET n == Dealt(job[r].entries, rest[r]) IN
         /\ n \in Nat /\ n + 1 \in 1..Len(job[r].entries)
         /\ job[r].entries[n + 1] = Head(rest[r]) /\ Head(rest[r]).file \in Files
         /\ (n + 1) - 1 = n
  <1>1. job[r].entries \in Seq(Entry) /\ rest[r] \in Seq(Entry)
    BY UploadFacts
  <1>2. IsRest(job[r].entries, rest[r])
    BY DEF IInv, Progress, UploadProgress, Uploading
  <1>3. Len(rest[r]) \in Nat \ {0} /\ Head(rest[r]) = rest[r][1] /\ Head(rest[r]) \in Entry
    BY <1>1
  <1>4. /\ Len(rest[r]) <= Len(job[r].entries) /\ Len(job[r].entries) \in Nat
        /\ \A i \in 1..Len(rest[r]) :
             rest[r][i] = job[r].entries[Dealt(job[r].entries, rest[r]) + i]
    BY <1>1, <1>2 DEF IsRest
  <1>5. rest[r][1] = job[r].entries[Dealt(job[r].entries, rest[r]) + 1]
    BY <1>3, <1>4
  <1>6. /\ Dealt(job[r].entries, rest[r]) \in Nat
        /\ Dealt(job[r].entries, rest[r]) + 1 \in 1..Len(job[r].entries)
        /\ (Dealt(job[r].entries, rest[r]) + 1) - 1 = Dealt(job[r].entries, rest[r])
    <2>1. \A a, b \in Nat : b # 0 /\ b <= a =>
            a - b \in Nat /\ (a - b) + 1 \in 1..a /\ ((a - b) + 1) - 1 = a - b
      OBVIOUS
    <2> QED
      BY <2>1, <1>3, <1>4 DEF Dealt
  <1>7. Head(rest[r]).file \in Files
    BY <1>3 DEF Entry
  <1> QED
    BY <1>3, <1>5, <1>6, <1>7

\* A file of an earlier entry is in the way of the next one.
LEMMA IsBlocked ==
  ASSUME IInv, NEW r \in Requests, at[r] \in {"entry", "opening"}, alone[r], rest[r] # <<>>,
         \/ ~Head(rest[r]).ok
         \/ \E f \in Files : /\ Collide(Head(rest[r]).file, f)
                             /\ folder[Session(r)][f] # NoFile
  PROVE  Blocked(job[r].entries, rest[r])
  <1> DEFINE n == Dealt(job[r].entries, rest[r])
  <1>1. /\ job[r].entries[n + 1] = Head(rest[r]) /\ (n + 1) - 1 = n
    BY NextEntry DEF Uploading
  <1>2. CASE ~Head(rest[r]).ok
    BY <1>1, <1>2 DEF Blocked, Unwritable
  <1>3. ASSUME NEW f \in Files, Collide(Head(rest[r]).file, f), folder[Session(r)][f] # NoFile
        PROVE  Blocked(job[r].entries, rest[r])
    <2>1. folder[Session(r)][f] = Holds(r, f)
      BY DEF IInv, Progress, UploadProgress
    <2>2. WasDealt(job[r].entries, rest[r], f)
      BY <2>1, <1>3 DEF Holds
    <2>3. PICK i \in 1..n : job[r].entries[i].file = f
      BY <2>2 DEF WasDealt
    <2>4. \E k \in 1..((n + 1) - 1) : Collide(job[r].entries[n + 1].file, job[r].entries[k].file)
      BY <2>3, <1>1, <1>3
    <2> QED
      BY <2>4 DEF Blocked, Unwritable
  <1> QED
    BY <1>2, <1>3

\* Why an upload that is alone fails, at each of its failing steps.
LEMMA FailsBlocked ==
  ASSUME IInv, NEW r \in Requests, alone[r], BadEntry(r) \/ MakeParentFails(r) \/ OpenFails(r)
  PROVE  /\ rest[r] # <<>> /\ Blocked(job[r].entries, rest[r])
         /\ at[r] \in {"entry", "opening"}
         /\ at[r] = "opening" => Head(rest[r]).file # "nested"
  <1>1. CASE BadEntry(r)
    BY <1>1, IsBlocked DEF BadEntry, HasEntry
  <1>2. CASE MakeParentFails(r)
    <2>1. /\ at[r] = "entry" /\ rest[r] # <<>> /\ Head(rest[r]).file = "nested"
          /\ folder[Session(r)]["plain"] # NoFile
      BY <1>2 DEF MakeParentFails, HasEntry, InTheWay
    <2>2. Collide(Head(rest[r]).file, "plain") /\ "plain" \in Files
      BY <2>1 DEF Collide, Files
    <2> QED
      BY <2>1, <2>2, IsBlocked
  <1>3. CASE OpenFails(r)
    <2>1. at[r] = "opening" /\ ~MayOpen(Session(r), Head(rest[r]).file) /\ rest[r] # <<>>
      BY <1>3 DEF OpenFails, IInv, JobFits
    <2>2. SubfolderFits(r)
      BY <2>1 DEF IInv, Progress, UploadProgress
    <2>3. /\ Head(rest[r]).file = "plain" /\ folder[Session(r)]["nested"] # NoFile
      BY <2>1, <2>2 DEF SubfolderFits, MayOpen
    <2>4. Collide(Head(rest[r]).file, "nested") /\ "nested" \in Files
      BY <2>3 DEF Collide, Files
    <2> QED
      BY <2>1, <2>3, <2>4, IsBlocked
  <1> QED
    BY <1>1, <1>2, <1>3

\* An upload ends: with the entries up to the first bad one in its folder.
LEMMA UploadEndKeeps ==
  ASSUME IInv, NEW r \in Requests, NEW answer, answer \in {"ok", "bad request", "error"},
         NEW from \in {"entry", "opening"},
         Ends(r, from, answer), UNCHANGED <<folder, subfolder, job, todo, rest, handle, alone>>,
         alone[r] =>
           /\ rest[r] # <<>> => Blocked(job[r].entries, rest[r])
           /\ at[r] = "opening" => Head(rest[r]).file # "nested"
  PROVE  IInv'
  <1>1. /\ at[r] = from /\ at' = [at EXCEPT ![r] = "done"]
        /\ reply' = [reply EXCEPT ![r] = answer]
    BY DEF Ends, Goes
  <1>2. /\ r \in Active /\ Session(r) \in Sessions /\ job[r].kind = "upload" /\ reply[r] = "none"
        /\ Progress(r) /\ TypeOK /\ JobFits(r)
    BY <1>1, UploadFacts DEF Uploading, IInv
  <1>3. TypeOK'
    BY <1>1, <1>2, EndsTypes DEF TypeOK, Uploading
  <1>4. at'[r] = "done" /\ reply'[r] = answer
        /\ \A q \in Requests : q # r => at'[q] = at[q] /\ reply'[q] = reply[q]
    BY <1>1, <1>2 DEF TypeOK
  <1>5. expected' = [expected EXCEPT ![Session(r)] = Expectation(r, answer)]
    BY <1>2 DEF Ends
  <1>6. StepOf(r)
    BY <1>1, <1>2, <1>4, <1>5 DEF StepOf, TypeOK
  <1>7. JobFits(r)'
    BY <1>1, <1>4 DEF JobFits, Session, Uploading, Mirroring, Launching
  <1>8. Progress(r)'
    BY <1>4 DEF Progress, UploadProgress, MirrorProgress, LaunchProgress, Mirroring, Launching
  <1>9. ASSUME alone[r]
        PROVE  /\ folder[Session(r)] = Sent(r, job[r].entries)
               /\ Tidy(Session(r), folder[Session(r)])
    <2>1. folder[Session(r)] = Sent(r, job[r].entries)
      BY <1>1, <1>9, UploadedIsSent
    <2>2. SubfolderFits(r)
      BY <1>1, <1>2, <1>9 DEF Progress, UploadProgress
    <2> QED
      BY <2>1, <2>2, <1>1, <1>9 DEF SubfolderFits, Tidy
  <1>10. expected'[Session(r)] # Unknown => folder'[Session(r)] = expected'[Session(r)]
    BY <1>2, <1>5, <1>9 DEF Expectation, TypeOK
  <1>11. expected'[Session(r)] # Unknown => alone[r]
    BY <1>2, <1>5 DEF Expectation, TypeOK
  <1>12. expected'[Session(r)] # Unknown => Tidy(Session(r), expected[Session(r)])'
    <2>1. Session(r)' = Session(r) /\ subfolder' = subfolder /\ folder' = folder
      BY DEF Session
    <2> QED
      BY <2>1, <1>9, <1>10, <1>11 DEF Tidy
  <1> QED
    BY <1>4, <1>3, <1>6, <1>7, <1>8, <1>10, <1>12, StepKeeps

\* The walk of an upload that is alone finds what it has listed.
LEMMA ClearFailsKeeps ==
  ASSUME IInv, NEW r \in Requests, ClearFails(r)
  PROVE  IInv' /\ ~alone[r]
  <1>1. /\ at[r] = "clearing" /\ at' = [at EXCEPT ![r] = "done"]
        /\ reply' = [reply EXCEPT ![r] = "error"] /\ Ends(r, "clearing", "error")
        /\ "plain" \in todo[r] \ Listed(Session(r))
        /\ UNCHANGED <<folder, subfolder, job, todo, rest, handle, alone>>
    BY DEF ClearFails, Ends, Goes, fsVars
  <1>2. /\ r \in Active /\ Session(r) \in Sessions /\ job[r].kind = "upload"
        /\ Progress(r) /\ TypeOK /\ JobFits(r)
    BY <1>1, UploadFacts DEF Uploading, IInv
  <1>3. ~alone[r]
    BY <1>1, <1>2 DEF Progress, UploadProgress
  <1>4. TypeOK'
    BY <1>1, <1>2, EndsTypes DEF TypeOK, Uploading
  <1>5. at'[r] = "done" /\ \A q \in Requests : q # r => at'[q] = at[q] /\ reply'[q] = reply[q]
    BY <1>1, <1>2 DEF TypeOK
  <1>6. expected' = [expected EXCEPT ![Session(r)] = Unknown]
    BY <1>1, <1>2, <1>3 DEF Ends, Expectation
  <1>7. StepOf(r)
    BY <1>1, <1>2, <1>5, <1>6 DEF StepOf, TypeOK
  <1>8. JobFits(r)'
    BY <1>1, <1>5 DEF JobFits, Session, Uploading, Mirroring, Launching
  <1>9. Progress(r)'
    BY <1>1, <1>3 DEF Progress
  <1>10. expected'[Session(r)] = Unknown
    BY <1>2, <1>6 DEF TypeOK
  <1> QED
    BY <1>3, <1>4, <1>5, <1>7, <1>8, <1>9, <1>10, StepKeeps

LEMMA MakeParentKeeps ==
  ASSUME IInv, NEW r \in Requests, MakeParent(r)
  PROVE  IInv'
  <1>1. /\ at[r] = "entry" /\ at' = [at EXCEPT ![r] = "opening"]
        /\ rest[r] # <<>> /\ Head(rest[r]).ok
        /\ Head(rest[r]).file = "nested" => folder[Session(r)]["plain"] = NoFile
        /\ subfolder' = [subfolder EXCEPT ![Session(r)] = @ \/ Head(rest[r]).file = "nested"]
        /\ UNCHANGED <<folder, job, todo, rest, handle, reply, alone, expected>>
    BY DEF MakeParent, Goes, HasEntry, InTheWay
  <1>2. /\ r \in Active /\ Session(r) \in Sessions /\ job[r].kind = "upload" /\ reply[r] = "none"
        /\ Progress(r) /\ TypeOK
    BY <1>1, UploadFacts DEF Uploading
  <1>3. TypeOK'
    BY <1>1, <1>2 DEF TypeOK
  <1>4. at'[r] = "opening" /\ \A q \in Requests : q # r => at'[q] = at[q]
    BY <1>1, <1>2 DEF TypeOK
  <1>5. StepOf(r)
    BY <1>1, <1>2, <1>4 DEF StepOf, TypeOK
  <1>6. JobFits(r)'
    BY <1>1, <1>2, <1>4 DEF IInv, JobFits, Session, Uploading, Mirroring, Launching
  <1>7. Progress(r)'
    <2> SUFFICES ASSUME alone[r]
                 PROVE  UploadProgress(r)'
      BY <1>1, <1>4 DEF Progress, MirrorProgress, LaunchProgress, Mirroring, Launching
    <2>1. \A f \in Files : Holds(r, f)' = Holds(r, f)
      BY <1>1 DEF Holds
    <2>2. SubfolderFits(r)'
      <3>1. SubfolderFits(r)
        BY <1>1, <1>2 DEF Progress, UploadProgress
      <3>2. subfolder'[Session(r)] <=> subfolder[Session(r)] \/ Head(rest[r]).file = "nested"
        BY <1>1, <1>2 DEF TypeOK
      <3> QED
        BY <3>1, <3>2, <1>1, <1>4 DEF SubfolderFits, Session
    <2> QED
      BY <2>1, <2>2, <1>1, <1>2, <1>4 DEF Progress, UploadProgress, Session
  <1> QED
    BY <1>1, <1>2, <1>3, <1>4, <1>5, <1>6, <1>7, StepKeeps

\* The first of some entries, and the others.
LEMMA FirstEntry ==
  ASSUME NEW entries \in Seq(Entry), entries # <<>>
  PROVE  /\ Head(entries) = entries[1] /\ Head(entries).file \in Files
         /\ Len(entries) \in Nat \ {0}
         /\ Tail(entries) \in Seq(Entry) /\ Len(Tail(entries)) = Len(entries) - 1
         /\ \A i \in 1..Len(Tail(entries)) : Tail(entries)[i] = entries[i + 1]
  <1>1. Head(entries) \in Entry
    OBVIOUS
  <1>2. Head(entries).file \in Files
    BY <1>1 DEF Entry
  <1> QED
    BY <1>2

LEMMA OpenKeeps ==
  ASSUME IInv, NEW r \in Requests, Open(r)
  PROVE  IInv'
  <1>1. PICK f : f = Head(rest[r]).file
    OBVIOUS
  <1>2. /\ at[r] = "opening" /\ at' = [at EXCEPT ![r] = "writing"]
        /\ folder' = [folder EXCEPT ![Session(r)][f] = Empty]
        /\ handle' = [handle EXCEPT ![r] = [file |-> f, attached |-> TRUE, read |-> NoFile]]
        /\ f = "nested" => subfolder[Session(r)]
        /\ f = "plain" => ~subfolder[Session(r)]
        /\ UNCHANGED <<subfolder, job, todo, rest, reply, alone, expected>>
    BY <1>1 DEF Open, Goes, Truncates, MayOpen
  <1>3. /\ r \in Active /\ Session(r) \in Sessions /\ job[r].kind = "upload" /\ reply[r] = "none"
        /\ job[r].from = NoSession /\ rest[r] \in Seq(Entry) /\ Progress(r) /\ TypeOK
        /\ JobFits(r)
    BY <1>2, UploadFacts DEF Uploading, IInv
  <1>4. f \in Files
    BY <1>1, <1>2, <1>3, FirstEntry DEF JobFits
  <1>5. TypeOK'
    <2>1. folder' \in [Sessions -> [Files -> Contents]]
      BY <1>2, <1>3, FolderTypes DEF Contents
    <2>2. [file |-> f, attached |-> TRUE, read |-> NoFile] \in Handle
      BY <1>4 DEF Handle, Contents
    <2> QED
      BY <2>1, <2>2, <1>2, <1>3 DEF TypeOK
  <1>6. /\ at'[r] = "writing" /\ handle'[r] = [file |-> f, attached |-> TRUE, read |-> NoFile]
        /\ folder'[Session(r)] = [folder[Session(r)] EXCEPT ![f] = Empty]
        /\ \A q \in Requests : q # r => at'[q] = at[q] /\ handle'[q] = handle[q]
    BY <1>2, <1>3 DEF TypeOK
  <1>7. StepOf(r)
    BY <1>2, <1>3, <1>6 DEF StepOf, TypeOK
  <1>8. JobFits(r)'
    BY <1>1, <1>2, <1>3, <1>6 DEF JobFits, Session, Uploading, Mirroring, Launching
  <1>9. Progress(r)'
    <2> SUFFICES ASSUME alone[r]
                 PROVE  UploadProgress(r)'
      BY <1>2, <1>6 DEF Progress, MirrorProgress, LaunchProgress, Mirroring, Launching
    <2>1. \A g \in Files : Holds(r, g)' = Holds(r, g)
      BY <1>2 DEF Holds
    <2>2. folder[Session(r)] \in [Files -> Contents] /\ Session(r)' = Session(r)
      BY <1>2, <1>3 DEF TypeOK, Session
    <2>3. SubfolderFits(r)'
      <3>1. SubfolderFits(r)
        BY <1>2, <1>3 DEF Progress, UploadProgress
      <3>2. \A g \in Files : folder'[Session(r)][g] = IF g = f THEN Empty ELSE folder[Session(r)][g]
        BY <2>2, <1>6
      <3>3. "nested" \in Files /\ "plain" \in Files /\ Empty # NoFile
        BY DEF Files, Empty, NoFile
      <3> QED
        BY <3>1, <3>2, <3>3, <2>2, <1>1, <1>2, <1>6 DEF SubfolderFits
    <2> QED
      BY <2>1, <2>2, <2>3, <1>2, <1>3, <1>4, <1>6 DEF Progress, UploadProgress
  <1> QED
    BY <1>2, <1>3, <1>5, <1>6, <1>7, <1>8, <1>9, StepKeeps

\* What a request writes into the file it has open.
LEMMA PutsEffect ==
  ASSUME TypeOK, NEW r \in Requests, Session(r) \in Sessions, handle[r].file \in Files,
         NEW content \in Contents, Puts(r, content)
  PROVE  /\ folder' \in [Sessions -> [Files -> Contents]]
         /\ \A s \in Sessions : s # Session(r) => folder'[s] = folder[s]
         /\ handle' = [handle EXCEPT ![r] = NoHandle]
         /\ handle[r].attached /\ folder[Session(r)][handle[r].file] = Empty =>
              folder'[Session(r)] = [folder[Session(r)] EXCEPT ![handle[r].file] = content]
  <1>1. CASE handle[r].attached
    <2>1. PICK held \in Over(folder[Session(r)][handle[r].file], content) :
            folder' = [folder EXCEPT ![Session(r)][handle[r].file] = held]
      BY <1>1 DEF Puts
    <2>2. folder[Session(r)][handle[r].file] \in Contents
      <3>1. folder[Session(r)] \in [Files -> Contents]
        BY DEF TypeOK
      <3> QED
        BY <3>1
    <2>3. held \in Contents
      BY <2>2, OverTypes
    <2>4. folder[Session(r)][handle[r].file] = Empty => held = content
      BY DEF Over
    <2>5. handle' = [handle EXCEPT ![r] = NoHandle]
      BY DEF Puts
    <2>6. /\ folder' \in [Sessions -> [Files -> Contents]]
          /\ folder'[Session(r)] = [folder[Session(r)] EXCEPT ![handle[r].file] = held]
          /\ \A u \in Sessions : u # Session(r) => folder'[u] = folder[u]
      BY <2>1, <2>3, FolderTypes
    <2> QED
      BY <2>4, <2>5, <2>6
  <1>2. CASE ~handle[r].attached
    BY <1>2 DEF Puts, TypeOK
  <1> QED
    BY <1>1, <1>2

\* One more entry is dealt with.
LEMMA OneMoreDealt ==
  ASSUME NEW entries \in Seq(Entry), NEW left \in Seq(Entry), left # <<>>,
         IsRest(entries, left), ~Blocked(entries, left)
  PROVE  /\ IsRest(entries, Tail(left))
         /\ \A f \in Files : WasDealt(entries, Tail(left), f)
              <=> f = Head(left).file \/ WasDealt(entries, left, f)
  <1> DEFINE n == Len(entries) - Len(left)
             m == Len(entries) - Len(Tail(left))
  <1>1. /\ Len(left) \in Nat \ {0} /\ Len(Tail(left)) = Len(left) - 1
        /\ \A i \in 1..Len(Tail(left)) : Tail(left)[i] = left[i + 1]
        /\ Head(left) = left[1]
    BY FirstEntry
  <1>2. /\ Len(left) <= Len(entries) /\ Len(entries) \in Nat
        /\ \A i \in 1..Len(left) : left[i] = entries[n + i]
        /\ \A i \in 1..n : ~Unwritable(entries, i)
        /\ ~Unwritable(entries, n + 1)
    BY DEF IsRest, Dealt, Blocked
  <1>3. n \in Nat /\ m = n + 1
    BY <1>1, <1>2
  <1>4. \A i \in 1..Len(Tail(left)) : i + 1 \in 1..Len(left) /\ n + (i + 1) = m + i
    BY <1>1, <1>3
  <1>5. entries[n + 1] = Head(left)
    BY <1>1, <1>2
  <1>6. 1..m = (1..n) \cup {n + 1}
    BY <1>3
  <1>7. /\ Dealt(entries, left) = n /\ Dealt(entries, Tail(left)) = m
    BY DEF Dealt
  <1> HIDE DEF n, m
  <1>8. Len(Tail(left)) <= Len(entries)
    BY <1>1, <1>2
  <1>9. \A i \in 1..Len(Tail(left)) : Tail(left)[i] = entries[m + i]
    BY <1>1, <1>2, <1>4
  <1>10. \A i \in 1..m : ~Unwritable(entries, i)
    BY <1>2, <1>6
  <1> QED
    BY <1>5, <1>6, <1>7, <1>8, <1>9, <1>10 DEF IsRest, WasDealt

LEMMA WriteKeeps ==
  ASSUME IInv, NEW r \in Requests, Write(r)
  PROVE  IInv'
  <1>1. /\ at[r] = "writing" /\ at' = [at EXCEPT ![r] = "entry"] /\ Puts(r, r)
        /\ rest' = [rest EXCEPT ![r] = Tail(@)]
        /\ UNCHANGED <<subfolder, job, todo, reply, alone, expected>>
    BY DEF Write, Goes
  <1>2. /\ r \in Active /\ Session(r) \in Sessions /\ job[r].kind = "upload" /\ reply[r] = "none"
        /\ job[r].entries \in Seq(Entry) /\ rest[r] \in Seq(Entry)
        /\ Progress(r) /\ TypeOK /\ JobFits(r)
    BY <1>1, UploadFacts DEF Uploading, IInv
  <1>3. /\ rest[r] # <<>> /\ handle[r].file = Head(rest[r]).file /\ Head(rest[r]).ok
        /\ handle[r].file \in Files
    BY <1>1, <1>2, FirstEntry DEF JobFits
  <1>4. /\ folder' \in [Sessions -> [Files -> Contents]]
        /\ \A s \in Sessions : s # Session(r) => folder'[s] = folder[s]
        /\ handle' = [handle EXCEPT ![r] = NoHandle]
        /\ handle[r].attached /\ folder[Session(r)][handle[r].file] = Empty =>
             folder'[Session(r)] = [folder[Session(r)] EXCEPT ![handle[r].file] = r]
    BY <1>1, <1>2, <1>3, PutsEffect DEF Contents
  <1>5. Tail(rest[r]) \in Seq(Entry)
    BY <1>2, <1>3, FirstEntry
  <1>6. TypeOK'
    <2>1. NoHandle \in Handle
      BY DEF NoHandle, Contents, Handle
    <2> QED
      BY <2>1, <1>1, <1>2, <1>4, <1>5 DEF TypeOK
  <1>7. /\ at'[r] = "entry" /\ rest'[r] = Tail(rest[r])
        /\ \A q \in Requests : q # r => at'[q] = at[q] /\ handle'[q] = handle[q]
                                        /\ rest'[q] = rest[q]
    BY <1>1, <1>2, <1>4 DEF TypeOK
  <1>8. StepOf(r)
    BY <1>1, <1>2, <1>4, <1>7 DEF StepOf, TypeOK
  <1>9. JobFits(r)'
    BY <1>1, <1>2, <1>7 DEF JobFits, Session, Uploading, Mirroring, Launching
  <1>10. Progress(r)'
    <2> SUFFICES ASSUME alone[r]
                 PROVE  UploadProgress(r)'
      BY <1>1, <1>7 DEF Progress, MirrorProgress, LaunchProgress, Mirroring, Launching
    <2>1. /\ IsRest(job[r].entries, rest[r])
          /\ \A f \in Files : f # handle[r].file => folder[Session(r)][f] = Holds(r, f)
          /\ handle[r].attached /\ folder[Session(r)][handle[r].file] = Empty
          /\ SubfolderFits(r)
      BY <1>1, <1>2 DEF Progress, UploadProgress
    <2>2. ~Blocked(job[r].entries, rest[r])
      <3> DEFINE n == Dealt(job[r].entries, rest[r])
      <3>1. job[r].entries[n + 1] = Head(rest[r]) /\ (n + 1) - 1 = n
        BY <1>1, <1>3, NextEntry DEF Uploading
      <3>2. ASSUME NEW i \in 1..n, Collide(Head(rest[r]).file, job[r].entries[i].file)
            PROVE  FALSE
        <4>1. PICK f : f = job[r].entries[i].file
          OBVIOUS
        <4>2. f \in Files /\ f # handle[r].file
          BY <4>1, <1>3, <3>2 DEF Collide, Files
        <4>3. Holds(r, f) = r /\ folder[Session(r)][f] = r
          BY <4>1, <4>2, <2>1 DEF Holds, WasDealt
        <4>4. r # NoFile /\ Empty # NoFile
          BY RequestsAssumption DEF NoFile, Empty
        <4>5. folder[Session(r)]["nested"] # NoFile /\ folder[Session(r)]["plain"] # NoFile
          BY <4>1, <4>3, <4>4, <3>2, <2>1, <1>3 DEF Collide
        <4> QED
          BY <4>5, <2>1 DEF SubfolderFits
      <3> QED
        BY <3>1, <3>2, <1>3 DEF Blocked, Unwritable
    <2>3. /\ IsRest(job[r].entries, Tail(rest[r]))
          /\ \A f \in Files : WasDealt(job[r].entries, Tail(rest[r]), f)
               <=> f = Head(rest[r]).file \/ WasDealt(job[r].entries, rest[r], f)
      BY <1>2, <1>3, <2>1, <2>2, OneMoreDealt
    <2>4. SubfolderFits(r)'
      <3>1. folder[Session(r)] \in [Files -> Contents]
        BY <1>2 DEF TypeOK
      <3>2. folder'[Session(r)] = [folder[Session(r)] EXCEPT ![handle[r].file] = r]
        BY <2>1, <1>4
      <3>3. \A f \in Files : folder'[Session(r)][f] # NoFile <=> folder[Session(r)][f] # NoFile
        BY <3>1, <3>2, <2>1, RequestsAssumption DEF NoFile, Empty
      <3>4. "nested" \in Files /\ "plain" \in Files
        BY DEF Files
      <3> QED
        BY <3>3, <3>4, <2>1, <1>1, <1>7 DEF SubfolderFits, Session
    <2>9. \A f \in Files : Holds(r, f)' = IF f = handle[r].file THEN r ELSE Holds(r, f)
      BY <2>3, <1>1, <1>3, <1>7 DEF Holds
    <2>10. \A f \in Files : folder'[Session(r)][f] = Holds(r, f)'
      <3>1. folder[Session(r)] \in [Files -> Contents]
        BY <1>2 DEF TypeOK
      <3>2. folder'[Session(r)] = [folder[Session(r)] EXCEPT ![handle[r].file] = r]
        BY <2>1, <1>4
      <3> QED
        BY <2>1, <2>9, <3>1, <3>2
    <2> QED
      BY <2>3, <2>4, <2>10, <1>1, <1>7 DEF UploadProgress, Session
  <1> QED
    BY <1>1, <1>2, <1>6, <1>7, <1>8, <1>9, <1>10, StepKeeps

-----------------------------------------------------------------------------
(* The steps of a mirror.                                                  *)

\* What every step of a mirror starts from.
LEMMA MirrorFacts ==
  ASSUME IInv, NEW r \in Requests, at[r] \in Mirroring
  PROVE  /\ r \in Active /\ Session(r) \in Sessions /\ job[r].kind = "mirror"
         /\ job[r].from \in Sessions /\ reply[r] = "none" /\ job[r] \in Job
         /\ Progress(r) /\ TypeOK /\ JobFits(r)
  BY SessionsAssumption DEF IInv, JobFits, Mirroring, TypeOK, Job, Active

LEMMA CopySubfolderKeeps ==
  ASSUME IInv, NEW r \in Requests, CopySubfolder(r)
  PROVE  IInv'
  <1>1. /\ at[r] = "copying" /\ "plain" \in todo[r]
        /\ subfolder[job[r].from] /\ folder[Session(r)]["plain"] = NoFile
        /\ subfolder' = [subfolder EXCEPT ![Session(r)] = TRUE]
        /\ todo' = [todo EXCEPT ![r] = @ \ {"plain"}]
        /\ UNCHANGED <<folder, at, job, rest, handle, reply, alone, expected>>
    BY DEF CopySubfolder
  <1>2. /\ r \in Active /\ Session(r) \in Sessions /\ job[r].kind = "mirror"
        /\ job[r].from \in Sessions /\ reply[r] = "none" /\ Progress(r) /\ TypeOK /\ JobFits(r)
    BY <1>1, MirrorFacts DEF Mirroring
  <1>3. TypeOK'
    BY <1>1, <1>2 DEF TypeOK
  <1>4. /\ todo'[r] = todo[r] \ {"plain"} /\ subfolder'[Session(r)] = TRUE
        /\ \A q \in Requests : q # r => todo'[q] = todo[q]
        /\ \A s \in Sessions : s # Session(r) => subfolder'[s] = subfolder[s]
    BY <1>1, <1>2 DEF TypeOK
  <1>5. StepOf(r)
    BY <1>1, <1>2, <1>4 DEF StepOf, TypeOK
  <1>6. JobFits(r)'
    BY <1>1 DEF IInv, JobFits, Session
  <1>7. Progress(r)'
    <2> SUFFICES ASSUME alone[r]
                 PROVE  MirrorProgress(r)'
      BY <1>1 DEF Progress, UploadProgress, LaunchProgress, Launching
    <2> DEFINE from == expected[job[r].from]
               own == expected[Session(r)]
    <2>1. /\ job[r].from # Session(r) /\ from # Unknown /\ own # Unknown
          /\ folder[job[r].from] = from /\ Tidy(job[r].from, from)
          /\ own["nested"] # NoFile => own["plain"] = NoFile
          /\ \A f \in todo[r] : from[f] # NoFile \/ (f = "plain" /\ from["nested"] # NoFile)
          /\ subfolder[Session(r)] <=> own["nested"] # NoFile
          /\ \A f \in Files :
               folder[Session(r)][f] = IF f \in todo[r] THEN own[f] ELSE Copied(job[r])[f]
      BY <1>1, <1>2 DEF Progress, MirrorProgress, Mirroring
    <2>2. from["nested"] # NoFile /\ from["plain"] = NoFile /\ own["plain"] = NoFile
      BY <2>1, <1>1 DEF Tidy, Files
    <2>3. ~Clash(from, own)
      BY <2>2 DEF Clash, Collide
    <2>4. Copied(job[r])["plain"] = own["plain"]
      BY <2>2 DEF Copied, Session, Files
    <2>5. \A f \in Files :
            folder[Session(r)][f] = IF f \in todo'[r] THEN own[f] ELSE Copied(job[r])[f]
      BY <2>1, <2>4, <1>4
    <2>6. /\ Session(r)' = Session(r) /\ Copied(job[r])' = Copied(job[r])
          /\ from' = from /\ own' = own
      BY <1>1 DEF Session, Copied
    <2>7. Tidy(job[r].from, from)' /\ Clash(from, own)' = Clash(from, own)
      BY <2>1, <2>6, <1>1, <1>2, <1>4 DEF Tidy, Clash
    <2>8. \A f \in todo'[r] : from[f] # NoFile
      BY <2>1, <1>4
    <2> HIDE DEF from, own
    <2>9. from = expected[job[r].from] /\ own = expected[Session(r)]
      BY DEF from, own
    <2> QED
      BY <2>1, <2>2, <2>3, <2>5, <2>6, <2>7, <2>8, <2>9, <1>1, <1>4 DEF MirrorProgress
  <1> QED
    BY <1>1, <1>2, <1>3, <1>5, <1>6, <1>7, StepKeeps

LEMMA OpenBothKeeps ==
  ASSUME IInv, NEW r \in Requests, OpenBoth(r)
  PROVE  IInv'
  <1>1. PICK f \in todo[r] :
          /\ folder[job[r].from][f] # NoFile
          /\ f = "nested" => "plain" \notin todo[r]
          /\ f = "nested" => folder[Session(r)]["plain"] = NoFile
          /\ f = "plain" => ~subfolder[Session(r)]
          /\ Truncates(r, f, folder[job[r].from][f])
          /\ subfolder' = [subfolder EXCEPT ![Session(r)] = @ \/ f = "nested"]
          /\ todo' = [todo EXCEPT ![r] = @ \ {f}]
    BY DEF OpenBoth, InTheWay
  <1>2. /\ at[r] = "copying" /\ at' = [at EXCEPT ![r] = "copyingFile"]
        /\ folder' = [folder EXCEPT ![Session(r)][f] = Empty]
        /\ handle' = [handle EXCEPT ![r] =
                        [file |-> f, attached |-> TRUE, read |-> folder[job[r].from][f]]]
        /\ UNCHANGED <<job, rest, reply, alone, expected>>
    BY <1>1 DEF OpenBoth, Goes, Truncates
  <1>3. /\ r \in Active /\ Session(r) \in Sessions /\ job[r].kind = "mirror"
        /\ job[r].from \in Sessions /\ reply[r] = "none" /\ Progress(r) /\ TypeOK /\ JobFits(r)
    BY <1>2, MirrorFacts DEF Mirroring
  <1>4. f \in Files
    BY <1>3 DEF TypeOK
  <1>5. TypeOK'
    <2>1. folder[job[r].from][f] \in Contents
      <3>1. folder[job[r].from] \in [Files -> Contents]
        BY <1>3 DEF TypeOK
      <3> QED
        BY <3>1, <1>4
    <2>2. [file |-> f, attached |-> TRUE, read |-> folder[job[r].from][f]]
            \in Handle
      BY <2>1, <1>4 DEF Handle
    <2>3. handle' \in [Requests -> Handle]
      BY <2>2, <1>2, <1>3 DEF TypeOK
    <2>4. folder' \in [Sessions -> [Files -> Contents]]
      BY <1>2, <1>3, FolderTypes DEF Contents
    <2> QED
      BY <2>3, <2>4, <1>1, <1>2, <1>3 DEF TypeOK
  <1>6. /\ at'[r] = "copyingFile" /\ todo'[r] = todo[r] \ {f}
        /\ handle'[r] = [file |-> f, attached |-> TRUE, read |-> folder[job[r].from][f]]
        /\ folder'[Session(r)] = [folder[Session(r)] EXCEPT ![f] = Empty]
        /\ \A s \in Sessions : s # Session(r) => folder'[s] = folder[s]
        /\ \A q \in Requests : q # r => at'[q] = at[q] /\ handle'[q] = handle[q]
                                        /\ todo'[q] = todo[q]
    BY <1>1, <1>2, <1>3 DEF TypeOK
  <1>7. StepOf(r)
    BY <1>1, <1>2, <1>3, <1>6 DEF StepOf, TypeOK
  <1>8. JobFits(r)'
    BY <1>2, <1>3, <1>4, <1>6 DEF JobFits, Session, Uploading, Mirroring, Launching
  <1>9. Progress(r)'
    <2> SUFFICES ASSUME alone[r]
                 PROVE  MirrorProgress(r)'
      BY <1>2, <1>6 DEF Progress, UploadProgress, LaunchProgress, Launching
    <2> DEFINE from == expected[job[r].from]
               own == expected[Session(r)]
    <2>1. /\ job[r].from # Session(r) /\ from # Unknown /\ own # Unknown
          /\ folder[job[r].from] = from /\ Tidy(job[r].from, from)
          /\ own["nested"] # NoFile => own["plain"] = NoFile
          /\ \A g \in todo[r] : from[g] # NoFile \/ (g = "plain" /\ from["nested"] # NoFile)
          /\ "plain" \notin todo[r] => ~Clash(from, own)
          /\ subfolder[Session(r)] <=>
               own["nested"] # NoFile \/ ("plain" \notin todo[r] /\ from["nested"] # NoFile)
          /\ \A g \in Files :
               folder[Session(r)][g] = IF g \in todo[r] THEN own[g] ELSE Copied(job[r])[g]
      BY <1>2, <1>3 DEF Progress, MirrorProgress, Mirroring
    <2>2. /\ \A g \in Files : Copied(job[r])'[g] = Copied(job[r])[g]
          /\ from' = from /\ own' = own /\ Clash(from, own)' = Clash(from, own)
      BY <1>2 DEF Copied, Clash, Session
    <2>7. Tidy(job[r].from, from)'
      <3>1. subfolder'[job'[r].from] = subfolder[job[r].from]
        BY <2>1, <1>1, <1>2, <1>3 DEF TypeOK
      <3>2. Tidy(job[r].from, from)
        BY <2>1
      <3> QED
        BY <2>2, <3>1, <3>2 DEF Tidy
    <2>8. f = "plain" => from["nested"] = NoFile /\ own["nested"] = NoFile
      BY <2>1, <1>1 DEF Tidy
    <2>9. "plain" \notin todo'[r] => ~Clash(from, own)
      <3>1. \A g, h \in Files : Collide(g, h) =>
              (g = "plain" /\ h = "nested") \/ (g = "nested" /\ h = "plain")
        BY DEF Collide
      <3>2. CASE f = "plain"
        <4> SUFFICES ASSUME NEW g \in Files, NEW h \in Files, Collide(g, h),
                            from[g] # NoFile, own[h] # NoFile
                     PROVE  FALSE
          BY DEF Clash
        <4> QED
          BY <2>8, <3>1, <3>2
      <3>3. CASE f # "plain"
        BY <2>1, <1>6, <3>3
      <3> QED
        BY <3>2, <3>3
    <2>10. subfolder'[Session(r)] <=> subfolder[Session(r)] \/ f = "nested"
      BY <1>1, <1>3 DEF TypeOK
    <2>11. subfolder'[Session(r)] <=>
             own["nested"] # NoFile \/ ("plain" \notin todo'[r] /\ from["nested"] # NoFile)
      BY <2>1, <2>8, <2>10, <1>1, <1>6
    <2>3. Session(r)' = Session(r) /\ folder[Session(r)] \in [Files -> Contents]
      BY <1>2, <1>3 DEF TypeOK, Session
    <2>4. folder'[job[r].from] = folder[job[r].from]
      BY <2>1, <1>3, <1>6
    <2>5. \A g \in Files : g # f => folder'[Session(r)][g] = folder[Session(r)][g]
      BY <2>3, <1>6
    <2>6. folder'[Session(r)][f] = Empty
      BY <2>3, <1>4, <1>6
    <2>12. folder[job[r].from][f] = from[f] /\ from[f] # NoFile
      BY <2>1, <1>1
    <2> HIDE DEF from, own
    <2>13. from = expected[job[r].from] /\ own = expected[Session(r)]
      BY DEF from, own
    <2> QED
      BY <2>1, <2>2, <2>3, <2>4, <2>5, <2>6, <2>7, <2>9, <2>11, <2>12, <2>13, <1>2, <1>4, <1>6,
         SMTT(30)
      DEF MirrorProgress
  <1> QED
    BY <1>2, <1>3, <1>5, <1>6, <1>7, <1>8, <1>9, StepKeeps

LEMMA CopyKeeps ==
  ASSUME IInv, NEW r \in Requests, Copy(r)
  PROVE  IInv'
  <1>1. PICK content \in {folder[job[r].from][handle[r].file], handle[r].read} :
          Puts(r, content)
    BY DEF Copy
  <1>2. /\ at[r] = "copyingFile" /\ at' = [at EXCEPT ![r] = "copying"]
        /\ UNCHANGED <<subfolder, job, todo, rest, reply, alone, expected>>
    BY DEF Copy, Goes
  <1>3. /\ r \in Active /\ Session(r) \in Sessions /\ job[r].kind = "mirror"
        /\ job[r].from \in Sessions /\ reply[r] = "none" /\ Progress(r) /\ TypeOK /\ JobFits(r)
        /\ handle[r].file \in Files
    BY <1>2, MirrorFacts DEF Mirroring, JobFits
  <1>4. content \in Contents
    <2>1. folder[job[r].from][handle[r].file] \in Contents
      <3>1. folder[job[r].from] \in [Files -> Contents]
        BY <1>3 DEF TypeOK
      <3> QED
        BY <3>1, <1>3
    <2>2. handle[r] \in Handle
      BY <1>3 DEF TypeOK
    <2> QED
      BY <2>1, <2>2 DEF Handle
  <1>5. /\ folder' \in [Sessions -> [Files -> Contents]]
        /\ \A s \in Sessions : s # Session(r) => folder'[s] = folder[s]
        /\ handle' = [handle EXCEPT ![r] = NoHandle]
        /\ handle[r].attached /\ folder[Session(r)][handle[r].file] = Empty =>
             folder'[Session(r)] = [folder[Session(r)] EXCEPT ![handle[r].file] = content]
    BY <1>1, <1>3, <1>4, PutsEffect
  <1>6. TypeOK'
    <2>1. NoHandle \in Handle
      BY DEF NoHandle, Contents, Handle
    <2> QED
      BY <2>1, <1>2, <1>3, <1>5 DEF TypeOK
  <1>7. /\ at'[r] = "copying"
        /\ \A q \in Requests : q # r => at'[q] = at[q] /\ handle'[q] = handle[q]
    BY <1>2, <1>3, <1>5 DEF TypeOK
  <1>8. StepOf(r)
    BY <1>2, <1>3, <1>5, <1>7 DEF StepOf, TypeOK
  <1>9. JobFits(r)'
    BY <1>2, <1>3, <1>7 DEF JobFits, Session, Uploading, Mirroring, Launching
  <1>10. Progress(r)'
    <2> SUFFICES ASSUME alone[r]
                 PROVE  MirrorProgress(r)'
      BY <1>2, <1>7 DEF Progress, UploadProgress, LaunchProgress, Launching
    <2>1. /\ job[r].from # Session(r) /\ expected[job[r].from] # Unknown
          /\ folder[job[r].from] = expected[job[r].from]
          /\ handle[r].attached /\ handle[r].file \notin todo[r]
          /\ expected[job[r].from][handle[r].file] # NoFile
          /\ handle[r].read = expected[job[r].from][handle[r].file]
          /\ folder[Session(r)][handle[r].file] = Empty
          /\ \A g \in Files : g # handle[r].file =>
                 folder[Session(r)][g] = IF g \in todo[r] THEN expected[Session(r)][g]
                                         ELSE Copied(job[r])[g]
      BY <1>2, <1>3 DEF Progress, MirrorProgress, Mirroring
    <2>2. /\ \A g \in Files : Copied(job[r])'[g] = Copied(job[r])[g]
          /\ Copied(job[r])[handle[r].file] = expected[job[r].from][handle[r].file]
      BY <2>1, <1>2, <1>3 DEF Copied
    <2>3. Session(r)' = Session(r) /\ folder[Session(r)] \in [Files -> Contents]
      BY <1>2, <1>3 DEF TypeOK, Session
    <2>4. folder'[job[r].from] = folder[job[r].from]
      BY <2>1, <1>3, <1>5
    <2>5. content = expected[job[r].from][handle[r].file]
      BY <2>1
    <2>6. folder'[Session(r)] = [folder[Session(r)] EXCEPT ![handle[r].file] = content]
      BY <2>1, <1>5
    <2>7. /\ \A g \in Files : g # handle[r].file =>
               folder'[Session(r)][g] = folder[Session(r)][g]
          /\ folder'[Session(r)][handle[r].file] = Copied(job[r])[handle[r].file]
      <3>1. PICK f \in Files : f = handle[r].file
        BY <1>3
      <3>2. folder'[Session(r)] = [folder[Session(r)] EXCEPT ![f] = content]
        BY <2>6, <3>1
      <3>3. \A g \in Files : folder'[Session(r)][g]
                               = IF g = f THEN content ELSE folder[Session(r)][g]
        BY <2>3, <3>2
      <3> QED
        BY <2>2, <2>5, <3>1, <3>3
    <2>8. \A g \in Files :
              folder'[Session(r)][g] = IF g \in todo[r] THEN expected[Session(r)][g]
                                       ELSE Copied(job[r])[g]
      BY <2>1, <2>7
    <2>9. /\ at'[r] = "copying" /\ job'[r] = job[r] /\ todo'[r] = todo[r]
          /\ expected' = expected /\ subfolder' = subfolder
      BY <1>2, <1>7
    <2> DEFINE from == expected[job[r].from]
               own == expected[Session(r)]
               Stays == /\ job[r].from # Session(r) /\ from # Unknown /\ own # Unknown
                        /\ Tidy(job[r].from, from)
                        /\ own["nested"] # NoFile => own["plain"] = NoFile
                        /\ \A f \in todo[r] :
                             from[f] # NoFile \/ (f = "plain" /\ from["nested"] # NoFile)
                        /\ "plain" \notin todo[r] => ~Clash(from, own)
                        /\ subfolder[Session(r)] <=>
                             \/ own["nested"] # NoFile
                             \/ "plain" \notin todo[r] /\ from["nested"] # NoFile
    <2>10. Stays
      BY <1>2, <1>3 DEF Progress, MirrorProgress, Mirroring
    <2>11. Stays'
      BY <2>3, <2>9, <2>10, <1>2 DEF Tidy, Clash
    <2> QED
      BY <2>1, <2>2, <2>3, <2>4, <2>8, <2>9, <2>11, SMTT(30) DEF MirrorProgress
  <1> QED
    BY <1>2, <1>3, <1>6, <1>7, <1>8, <1>9, <1>10, StepKeeps

\* A mirror that is alone finds the files it has listed, and its folder; only a
\* clash of the two folders makes it fail.
LEMMA MirrorFailsInClash ==
  ASSUME IInv, NEW r \in Requests, OpenBothFails(r), alone[r]
  PROVE  Clash(expected[job[r].from], expected[Session(r)])
  <1> DEFINE from == expected[job[r].from]
             own == expected[Session(r)]
  <1>1. /\ at[r] = "copying" /\ r \in Active /\ Session(r) \in Sessions
        /\ job[r].from \in Sessions /\ Progress(r) /\ job[r].kind = "mirror" /\ TypeOK
    BY MirrorFacts DEF OpenBothFails, Ends, Goes, Mirroring
  <1>2. /\ folder[job[r].from] = from /\ Tidy(job[r].from, from)
        /\ own["nested"] # NoFile => own["plain"] = NoFile
        /\ \A f \in todo[r] : from[f] # NoFile \/ (f = "plain" /\ from["nested"] # NoFile)
        /\ subfolder[Session(r)] <=>
             own["nested"] # NoFile \/ ("plain" \notin todo[r] /\ from["nested"] # NoFile)
        /\ \A f \in Files :
             folder[Session(r)][f] = IF f \in todo[r] THEN own[f] ELSE Copied(job[r])[f]
    BY <1>1 DEF Progress, MirrorProgress, Mirroring
  <1>3. todo[r] \subseteq Files /\ "plain" \in Files /\ "nested" \in Files
    BY <1>1 DEF TypeOK, Files
  <1>4. \A f \in todo[r] : f \in Listed(job[r].from)
    BY <1>2, <1>3 DEF Listed, Present, Tidy
  <1>5. from["nested"] # NoFile => folder[Session(r)]["plain"] = own["plain"]
    <2>1. from["nested"] # NoFile => from["plain"] = NoFile
      BY <1>2 DEF Tidy
    <2>2. from["plain"] = NoFile => Copied(job[r])["plain"] = own["plain"]
      BY <1>3 DEF Copied, Session
    <2> QED
      BY <2>1, <2>2, <1>2, <1>3
  <1>6. from["nested"] # NoFile /\ own["plain"] # NoFile => Clash(from, own)
    BY <1>3 DEF Clash, Collide
  <1>7. from["plain"] # NoFile /\ own["nested"] # NoFile => Clash(from, own)
    BY <1>3 DEF Clash, Collide
  <1>8. CASE \E f \in todo[r] : InTheWay(Session(r), f)
    <2>1. "nested" \in todo[r] /\ folder[Session(r)]["plain"] # NoFile
      BY <1>8 DEF InTheWay
    <2> QED
      BY <2>1, <1>2, <1>5, <1>6
  <1>9. CASE "plain" \in todo[r] /\ subfolder[job[r].from] /\ folder[Session(r)]["plain"] # NoFile
    BY <1>9, <1>2, <1>5, <1>6 DEF Tidy
  <1>10. CASE "plain" \in todo[r] /\ ~subfolder[job[r].from] /\ subfolder[Session(r)]
    BY <1>10, <1>2, <1>7 DEF Tidy
  <1>11. ASSUME NEW q \in Active, at[q] = "clearing", Session(q) = Session(r)
         PROVE  FALSE
    <2>1. q \in Requests /\ q # r
      BY <1>1, <1>11 DEF Active
    <2>2. job[q].kind = "upload"
      BY <2>1, <1>11, UploadFacts DEF Uploading
    <2>3. Session(r) \in Writes(job[q]) /\ Session(r) \in Uses(job[r])
      BY <2>2, <1>1, <1>11, SessionsAssumption DEF Writes, Uses, Session
    <2> QED
      BY <2>1, <2>3, <1>1 DEF IInv, AloneIsAlone
  <1> QED
    BY <1>4, <1>8, <1>9, <1>10, <1>11 DEF OpenBothFails

LEMMA OpenBothFailsKeeps ==
  ASSUME IInv, NEW r \in Requests, OpenBothFails(r)
  PROVE  IInv'
  <1>1. /\ at[r] = "copying" /\ Ends(r, "copying", "error")
        /\ at' = [at EXCEPT ![r] = "done"] /\ reply' = [reply EXCEPT ![r] = "error"]
        /\ UNCHANGED <<folder, subfolder, job, todo, rest, handle, alone>>
    BY DEF OpenBothFails, Ends, Goes, fsVars
  <1>2. /\ r \in Active /\ Session(r) \in Sessions /\ job[r].kind = "mirror"
        /\ job[r].from \in Sessions /\ Progress(r) /\ TypeOK /\ JobFits(r)
    BY <1>1, MirrorFacts DEF Mirroring
  <1>4. TypeOK'
    BY <1>1, <1>2, EndsTypes DEF TypeOK, Mirroring
  <1>5. at'[r] = "done" /\ reply'[r] = "error"
        /\ \A q \in Requests : q # r => at'[q] = at[q] /\ reply'[q] = reply[q]
    BY <1>1, <1>2 DEF TypeOK
  <1>6. expected' = [expected EXCEPT ![Session(r)] = Unknown]
    BY <1>1, <1>2 DEF Ends, Expectation
  <1>7. StepOf(r)
    BY <1>1, <1>2, <1>5, <1>6 DEF StepOf, TypeOK
  <1>8. JobFits(r)'
    BY <1>1, <1>5 DEF JobFits, Session, Uploading, Mirroring, Launching
  <1>9. Progress(r)'
    BY <1>5 DEF Progress, UploadProgress, MirrorProgress, LaunchProgress, Mirroring, Launching
  <1>10. expected'[Session(r)] = Unknown
    BY <1>2, <1>6 DEF TypeOK
  <1> QED
    BY <1>2, <1>4, <1>5, <1>7, <1>8, <1>9, <1>10, StepKeeps

LEMMA MirroredKeeps ==
  ASSUME IInv, NEW r \in Requests, Mirrored(r)
  PROVE  IInv'
  <1>1. /\ at[r] = "copying" /\ Ends(r, "copying", "ok") /\ todo[r] = {}
        /\ at' = [at EXCEPT ![r] = "done"] /\ reply' = [reply EXCEPT ![r] = "ok"]
        /\ UNCHANGED <<folder, subfolder, job, todo, rest, handle, alone>>
    BY DEF Mirrored, Ends, Goes, fsVars
  <1>2. /\ r \in Active /\ Session(r) \in Sessions /\ job[r].kind = "mirror"
        /\ job[r].from \in Sessions /\ Progress(r) /\ TypeOK /\ JobFits(r) /\ job[r] \in Job
    BY <1>1, MirrorFacts DEF Mirroring
  <1>3. TypeOK'
    BY <1>1, <1>2, EndsTypes DEF TypeOK, Mirroring
  <1>4. at'[r] = "done" /\ reply'[r] = "ok"
        /\ \A q \in Requests : q # r => at'[q] = at[q] /\ reply'[q] = reply[q]
    BY <1>1, <1>2 DEF TypeOK
  <1>5. expected' = [expected EXCEPT ![Session(r)] = Expectation(r, "ok")]
    BY <1>1, <1>2 DEF Ends
  <1>6. StepOf(r)
    BY <1>1, <1>2, <1>4, <1>5 DEF StepOf, TypeOK
  <1>7. JobFits(r)'
    BY <1>1, <1>4 DEF JobFits, Session, Uploading, Mirroring, Launching
  <1>8. Progress(r)'
    BY <1>4 DEF Progress, UploadProgress, MirrorProgress, LaunchProgress, Mirroring, Launching
  <1>9. ASSUME alone[r]
        PROVE  folder[Session(r)] = Copied(job[r]) /\ Tidy(Session(r), Copied(job[r]))
    <2>1. LET from == expected[job[r].from]  own == expected[Session(r)] IN
          /\ from # Unknown /\ own # Unknown /\ Tidy(job[r].from, from) /\ ~Clash(from, own)
          /\ own["nested"] # NoFile => own["plain"] = NoFile
          /\ subfolder[Session(r)] <=> own["nested"] # NoFile \/ from["nested"] # NoFile
          /\ \A f \in Files : folder[Session(r)][f] = Copied(job[r])[f]
      BY <1>1, <1>2, <1>9 DEF Progress, MirrorProgress, Mirroring
    <2>3. Tidy(Session(r), Copied(job[r]))
      <3>1. "plain" \in Files /\ "nested" \in Files
        BY DEF Files
      <3>2. \A f \in Files :
              Copied(job[r])[f] = IF expected[job[r].from][f] = NoFile THEN expected[Session(r)][f]
                                  ELSE expected[job[r].from][f]
        BY DEF Copied, Session
      <3>3. Collide("plain", "nested") /\ Collide("nested", "plain")
        BY DEF Collide
      <3>4. \A f, g \in Files :
              Collide(f, g) => expected[job[r].from][f] = NoFile \/ expected[Session(r)][g] = NoFile
        BY <2>1 DEF Clash
      <3> QED
        BY <2>1, <3>1, <3>2, <3>3, <3>4 DEF Tidy
    <2>2. Copied(job[r]) \in [Files -> Contents] /\ folder[Session(r)] \in [Files -> Contents]
      BY <2>1, <1>2, AccountTypes DEF Session, TypeOK
    <2> QED
      BY <2>1, <2>2, <2>3
  <1>10. expected'[Session(r)] = Expectation(r, "ok") /\ Session(r)' = Session(r)
    BY <1>1, <1>2, <1>5 DEF TypeOK, Session
  <1>11. expected'[Session(r)] # Unknown => alone[r] /\ expected'[Session(r)] = Copied(job[r])
    BY <1>2, <1>10 DEF Expectation
  <1>12. expected'[Session(r)] # Unknown =>
           folder'[Session(r)] = expected'[Session(r)] /\ Tidy(Session(r), expected[Session(r)])'
    BY <1>1, <1>9, <1>10, <1>11 DEF Tidy
  <1> QED
    BY <1>4, <1>3, <1>6, <1>7, <1>8, <1>12, StepKeeps

-----------------------------------------------------------------------------
(* The steps of a launch.                                                  *)

\* What every step of a launch starts from.
LEMMA LaunchFacts ==
  ASSUME IInv, NEW r \in Requests, at[r] \in Launching
  PROVE  /\ r \in Active /\ Session(r) \in Sessions /\ job[r].kind = "launch"
         /\ job[r].from = NoSession /\ reply[r] = "none" /\ rest[r] \in Seq(Place)
         /\ Progress(r) /\ TypeOK /\ JobFits(r)
  BY DEF IInv, JobFits, Launching, TypeOK, Active

LEMMA MissKeeps ==
  ASSUME IInv, NEW r \in Requests, Miss(r)
  PROVE  IInv'
  <1>1. /\ at[r] = "finding" /\ rest[r] # <<>> /\ At(Head(rest[r])) = NoFile
        /\ rest' = [rest EXCEPT ![r] = Tail(@)]
        /\ UNCHANGED <<folder, subfolder, at, job, todo, handle, reply, alone, expected>>
    BY DEF Miss, fsVars
  <1>2. /\ r \in Active /\ Session(r) \in Sessions /\ job[r].kind = "launch" /\ reply[r] = "none"
        /\ Progress(r) /\ TypeOK /\ JobFits(r) /\ rest[r] \in Seq(Place)
    BY <1>1, LaunchFacts DEF Launching
  <1>3. Tail(rest[r]) \in Seq(Place)
    BY <1>1, <1>2
  <1>4. TypeOK'
    BY <1>1, <1>2, <1>3 DEF TypeOK
  <1>5. rest'[r] = Tail(rest[r]) /\ \A q \in Requests : q # r => rest'[q] = rest[q]
    BY <1>1, <1>2 DEF TypeOK
  <1>6. StepOf(r)
    BY <1>1, <1>2, <1>5 DEF StepOf, TypeOK
  <1>7. JobFits(r)'
    BY <1>1, <1>2, <1>3, <1>5 DEF JobFits, Session, Uploading, Mirroring, Launching
  <1>8. Progress(r)'
    <2> SUFFICES ASSUME alone[r]
                 PROVE  LaunchProgress(r)'
      BY <1>1 DEF Progress, UploadProgress, MirrorProgress, Mirroring
    <2>1. PICK n \in 0..4 : HasLookedAt(r, n)
      BY <1>1, <1>2 DEF Progress, LaunchProgress, Launching
    <2>2. /\ Len(rest[r]) = 4 - n /\ Len(rest[r]) # 0
          /\ \A i \in 1..(4 - n) : rest[r][i] = Places(Session(r))[n + i]
          /\ \A i \in 1..n : At(Places(Session(r))[i]) = NoFile
      BY <2>1, <1>1, <1>2 DEF HasLookedAt
    <2>3. n + 1 \in 0..4 /\ n \in 0..3
      BY <2>2
    <2>4. Head(rest[r]) = Places(Session(r))[n + 1]
      BY <2>2, <2>3, <1>1, <1>2
    <2>5. /\ Len(Tail(rest[r])) = 4 - (n + 1)
          /\ \A i \in 1..(4 - (n + 1)) : Tail(rest[r])[i] = rest[r][i + 1] /\ i + 1 \in 1..(4 - n)
      BY <2>2, <2>3, <1>1, <1>2
    <2>6. \A i \in 1..(4 - (n + 1)) : Tail(rest[r])[i] = Places(Session(r))[(n + 1) + i]
      <3>1. \A i \in 1..(4 - (n + 1)) : n + (i + 1) = (n + 1) + i
        BY <2>3
      <3> QED
        BY <2>2, <2>5, <3>1
    <2>7. \A i \in 1..(n + 1) : At(Places(Session(r))[i]) = NoFile
      <3>1. \A i \in 1..(n + 1) : i \in 1..n \/ i = n + 1
        BY <2>3
      <3> QED
        BY <2>2, <2>4, <3>1, <1>1
    <2>8. Session(r)' = Session(r) /\ \A place : At(place)' = At(place)
      BY <1>1 DEF Session, At
    <2>9. HasLookedAt(r, n + 1)'
      <3>1. /\ rest'[r] = Tail(rest[r]) /\ at'[r] # "loading"
            /\ Places(Session(r))' = Places(Session(r))
        BY <2>8, <1>1, <1>5
      <3>2. \A i \in 1..(n + 1) : At(Places(Session(r))[i])' = NoFile
        BY <2>7, <2>8, <3>1
      <3> QED
        BY <2>3, <2>5, <2>6, <3>1, <3>2 DEF HasLookedAt
    <2> QED
      BY <2>3, <2>9 DEF LaunchProgress
  <1> QED
    BY <1>1, <1>2, <1>4, <1>6, <1>7, <1>8, StepKeeps

LEMMA FindKeeps ==
  ASSUME IInv, NEW r \in Requests, Find(r)
  PROVE  IInv'
  <1>1. /\ at[r] = "finding" /\ at' = [at EXCEPT ![r] = "loading"]
        /\ rest[r] # <<>> => At(Head(rest[r])) # NoFile
        /\ UNCHANGED <<folder, subfolder, job, todo, rest, handle, reply, alone, expected>>
    BY DEF Find, Goes, fsVars
  <1>2. /\ r \in Active /\ Session(r) \in Sessions /\ job[r].kind = "launch" /\ reply[r] = "none"
        /\ Progress(r) /\ TypeOK /\ JobFits(r) /\ rest[r] \in Seq(Place)
    BY <1>1, LaunchFacts DEF Launching
  <1>3. TypeOK'
    BY <1>1, <1>2 DEF TypeOK
  <1>4. at'[r] = "loading" /\ \A q \in Requests : q # r => at'[q] = at[q]
    BY <1>1, <1>2 DEF TypeOK
  <1>5. StepOf(r)
    BY <1>1, <1>2, <1>4 DEF StepOf, TypeOK
  <1>6. JobFits(r)'
    BY <1>1, <1>2, <1>4 DEF JobFits, Session, Uploading, Mirroring, Launching
  <1>7. Progress(r)'
    <2> SUFFICES ASSUME alone[r]
                 PROVE  LaunchProgress(r)'
      BY <1>1, <1>4 DEF Progress, UploadProgress, MirrorProgress, Mirroring
    <2>1. PICK n \in 0..4 : HasLookedAt(r, n)
      BY <1>1, <1>2 DEF Progress, LaunchProgress, Launching
    <2>2. n # 4 => rest[r] # <<>> /\ Head(rest[r]) = Places(Session(r))[n + 1]
      BY <2>1, <1>2 DEF HasLookedAt
    <2>3. Session(r)' = Session(r) /\ \A place : At(place)' = At(place)
      BY <1>1 DEF Session, At
    <2>4. HasLookedAt(r, n)'
      BY <2>1, <2>2, <2>3, <1>1 DEF HasLookedAt
    <2> QED
      BY <2>4 DEF LaunchProgress
  <1> QED
    BY <1>1, <1>2, <1>3, <1>4, <1>5, <1>6, <1>7, StepKeeps

LEMMA LoadFileKeeps ==
  ASSUME IInv, NEW r \in Requests, LoadFile(r)
  PROVE  IInv' /\ reply'[r] \notin {"bad request", "error"}
  <1>1. PICK answer :
          /\ answer = IF rest[r] = <<>> THEN Demo
                      ELSE IF At(Head(rest[r])) = NoFile THEN Lost ELSE At(Head(rest[r]))
          /\ Ends(r, "loading", answer)
    BY DEF LoadFile
  <1>2. /\ at[r] = "loading" /\ at' = [at EXCEPT ![r] = "done"]
        /\ reply' = [reply EXCEPT ![r] = answer]
        /\ rest' = [rest EXCEPT ![r] = <<>>]
        /\ UNCHANGED <<folder, subfolder, job, todo, handle, alone>>
    BY <1>1 DEF LoadFile, Ends, Goes, fsVars
  <1>3. /\ r \in Active /\ Session(r) \in Sessions /\ job[r].kind = "launch"
        /\ Progress(r) /\ TypeOK /\ JobFits(r) /\ rest[r] \in Seq(Place)
    BY <1>2, LaunchFacts DEF Launching
  <1>4. answer \in Contents \cup {Demo, Lost}
    <2>1. rest[r] # <<>> => Head(rest[r]) \in Place
      BY <1>3
    <2>2. \A place \in Place : At(place) \in Contents
      <3>1. \A s \in Sessions : folder[s] \in [Files -> Contents]
        BY <1>3 DEF TypeOK
      <3>2. \A place \in Place : place.in \in Sessions /\ place.file \in Files
        BY DEF Place
      <3> QED
        BY <3>1, <3>2 DEF At
    <2> QED
      BY <1>1, <2>1, <2>2
  <1>5. expected' = expected
    BY <1>1, <1>3 DEF Ends
  <1>6. TypeOK'
    <2>1. <<>> \in Seq(Entry) \cup Seq(Place)
      OBVIOUS
    <2>2. /\ at' \in [Requests -> {"idle", "clearing", "entry", "opening", "writing", "copying",
                                  "copyingFile", "finding", "loading", "done"}]
          /\ reply' \in [Requests -> Contents \cup {"none", "ok", "bad request", "error", Demo, Lost}]
      BY <1>2, <1>3, <1>4 DEF TypeOK
    <2> QED
      BY <2>1, <2>2, <1>2, <1>3, <1>5 DEF TypeOK
  <1>7. /\ at'[r] = "done" /\ reply'[r] = answer
        /\ \A q \in Requests : q # r => at'[q] = at[q] /\ rest'[q] = rest[q]
                                        /\ reply'[q] = reply[q]
    BY <1>2, <1>3 DEF TypeOK
  <1>8. StepOf(r)
    BY <1>2, <1>3, <1>5, <1>7 DEF StepOf, TypeOK
  <1>9. JobFits(r)'
    BY <1>2, <1>7 DEF JobFits, Session, Uploading, Mirroring, Launching
  <1>10. Progress(r)'
    BY <1>7 DEF Progress, UploadProgress, MirrorProgress, LaunchProgress, Mirroring, Launching
  <1>11. answer \notin {"bad request", "error"}
    BY <1>4, RequestsAssumption DEF Contents, NoFile, Empty, Mixed, Demo, Lost
  <1> QED
    BY <1>3, <1>6, <1>7, <1>8, <1>9, <1>10, <1>11, StepKeeps

-----------------------------------------------------------------------------
(* Refusals before a request begins.                                       *)

LEMMA NoJobIsJob == NoJob \in Job /\ NoJob.session = NoSession
  <1>1. NoJob \in Job
    BY DEF NoJob, Job
  <1>2. NoJob.session = NoSession
    BY DEF NoJob
  <1> QED
    BY <1>1, <1>2

LEMMA RefuseKeeps ==
  ASSUME IInv, NEW r \in Requests, Refuse(r)
  PROVE  /\ IInv' /\ job'[r].session = NoSession
         /\ \A q \in Requests : q # r => reply'[q] = reply[q]
  <1>1. PICK kind \in {"upload", "mirror"}, answer \in {"bad request", "error"} :
          /\ job' = [job EXCEPT ![r] = [NoJob EXCEPT !.kind = kind]]
          /\ reply' = [reply EXCEPT ![r] = answer]
    BY DEF Refuse
  <1>2. /\ at[r] = "idle" /\ at' = [at EXCEPT ![r] = "done"]
        /\ UNCHANGED <<folder, subfolder, todo, rest, handle, alone, expected>>
    BY DEF Refuse, Goes, fsVars
  <1> DEFINE j == [NoJob EXCEPT !.kind = kind]
  <1>3. j \in Job /\ j.session = NoSession
    <2>1. \A x \in Job : LET y == [x EXCEPT !.kind = kind] IN y \in Job /\ y.session = x.session
      BY DEF Job
    <2> QED
      BY <2>1, NoJobIsJob
  <1> HIDE DEF j
  <1>4. TypeOK'
    BY <1>1, <1>2, <1>3 DEF IInv, TypeOK, j
  <1>5. /\ at'[r] = "done" /\ job'[r] = j /\ reply'[r] = answer
        /\ \A q \in Requests : q # r => at'[q] = at[q] /\ job'[q] = job[q] /\ reply'[q] = reply[q]
    BY <1>1, <1>2 DEF IInv, TypeOK, j
  <1>6. Active' = Active /\ r \notin Active
    BY <1>2, <1>5 DEF Active
  <1>7. ASSUME NEW q \in Requests
        PROVE  JobFits(q)' /\ Progress(q)'
    <2>1. CASE q = r
      BY <2>1, <1>5 DEF JobFits, Progress, UploadProgress, MirrorProgress, LaunchProgress,
                        Uploading, Mirroring, Launching
    <2>2. CASE q # r
      <3>1. /\ Session(q)' = Session(q) /\ at'[q] = at[q] /\ job'[q] = job[q]
            /\ reply'[q] = reply[q]
        BY <2>2, <1>5 DEF Session
      <3>2. JobFits(q)'
        BY <3>1, <1>2 DEF IInv, JobFits
      <3>3. UploadProgress(q) => UploadProgress(q)'
        BY <3>1, <1>2 DEF UploadProgress, Holds, Present, Listed, SubfolderFits
      <3>4. MirrorProgress(q) => MirrorProgress(q)'
        BY <3>1, <1>2, MirrorStays
      <3>5. LaunchProgress(q) => LaunchProgress(q)'
        <4>1. \A place : At(place)' = At(place)
          BY <1>2 DEF At
        <4>2. \A n \in 0..4 : HasLookedAt(q, n) => HasLookedAt(q, n)'
          BY <4>1, <3>1, <1>2 DEF HasLookedAt
        <4> QED
          BY <4>2, <3>1 DEF LaunchProgress
      <3>6. Progress(q)'
        BY <3>3, <3>4, <3>5, <1>2 DEF IInv, Progress
      <3> QED
        BY <3>2, <3>6
    <2> QED
      BY <2>1, <2>2
  <1>8. \A q \in Active : q \in Requests /\ job'[q] = job[q]
    BY <1>5, <1>6 DEF Active
  <1>9. AloneIsAlone'
    <2>1. \A o \in Active : Writes(job'[o]) = Writes(job[o]) /\ Uses(job'[o]) = Uses(job[o])
      BY <1>8
    <2> QED
      BY <1>2, <1>6, <2>1 DEF IInv, AloneIsAlone
  <1>10. FoldersAreKnown'
    BY <1>2, <1>6, <1>8 DEF IInv, FoldersAreKnown, Writes, Tidy
  <1> QED
    BY <1>3, <1>4, <1>5, <1>7, <1>9, <1>10 DEF IInv

-----------------------------------------------------------------------------
(* The theorems.                                                           *)

LEMMA InitIInv == Init => IInv
  <1> SUFFICES ASSUME Init
               PROVE  IInv
    OBVIOUS
  <1>1. TypeOK
    <2>1. NoHandle \in Handle
      BY DEF NoHandle, Contents, Handle
    <2>2. NoJob \in Job
      BY NoJobIsJob
    <2>3. Nothing \in [Files -> Contents]
      BY DEF Nothing, Contents
    <2> QED
      BY <2>1, <2>2, <2>3 DEF Init, TypeOK
  <1>2. \A r \in Requests : at[r] = "idle" /\ reply[r] = "none"
    BY DEF Init
  <1>3. Active = {}
    BY <1>2 DEF Active
  <1>4. \A r \in Requests : JobFits(r) /\ Progress(r)
    BY <1>2 DEF JobFits, Progress, UploadProgress, MirrorProgress, LaunchProgress,
                Uploading, Mirroring, Launching
  <1>5. FoldersAreKnown
    BY DEF Init, FoldersAreKnown, Tidy, Nothing, Files
  <1> QED
    BY <1>1, <1>3, <1>4, <1>5 DEF IInv, AloneIsAlone

LEMMA NextIInv == IInv /\ [Next]_vars => IInv'
  <1> SUFFICES ASSUME IInv, [Next]_vars
               PROVE  IInv'
    OBVIOUS
  <1>1. ASSUME NEW r \in Requests, Upload(r)
        PROVE  IInv'
    <2>1. CASE Start(r)
      BY <2>1, StartKeeps
    <2>2. CASE Unlink(r)
      BY <2>2, UnlinkKeeps
    <2>3. CASE MeetSubfolder(r) \/ RemoveSubfolder(r)
      BY <2>3, MeetSubfolderKeeps, RemoveSubfolderKeeps
    <2>4. CASE BadEntry(r)
      <3>1. PICK answer \in {"bad request", "error"} : Ends(r, "entry", answer)
        BY <2>4 DEF BadEntry
      <3>2. alone[r] =>
              /\ rest[r] # <<>> => Blocked(job[r].entries, rest[r])
              /\ at[r] = "opening" => Head(rest[r]).file # "nested"
        BY <2>4, FailsBlocked
      <3> QED
        BY <2>4, <3>1, <3>2, UploadEndKeeps DEF BadEntry, fsVars
    <2>5. CASE MakeParent(r)
      BY <2>5, MakeParentKeeps
    <2>6. CASE Open(r)
      BY <2>6, OpenKeeps
    <2>7. CASE MakeParentFails(r) \/ OpenFails(r)
      <3>1. alone[r] =>
              /\ rest[r] # <<>> => Blocked(job[r].entries, rest[r])
              /\ at[r] = "opening" => Head(rest[r]).file # "nested"
        BY <2>7, FailsBlocked
      <3> QED
        BY <2>7, <3>1, UploadEndKeeps DEF MakeParentFails, OpenFails, fsVars
    <2>10. CASE ClearFails(r)
      BY <2>10, ClearFailsKeeps
    <2>8. CASE Write(r)
      BY <2>8, WriteKeeps
    <2>9. CASE Uploaded(r)
      <3>1. at[r] = "entry"
        BY <2>9 DEF Uploaded, Ends, Goes
      <3> QED
        BY <2>9, <3>1, UploadEndKeeps DEF Uploaded, fsVars
    <2> QED
      BY <1>1, <2>1, <2>2, <2>3, <2>4, <2>5, <2>6, <2>7, <2>8, <2>9, <2>10 DEF Upload
  <1>2. ASSUME NEW r \in Requests, Mirror(r)
        PROVE  IInv'
    BY <1>2, StartMirrorKeeps, CopySubfolderKeeps, OpenBothKeeps, OpenBothFailsKeeps, CopyKeeps, MirroredKeeps
    DEF Mirror
  <1>3. ASSUME NEW r \in Requests, Launch(r)
        PROVE  IInv'
    BY <1>3, StartLaunchKeeps, MissKeeps, FindKeeps, LoadFileKeeps DEF Launch
  <1>5. ASSUME NEW r \in Requests, Refuse(r)
        PROVE  IInv'
    BY <1>5, RefuseKeeps
  <1>4. CASE UNCHANGED vars
    <2>1. UNCHANGED <<folder, subfolder, at, job, todo, rest, handle, reply, alone, expected>>
      BY <1>4 DEF vars, fsVars
    <2>2. TypeOK'
      BY <2>1 DEF IInv, TypeOK
    <2>3. Active' = Active /\ \A r \in Requests : Session(r)' = Session(r)
      BY <2>1 DEF Active, Session
    <2>4. \A r \in Requests : JobFits(r)'
      BY <2>1, <2>3 DEF IInv, JobFits
    <2>5. \A r \in Requests : UploadProgress(r) => UploadProgress(r)'
      BY <2>1, <2>3 DEF UploadProgress, Present, Listed, Holds, SubfolderFits
    <2>6. \A r \in Requests : MirrorProgress(r) => MirrorProgress(r)'
      BY <2>1, MirrorStays
    <2>7. \A r \in Requests : LaunchProgress(r) => LaunchProgress(r)'
      <3>1. \A place : At(place)' = At(place)
        BY <2>1 DEF At
      <3>2. \A r \in Requests, n \in 0..4 : HasLookedAt(r, n) => HasLookedAt(r, n)'
        BY <2>1, <2>3, <3>1 DEF HasLookedAt
      <3> QED
        BY <2>1, <3>2 DEF LaunchProgress
    <2>8. \A r \in Requests : Progress(r)'
      BY <2>1, <2>5, <2>6, <2>7 DEF IInv, Progress
    <2>9. AloneIsAlone'
      BY <2>1, <2>3 DEF IInv, AloneIsAlone, Writes, Uses
    <2>10. FoldersAreKnown'
      BY <2>1, <2>3 DEF IInv, FoldersAreKnown, Writes, Tidy
    <2> QED
      BY <2>2, <2>4, <2>8, <2>9, <2>10 DEF IInv
  <1> QED
    BY <1>1, <1>2, <1>3, <1>4, <1>5 DEF Next

\* The invariant holds for any requests, sessions and uploads.
THEOREM FolderInvariant == Spec => []IInv
  BY InitIInv, NextIInv, PTL DEF Spec

\* The state of the folders and of the requests keeps its types.
THEOREM FolderTypeCorrect == Spec => []TypeOK
  <1>1. IInv => TypeOK
    BY DEF IInv
  <1> QED
    BY <1>1, FolderInvariant, PTL

\* A folder to which nobody writes holds what its last request sent, if nobody
\* else wrote to the folders that one used (submit_files, prepare_data).
THEOREM FolderHoldsWhatWasSent == Spec => []FolderIsWhatWasSent
  <1>1. IInv => FolderIsWhatWasSent
    BY DEF IInv, FoldersAreKnown, FolderIsWhatWasSent
  <1> QED
    BY <1>1, FolderInvariant, PTL

\* Whose answer a step changes, and what a failing one had to fail for.
LEMMA RefusalStep ==
  ASSUME IInv, [Next]_vars, NEW q \in Requests,
         reply[q] = "none", reply'[q] \in {"bad request", "error"}, alone'[q]
  PROVE  LET j == job'[q] IN
         \/ j.session = NoSession
         \/ \E i \in 1..Len(j.entries) : Unwritable(j.entries, i)
         \/ j.kind = "mirror" /\ Clash(expected[j.from], expected[j.session])
  <1>1. TypeOK /\ reply \in [Requests -> Contents \cup {"none", "ok", "bad request", "error", Demo, Lost}]
    BY DEF IInv, TypeOK
  <1>2. ASSUME NEW r \in Requests, Refuse(r)
        PROVE  job'[q].session = NoSession
    BY <1>2, RefuseKeeps
  <1>3. ASSUME NEW r \in Requests, BadEntry(r) \/ MakeParentFails(r) \/ OpenFails(r)
        PROVE  \E i \in 1..Len(job'[q].entries) : Unwritable(job'[q].entries, i)
    <2>1. job' = job /\ alone' = alone /\ \A o \in Requests : o # r => reply'[o] = reply[o]
      BY <1>1, <1>3 DEF BadEntry, MakeParentFails, OpenFails, Ends
    <2>2. q = r
      BY <2>1
    <2>3. /\ rest[r] # <<>> /\ Blocked(job[r].entries, rest[r]) /\ at[r] \in {"entry", "opening"}
      BY <1>3, <2>1, <2>2, FailsBlocked
    <2> QED
      BY <2>1, <2>2, <2>3, UploadedIsSent
  <1>4. ASSUME NEW r \in Requests, ClearFails(r)
        PROVE  FALSE
    <2>1. alone' = alone /\ \A o \in Requests : o # r => reply'[o] = reply[o]
      BY <1>1, <1>4 DEF ClearFails, Ends
    <2> QED
      BY <2>1, <1>4, ClearFailsKeeps
  <1>5. ASSUME NEW r \in Requests, OpenBothFails(r)
        PROVE  job'[q].kind = "mirror" /\ Clash(expected[job'[q].from], expected[job'[q].session])
    <2>1. job' = job /\ alone' = alone /\ \A o \in Requests : o # r => reply'[o] = reply[o]
      BY <1>1, <1>5 DEF OpenBothFails, Ends
    <2>2. q = r /\ at[r] = "copying"
      BY <2>1, <1>5 DEF OpenBothFails
    <2>3. job[r].kind = "mirror"
      BY <2>2, MirrorFacts DEF Mirroring
    <2> QED
      BY <2>1, <2>2, <2>3, <1>5, MirrorFailsInClash DEF Session
  <1>6. ASSUME NEW r \in Requests, Uploaded(r) \/ Mirrored(r)
        PROVE  FALSE
    BY <1>1, <1>6 DEF Uploaded, Mirrored, Ends
  <1>7. ASSUME NEW r \in Requests, LoadFile(r)
        PROVE  FALSE
    <2>1. \A o \in Requests : o # r => reply'[o] = reply[o]
      BY <1>1, <1>7 DEF LoadFile, Ends
    <2> QED
      BY <2>1, <1>7, LoadFileKeeps
  <1>8. ASSUME NEW r \in Requests,
               \/ Start(r) \/ Unlink(r) \/ MeetSubfolder(r) \/ RemoveSubfolder(r) \/ MakeParent(r)
               \/ Open(r) \/ Write(r) \/ StartMirror(r) \/ CopySubfolder(r) \/ OpenBoth(r)
               \/ Copy(r) \/ StartLaunch(r) \/ Miss(r) \/ Find(r)
        PROVE  FALSE
    BY <1>8 DEF Start, Unlink, MeetSubfolder, RemoveSubfolder, MakeParent, Open, Write, StartMirror,
                CopySubfolder, OpenBoth, Copy, StartLaunch, Miss, Find
  <1>9. CASE UNCHANGED vars
    BY <1>9 DEF vars
  <1> QED
    BY <1>2, <1>3, <1>4, <1>5, <1>6, <1>7, <1>8, <1>9 DEF Next, Upload, Mirror, Launch

\* A request is refused for what is wrong with it, or because it overlapped a
\* writer of its folders: because it names no session, because an entry is bad or
\* in the way of a later one, or because the two folders of a copy clash
\* (submit_files, save_file, prepare_data).
THEOREM RefusalHasAReason == Spec => RefusedForAReason
  <1>1. IInv /\ [Next]_vars =>
          [ \A r \in Requests :
              LET j == job'[r] IN
              reply[r] = "none" /\ reply'[r] \in {"bad request", "error"} /\ alone'[r] =>
                \/ j.session = NoSession
                \/ \E i \in 1..Len(j.entries) : Unwritable(j.entries, i)
                \/ /\ j.kind = "mirror"
                   /\ \E f, g \in Files :
                        /\ Collide(f, g)
                        /\ expected[j.from][f] # NoFile /\ expected[j.session][g] # NoFile ]_vars
    BY RefusalStep DEF Clash
  <1> QED
    BY <1>1, FolderInvariant, PTL DEF Spec, RefusedForAReason

\* What a launch answers in one step, when nobody wrote while it looked.
LEMMA LoadStep ==
  ASSUME IInv, NEW r \in Requests, LoadFile(r), alone[r],
         expected[Default] # Unknown, expected[Session(r)] # Unknown
  PROVE  reply'[r] = (IF Shown(expected[Default]) # NoFile THEN Shown(expected[Default])
                      ELSE IF Shown(expected[Session(r)]) # NoFile
                           THEN Shown(expected[Session(r)]) ELSE Demo)
  <1>1. at[r] = "loading" /\ reply' = [reply EXCEPT ![r] =
            IF rest[r] = <<>> THEN Demo
            ELSE IF At(Head(rest[r])) = NoFile THEN Lost ELSE At(Head(rest[r]))]
    BY DEF LoadFile, Ends, Goes
  <1>2. /\ r \in Active /\ Session(r) \in Sessions /\ job[r].kind = "launch"
        /\ Progress(r) /\ TypeOK /\ rest[r] \in Seq(Place)
    BY <1>1, LaunchFacts DEF Launching
  <1>3. \A o \in Active : Session(r) \notin Writes(job[o]) /\ Default \notin Writes(job[o])
    <2>1. /\ Session(r) \in Uses(job[r]) /\ Default \in Uses(job[r])
          /\ Writes(job[r]) = {}
      BY <1>2 DEF Uses, Writes, Session
    <2> QED
      BY <2>1, <1>2 DEF IInv, AloneIsAlone
  <1>4. folder[Session(r)] = expected[Session(r)] /\ folder[Default] = expected[Default]
    BY <1>2, <1>3, SessionsAssumption DEF IInv, FoldersAreKnown
  <1>5. PICK n \in 0..4 : HasLookedAt(r, n)
    BY <1>1, <1>2 DEF Progress, LaunchProgress, Launching
  <1>6. /\ At(Places(Session(r))[1]) = expected[Default]["top"]
        /\ At(Places(Session(r))[2]) = expected[Default]["nested"]
        /\ At(Places(Session(r))[3]) = expected[Session(r)]["top"]
        /\ At(Places(Session(r))[4]) = expected[Session(r)]["nested"]
    <2>1. /\ Places(Session(r))[1] = [in |-> Default, file |-> "top"]
          /\ Places(Session(r))[2] = [in |-> Default, file |-> "nested"]
          /\ Places(Session(r))[3] = [in |-> Session(r), file |-> "top"]
          /\ Places(Session(r))[4] = [in |-> Session(r), file |-> "nested"]
      BY <1>2, PlacesAre
    <2> QED
      BY <2>1, <1>4 DEF At
  <1>7. /\ \A i \in 1..n : At(Places(Session(r))[i]) = NoFile
        /\ n # 4 => /\ rest[r] # <<>> /\ Head(rest[r]) = Places(Session(r))[n + 1]
                    /\ At(Places(Session(r))[n + 1]) # NoFile
        /\ n = 4 => rest[r] = <<>>
    BY <1>1, <1>2, <1>5 DEF HasLookedAt
  <1>8. reply \in [Requests -> Contents \cup {"none", "ok", "bad request", "error", Demo, Lost}]
    BY <1>2 DEF TypeOK
  <1>9. reply'[r] = IF n = 4 THEN Demo ELSE At(Places(Session(r))[n + 1])
    <2>1. reply'[r] = IF rest[r] = <<>> THEN Demo
                      ELSE IF At(Head(rest[r])) = NoFile THEN Lost ELSE At(Head(rest[r]))
      BY <1>1, <1>8
    <2>2. CASE n = 4
      BY <2>1, <2>2, <1>7
    <2>3. CASE n # 4
      BY <2>1, <2>3, <1>7
    <2> QED
      BY <2>2, <2>3
  <1>10. n = 0 \/ n = 1 \/ n = 2 \/ n = 3 \/ n = 4
    OBVIOUS
  <1> QED
    BY <1>6, <1>7, <1>9, <1>10 DEF Shown

\* A launch that nobody disturbs loads the whole file that was sent to the folder
\* default, else the one of its session, else the demo program
\* (BaseQVM::prepareSource, Utils::findServerFile).
THEOREM LaunchIsExact == Spec => LaunchLoadsWhatWasSent
  <1>1. IInv /\ [Next]_vars =>
          [ \A r \in Requests :
              LET first == expected[Default]  own == expected[Session(r)] IN
              LoadFile(r) /\ alone[r] /\ first # Unknown /\ own # Unknown
                => reply'[r] = (IF Shown(first) # NoFile THEN Shown(first)
                                ELSE IF Shown(own) # NoFile THEN Shown(own) ELSE Demo) ]_vars
    BY LoadStep
  <1> QED
    BY <1>1, FolderInvariant, PTL DEF Spec, LaunchLoadsWhatWasSent
==============================================================================
