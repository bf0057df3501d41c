---------------------------- MODULE SourceFolder ----------------------------
(***************************************************************************)
(* The folder of a session, from which a launch takes its source:          *)
(* scripts/dapp/app.py, whose server runs every request in a thread of its *)
(* own and uses no lock, and the debugger's lookup (BaseQVM::prepareSource,*)
(* Utils::findServerFile).  A request is one of                            *)
(*   upload  submitFiles: clear the folder, then write the files in order  *)
(*   mirror  prepareData: copy the files of one folder over another's      *)
(*   launch  find the file, then load it.                                  *)
(* A session has three files: two of one name, one of them in a subfolder, *)
(* and one that has the subfolder's own name, so that only one of those    *)
(* two can be there.  What a file holds is the request that wrote it.  A   *)
(* launch asks for the name the first two share, and by a path that means  *)
(* nothing on the debugger's machine.                                      *)
(***************************************************************************)
EXTENDS Naturals, Sequences

CONSTANTS
  Requests,  \* the requests, each made at most once
  Sessions,
  Default,   \* the session whose folder every launch looks in first
  Uploads    \* the lists of entries an upload may carry

Files  == {"top", "nested", "plain"}
NoFile == "no file"
Empty  == "empty"   \* opened for writing, nothing written
Mixed  == "mixed"   \* the beginning of one content, the rest of another
Demo   == "demo"    \* the debugger's own file, when there is none
Lost   == "lost"    \* a file that was there and has gone: no text, or no launch

\* ok: it has a path below the session's folder and a source in base64.
Entry == [file : Files, ok : BOOLEAN]
Place == [in : Sessions, file : Files]
Unknown == [f \in Files |-> "unknown"]
NoSession == "no session"

ASSUME UploadsAssumption == Uploads \subseteq Seq(Entry)
ASSUME SessionsAssumption == NoSession \notin Sessions /\ Default \in Sessions
\* What a request wrote is told apart from everything else an answer may be.
ASSUME RequestsAssumption ==
  Requests \cap {NoFile, Empty, Mixed, Demo, Lost, "none", "ok", "bad request", "error"} = {}

VARIABLES
  folder,    \* folder[s][f]: what the file holds, or NoFile
  subfolder, \* subfolder[s]: the subfolder is there
  at,        \* what each request is doing
  job,       \* job[r]: its kind, the session it is for and the one it copies
  todo,      \* paths it has still to remove or to copy
  rest,      \* entries it has still to write, places it has still to look at
  handle,    \* the file it has open, and what that file still is for others
  reply,     \* its answer
  alone,     \* it knew its folders, and nobody has written to them since
  expected   \* expected[s]: what the last writer of s was sent, if it was alone

fsVars  == <<folder, subfolder>>
vars == <<fsVars, at, job, todo, rest, handle, reply, alone, expected>>

NoJob    == [kind |-> "none", session |-> NoSession, from |-> NoSession, entries |-> <<>>]
NoHandle == [file |-> NoFile, attached |-> FALSE, read |-> NoFile]
Nothing  == [f \in Files |-> NoFile]

Init ==
  /\ folder = [s \in Sessions |-> Nothing]
  /\ subfolder = [s \in Sessions |-> FALSE]
  /\ at = [r \in Requests |-> "idle"]
  /\ job = [r \in Requests |-> NoJob]
  /\ todo = [r \in Requests |-> {}]
  /\ rest = [r \in Requests |-> <<>>]
  /\ handle = [r \in Requests |-> NoHandle]
  /\ reply = [r \in Requests |-> "none"]
  /\ alone = [r \in Requests |-> TRUE]
  /\ expected = [s \in Sessions |-> Nothing]

Goes(r, from, to) == at[r] = from /\ at' = [at EXCEPT ![r] = to]
Session(r) == job[r].session
Present(s) == {f \in Files : folder[s][f] # NoFile}

\* What a walk through the folder meets: "plain" is the subfolder's path, too.
Listed(s) == Present(s) \cup (IF subfolder[s] THEN {"plain"} ELSE {})

Active    == {r \in Requests : at[r] \notin {"idle", "done"}}
Writes(j) == IF j.kind = "launch" THEN {} ELSE {j.session}
Uses(j)   == IF j.kind = "launch" THEN {j.session, Default} ELSE {j.session, j.from} \ {NoSession}

-----------------------------------------------------------------------------
(* Who is alone is not in the code; Begin and Ends keep account of it.     *)

Begin(r, j) ==
  /\ job' = [job EXCEPT ![r] = j]
  /\ alone' = [q \in Requests |->
       IF q = r
       THEN /\ \A o \in Active : Writes(job[o]) \cap Uses(j) = {}
            /\ j.kind = "mirror" =>
                 /\ j.from # j.session
                 /\ expected[j.from] # Unknown /\ expected[j.session] # Unknown
       ELSE alone[q] /\ (q \in Active => Uses(job[q]) \cap Writes(j) = {})]

\* One is a file where the other needs a folder.
Collide(f, g) == {f, g} = {"plain", "nested"}

\* The i-th entry cannot be written: it is not ok, or what was written before is
\* in its way.
Unwritable(entries, i) ==
  ~entries[i].ok \/ \E j \in 1..(i - 1) : Collide(entries[i].file, entries[j].file)

\* What the files are when the entries before the first such one were written.
Sent(r, entries) ==
  [f \in Files |->
     IF \E i \in 1..Len(entries) :
          entries[i].file = f /\ \A j \in 1..i : ~Unwritable(entries, j)
     THEN r ELSE NoFile]

Copied(j) ==
  [f \in Files |-> IF expected[j.from][f] = NoFile THEN expected[j.session][f]
                   ELSE expected[j.from][f]]

\* A copy that fails leaves off where the walk had come to.
Expectation(r, answer) ==
  IF ~alone[r] THEN Unknown
  ELSE IF job[r].kind = "upload" THEN Sent(r, job[r].entries)
  ELSE IF answer = "ok" THEN Copied(job[r]) ELSE Unknown

Ends(r, from, answer) ==
  /\ Goes(r, from, "done")
  /\ reply' = [reply EXCEPT ![r] = answer]
  /\ expected' = IF job[r].kind = "launch" THEN expected
                 ELSE [expected EXCEPT ![Session(r)] = Expectation(r, answer)]

\* What is no request of a session is refused before anything is done: no JSON,
\* no session, or one that is not a folder below the main one.
Refuse(r) ==
  /\ Goes(r, "idle", "done")
  /\ \E kind \in {"upload", "mirror"} : job' = [job EXCEPT ![r] = [NoJob EXCEPT !.kind = kind]]
  /\ \E answer \in {"bad request", "error"} : reply' = [reply EXCEPT ![r] = answer]
  /\ UNCHANGED <<fsVars, todo, rest, handle, alone, expected>>

-----------------------------------------------------------------------------
(* submitFiles.                                                            *)

\* Mutant: the folder is used as it is.
StartUncleared(r) ==
  /\ Goes(r, "idle", "entry")
  /\ \E s \in Sessions, entries \in Uploads :
       /\ Begin(r, [kind |-> "upload", session |-> s, from |-> NoSession, entries |-> entries])
       /\ rest' = [rest EXCEPT ![r] = entries]
  /\ UNCHANGED <<fsVars, todo, handle, reply, expected>>

\* The folder is made, and what is in it is listed.
Start(r) ==
  /\ Goes(r, "idle", "clearing")
  /\ \E s \in Sessions, entries \in Uploads :
       /\ Begin(r, [kind |-> "upload", session |-> s, from |-> NoSession, entries |-> entries])
       /\ rest' = [rest EXCEPT ![r] = entries]
       /\ todo' = [todo EXCEPT ![r] = Listed(s)]
  /\ UNCHANGED <<fsVars, handle, reply, expected>>

\* The file leaves the folder; whoever has it open goes on with it.
Detach(s, f) ==
  handle' = [q \in Requests |->
    IF handle[q].file = f /\ Session(q) = s
    THEN [handle[q] EXCEPT !.attached = FALSE] ELSE handle[q]]

\* clear_folder; a file that appears meanwhile may be met too.
Unlink(r) ==
  /\ at[r] = "clearing"
  /\ \E f \in Files :
       /\ f \in todo[r] \cup Present(Session(r))
       /\ folder' = [folder EXCEPT ![Session(r)][f] = NoFile]
       /\ todo' = [todo EXCEPT ![r] = @ \ {f}]
       /\ Detach(Session(r), f)
  /\ UNCHANGED <<subfolder, at, job, rest, reply, alone, expected>>

\* The subfolder is met: rmdir, which leaves a folder with files in it alone.
MeetSubfolder(r) ==
  /\ at[r] = "clearing" /\ "plain" \in todo[r]
  /\ folder[Session(r)]["plain"] = NoFile
  /\ subfolder' = [subfolder EXCEPT ![Session(r)] = @ /\ folder[Session(r)]["nested"] # NoFile]
  /\ todo' = [todo EXCEPT ![r] = @ \ {"plain"}]
  /\ UNCHANGED <<folder, at, job, rest, handle, reply, alone, expected>>

\* Another request has removed the subfolder, and the walk goes into it.
ClearFails(r) ==
  /\ at[r] = "clearing" /\ "plain" \in todo[r] \ Listed(Session(r))
  /\ Ends(r, "clearing", "error")
  /\ UNCHANGED <<fsVars, job, todo, rest, handle, alone>>

\* rmdir once more, behind the files.
RemoveSubfolder(r) ==
  /\ todo[r] = {}
  /\ Goes(r, "clearing", "entry")
  /\ subfolder' = [subfolder EXCEPT ![Session(r)] =
                     @ /\ folder[Session(r)]["nested"] # NoFile]
  /\ UNCHANGED <<folder, job, todo, rest, handle, reply, alone, expected>>

HasEntry(r) == at[r] = "entry" /\ rest[r] # <<>>

\* An entry that is not ok ends the request; what was written stays.
BadEntry(r) ==
  /\ HasEntry(r) /\ ~Head(rest[r]).ok
  /\ \E answer \in {"bad request", "error"} : Ends(r, "entry", answer)
  /\ UNCHANGED <<fsVars, job, todo, rest, handle, alone>>

\* Mutant: the file's folder is expected to be there.
MakeParentNot(r) ==
  /\ HasEntry(r) /\ Head(rest[r]).ok
  /\ Goes(r, "entry", "opening")
  /\ UNCHANGED <<fsVars, job, todo, rest, handle, reply, alone, expected>>

\* A file has the name of the folder that f needs.
InTheWay(s, f) == f = "nested" /\ folder[s]["plain"] # NoFile

\* save_file, first the file's folder.
MakeParent(r) ==
  /\ HasEntry(r) /\ Head(rest[r]).ok
  /\ ~InTheWay(Session(r), Head(rest[r]).file)
  /\ Goes(r, "entry", "opening")
  /\ subfolder' = [subfolder EXCEPT ![Session(r)] = @ \/ Head(rest[r]).file = "nested"]
  /\ UNCHANGED <<folder, job, todo, rest, handle, reply, alone, expected>>

MakeParentFails(r) ==
  /\ HasEntry(r) /\ Head(rest[r]).ok
  /\ InTheWay(Session(r), Head(rest[r]).file)
  /\ Ends(r, "entry", "error")
  /\ UNCHANGED <<fsVars, job, todo, rest, handle, alone>>

\* f's folder is there, and f is none.
MayOpen(s, f) == (f = "nested" => subfolder[s]) /\ (f = "plain" => ~subfolder[s])

Truncates(r, f, read) ==
  /\ folder' = [folder EXCEPT ![Session(r)][f] = Empty]
  /\ handle' = [handle EXCEPT ![r] = [file |-> f, attached |-> TRUE, read |-> read]]

\* open(path, "wb") makes the file or empties it.
Open(r) ==
  /\ Goes(r, "opening", "writing")
  /\ MayOpen(Session(r), Head(rest[r]).file)
  /\ Truncates(r, Head(rest[r]).file, NoFile)
  /\ UNCHANGED <<subfolder, job, todo, rest, reply, alone, expected>>

\* The folder has been removed again, or f is a folder.
OpenFails(r) ==
  /\ at[r] = "opening"
  /\ ~MayOpen(Session(r), Head(rest[r]).file)
  /\ Ends(r, "opening", "error")
  /\ UNCHANGED <<fsVars, job, todo, rest, handle, alone>>

\* What a file holds after content was written from its beginning over held.
Over(held, content) ==
  IF held \in {Empty, content} THEN {content}
  ELSE IF content = Empty THEN {held} ELSE {content, Mixed}

Puts(r, content) ==
  LET f == handle[r].file IN
  /\ IF handle[r].attached
     THEN \E held \in Over(folder[Session(r)][f], content) :
            folder' = [folder EXCEPT ![Session(r)][f] = held]
     ELSE UNCHANGED folder
  /\ handle' = [handle EXCEPT ![r] = NoHandle]

Write(r) ==
  /\ Goes(r, "writing", "entry")
  /\ Puts(r, r)
  /\ rest' = [rest EXCEPT ![r] = Tail(@)]
  /\ UNCHANGED <<subfolder, job, todo, reply, alone, expected>>

Uploaded(r) ==
  /\ rest[r] = <<>>
  /\ Ends(r, "entry", "ok")
  /\ UNCHANGED <<fsVars, job, todo, rest, handle, alone>>

-----------------------------------------------------------------------------
(* prepareData.                                                            *)

StartMirror(r) ==
  /\ Goes(r, "idle", "copying")
  /\ \E s, u \in Sessions :
       /\ Begin(r, [kind |-> "mirror", session |-> s, from |-> u, entries |-> <<>>])
       /\ todo' = [todo EXCEPT ![r] = Listed(u)]
  /\ UNCHANGED <<fsVars, rest, handle, reply, expected>>

\* The subfolder is met before what is in it, and made.
CopySubfolder(r) ==
  /\ at[r] = "copying" /\ "plain" \in todo[r]
  /\ subfolder[job[r].from] /\ folder[Session(r)]["plain"] = NoFile
  /\ subfolder' = [subfolder EXCEPT ![Session(r)] = TRUE]
  /\ todo' = [todo EXCEPT ![r] = @ \ {"plain"}]
  /\ UNCHANGED <<folder, at, job, rest, handle, reply, alone, expected>>

\* The copy's folder is made, the file opened, its copy opened and emptied
\* (the same file, when a session is copied onto itself).
OpenBoth(r) ==
  /\ Goes(r, "copying", "copyingFile")
  /\ \E f \in todo[r] :
       /\ folder[job[r].from][f] # NoFile
       /\ f = "nested" => "plain" \notin todo[r]
       /\ ~InTheWay(Session(r), f) /\ (f = "plain" => ~subfolder[Session(r)])
       /\ Truncates(r, f, folder[job[r].from][f])
       /\ subfolder' = [subfolder EXCEPT ![Session(r)] = @ \/ f = "nested"]
       /\ todo' = [todo EXCEPT ![r] = @ \ {f}]
  /\ UNCHANGED <<job, rest, reply, alone, expected>>

\* The path has gone since the listing, what is at the copy's is in its way, or
\* the copy's folder was removed again before the copy was opened.
OpenBothFails(r) ==
  /\ at[r] = "copying"
  /\ \/ \E f \in todo[r] : \/ f \notin Listed(job[r].from)
                            \/ InTheWay(Session(r), f)
     \/ "plain" \in todo[r] /\ subfolder[job[r].from] /\ folder[Session(r)]["plain"] # NoFile
     \/ "plain" \in todo[r] /\ ~subfolder[job[r].from] /\ subfolder[Session(r)]
     \/ "nested" \in todo[r] /\ \E q \in Active : at[q] = "clearing" /\ Session(q) = Session(r)
  /\ Ends(r, "copying", "error")
  /\ UNCHANGED <<fsVars, job, todo, rest, handle, alone>>

\* The file is read, as it is now or as it was when its folder lost it.
Copy(r) ==
  /\ Goes(r, "copyingFile", "copying")
  /\ \E content \in {folder[job[r].from][handle[r].file], handle[r].read} :
       /\ content # NoFile
       /\ job[r].from = Session(r) /\ handle[r].attached =>
            content = folder[Session(r)][handle[r].file]
       /\ Puts(r, content)
  /\ UNCHANGED <<subfolder, job, todo, rest, reply, alone, expected>>

Mirrored(r) ==
  /\ todo[r] = {}
  /\ Ends(r, "copying", "ok")
  /\ UNCHANGED <<fsVars, job, todo, rest, handle, alone>>

-----------------------------------------------------------------------------
(* The launch.                                                             *)

\* findServerFile: by its name alone, then with its parent folder.
InFolder(s) == <<[in |-> s, file |-> "top"], [in |-> s, file |-> "nested"]>>

\* Mutant: the session's folder comes first.
PlacesOwnFirst(s) == InFolder(s) \o InFolder(Default)

\* Where a launch looks, in this order; a place is a folder and a name.
Places(s) == InFolder(Default) \o InFolder(s)

StartLaunch(r) ==
  /\ Goes(r, "idle", "finding")
  /\ \E s \in Sessions :
       /\ Begin(r, [kind |-> "launch", session |-> s, from |-> NoSession, entries |-> <<>>])
       /\ rest' = [rest EXCEPT ![r] = Places(s)]
  /\ UNCHANGED <<fsVars, todo, handle, reply, expected>>

At(place) == folder[place.in][place.file]

\* fileExists, name by name; a second look at the name that was found is merged
\* with the first.
Miss(r) ==
  /\ at[r] = "finding" /\ rest[r] # <<>>
  /\ At(Head(rest[r])) = NoFile
  /\ rest' = [rest EXCEPT ![r] = Tail(@)]
  /\ UNCHANGED <<fsVars, at, job, todo, handle, reply, alone, expected>>

Find(r) ==
  /\ at[r] = "finding"
  /\ rest[r] # <<>> => At(Head(rest[r])) # NoFile
  /\ Goes(r, "finding", "loading")
  /\ UNCHANGED <<fsVars, job, todo, rest, handle, reply, alone, expected>>

LoadFile(r) ==
  /\ at[r] = "loading"
  /\ Ends(r, "loading",
       IF rest[r] = <<>> THEN Demo
       ELSE IF At(Head(rest[r])) = NoFile THEN Lost ELSE At(Head(rest[r])))
  /\ rest' = [rest EXCEPT ![r] = <<>>]
  /\ UNCHANGED <<fsVars, job, todo, handle, alone>>

Upload(r) ==
  \/ Start(r) \/ Unlink(r) \/ MeetSubfolder(r) \/ ClearFails(r) \/ RemoveSubfolder(r)
  \/ BadEntry(r) \/ MakeParent(r) \/ MakeParentFails(r) \/ Open(r) \/ OpenFails(r) \/ Write(r) \/ Uploaded(r)
Mirror(r) ==
  \/ StartMirror(r) \/ CopySubfolder(r) \/ OpenBoth(r) \/ OpenBothFails(r)
  \/ Copy(r) \/ Mirrored(r)
Launch(r) == StartLaunch(r) \/ Miss(r) \/ Find(r) \/ LoadFile(r)

Next == \E r \in Requests : Refuse(r) \/ Upload(r) \/ Mirror(r) \/ Launch(r)

Spec == Init /\ [][Next]_vars

-----------------------------------------------------------------------------
(* Properties.                                                             *)

Contents == Requests \cup {NoFile, Empty, Mixed}
Job == [kind : {"none", "upload", "mirror", "launch"}, session : Sessions \cup {NoSession},
        from : Sessions \cup {NoSession}, entries : Seq(Entry)]

Handle == [file : Files \cup {NoFile}, attached : BOOLEAN, read : Contents]

\* Every variable keeps its type.
TypeOK ==
  /\ folder \in [Sessions -> [Files -> Contents]]
  /\ subfolder \in [Sessions -> BOOLEAN]
  /\ at \in [Requests -> {"idle", "clearing", "entry", "opening", "writing", "copying",
                          "copyingFile", "finding", "loading", "done"}]
  /\ job \in [Requests -> Job]
  /\ todo \in [Requests -> SUBSET Files]
  /\ rest \in [Requests -> Seq(Entry) \cup Seq(Place)]
  /\ handle \in [Requests -> Handle]
  /\ reply \in [Requests -> Contents \cup {"none", "ok", "bad request", "error", Demo, Lost}]
  /\ alone \in [Requests -> BOOLEAN]
  /\ expected \in [Sessions -> [Files -> Contents] \cup {Unknown}]

\* A folder holds exactly what its last request sent, the files of an upload up
\* to the one that was refused and nothing older, or its own and the copied
\* ones, if no other request wrote to the folders it used (submit_files,
\* prepare_data).
FolderIsWhatWasSent ==
  \A s \in Sessions :
    expected[s] # Unknown /\ (\A r \in Active : s \notin Writes(job[r]))
      => folder[s] = expected[s]

\* The file of the asked name among files.
Shown(files) == IF files["top"] # NoFile THEN files["top"] ELSE files["nested"]

\* A launch loads what was sent last, whole: to the folder default, if that has
\* a file of the name (so a file sent there is in the way of every session's),
\* else to its own session; and the demo program only if neither has one.  This
\* is unless somebody wrote to one of the two folders while it looked, or
\* several had done so together before (BaseQVM::prepareSource, submit_files).
LaunchLoadsWhatWasSent ==
  [][ \A r \in Requests :
        LET first == expected[Default]  own == expected[Session(r)] IN
        LoadFile(r) /\ alone[r] /\ first # Unknown /\ own # Unknown
          => reply'[r] = (IF Shown(first) # NoFile THEN Shown(first)
                          ELSE IF Shown(own) # NoFile THEN Shown(own) ELSE Demo) ]_vars

\* A request fails for what is wrong with it: it names no session, one of its
\* entries is bad or needs a folder where an earlier one has put a file (or the
\* other way round), or the two folders of a copy clash in this way; or because
\* another one wrote to its folders; never for what an earlier request left
\* there (submit_files, clear_folder, save_file, prepare_data).  Of a copy this
\* is said when it is known what was sent to the two folders.
RefusedForAReason ==
  [][ \A r \in Requests :
        LET j == job'[r] IN
        reply[r] = "none" /\ reply'[r] \in {"bad request", "error"} /\ alone'[r] =>
          \/ j.session = NoSession
          \/ \E i \in 1..Len(j.entries) : Unwritable(j.entries, i)
          \/ /\ j.kind = "mirror"
             /\ \E f, g \in Files :
                  /\ Collide(f, g)
                  /\ expected[j.from][f] # NoFile /\ expected[j.session][g] # NoFile ]_vars
==============================================================================
