----------------------------- MODULE FileJobHost -----------------------------
(***************************************************************************)
(* The host of uploaded files and of the jobs that run on them             *)
(* (src/Common/resource/file-job-host.ts).  Bytes belong to a storage and  *)
(* work to a runner, which both answer in their own time; in between files *)
(* are confirmed again, jobs are cancelled, reports come late and the host *)
(* may be closed.  Every account has a view that follows the store's       *)
(* drains.                                                                 *)
(***************************************************************************)
EXTENDS Integers, Functions

CONSTANTS
    Accounts,
    Viewers,         \* the accounts whose views are followed
    MaxFiles, MaxJobs, MaxReports         \* bounds

FileJobAssumption ==
    Viewers \subseteq Accounts /\ {MaxFiles, MaxJobs, MaxReports} \subseteq Nat

VARIABLES
    policy,          \* canRead is given, and lets the members read every file
    members,
    stale,           \* the members changed and the store did not
    files, jobs,     \* the store, by id
    changed,         \* files and jobs the store has not told the views about
    begun,           \* files whose upload the storage is asked for
    confirmations,   \* files with an admitted confirmation
    verifying,       \* confirmations of a file that are admitted and not yet asked for
    asked,           \* and those the storage works at
    running,         \* jobs the runner works at
    reports,
    views,           \* what an account is shown, or Off
    closed

policyVars == <<policy, members, stale>>
storeVars == <<files, jobs, changed>>
confirmVars == <<confirmations, verifying, asked>>
vars == <<policyVars, storeVars, begun, confirmVars, running, reports, views, closed>>

FileIds == 1..MaxFiles
JobIds == 1..MaxJobs
Off == <<>>
Finished == {"ready", "failed", "cancelled"}

readable(a, f) == IF policy THEN a \in members ELSE files[f].owner = a
writable(a, f) == files[f].owner = a

\* project: the readable files and the jobs on them.
Project(a) ==
    LET fs == {f \in DOMAIN files : readable(a, f)} IN
    [files |-> Restrict(files, fs),
     jobs |-> Restrict(jobs, {j \in DOMAIN jobs : jobs[j].file \in fs})]

Init ==
    /\ policy \in BOOLEAN /\ members = {} /\ stale = FALSE
    /\ files = <<>> /\ jobs = <<>> /\ changed = [files |-> {}, jobs |-> {}]
    /\ begun = [f \in {} |-> 0]
    /\ confirmations = {} /\ verifying = [f \in FileIds |-> 0] /\ asked = [f \in FileIds |-> 0]
    /\ running = {} /\ reports = 0
    /\ views = [a \in Viewers |-> Off] /\ closed = FALSE

\* A record is put into a part of the store.
Put(records, id, x) == [i \in DOMAIN records \cup {id} |-> IF i = id THEN x ELSE records[i]]

SetFile(f, file) ==
    /\ files' = Put(files, f, file)
    /\ changed' = [changed EXCEPT !.files = @ \cup {f}]
    /\ UNCHANGED jobs

SetJob(j, job) ==
    /\ jobs' = Put(jobs, j, job)
    /\ changed' = [changed EXCEPT !.jobs = @ \cup {j}]
    /\ UNCHANGED files

-----------------------------------------------------------------------------
(* Uploads *)

\* startUpload: the storage is asked for an upload of the next file.
StartUpload(a, f) ==
    /\ ~closed /\ DOMAIN files \cup DOMAIN begun = 1..(f - 1)
    /\ begun' = Put(begun, f, a)
    /\ UNCHANGED <<policyVars, storeVars, confirmVars, running, reports, views, closed>>

\* It answers; the file exists from now on, unless the host was closed or it refused.
UploadBegins(f) ==
    /\ f \in DOMAIN begun
    /\ begun' = Restrict(begun, DOMAIN begun \ {f})
    /\ IF closed THEN UNCHANGED storeVars
       ELSE SetFile(f, [owner |-> begun[f], state |-> "uploading"])
    /\ UNCHANGED <<policyVars, confirmVars, running, reports, views, closed>>

\* Mutant: a confirmation is admitted when the storage is asked.
ConfirmUploadLater(a, f) ==
    /\ ~closed /\ f \in DOMAIN files /\ writable(a, f)
    /\ f \notin confirmations /\ files[f].state = "uploading" /\ verifying[f] < 2
    /\ verifying' = [verifying EXCEPT ![f] = @ + 1]
    /\ UNCHANGED <<policyVars, storeVars, begun, confirmations, asked, running, reports, views, closed>>

\* confirmUpload, of a file without one in flight; another caller joins that one.
ConfirmUpload(a, f) ==
    /\ ~closed /\ f \in DOMAIN files /\ writable(a, f)
    /\ f \notin confirmations /\ files[f].state = "uploading"
    /\ confirmations' = confirmations \cup {f}
    /\ verifying' = [verifying EXCEPT ![f] = @ + 1]
    /\ UNCHANGED <<policyVars, storeVars, begun, asked, running, reports, views, closed>>

\* verifyStorage, a microtask later.
AsksStorage(f) ==
    /\ verifying[f] > 0
    /\ verifying' = [verifying EXCEPT ![f] = @ - 1]
    /\ asked' = IF closed THEN asked ELSE [asked EXCEPT ![f] = @ + 1]
    /\ UNCHANGED <<policyVars, storeVars, begun, confirmations, running, reports, views, closed>>

\* Mutant: an answer is applied although the host was closed.
StorageAnswersLate(f) ==
    /\ asked[f] > 0
    /\ asked' = [asked EXCEPT ![f] = @ - 1]
    /\ \E s \in {"uploaded", "failed"} : SetFile(f, [files[f] EXCEPT !.state = s])
    /\ UNCHANGED <<policyVars, begun, confirmations, verifying, running, reports, views, closed>>

StorageAnswers(f) ==
    /\ asked[f] > 0
    /\ asked' = [asked EXCEPT ![f] = @ - 1]
    /\ IF closed THEN UNCHANGED storeVars
       ELSE \E s \in {"uploaded", "failed"} : SetFile(f, [files[f] EXCEPT !.state = s])
    /\ UNCHANGED <<policyVars, begun, confirmations, verifying, running, reports, views, closed>>

\* The first caller goes on, and takes the confirmation away.
Confirmed(f) ==
    /\ f \in confirmations /\ verifying[f] = 0 /\ asked[f] = 0
    /\ confirmations' = confirmations \ {f}
    /\ UNCHANGED <<policyVars, storeVars, begun, verifying, asked, running, reports, views, closed>>

-----------------------------------------------------------------------------
(* Jobs *)

\* Mutant: any file of the account may be processed.
StartJobUnconfirmed(a, f, j) ==
    /\ ~closed /\ f \in DOMAIN files /\ writable(a, f)
    /\ DOMAIN jobs = 1..(j - 1)
    /\ SetJob(j, [file |-> f, state |-> "running", progress |-> 0])
    /\ running' = running \cup {j}
    /\ UNCHANGED <<policyVars, begun, confirmVars, reports, views, closed>>

\* startJob and the beginning of runJob, which follows at once.
StartJob(a, f, j) ==
    /\ ~closed /\ f \in DOMAIN files /\ writable(a, f) /\ files[f].state = "uploaded"
    /\ DOMAIN jobs = 1..(j - 1)
    /\ SetJob(j, [file |-> f, state |-> "running", progress |-> 0])
    /\ running' = running \cup {j}
    /\ UNCHANGED <<policyVars, begun, confirmVars, reports, views, closed>>

\* reportJob, at any time: the runner may keep the function.
ReportJob(j) ==
    /\ j \in DOMAIN jobs /\ reports < MaxReports
    /\ reports' = reports + 1
    /\ IF closed \/ jobs[j].state \in Finished THEN UNCHANGED storeVars
       ELSE SetJob(j, [jobs[j] EXCEPT !.progress = reports'])
    /\ UNCHANGED <<policyVars, begun, confirmVars, running, views, closed>>

\* Mutant: a result counts although the job was cancelled meanwhile.
RunEndsAnyway(j) ==
    /\ j \in running
    /\ running' = running \ {j}
    /\ IF closed THEN UNCHANGED storeVars
       ELSE \E s \in {"ready", "failed"} : SetJob(j, [jobs[j] EXCEPT !.state = s])
    /\ UNCHANGED <<policyVars, begun, confirmVars, reports, views, closed>>

\* The runner is through.
RunEnds(j) ==
    /\ j \in running
    /\ running' = running \ {j}
    /\ IF closed \/ jobs[j].state = "cancelled" THEN UNCHANGED storeVars
       ELSE \E s \in {"ready", "failed"} : SetJob(j, [jobs[j] EXCEPT !.state = s])
    /\ UNCHANGED <<policyVars, begun, confirmVars, reports, views, closed>>

CancelJob(a, j) ==
    /\ ~closed /\ j \in DOMAIN jobs /\ writable(a, jobs[j].file) /\ jobs[j].state \notin Finished
    /\ SetJob(j, [jobs[j] EXCEPT !.state = "cancelled"])
    /\ UNCHANGED <<policyVars, begun, confirmVars, running, reports, views, closed>>

-----------------------------------------------------------------------------
(* Views *)

Connect(a) ==
    /\ ~closed /\ views[a] = Off
    /\ views' = [views EXCEPT ![a] = Project(a)]
    /\ UNCHANGED <<policyVars, storeVars, begun, confirmVars, running, reports, closed>>

Leave(a) ==
    /\ views[a] # Off
    /\ views' = [views EXCEPT ![a] = Off]
    /\ UNCHANGED <<policyVars, storeVars, begun, confirmVars, running, reports, closed>>

\* refreshFile and refreshJob: the changed records, and the jobs of a file that comes
\* into the view.
Refreshed(a) ==
    LET fs == {f \in DOMAIN views[a].files \cup changed.files : readable(a, f)}
        js == {j \in DOMAIN views[a].jobs \cup changed.jobs
                        \cup {k \in DOMAIN jobs : jobs[k].file \in fs \ DOMAIN views[a].files} :
               jobs[j].file \in fs}
    IN [files |-> [f \in fs |-> IF f \in changed.files THEN files[f] ELSE views[a].files[f]],
        jobs |-> [j \in js |-> IF j \in DOMAIN views[a].jobs \ changed.jobs THEN views[a].jobs[j]
                               ELSE jobs[j]]]

\* Mutant: with a policy too only the changed records are looked at.
RefreshChanged ==
    /\ ~closed /\ changed # [files |-> {}, jobs |-> {}]
    /\ views' = [a \in Viewers |-> IF views[a] = Off THEN Off ELSE Refreshed(a)]
    /\ changed' = [files |-> {}, jobs |-> {}] /\ stale' = FALSE
    /\ UNCHANGED <<policy, members, files, jobs, begun, confirmVars, running, reports, closed>>

\* A drain of the store: refreshProjection of every view.  A policy may depend on
\* anything, so it is asked about everything again.
Refresh ==
    /\ ~closed /\ changed # [files |-> {}, jobs |-> {}]
    /\ views' = [a \in Viewers |-> IF views[a] = Off THEN Off
                                    ELSE IF policy THEN Project(a) ELSE Refreshed(a)]
    /\ changed' = [files |-> {}, jobs |-> {}] /\ stale' = FALSE
    /\ UNCHANGED <<policy, members, files, jobs, begun, confirmVars, running, reports, closed>>

\* The members a policy is about change, which the host does not see.
MembersChange(a) ==
    /\ policy /\ ~closed
    /\ members' = (members \cup {a}) \ (members \cap {a})
    /\ stale' = TRUE
    /\ UNCHANGED <<policy, storeVars, begun, confirmVars, running, reports, views, closed>>

Close ==
    /\ ~closed /\ closed' = TRUE
    /\ views' = [a \in Viewers |-> Off] /\ confirmations' = {}
    /\ UNCHANGED <<policyVars, storeVars, begun, verifying, asked, running, reports>>

Next ==
    \/ \E f \in FileIds :
        \/ UploadBegins(f) \/ AsksStorage(f) \/ StorageAnswers(f) \/ Confirmed(f)
        \/ \E a \in Accounts : StartUpload(a, f) \/ ConfirmUpload(a, f)
    \/ \E j \in JobIds :
        \/ ReportJob(j) \/ RunEnds(j)
        \/ \E a \in Accounts : CancelJob(a, j) \/ \E f \in FileIds : StartJob(a, f, j)
    \/ \E a \in Viewers : Connect(a) \/ Leave(a) \/ MembersChange(a)
    \/ Refresh \/ Close

Spec == Init /\ [][Next]_vars

-----------------------------------------------------------------------------
(* Properties *)

File == [owner : Accounts, state : {"uploading", "uploaded", "failed"}]
Job == [file : FileIds, state : {"running"} \cup Finished, progress : 0..MaxReports]

\* Types; the storage is never asked twice at a time about a file, and never once its
\* state is settled.
TypeOK ==
    /\ {policy, stale, closed} \subseteq BOOLEAN /\ members \subseteq Viewers
    /\ DOMAIN files \subseteq FileIds /\ \A f \in DOMAIN files : files[f] \in File
    /\ DOMAIN jobs \subseteq JobIds /\ \A j \in DOMAIN jobs : jobs[j] \in Job
    /\ changed.files \subseteq DOMAIN files /\ changed.jobs \subseteq DOMAIN jobs
    /\ DOMAIN begun \subseteq FileIds \ DOMAIN files /\ confirmations \subseteq DOMAIN files
    /\ running \subseteq DOMAIN jobs /\ reports \in 0..MaxReports
    /\ DOMAIN views = Viewers
    /\ \A f \in FileIds :
        /\ verifying[f] + asked[f] <= 1
        /\ verifying[f] + asked[f] > 0 => f \in DOMAIN files /\ files[f].state = "uploading"

\* A job runs on a file that the storage has, and goes on having: no second confirmation
\* takes that back.
JobsHaveTheirFile ==
    \A j \in DOMAIN jobs : jobs[j].file \in DOMAIN files /\ files[jobs[j].file].state = "uploaded"

\* A job that is ready, failed or cancelled stays as it is, whatever the runner reports
\* or returns later.
FinishedJobsStay ==
    [][\A j \in DOMAIN jobs : jobs[j].state \in Finished => jobs'[j] = jobs[j]]_vars

\* Nothing of a closed host changes, whatever was under way.
ClosedHostStays == [][closed => files' = files /\ jobs' = jobs]_vars

\* A view is the projection of the account as of the last drain: by the changed records
\* alone without a policy, in full with one.
ViewsAgree ==
    \A a \in Viewers :
        (views[a] # Off /\ changed = [files |-> {}, jobs |-> {}] /\ ~stale) => views[a] = Project(a)

=============================================================================
