------------------------------- MODULE Firmware -------------------------------
(***************************************************************************)
(* Cisco firmware: the registry of images and its volume (routes/          *)
(* firmware.ts) and the upgrade of a device by a job (firmwareService.ts). *)
(* A job has one execution at a time, as JobQueue shows for heartbeats     *)
(* that arrive, and one attempt (the default of createJob).                *)
(*                                                                         *)
(* There is one file name: images that share one are the interesting case. *)
(* An image's bytes are a member of Content; its MD5, its version label    *)
(* and the version a device then runs are taken to be that member.         *)
(* devices.ios_version and the alerts written at the end of an upgrade are *)
(* left out: the next refresh (Monitoring) writes the former again.        *)
(***************************************************************************)
EXTENDS Naturals, Sequences, FiniteSets

CONSTANTS
    Device,
    Content,       \* what an image may contain
    Request,       \* requests that may be under way at once
    NULL,
    MaxUploads,    \* bound: uploads started
    MaxJobs,       \* bound: jobs created
    MaxRuns        \* bound: executions of a job

VARIABLES
    row,      \* firmware_images: NULL or [id, md5] (filename is UNIQUE)
    file,     \* the file of that name on the firmware volume
    uploads,  \* uploads started; ids are numbered by it
    jobs,     \* the upgrade jobs
    exec,     \* exec[j]: the execution of job j
    flash,    \* flash[d]: the file of that name on the device
    boot,     \* boot[d]: what the boot statements of the running configuration list
    saved,    \* saved[d]: the same of the startup configuration
    up,       \* up[d]: the device answers
    overlap,  \* history: devices that two executions have worked on at once
    todo,     \* todo[q]: the statements left to request q
    installMode  \* the devices upgraded by "install add ... activate commit", for good

registry == <<row, file, uploads>>
device == <<flash, boot, saved, up>>
state == <<registry, jobs, exec, device, overlap, todo>>
vars == <<state, installMode>>

Active == {"pending", "running"}
JobId == DOMAIN jobs

\* Steps of upgradeFirmware(), each one exchange with the device.
Steps == {"lookup", "preflight", "delete", "copy", "copying", "verify",
          "noBoot", "setBoot", "save", "reload", "waiting", "install", "ok", "failed"}

Idle == [pc |-> "idle", dev |-> NULL, left |-> {}, md5 |-> NULL, got |-> NULL,
         allOk |-> TRUE, runs |-> 0]

Init ==
    /\ row = NULL /\ file = NULL /\ uploads = 0
    /\ jobs = << >> /\ exec = << >>
    /\ flash = [d \in Device |-> NULL]
    /\ boot = [d \in Device |-> {"old"}] /\ saved = boot
    /\ up = [d \in Device |-> TRUE]
    /\ overlap = {}
    /\ todo = [q \in Request |-> << >>]
    /\ installMode \in SUBSET Device

-----------------------------------------------------------------------------
(* Requests.  A handler is the list of statements it has left. *)

Do(op, arg) == [op |-> op, arg |-> arg]
At(q, op) == todo[q] # << >> /\ Head(todo[q]).op = op
Arg(q) == Head(todo[q]).arg
Continue(q, list) == todo' = [todo EXCEPT ![q] = list]
Skip(q) == Continue(q, Tail(todo[q]))
Drop(q) == Continue(q, << >>)
Free(q) == todo[q] = << >>

\* A statement is rejected, or the replica dies: the rest is not executed.
RequestFails(q) ==
    /\ ~Free(q)
    /\ Drop(q)
    /\ UNCHANGED <<registry, jobs, exec, device, overlap>>

\* createJob()
NewJob(image, devs) ==
    /\ Len(jobs) < MaxJobs
    /\ jobs' = Append(jobs, [image |-> image, devs |-> devs, status |-> "pending"])
    /\ exec' = Append(exec, Idle)

\* POST /api/firmware: the upload is streamed to its place, then registered.
Upload(q, c) ==
    /\ Free(q) /\ uploads < MaxUploads
    /\ Continue(q, <<Do("store", c), Do("insertImage", c)>>)
    /\ uploads' = uploads + 1
    /\ UNCHANGED <<row, file, jobs, exec, device, overlap>>

Store(q) ==
    /\ At(q, "store")
    /\ file' = Arg(q)
    /\ Skip(q)
    /\ UNCHANGED <<row, uploads, jobs, exec, device, overlap>>

\* filename is UNIQUE: the insert of a second image with the name fails.
InsertImage(q) ==
    /\ At(q, "insertImage")
    /\ row' = IF row = NULL THEN [id |-> uploads, md5 |-> Arg(q)] ELSE row
    /\ Skip(q)
    /\ UNCHANGED <<file, uploads, jobs, exec, device, overlap>>

\* DELETE /api/firmware/:imageId
DeleteImage(q) ==
    /\ Free(q) /\ row # NULL
    /\ Continue(q, <<Do("activeJobs", row.id), Do("deleteRow", row.id), Do("unlink", row.id)>>)
    /\ UNCHANGED <<registry, jobs, exec, device, overlap>>

\* Mutant: only running jobs keep an image.
ActiveJobsRunningOnly(q) ==
    /\ At(q, "activeJobs")
    /\ IF \E j \in JobId : jobs[j].image = Arg(q) /\ jobs[j].status = "running"
       THEN Drop(q) ELSE Skip(q)
    /\ UNCHANGED <<registry, jobs, exec, device, overlap>>

ActiveJobs(q) ==
    /\ At(q, "activeJobs")
    /\ IF \E j \in JobId : jobs[j].image = Arg(q) /\ jobs[j].status \in Active
       THEN Drop(q) ELSE Skip(q)
    /\ UNCHANGED <<registry, jobs, exec, device, overlap>>

DeleteRow(q) ==
    /\ At(q, "deleteRow")
    /\ row' = IF row # NULL /\ row.id = Arg(q) THEN NULL ELSE row
    /\ Skip(q)
    /\ UNCHANGED <<file, uploads, jobs, exec, device, overlap>>

Unlink(q) ==
    /\ At(q, "unlink")
    /\ file' = NULL
    /\ Skip(q)
    /\ UNCHANGED <<row, uploads, jobs, exec, device, overlap>>

\* POST /api/firmware/:imageId/upgrade; the page lists registered images only.
ScheduleUpgrade(q, devs) ==
    /\ Free(q) /\ row # NULL
    /\ NewJob(row.id, devs)
    /\ UNCHANGED <<registry, device, overlap, todo>>

\* POST /api/jobs/:id/cancel and retryJob().
CancelUpgrade(q, j) ==
    /\ Free(q) /\ jobs[j].status = "pending"
    /\ jobs' = [jobs EXCEPT ![j].status = "cancelled"]
    /\ UNCHANGED <<registry, exec, device, overlap, todo>>

RetryUpgrade(q, j) ==
    /\ Free(q) /\ jobs[j].status = "failed" /\ exec[j].runs < MaxRuns
    /\ jobs' = [jobs EXCEPT ![j].status = "pending"]
    /\ UNCHANGED <<registry, exec, device, overlap, todo>>

-----------------------------------------------------------------------------
(* Executions. *)

\* Devices that executions other than j are working on.
Busy(j) == {exec[k].dev : k \in {k \in JobId \ {j} : jobs[k].status = "running"}}

\* The device loop of execution e of job j comes to device d.
Turn(j, e, d) ==
    /\ exec' = [exec EXCEPT ![j] = [e EXCEPT !.pc = "lookup", !.dev = d, !.left = @ \ {d}]]
    /\ overlap' = IF d \in Busy(j) THEN overlap \cup {d} ELSE overlap

\* claimNextJob() and the begin of the device loop.
ClaimUpgrade(j) ==
    /\ jobs[j].status = "pending" /\ exec[j].runs < MaxRuns
    /\ jobs' = [jobs EXCEPT ![j].status = "running"]
    /\ \E d \in jobs[j].devs :
          Turn(j, [Idle EXCEPT !.left = jobs[j].devs, !.runs = exec[j].runs + 1], d)
    /\ UNCHANGED <<registry, device, todo>>

\* Mutant: a device that failed is never left.
NextDeviceOkOnly(j) ==
    /\ jobs[j].status = "running" /\ exec[j].pc = "ok"
    /\ IF exec[j].left = {}
       THEN /\ jobs' = [jobs EXCEPT ![j].status = "done"]
            /\ exec' = [exec EXCEPT ![j] = [Idle EXCEPT !.runs = exec[j].runs]]
            /\ UNCHANGED overlap
       ELSE /\ \E d \in exec[j].left : Turn(j, exec[j], d)
            /\ UNCHANGED jobs
    /\ UNCHANGED <<registry, device, todo>>

\* The device is done: the next one, or the end of the job.
NextDevice(j) ==
    /\ jobs[j].status = "running" /\ exec[j].pc \in {"ok", "failed"}
    /\ LET allOk == exec[j].allOk /\ exec[j].pc = "ok" IN
       IF exec[j].left = {}
       THEN /\ jobs' = [jobs EXCEPT ![j].status = IF allOk THEN "done" ELSE "failed"]
            /\ exec' = [exec EXCEPT ![j] = [Idle EXCEPT !.runs = exec[j].runs]]
            /\ UNCHANGED overlap
       ELSE /\ \E d \in exec[j].left : Turn(j, [exec[j] EXCEPT !.allOk = allOk], d)
            /\ UNCHANGED jobs
    /\ UNCHANGED <<registry, device, todo>>

\* Execution j takes the step pc and goes on at next.
Step(j, pc, next) ==
    /\ jobs[j].status = "running" /\ exec[j].pc = pc
    /\ exec' = [exec EXCEPT ![j].pc = next]
    /\ UNCHANGED <<registry, jobs, overlap, todo>>

Dev(j) == exec[j].dev

\* A step that needs the device to answer.
Exchange(j, pc, next) == Step(j, pc, next) /\ up[Dev(j)]

Md5Matches(j) == flash[Dev(j)] = exec[j].md5

\* An exchange fails or times out and the error ends this device's upgrade.
StepFails(j) ==
    /\ exec[j].pc \notin {"idle", "ok", "failed"}
    /\ Step(j, exec[j].pc, "failed")
    /\ UNCHANGED device

\* Mutant: the execution goes on although its job has been ended.
WorkerDiesGoesOn(j) ==
    /\ jobs[j].status = "running"
    /\ jobs' = [jobs EXCEPT ![j].status = "failed"]
    /\ UNCHANGED <<registry, exec, device, overlap, todo>>

\* The worker dies and the reaper ends the job, which has no attempt left.
WorkerDies(j) ==
    /\ jobs[j].status = "running"
    /\ jobs' = [jobs EXCEPT ![j].status = "failed"]
    /\ exec' = [exec EXCEPT ![j] = [Idle EXCEPT !.runs = exec[j].runs]]
    /\ UNCHANGED <<registry, device, overlap, todo>>

\* The image of the job is looked up; the session is opened.
Lookup(j) ==
    /\ jobs[j].status = "running" /\ exec[j].pc = "lookup"
    /\ exec' = [exec EXCEPT ![j] = IF row # NULL /\ row.id = jobs[j].image
                                   THEN [@ EXCEPT !.md5 = row.md5, !.pc = "preflight"]
                                   ELSE [@ EXCEPT !.pc = "failed"]]
    /\ UNCHANGED <<registry, jobs, device, overlap, todo>>

Verified(j) == IF Dev(j) \in installMode THEN "install" ELSE "noBoot"

\* "dir flash:", and "verify /md5" of a file that is there already.
Preflight(j) ==
    /\ Exchange(j, "preflight", IF flash[Dev(j)] = NULL THEN "copy"
                                ELSE IF Md5Matches(j) THEN Verified(j) ELSE "delete")
    /\ UNCHANGED device

DeleteFromFlash(j) ==
    /\ Exchange(j, "delete", "copy")
    /\ flash' = [flash EXCEPT ![Dev(j)] = NULL]
    /\ UNCHANGED <<boot, saved, up>>

\* copy http://...: GET /api/firmware/files/:filename serves registered names only.
StartCopy(j) ==
    /\ jobs[j].status = "running" /\ exec[j].pc = "copy" /\ up[Dev(j)]
    /\ IF row = NULL \/ file = NULL
       THEN exec' = [exec EXCEPT ![j].pc = "failed"] /\ UNCHANGED flash
       ELSE /\ exec' = [exec EXCEPT ![j].pc = "copying", ![j].got = file]
            /\ flash' = [flash EXCEPT ![Dev(j)] = "partial"]
    /\ UNCHANGED <<registry, jobs, boot, saved, up, overlap, todo>>

\* A file that was replaced meanwhile may have been read in parts.
FinishCopy(j) ==
    /\ Exchange(j, "copying", "verify")
    /\ \E c \in {exec[j].got} \cup (IF file \in {exec[j].got, NULL} THEN {} ELSE {"partial"}) :
          flash' = [flash EXCEPT ![Dev(j)] = c]
    /\ UNCHANGED <<boot, saved, up>>

\* Mutant: the result of verify is not looked at.
VerifyIgnored(j) ==
    /\ Exchange(j, "verify", Verified(j))
    /\ UNCHANGED device

Verify(j) ==
    /\ Exchange(j, "verify", IF Md5Matches(j) THEN Verified(j) ELSE "failed")
    /\ UNCHANGED device

\* 'no boot system', then 'boot system flash:<file>', then write memory.
NoBoot(j) ==
    /\ Exchange(j, "noBoot", "setBoot")
    /\ boot' = [boot EXCEPT ![Dev(j)] = {}]
    /\ UNCHANGED <<flash, saved, up>>

SetBoot(j) ==
    /\ Exchange(j, "setBoot", "save")
    /\ boot' = [boot EXCEPT ![Dev(j)] = @ \cup {"new"}]
    /\ UNCHANGED <<flash, saved, up>>

Save(j) ==
    /\ Exchange(j, "save", "reload")
    /\ saved' = [saved EXCEPT ![Dev(j)] = boot[Dev(j)]]
    /\ UNCHANGED <<flash, boot, up>>

Reload(j) ==
    /\ Exchange(j, "reload", "waiting")
    /\ up' = [up EXCEPT ![Dev(j)] = FALSE]
    /\ UNCHANGED <<flash, boot, saved>>

\* Install mode activates, saves and reloads within one command.
Install(j) ==
    /\ Exchange(j, "install", "ok")
    /\ up' = [up EXCEPT ![Dev(j)] = FALSE]
    /\ boot' = [boot EXCEPT ![Dev(j)] = {"new"}]
    /\ saved' = [saved EXCEPT ![Dev(j)] = {"new"}]
    /\ UNCHANGED flash

\* The device boots, unless its statement names a file it cannot boot from.
ComesBack(d) ==
    /\ ~up[d]
    /\ saved[d] = {"new"} => flash[d] \in Content
    /\ up' = [up EXCEPT ![d] = TRUE]
    /\ boot' = [boot EXCEPT ![d] = saved[d]]
    /\ UNCHANGED <<registry, jobs, exec, flash, saved, overlap, todo>>

\* waitForReboot() reaches the device, or gives up (StepFails).
SeenBack(j) ==
    /\ Exchange(j, "waiting", "ok")
    /\ UNCHANGED device

-----------------------------------------------------------------------------
StepOf(j) ==
    \/ Lookup(j) \/ Preflight(j) \/ DeleteFromFlash(j)
    \/ StartCopy(j) \/ FinishCopy(j) \/ Verify(j) \/ NoBoot(j) \/ SetBoot(j)
    \/ Save(j) \/ Reload(j) \/ Install(j) \/ SeenBack(j) \/ StepFails(j) \/ NextDevice(j)

RequestStep(q) ==
    \/ Store(q) \/ InsertImage(q) \/ ActiveJobs(q) \/ DeleteRow(q) \/ Unlink(q)

Next ==
    /\ UNCHANGED installMode
    /\ \/ \E q \in Request :
             \/ \E c \in Content : Upload(q, c)
             \/ DeleteImage(q)
             \/ RequestStep(q)
             \/ RequestFails(q)
             \/ \E devs \in (SUBSET Device) \ {{}} : ScheduleUpgrade(q, devs)
             \/ \E j \in JobId : CancelUpgrade(q, j) \/ RetryUpgrade(q, j)
       \/ \E j \in JobId : ClaimUpgrade(j) \/ StepOf(j) \/ WorkerDies(j)
       \/ \E d \in Device : ComesBack(d)

Spec == Init /\ [][Next]_vars

\* Every exchange of an upgrade ends or times out, and the executions of a
\* replica go on; administrators owe nobody anything.
FairSpec == Spec /\ \A j \in 1..MaxJobs : WF_state(j \in JobId /\ StepOf(j))

-----------------------------------------------------------------------------
TypeOK ==
    /\ row = NULL \/ row \in [id : 1..MaxUploads, md5 : Content]
    /\ file \in Content \cup {NULL}
    /\ \A j \in JobId :
          /\ jobs[j].status \in {"pending", "running", "done", "failed", "cancelled"}
          /\ jobs[j].devs \in SUBSET Device
          /\ exec[j].pc \in Steps \cup {"idle"}
          /\ exec[j].md5 \in Content \cup {NULL}
          /\ (jobs[j].status = "running") = (exec[j].pc # "idle")
    /\ flash \in [Device -> Content \cup {NULL, "partial"}]
    /\ boot \in [Device -> SUBSET {"old", "new"}]
    /\ saved \in [Device -> SUBSET {"old", "new"}]
    /\ up \in [Device -> BOOLEAN]
    /\ overlap \subseteq Device

\* A device that no two upgrades have worked on at once is only ever reloaded
\* into a complete image: whatever was on its flash, was replaced on the volume
\* while it copied, or broke off before, has been verified or copied again.
ReloadsIntoVerifiedImage ==
    [][\A d \in Device :
          up[d] /\ ~up'[d] /\ d \notin overlap => saved'[d] = {"new"} /\ flash[d] \in Content]_vars

\* An image is not deleted while a job that names it is waiting or running
\* (DELETE /api/firmware/:imageId; requests that do not overlap).
DeleteSparesActiveJobs ==
    [][row # NULL /\ row' = NULL =>
          ~\E j \in JobId : jobs[j].image = row.id /\ jobs[j].status \in Active]_vars

\* A running upgrade job comes to an end, whatever the device does.
Running(j) == j \in JobId /\ jobs[j].status = "running"
UpgradesEnd == \A j \in 1..MaxJobs : []<>~Running(j)
=============================================================================
