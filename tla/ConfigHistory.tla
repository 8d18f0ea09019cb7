----------------------------- MODULE ConfigHistory -----------------------------
(***************************************************************************)
(* Configuration backups and their git history: backupDevice() of           *)
(* configService.ts, commitConfig() of configVersioning.ts and the writes    *)
(* that take a backup first (push, restore and rollback of routes/          *)
(* configs.ts, push_config of jobService.ts).                               *)
(*                                                                         *)
(* A configuration is the set of its lines; replaying one adds lines and    *)
(* removes none.  Devices are Cisco switches: the routes refuse to replay   *)
(* onto the other vendors.  All devices share one repository, with one      *)
(* index and one HEAD, and a request leaves off between any two commands.   *)
(***************************************************************************)
EXTENDS Naturals, Sequences, SequencesExt

CONSTANTS
    Device,
    Line,
    NULL,
    SameName,     \* TRUE: the devices have one site and one hostname (say, none yet)
    Overlap,      \* callers of backupDevice() there may be at once for a device
    Active,       \* bound: the devices that are changed from outside or written to
    MaxChanges,   \* bound: changes from outside
    MaxWrites,    \* bound: pushes, restores and rollbacks asked for
    MaxBreaks     \* bound: failing commands

Config == (SUBSET Line) \ {{}}
Request == Device \X (1..Overlap)
Dev(r) == r[1]

VARIABLES
    live,         \* live[d]: the device's running configuration
    rows,         \* rows[d]: its config_backups, oldest first
    disk,         \* disk[f]: the file in the working tree
    index,        \* index[f]: the file as staged
    commits,      \* the commits, oldest first: their tree, and whom they name
    req,          \* req[r]: what the caller is at, and with what in hand
    changes,      \* changes from outside so far
    writes,       \* writes asked for so far
    breaks,       \* failed commands so far
    was,          \* history: was[d] are the configurations d has had
    spoiled       \* history: a git command, or a request under way, has failed

repo == <<disk, index, commits>>
vars == <<live, rows, repo, req, changes, writes, breaks, was, spoiled>>

\* Mutant: the file is named after the site alone.
PathOfSite(d) == "unassigned"

\* configPath()
PathOf(d) == IF SameName THEN "unknown.cfg" ELSE d
File == {PathOf(d) : d \in Device}
NoFile == [f \in File |-> NULL]
Head_ == IF commits = << >> THEN NoFile ELSE Last(commits).tree

Idle == [pc |-> "idle", content |-> NULL, sha |-> NULL, push |-> {}]

Init ==
    /\ live \in [Device -> Config]
    /\ rows = [d \in Device |-> << >>]
    /\ disk = NoFile /\ index = NoFile /\ commits = << >>
    /\ req = [r \in Request |-> Idle]
    /\ changes = 0 /\ writes = 0 /\ breaks = 0
    /\ was = [d \in Device |-> {live[d]}]
    /\ spoiled = FALSE

-----------------------------------------------------------------------------
Step(r, from, to) == req[r].pc = from /\ req' = [req EXCEPT ![r].pc = to]
Contents(d) == {rows[d][i].content : i \in DOMAIN rows[d]}
Latest(d) == IF rows[d] = << >> THEN NULL ELSE Last(rows[d]).content

\* What follows the backup: the write it was taken for, if any.
After(r) == IF req[r].push = {} THEN Idle ELSE [req[r] EXCEPT !.pc = "push"]

Changed(d, config) ==
    /\ live' = [live EXCEPT ![d] = config]
    /\ was' = [was EXCEPT ![d] = @ \cup {config}]

\* The switch is configured from outside SwitchPilot.
OutOfBand(d, config) ==
    /\ changes < MaxChanges /\ changes' = changes + 1
    /\ live[d] # config
    /\ Changed(d, config)
    /\ UNCHANGED <<rows, repo, req, writes, breaks, spoiled>>

\* A backup is asked for, `lines` being what is to be written to the device after it.
Ask(r, lines) ==
    /\ req[r].pc = "idle"
    /\ req' = [req EXCEPT ![r] = [Idle EXCEPT !.pc = "read", !.push = lines]]
    /\ writes' = IF lines = {} THEN writes ELSE writes + 1
    /\ writes' <= MaxWrites
    /\ UNCHANGED <<live, rows, repo, changes, breaks, was, spoiled>>

Backup(r) == Ask(r, {})
PushConfig(r) == \E l \in Line : Ask(r, {l})
Restore(r) == \E c \in Contents(Dev(r)) : Ask(r, c)

\* gitShow(): the device's current path, at any commit.
Rollback(r) ==
    \E k \in DOMAIN commits :
        /\ commits[k].tree[PathOf(Dev(r))] # NULL
        /\ Ask(r, commits[k].tree[PathOf(Dev(r))])

ReadConfig(r) ==
    /\ req[r].pc = "read"
    /\ req' = [req EXCEPT ![r].pc = "compare", ![r].content = live[Dev(r)]]
    /\ UNCHANGED <<live, rows, repo, changes, writes, breaks, was, spoiled>>

\* The latest row has the same hash: nothing is stored.
Compare(r) ==
    /\ req[r].pc = "compare"
    /\ req' = [req EXCEPT ![r] = IF Latest(Dev(r)) = req[r].content THEN After(r)
                                 ELSE [@ EXCEPT !.pc = "write"]]
    /\ UNCHANGED <<live, rows, repo, changes, writes, breaks, was, spoiled>>

-----------------------------------------------------------------------------
(* commitConfig(). *)

WriteFile(r) ==
    /\ Step(r, "write", "add")
    /\ disk' = [disk EXCEPT ![PathOf(Dev(r))] = req[r].content]
    /\ UNCHANGED <<live, rows, index, commits, changes, writes, breaks, was, spoiled>>

\* Mutant: the file is not staged.
AddSkipped(r) ==
    /\ Step(r, "add", "status")
    /\ UNCHANGED <<live, rows, repo, changes, writes, breaks, was, spoiled>>

Add(r) ==
    /\ Step(r, "add", "status")
    /\ index' = [index EXCEPT ![PathOf(Dev(r))] = disk[PathOf(Dev(r))]]
    /\ UNCHANGED <<live, rows, disk, commits, changes, writes, breaks, was, spoiled>>

\* Mutant: with nothing to commit there is nothing to store either.
StatusCleanEnds(r) ==
    /\ req[r].pc = "status"
    /\ LET f == PathOf(Dev(r))
           clean == index[f] = Head_[f] /\ disk[f] = index[f]
       IN  req' = [req EXCEPT ![r] = IF clean THEN After(r) ELSE [@ EXCEPT !.pc = "commit"]]
    /\ UNCHANGED <<live, rows, repo, changes, writes, breaks, was, spoiled>>

\* An empty status: no commit, and no SHA.
Status(r) ==
    /\ req[r].pc = "status"
    /\ LET f == PathOf(Dev(r))
           clean == index[f] = Head_[f] /\ disk[f] = index[f]
       IN  req' = [req EXCEPT ![r].pc = IF clean THEN "insert" ELSE "commit"]
    /\ UNCHANGED <<live, rows, repo, changes, writes, breaks, was, spoiled>>

\* The commit takes the whole index; with nothing staged git fails.
Commit(r) ==
    /\ index # Head_
    /\ Step(r, "commit", "revParse")
    /\ commits' = Append(commits, [dev |-> Dev(r), tree |-> index])
    /\ UNCHANGED <<live, rows, disk, index, changes, writes, breaks, was, spoiled>>

NothingToCommit(r) ==
    /\ index = Head_
    /\ Step(r, "commit", "insert")
    /\ UNCHANGED <<live, rows, repo, changes, writes, breaks, was, spoiled>>

\* Mutant: off by one.
RevParseNext(r) ==
    /\ req[r].pc = "revParse"
    /\ req' = [req EXCEPT ![r].pc = "insert", ![r].sha = Len(commits) + 1]
    /\ UNCHANGED <<live, rows, repo, changes, writes, breaks, was, spoiled>>

RevParse(r) ==
    /\ req[r].pc = "revParse"
    /\ req' = [req EXCEPT ![r].pc = "insert", ![r].sha = Len(commits)]
    /\ UNCHANGED <<live, rows, repo, changes, writes, breaks, was, spoiled>>

\* Mutant: a git error ends the backup as if nothing had changed.
GitFailsEndsBackup(r) ==
    /\ req[r].pc \in {"write", "add", "status", "commit", "revParse"}
    /\ breaks < MaxBreaks /\ breaks' = breaks + 1
    /\ req' = [req EXCEPT ![r] = After(r)]
    /\ spoiled' = TRUE
    /\ UNCHANGED <<live, rows, repo, changes, writes, was>>

\* A git command fails (say, index.lock is taken): the row is stored without a SHA.
GitFails(r) ==
    /\ req[r].pc \in {"write", "add", "status", "commit", "revParse"}
    /\ breaks < MaxBreaks /\ breaks' = breaks + 1
    /\ req' = [req EXCEPT ![r].pc = "insert", ![r].sha = NULL]
    /\ spoiled' = TRUE
    /\ UNCHANGED <<live, rows, repo, changes, writes, was>>

-----------------------------------------------------------------------------
\* Mutant: the content is read again for the row.
InsertRowFresh(r) ==
    /\ req[r].pc = "insert"
    /\ rows' = [rows EXCEPT ![Dev(r)] =
                  Append(@, [content |-> live[Dev(r)], sha |-> req[r].sha])]
    /\ req' = [req EXCEPT ![r] = After(r)]
    /\ UNCHANGED <<live, repo, changes, writes, breaks, was, spoiled>>

InsertRow(r) ==
    /\ req[r].pc = "insert"
    /\ rows' = [rows EXCEPT ![Dev(r)] =
                  Append(@, [content |-> req[r].content, sha |-> req[r].sha])]
    /\ req' = [req EXCEPT ![r] = After(r)]
    /\ UNCHANGED <<live, repo, changes, writes, breaks, was, spoiled>>

\* devicePushConfig(), complete or broken off after some lines.
DevicePushConfig(r) ==
    /\ req[r].pc = "push"
    /\ \E done \in SUBSET req[r].push : Changed(Dev(r), live[Dev(r)] \cup done)
    /\ req' = [req EXCEPT ![r] = Idle]
    /\ UNCHANGED <<rows, repo, changes, writes, breaks, spoiled>>

\* The device or the database does not answer, or the replica dies.
RequestFails(r) ==
    /\ req[r].pc # "idle"
    /\ breaks < MaxBreaks /\ breaks' = breaks + 1
    /\ req' = [req EXCEPT ![r] = Idle]
    /\ spoiled' = (spoiled \/ req[r].pc \notin {"read", "compare", "write", "push"})
    /\ UNCHANGED <<live, rows, repo, changes, writes, was>>

BackupStep(r) ==
    \/ ReadConfig(r) \/ Compare(r) \/ WriteFile(r) \/ Add(r) \/ Status(r)
    \/ Commit(r) \/ NothingToCommit(r) \/ RevParse(r) \/ InsertRow(r)

Next ==
    \/ \E d \in Active, c \in Config : OutOfBand(d, c)
    \/ \E r \in Request :
          \/ Backup(r)
          \/ Dev(r) \in Active /\ (PushConfig(r) \/ Restore(r) \/ Rollback(r))
          \/ BackupStep(r) \/ DevicePushConfig(r) \/ GitFails(r) \/ RequestFails(r)

Spec == Init /\ [][Next]_vars

\* Commands end, and the nightly sweep comes back to every device (scheduler.ts).
Fairness ==
    /\ \A r \in Request : WF_vars(BackupStep(r) \/ DevicePushConfig(r) \/ RequestFails(r))
    /\ \A d \in Device : SF_vars(\E r \in Request : Dev(r) = d /\ Backup(r))

FairSpec == Spec /\ Fairness

-----------------------------------------------------------------------------
TypeOK ==
    /\ live \in [Device -> Config]
    /\ \A d \in Device : rows[d] \in Seq([content : Config, sha : 1..Len(commits) \cup {NULL}])
    /\ disk \in [File -> Config \cup {NULL}]
    /\ index \in [File -> Config \cup {NULL}]
    /\ \A k \in DOMAIN commits : commits[k].tree \in [File -> Config \cup {NULL}]
    /\ \A r \in Request : req[r].content \in Config \cup {NULL} /\ req[r].push \subseteq Line

\* The commit a backup names shows the configuration of that backup, although other
\* devices stage and commit into the same index between any two of its commands.
ShaShowsBackup ==
    \A d \in Device : \A i \in DOMAIN rows[d] :
        rows[d][i].sha # NULL => commits[rows[d][i].sha].tree[PathOf(d)] = rows[d][i].content

\* Once its callers are done, HEAD has the latest backup of every device, whoever
\* committed it; unless a git command, or the request, failed on the way.
HistoryHoldsLatest ==
    ~spoiled => \A d \in Device :
        (\A r \in Request : Dev(r) = d => req[r].pc = "idle") => Head_[PathOf(d)] = Latest(d)

\* "backup before change so every push is reversible" (routes/configs.ts:320): when
\* lines go to the device, the configuration read for the push is stored, whatever
\* became of git.
PushIsReversible ==
    \A r \in Request : req[r].pc = "push" => req[r].content \in Contents(Dev(r))

\* A restore or a rollback replays a configuration the device itself has had.
ReplayIsOwn ==
    \A r \in Request : req[r].pc = "push" =>
        \/ \E l \in Line : req[r].push = {l}
        \/ req[r].push \in was[Dev(r)]

\* When nobody changes the switches any more, the latest backups come to be what
\* they run, whatever failed before.
CaughtUp == \A d \in Device : Latest(d) = live[d]
BackupsCatchUp == <>[]CaughtUp

\* A commit changes the file of the device it is made for, and is attributed to whoever
\* took that backup (configVersioning.ts:50-53).
CommitIsOneDevice ==
    [][commits' # commits =>
          \A f \in File : Last(commits').tree[f] # Head_[f] => f = PathOf(Last(commits').dev)]_vars
=============================================================================
