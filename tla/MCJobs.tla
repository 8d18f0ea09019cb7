-------------------------------- MODULE MCJobs --------------------------------
(* The job engine and the upgrades it carries out, for TLC.  A behaviour is    *)
(* one of two jobs whose executions are heard in time, of a job of two devices *)
(* whose executions may outlive their heartbeats ("zombie"), or of upgrades of *)
(* devices that boot from a file or are in install mode ("firmware").  `part`  *)
(* says which, and the rest stands still.                                      *)
EXTENDS JobQueue, TLC

CONSTANTS ZombieJob, ZombieDevices,
          Device, Content, Request, MaxUploads, MaxUpgrades, MaxRuns

ASSUME ZombieAssumption == ZombieDevices \in Nat \ {0}
ASSUME UploadsAssumption == MaxUploads \in Nat

VARIABLES part, zjobs, zresults, zruns, zcrashes,
          row, file, uploads, upgrades, exec, flash, boot, saved, up, overlap, work,
          installMode

zvars == <<zjobs, zresults, zruns, zcrashes>>
firmware == <<row, file, uploads, upgrades, exec, flash, boot, saved, up, overlap, work>>
all == <<part, vars, zvars, firmware, installMode>>

Z == INSTANCE JobQueue WITH
    jobs <- zjobs, results <- zresults, runs <- zruns, crashes <- zcrashes,
    Job <- ZombieJob, NumDevices <- ZombieDevices, ReliableBeats <- FALSE

Upgrades == INSTANCE Firmware WITH MaxJobs <- MaxUpgrades, jobs <- upgrades, todo <- work

JobsInit ==
    /\ part \in {"reliable", "zombie", "firmware"} /\ Init /\ Z!Init /\ Upgrades!Init
    /\ part # "firmware" => installMode = {}

JobsNext ==
    /\ UNCHANGED part
    /\ \/ part = "reliable" /\ Next /\ UNCHANGED <<zvars, firmware, installMode>>
       \/ part = "zombie" /\ Z!Next /\ UNCHANGED <<vars, firmware, installMode>>
       \/ part = "firmware" /\ Upgrades!Next /\ UNCHANGED <<vars, zvars>>

\* JobQueue's fairness asks nothing before the first job is created.
JobsSpec ==
    /\ JobsInit /\ [][JobsNext]_all
    /\ Fairness
    /\ \A j \in 1..MaxUpgrades :
          WF_firmware(part = "firmware" /\ j \in Upgrades!JobId /\ Upgrades!StepOf(j))

-----------------------------------------------------------------------------
\* What holds although executions outlive their heartbeats and overlap with their
\* successors: the lock columns stay consistent, attempt numbers tell the executions of a
\* job apart, and "done" still means that one attempt succeeded on every device.
ZombiesDoNoHarm == TypeOK /\ Z!TypeOK /\ Z!HistoryInv

\* The properties of Firmware.
ImagesAreKept ==
    /\ []Upgrades!TypeOK
    /\ Upgrades!ReloadsIntoVerifiedImage /\ Upgrades!DeleteSparesActiveJobs
UpgradesEnd == Upgrades!UpgradesEnd
=============================================================================
