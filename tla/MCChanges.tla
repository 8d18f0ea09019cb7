------------------------------- MODULE MCChanges -------------------------------
(* Changes of configurations, for TLC.  `part` says what a behaviour is about: *)
(* safe apply on one device, or backups and their history for two.             *)
EXTENDS CommitConfirm, TLC

CONSTANTS Device, Active, Line, NULL, Overlap, MaxChanges, MaxWrites, MaxBreaks

\* NULL is no configuration, and only devices there are change.
ASSUME HistoryAssumption == /\ \A config \in SUBSET Line : config # NULL
                            /\ Active \subseteq Device

VARIABLES part, live, rows, disk, index, commits, req, changes, writes, breaks, was, spoiled

historyVars == <<live, rows, disk, index, commits, req, changes, writes, breaks, was, spoiled>>

History == INSTANCE ConfigHistory WITH SameName <- FALSE

all == <<part, vars, historyVars>>

\* The devices differ.
ChangesInit ==
    /\ part \in {"apply", "history"} /\ Init /\ History!Init
    /\ live = [d \in Device |-> IF d \in Active THEN {CHOOSE l \in Line : TRUE} ELSE Line]

ChangesNext ==
    /\ UNCHANGED part
    /\ \/ part = "apply" /\ Next /\ UNCHANGED historyVars
       \/ part = "history" /\ History!Next /\ UNCHANGED vars

\* The fairness of CommitConfirm and ConfigHistory.
ChangesSpec ==
    /\ ChangesInit /\ [][ChangesNext]_all
    /\ SF_vars(part = "apply" /\ Tick)
    /\ \A p \in Push : WF_vars(part = "apply" /\ PushStep(p))
    /\ \A a \in Acceptor : WF_vars(part = "apply" /\ AcceptStep(a))
    /\ \A r \in History!Request :
         WF_historyVars(/\ part = "history"
                        /\ \/ History!BackupStep(r) \/ History!DevicePushConfig(r)
                           \/ History!RequestFails(r))
    /\ \A d \in Device :
         SF_historyVars(/\ part = "history"
                        /\ \E r \in History!Request : History!Dev(r) = d /\ History!Backup(r))

\* The type invariants, and the safety of ConfigHistory: commits show the rows they belong
\* to, the latest row is the latest backup, and what is pushed or rolled back can be undone
\* from the device's own history.
HistoryIsTrue ==
    /\ TypeOK /\ History!TypeOK
    /\ History!ShaShowsBackup
    /\ History!HistoryHoldsLatest
    /\ History!PushIsReversible
    /\ History!ReplayIsOwn
\* In behaviours about backups, the history comes to hold what the devices run.
BackupsCatchUp == <>[](part = "history" => History!CaughtUp)
=============================================================================
