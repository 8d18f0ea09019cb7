-------------------------------- MODULE Campaign --------------------------------
(***************************************************************************)
(* One staged firmware campaign (routes/campaigns.ts) and the upgrade jobs  *)
(* it creates.  What a job does to its devices is in Firmware, how it is    *)
(* run in JobQueue; here it has a status.  A ring is its position in rings. *)
(*                                                                         *)
(* A request is the list of statements it has left; what it has read goes   *)
(* along in their arguments.                                                *)
(***************************************************************************)
EXTENDS Naturals, Sequences

CONSTANTS
    Device,
    Request,     \* requests that may be under way at once
    Rings,       \* length of the campaign's list of rings, at least one
    NULL,
    MaxMoves,    \* bound: devices moved to another ring
    MaxJobs      \* bound: jobs created

ASSUME RingsAssumption == Rings \in Nat \ {0}

VARIABLES
    camp,        \* the row: status, ring (current_ring), started (ring_started_at)
    ringOf,      \* ringOf[d]: devices.ring, as a position in rings (0: none of them, or
                 \* the device's status is 'unknown')
    seeded,      \* firmware_campaign_results: [ring, dev]; their status stays 'pending'
    jobs,        \* the campaign's upgrade jobs, oldest first
    todo,        \* todo[q]: the statements left to request q
    moves,       \* devices moved so far
    broken       \* history: a request has broken off

vars == <<camp, ringOf, seeded, jobs, todo, moves, broken>>

Init ==
    /\ camp = [status |-> "draft", ring |-> 1, started |-> FALSE]
    /\ ringOf \in [Device -> 0..Rings]
    /\ seeded = {} /\ jobs = << >>
    /\ todo = [q \in Request |-> << >>]
    /\ moves = 0 /\ broken = FALSE

-----------------------------------------------------------------------------
Do(op, arg) == [op |-> op, arg |-> arg]
At(q, op) == todo[q] # << >> /\ Head(todo[q]).op = op
Arg(q) == Head(todo[q]).arg
Continue(q, list) == todo' = [todo EXCEPT ![q] = list]
Skip(q) == Continue(q, Tail(todo[q]))
Free(q) == todo[q] = << >>

\* Mutant: the status is not looked at.
StartCampaignAny(q) ==
    /\ Free(q)
    /\ Continue(q, <<Do("devices", [ring |-> 1, required |-> TRUE])>>)
    /\ UNCHANGED <<camp, ringOf, seeded, jobs, moves, broken>>

\* POST .../start reads the campaign; what follows is decided by that read.
StartCampaign(q) ==
    /\ Free(q) /\ camp.status = "draft"
    /\ Continue(q, <<Do("devices", [ring |-> 1, required |-> TRUE])>>)
    /\ UNCHANGED <<camp, ringOf, seeded, jobs, moves, broken>>

\* Mutant: an aborted campaign may go on.
AdvanceCampaignAny(q) ==
    /\ Free(q) /\ camp.status \in {"running", "paused", "aborted"}
    /\ Continue(q, IF camp.ring = Rings THEN <<Do("complete", NULL)>>
                   ELSE <<Do("devices", [ring |-> camp.ring + 1, required |-> FALSE])>>)
    /\ UNCHANGED <<camp, ringOf, seeded, jobs, moves, broken>>

\* Mutant: the end of the list is missed by one.
AdvanceCampaignPastEnd(q) ==
    /\ Free(q) /\ camp.status \in {"running", "paused"}
    /\ Continue(q, IF camp.ring > Rings THEN <<Do("complete", NULL)>>
                   ELSE <<Do("devices", [ring |-> camp.ring + 1, required |-> FALSE])>>)
    /\ UNCHANGED <<camp, ringOf, seeded, jobs, moves, broken>>

\* POST .../advance; the page calls it "Resume" when the campaign is paused.
AdvanceCampaign(q) ==
    /\ Free(q) /\ camp.status \in {"running", "paused"}
    /\ Continue(q, IF camp.ring = Rings THEN <<Do("complete", NULL)>>
                   ELSE <<Do("devices", [ring |-> camp.ring + 1, required |-> FALSE])>>)
    /\ UNCHANGED <<camp, ringOf, seeded, jobs, moves, broken>>

InRing(k) == {d \in Device : ringOf[d] = k}

\* The SELECT of the ring's devices fixes who is seeded and upgraded.
SelectDevices(q) ==
    /\ At(q, "devices")
    /\ LET k == Arg(q).ring
           work == [ring |-> k, devs |-> InRing(k)]
       IN  Continue(q, IF work.devs # {}
                       THEN <<Do("running", k), Do("seed", work), Do("createJob", work)>>
                       ELSE IF Arg(q).required THEN << >> ELSE <<Do("running", k)>>)
    /\ UNCHANGED <<camp, ringOf, seeded, jobs, moves, broken>>

SetRunning(q) ==
    /\ At(q, "running")
    /\ camp' = [status |-> "running", ring |-> Arg(q), started |-> TRUE]
    /\ Skip(q)
    /\ UNCHANGED <<ringOf, seeded, jobs, moves, broken>>

\* One INSERT per device.
Missing(q) == {d \in Arg(q).devs : [ring |-> Arg(q).ring, dev |-> d] \notin seeded}

Seed(q) ==
    /\ At(q, "seed")
    /\ IF Missing(q) = {} THEN Skip(q) /\ UNCHANGED seeded
       ELSE /\ \E d \in Missing(q) : seeded' = seeded \cup {[ring |-> Arg(q).ring, dev |-> d]}
            /\ UNCHANGED todo
    /\ UNCHANGED <<camp, ringOf, jobs, moves, broken>>

\* Mutant: the job works on whoever is in the ring by now.
QueueRingLate(q) ==
    /\ At(q, "createJob") /\ Len(jobs) < MaxJobs
    /\ jobs' = Append(jobs, [ring |-> Arg(q).ring, devs |-> InRing(Arg(q).ring), status |-> "pending"])
    /\ Skip(q)
    /\ UNCHANGED <<camp, ringOf, seeded, moves, broken>>

QueueRing(q) ==
    /\ At(q, "createJob") /\ Len(jobs) < MaxJobs
    /\ jobs' = Append(jobs, [ring |-> Arg(q).ring, devs |-> Arg(q).devs, status |-> "pending"])
    /\ Skip(q)
    /\ UNCHANGED <<camp, ringOf, seeded, moves, broken>>

Complete(q) ==
    /\ At(q, "complete")
    /\ camp' = [camp EXCEPT !.status = "completed"]
    /\ Skip(q)
    /\ UNCHANGED <<ringOf, seeded, jobs, moves, broken>>

Pause(q) ==
    /\ Free(q) /\ camp.status = "running"
    /\ camp' = [camp EXCEPT !.status = "paused"]
    /\ UNCHANGED <<ringOf, seeded, jobs, todo, moves, broken>>

\* Whatever the status; the jobs are left alone.
Abort(q) ==
    /\ Free(q)
    /\ camp' = [camp EXCEPT !.status = "aborted"]
    /\ UNCHANGED <<ringOf, seeded, jobs, todo, moves, broken>>

\* PATCH /api/devices/:id/ring, from another page and at any time.
SetRing(d, k) ==
    /\ moves < MaxMoves /\ ringOf[d] # k
    /\ ringOf' = [ringOf EXCEPT ![d] = k]
    /\ moves' = moves + 1
    /\ UNCHANGED <<camp, seeded, jobs, todo, broken>>

\* A statement is rejected, or the replica dies: the rest is not executed.
RequestBreaks(q) ==
    /\ ~Free(q)
    /\ Continue(q, << >>)
    /\ broken' = TRUE
    /\ UNCHANGED <<camp, ringOf, seeded, jobs, moves>>

\* A job is claimed, ends, or is cancelled; it never looks at the campaign.
JobStatus(j) ==
    /\ \E s \in {"running", "done", "failed", "cancelled"} :
          /\ jobs[j].status = IF s \in {"running", "cancelled"} THEN "pending" ELSE "running"
          /\ jobs' = [jobs EXCEPT ![j].status = s]
    /\ UNCHANGED <<camp, ringOf, seeded, todo, moves, broken>>

CampaignStep(q) ==
    SelectDevices(q) \/ SetRunning(q) \/ Seed(q) \/ QueueRing(q) \/ Complete(q)

Next ==
    \/ \E q \in Request :
          \/ StartCampaign(q) \/ AdvanceCampaign(q) \/ CampaignStep(q)
          \/ Pause(q) \/ Abort(q) \/ RequestBreaks(q)
    \/ \E d \in Device, k \in 0..Rings : SetRing(d, k)
    \/ \E j \in DOMAIN jobs : JobStatus(j)

Spec == Init /\ [][Next]_vars

-----------------------------------------------------------------------------
TypeOK ==
    /\ camp \in [status : {"draft", "running", "paused", "completed", "aborted"},
                  ring : 1..Rings, started : BOOLEAN]
    /\ ringOf \in [Device -> 0..Rings]
    /\ seeded \subseteq [ring : 1..Rings, dev : Device]
    /\ jobs \in Seq([ring : 1..Rings, devs : SUBSET Device,
                      status : {"pending", "running", "done", "failed", "cancelled"}])

\* The rings whose work has been handed to the job engine.
Queued == {jobs[j].ring : j \in DOMAIN jobs}

Promise == INSTANCE Rollout WITH
    phase  <- camp.status,
    at     <- IF camp.started THEN camp.ring ELSE 0,
    handed <- Queued

\* The campaign is a staged rollout, for one request at a time: rings in order,
\* each handed out while the campaign runs, an abort is final.
CampaignIsRollout == Promise!Spec

\* No ring has two upgrade jobs (one request at a time).
RingQueuedOnce == \A i, j \in DOMAIN jobs : jobs[i].ring = jobs[j].ring => i = j

\* The devices listed as results of a ring are those its job works on, unless a
\* request is under way or has broken off.
SeededAreUpgraded ==
    (\A q \in Request : Free(q)) /\ ~broken =>
        \A k \in 1..Rings :
            {s.dev : s \in {s \in seeded : s.ring = k}} =
            UNION {jobs[j].devs : j \in {j \in DOMAIN jobs : jobs[j].ring = k}}

\* The type invariant, and what a campaign has queued: its first ring is upgraded before
\* the next and no ring is queued twice.
RingsAreKept == TypeOK /\ SeededAreUpgraded /\ RingQueuedOnce

\* The page says "Resume": a paused campaign goes on with the ring it is in.
ResumeStaysInRing ==
    [][camp.status = "paused" /\ camp'.status = "running" => camp'.ring = camp.ring]_vars
=============================================================================
