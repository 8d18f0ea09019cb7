---------------------------- MODULE OperatorsProofs ---------------------------
(***************************************************************************)
(* Theorems about what operators do: about Campaign for any devices, any    *)
(* number of rings and any bounds, its types for any number of requests at  *)
(* once, and that it is a staged rollout for one request at a time; about   *)
(* the onboarding wizards, for any switches, wizards and mishaps; and about *)
(* sign-ins, pages and terminals, for any requests, replicas, mounts and    *)
(* sessions.                                                                *)
(***************************************************************************)
EXTENDS MCOperators, SequenceTheorems, TLAPS

USE RingsAssumption

-----------------------------------------------------------------------------
(* Lists of statements. *)

Selection == [ring : 1..Rings, required : BOOLEAN]
Work == [ring : 1..Rings, devs : SUBSET Device]

ThreeLeft(w) == <<Do("running", w.ring), Do("seed", w), Do("createJob", w)>>
TwoLeft(w) == <<Do("seed", w), Do("createJob", w)>>

Lists ==
    {<< >>}
    \cup {<<Do("devices", x)>> : x \in Selection}
    \cup {<<Do("running", k)>> : k \in 1..Rings}
    \cup {ThreeLeft(w) : w \in Work}
    \cup {TwoLeft(w) : w \in Work}
    \cup {<<Do("createJob", w)>> : w \in Work}
    \cup {<<Do("complete", NULL)>>}

LEMMA OneStatement ==
    ASSUME NEW op, NEW arg
    PROVE  /\ <<Do(op, arg)>> # << >> /\ Tail(<<Do(op, arg)>>) = << >>
           /\ Head(<<Do(op, arg)>>).op = op /\ Head(<<Do(op, arg)>>).arg = arg
  BY DEF Do

LEMMA UpgradeStatements ==
    ASSUME NEW w
    PROVE  /\ ThreeLeft(w) # << >> /\ Tail(ThreeLeft(w)) = TwoLeft(w)
           /\ Head(ThreeLeft(w)).op = "running" /\ Head(ThreeLeft(w)).arg = w.ring
           /\ TwoLeft(w) # << >> /\ Tail(TwoLeft(w)) = <<Do("createJob", w)>>
           /\ Head(TwoLeft(w)).op = "seed" /\ Head(TwoLeft(w)).arg = w
  BY DEF ThreeLeft, TwoLeft, Do

\* What a request does next, and what it has left after that.
LEMMA Begins ==
    ASSUME NEW l \in Lists, l # << >>
    PROVE  \/ Head(l).op = "devices" /\ Head(l).arg \in Selection /\ Tail(l) = << >>
           \/ Head(l).op = "running" /\ Head(l).arg \in 1..Rings /\ Tail(l) = << >>
           \/ /\ Head(l).op = "running"
              /\ \E w \in Work : /\ Head(l).arg = w.ring
                                 /\ Tail(l) = TwoLeft(w)
           \/ /\ Head(l).op = "seed" /\ Head(l).arg \in Work
              /\ Tail(l) = <<Do("createJob", Head(l).arg)>>
           \/ Head(l).op = "createJob" /\ Head(l).arg \in Work /\ Tail(l) = << >>
           \/ Head(l).op = "complete" /\ Tail(l) = << >>
  <1>1. CASE \E x \in Selection : l = <<Do("devices", x)>>
    BY <1>1, OneStatement
  <1>2. CASE \E k \in 1..Rings : l = <<Do("running", k)>>
    BY <1>2, OneStatement
  <1>3. ASSUME NEW w \in Work, l = ThreeLeft(w)
        PROVE  /\ Head(l).op = "running" /\ Head(l).arg = w.ring
               /\ Tail(l) = TwoLeft(w)
    BY <1>3, UpgradeStatements
  <1>4. ASSUME NEW w \in Work, l = TwoLeft(w)
        PROVE  /\ Head(l).op = "seed" /\ Head(l).arg = w
               /\ Tail(l) = <<Do("createJob", w)>>
    BY <1>4, UpgradeStatements
  <1>5. CASE \E w \in Work : l = <<Do("createJob", w)>>
    BY <1>5, OneStatement
  <1>6. CASE l = <<Do("complete", NULL)>>
    BY <1>6, OneStatement
  <1> QED BY <1>1, <1>2, <1>3, <1>4, <1>5, <1>6 DEF Lists

-----------------------------------------------------------------------------
(* Types, for any number of requests. *)

TypeInv == TypeOK /\ todo \in [Request -> Lists]

JobRow == [ring : 1..Rings, devs : SUBSET Device,
           status : {"pending", "running", "done", "failed", "cancelled"}]

LEMMA EmptyList == << >> \in Lists
  BY DEF Lists

\* A step leaves the list it has been through, or one that has been decided on.
LEMMA ListStep ==
    ASSUME TypeInv, NEW q \in Request, NEW l \in Lists, Continue(q, l)
    PROVE  todo' \in [Request -> Lists]
  BY DEF TypeInv, Continue

LEMMA TailStep ==
    ASSUME TypeInv, NEW q \in Request, todo[q] # << >>
    PROVE  Tail(todo[q]) \in Lists
  <1>1. todo[q] \in Lists
    BY DEF TypeInv
  <1>2. \A w \in Work : /\ TwoLeft(w) \in Lists
                        /\ <<Do("createJob", w)>> \in Lists
    BY DEF Lists
  <1> QED BY <1>1, <1>2, EmptyList, Begins

LEMMA TypeStep == ASSUME TypeInv, [Next]_vars PROVE TypeInv'
  <1> USE DEF TypeInv, TypeOK
  <1>1. ASSUME NEW q \in Request, StartCampaign(q) PROVE TypeInv'
    <2>1. [ring |-> 1, required |-> TRUE] \in Selection
      BY DEF Selection
    <2>2. <<Do("devices", [ring |-> 1, required |-> TRUE])>> \in Lists
      BY <2>1 DEF Lists
    <2> QED BY <1>1, <2>2, ListStep DEF StartCampaign
  <1>2. ASSUME NEW q \in Request, AdvanceCampaign(q) PROVE TypeInv'
    <2>1. <<Do("complete", NULL)>> \in Lists
      BY DEF Lists
    <2>2. camp.ring # Rings =>
            <<Do("devices", [ring |-> camp.ring + 1, required |-> FALSE])>> \in Lists
      <3>1. camp.ring # Rings => camp.ring + 1 \in 1..Rings
        OBVIOUS
      <3>2. camp.ring # Rings => [ring |-> camp.ring + 1, required |-> FALSE] \in Selection
        BY <3>1 DEF Selection
      <3> QED BY <3>2 DEF Lists
    <2> QED BY <1>2, <2>1, <2>2, ListStep DEF AdvanceCampaign
  <1>3. ASSUME NEW q \in Request, SelectDevices(q) PROVE TypeInv'
    <2> DEFINE k == Arg(q).ring
               w == [ring |-> k, devs |-> InRing(k)]
    <2>1. Arg(q) \in Selection
      BY <1>3, Begins DEF SelectDevices, At, Arg
    <2>2. k \in 1..Rings /\ w \in Work /\ w.ring = k
      BY <2>1 DEF Selection, Work, InRing
    <2>3. /\ ThreeLeft(w) \in Lists
          /\ <<Do("running", k)>> \in Lists
      BY <2>2 DEF Lists
    <2>4. ThreeLeft(w) = <<Do("running", k), Do("seed", w), Do("createJob", w)>>
      BY <2>2 DEF ThreeLeft
    <2> QED BY <1>3, <2>3, <2>4, EmptyList, ListStep DEF SelectDevices
  <1>4. ASSUME NEW q \in Request, SetRunning(q) PROVE TypeInv'
    <2>1. Arg(q) \in 1..Rings
      BY <1>4, Begins DEF SetRunning, At, Arg, Work
    <2>2. todo' \in [Request -> Lists]
      BY <1>4, TailStep, ListStep DEF SetRunning, At, Skip
    <2> QED BY <1>4, <2>1, <2>2 DEF SetRunning
  <1>5. ASSUME NEW q \in Request, Seed(q) PROVE TypeInv'
    <2>1. Arg(q) \in Work
      BY <1>5, Begins DEF Seed, At, Arg
    <2>2. todo' \in [Request -> Lists]
      BY <1>5, TailStep, ListStep DEF Seed, At, Skip
    <2>3. seeded' \subseteq [ring : 1..Rings, dev : Device]
      <3>1. CASE Missing(q) = {}
        BY <1>5, <3>1 DEF Seed
      <3>2. CASE Missing(q) # {}
        <4>1. PICK d \in Missing(q) : seeded' = seeded \cup {[ring |-> Arg(q).ring, dev |-> d]}
          BY <1>5, <3>2 DEF Seed
        <4>2. [ring |-> Arg(q).ring, dev |-> d] \in [ring : 1..Rings, dev : Device]
          BY <2>1 DEF Missing, Work
        <4> QED BY <4>1, <4>2
      <3> QED BY <3>1, <3>2
    <2> QED BY <1>5, <2>2, <2>3 DEF Seed
  <1>6. ASSUME NEW q \in Request, QueueRing(q) PROVE TypeInv'
    <2>1. Arg(q) \in Work
      BY <1>6, Begins DEF QueueRing, At, Arg
    <2>2. todo' \in [Request -> Lists]
      BY <1>6, TailStep, ListStep DEF QueueRing, At, Skip
    <2>3. [ring |-> Arg(q).ring, devs |-> Arg(q).devs, status |-> "pending"] \in JobRow
      BY <2>1 DEF Work, JobRow
    <2>4. jobs' \in Seq(JobRow)
      BY <1>6, <2>3, AppendProperties DEF QueueRing, JobRow
    <2> QED BY <1>6, <2>2, <2>4 DEF QueueRing, JobRow
  <1>7. ASSUME NEW q \in Request, Complete(q) PROVE TypeInv'
    <2>1. todo' \in [Request -> Lists]
      BY <1>7, TailStep, ListStep DEF Complete, At, Skip
    <2> QED BY <1>7, <2>1 DEF Complete
  <1>8. ASSUME NEW q \in Request, Pause(q) \/ Abort(q) PROVE TypeInv'
    BY <1>8 DEF Pause, Abort
  <1>9. ASSUME NEW q \in Request, RequestBreaks(q) PROVE TypeInv'
    BY <1>9, EmptyList, ListStep DEF RequestBreaks
  <1>10. ASSUME NEW d \in Device, NEW k \in 0..Rings, SetRing(d, k) PROVE TypeInv'
    BY <1>10 DEF SetRing
  <1>11. ASSUME NEW j \in DOMAIN jobs, JobStatus(j) PROVE TypeInv'
    <2>0. jobs \in Seq(JobRow)
      BY DEF JobRow
    <2>1. jobs \in Seq(JobRow) /\ j \in 1..Len(jobs) /\ jobs[j] \in JobRow
      BY <2>0, LenProperties, ElementOfSeq
    <2>2. \A s \in {"running", "done", "failed", "cancelled"} :
            [jobs[j] EXCEPT !.status = s] \in JobRow
      BY <2>1 DEF JobRow
    <2>3. jobs' \in Seq(JobRow)
      <3>1. PICK s \in {"running", "done", "failed", "cancelled"} :
              jobs' = [jobs EXCEPT ![j] = [jobs[j] EXCEPT !.status = s]]
        BY <1>11 DEF JobStatus
      <3> QED BY <2>1, <2>2, <3>1, ExceptSeq
    <2> QED BY <1>11, <2>3 DEF JobStatus, JobRow
  <1>12. CASE UNCHANGED vars
    BY <1>12 DEF vars
  <1> QED
    BY <1>1, <1>2, <1>3, <1>4, <1>5, <1>6, <1>7, <1>8, <1>9, <1>10, <1>11, <1>12
    DEF Next, CampaignStep

LEMMA TypeInvAlways == Spec => []TypeInv
  <1>1. Init => TypeInv
    BY EmptyList DEF Init, TypeInv, TypeOK
  <1>2. TypeInv /\ [Next]_vars => TypeInv'
    BY TypeStep
  <1> QED BY <1>1, <1>2, PTL DEF Spec

\* The campaign's row, its results and its jobs have their types, however many requests
\* are under way.
THEOREM CampaignTypes == Spec => []TypeOK
  <1>1. TypeInv => TypeOK
    BY DEF TypeInv
  <1> QED BY <1>1, TypeInvAlways, PTL

-----------------------------------------------------------------------------
(* One request at a time: the campaign is a staged rollout.  What a request   *)
(* has left fits the row it read, because nobody else has written it since.   *)

OneRequest == \A p, q \in Request : p = q

\* Ring k is the one that comes next.
NextRing(k) ==
    \/ camp.status = "draft" /\ ~camp.started /\ k = 1
    \/ camp.status \in {"running", "paused"} /\ camp.started /\ k = camp.ring + 1

\* The campaign has come to ring k, whose job has not been queued.
Upgrading(k) ==
    camp.status = "running" /\ camp.started /\ camp.ring = k /\ k \notin Queued

PlanFits(q) ==
    /\ At(q, "devices") => NextRing(Arg(q).ring)
    /\ At(q, "running") => NextRing(Arg(q))
    /\ At(q, "seed") \/ At(q, "createJob") => Upgrading(Arg(q).ring)
    /\ At(q, "complete") => camp.status \in {"running", "paused"} /\ camp.ring = Rings

RolloutInv ==
    /\ camp.status \in {"running", "paused", "completed"} => camp.started
    /\ camp.status = "draft" => ~camp.started
    /\ \A j \in DOMAIN jobs : camp.started /\ jobs[j].ring <= camp.ring
    /\ RingQueuedOnce
    /\ \A q \in Request : PlanFits(q)

\* The devices listed as results of ring k, and those that jobs of the ring work on.
SeededIn(k) == {s.dev : s \in {s \in seeded : s.ring = k}}
WorkedOn(k) == UNION {jobs[j].devs : j \in {j \in DOMAIN jobs : jobs[j].ring = k}}

Between(k) == \E q \in Request : (At(q, "seed") \/ At(q, "createJob")) /\ Arg(q).ring = k

SeedInv ==
    /\ \A s \in seeded : camp.started /\ s.ring <= camp.ring
    /\ \A q \in Request :
          /\ At(q, "seed") => SeededIn(Arg(q).ring) \subseteq Arg(q).devs
          /\ At(q, "createJob") => SeededIn(Arg(q).ring) = Arg(q).devs
    /\ ~broken => \A k \in 1..Rings : Between(k) \/ SeededIn(k) = WorkedOn(k)


LEMMA JobRows ==
    ASSUME TypeInv
    PROVE  /\ jobs \in Seq(JobRow) /\ Len(jobs) \in Nat /\ DOMAIN jobs = 1..Len(jobs)
           /\ \A j \in DOMAIN jobs : jobs[j] \in JobRow
  <1>1. jobs \in Seq(JobRow)
    BY DEF TypeInv, TypeOK, JobRow
  <1> QED BY <1>1, LenProperties, ElementOfSeq

\* What becomes of a job does not touch what it was created for.
LEMMA JobStatusKeepsWork ==
    ASSUME TypeInv, NEW j \in DOMAIN jobs, JobStatus(j)
    PROVE  /\ DOMAIN jobs' = DOMAIN jobs
           /\ \A i \in DOMAIN jobs : jobs'[i].ring = jobs[i].ring /\ jobs'[i].devs = jobs[i].devs
           /\ Queued' = Queued
  <1>1. PICK s \in {"running", "done", "failed", "cancelled"} :
          jobs' = [jobs EXCEPT ![j].status = s]
    BY DEF JobStatus
  <1>2. /\ DOMAIN jobs' = DOMAIN jobs
        /\ \A i \in DOMAIN jobs : jobs'[i] = IF i = j THEN [jobs[i] EXCEPT !.status = s] ELSE jobs[i]
    BY <1>1
  <1>3. \A i \in DOMAIN jobs : jobs'[i].ring = jobs[i].ring /\ jobs'[i].devs = jobs[i].devs
    BY <1>2, JobRows DEF JobRow
  <1> QED BY <1>2, <1>3 DEF Queued

LEMMA OneJobMore ==
    ASSUME TypeInv, NEW q \in Request, QueueRing(q)
    PROVE  /\ DOMAIN jobs' = 1 .. Len(jobs) + 1
           /\ \A i \in DOMAIN jobs : jobs'[i] = jobs[i]
           /\ jobs'[Len(jobs) + 1].ring = Arg(q).ring /\ jobs'[Len(jobs) + 1].devs = Arg(q).devs
           /\ Queued' = Queued \cup {Arg(q).ring}
  <1> DEFINE new == [ring |-> Arg(q).ring, devs |-> Arg(q).devs, status |-> "pending"]
  <1>0. jobs' = Append(jobs, new) /\ new.ring = Arg(q).ring /\ new.devs = Arg(q).devs
    BY DEF QueueRing
  <1>1. At(q, "createJob") /\ todo[q] \in Lists /\ todo[q] # << >>
    BY DEF QueueRing, At, TypeInv
  <1>2. Arg(q) \in Work
    BY <1>1, Begins DEF At, Arg
  <1>3. new \in JobRow
    BY <1>2 DEF Work, JobRow
  <1> HIDE DEF new
  <1>4. /\ Len(jobs') = Len(jobs) + 1 /\ jobs' \in Seq(JobRow)
        /\ \A i \in 1..Len(jobs) : jobs'[i] = jobs[i]
        /\ jobs'[Len(jobs) + 1] = new
    BY <1>0, <1>3, JobRows, AppendProperties
  <1>5. DOMAIN jobs' = 1 .. Len(jobs) + 1
    BY <1>4, LenProperties
  <1>6. Queued' = Queued \cup {new.ring}
    BY <1>4, <1>5, JobRows DEF Queued
  <1> QED BY <1>0, <1>4, <1>5, <1>6, JobRows

\* What a request does next has arguments of their types.
LEMMA Arguments ==
    ASSUME TypeInv, NEW q \in Request
    PROVE  /\ At(q, "devices") => Arg(q) \in Selection /\ Tail(todo[q]) = << >>
           /\ At(q, "running") =>
                 /\ Arg(q) \in 1..Rings
                 /\ \/ Tail(todo[q]) = << >>
                    \/ \E w \in Work : w.ring = Arg(q) /\ Tail(todo[q]) = TwoLeft(w)
           /\ At(q, "seed") => /\ Arg(q) \in Work
                               /\ Tail(todo[q]) = <<Do("createJob", Arg(q))>>
           /\ At(q, "createJob") => Arg(q) \in Work /\ Tail(todo[q]) = << >>
           /\ At(q, "complete") => Tail(todo[q]) = << >>
  <1>1. CASE todo[q] = << >>
    BY <1>1 DEF At
  <1>2. CASE todo[q] # << >>
    <2>1. todo[q] \in Lists
      BY DEF TypeInv
    <2>2. \A w \in Work : w.ring \in 1..Rings
      BY DEF Work
    <2> QED BY <1>2, <2>1, <2>2, Begins DEF At, Arg
  <1> QED BY <1>1, <1>2

\* With nothing left a plan fits whatever the row says.
LEMMA NothingLeft ==
    ASSUME NEW q \in Request, todo'[q] = << >>
    PROVE  PlanFits(q)' /\ \A op : ~At(q, op)'
  BY DEF PlanFits, At

LEMMA RolloutStep ==
    ASSUME OneRequest, TypeInv, RolloutInv, [Next]_vars
    PROVE  RolloutInv'
  <1> USE DEF RolloutInv
  <1>0. TypeOK /\ camp.ring \in 1..Rings
    BY DEF TypeInv, TypeOK
  <1>1. ASSUME NEW q \in Request, StartCampaign(q) PROVE RolloutInv'
    <2>1. /\ todo'[q] = <<Do("devices", [ring |-> 1, required |-> TRUE])>>
          /\ camp' = camp /\ jobs' = jobs
      BY <1>1 DEF StartCampaign, Continue, TypeInv
    <2>2. Head(todo'[q]).op = "devices" /\ Head(todo'[q]).arg.ring = 1
      BY <2>1 DEF Do
    <2>3. camp.status = "draft"
      BY <1>1 DEF StartCampaign
    <2>4. PlanFits(q)'
      BY <2>1, <2>2, <2>3 DEF PlanFits, At, Arg, NextRing
    <2> QED BY <2>1, <2>4 DEF RingQueuedOnce, OneRequest
  <1>2. ASSUME NEW q \in Request, AdvanceCampaign(q) PROVE RolloutInv'
    <2>1. camp' = camp /\ jobs' = jobs /\ camp.status \in {"running", "paused"}
      BY <1>2 DEF AdvanceCampaign
    <2>2. PlanFits(q)'
      <3>1. CASE camp.ring = Rings
        <4>1. todo'[q] = <<Do("complete", NULL)>>
          BY <1>2, <3>1 DEF AdvanceCampaign, Continue, TypeInv
        <4>2. Head(todo'[q]).op = "complete"
          BY <4>1 DEF Do
        <4> QED BY <2>1, <3>1, <4>2 DEF PlanFits, At, Arg
      <3>2. CASE camp.ring # Rings
        <4>1. todo'[q] = <<Do("devices", [ring |-> camp.ring + 1, required |-> FALSE])>>
          BY <1>2, <3>2 DEF AdvanceCampaign, Continue, TypeInv
        <4>2. Head(todo'[q]).op = "devices" /\ Head(todo'[q]).arg.ring = camp.ring + 1
          BY <4>1 DEF Do
        <4> QED BY <2>1, <4>2 DEF PlanFits, At, Arg, NextRing
      <3> QED BY <3>1, <3>2
    <2> QED BY <2>1, <2>2 DEF RingQueuedOnce, OneRequest
  <1>3. ASSUME NEW q \in Request, SelectDevices(q) PROVE RolloutInv'
    <2> DEFINE k == Arg(q).ring
               w == [ring |-> k, devs |-> InRing(k)]
    <2>1. camp' = camp /\ jobs' = jobs /\ NextRing(k)
      BY <1>3 DEF SelectDevices, PlanFits
    <2>2. \/ todo'[q] = << >>
          \/ todo'[q] = <<Do("running", k)>>
          \/ todo'[q] = <<Do("running", k), Do("seed", w), Do("createJob", w)>>
      BY <1>3 DEF SelectDevices, Continue, TypeInv
    <2>3. todo'[q] = << >> \/ (Head(todo'[q]).op = "running" /\ Head(todo'[q]).arg = k)
      BY <2>2 DEF Do
    <2>4. PlanFits(q)'
      BY <2>1, <2>3 DEF PlanFits, At, Arg, NextRing
    <2> QED BY <2>1, <2>4 DEF RingQueuedOnce, OneRequest
  <1>4. ASSUME NEW q \in Request, SetRunning(q) PROVE RolloutInv'
    <2>1. /\ camp' = [status |-> "running", ring |-> Arg(q), started |-> TRUE]
          /\ todo'[q] = Tail(todo[q]) /\ jobs' = jobs /\ At(q, "running") /\ Arg(q) \in 1..Rings
      BY <1>4, Arguments DEF SetRunning, Skip, Continue, TypeInv
    <2>2. NextRing(Arg(q))
      BY <2>1 DEF PlanFits
    <2>3. \A j \in DOMAIN jobs : jobs[j].ring <= Arg(q) /\ jobs[j].ring # Arg(q)
      BY <1>0, <2>2, JobRows DEF NextRing, JobRow
    <2>4. PlanFits(q)'
      <3>1. CASE Tail(todo[q]) = << >>
        BY <2>1, <3>1, NothingLeft
      <3>2. ASSUME NEW w \in Work, w.ring = Arg(q), Tail(todo[q]) = TwoLeft(w)
            PROVE  PlanFits(q)'
        <4>0. todo'[q] = TwoLeft(w)
          BY <2>1, <3>2
        <4>1. Head(todo'[q]).op = "seed" /\ Head(todo'[q]).arg = w
          BY <4>0, UpgradeStatements
        <4>2. Upgrading(w.ring)'
          BY <2>1, <2>3, <3>2 DEF Upgrading, Queued
        <4> QED BY <4>1, <4>2 DEF PlanFits, At, Arg
      <3> QED BY <2>1, <3>1, <3>2, Arguments
    <2> QED BY <2>1, <2>3, <2>4 DEF RingQueuedOnce, OneRequest
  <1>5. ASSUME NEW q \in Request, Seed(q) PROVE RolloutInv'
    <2>1. camp' = camp /\ jobs' = jobs /\ At(q, "seed") /\ Upgrading(Arg(q).ring)
      BY <1>5 DEF Seed, PlanFits
    <2>2. PlanFits(q)'
      <3>1. CASE todo' = todo
        BY <2>1, <3>1 DEF PlanFits, At, Arg, NextRing, Upgrading, Queued
      <3>2. CASE todo'[q] = Tail(todo[q])
        <4>1. PICK w : w = Arg(q)
          OBVIOUS
        <4>2. todo'[q] = <<Do("createJob", w)>>
          BY <2>1, <3>2, <4>1, Arguments
        <4>3. Head(todo'[q]).op = "createJob" /\ Head(todo'[q]).arg = w
          BY <4>2, OneStatement
        <4>4. Upgrading(w.ring)'
          BY <2>1, <4>1 DEF Upgrading, Queued
        <4> QED BY <4>3, <4>4 DEF PlanFits, At, Arg
      <3> QED BY <1>5, <3>1, <3>2 DEF Seed, Skip, Continue, TypeInv
    <2> QED BY <2>1, <2>2 DEF RingQueuedOnce, OneRequest
  <1>6. ASSUME NEW q \in Request, QueueRing(q) PROVE RolloutInv'
    <2>1. camp' = camp /\ At(q, "createJob") /\ Upgrading(Arg(q).ring)
      BY <1>6 DEF QueueRing, PlanFits
    <2>2. todo'[q] = << >>
      BY <1>6, <2>1, Arguments DEF QueueRing, Skip, Continue, TypeInv
    <2>3. \A j \in DOMAIN jobs : jobs[j].ring # Arg(q).ring
      BY <2>1 DEF Upgrading, Queued
    <2>4. RingQueuedOnce'
      BY <1>6, <2>3, OneJobMore, JobRows DEF RingQueuedOnce
    <2>5. \A j \in DOMAIN jobs' : camp'.started /\ jobs'[j].ring <= camp'.ring
      BY <1>0, <1>6, <2>1, OneJobMore, JobRows DEF Upgrading
    <2> QED BY <2>1, <2>2, <2>4, <2>5, NothingLeft DEF OneRequest
  <1>7. ASSUME NEW q \in Request, Complete(q) PROVE RolloutInv'
    <2>1. /\ camp'.status = "completed" /\ camp'.ring = camp.ring /\ camp'.started = camp.started
          /\ jobs' = jobs /\ At(q, "complete")
      BY <1>0, <1>7 DEF Complete, TypeOK
    <2>2. todo'[q] = << >> /\ camp.status \in {"running", "paused"}
      BY <1>7, <2>1, Arguments DEF Complete, Skip, Continue, TypeInv, PlanFits
    <2> QED BY <2>1, <2>2, NothingLeft DEF RingQueuedOnce, OneRequest
  <1>8. ASSUME NEW q \in Request, Pause(q) \/ Abort(q) PROVE RolloutInv'
    <2>1. /\ (camp'.status = "paused" /\ camp.status = "running") \/ camp'.status = "aborted"
          /\ camp'.ring = camp.ring /\ camp'.started = camp.started
          /\ jobs' = jobs /\ todo' = todo /\ todo[q] = << >>
      BY <1>0, <1>8 DEF Pause, Abort, Free, TypeOK
    <2> QED BY <2>1, NothingLeft DEF RingQueuedOnce, OneRequest
  <1>9. ASSUME NEW q \in Request, RequestBreaks(q) PROVE RolloutInv'
    <2>1. camp' = camp /\ jobs' = jobs /\ todo'[q] = << >>
      BY <1>9 DEF RequestBreaks, Continue, TypeInv
    <2> QED BY <2>1, NothingLeft DEF RingQueuedOnce, OneRequest
  <1>10. ASSUME NEW d \in Device, NEW k \in 0..Rings, SetRing(d, k) PROVE RolloutInv'
    BY <1>10 DEF SetRing, RingQueuedOnce, PlanFits, At, Arg, NextRing, Upgrading, Queued
  <1>11. ASSUME NEW j \in DOMAIN jobs, JobStatus(j) PROVE RolloutInv'
    <2>1. camp' = camp /\ todo' = todo /\ Queued' = Queued
      BY <1>11, JobStatusKeepsWork DEF JobStatus
    <2>2. \A q \in Request : PlanFits(q)'
      BY <2>1 DEF PlanFits, At, Arg, NextRing, Upgrading
    <2> QED BY <1>11, <2>1, <2>2, JobStatusKeepsWork DEF RingQueuedOnce
  <1>12. CASE UNCHANGED vars
    BY <1>12 DEF vars, RingQueuedOnce, PlanFits, At, Arg, NextRing, Upgrading, Queued
  <1> QED
    BY <1>1, <1>2, <1>3, <1>4, <1>5, <1>6, <1>7, <1>8, <1>9, <1>10, <1>11, <1>12
    DEF Next, CampaignStep


LEMMA RolloutAlways == ASSUME OneRequest PROVE Spec => []RolloutInv
  <1>1. Init => RolloutInv
    <2> SUFFICES ASSUME Init PROVE RolloutInv
      OBVIOUS
    <2>1. DOMAIN jobs = {}
      BY DEF Init
    <2> QED BY <2>1 DEF Init, RolloutInv, RingQueuedOnce, PlanFits, At
  <1>2. TypeInv /\ RolloutInv /\ [Next]_vars => RolloutInv'
    BY RolloutStep
  <1> QED BY <1>1, <1>2, TypeInvAlways, PTL DEF Spec

\* Every step of the campaign is one of the rollout, or none.
LEMMA RolloutMaps ==
    ASSUME OneRequest, TypeInv, RolloutInv, [Next]_vars
    PROVE  [Promise!Next]_(Promise!vars)
  <1> USE DEF Promise!Next, Promise!vars
  <1>0. camp.ring \in 1..Rings /\ camp.ring \in Nat
    BY DEF TypeInv, TypeOK
  <1> DEFINE at == IF camp.started THEN camp.ring ELSE 0
  <1>1. ASSUME NEW q \in Request,
               StartCampaign(q) \/ AdvanceCampaign(q) \/ SelectDevices(q) \/ RequestBreaks(q)
        PROVE  UNCHANGED Promise!vars
    BY <1>1 DEF StartCampaign, AdvanceCampaign, SelectDevices, RequestBreaks, Queued
  <1>2. ASSUME NEW q \in Request, SetRunning(q) PROVE Promise!Start \/ Promise!Advance
    <2>1. /\ camp' = [status |-> "running", ring |-> Arg(q), started |-> TRUE]
          /\ jobs' = jobs /\ At(q, "running") /\ Arg(q) \in 1..Rings
      BY <1>2, Arguments DEF SetRunning
    <2>2. camp'.status = "running" /\ at' = Arg(q) /\ Queued' = Queued
      BY <2>1 DEF Queued
    <2>3. CASE camp.status = "draft" /\ Arg(q) = 1
      BY <2>2, <2>3 DEF Promise!Start
    <2>4. CASE camp.status \in {"running", "paused"} /\ camp.started /\ Arg(q) = camp.ring + 1
      <3>1. at < Rings /\ at' = at + 1
        BY <1>0, <2>1, <2>2, <2>4
      <3> QED BY <2>2, <2>4, <3>1 DEF Promise!Advance
    <2> QED BY <2>1, <2>3, <2>4 DEF RolloutInv, PlanFits, NextRing
  <1>3. ASSUME NEW q \in Request, Seed(q) PROVE UNCHANGED Promise!vars
    BY <1>3 DEF Seed, Queued
  <1>4. ASSUME NEW q \in Request, QueueRing(q) PROVE Promise!HandOut
    <2>1. camp' = camp /\ Upgrading(Arg(q).ring)
      BY <1>4 DEF QueueRing, RolloutInv, PlanFits
    <2>2. Queued' = Queued \cup {Arg(q).ring}
      BY <1>4, OneJobMore
    <2> QED BY <2>1, <2>2 DEF Upgrading, Promise!HandOut
  <1>5. ASSUME NEW q \in Request, Complete(q) PROVE Promise!Advance
    <2>1. /\ camp'.status = "completed" /\ camp'.ring = camp.ring /\ camp'.started = camp.started
          /\ jobs' = jobs /\ At(q, "complete")
      BY <1>5 DEF Complete, TypeInv, TypeOK
    <2>2. camp.status \in {"running", "paused"} /\ camp.ring = Rings /\ camp.started
      BY <2>1 DEF RolloutInv, PlanFits
    <2> QED BY <2>1, <2>2 DEF Promise!Advance, Queued
  <1>6. ASSUME NEW q \in Request, Pause(q) PROVE Promise!Pause
    <2>1. /\ camp'.status = "paused" /\ camp'.ring = camp.ring /\ camp'.started = camp.started
          /\ camp.status = "running" /\ jobs' = jobs
      BY <1>6 DEF Pause, TypeInv, TypeOK
    <2> QED BY <2>1 DEF Promise!Pause, Queued
  <1>7. ASSUME NEW q \in Request, Abort(q) PROVE Promise!Abort
    <2>1. /\ camp'.status = "aborted" /\ camp'.ring = camp.ring /\ camp'.started = camp.started
          /\ jobs' = jobs
      BY <1>7 DEF Abort, TypeInv, TypeOK
    <2> QED BY <2>1 DEF Promise!Abort, Queued
  <1>8. ASSUME NEW d \in Device, NEW k \in 0..Rings, SetRing(d, k)
        PROVE  UNCHANGED Promise!vars
    BY <1>8 DEF SetRing, Queued
  <1>9. ASSUME NEW j \in DOMAIN jobs, JobStatus(j) PROVE UNCHANGED Promise!vars
    BY <1>9, JobStatusKeepsWork DEF JobStatus
  <1>10. CASE UNCHANGED vars
    BY <1>10 DEF vars, Queued
  <1> QED
    BY <1>1, <1>2, <1>3, <1>4, <1>5, <1>6, <1>7, <1>8, <1>9, <1>10 DEF Next, CampaignStep

\* With one request at a time a campaign is a staged rollout: rings are taken in order,
\* each is handed out at most once and while the campaign runs, and an abort is final.
THEOREM CampaignRefines == ASSUME OneRequest PROVE Spec => CampaignIsRollout
  <1>1. Init => Promise!Init
    BY DEF Init, Promise!Init, Queued
  <1>2. TypeInv /\ RolloutInv /\ [Next]_vars => [Promise!Next]_(Promise!vars)
    BY RolloutMaps
  <1> QED
    BY <1>1, <1>2, TypeInvAlways, RolloutAlways, PTL DEF Spec, CampaignIsRollout, Promise!Spec


-----------------------------------------------------------------------------
(* What is listed as a ring's results is what its job works on.               *)

LEMMA SameSeeds ==
    ASSUME SeedInv, UNCHANGED <<camp, seeded, jobs, todo, broken>>
    PROVE  SeedInv'
  <1>1. \A k : SeededIn(k)' = SeededIn(k) /\ WorkedOn(k)' = WorkedOn(k)
    BY DEF SeededIn, WorkedOn
  <1>2. \A q, op : (At(q, op)' <=> At(q, op)) /\ Arg(q)' = Arg(q)
    BY DEF At, Arg
  <1>3. \A k : Between(k)' <=> Between(k)
    BY <1>2 DEF Between
  <1> QED BY <1>1, <1>2, <1>3 DEF SeedInv

LEMMA SeedStep ==
    ASSUME OneRequest, TypeInv, RolloutInv, SeedInv, [Next]_vars
    PROVE  SeedInv'
  <1> USE DEF SeedInv
  <1>0. /\ camp.ring \in 1..Rings /\ camp.ring \in Nat /\ todo \in [Request -> Lists]
        /\ \A s \in seeded : s.ring \in 1..Rings /\ s.ring <= camp.ring /\ camp.started
    BY DEF TypeInv, TypeOK
  <1>1. ASSUME NEW q \in Request, todo'[q] = << >>, ~At(q, "seed"), ~At(q, "createJob"),
               seeded' = seeded, jobs' = jobs, ~broken' => ~broken,
               camp'.ring = camp.ring, camp'.started = camp.started
        PROVE  SeedInv'
    <2>1. \A p \in Request : ~At(p, "seed")' /\ ~At(p, "createJob")'
      BY <1>1 DEF At, OneRequest
    <2>2. ~broken' => \A k \in 1..Rings : SeededIn(k)' = WorkedOn(k)'
      <3>1. \A k \in 1..Rings : ~Between(k)
        BY <1>1 DEF Between, OneRequest
      <3>2. \A k : SeededIn(k)' = SeededIn(k) /\ WorkedOn(k)' = WorkedOn(k)
        BY <1>1 DEF SeededIn, WorkedOn
      <3> QED BY <1>1, <3>1, <3>2
    <2> QED BY <1>1, <2>1, <2>2
  <1>2. ASSUME NEW q \in Request, StartCampaign(q) \/ AdvanceCampaign(q) PROVE SeedInv'
    <2>1. ~At(q, "seed") /\ ~At(q, "createJob") /\ seeded' = seeded /\ jobs' = jobs
          /\ broken' = broken /\ camp' = camp
      BY <1>2 DEF StartCampaign, AdvanceCampaign, Free, At
    <2>2. \E a, b : todo'[q] = <<Do("devices", a)>> \/ todo'[q] = <<Do("complete", b)>>
      BY <1>0, <1>2 DEF StartCampaign, AdvanceCampaign, Continue
    <2>3. \A p \in Request : ~At(p, "seed")' /\ ~At(p, "createJob")'
      BY <2>2 DEF At, Do, OneRequest
    <2>4. \A k \in 1..Rings : ~Between(k)
      BY <2>1 DEF Between, OneRequest
    <2> QED BY <2>1, <2>3, <2>4 DEF SeededIn, WorkedOn
  <1>3. ASSUME NEW q \in Request, SelectDevices(q) PROVE SeedInv'
    <2> DEFINE k == Arg(q).ring
               w == [ring |-> k, devs |-> InRing(k)]
    <2>1. ~At(q, "seed") /\ ~At(q, "createJob") /\ seeded' = seeded /\ jobs' = jobs
          /\ broken' = broken /\ camp' = camp
      BY <1>3 DEF SelectDevices, At
    <2>2. \/ todo'[q] = << >>
          \/ todo'[q] = <<Do("running", k)>>
          \/ todo'[q] = <<Do("running", k), Do("seed", w), Do("createJob", w)>>
      BY <1>0, <1>3 DEF SelectDevices, Continue
    <2>3. \A p \in Request : ~At(p, "seed")' /\ ~At(p, "createJob")'
      <3>1. todo'[q] = << >> \/ Head(todo'[q]).op = "running"
        BY <2>2 DEF Do
      <3> QED BY <3>1 DEF At, OneRequest
    <2>4. \A i \in 1..Rings : ~Between(i)
      BY <2>1 DEF Between, OneRequest
    <2> QED BY <2>1, <2>3, <2>4 DEF SeededIn, WorkedOn
  <1>4. ASSUME NEW q \in Request, SetRunning(q) PROVE SeedInv'
    <2>1. /\ camp' = [status |-> "running", ring |-> Arg(q), started |-> TRUE]
          /\ todo'[q] = Tail(todo[q]) /\ jobs' = jobs /\ seeded' = seeded /\ broken' = broken
          /\ At(q, "running") /\ Arg(q) \in 1..Rings
      BY <1>0, <1>4, Arguments DEF SetRunning, Skip, Continue
    <2>2. NextRing(Arg(q)) /\ ~At(q, "seed") /\ ~At(q, "createJob")
      BY <2>1 DEF RolloutInv, PlanFits, At
    <2>3. \A s \in seeded : s.ring < Arg(q)
      BY <1>0, <2>1, <2>2 DEF NextRing
    <2>4. \A k \in 1..Rings : ~Between(k)
      BY <2>2 DEF Between, OneRequest
    <2>5. (~broken)' => \A k \in 1..Rings : SeededIn(k)' = WorkedOn(k)'
      BY <2>1, <2>4 DEF SeededIn, WorkedOn
    <2>6. \A s \in seeded' : camp'.started /\ s.ring <= camp'.ring
      BY <1>0, <2>1, <2>3
    <2>7. CASE Tail(todo[q]) = << >>
      <3>1. \A p \in Request : ~At(p, "seed")' /\ ~At(p, "createJob")'
        BY <2>1, <2>7 DEF At, OneRequest
      <3> QED BY <2>5, <2>6, <3>1
    <2>8. ASSUME NEW w \in Work, w.ring = Arg(q), Tail(todo[q]) = TwoLeft(w)
          PROVE  SeedInv'
      <3>0. todo'[q] = TwoLeft(w)
        BY <2>1, <2>8
      <3>1. Head(todo'[q]).op = "seed" /\ Head(todo'[q]).arg = w
        BY <3>0, UpgradeStatements
      <3>2. SeededIn(w.ring)' = {}
        <4>1. \A s \in seeded' : s.ring # w.ring
          BY <1>0, <2>1, <2>3, <2>8
        <4> QED BY <4>1 DEF SeededIn
      <3>3. \A p \in Request : Arg(p)' = w /\ ~At(p, "createJob")'
        BY <3>1 DEF At, Arg, OneRequest
      <3> QED BY <2>5, <2>6, <3>2, <3>3
    <2> QED BY <2>1, <2>7, <2>8, Arguments
  <1>5. ASSUME NEW q \in Request, Seed(q) PROVE SeedInv'
    <2>1. PICK w : w = Arg(q)
      OBVIOUS
    <2>2. /\ At(q, "seed") /\ w \in Work /\ camp' = camp /\ jobs' = jobs /\ broken' = broken
          /\ camp.started /\ camp.ring = w.ring /\ SeededIn(w.ring) \subseteq w.devs
          /\ Tail(todo[q]) = <<Do("createJob", w)>>
      BY <1>5, <2>1, Arguments DEF Seed, RolloutInv, PlanFits, Upgrading
    <2>3. CASE Missing(q) = {}
      <3>1. /\ todo'[q] = <<Do("createJob", w)>> /\ seeded' = seeded
        BY <1>0, <1>5, <2>2, <2>3 DEF Seed, Skip, Continue
      <3>2. Head(todo'[q]).op = "createJob" /\ Head(todo'[q]).arg = w
        BY <3>1, OneStatement
      <3>3. w.devs \subseteq SeededIn(w.ring)
        <4>1. \A d \in w.devs : [ring |-> w.ring, dev |-> d] \in seeded
          BY <2>1, <2>3 DEF Missing
        <4>2. \A d : [ring |-> w.ring, dev |-> d].ring = w.ring
                     /\ [ring |-> w.ring, dev |-> d].dev = d
          OBVIOUS
        <4> QED BY <4>1, <4>2 DEF SeededIn
      <3>4. SeededIn(w.ring)' = w.devs
        BY <2>2, <3>1, <3>3 DEF SeededIn
      <3>5. /\ Between(w.ring)'
            /\ \A p \in Request : Arg(p)' = w /\ ~At(p, "seed")'
        BY <3>1, <3>2 DEF Between, At, Arg, OneRequest
      <3>6. \A k \in 1..Rings : k # w.ring => ~Between(k)
        BY <2>1 DEF Between, OneRequest
      <3>7. /\ \A k \in 1..Rings : SeededIn(k)' = SeededIn(k) /\ WorkedOn(k)' = WorkedOn(k)
            /\ \A s \in seeded' : camp'.started /\ s.ring <= camp'.ring
        BY <2>2, <3>1 DEF SeededIn, WorkedOn
      <3> QED BY <2>2, <3>4, <3>5, <3>6, <3>7
    <2>4. ASSUME NEW d \in Missing(q), seeded' = seeded \cup {[ring |-> w.ring, dev |-> d]},
                 todo' = todo
          PROVE  SeedInv'
      <3>1. d \in w.devs
        BY <2>1, <2>4 DEF Missing
      <3>2. SeededIn(w.ring)' \subseteq w.devs
        BY <2>2, <2>4, <3>1 DEF SeededIn
      <3>3. \A k \in 1..Rings : k # w.ring => SeededIn(k)' = SeededIn(k) /\ ~Between(k)
        BY <2>1, <2>4 DEF SeededIn, Between, OneRequest
      <3>4. \A p \in Request : Arg(p)' = w /\ ~At(p, "createJob")'
        BY <2>1, <2>2, <2>4 DEF At, Arg, OneRequest
      <3>5. Between(w.ring)'
        BY <2>1, <2>2, <2>4 DEF Between, At, Arg
      <3>6. \A s \in seeded' : camp'.started /\ s.ring <= camp'.ring
        BY <1>0, <2>2, <2>4
      <3> QED BY <2>2, <3>2, <3>3, <3>4, <3>5, <3>6 DEF WorkedOn
    <2> QED BY <1>5, <2>1, <2>3, <2>4 DEF Seed
  <1>6. ASSUME NEW q \in Request, QueueRing(q) PROVE SeedInv'
    <2>1. PICK w : w = Arg(q)
      OBVIOUS
    <2>2. /\ At(q, "createJob") /\ w \in Work /\ camp' = camp /\ seeded' = seeded
          /\ broken' = broken /\ w.ring \notin Queued /\ SeededIn(w.ring) = w.devs
          /\ todo'[q] = << >>
      BY <1>0, <1>6, <2>1, Arguments
      DEF QueueRing, RolloutInv, PlanFits, Upgrading, Skip, Continue
    <2>3. /\ DOMAIN jobs = 1..Len(jobs) /\ Len(jobs) \in Nat
          /\ DOMAIN jobs' = 1 .. Len(jobs) + 1
          /\ \A i \in DOMAIN jobs : jobs'[i] = jobs[i]
          /\ jobs'[Len(jobs) + 1].ring = w.ring /\ jobs'[Len(jobs) + 1].devs = w.devs
      BY <1>6, <2>1, JobRows, OneJobMore
    <2>4. WorkedOn(w.ring)' = w.devs
      <3>1. \A j \in DOMAIN jobs : jobs[j].ring # w.ring
        BY <2>2 DEF Queued
      <3>2. {j \in DOMAIN jobs' : jobs'[j].ring = w.ring} = {Len(jobs) + 1}
        BY <2>3, <3>1
      <3> QED BY <2>3, <3>2 DEF WorkedOn
    <2>5. \A k \in 1..Rings : k # w.ring => WorkedOn(k)' = WorkedOn(k)
      <3>1. \A k \in 1..Rings : k # w.ring =>
              {j \in DOMAIN jobs' : jobs'[j].ring = k} = {j \in DOMAIN jobs : jobs[j].ring = k}
        BY <2>3
      <3> QED BY <2>3, <3>1 DEF WorkedOn
    <2>6. \A k \in 1..Rings : k # w.ring => ~Between(k)
      BY <2>1 DEF Between, OneRequest
    <2>7. \A p \in Request : ~At(p, "seed")' /\ ~At(p, "createJob")'
      BY <2>2 DEF At, OneRequest
    <2> QED BY <2>2, <2>4, <2>5, <2>6, <2>7 DEF SeededIn
  <1>7. ASSUME NEW q \in Request, Complete(q) PROVE SeedInv'
    <2>1. /\ camp'.ring = camp.ring /\ camp'.started = camp.started /\ seeded' = seeded
          /\ jobs' = jobs /\ broken' = broken /\ At(q, "complete")
          /\ todo'[q] = << >>
      BY <1>0, <1>7, Arguments DEF Complete, TypeInv, TypeOK, Skip, Continue
    <2> QED BY <1>1, <2>1 DEF At
  <1>8. ASSUME NEW q \in Request, Pause(q) \/ Abort(q) PROVE SeedInv'
    <2>1. /\ camp'.ring = camp.ring /\ camp'.started = camp.started /\ seeded' = seeded
          /\ jobs' = jobs /\ broken' = broken /\ todo'[q] = << >> /\ todo[q] = << >>
      BY <1>8 DEF Pause, Abort, Free, TypeInv, TypeOK
    <2> QED BY <1>1, <2>1 DEF At
  <1>9. ASSUME NEW q \in Request, RequestBreaks(q) PROVE SeedInv'
    <2>1. camp' = camp /\ jobs' = jobs /\ seeded' = seeded /\ broken' /\ todo'[q] = << >>
      BY <1>0, <1>9 DEF RequestBreaks, Continue
    <2>2. \A p \in Request : ~At(p, "seed")' /\ ~At(p, "createJob")'
      BY <2>1 DEF At, OneRequest
    <2> QED BY <2>1, <2>2
  <1>10. ASSUME NEW d \in Device, NEW k \in 0..Rings, SetRing(d, k) PROVE SeedInv'
    BY <1>10, SameSeeds DEF SetRing
  <1>11. ASSUME NEW j \in DOMAIN jobs, JobStatus(j) PROVE SeedInv'
    <2>1. camp' = camp /\ todo' = todo /\ seeded' = seeded /\ broken' = broken
      BY <1>11 DEF JobStatus
    <2>2. \A k \in 1..Rings : WorkedOn(k)' = WorkedOn(k)
      BY <1>11, JobStatusKeepsWork DEF WorkedOn
    <2> QED BY <2>1, <2>2 DEF Between, SeededIn, At, Arg
  <1>12. CASE UNCHANGED vars
    BY <1>12, SameSeeds DEF vars
  <1> QED
    BY <1>2, <1>3, <1>4, <1>5, <1>6, <1>7, <1>8, <1>9, <1>10, <1>11, <1>12
    DEF Next, CampaignStep

LEMMA SeedAlways == ASSUME OneRequest PROVE Spec => []SeedInv
  <1>1. Init => SeedInv
    BY DEF Init, SeedInv, SeededIn, WorkedOn, At
  <1>2. TypeInv /\ RolloutInv /\ SeedInv /\ [Next]_vars => SeedInv'
    BY SeedStep
  <1> QED BY <1>1, <1>2, TypeInvAlways, RolloutAlways, PTL DEF Spec

\* With one request at a time no ring gets two upgrade jobs, and the results a ring lists
\* are of the devices its job works on, however devices are moved in between.
THEOREM RingsKept == ASSUME OneRequest PROVE Spec => []RingsAreKept
  <1>1. TypeInv /\ RolloutInv /\ SeedInv => RingsAreKept
    <2> SUFFICES ASSUME TypeInv, RolloutInv, SeedInv PROVE SeededAreUpgraded
      BY DEF TypeInv, RolloutInv, RingsAreKept
    <2>1. (\A q \in Request : Free(q)) => \A k \in 1..Rings : ~Between(k)
      BY DEF Free, Between, At
    <2> QED BY <2>1 DEF SeedInv, SeededAreUpgraded, SeededIn, WorkedOn
  <1> QED BY <1>1, TypeInvAlways, RolloutAlways, SeedAlways, PTL


-----------------------------------------------------------------------------
(* The onboarding wizards. *)

G(a) == Wizards!Generated(a)
Nobody == Wizards!NoProfile
OnSwitch(a) == wizard[a].switch
Preset(a) == wizard[a].preset
Todo(a) == wizard[a].todo

\* What a wizard has left of each of its requests.
RKA == <<"resolve", "known", "analyze">>
KA == <<"known", "analyze">>
An == <<"analyze">>
K8 == <<"known", "resolve", "configure", "save", "probe", "inspect", "store", "insert">>
R7 == <<"resolve", "configure", "save", "probe", "inspect", "store", "insert">>
C6 == <<"configure", "save", "probe", "inspect", "store", "insert">>
S5 == <<"save", "probe", "inspect", "store", "insert">>
P4 == <<"probe", "inspect", "store", "insert">>
K5 == <<"known", "resolve", "inspect", "store", "insert">>
R4 == <<"resolve", "inspect", "store", "insert">>
I3 == <<"inspect", "store", "insert">>
T2 == <<"store", "insert">>
N1 == <<"insert">>

Connects == {<< >>, RKA, KA, An}
Creates == {<< >>, K8, R7, C6, S5, P4, I3, T2, N1}
Attaches == {<< >>, K5, R4, I3, T2, N1}

LEMMA Requests ==
    /\ Head(RKA) = "resolve" /\ Tail(RKA) = KA /\ RKA # << >>
    /\ Head(KA) = "known" /\ Tail(KA) = An /\ KA # << >>
    /\ Head(An) = "analyze" /\ Tail(An) = << >> /\ An # << >>
    /\ Head(K8) = "known" /\ Tail(K8) = R7 /\ K8 # << >>
    /\ Head(R7) = "resolve" /\ Tail(R7) = C6 /\ R7 # << >>
    /\ Head(C6) = "configure" /\ Tail(C6) = S5 /\ C6 # << >>
    /\ Head(S5) = "save" /\ Tail(S5) = P4 /\ S5 # << >>
    /\ Head(P4) = "probe" /\ Tail(P4) = I3 /\ P4 # << >>
    /\ Head(K5) = "known" /\ Tail(K5) = R4 /\ K5 # << >>
    /\ Head(R4) = "resolve" /\ Tail(R4) = I3 /\ R4 # << >>
    /\ Head(I3) = "inspect" /\ Tail(I3) = T2 /\ I3 # << >>
    /\ Head(T2) = "store" /\ Tail(T2) = N1 /\ T2 # << >>
    /\ Head(N1) = "insert" /\ Tail(N1) = << >> /\ N1 # << >>
  <1>1. /\ Head(RKA) = "resolve" /\ Tail(RKA) = KA /\ RKA # << >>
    BY DEF RKA, KA
  <1>2. /\ Head(KA) = "known" /\ Tail(KA) = An /\ KA # << >>
    BY DEF KA, An
  <1>3. /\ Head(An) = "analyze" /\ Tail(An) = << >> /\ An # << >>
    BY DEF An
  <1>4. /\ Head(K8) = "known" /\ Tail(K8) = R7 /\ K8 # << >>
    BY DEF K8, R7
  <1>5. /\ Head(R7) = "resolve" /\ Tail(R7) = C6 /\ R7 # << >>
    BY DEF R7, C6
  <1>6. /\ Head(C6) = "configure" /\ Tail(C6) = S5 /\ C6 # << >>
    BY DEF C6, S5
  <1>7. /\ Head(S5) = "save" /\ Tail(S5) = P4 /\ S5 # << >>
    BY DEF S5, P4
  <1>8. /\ Head(P4) = "probe" /\ Tail(P4) = I3 /\ P4 # << >>
    BY DEF P4, I3
  <1>9. /\ Head(K5) = "known" /\ Tail(K5) = R4 /\ K5 # << >>
    BY DEF K5, R4
  <1>10. /\ Head(R4) = "resolve" /\ Tail(R4) = I3 /\ R4 # << >>
    BY DEF R4, I3
  <1>11. /\ Head(I3) = "inspect" /\ Tail(I3) = T2 /\ I3 # << >>
    BY DEF I3, T2
  <1>12. /\ Head(T2) = "store" /\ Tail(T2) = N1 /\ T2 # << >>
    BY DEF T2, N1
  <1>13. /\ Head(N1) = "insert" /\ Tail(N1) = << >> /\ N1 # << >>
    BY DEF N1
  <1> QED BY <1>1, <1>2, <1>3, <1>4, <1>5, <1>6, <1>7, <1>8, <1>9, <1>10, <1>11, <1>12, <1>13

Secret == Wizards!Secret
Account == Wizards!Account
Own(s) == Wizards!Own(s)
Profiles == [user : Account, host : Switch] \cup {Nobody}
WizRecord == [step : {"unused", "connect", "place", "closed"},
              todo : Connects \cup Creates \cup Attaches, switch : Switch \cup {None},
              create : BOOLEAN, preset : Profiles, user : Account, secret : Secret]

WizTypes ==
    /\ running \in [Switch -> Secret] /\ startup \in [Switch -> Secret]
    /\ profile \in [Account -> [Switch -> Secret]]
    /\ DOMAIN device = Switch /\ \A s \in Switch : device[s] \in {None} \cup Profiles
    /\ DOMAIN wizard = Wizard

\* The request a wizard is in, and what its credentials are when it uses them.
Resolved(w) ==
    IF w.preset = Nobody THEN w.user = "operator" /\ w.secret = Own(w.switch)
    ELSE /\ w.user = w.preset.user /\ w.secret # None
         /\ w.user = "operator" => w.secret = Own(w.preset.host)

Form(a, w) ==
    /\ w \in WizRecord
    /\ w.step = "unused" => w = Wizards!Unused
    /\ w.step = "closed" => w = Wizards!Closed
    /\ w.step \in {"connect", "place"} => w.switch \in Switch
    /\ w.step = "connect" => ~w.create /\ w.todo \in Connects
    /\ w.step = "place" => w.todo \in (IF w.create THEN Creates ELSE Attaches)
    /\ w.create => w.step = "place" /\ w.preset.user # "SPAdmin"
    /\ w.step = "connect" /\ w.todo \in {KA, An} => Resolved(w)
    /\ w.create /\ w.todo \in {C6, S5, P4} => Resolved(w)
    /\ w.step = "place" /\ ~w.create /\ w.todo \in {I3, T2, N1} => Resolved(w)
    /\ w.create /\ w.todo \in {I3, T2, N1} => w.user = "SPAdmin" /\ w.secret = G(a)
    /\ w.step = "place" /\ ~w.create /\ w.todo \in {T2, N1} /\ w.preset # Nobody =>
         w.preset.host = w.switch

FormInv == \A a \in Wizard : Form(a, wizard[a])

\* A profile of the operator's has the switch's own secret, what a device or a wizard is
\* attached to is there, and a device is attached to a profile of its own.
StoreInv ==
    /\ \A s \in Switch : profile["operator"][s] \in {None, Own(s)}
    /\ \A s \in Switch : device[s] \notin {None, Nobody} =>
         device[s].host = s /\ profile[device[s].user][s] # None
    /\ \A a \in Wizard : Preset(a) # Nobody => profile[Preset(a).user][Preset(a).host] # None
    /\ \A a \in Wizard : Todo(a) = N1 /\ (Preset(a) = Nobody \/ wizard[a].create) =>
         profile[wizard[a].user][OnSwitch(a)] # None

\* While wizard a creates the account at s.
Creating(a, left, s) ==
    /\ running[s] \in {None, G(a)}
    /\ left \in {P4, I3, T2, N1} => startup[s] = running[s]
    /\ left \in {I3, T2, N1} => running[s] = G(a)

\* Where only one wizard is at a switch: what it creates stays, and what is saved runs.
CleanInv ==
    \A s \in Switch \ crossed :
      /\ startup[s] \in {None, running[s]}
      /\ profile["SPAdmin"][s] # None =>
           running[s] = profile["SPAdmin"][s] /\ startup[s] = profile["SPAdmin"][s]
      /\ \A a, b \in Wizard : OnSwitch(a) = s /\ OnSwitch(b) = s => a = b
      /\ \A a \in Wizard : OnSwitch(a) = s /\ wizard[a].create => Creating(a, Todo(a), s)

\* A secret of SPAdmin is known at one switch only: the one of the wizard that made it.
Bound(x, s) ==
    \/ running[s] = x \/ startup[s] = x \/ profile["SPAdmin"][s] = x
    \/ \E a \in Wizard : /\ Preset(a).user = "SPAdmin" /\ Preset(a).host = s
                         /\ wizard[a].secret = x
HomeInv ==
    /\ \A x \in Secret \ {None} : \A s, t \in Switch : Bound(x, s) /\ Bound(x, t) => s = t
    /\ \A a \in Wizard : \A s \in Switch : Bound(G(a), s) =>
         /\ wizard[a].step # "unused"
         /\ OnSwitch(a) \in Switch => OnSwitch(a) = s

WInv == WizTypes /\ FormInv /\ StoreInv /\ CleanInv /\ HomeInv

LEMMA Secrets ==
    /\ \A s \in Switch : Own(s) \in Secret \ {None}
    /\ \A a \in Wizard : G(a) \in Secret \ {None}
    /\ None \in Secret /\ Nobody \in Profiles /\ Nobody.user = None
    /\ \A p \in Profiles : p # Nobody => p \in [user : Account, host : Switch]
    /\ Nobody \notin [user : Account, host : Switch] /\ None \notin Profiles
    /\ \A s, t \in Switch : Own(s) = Own(t) => s = t
    /\ \A a, b \in Wizard : G(a) = G(b) => a = b
    /\ \A a \in Wizard, s \in Switch : G(a) # Own(s)
    /\ Account = {"operator", "SPAdmin"}
    /\ Wizards!Hosts = Switch
    /\ None \notin Switch
  <1> USE WizardAssumption DEF Own, G, Secret, Nobody, Profiles, Account, Wizards!Own,
        Wizards!Generated, Wizards!Secret, Wizards!NoProfile, Wizards!Account
  <1>1. /\ \A s \in Switch : Own(s) \in Secret \ {None}
        /\ \A a \in Wizard : G(a) \in Secret \ {None}
        /\ None \in Secret
    OBVIOUS
  <1>2. /\ Nobody \in Profiles /\ Nobody.user = None
        /\ Nobody \notin [user : Account, host : Switch]
        /\ \A p \in Profiles : p # Nobody => p \in [user : Account, host : Switch]
    OBVIOUS
  <1>3. None \notin Profiles
    <2>1. Profiles \subseteq [user : {None, "operator", "SPAdmin"}, host : Switch \cup {None}]
      OBVIOUS
    <2> QED BY <2>1
  <1>4. /\ \A s, t \in Switch : Own(s) = Own(t) => s = t
        /\ \A a, b \in Wizard : G(a) = G(b) => a = b
        /\ \A a \in Wizard, s \in Switch : G(a) # Own(s)
    OBVIOUS
  <1>5. Wizards!Hosts = Switch
    BY DEF Wizards!Hosts
  <1> QED BY <1>1, <1>2, <1>3, <1>4, <1>5

\* Unused and closed wizards are at no switch and have nothing left to do.
LEMMA Resting ==
    /\ Wizards!Unused \in WizRecord /\ Wizards!Closed \in WizRecord
    /\ \A w \in {Wizards!Unused, Wizards!Closed} :
         w.todo = << >> /\ w.switch = None /\ ~w.create /\ w.preset = Nobody /\ w.secret = None
    /\ Wizards!Unused.step = "unused" /\ Wizards!Closed.step = "closed"
  <1> DEFINE u == Wizards!Unused
             c == Wizards!Closed
  <1>1. u = [step |-> "unused", todo |-> << >>, switch |-> None, create |-> FALSE,
             preset |-> Nobody, user |-> "operator", secret |-> None]
    BY DEF Wizards!Unused, Nobody
  <1>a. c = [u EXCEPT !.step = "closed"]
    BY DEF Wizards!Closed
  <1>3. << >> \in Connects /\ "operator" \in Account
    BY Secrets DEF Connects
  <1> HIDE DEF u, c
  <1>2. c = [step |-> "closed", todo |-> << >>, switch |-> None, create |-> FALSE,
             preset |-> Nobody, user |-> "operator", secret |-> None]
    BY <1>1, <1>a
  <1>4. u \in WizRecord /\ c \in WizRecord
    BY <1>1, <1>2, <1>3, Secrets DEF WizRecord
  <1>5. /\ \A w \in {u, c} :
             w.todo = << >> /\ w.switch = None /\ ~w.create /\ w.preset = Nobody /\ w.secret = None
        /\ u.step = "unused" /\ c.step = "closed"
    BY <1>1, <1>2
  <1> QED BY <1>4, <1>5 DEF u, c

LEMMA WizardInit == Wizards!Init => WInv
  <1> SUFFICES ASSUME Wizards!Init PROVE WInv
    OBVIOUS
  <1>1. /\ running = [s \in Switch |-> None] /\ startup = running
        /\ profile = [u \in Account |-> [h \in Switch |-> None]]
        /\ device = [s \in Switch |-> None]
        /\ wizard = [a \in Wizard |-> Wizards!Unused]
    BY Secrets DEF Wizards!Init, Account
  <1>2. WizTypes
    BY <1>1, Secrets DEF WizTypes
  <1>3. FormInv
    BY <1>1, Resting, Secrets DEF FormInv, Form, Connects
  <1>4. StoreInv
    BY <1>1, Resting, Requests, Secrets DEF StoreInv, Preset, Todo
  <1>5. CleanInv
    BY <1>1, Resting, Secrets DEF CleanInv, OnSwitch
  <1>6. \A x \in Secret \ {None} : \A s \in Switch : ~Bound(x, s)
    BY <1>1, Resting, Secrets DEF Bound, Preset
  <1>7. HomeInv
    BY <1>6, Secrets DEF HomeInv
  <1> QED BY <1>2, <1>3, <1>4, <1>5, <1>7 DEF WInv

LEMMA DevicesWork == WInv => AddedDevicesWork
  <1> SUFFICES ASSUME WInv PROVE AddedDevicesWork
    OBVIOUS
  <1>1. Wizards!TypeOK
    BY Secrets DEF WInv, WizTypes, FormInv, Form, WizRecord, Wizards!TypeOK, Secret, Account,
                   Profiles, Nobody
  <1>2. ASSUME NEW s \in Switch, s \notin crossed PROVE Wizards!Works(s)
    <2> SUFFICES ASSUME device[s] \notin {None, Nobody}
                 PROVE  Wizards!Accepts(s, device[s].user, profile[device[s].user][device[s].host])
      BY DEF Wizards!Works, Nobody
    <2>1. /\ device[s].user \in {"operator", "SPAdmin"} /\ device[s].host = s
          /\ profile[device[s].user][s] # None
      BY Secrets DEF WInv, WizTypes, StoreInv
    <2>2. CASE device[s].user = "operator"
      BY <2>1, <2>2 DEF WInv, StoreInv, Wizards!Accepts, Own
    <2>3. CASE device[s].user = "SPAdmin"
      BY <2>1, <2>3, <1>2 DEF WInv, CleanInv, Wizards!Accepts
    <2> QED BY <2>1, <2>2, <2>3
  <1> QED BY <1>1, <1>2 DEF AddedDevicesWork, Wizards!StoredCredentialsWork

\* A wizard that is somewhere and goes on, or closes, and at most adds its device.
LEMMA WizardMoves ==
    ASSUME WInv, NEW a \in Wizard, NEW w,
           wizard' = [wizard EXCEPT ![a] = w],
           UNCHANGED <<running, startup, profile, crossed>>,
           DOMAIN device' = Switch,
           \A s \in Switch : device'[s] = device[s] \/
             /\ device'[s] \in Profiles
             /\ device'[s] # Nobody =>
                  device'[s].host = s /\ profile[device'[s].user][s] # None,
           Form(a, w), w.step # "unused",
           w.switch \in {OnSwitch(a), None}, w.preset \in {Preset(a), Nobody},
           w.preset.user = "SPAdmin" =>
             w.secret \in {wizard[a].secret, profile["SPAdmin"][w.preset.host]},
           w.todo = N1 /\ (w.preset = Nobody \/ w.create) => profile[w.user][w.switch] # None,
           w.create /\ w.switch \notin crossed => Creating(a, w.todo, w.switch)
    PROVE  WInv'
  <1>1. /\ wizard'[a] = w /\ DOMAIN wizard' = Wizard
        /\ \A b \in Wizard : b # a => wizard'[b] = wizard[b]
    BY DEF WInv, WizTypes
  <1>2. WizTypes'
    BY <1>1 DEF WInv, WizTypes
  <1>3. FormInv'
    BY <1>1 DEF WInv, FormInv
  <1>4. StoreInv'
    BY <1>1 DEF WInv, StoreInv, Preset, Todo, OnSwitch
  <1>5. CleanInv'
    BY <1>1, Secrets DEF WInv, CleanInv, Creating, Todo, OnSwitch
  <1>6. ASSUME NEW x \in Secret, NEW s \in Switch, Bound(x, s)'
        PROVE  Bound(x, s)
    <2>1. Nobody.user # "SPAdmin"
      BY Secrets, WizardAssumption
    <2> QED BY <1>1, <1>6, <2>1 DEF Bound, Preset
  <1>7. HomeInv'
    BY <1>1, <1>6, Secrets DEF WInv, HomeInv, OnSwitch
  <1> QED BY <1>2, <1>3, <1>4, <1>5, <1>7 DEF WInv

\* What a step changes in a wizard.
LEMMA WithTodo ==
    ASSUME NEW r \in WizRecord, NEW t \in Connects \cup Creates \cup Attaches
    PROVE  LET w == [r EXCEPT !.todo = t] IN
           /\ w \in WizRecord /\ w.todo = t
           /\ w.step = r.step /\ w.switch = r.switch /\ w.create = r.create
           /\ w.preset = r.preset /\ w.user = r.user /\ w.secret = r.secret
  BY DEF WizRecord

\* A wizard with statements left is somewhere, and it has what it has left.
LEMMA AtWork ==
    ASSUME WInv, NEW a \in Wizard, Todo(a) # << >>
    PROVE  /\ wizard[a] \in WizRecord /\ Form(a, wizard[a])
           /\ wizard[a].step \in {"connect", "place"} /\ OnSwitch(a) \in Switch
           /\ Tail(Todo(a)) \in Connects \cup Creates \cup Attaches
  <1>1. Form(a, wizard[a]) /\ wizard[a] \in WizRecord
    BY DEF WInv, FormInv, Form
  <1>2. wizard[a].step \in {"connect", "place"}
    BY <1>1, Resting DEF Form, WizRecord, Todo
  <1>3. Todo(a) \in Connects \cup Creates \cup Attaches
    BY <1>1 DEF WizRecord, Todo
  <1> HIDE DEF Todo
  <1>4. Tail(Todo(a)) \in Connects \cup Creates \cup Attaches
    BY <1>3, Requests DEF Connects, Creates, Attaches
  <1> QED BY <1>1, <1>2, <1>4 DEF Form, OnSwitch

\* Looking for a device, logging in and asking the switch leave everything else alone.
LEMMA KnownStep == ASSUME WInv, NEW a \in Wizard, Wizards!Known(a) PROVE WInv'
  <1> DEFINE r == wizard[a]
             t == IF device[OnSwitch(a)] # None THEN << >> ELSE Tail(Todo(a))
             w == [r EXCEPT !.todo = t]
  <1>1. Todo(a) # << >> /\ Head(Todo(a)) = "known"
    BY DEF Wizards!Known, Wizards!At, Todo
  <1>2. /\ wizard' = [wizard EXCEPT ![a] = w]
        /\ UNCHANGED <<running, startup, profile, device, crossed>>
    BY DEF Wizards!Known, Wizards!To, Wizards!Shown, Wizards!Advance, Wizards!On, OnSwitch, Todo
  <1>3. /\ r \in WizRecord /\ Form(a, r) /\ r.step \in {"connect", "place"}
        /\ t \in Connects \cup Creates \cup Attaches
    BY <1>1, AtWork DEF Connects
  <1>4. /\ r.step = "connect" => r.todo = KA
        /\ r.step = "place" => r.todo = IF r.create THEN K8 ELSE K5
    <2>1. CASE r.step = "connect"
      BY <1>1, <1>3, <2>1, Requests DEF Todo, Form, Connects
    <2>2. CASE r.step = "place" /\ r.create
      BY <1>1, <1>3, <2>2, Requests DEF Todo, Form, Creates
    <2>3. CASE r.step = "place" /\ ~r.create
      BY <1>1, <1>3, <2>3, Requests DEF Todo, Form, Attaches
    <2> QED BY <1>3, <2>1, <2>2, <2>3
  <1>5. /\ r.step = "connect" => t \in {<< >>, An}
        /\ r.step = "place" => t \in {<< >>, IF r.create THEN R7 ELSE R4}
    <2>1. t \in {<< >>, Tail(r.todo)}
      BY DEF Todo
    <2> HIDE DEF t
    <2> QED BY <1>4, <2>1, Requests
  <1> HIDE DEF t
  <1>6. /\ w \in WizRecord /\ w.todo = t
        /\ w.step = r.step /\ w.switch = r.switch /\ w.create = r.create
        /\ w.preset = r.preset /\ w.user = r.user /\ w.secret = r.secret
    BY <1>3, WithTodo
  <1> HIDE DEF w
  <1>7. t \notin {KA, C6, S5, P4, I3, T2, N1}
    <2>1. {<< >>, An, R7, R4} \cap {KA, C6, S5, P4, I3, T2, N1} = {}
      BY Requests
    <2>2. t \in {<< >>, An, R7, R4}
      BY <1>3, <1>5
    <2> QED BY <2>1, <2>2
  <1>8. Form(a, w)
    <2>1. /\ << >> \in Connects /\ An \in Connects /\ << >> \in Creates /\ R7 \in Creates
          /\ << >> \in Attaches /\ R4 \in Attaches
      BY DEF Connects, Creates, Attaches
    <2>2. r.step = "connect" => Resolved(w)
      BY <1>3, <1>4, <1>6 DEF Form, Resolved
    <2> QED BY <1>3, <1>5, <1>6, <1>7, <2>1, <2>2 DEF Form
  <1>9. w.create /\ w.switch \notin crossed => Creating(a, w.todo, w.switch)
    <2>1. r.switch \in Switch
      BY <1>1, AtWork DEF OnSwitch
    <2>2. r.create /\ r.switch \notin crossed => Creating(a, r.todo, r.switch)
      BY <2>1 DEF WInv, CleanInv, OnSwitch, Todo
    <2> QED BY <1>6, <1>7, <2>2 DEF Creating
  <1> QED BY <1>2, <1>3, <1>6, <1>7, <1>8, <1>9, WizardMoves DEF OnSwitch, Preset, WInv, WizTypes

LEMMA ResolveStep == ASSUME WInv, NEW a \in Wizard, Wizards!Resolve(a) PROVE WInv'
  <1> DEFINE r == wizard[a]
             p == Preset(a)
             t == Tail(Todo(a))
             u == IF p = Nobody THEN "operator" ELSE p.user
             x == IF p = Nobody THEN Own(OnSwitch(a)) ELSE profile[p.user][p.host]
             v == [r EXCEPT !.todo = t]
             w == [v EXCEPT !.user = u, !.secret = x]
  <1>1. Todo(a) # << >> /\ Head(Todo(a)) = "resolve"
    BY DEF Wizards!Resolve, Wizards!At, Todo
  <1>2. /\ wizard' = [wizard EXCEPT ![a] = w]
        /\ UNCHANGED <<running, startup, profile, device, crossed>>
    BY DEF Wizards!Resolve, Wizards!To, Wizards!Advance, Wizards!On, OnSwitch, Todo, Preset,
           Nobody, Own
  <1>3. /\ r \in WizRecord /\ Form(a, r) /\ r.step \in {"connect", "place"}
        /\ r.switch \in Switch /\ p \in Profiles
        /\ t \in Connects \cup Creates \cup Attaches
    BY <1>1, AtWork DEF OnSwitch, Preset, WizRecord
  <1>4. u \in Account /\ x \in Secret
    BY <1>3, Secrets DEF WInv, WizTypes, OnSwitch
  <1>5. /\ p # Nobody => u = p.user /\ x = profile[p.user][p.host] /\ x # None
        /\ p = Nobody => u = "operator" /\ x = Own(r.switch)
        /\ p # Nobody /\ u = "operator" => x = Own(p.host)
    BY <1>3, Secrets DEF WInv, StoreInv, OnSwitch
  <1> HIDE DEF t, u, x
  <1>6. /\ v \in WizRecord /\ v.todo = t
        /\ v.step = r.step /\ v.switch = r.switch /\ v.create = r.create
        /\ v.preset = r.preset
    BY <1>3, WithTodo
  <1> HIDE DEF v
  <1>7. /\ w \in WizRecord /\ w.todo = t
        /\ w.step = r.step /\ w.switch = r.switch /\ w.create = r.create
        /\ w.preset = p /\ w.user = u /\ w.secret = x
    BY <1>4, <1>6 DEF Preset, WizRecord
  <1> HIDE DEF w
  <1>8. /\ r.step = "connect" => t = KA
        /\ r.step = "place" => t = IF r.create THEN C6 ELSE I3
    <2>1. CASE r.step = "connect"
      BY <1>1, <1>3, <2>1, Requests DEF t, Todo, Form, Connects
    <2>2. CASE r.step = "place" /\ r.create
      BY <1>1, <1>3, <2>2, Requests DEF t, Todo, Form, Creates
    <2>3. CASE r.step = "place" /\ ~r.create
      BY <1>1, <1>3, <2>3, Requests DEF t, Todo, Form, Attaches
    <2> QED BY <1>3, <2>1, <2>2, <2>3
  <1>9. Resolved(w)
    BY <1>5, <1>7 DEF Resolved
  <1>10. Form(a, w)
    <2>1. KA \in Connects /\ C6 \in Creates /\ I3 \in Attaches
      BY DEF Connects, Creates, Attaches
    <2>2. C6 \notin {I3, T2, N1} /\ I3 \notin {T2, N1}
      BY Requests
    <2> QED BY <1>3, <1>7, <1>8, <1>9, <2>1, <2>2 DEF Form, Preset
  <1>11. w.create /\ w.switch \notin crossed => Creating(a, w.todo, w.switch)
    <2>1. C6 \notin {P4, I3, T2, N1}
      BY Requests
    <2>2. r.create /\ r.switch \notin crossed => Creating(a, r.todo, r.switch)
      BY <1>3 DEF WInv, CleanInv, OnSwitch, Todo
    <2>3. r.create => t = C6
      BY <1>3, <1>8 DEF Form
    <2> QED BY <1>7, <2>1, <2>2, <2>3 DEF Creating
  <1>12. w.preset.user = "SPAdmin" => w.secret = profile["SPAdmin"][w.preset.host]
    BY <1>5, <1>7, Secrets, WizardAssumption
  <1>13. w.todo # N1
    BY <1>3, <1>7, <1>8, Requests
  <1> QED BY <1>2, <1>3, <1>7, <1>10, <1>11, <1>12, <1>13, WizardMoves DEF OnSwitch, Preset,
            WInv, WizTypes

LEMMA AnalyzeStep == ASSUME WInv, NEW a \in Wizard, Wizards!Analyze(a) PROVE WInv'
  <1> DEFINE r == wizard[a]
             s == OnSwitch(a)
             c == running[s] = None /\ r.user # "SPAdmin"
             ok == Wizards!Accepts(s, r.user, r.secret)
             v == [r EXCEPT !.todo = << >>]
             w == IF ok THEN [v EXCEPT !.step = "place", !.create = c] ELSE v
  <1>1. Todo(a) # << >> /\ Head(Todo(a)) = "analyze"
    BY DEF Wizards!Analyze, Wizards!At, Todo
  <1>2. /\ r \in WizRecord /\ Form(a, r) /\ s \in Switch /\ s = r.switch
        /\ << >> \in Connects /\ << >> \in Creates /\ << >> \in Attaches
    BY <1>1, AtWork DEF OnSwitch, Connects, Creates, Attaches
  <1>3. r.step = "connect" /\ r.todo = An /\ ~r.create
    BY <1>1, <1>2, AtWork, Requests DEF Todo, Form, Connects, Creates, Attaches
  <1>4. /\ wizard' = [wizard EXCEPT ![a] = w]
        /\ UNCHANGED <<running, startup, profile, device, crossed>>
    <2>1. Tail(r.todo) = << >>
      BY <1>3, Requests
    <2> QED BY <1>2, <2>1 DEF Wizards!Analyze, Wizards!To, Wizards!Advance, Wizards!Shown,
              Wizards!On, OnSwitch
  <1>5. /\ v \in WizRecord /\ v.todo = << >>
        /\ v.step = r.step /\ v.switch = r.switch /\ v.create = r.create
        /\ v.preset = r.preset /\ v.user = r.user /\ v.secret = r.secret
    BY <1>2, WithTodo
  <1> HIDE DEF v, c, ok
  <1>6. /\ w \in WizRecord /\ w.todo = << >> /\ w.switch = r.switch
        /\ w.preset = r.preset /\ w.user = r.user /\ w.secret = r.secret
        /\ \/ w.step = "connect" /\ ~w.create
           \/ w.step = "place" /\ (w.create => c)
    <2>1. CASE ~ok
      BY <1>3, <1>5, <2>1
    <2>2. CASE ok
      <3>1. c \in BOOLEAN
        BY DEF c
      <3> QED BY <1>5, <2>2, <3>1 DEF WizRecord
    <2> QED BY <2>1, <2>2
  <1> HIDE DEF w
  <1>7. c => r.preset.user # "SPAdmin"
    BY <1>2, <1>3, Secrets, WizardAssumption DEF c, Form, Resolved
  <1>8. << >> \notin {RKA, KA, An, K8, R7, C6, S5, P4, K5, R4, I3, T2, N1}
    BY Requests
  <1>9. Form(a, w)
    BY <1>2, <1>6, <1>7, <1>8 DEF Form
  <1>10. w.create => Creating(a, w.todo, w.switch)
    BY <1>2, <1>6, <1>8 DEF Creating, c
  <1> QED BY <1>2, <1>4, <1>6, <1>8, <1>9, <1>10, WizardMoves DEF WInv, WizTypes, Preset, OnSwitch

LEMMA AddStep ==
    ASSUME WInv, NEW a \in Wizard, NEW create \in BOOLEAN, Wizards!Add(a, create)
    PROVE  WInv'
  <1> DEFINE r == wizard[a]
             t == IF create THEN K8 ELSE K5
             w == [r EXCEPT !.create = create, !.todo = t]
  <1>1. /\ r.step = "place" /\ r.todo = << >> /\ (create => r.create)
        /\ wizard' = [wizard EXCEPT ![a] = w]
        /\ UNCHANGED <<running, startup, profile, device, crossed>>
    BY DEF Wizards!Add, Wizards!To, K8, K5
  <1>2. /\ r \in WizRecord /\ Form(a, r) /\ r.switch \in Switch /\ OnSwitch(a) = r.switch
        /\ K8 \in Creates /\ K5 \in Attaches
    BY <1>1 DEF WInv, FormInv, Form, OnSwitch, Creates, Attaches
  <1> HIDE DEF t
  <1>3. /\ w \in WizRecord /\ w.todo = t /\ w.create = create
        /\ w.step = r.step /\ w.switch = r.switch
        /\ w.preset = r.preset /\ w.user = r.user /\ w.secret = r.secret
    BY <1>2 DEF WizRecord, t
  <1> HIDE DEF w
  <1>4. /\ t \notin {<< >>, RKA, R7, C6, S5, P4, R4, I3, T2, N1}
        /\ create => t = K8
        /\ ~create => t = K5
    <2>1. K8 \notin {<< >>, RKA, R7, C6, S5, P4, R4, I3, T2, N1}
      BY Requests
    <2>2. K5 \notin {<< >>, RKA, R7, C6, S5, P4, R4, I3, T2, N1}
      BY Requests
    <2> QED BY <2>1, <2>2 DEF t
  <1>5. Form(a, w)
    BY <1>1, <1>2, <1>3, <1>4 DEF Form
  <1>6. create /\ r.switch \notin crossed => Creating(a, t, r.switch)
    BY <1>1, <1>2, <1>4 DEF WInv, CleanInv, Creating
  <1> QED BY <1>1, <1>2, <1>3, <1>4, <1>5, <1>6, WizardMoves DEF WInv, WizTypes, Preset

LEMMA TryAgainStep == ASSUME WInv, NEW a \in Wizard, Wizards!TryAgain(a) PROVE WInv'
  <1> DEFINE r == wizard[a]
             w == [r EXCEPT !.todo = RKA]
  <1>1. /\ r.step = "connect" /\ r.todo = << >>
        /\ wizard' = [wizard EXCEPT ![a] = w]
        /\ UNCHANGED <<running, startup, profile, device, crossed>>
    BY DEF Wizards!TryAgain, Wizards!To, RKA
  <1>2. /\ r \in WizRecord /\ Form(a, r) /\ r.switch \in Switch /\ OnSwitch(a) = r.switch
        /\ RKA \in Connects
    BY <1>1 DEF WInv, FormInv, Form, OnSwitch, Connects
  <1>3. /\ w \in WizRecord /\ w.todo = RKA
        /\ w.step = r.step /\ w.switch = r.switch /\ w.create = r.create
        /\ w.preset = r.preset /\ w.user = r.user /\ w.secret = r.secret
    BY <1>2, WithTodo
  <1> HIDE DEF w
  <1>4. RKA \notin {KA, An, N1}
    BY Requests
  <1>5. Form(a, w) /\ ~w.create
    BY <1>1, <1>2, <1>3, <1>4 DEF Form
  <1> QED BY <1>1, <1>2, <1>3, <1>4, <1>5, WizardMoves DEF WInv, WizTypes, Preset

LEMMA CloseStep == ASSUME WInv, NEW a \in Wizard, Wizards!CloseWizard(a) PROVE WInv'
  <1> DEFINE w == Wizards!Closed
  <1>1. /\ wizard' = [wizard EXCEPT ![a] = w]
        /\ UNCHANGED <<running, startup, profile, device, crossed>>
    BY DEF Wizards!CloseWizard, Wizards!To
  <1> HIDE DEF w
  <1>2. /\ w \in WizRecord /\ w.todo = << >> /\ w.switch = None /\ ~w.create
        /\ w.preset = Nobody /\ w.secret = None /\ w.step = "closed" /\ w = Wizards!Closed
    BY Resting DEF w
  <1>3. Form(a, w)
    BY <1>2 DEF Form
  <1>4. Nobody.user # "SPAdmin" /\ << >> # N1
    BY Secrets, WizardAssumption, Requests
  <1> QED BY <1>1, <1>2, <1>3, <1>4, WizardMoves DEF WInv, WizTypes

LEMMA ProbeStep == ASSUME WInv, NEW a \in Wizard, Wizards!Probe(a) PROVE WInv'
  <1> DEFINE r == wizard[a]
             s == OnSwitch(a)
             ok == running[s] = G(a)
             v == [r EXCEPT !.todo = I3]
             w == IF ok THEN [v EXCEPT !.user = "SPAdmin", !.secret = G(a)]
                  ELSE [r EXCEPT !.todo = << >>]
  <1>1. Todo(a) # << >> /\ Head(Todo(a)) = "probe"
    BY DEF Wizards!Probe, Wizards!At, Todo
  <1>2. /\ r \in WizRecord /\ Form(a, r) /\ s \in Switch /\ s = r.switch
        /\ I3 \in Creates /\ << >> \in Creates
    BY <1>1, AtWork DEF OnSwitch, Creates
  <1>3. r.step = "place" /\ r.todo = P4 /\ r.create /\ r.preset.user # "SPAdmin"
    BY <1>1, <1>2, AtWork, Requests DEF Todo, Form, Connects, Creates, Attaches
  <1>4. /\ wizard' = [wizard EXCEPT ![a] = w]
        /\ UNCHANGED <<running, startup, profile, device, crossed>>
    <2>1. Tail(r.todo) = I3
      BY <1>3, Requests
    <2>2. Wizards!Accepts(s, "SPAdmin", G(a)) <=> ok
      BY Secrets DEF Wizards!Accepts
    <2> QED BY <1>2, <2>1, <2>2 DEF Wizards!Probe, Wizards!To, Wizards!Advance, Wizards!Shown,
              Wizards!On, OnSwitch, G
  <1> HIDE DEF ok
  <1>5. /\ w \in WizRecord /\ w.switch = r.switch /\ w.create /\ w.step = "place"
        /\ w.preset = r.preset
        /\ \/ w.todo = << >>
           \/ w.todo = I3 /\ ok /\ w.user = "SPAdmin" /\ w.secret = G(a)
    <2>1. CASE ~ok
      BY <1>2, <1>3, <2>1 DEF WizRecord
    <2>2. CASE ok
      <3>1. "SPAdmin" \in Account /\ G(a) \in Secret
        BY Secrets
      <3> QED BY <1>2, <1>3, <2>2, <3>1 DEF WizRecord
    <2> QED BY <2>1, <2>2
  <1> HIDE DEF w
  <1>6. /\ << >> \notin {RKA, KA, An, K8, R7, C6, S5, P4, K5, R4, I3, T2, N1}
        /\ I3 \notin {<< >>, RKA, KA, An, K8, R7, C6, S5, P4, K5, R4, T2, N1}
    BY Requests
  <1>7. Form(a, w)
    BY <1>2, <1>3, <1>5, <1>6 DEF Form
  <1>8. w.create /\ w.switch \notin crossed => Creating(a, w.todo, w.switch)
    <2>1. r.switch \notin crossed => Creating(a, P4, r.switch)
      BY <1>2, <1>3 DEF WInv, CleanInv, Todo
    <2> QED BY <1>2, <1>5, <1>6, <2>1 DEF Creating, ok
  <1> QED BY <1>2, <1>3, <1>4, <1>5, <1>6, <1>7, <1>8, WizardMoves DEF WInv, WizTypes, Preset,
            OnSwitch

\* What the switch accepts from a wizard with the profile of a switch is that switch's.
LEMMA InspectStep == ASSUME WInv, NEW a \in Wizard, Wizards!Inspect(a) PROVE WInv'
  <1> DEFINE r == wizard[a]
             s == OnSwitch(a)
             ok == Wizards!Accepts(s, r.user, r.secret)
             t == IF ok THEN T2 ELSE << >>
             w == [r EXCEPT !.todo = t]
  <1>1. Todo(a) # << >> /\ Head(Todo(a)) = "inspect"
    BY DEF Wizards!Inspect, Wizards!At, Todo
  <1>2. /\ r \in WizRecord /\ Form(a, r) /\ s \in Switch /\ s = r.switch
        /\ {T2, << >>} \subseteq Creates /\ {T2, << >>} \subseteq Attaches
    BY <1>1, AtWork DEF OnSwitch, Creates, Attaches
  <1>3. r.step = "place" /\ r.todo = I3
    BY <1>1, <1>2, AtWork, Requests DEF Todo, Form, Connects, Creates, Attaches
  <1>4. /\ wizard' = [wizard EXCEPT ![a] = w]
        /\ UNCHANGED <<running, startup, profile, device, crossed>>
    <2>1. Tail(r.todo) = T2
      BY <1>3, Requests
    <2> QED BY <1>2, <2>1 DEF Wizards!Inspect, Wizards!To, Wizards!Advance, Wizards!Shown,
              Wizards!On, OnSwitch
  <1>5. t \in {T2, << >>} /\ (t = T2 => ok)
    BY Requests
  <1> HIDE DEF t
  <1>6. /\ w \in WizRecord /\ w.todo = t
        /\ w.step = r.step /\ w.switch = r.switch /\ w.create = r.create
        /\ w.preset = r.preset /\ w.user = r.user /\ w.secret = r.secret
    BY <1>2, <1>5, WithTodo
  <1>7. ok /\ ~r.create /\ r.preset # Nobody => r.preset.host = r.switch
    <2> SUFFICES ASSUME ok, ~r.create, r.preset # Nobody PROVE r.preset.host = s
      BY <1>2
    <2>1. /\ r.user = r.preset.user /\ r.secret # None
          /\ r.user = "operator" => r.secret = Own(r.preset.host)
      BY <1>2, <1>3 DEF Form, Resolved
    <2>2. r.preset.host \in Switch /\ r.user \in {"operator", "SPAdmin"} /\ r.secret \in Secret
      BY <1>2, Secrets DEF WizRecord
    <2>3. CASE r.user = "operator"
      <3>1. r.secret = Own(s)
        BY <2>3 DEF Wizards!Accepts, Own
      <3> QED BY <2>1, <2>2, <2>3, <3>1, <1>2, Secrets
    <2>4. CASE r.user = "SPAdmin"
      <3>1. running[s] = r.secret
        BY <2>4 DEF Wizards!Accepts
      <3>2. Bound(r.secret, s)
        BY <3>1 DEF Bound
      <3>3. Bound(r.secret, r.preset.host)
        BY <2>1, <2>4 DEF Bound, Preset
      <3> QED BY <2>1, <2>2, <3>2, <3>3, <1>2 DEF WInv, HomeInv
    <2> QED BY <2>2, <2>3, <2>4
  <1> HIDE DEF ok, w
  <1>8. /\ << >> \notin {RKA, KA, An, K8, R7, C6, S5, P4, K5, R4, I3, T2, N1}
        /\ T2 \notin {<< >>, RKA, KA, An, K8, R7, C6, S5, P4, K5, R4, I3, N1}
    BY Requests
  <1>9. Form(a, w)
    BY <1>2, <1>3, <1>5, <1>6, <1>7, <1>8 DEF Form, Resolved
  <1>10. w.create /\ w.switch \notin crossed => Creating(a, w.todo, w.switch)
    <2>1. r.create /\ r.switch \notin crossed => Creating(a, I3, r.switch)
      BY <1>2, <1>3 DEF WInv, CleanInv, Todo
    <2> QED BY <1>2, <1>5, <1>6, <1>8, <2>1 DEF Creating
  <1> QED BY <1>2, <1>3, <1>4, <1>5, <1>6, <1>8, <1>9, <1>10, WizardMoves DEF WInv, WizTypes,
            Preset, OnSwitch

LEMMA InsertStep == ASSUME WInv, NEW a \in Wizard, Wizards!InsertDevice(a) PROVE WInv'
  <1> DEFINE r == wizard[a]
             s == OnSwitch(a)
             d == Wizards!Attached(a)
             w == IF device[s] = None THEN Wizards!Closed ELSE [r EXCEPT !.todo = << >>]
  <1>1. Todo(a) # << >> /\ Head(Todo(a)) = "insert"
    BY DEF Wizards!InsertDevice, Wizards!At, Todo
  <1>2. /\ r \in WizRecord /\ Form(a, r) /\ s \in Switch /\ s = r.switch
        /\ << >> \in Creates /\ << >> \in Attaches
    BY <1>1, AtWork DEF OnSwitch, Creates, Attaches
  <1>3. r.step = "place" /\ r.todo = N1
    BY <1>1, <1>2, AtWork, Requests DEF Todo, Form, Connects, Creates, Attaches
  <1>4. /\ wizard' = [wizard EXCEPT ![a] = w]
        /\ UNCHANGED <<running, startup, profile, crossed>>
        /\ device' = IF device[s] = None THEN [device EXCEPT ![s] = d] ELSE device
    BY <1>2 DEF Wizards!InsertDevice, Wizards!To, Wizards!Shown, Wizards!On, OnSwitch
  <1>5. d = IF r.preset # Nobody /\ ~r.create THEN r.preset
            ELSE [user |-> r.user, host |-> s]
    BY <1>2 DEF Wizards!Attached, Wizards!Host, Wizards!On, Nobody
  <1> HIDE DEF d
  <1>6. d \in [user : Account, host : Switch] /\ d.host = s /\ profile[d.user][s] # None
    <2>1. CASE r.preset # Nobody /\ ~r.create
      <3>1. r.preset.host = s /\ r.preset \in [user : Account, host : Switch]
        BY <1>2, <1>3, <2>1, Secrets DEF Form, WizRecord
      <3> QED BY <1>5, <2>1, <3>1 DEF WInv, StoreInv, Preset
    <2>2. CASE ~(r.preset # Nobody /\ ~r.create)
      <3>1. d.user = r.user /\ d.host = s /\ d \in [user : Account, host : Switch]
        BY <1>2, <1>5, <2>2 DEF WizRecord
      <3>2. profile[r.user][s] # None
        BY <1>2, <1>3, <2>2 DEF WInv, StoreInv, Preset, Todo
      <3> QED BY <3>1, <3>2
    <2> QED BY <2>1, <2>2
  <1>7. w \in WizRecord /\ w.step # "unused" /\ w.todo = << >> /\ Form(a, w)
    <2>1. << >> \notin {RKA, KA, An, K8, R7, C6, S5, P4, K5, R4, I3, T2, N1}
      BY Requests
    <2>2. CASE device[s] = None
      BY <2>2, Resting DEF Form
    <2>3. CASE device[s] # None
      <3>1. /\ w \in WizRecord /\ w.todo = << >>
            /\ w.step = r.step /\ w.switch = r.switch /\ w.create = r.create
            /\ w.preset = r.preset
        BY <1>2, <2>3 DEF WizRecord
      <3> QED BY <1>2, <1>3, <2>1, <3>1 DEF Form
    <2> QED BY <2>2, <2>3
  <1>8. \/ w.switch = None /\ ~w.create /\ w.preset = Nobody
        \/ /\ w.switch = r.switch /\ w.create = r.create /\ w.preset = r.preset
           /\ w.user = r.user /\ w.secret = r.secret
    BY <1>2, WithTodo, Resting
  <1> HIDE DEF w
  <1>9. << >> \notin {P4, I3, T2, N1} /\ Nobody.user # "SPAdmin"
    BY Requests, Secrets, WizardAssumption
  <1>10. w.create /\ w.switch \notin crossed => Creating(a, w.todo, w.switch)
    <2>1. r.create /\ r.switch \notin crossed => Creating(a, N1, r.switch)
      BY <1>2, <1>3 DEF WInv, CleanInv, Todo
    <2> QED BY <1>2, <1>7, <1>8, <1>9, <2>1 DEF Creating
  <1>11. /\ DOMAIN device' = Switch
         /\ \A h \in Switch : device'[h] = device[h] \/
              /\ device'[h] \in Profiles
              /\ device'[h] # Nobody =>
                   device'[h].host = h /\ profile[device'[h].user][h] # None
    BY <1>2, <1>4, <1>6 DEF WInv, WizTypes, Profiles
  <1> QED BY <1>2, <1>4, <1>7, <1>8, <1>9, <1>10, <1>11, WizardMoves DEF Preset, OnSwitch

\* A wizard that creates the account writes at its switch, or saves what runs there.
LEMMA SwitchWritten ==
    ASSUME WInv, NEW a \in Wizard, NEW w, NEW s \in Switch,
           wizard' = [wizard EXCEPT ![a] = w],
           UNCHANGED <<profile, device, crossed>>,
           Form(a, w), w.step # "unused", wizard[a].create,
           OnSwitch(a) = s, w.switch = s, w.preset = Preset(a), w.secret = wizard[a].secret,
           w.todo \in {<< >>, S5, P4},
           \/ running' = [running EXCEPT ![s] = G(a)] /\ startup' = startup
           \/ running' = running /\ startup' = [startup EXCEPT ![s] = running[s]],
           w.todo = P4 => startup'[s] = running'[s]
    PROVE  WInv'
  <1>1. /\ wizard'[a] = w /\ DOMAIN wizard' = Wizard
        /\ \A b \in Wizard : b # a => wizard'[b] = wizard[b]
        /\ \A h \in Switch : h # s => running'[h] = running[h] /\ startup'[h] = startup[h]
        /\ \/ running'[s] = G(a) /\ startup'[s] = startup[s]
           \/ running'[s] = running[s] /\ startup'[s] = running[s]
    BY DEF WInv, WizTypes
  <1>2. WizTypes'
    BY <1>1, Secrets DEF WInv, WizTypes
  <1>3. FormInv'
    BY <1>1 DEF WInv, FormInv
  <1>4. w.todo \notin {N1, I3, T2}
    BY Requests
  <1>5. StoreInv'
    BY <1>1, <1>4 DEF WInv, StoreInv, Preset, Todo, OnSwitch
  <1>6. s \notin crossed => running[s] \in {None, G(a)} /\ startup[s] \in {None, running[s]}
    BY DEF WInv, CleanInv, Creating, OnSwitch
  <1>7. ASSUME NEW h \in Switch, h \notin crossed
        PROVE  /\ startup'[h] \in {None, running'[h]}
               /\ profile["SPAdmin"][h] # None =>
                    running'[h] = profile["SPAdmin"][h] /\ startup'[h] = profile["SPAdmin"][h]
    BY <1>1, <1>6, <1>7, Secrets DEF WInv, CleanInv
  <1>8. ASSUME NEW h \in Switch, h \notin crossed
        PROVE  /\ \A b, c \in Wizard : OnSwitch(b)' = h /\ OnSwitch(c)' = h => b = c
               /\ \A b \in Wizard : OnSwitch(b)' = h => (b = a <=> h = s)
    BY <1>1, <1>8 DEF WInv, CleanInv, OnSwitch
  <1>9. ASSUME NEW h \in Switch, h \notin crossed, NEW b \in Wizard, OnSwitch(b)' = h,
               wizard'[b].create
        PROVE  Creating(b, Todo(b), h)'
    <2>1. CASE b = a
      <3>1. h = s /\ Todo(b)' = w.todo
        BY <1>1, <1>8, <1>9, <2>1 DEF Todo
      <3>2. running'[s] \in {None, G(a)}
        BY <1>1, <1>6, <1>9, <3>1
      <3>3. w.todo \in {P4, I3, T2, N1} => startup'[s] = running'[s]
        BY <1>4
      <3> QED BY <2>1, <3>1, <3>2, <3>3, <1>4 DEF Creating
    <2>2. CASE b # a
      <3>1. h # s /\ OnSwitch(b) = h /\ wizard[b].create /\ Todo(b)' = Todo(b)
        BY <1>1, <1>8, <1>9, <2>2 DEF OnSwitch, Todo
      <3>2. Creating(b, Todo(b), h)
        BY <1>9, <3>1 DEF WInv, CleanInv
      <3> QED BY <1>1, <3>1, <3>2 DEF Creating
    <2> QED BY <2>1, <2>2
  <1>10. CleanInv'
    BY <1>7, <1>8, <1>9 DEF CleanInv
  <1>11. ASSUME NEW x \in Secret, NEW h \in Switch, Bound(x, h)'
         PROVE  Bound(x, h) \/ (x = G(a) /\ h = s)
    BY <1>1, <1>11 DEF Bound, Preset
  <1>12. \A h \in Switch : Bound(G(a), h) => h = s
    BY DEF WInv, HomeInv
  <1>13. HomeInv'
    <2>1. ASSUME NEW x \in Secret \ {None}, NEW h \in Switch, NEW i \in Switch,
                 Bound(x, h)', Bound(x, i)'
          PROVE  h = i
      <3>1. CASE x = G(a)
        BY <1>11, <1>12, <2>1, <3>1
      <3>2. CASE x # G(a)
        BY <1>11, <2>1, <3>2 DEF WInv, HomeInv
      <3> QED BY <3>1, <3>2
    <2>2. ASSUME NEW b \in Wizard, NEW h \in Switch, Bound(G(b), h)'
          PROVE  wizard'[b].step # "unused" /\ (OnSwitch(b)' \in Switch => OnSwitch(b)' = h)
      <3>1. CASE b = a
        BY <1>1, <1>11, <1>12, <2>2, <3>1, Secrets DEF OnSwitch
      <3>2. CASE b # a
        <4>1. Bound(G(b), h)
          BY <1>11, <2>2, <3>2, Secrets
        <4> QED BY <1>1, <3>2, <4>1 DEF WInv, HomeInv, OnSwitch
      <3> QED BY <3>1, <3>2
    <2> QED BY <2>1, <2>2 DEF HomeInv
  <1> QED BY <1>2, <1>3, <1>5, <1>10, <1>13 DEF WInv

\* The error shown: the wizard has nothing left of its request.
LEMMA ShownForm ==
    ASSUME WInv, NEW a \in Wizard, Todo(a) # << >>
    PROVE  LET r == wizard[a]
               w == [r EXCEPT !.todo = << >>]
           IN  /\ w \in WizRecord /\ Form(a, w) /\ w.todo = << >>
               /\ w.step = r.step /\ w.step # "unused" /\ w.switch = r.switch
               /\ w.create = r.create /\ w.preset = r.preset /\ w.user = r.user
               /\ w.secret = r.secret
  <1> DEFINE r == wizard[a]
             w == [r EXCEPT !.todo = << >>]
  <1>1. /\ r \in WizRecord /\ Form(a, r) /\ r.step \in {"connect", "place"}
        /\ << >> \in Creates /\ << >> \in Attaches /\ << >> \in Connects
    BY AtWork DEF Creates, Attaches, Connects
  <1>2. << >> \notin {RKA, KA, An, K8, R7, C6, S5, P4, K5, R4, I3, T2, N1}
    BY Requests
  <1>3. /\ w \in WizRecord /\ w.todo = << >>
        /\ w.step = r.step /\ w.switch = r.switch /\ w.create = r.create
        /\ w.preset = r.preset /\ w.user = r.user /\ w.secret = r.secret
    BY <1>1 DEF WizRecord
  <1> HIDE DEF w
  <1>4. Form(a, w)
    BY <1>1, <1>2, <1>3 DEF Form
  <1> QED BY <1>1, <1>3, <1>4 DEF w

LEMMA ShownStep ==
    ASSUME WInv, NEW a \in Wizard, Todo(a) # << >>,
           wizard' = [wizard EXCEPT ![a] = [wizard[a] EXCEPT !.todo = << >>]],
           UNCHANGED <<running, startup, profile, device, crossed>>
    PROVE  WInv'
  <1> DEFINE r == wizard[a]
             w == [r EXCEPT !.todo = << >>]
  <1>1. /\ w \in WizRecord /\ Form(a, w) /\ w.todo = << >>
        /\ w.step = r.step /\ w.step # "unused" /\ w.switch = r.switch
        /\ w.create = r.create /\ w.preset = r.preset /\ w.user = r.user /\ w.secret = r.secret
        /\ r.switch \in Switch
    BY ShownForm, AtWork DEF OnSwitch
  <1>2. wizard' = [wizard EXCEPT ![a] = w]
    OBVIOUS
  <1> HIDE DEF w
  <1>3. << >> \notin {P4, I3, T2, N1}
    BY Requests
  <1>4. w.create /\ w.switch \notin crossed => Creating(a, w.todo, w.switch)
    <2>1. r.create /\ r.switch \notin crossed => Creating(a, Todo(a), r.switch)
      BY <1>1 DEF WInv, CleanInv, OnSwitch
    <2> QED BY <1>1, <1>3, <2>1 DEF Creating
  <1> QED BY <1>1, <1>2, <1>3, <1>4, WizardMoves DEF WInv, WizTypes, Preset, OnSwitch

LEMMA ConfigureStep == ASSUME WInv, NEW a \in Wizard, Wizards!Configure(a) PROVE WInv'
  <1> DEFINE r == wizard[a]
             s == OnSwitch(a)
             ok == Wizards!Accepts(s, r.user, r.secret)
             w == [r EXCEPT !.todo = S5]
  <1>1. Todo(a) # << >> /\ Head(Todo(a)) = "configure"
    BY DEF Wizards!Configure, Wizards!At, Todo
  <1>2. CASE ~ok
    <2>1. /\ wizard' = [wizard EXCEPT ![a] = [r EXCEPT !.todo = << >>]]
          /\ UNCHANGED <<running, startup, profile, device, crossed>>
      BY <1>2 DEF Wizards!Configure, Wizards!To, Wizards!Shown, Wizards!On, OnSwitch
    <2> QED BY <1>1, <2>1, ShownStep
  <1>3. CASE ok
    <2>1. /\ r \in WizRecord /\ Form(a, r) /\ s \in Switch /\ s = r.switch /\ S5 \in Creates
      BY <1>1, AtWork DEF OnSwitch, Creates
    <2>2. r.step = "place" /\ r.todo = C6 /\ r.create
      BY <1>1, <2>1, AtWork, Requests DEF Todo, Form, Connects, Creates, Attaches
    <2>3. /\ wizard' = [wizard EXCEPT ![a] = w]
          /\ running' = [running EXCEPT ![s] = G(a)]
          /\ UNCHANGED <<startup, profile, device, crossed>>
      <3>1. Tail(r.todo) = S5
        BY <2>2, Requests
      <3> QED BY <1>3, <3>1 DEF Wizards!Configure, Wizards!To, Wizards!Advance, Wizards!On,
                OnSwitch, G
    <2>4. /\ w \in WizRecord /\ w.todo = S5
          /\ w.step = r.step /\ w.switch = r.switch /\ w.create = r.create
          /\ w.preset = r.preset /\ w.user = r.user /\ w.secret = r.secret
      BY <2>1 DEF WizRecord
    <2> HIDE DEF w, ok
    <2>5. S5 \notin {KA, An, P4, I3, T2, N1}
      BY Requests
    <2>6. Form(a, w)
      BY <2>1, <2>2, <2>4, <2>5, Requests DEF Form, Resolved
    <2> QED BY <2>1, <2>2, <2>3, <2>4, <2>5, <2>6, SwitchWritten DEF Preset
  <1> QED BY <1>2, <1>3

LEMMA SaveStep == ASSUME WInv, NEW a \in Wizard, Wizards!SaveConfig(a) PROVE WInv'
  <1> DEFINE r == wizard[a]
             s == OnSwitch(a)
             w == [r EXCEPT !.todo = P4]
  <1>1. Todo(a) # << >> /\ Head(Todo(a)) = "save"
    BY DEF Wizards!SaveConfig, Wizards!At, Todo
  <1>2. /\ r \in WizRecord /\ Form(a, r) /\ s \in Switch /\ s = r.switch /\ P4 \in Creates
    BY <1>1, AtWork DEF OnSwitch, Creates
  <1>3. r.step = "place" /\ r.todo = S5 /\ r.create
    BY <1>1, <1>2, AtWork, Requests DEF Todo, Form, Connects, Creates, Attaches
  <1>4. /\ wizard' = [wizard EXCEPT ![a] = w]
        /\ startup' = [startup EXCEPT ![s] = running[s]]
        /\ UNCHANGED <<running, profile, device, crossed>>
    <2>1. Tail(r.todo) = P4
      BY <1>3, Requests
    <2> QED BY <2>1 DEF Wizards!SaveConfig, Wizards!To, Wizards!Advance, Wizards!On, OnSwitch
  <1>5. /\ w \in WizRecord /\ w.todo = P4
        /\ w.step = r.step /\ w.switch = r.switch /\ w.create = r.create
        /\ w.preset = r.preset /\ w.user = r.user /\ w.secret = r.secret
    BY <1>2 DEF WizRecord
  <1> HIDE DEF w
  <1>6. P4 \notin {KA, An, I3, T2, N1}
    BY Requests
  <1>7. Form(a, w)
    BY <1>2, <1>3, <1>5, <1>6, Requests DEF Form, Resolved
  <1>8. startup'[s] = running'[s]
    BY <1>2, <1>4 DEF WInv, WizTypes
  <1> QED BY <1>2, <1>3, <1>4, <1>5, <1>6, <1>7, <1>8, SwitchWritten DEF Preset

\* A statement that fails may yet have reached the switch.
LEMMA FailsStep == ASSUME WInv, NEW a \in Wizard, Wizards!StepFails(a) PROVE WInv'
  <1> DEFINE r == wizard[a]
             s == OnSwitch(a)
             w == [r EXCEPT !.todo = << >>]
  <1>1. /\ Todo(a) # << >>
        /\ wizard' = [wizard EXCEPT ![a] = w]
        /\ UNCHANGED <<profile, device, crossed>>
        /\ \/ running' = running
           \/ Head(Todo(a)) = "configure" /\ running' = [running EXCEPT ![s] = G(a)]
        /\ \/ startup' = startup
           \/ Head(Todo(a)) = "save" /\ startup' = [startup EXCEPT ![s] = running[s]]
    BY DEF Wizards!StepFails, Wizards!To, Wizards!Shown, Wizards!At, Wizards!On, OnSwitch, Todo, G
  <1>2. CASE running' = running /\ startup' = startup
    BY <1>1, <1>2, ShownStep
  <1>3. CASE ~(running' = running /\ startup' = startup)
    <2>1. /\ r \in WizRecord /\ Form(a, r) /\ s \in Switch /\ s = r.switch
      BY <1>1, AtWork DEF OnSwitch
    <2>2. Head(Todo(a)) \in {"configure", "save"}
      BY <1>1, <1>3
    <2>3. r.create
      BY <1>1, <2>1, <2>2, AtWork, Requests DEF Todo, Form, Connects, Creates, Attaches
    <2>4. /\ w \in WizRecord /\ w.todo = << >> /\ Form(a, w)
          /\ w.step # "unused" /\ w.switch = r.switch
          /\ w.preset = r.preset /\ w.secret = r.secret
      BY <1>1, ShownForm
    <2> HIDE DEF w
    <2>5. << >> # P4
      BY Requests
    <2>6. \/ running' = [running EXCEPT ![s] = G(a)] /\ startup' = startup
          \/ running' = running /\ startup' = [startup EXCEPT ![s] = running[s]]
      BY <1>1, <1>3
    <2> QED BY <1>1, <2>1, <2>3, <2>4, <2>5, <2>6, SwitchWritten DEF Preset
  <1> QED BY <1>2, <1>3

\* The profile of a switch is what the switch has accepted: of its own account, or of the
\* one that was created.
LEMMA StoreStep == ASSUME WInv, NEW a \in Wizard, Wizards!Store(a) PROVE WInv'
  <1> DEFINE r == wizard[a]
             s == OnSwitch(a)
             keeps == r.preset # Nobody /\ ~r.create
             w == [r EXCEPT !.todo = N1]
  <1>1. Todo(a) # << >> /\ Head(Todo(a)) = "store"
    BY DEF Wizards!Store, Wizards!At, Todo
  <1>2. /\ r \in WizRecord /\ Form(a, r) /\ s \in Switch /\ s = r.switch
        /\ N1 \in Creates /\ N1 \in Attaches
    BY <1>1, AtWork DEF OnSwitch, Creates, Attaches
  <1>3. r.step = "place" /\ r.todo = T2
    BY <1>1, <1>2, AtWork, Requests DEF Todo, Form, Connects, Creates, Attaches
  <1>4. /\ wizard' = [wizard EXCEPT ![a] = w]
        /\ UNCHANGED <<running, startup, device, crossed>>
        /\ profile' = IF keeps THEN profile ELSE [profile EXCEPT ![r.user][s] = r.secret]
    <2>1. Tail(r.todo) = N1
      BY <1>3, Requests
    <2>2. Wizards!Host(a) = s
      BY <1>2 DEF Wizards!Host, Wizards!On
    <2> QED BY <2>1, <2>2 DEF Wizards!Store, Wizards!To, Wizards!Advance, OnSwitch, Nobody
  <1>5. /\ w \in WizRecord /\ w.todo = N1
        /\ w.step = r.step /\ w.switch = r.switch /\ w.create = r.create
        /\ w.preset = r.preset /\ w.user = r.user /\ w.secret = r.secret
    BY <1>2 DEF WizRecord
  <1> HIDE DEF w
  <1>6. N1 \notin {RKA, KA, An, C6, S5, P4} /\ T2 # N1
    BY Requests
  <1>7. Form(a, w)
    BY <1>2, <1>3, <1>5, <1>6 DEF Form, Resolved
  <1>8. r.create /\ s \notin crossed => running[s] = G(a) /\ startup[s] = G(a)
    BY <1>2, <1>3 DEF WInv, CleanInv, Creating, Todo
  <1>9. CASE keeps
    <2>1. w.preset.user = "SPAdmin" => w.secret = wizard[a].secret
      BY <1>5
    <2>2. UNCHANGED profile /\ ~w.create /\ w.preset # Nobody
      BY <1>4, <1>5, <1>9
    <2> QED BY <1>2, <1>3, <1>4, <1>5, <1>7, <2>1, <2>2, WizardMoves DEF WInv, WizTypes, Preset
  <1>10. CASE ~keeps
    <2>1. /\ wizard'[a] = w /\ DOMAIN wizard' = Wizard
          /\ \A b \in Wizard : b # a => wizard'[b] = wizard[b]
      BY <1>4 DEF WInv, WizTypes
    <2>2. \/ r.create /\ r.user = "SPAdmin" /\ r.secret = G(a) /\ r.preset.user # "SPAdmin"
          \/ r.preset = Nobody /\ ~r.create /\ r.user = "operator" /\ r.secret = Own(s)
      BY <1>2, <1>3, <1>10 DEF Form, Resolved
    <2>3. /\ r.user \in Account /\ r.secret \in Secret \ {None}
          /\ profile'[r.user][s] = r.secret
          /\ \A u \in Account : \A h \in Switch :
               ~(u = r.user /\ h = s) => profile'[u][h] = profile[u][h]
          /\ profile' \in [Account -> [Switch -> Secret]]
      BY <1>2, <1>4, <1>10, <2>2, Secrets DEF WInv, WizTypes, WizRecord
    <2>4. WizTypes'
      BY <1>4, <2>1, <2>3 DEF WInv, WizTypes
    <2>5. FormInv'
      BY <1>7, <2>1 DEF WInv, FormInv
    <2>6. StoreInv'
      <3>1. \A h \in Switch : profile'["operator"][h] \in {None, Own(h)}
        BY <2>2, <2>3, Secrets DEF WInv, StoreInv
      <3>2. \A u \in Account : \A h \in Switch :
              profile[u][h] # None => profile'[u][h] # None
        BY <2>3
      <3>3. ASSUME NEW h \in Switch, device'[h] \notin {None, Nobody}
            PROVE  device'[h].host = h /\ profile'[device'[h].user][h] # None
        <4>1. device[h].user \in Account
          BY <1>4, <3>3, Secrets DEF WInv, WizTypes
        <4> QED BY <1>4, <3>2, <3>3, <4>1 DEF WInv, StoreInv
      <3>4. ASSUME NEW b \in Wizard, Preset(b)' # Nobody
            PROVE  profile'[wizard'[b].preset.user][wizard'[b].preset.host] # None
        <4>1. wizard'[b].preset = Preset(b)
          BY <1>5, <2>1 DEF Preset
        <4>2. Preset(b) \in [user : Account, host : Switch]
          BY <3>4, <4>1, Secrets DEF Preset, WInv, FormInv, Form, WizRecord
        <4> QED BY <3>2, <3>4, <4>1, <4>2 DEF WInv, StoreInv, Preset
      <3>5. ASSUME NEW b \in Wizard, Todo(b)' = N1,
                   Preset(b)' = Nobody \/ wizard'[b].create
            PROVE  profile'[wizard'[b].user][wizard'[b].switch] # None
        <4>1. CASE b = a
          BY <1>2, <1>5, <2>1, <2>3, <4>1
        <4>2. CASE b # a
          <5>1. /\ Todo(b) = N1 /\ wizard'[b] = wizard[b]
                /\ profile[wizard[b].user][OnSwitch(b)] # None
            BY <2>1, <3>5, <4>2 DEF Todo, Preset, WInv, StoreInv
          <5>2. wizard[b].user \in Account /\ OnSwitch(b) \in Switch
            BY <5>1, AtWork, Requests DEF WizRecord
          <5> QED BY <3>2, <5>1, <5>2 DEF OnSwitch
        <4> QED BY <4>1, <4>2
      <3> QED BY <3>1, <3>3, <3>4, <3>5 DEF StoreInv, Preset, OnSwitch
    <2>7. CleanInv'
      <3>1. ASSUME NEW h \in Switch, h \notin crossed
            PROVE  profile'["SPAdmin"][h] # None =>
                     running[h] = profile'["SPAdmin"][h] /\ startup[h] = profile'["SPAdmin"][h]
        BY <1>8, <2>2, <2>3, <3>1, Secrets DEF WInv, CleanInv
      <3>2. ASSUME NEW h \in Switch, h \notin crossed
            PROVE  \A b, c \in Wizard : OnSwitch(b)' = h /\ OnSwitch(c)' = h => b = c
        BY <1>5, <2>1, <3>2 DEF WInv, CleanInv, OnSwitch
      <3>3. ASSUME NEW h \in Switch, h \notin crossed, NEW b \in Wizard, OnSwitch(b)' = h,
                   wizard'[b].create
            PROVE  Creating(b, Todo(b), h)'
        <4>1. OnSwitch(b) = h /\ wizard[b].create
          BY <1>5, <2>1, <3>3 DEF OnSwitch
        <4>2. Creating(b, Todo(b), h)
          BY <3>3, <4>1 DEF WInv, CleanInv
        <4>3. CASE b = a
          BY <1>2, <1>4, <1>8, <3>3, <4>1, <4>3 DEF Creating
        <4>4. CASE b # a
          BY <1>4, <2>1, <4>2, <4>4 DEF Creating, Todo
        <4> QED BY <4>3, <4>4
      <3> QED BY <1>4, <3>1, <3>2, <3>3 DEF CleanInv, WInv
    <2>8. ASSUME NEW x \in Secret, NEW h \in Switch, Bound(x, h)'
          PROVE  Bound(x, h) \/ (x = G(a) /\ h = s)
      BY <1>4, <1>5, <2>1, <2>2, <2>3, <2>8, Secrets DEF Bound, Preset
    <2>9. \A h \in Switch : Bound(G(a), h) => h = s
      BY <1>2 DEF WInv, HomeInv
    <2>10. HomeInv'
      <3>1. ASSUME NEW x \in Secret \ {None}, NEW h \in Switch, NEW i \in Switch,
                   Bound(x, h)', Bound(x, i)'
            PROVE  h = i
        <4>1. CASE x = G(a)
          BY <2>8, <2>9, <3>1, <4>1
        <4>2. CASE x # G(a)
          BY <2>8, <3>1, <4>2 DEF WInv, HomeInv
        <4> QED BY <4>1, <4>2
      <3>2. ASSUME NEW b \in Wizard, NEW h \in Switch, Bound(G(b), h)'
            PROVE  wizard'[b].step # "unused" /\ (OnSwitch(b)' \in Switch => OnSwitch(b)' = h)
        <4>1. CASE b = a
          BY <1>2, <1>3, <1>5, <2>1, <2>8, <2>9, <3>2, <4>1, Secrets DEF OnSwitch
        <4>2. CASE b # a
          <5>1. Bound(G(b), h)
            BY <2>8, <3>2, <4>2, Secrets
          <5> QED BY <2>1, <4>2, <5>1 DEF WInv, HomeInv, OnSwitch
        <4> QED BY <4>1, <4>2
      <3> QED BY <3>1, <3>2 DEF HomeInv
    <2> QED BY <2>4, <2>5, <2>6, <2>7, <2>10 DEF WInv
  <1> QED BY <1>9, <1>10

\* A wizard is opened for a switch, with a saved profile or without one.
LEMMA OpenStep ==
    ASSUME WInv, NEW a \in Wizard, NEW s \in Switch, NEW p,
           Wizards!OpenWizard(a, s, p)
    PROVE  WInv'
  <1> DEFINE c == Wizards!Closed
             w == [c EXCEPT !.step = "connect", !.todo = RKA, !.switch = s, !.preset = p]
  <1>1. /\ wizard[a] = Wizards!Unused
        /\ wizard' = [wizard EXCEPT ![a] = w]
        /\ p \in Wizards!Presets(s) \cup {Nobody}
        /\ crossed' = IF \E b \in Wizard : OnSwitch(b) = s THEN crossed \cup {s} ELSE crossed
        /\ UNCHANGED <<running, startup, profile, device>>
    BY DEF Wizards!OpenWizard, Wizards!To, Wizards!On, OnSwitch, Nobody, RKA
  <1>2. /\ p \in Profiles
        /\ p # Nobody => profile[p.user][p.host] # None
    BY <1>1, Secrets DEF Wizards!Presets, Profiles, Account
  <1>3. RKA \in Connects /\ RKA \notin {<< >>, KA, An, N1}
    BY Requests DEF Connects
  <1>4. /\ w \in WizRecord /\ w.step = "connect" /\ w.todo = RKA /\ w.switch = s /\ w.preset = p
        /\ ~w.create /\ w.secret = None
    <2> HIDE DEF c
    <2>1. c \in WizRecord /\ c.secret = None /\ ~c.create
      BY Resting DEF c
    <2> QED BY <1>2, <1>3, <2>1 DEF WizRecord
  <1> HIDE DEF w
  <1>5. /\ wizard'[a] = w /\ DOMAIN wizard' = Wizard
        /\ \A b \in Wizard : b # a => wizard'[b] = wizard[b]
    BY <1>1 DEF WInv, WizTypes
  <1>6. WizTypes'
    BY <1>1, <1>5 DEF WInv, WizTypes
  <1>7. FormInv'
    BY <1>3, <1>4, <1>5 DEF WInv, FormInv, Form
  <1>8. StoreInv'
    BY <1>1, <1>2, <1>3, <1>4, <1>5 DEF WInv, StoreInv, Preset, Todo, OnSwitch
  <1>9. ASSUME NEW h \in Switch, h \notin crossed'
        PROVE  /\ h \notin crossed
               /\ \A b \in Wizard : b # a => OnSwitch(b)' = OnSwitch(b)
               /\ h = s => \A b \in Wizard : OnSwitch(b) # s
    BY <1>1, <1>5, <1>9 DEF OnSwitch
  <1>10. CleanInv'
    <2>1. ASSUME NEW h \in Switch, h \notin crossed'
          PROVE  \A b, i \in Wizard : OnSwitch(b)' = h /\ OnSwitch(i)' = h => b = i
      BY <1>4, <1>5, <1>9, <2>1 DEF WInv, CleanInv, OnSwitch
    <2>2. ASSUME NEW h \in Switch, h \notin crossed', NEW b \in Wizard, OnSwitch(b)' = h,
                 wizard'[b].create
          PROVE  Creating(b, Todo(b), h)'
      BY <1>1, <1>4, <1>5, <1>9, <2>2 DEF WInv, CleanInv, OnSwitch, Creating, Todo
    <2> QED BY <1>1, <1>9, <2>1, <2>2 DEF WInv, CleanInv
  <1>11. ASSUME NEW x \in Secret \ {None}, NEW h \in Switch, Bound(x, h)'
         PROVE  Bound(x, h)
    BY <1>1, <1>4, <1>5, <1>11 DEF Bound, Preset
  <1>12. \A h \in Switch : ~Bound(G(a), h)
    BY <1>1, Resting DEF WInv, HomeInv
  <1>13. HomeInv'
    BY <1>5, <1>11, <1>12, Secrets DEF WInv, HomeInv, OnSwitch
  <1> QED BY <1>6, <1>7, <1>8, <1>10, <1>13 DEF WInv

\* A device is deleted or imported; a switch starts again.
LEMMA DeviceStep ==
    ASSUME WInv, NEW s \in Switch, Wizards!DeleteDevice(s) \/ Wizards!ImportRow(s)
    PROVE  WInv'
  <1>1. /\ device' = [device EXCEPT ![s] = None] \/ device' = [device EXCEPT ![s] = Nobody]
        /\ UNCHANGED <<running, startup, profile, wizard, crossed>>
    BY DEF Wizards!DeleteDevice, Wizards!ImportRow, Nobody
  <1>2. /\ DOMAIN device' = Switch
        /\ \A h \in Switch : device'[h] = device[h] \/ device'[h] \in {None, Nobody}
    BY <1>1 DEF WInv, WizTypes
  <1>3. WizTypes'
    BY <1>1, <1>2, Secrets DEF WInv, WizTypes
  <1>4. FormInv'
    BY <1>1 DEF WInv, FormInv
  <1>5. StoreInv'
    BY <1>1, <1>2 DEF WInv, StoreInv, Preset, Todo, OnSwitch
  <1>6. CleanInv'
    BY <1>1 DEF WInv, CleanInv, Creating, Todo, OnSwitch
  <1>7. HomeInv'
    BY <1>1 DEF WInv, HomeInv, Bound, Preset, OnSwitch
  <1> QED BY <1>3, <1>4, <1>5, <1>6, <1>7 DEF WInv

LEMMA RebootStep == ASSUME WInv, NEW s \in Switch, Wizards!Reboot(s) PROVE WInv'
  <1>1. /\ running' = [running EXCEPT ![s] = startup[s]]
        /\ UNCHANGED <<startup, profile, device, wizard, crossed>>
    BY DEF Wizards!Reboot
  <1>2. /\ running'[s] = startup[s]
        /\ \A h \in Switch : h # s => running'[h] = running[h]
    BY <1>1 DEF WInv, WizTypes
  <1>3. WizTypes'
    BY <1>1 DEF WInv, WizTypes
  <1>4. FormInv'
    BY <1>1 DEF WInv, FormInv
  <1>5. StoreInv'
    BY <1>1 DEF WInv, StoreInv, Preset, Todo, OnSwitch
  <1>6. CleanInv'
    <2>1. ASSUME NEW h \in Switch, h \notin crossed
          PROVE  /\ startup[h] \in {None, running'[h]}
                 /\ profile["SPAdmin"][h] # None =>
                      /\ running'[h] = profile["SPAdmin"][h]
                      /\ startup[h] = profile["SPAdmin"][h]
      BY <1>2, <2>1 DEF WInv, CleanInv
    <2>2. ASSUME NEW h \in Switch, h \notin crossed, NEW b \in Wizard, OnSwitch(b) = h,
                 wizard[b].create
          PROVE  Creating(b, Todo(b), h)'
      <3>1. Creating(b, Todo(b), h) /\ startup[h] \in {None, running[h]}
        BY <2>2 DEF WInv, CleanInv
      <3>2. I3 \in {P4, I3, T2, N1} /\ {I3, T2, N1} \subseteq {P4, I3, T2, N1}
        OBVIOUS
      <3> QED BY <1>1, <1>2, <3>1, <3>2 DEF Creating, Todo
    <2> QED BY <1>1, <2>1, <2>2 DEF WInv, CleanInv, OnSwitch
  <1>7. ASSUME NEW x, NEW h \in Switch, Bound(x, h)'
        PROVE  Bound(x, h)
    BY <1>1, <1>2, <1>7 DEF Bound, Preset
  <1>8. HomeInv'
    BY <1>1, <1>7, Secrets DEF WInv, HomeInv, OnSwitch
  <1> QED BY <1>3, <1>4, <1>5, <1>6, <1>8 DEF WInv

LEMMA WizardStep == WInv /\ [Wizards!Next]_wizardVars => WInv'
  <1> SUFFICES ASSUME WInv, [Wizards!Next]_wizardVars PROVE WInv'
    OBVIOUS
  <1>1. CASE UNCHANGED wizardVars
    BY <1>1 DEF wizardVars, WInv, WizTypes, FormInv, StoreInv, CleanInv, HomeInv, Creating, Bound,
                Preset, Todo, OnSwitch
  <1>2. ASSUME NEW a \in Wizard, NEW s \in Switch, NEW p, Wizards!OpenWizard(a, s, p) PROVE WInv'
    BY <1>2, OpenStep
  <1>3. ASSUME NEW a \in Wizard, NEW create \in BOOLEAN, Wizards!Add(a, create) PROVE WInv'
    BY <1>3, AddStep
  <1>4. ASSUME NEW a \in Wizard, Wizards!Handle(a) PROVE WInv'
    BY <1>4, KnownStep, ResolveStep, AnalyzeStep, ConfigureStep, SaveStep, ProbeStep,
       InspectStep, StoreStep, InsertStep DEF Wizards!Handle
  <1>5. ASSUME NEW a \in Wizard,
               Wizards!StepFails(a) \/ Wizards!TryAgain(a) \/ Wizards!CloseWizard(a)
        PROVE  WInv'
    BY <1>5, FailsStep, TryAgainStep, CloseStep
  <1>6. ASSUME NEW s \in Switch,
               Wizards!DeleteDevice(s) \/ Wizards!ImportRow(s) \/ Wizards!Reboot(s)
        PROVE  WInv'
    BY <1>6, DeviceStep, RebootStep
  <1> QED BY <1>1, <1>2, <1>3, <1>4, <1>5, <1>6 DEF Wizards!Next

LEMMA WizardsAlways == OperatorsSpec => []WInv
  <1>1. OperatorsInit => WInv
    BY WizardInit DEF OperatorsInit
  <1>2. WInv /\ [OperatorsNext]_all => WInv'
    <2> SUFFICES ASSUME WInv, [OperatorsNext]_all PROVE WInv'
      OBVIOUS
    <2>1. [Wizards!Next]_wizardVars
      BY DEF OperatorsNext, InSession, InPages, InShells, InWizards, all, operators
    <2> QED BY <2>1, WizardStep
  <1> QED BY <1>1, <1>2, PTL DEF OperatorsSpec

\* A device that a wizard has added is logged in to with its profile, whatever was onboarded
\* before at the switch, deleted, imported or rebooted, for any switches, wizards and mishaps,
\* unless two wizards have been at the switch together (routes/onboarding.ts).
THEOREM DevicesKeepWorking == OperatorsSpec => []AddedDevicesWork
  BY WizardsAlways, DevicesWork, PTL
HIDE RingsAssumption

-----------------------------------------------------------------------------
(* Pages: a run of the effect that is not the present sign-in's has been     *)
(* stopped, or will be when its nonce comes, and has no socket.              *)

FeedInv ==
    /\ value = changes /\ changes \in Nat /\ mount \in {0} \cup Mount /\ signedIn \in BOOLEAN
    /\ run \in [Mount -> {"idle", "waiting", "asking", "stopping", "opening", "open", "stopped"}]
    /\ socket \in [Mount -> {"none", "opening", "open", "silent", "closed"}]
    /\ shown # None => shown \in Nat /\ shown <= value
    /\ fetch.state = "back" => fetch.value \in Nat /\ fetch.value <= value
    /\ signedIn => mount \in Mount /\ run[mount] \in {"waiting", "asking", "opening", "open"}
    /\ \A m \in Mount :
         /\ ~(signedIn /\ m = mount) => run[m] \in {"idle", "stopping", "stopped"}
         /\ socket[m] \in {"opening", "open", "silent"} => run[m] \in {"opening", "open"}

LEMMA FeedStart == Pages!Init => FeedInv
  <1> SUFFICES ASSUME Pages!Init PROVE FeedInv
    OBVIOUS
  <1>1. /\ \A m \in Mount : run[m] = "idle" /\ socket[m] = "none"
        /\ mount = 0 /\ signedIn = FALSE /\ value = 0 /\ changes = 0 /\ shown = None
        /\ fetch.state = "none"
        /\ run \in [Mount -> {"idle"}] /\ socket \in [Mount -> {"none"}]
    BY DEF Pages!Init, Pages!NoFetch
  <1>2. /\ run \in [Mount -> {"idle", "waiting", "asking", "stopping", "opening", "open", "stopped"}]
        /\ socket \in [Mount -> {"none", "opening", "open", "silent", "closed"}]
    BY <1>1
  <1> QED
    BY <1>1, <1>2 DEF FeedInv

LEMMA FeedIsSound == FeedInv => Pages!TypeOK /\ Pages!OldSocketsClose
  <1> SUFFICES ASSUME FeedInv PROVE Pages!TypeOK /\ Pages!OldSocketsClose
    OBVIOUS
  <1>1. Mount \subseteq Nat \ {0}
    BY SessionAssumption
  <1>2. Pages!TypeOK
    BY <1>1 DEF FeedInv, Pages!TypeOK
  <1>3. Pages!OldSocketsClose
    BY DEF FeedInv, Pages!OldSocketsClose
  <1> QED
    BY <1>2, <1>3

\* What is on screen and what is asked for.
LEMMA ScreenStep ==
    ASSUME FeedInv,
           Pages!Change \/ Pages!Relay \/ Pages!Poll \/ Pages!Answer \/ Pages!Show \/ Pages!RedisChanges
    PROVE  FeedInv'
  <1>0. UNCHANGED <<mount, signedIn, run, socket>>
    BY DEF Pages!Change, Pages!Relay, Pages!Poll, Pages!Answer, Pages!Show, Pages!RedisChanges, Pages!feed
  <1> USE DEF FeedInv
  <1>1. CASE Pages!Change
    BY <1>0, <1>1 DEF Pages!Change, Pages!page
  <1>2. CASE Pages!Relay
    BY <1>0, <1>2 DEF Pages!Relay, Pages!Invalidated, Pages!Sent
  <1>3. CASE Pages!Poll
    BY <1>0, <1>3 DEF Pages!Poll, Pages!Sent
  <1>4. CASE Pages!Answer
    BY <1>0, <1>4 DEF Pages!Answer
  <1>5. CASE Pages!Show
    BY <1>0, <1>5 DEF Pages!Show, Pages!NoFetch
  <1>6. CASE Pages!RedisChanges
    BY <1>0, <1>6 DEF Pages!RedisChanges, Pages!page
  <1> QED
    BY <1>1, <1>2, <1>3, <1>4, <1>5, <1>6

LEMMA SignInOrOut == ASSUME FeedInv, Pages!SignIn \/ Pages!SignOut PROVE FeedInv'
  <1> USE DEF FeedInv
  <1>1. CASE Pages!SignIn
    BY <1>1 DEF Pages!SignIn, Pages!page
  <1>2. CASE Pages!SignOut
    BY <1>2 DEF Pages!SignOut, Pages!page
  <1> QED
    BY <1>1, <1>2

LEMMA SocketStep ==
    ASSUME FeedInv, NEW m \in Mount,
           Pages!Step(m) \/ Pages!NonceFails(m) \/ Pages!Closes(m) \/ Pages!GoesSilent(m)
    PROVE  FeedInv'
  <1> USE DEF FeedInv
  <1>1. CASE Pages!NonceComes(m)
    BY <1>1 DEF Pages!NonceComes, Pages!page
  <1>2. CASE Pages!Opens(m)
    BY <1>2 DEF Pages!Opens, Pages!page
  <1>3. CASE Pages!Retry(m)
    BY <1>3 DEF Pages!Retry, Pages!page
  <1>4. CASE Pages!NonceFails(m)
    BY <1>4 DEF Pages!NonceFails, Pages!page
  <1>5. CASE Pages!Closes(m)
    BY <1>5 DEF Pages!Closes, Pages!page
  <1>6. CASE Pages!GoesSilent(m)
    BY <1>6 DEF Pages!GoesSilent, Pages!page
  <1> QED
    BY <1>1, <1>2, <1>3, <1>4, <1>5, <1>6 DEF Pages!Step

LEMMA FeedStep == FeedInv /\ [Pages!Next]_feedVars => FeedInv'
  <1> SUFFICES ASSUME FeedInv, [Pages!Next]_feedVars PROVE FeedInv'
    OBVIOUS
  <1>1. CASE UNCHANGED feedVars
    BY <1>1 DEF FeedInv, feedVars
  <1>2. CASE Pages!Next
    BY <1>2, ScreenStep, SignInOrOut, SocketStep DEF Pages!Next
  <1> QED
    BY <1>1, <1>2
-----------------------------------------------------------------------------
(* Terminals: nobody listens and no shell is opened before the session is    *)
(* in the audit log, and a shell whose handler has cleaned up is closed.     *)

FromUser == <<"user", "device", "target", "audit", "shell", "listen">>
FromDevice == <<"device", "target", "audit", "shell", "listen">>
FromTarget == <<"target", "audit", "shell", "listen">>
FromAudit == <<"audit", "shell", "listen">>
FromShell == <<"shell", "listen">>
FromListen == <<"listen">>
EarlyWork == {FromUser, FromDevice, FromTarget, FromAudit}

ShellTypes ==
    /\ page \in [Session -> {"shut", "asking", "open", "left"}]
    /\ tsocket \in [Session -> {"none", "open", "silent", "ending", "closed"}]
    /\ lines \in [Session -> EarlyWork \cup {FromShell, FromListen, << >>}]
    /\ shell \in [Session -> {"none", "open", "closed"}]
    /\ hearing \subseteq Session /\ timer \subseteq hearing /\ idle \subseteq hearing
    /\ typed \in [Session -> Nat] /\ written \in [Session -> Nat]
    /\ log \in [Session -> [opened : Nat, closed : Nat, lost : BOOLEAN]]

\* The entry of the opening is there, unless it could not be written.
Entered(s) == log[s].opened = 1 \/ log[s].lost

SessionRuns(s) ==
    /\ written[s] <= typed[s]
    /\ page[s] \in {"shut", "asking"} \/ lines[s] \in EarlyWork =>
         shell[s] = "none" /\ s \notin hearing /\ log[s].opened = 0
    /\ page[s] \in {"shut", "asking"} => lines[s] = << >>
    /\ lines[s] = FromShell => shell[s] = "none" /\ s \notin hearing /\ Entered(s)
    /\ lines[s] = FromListen => shell[s] # "none" /\ s \notin hearing /\ Entered(s)
    /\ shell[s] # "none" => Entered(s)
    /\ s \in hearing => shell[s] # "none" /\ lines[s] = << >>
    /\ s \in hearing \ timer => shell[s] = "closed" /\ (log[s].closed > 0 \/ log[s].lost)

ShellInv == ShellTypes /\ \A s \in Session : SessionRuns(s)


LEMMA ShellLists ==
    /\ Head(FromUser) = "user" /\ Tail(FromUser) = FromDevice /\ FromUser # << >>
    /\ Head(FromDevice) = "device" /\ Tail(FromDevice) = FromTarget /\ FromDevice # << >>
    /\ Head(FromTarget) = "target" /\ Tail(FromTarget) = FromAudit /\ FromTarget # << >>
    /\ Head(FromAudit) = "audit" /\ Tail(FromAudit) = FromShell /\ FromAudit # << >>
    /\ Head(FromShell) = "shell" /\ Tail(FromShell) = FromListen /\ FromShell # << >>
    /\ Head(FromListen) = "listen" /\ Tail(FromListen) = << >> /\ FromListen # << >>
  <1>1. Head(FromUser) = "user" /\ Tail(FromUser) = FromDevice /\ FromUser # << >>
    BY DEF FromUser, FromDevice
  <1>2. Head(FromDevice) = "device" /\ Tail(FromDevice) = FromTarget /\ FromDevice # << >>
    BY DEF FromDevice, FromTarget
  <1>3. Head(FromTarget) = "target" /\ Tail(FromTarget) = FromAudit /\ FromTarget # << >>
    BY DEF FromTarget, FromAudit
  <1>4. Head(FromAudit) = "audit" /\ Tail(FromAudit) = FromShell /\ FromAudit # << >>
    BY DEF FromAudit, FromShell
  <1>5. Head(FromShell) = "shell" /\ Tail(FromShell) = FromListen /\ FromShell # << >>
    BY DEF FromShell, FromListen
  <1>6. Head(FromListen) = "listen" /\ Tail(FromListen) = << >> /\ FromListen # << >>
    BY DEF FromListen
  <1> QED
    BY <1>1, <1>2, <1>3, <1>4, <1>5, <1>6

\* What the handler does next, and what it has left after that.
LEMMA ShellWork ==
    ASSUME NEW s, lines[s] \in EarlyWork \cup {FromShell, FromListen, << >>}
    PROVE  /\ \A op \in {"user", "device", "target"} :
                Shells!At(s, op) => lines[s] \in EarlyWork /\ Tail(lines[s]) \in EarlyWork
           /\ Shells!At(s, "audit") => lines[s] \in EarlyWork /\ Tail(lines[s]) = FromShell
           /\ Shells!At(s, "shell") => lines[s] = FromShell /\ Tail(lines[s]) = FromListen
           /\ Shells!At(s, "listen") => lines[s] = FromListen /\ Tail(lines[s]) = << >>
  BY ShellLists DEF EarlyWork, Shells!At

LEMMA ShellListsApart ==
    /\ << >> \notin EarlyWork /\ FromShell \notin EarlyWork /\ FromListen \notin EarlyWork
    /\ FromShell # << >> /\ FromListen # << >> /\ FromShell # FromListen
    /\ FromUser \in EarlyWork
  BY ShellLists DEF EarlyWork

LEMMA ShellStart == Shells!Init => ShellInv
  BY ShellListsApart DEF Shells!Init, ShellInv, ShellTypes, SessionRuns, Entered

LEMMA ShellIsSound == ShellInv => Shells!TypeOK /\ Shells!SessionsAreAudited
  <1> SUFFICES ASSUME ShellInv PROVE Shells!TypeOK /\ Shells!SessionsAreAudited
    OBVIOUS
  <1>1. Shells!TypeOK
    BY DEF ShellInv, ShellTypes, SessionRuns, Shells!TypeOK
  <1>2. Shells!SessionsAreAudited
    BY DEF ShellInv, ShellTypes, SessionRuns, Entered, Shells!SessionsAreAudited
  <1> QED
    BY <1>1, <1>2

\* A step of one session leaves the others as they are.
LEMMA OtherSessions ==
    ASSUME ShellInv, NEW s \in Session, ShellTypes', SessionRuns(s)',
           \A p \in Session \ {s} :
             /\ page'[p] = page[p] /\ lines'[p] = lines[p] /\ shell'[p] = shell[p]
             /\ typed'[p] = typed[p] /\ written'[p] = written[p] /\ log'[p] = log[p]
             /\ (p \in hearing') = (p \in hearing) /\ (p \in timer') = (p \in timer)
    PROVE  ShellInv'
  BY DEF ShellInv, SessionRuns, Entered

LEMMA Audited ==
    ASSUME ShellTypes, NEW s \in Session, NEW entry \in {"opened", "closed"}, Shells!Audits(s, entry)
    PROVE  /\ log' \in [Session -> [opened : Nat, closed : Nat, lost : BOOLEAN]]
           /\ \A p \in Session \ {s} : log'[p] = log[p]
           /\ log[s].lost => log'[s].lost
           /\ log'[s].lost \/ log'[s][entry] = log[s][entry] + 1
           /\ \A other \in {"opened", "closed"} \ {entry} : log'[s][other] = log[s][other]
  <1>0. log \in [Session -> [opened : Nat, closed : Nat, lost : BOOLEAN]]
    BY DEF ShellTypes
  <1>1. log[s] \in [opened : Nat, closed : Nat, lost : BOOLEAN]
    BY <1>0
  <1>2. CASE log' = [log EXCEPT ![s][entry] = @ + 1]
    <2>1. log'[s] = [log[s] EXCEPT ![entry] = @ + 1] /\ \A p \in Session \ {s} : log'[p] = log[p]
      BY <1>0, <1>2
    <2>2. /\ log'[s] \in [opened : Nat, closed : Nat, lost : BOOLEAN]
          /\ log'[s].lost = log[s].lost /\ log'[s][entry] = log[s][entry] + 1
          /\ \A other \in {"opened", "closed"} \ {entry} : log'[s][other] = log[s][other]
      <3>1. CASE entry = "opened"
        BY <2>1, <1>1, <3>1
      <3>2. CASE entry = "closed"
        BY <2>1, <1>1, <3>2
      <3> QED
        BY <3>1, <3>2
    <2> QED
      BY <1>0, <1>2, <2>1, <2>2
  <1>3. CASE log' = [log EXCEPT ![s].lost = TRUE]
    <2>1. log'[s] = [log[s] EXCEPT !.lost = TRUE] /\ \A p \in Session \ {s} : log'[p] = log[p]
      BY <1>0, <1>3
    <2>2. /\ log'[s] \in [opened : Nat, closed : Nat, lost : BOOLEAN] /\ log'[s].lost
          /\ log'[s].opened = log[s].opened /\ log'[s].closed = log[s].closed
      BY <2>1, <1>1
    <2> QED
      BY <1>0, <1>3, <2>1, <2>2
  <1> QED
    BY <1>2, <1>3 DEF Shells!Audits

\* The socket is gone: whoever hears it cleans up.
LEMMA CleanedUp ==
    ASSUME ShellTypes, NEW s \in Session,
           IF s \in hearing THEN Shells!Cleanup(s) ELSE UNCHANGED <<timer, shell, log>>
    PROVE  /\ timer' = timer \ (IF s \in hearing THEN {s} ELSE {})
           /\ shell' = [shell EXCEPT ![s] = IF s \in hearing THEN "closed" ELSE @]
           /\ log' \in [Session -> [opened : Nat, closed : Nat, lost : BOOLEAN]]
           /\ \A p \in Session \ {s} : log'[p] = log[p]
           /\ log[s].lost => log'[s].lost
           /\ log'[s].opened = log[s].opened
           /\ s \in hearing => log'[s].closed > 0 \/ log'[s].lost
           /\ s \notin hearing => log'[s] = log[s]
  <1>0. /\ log \in [Session -> [opened : Nat, closed : Nat, lost : BOOLEAN]]
        /\ shell \in [Session -> {"none", "open", "closed"}]
    BY DEF ShellTypes
  <1>1. CASE s \notin hearing
    BY <1>0, <1>1
  <1>2. CASE s \in hearing
    <2>1. timer' = timer \ {s} /\ shell' = [shell EXCEPT ![s] = "closed"] /\ Shells!Audits(s, "closed")
      BY <1>2 DEF Shells!Cleanup
    <2>2. /\ log' \in [Session -> [opened : Nat, closed : Nat, lost : BOOLEAN]]
          /\ \A p \in Session \ {s} : log'[p] = log[p]
          /\ log[s].lost => log'[s].lost
          /\ log'[s].lost \/ log'[s]["closed"] = log[s]["closed"] + 1
          /\ log'[s]["opened"] = log[s]["opened"]
      BY <2>1, Audited
    <2>3. log[s].closed \in Nat
      BY <1>0
    <2> QED
      BY <1>2, <2>1, <2>2, <2>3
  <1> QED
    BY <1>1, <1>2

\* The page: opened, connected, left, typed into.
LEMMA PageStep ==
    ASSUME ShellInv, NEW s \in Session,
           \/ Shells!OpenTerminal(s) \/ Shells!Connect(s) \/ Shells!Type(s)
           \/ \E silently \in BOOLEAN : Shells!Leave(s, silently)
    PROVE  ShellInv'
  <1>0. ShellTypes /\ SessionRuns(s)
    BY DEF ShellInv
  <1>1. CASE Shells!OpenTerminal(s)
    <2>1. ShellTypes' /\ SessionRuns(s)'
      BY <1>0, <1>1, ShellListsApart DEF Shells!OpenTerminal, ShellTypes, SessionRuns, Entered
    <2> QED
      BY <1>0, <1>1, <2>1, OtherSessions DEF Shells!OpenTerminal, ShellTypes
  <1>2. CASE Shells!Connect(s)
    <2>1. /\ lines' = [lines EXCEPT ![s] = FromUser]
          /\ page[s] = "asking" /\ page' = [page EXCEPT ![s] = "open"]
          /\ tsocket' = [tsocket EXCEPT ![s] = "open"]
          /\ UNCHANGED <<shell, hearing, timer, idle, typed, written, log>>
      BY <1>2 DEF Shells!Connect, FromUser
    <2>2. ShellTypes' /\ SessionRuns(s)'
      BY <1>0, <2>1, ShellListsApart DEF ShellTypes, SessionRuns, Entered
    <2> QED
      BY <1>0, <2>1, <2>2, OtherSessions DEF ShellTypes
  <1>3. CASE Shells!Type(s)
    <2>1. ShellTypes' /\ SessionRuns(s)'
      BY <1>0, <1>3, ShellListsApart DEF Shells!Type, ShellTypes, SessionRuns, Entered
    <2>2. /\ UNCHANGED <<page, tsocket, lines, shell, hearing, timer, log>>
          /\ typed' = [typed EXCEPT ![s] = typed[s] + 1]
          /\ \A p \in Session \ {s} : written'[p] = written[p]
      BY <1>0, <1>3 DEF Shells!Type, ShellTypes
    <2> QED
      BY <1>0, <2>1, <2>2, OtherSessions DEF ShellTypes
  <1>4. ASSUME NEW silently \in BOOLEAN, Shells!Leave(s, silently) PROVE ShellInv'
    <2>1. ShellTypes' /\ SessionRuns(s)'
      BY <1>0, <1>4, ShellListsApart DEF Shells!Leave, ShellTypes, SessionRuns, Entered
    <2> QED
      BY <1>0, <1>4, <2>1, OtherSessions DEF Shells!Leave, ShellTypes
  <1> QED
    BY <1>1, <1>2, <1>3, <1>4

\* The handler's statements, in their order.
LEMMA HandlerStep == ASSUME ShellInv, NEW s \in Session, Shells!Handle(s) PROVE ShellInv'
  <1>0. ShellTypes /\ SessionRuns(s)
    BY DEF ShellInv
  <1>w. lines[s] \in EarlyWork \cup {FromShell, FromListen, << >>}
    BY <1>0 DEF ShellTypes
  <1>1. CASE Shells!LookUp(s)
    <2>1. lines[s] \in EarlyWork /\ Tail(lines[s]) \in EarlyWork
      BY <1>1, <1>w, ShellWork DEF Shells!LookUp
    <2>2. ShellTypes' /\ SessionRuns(s)'
      BY <1>0, <1>1, <2>1, ShellListsApart DEF Shells!LookUp, ShellTypes, SessionRuns, Entered
    <2> QED
      BY <1>0, <1>1, <2>2, OtherSessions DEF Shells!LookUp, ShellTypes
  <1>2. CASE Shells!GivesUp(s)
    <2>1. lines[s] \in EarlyWork \cup {FromShell}
      BY <1>2, <1>w, ShellWork DEF Shells!GivesUp
    <2>2. ShellTypes' /\ SessionRuns(s)'
      BY <1>0, <1>2, <2>1, ShellListsApart
      DEF Shells!GivesUp, Shells!Closing, ShellTypes, SessionRuns, Entered
    <2> QED
      BY <1>0, <1>2, <2>2, OtherSessions DEF Shells!GivesUp, ShellTypes
  <1>3. CASE Shells!AuditOpen(s)
    <2>1. lines[s] \in EarlyWork /\ Tail(lines[s]) = FromShell
      BY <1>3, <1>w, ShellWork DEF Shells!AuditOpen
    <2>a. /\ log' \in [Session -> [opened : Nat, closed : Nat, lost : BOOLEAN]]
          /\ \A p \in Session \ {s} : log'[p] = log[p]
          /\ log'[s].lost \/ log'[s].opened = log[s].opened + 1
      BY <1>0, <1>3, Audited DEF Shells!AuditOpen
    <2>b. /\ lines' = [lines EXCEPT ![s] = FromShell]
          /\ UNCHANGED <<page, tsocket, shell, hearing, timer, idle, typed, written>>
      BY <1>3, <2>1 DEF Shells!AuditOpen
    <2>2. ShellTypes' /\ SessionRuns(s)'
      BY <1>0, <2>a, <2>b, <2>1, ShellListsApart DEF ShellTypes, SessionRuns, Entered
    <2> QED
      BY <1>0, <2>a, <2>b, <2>2, OtherSessions DEF ShellTypes
  <1>4. CASE Shells!OpenShell(s)
    <2>1. lines[s] = FromShell /\ Tail(lines[s]) = FromListen
      BY <1>4, <1>w, ShellWork DEF Shells!OpenShell
    <2>2. ShellTypes' /\ SessionRuns(s)'
      BY <1>0, <1>4, <2>1, ShellListsApart DEF Shells!OpenShell, ShellTypes, SessionRuns, Entered
    <2> QED
      BY <1>0, <1>4, <2>2, OtherSessions DEF Shells!OpenShell, ShellTypes
  <1>5. CASE Shells!Listen(s)
    <2>1. lines[s] = FromListen /\ Tail(lines[s]) = << >>
      BY <1>5, <1>w, ShellWork DEF Shells!Listen
    <2>2. ShellTypes' /\ SessionRuns(s)'
      BY <1>0, <1>5, <2>1, ShellListsApart DEF Shells!Listen, ShellTypes, SessionRuns, Entered
    <2>3. /\ hearing' = hearing \cup {s} /\ timer' = timer \cup {s}
          /\ \A p \in Session \ {s} : lines'[p] = lines[p]
          /\ UNCHANGED <<page, tsocket, shell, idle, typed, written, log>>
      BY <1>0, <1>5 DEF Shells!Listen, ShellTypes
    <2> QED
      BY <2>2, <2>3, OtherSessions
  <1> QED
    BY <1>1, <1>2, <1>3, <1>4, <1>5 DEF Shells!Handle

LEMMA CleanUpKeeps ==
    ASSUME ShellInv, NEW s \in Session,
           UNCHANGED <<page, lines, hearing, idle, typed, written>>,
           tsocket' \in [Session -> {"none", "open", "silent", "ending", "closed"}],
           IF s \in hearing THEN Shells!Cleanup(s) ELSE UNCHANGED <<timer, shell, log>>
    PROVE  ShellInv'
  <1>0. ShellTypes /\ SessionRuns(s)
    BY DEF ShellInv
  <1>1. /\ timer' = timer \ (IF s \in hearing THEN {s} ELSE {})
        /\ shell' = [shell EXCEPT ![s] = IF s \in hearing THEN "closed" ELSE @]
        /\ log' \in [Session -> [opened : Nat, closed : Nat, lost : BOOLEAN]]
        /\ \A p \in Session \ {s} : log'[p] = log[p]
        /\ log[s].lost => log'[s].lost
        /\ log'[s].opened = log[s].opened
        /\ s \in hearing => log'[s].closed > 0 \/ log'[s].lost
        /\ s \notin hearing => log'[s] = log[s]
    BY <1>0, CleanedUp
  <1>2. ShellTypes'
    BY <1>0, <1>1 DEF ShellTypes
  <1>3. SessionRuns(s)'
    BY <1>0, <1>1 DEF ShellTypes, SessionRuns, Entered
  <1>4. \A p \in Session \ {s} :
             shell'[p] = shell[p] /\ (p \in hearing') = (p \in hearing) /\ (p \in timer') = (p \in timer)
    BY <1>0, <1>1 DEF ShellTypes
  <1> QED
    BY <1>1, <1>2, <1>3, <1>4, OtherSessions

\* Time goes by, sockets end or fail, the device ends the session.
LEMMA EndingStep ==
    ASSUME ShellInv, NEW s \in Session,
           \/ Shells!GrowsIdle(s) \/ Shells!IdleTimeout(s)
           \/ Shells!SocketEnds(s) \/ Shells!SocketFails(s) \/ Shells!DeviceEnds(s)
    PROVE  ShellInv'
  <1>0. ShellTypes /\ SessionRuns(s)
    BY DEF ShellInv
  <1>1. CASE Shells!GrowsIdle(s)
    BY <1>1 DEF Shells!GrowsIdle, ShellInv, ShellTypes, SessionRuns, Entered
  <1>2. CASE Shells!IdleTimeout(s)
    BY <1>2 DEF Shells!IdleTimeout, Shells!Closing, ShellInv, ShellTypes, SessionRuns, Entered
  <1>3. CASE Shells!SocketEnds(s)
    <2>1. tsocket' = [tsocket EXCEPT ![s] = "closed"]
          /\ UNCHANGED <<page, lines, hearing, idle, typed, written>>
      BY <1>3 DEF Shells!SocketEnds
    <2>2. IF s \in hearing THEN Shells!Cleanup(s) ELSE UNCHANGED <<timer, shell, log>>
      BY <1>3 DEF Shells!SocketEnds
    <2> QED
      BY <1>0, <2>1, <2>2, CleanUpKeeps DEF ShellTypes
  <1>4. CASE Shells!SocketFails(s)
    <2>1. tsocket' = [tsocket EXCEPT ![s] = "ending"]
          /\ UNCHANGED <<page, lines, hearing, idle, typed, written>>
      BY <1>4 DEF Shells!SocketFails
    <2>2. IF s \in hearing THEN Shells!Cleanup(s) ELSE UNCHANGED <<timer, shell, log>>
      BY <1>4 DEF Shells!SocketFails
    <2> QED
      BY <1>0, <2>1, <2>2, CleanUpKeeps DEF ShellTypes
  <1>5. CASE Shells!DeviceEnds(s)
    <2>1. ShellTypes' /\ SessionRuns(s)'
      BY <1>0, <1>5, ShellListsApart
      DEF Shells!DeviceEnds, Shells!Closing, ShellTypes, SessionRuns, Entered
    <2> QED
      BY <1>0, <1>5, <2>1, OtherSessions DEF Shells!DeviceEnds, ShellTypes
  <1> QED
    BY <1>1, <1>2, <1>3, <1>4, <1>5

LEMMA ShellStep == ShellInv /\ [Shells!Next]_shellVars => ShellInv'
  <1> SUFFICES ASSUME ShellInv, [Shells!Next]_shellVars PROVE ShellInv'
    OBVIOUS
  <1>1. CASE UNCHANGED shellVars
    BY <1>1 DEF ShellInv, ShellTypes, SessionRuns, Entered, shellVars
  <1>2. CASE Shells!Next
    BY <1>2, PageStep, HandlerStep, EndingStep DEF Shells!Next
  <1> QED
    BY <1>1, <1>2
-----------------------------------------------------------------------------
(* Signing in.  Whatever the users row, the replicas and requests under way   *)
(* remember of token_valid_after is at most the last cutoff, and a token of   *)
(* the last generation was signed at it or later.  While sign-ins do not run  *)
(* beside each other or beside an edit, the one that is under way has the     *)
(* row as it is.                                                              *)

UserRow == [enabled : BOOLEAN, role : {"netadmin", "readonly"}, after : Nat,
            must : BOOLEAN, failed : Nat, until : Nat]
ViewRow == [enabled : BOOLEAN, role : {"netadmin", "readonly"}, after : Nat]
TokenSet == [iat : 0..MaxTime, gen : Nat]
Signing == {"login", "elsewhere"}
Asking == {"poll", "me", "refresh", "change"}

\* What a handler has left of its request.
FromProfile == <<"profile">>
FromReread == <<"reread">>
FromCompare == <<"compare", "update", "bust", "fresh">>
FromUpdate == <<"update", "bust", "fresh">>
FromBust == <<"bust", "fresh">>
FromFresh == <<"fresh">>
FromRow == <<"user", "policy", "verify">>
FromPolicy == <<"policy", "verify">>
FromVerify == <<"verify">>
FromLimits == <<"limits">> \o FromVerify
FromClear == <<"clear">>
FromCount == <<"count">>

After(k) ==
    IF k = "me" THEN FromProfile
    ELSE IF k = "refresh" THEN FromReread
    ELSE IF k = "change" THEN FromCompare ELSE << >>
Auth(k) ==
    IF k = "me" THEN <<"auth", "profile">>
    ELSE IF k = "refresh" THEN <<"auth", "reread">>
    ELSE IF k = "change" THEN <<"auth", "compare", "update", "bust", "fresh">> ELSE <<"auth">>
Cached(k) == <<"cached">> \o After(k)
Later(k) == IF k = "change" THEN {FromCompare, FromUpdate, FromBust, FromFresh} ELSE {After(k)}
SignInLists == {<< >>, FromRow, FromPolicy, FromLimits, FromVerify, FromClear, FromCount}
ListsFor(k) == IF k \in Signing THEN SignInLists ELSE {<< >>, Auth(k), Cached(k)} \cup Later(k)
CallLists == UNION {ListsFor(k) : k \in Signing \cup Asking}

\* A statement put in front of a list.
LEMMA InFrontOf ==
    ASSUME NEW S, NEW x \in S, NEW l \in Seq(S)
    PROVE  <<x>> \o l # << >> /\ Head(<<x>> \o l) = x /\ Tail(<<x>> \o l) = l
  <1> DEFINE w == <<x>> \o l
  <1>1. <<x>> \in Seq(S) /\ Len(<<x>>) = 1 /\ <<x>>[1] = x
    OBVIOUS
  <1>2. /\ w \in Seq(S) /\ Len(w) = 1 + Len(l)
        /\ \A i \in 1 .. 1 + Len(l) : w[i] = IF i <= 1 THEN <<x>>[i] ELSE l[i - 1]
    BY <1>1, ConcatProperties
  <1>3. w # << >> /\ w[1] = x /\ Len(l) \in Nat
    BY <1>1, <1>2
  <1>4. Head(w) = x
    BY <1>2, <1>3
  <1>5. Tail(w) \in Seq(S) /\ Len(Tail(w)) = Len(l) /\ \A i \in 1 .. Len(l) : Tail(w)[i] = w[i + 1]
    BY <1>2, <1>3
  <1>6. \A i \in 1 .. Len(l) : Tail(w)[i] = l[i]
    BY <1>2, <1>3, <1>5
  <1>7. Tail(w) = l
    BY <1>5, <1>6, SeqEqual
  <1> QED
    BY <1>3, <1>4, <1>7

LEMMA AuthLists ==
    ASSUME NEW k \in Asking
    PROVE  /\ Auth(k) # << >> /\ Head(Auth(k)) = "auth" /\ Tail(Auth(k)) = After(k)
           /\ Cached(k) # << >> /\ Head(Cached(k)) = "cached" /\ Tail(Cached(k)) = After(k)
  <1>1. Auth(k) # << >> /\ Head(Auth(k)) = "auth" /\ Tail(Auth(k)) = After(k)
    <2>1. CASE k = "me"
      BY <2>1 DEF Auth, After, FromProfile
    <2>2. CASE k = "refresh"
      BY <2>2 DEF Auth, After, FromReread
    <2>3. CASE k = "change"
      BY <2>3 DEF Auth, After, FromCompare
    <2>4. CASE k = "poll"
      BY <2>4 DEF Auth, After
    <2> QED
      BY <2>1, <2>2, <2>3, <2>4 DEF Asking
  <1> DEFINE Words == {"cached", "profile", "reread", "compare", "update", "bust", "fresh"}
  <1>2. After(k) \in Seq(Words)
    <2>1. FromProfile \in Seq(Words) /\ FromReread \in Seq(Words)
      BY DEF FromProfile, FromReread
    <2>2. FromCompare \in Seq(Words)
      BY DEF FromCompare
    <2> QED
      BY <2>1, <2>2 DEF After
  <1>3. Cached(k) # << >> /\ Head(Cached(k)) = "cached" /\ Tail(Cached(k)) = After(k)
    BY <1>2, InFrontOf DEF Cached
  <1> QED
    BY <1>1, <1>3

LEMMA LaterLists ==
    /\ FromProfile # << >> /\ Head(FromProfile) = "profile" /\ Tail(FromProfile) = << >>
    /\ FromReread # << >> /\ Head(FromReread) = "reread" /\ Tail(FromReread) = << >>
    /\ FromCompare # << >> /\ Head(FromCompare) = "compare" /\ Tail(FromCompare) = FromUpdate
    /\ FromUpdate # << >> /\ Head(FromUpdate) = "update" /\ Tail(FromUpdate) = FromBust
    /\ FromBust # << >> /\ Head(FromBust) = "bust" /\ Tail(FromBust) = FromFresh
    /\ FromFresh # << >> /\ Head(FromFresh) = "fresh" /\ Tail(FromFresh) = << >>
  <1>1. /\ FromProfile # << >> /\ Head(FromProfile) = "profile" /\ Tail(FromProfile) = << >>
        /\ FromReread # << >> /\ Head(FromReread) = "reread" /\ Tail(FromReread) = << >>
    BY DEF FromProfile, FromReread
  <1>2. FromCompare # << >> /\ Head(FromCompare) = "compare" /\ Tail(FromCompare) = FromUpdate
    BY DEF FromCompare, FromUpdate
  <1>3. FromUpdate # << >> /\ Head(FromUpdate) = "update" /\ Tail(FromUpdate) = FromBust
    BY DEF FromUpdate, FromBust
  <1>4. FromBust # << >> /\ Head(FromBust) = "bust" /\ Tail(FromBust) = FromFresh
    BY DEF FromBust, FromFresh
  <1>5. FromFresh # << >> /\ Head(FromFresh) = "fresh" /\ Tail(FromFresh) = << >>
    BY DEF FromFresh
  <1> QED
    BY <1>1, <1>2, <1>3, <1>4, <1>5

LEMMA SignInWork ==
    /\ FromRow # << >> /\ Head(FromRow) = "user" /\ Tail(FromRow) = FromPolicy
    /\ FromPolicy # << >> /\ Head(FromPolicy) = "policy" /\ Tail(FromPolicy) = FromVerify
    /\ FromLimits # << >> /\ Head(FromLimits) = "limits" /\ Tail(FromLimits) = FromVerify
    /\ FromVerify # << >> /\ Head(FromVerify) = "verify" /\ Tail(FromVerify) = << >>
    /\ FromClear # << >> /\ Head(FromClear) = "clear" /\ Tail(FromClear) = << >>
    /\ FromCount # << >> /\ Head(FromCount) = "count" /\ Tail(FromCount) = << >>
  <1>1. FromRow # << >> /\ Head(FromRow) = "user" /\ Tail(FromRow) = FromPolicy
    BY DEF FromRow, FromPolicy
  <1>2. FromPolicy # << >> /\ Head(FromPolicy) = "policy" /\ Tail(FromPolicy) = FromVerify
    BY DEF FromPolicy, FromVerify
  <1>3. FromLimits # << >> /\ Head(FromLimits) = "limits" /\ Tail(FromLimits) = FromVerify
    <2>1. FromVerify \in Seq({"verify", "limits"})
      BY DEF FromVerify
    <2> QED
      BY <2>1, InFrontOf DEF FromLimits
  <1>4. /\ FromVerify # << >> /\ Head(FromVerify) = "verify" /\ Tail(FromVerify) = << >>
        /\ FromClear # << >> /\ Head(FromClear) = "clear" /\ Tail(FromClear) = << >>
        /\ FromCount # << >> /\ Head(FromCount) = "count" /\ Tail(FromCount) = << >>
    BY DEF FromVerify, FromClear, FromCount
  <1> QED
    BY <1>1, <1>2, <1>3, <1>4

\* Which statement stands in front, and of which request it is one.
LEMMA NextOfCall ==
    ASSUME NEW k \in Signing \cup Asking, NEW l \in ListsFor(k), l # << >>
    PROVE  /\ Head(l) \in {"auth", "cached", "profile", "reread", "compare", "update", "bust", "fresh"} =>
                k \in Asking
           /\ Head(l) \in {"user", "policy", "limits", "verify", "clear", "count"} => k \in Signing
           /\ Head(l) = "auth" => l = Auth(k) /\ Tail(l) = After(k)
           /\ Head(l) = "cached" => l = Cached(k) /\ Tail(l) = After(k)
           /\ Head(l) = "profile" => k = "me" /\ l = FromProfile /\ Tail(l) = << >>
           /\ Head(l) = "reread" => k = "refresh" /\ l = FromReread /\ Tail(l) = << >>
           /\ Head(l) = "compare" => k = "change" /\ l = FromCompare /\ Tail(l) = FromUpdate
           /\ Head(l) = "update" => k = "change" /\ l = FromUpdate /\ Tail(l) = FromBust
           /\ Head(l) = "bust" => k = "change" /\ l = FromBust /\ Tail(l) = FromFresh
           /\ Head(l) = "fresh" => k = "change" /\ l = FromFresh /\ Tail(l) = << >>
           /\ Head(l) = "user" => l = FromRow /\ Tail(l) = FromPolicy
           /\ Head(l) = "policy" => l = FromPolicy /\ Tail(l) = FromVerify
           /\ Head(l) = "limits" => l = FromLimits /\ Tail(l) = FromVerify
           /\ Head(l) = "verify" => l = FromVerify /\ Tail(l) = << >>
           /\ Head(l) = "clear" => l = FromClear /\ Tail(l) = << >>
           /\ Head(l) = "count" => l = FromCount /\ Tail(l) = << >>
  <1>1. CASE k \in Signing
    <2>1. l \in SignInLists
      BY <1>1 DEF ListsFor
    <2> QED
      BY <1>1, <2>1, SignInWork DEF SignInLists
  <1>2. CASE k \in Asking /\ k \notin Signing
    <2>1. CASE l = Auth(k)
      BY <1>2, <2>1, AuthLists
    <2>2. CASE l = Cached(k)
      BY <1>2, <2>2, AuthLists
    <2>3. CASE l \in Later(k)
      <3>1. CASE k = "change"
        BY <3>1, <2>3, <1>2, LaterLists DEF Later
      <3>2. CASE k # "change"
        <4>1. l = After(k)
          BY <3>2, <2>3 DEF Later
        <4>2. \/ k = "me" /\ l = FromProfile
              \/ k = "refresh" /\ l = FromReread
          BY <4>1, <3>2, <1>2 DEF After
        <4> QED
          BY <4>2, <1>2, LaterLists
      <3> QED
        BY <3>1, <3>2
    <2> QED
      BY <1>2, <2>1, <2>2, <2>3 DEF ListsFor
  <1> QED
    BY <1>1, <1>2
SeenValue ==
    {None, "revoked", "gate", "app", << >>} \cup {<<v>> : v \in ViewRow} \cup {<<u>> : u \in UserRow}
Call == [kind : Signing \cup Asking, right : BOOLEAN, at : Replica \cup {None},
         token : TokenSet \cup {None}, load : Nat, todo : CallLists, seen : SeenValue,
         limit : Nat, status : Nat]

\* What a request has, as far as it has come.
CallOK(n) ==
    /\ n \in Call
    /\ (part = "tab" => n.kind \in Asking) /\ (part = "door" => n.kind \in Signing)
    /\ n.todo \in ListsFor(n.kind)
    /\ n.todo # << >> => n.at \in DOMAIN cache
    /\ n.kind \in Asking => n.token \in TokenSet
    /\ n.kind \in Asking /\ n.todo \notin {<< >>, Cached(n.kind)} => n.seen = None
    /\ n.kind \in Asking /\ n.todo = Cached(n.kind) => \E v \in ViewRow : n.seen = <<v>>
    /\ n.todo \in {FromPolicy, FromLimits, FromVerify} =>
         n.seen = << >> \/ \E u \in UserRow : n.seen = <<u>>
    /\ n.todo \in {FromLimits, FromVerify} => n.limit \in {0, Limit}
    /\ n.todo = FromCount => n.limit = Limit /\ \E u \in UserRow : n.seen = <<u>>
    /\ n.todo = << >> /\ n.seen = "revoked" => n.kind \in Asking /\ n.token.gen < cuts
    /\ n.todo = << >> /\ n.status = 200 /\ n.kind \in Signing => n.token \in TokenSet
    /\ n.todo = << >> /\ n.status = 200 /\ n.kind = "me" => n.seen \in {"gate", "app"}

CacheTypes ==
    /\ part = "tab" => DOMAIN cache = Replica
    /\ part = "door" => DOMAIN cache = OneReplica
    /\ DOMAIN limits = DOMAIN cache
    /\ \A r \in DOMAIN cache : cache[r] # None => cache[r] \in ViewRow
    /\ \A r \in DOMAIN cache : limits[r] \in {None, 0, Limit}

EditLists == {<<"disable", "cutoff", "bust">>, <<"cutoff", "bust">>, <<"bust">>,
              <<"unlock">>, <<"policy", "limits">>, <<"limits">>, << >>}
RowTypes ==
    /\ part \in {"campaign", "tab", "door", "pages", "shells", "wizards"}
    /\ user \in UserRow /\ user.after <= now
    /\ policy \in {0, Limit}
    /\ admin \in [at : Replica \cup {None}, todo : EditLists]
    /\ tab \in [token : TokenSet \cup {None}, page : {"login", "signing", "loading", "gate", "app"},
                load : Nat]
    /\ tab.token = None => tab.page = "login"
    /\ now \in 0..MaxTime /\ cuts \in Nat /\ failures \in Nat /\ mixed \in BOOLEAN

CallTypes ==
    /\ req \in [Caller -> Call \cup {None}]
    /\ \A q \in Caller : req[q] # None => CallOK(req[q])

\* A token of the last generation was signed no earlier than at c.
SignedFrom(t, c) == t.gen <= cuts /\ (t.gen = cuts => t.iat >= c)
CallFrom(n, c) ==
    /\ n.token # None => SignedFrom(n.token, c)
    /\ n.kind \in Asking /\ n.todo = Cached(n.kind) => n.seen[1].after <= c

CachesUpTo(c) == \A r \in DOMAIN cache : cache[r] # None => cache[r].after <= c
Cutoff(c) ==
    /\ c <= now /\ user.after <= c /\ CachesUpTo(c)
    /\ tab.token # None => SignedFrom(tab.token, c)
    /\ \A q \in Caller : req[q] # None => CallFrom(req[q], c)

\* The lock agrees with the count, and a sign-in on its own knows both.
Agree == (user.failed >= Limit) = (user.until # 0)
Signs(n) == n.kind \in Signing /\ n.todo # << >>
CallLock(n) ==
    ~mixed /\ Signs(n) =>
        /\ admin.todo = << >>
        /\ n.todo # FromCount => user.failed = failures
        /\ n.todo = FromCount => n.seen = <<user>> /\ failures = user.failed + 1
        /\ n.todo \in {FromPolicy, FromLimits, FromVerify} => n.seen \in {<< >>, <<user>>}
LocksHold ==
    /\ ~mixed => Agree
    /\ ~mixed => \A p, q \in Caller :
          req[p] # None /\ req[q] # None /\ Signs(req[p]) /\ Signs(req[q]) => p = q
    /\ ~mixed /\ (\A q \in Caller : req[q] # None => ~Signs(req[q])) => user.failed = failures
    /\ \A q \in Caller : req[q] # None => CallLock(req[q])

SessInv == RowTypes /\ CacheTypes /\ CallTypes /\ (\E c \in Nat : Cutoff(c)) /\ LocksHold

LEMMA NoneApart ==
    /\ None \notin TokenSet /\ None \notin ViewRow /\ None \notin UserRow /\ None # "revoked"
    /\ Limit \in Nat /\ Limit > 0 /\ LockTime \in Nat /\ LockTime > 0 /\ MaxTime \in Nat
  BY SessionAssumption DEF TokenSet, ViewRow, UserRow

LEMMA SeenValues ==
    /\ None \in SeenValue /\ "revoked" \in SeenValue /\ "gate" \in SeenValue /\ "app" \in SeenValue
    /\ << >> \in SeenValue
    /\ \A v \in ViewRow : <<v>> \in SeenValue
    /\ \A u \in UserRow : <<u>> \in SeenValue
  BY DEF SeenValue

LEMMA ListsOfCalls ==
    /\ << >> \in CallLists
    /\ \A k \in Signing \cup Asking : << >> \in ListsFor(k) /\ ListsFor(k) \subseteq CallLists
    /\ \A k \in Asking : {Auth(k), Cached(k), After(k)} \subseteq ListsFor(k)
    /\ {FromUpdate, FromBust, FromFresh} \subseteq ListsFor("change")
    /\ \A k \in Signing : ListsFor(k) = SignInLists
  <1>1. \A k \in Asking : k \notin Signing
    BY DEF Signing, Asking
  <1>2. \A k \in Signing \cup Asking : << >> \in ListsFor(k) /\ ListsFor(k) \subseteq CallLists
    BY DEF ListsFor, CallLists, SignInLists
  <1>3. "login" \in Signing
    BY DEF Signing
  <1>4. \A k \in Asking : After(k) \in Later(k)
    BY DEF Later, After
  <1>5. \A k \in Asking : {Auth(k), Cached(k), After(k)} \subseteq ListsFor(k)
    BY <1>1, <1>4 DEF ListsFor
  <1>6. {FromUpdate, FromBust, FromFresh} \subseteq ListsFor("change")
    BY DEF ListsFor, Later, Signing
  <1> QED
    BY <1>2, <1>3, <1>5, <1>6 DEF ListsFor

\* A request with some of its fields set.
LEMMA WithSeen ==
    ASSUME NEW d \in Call, NEW x \in SeenValue, NEW r, r = [d EXCEPT !.seen = x]
    PROVE  /\ r \in Call /\ r.seen = x
           /\ r.kind = d.kind /\ r.right = d.right /\ r.at = d.at /\ r.token = d.token
           /\ r.load = d.load /\ r.todo = d.todo /\ r.limit = d.limit /\ r.status = d.status
  BY DEF Call

LEMMA WithLimit ==
    ASSUME NEW d \in Call, NEW x \in Nat, NEW r, r = [d EXCEPT !.limit = x]
    PROVE  /\ r \in Call /\ r.limit = x
           /\ r.kind = d.kind /\ r.right = d.right /\ r.at = d.at /\ r.token = d.token
           /\ r.load = d.load /\ r.todo = d.todo /\ r.seen = d.seen /\ r.status = d.status
  BY DEF Call

LEMMA WithToken ==
    ASSUME NEW d \in Call, NEW x \in TokenSet, NEW r, r = [d EXCEPT !.token = x]
    PROVE  /\ r \in Call /\ r.token = x
           /\ r.kind = d.kind /\ r.right = d.right /\ r.at = d.at /\ r.limit = d.limit
           /\ r.load = d.load /\ r.todo = d.todo /\ r.seen = d.seen /\ r.status = d.status
  BY DEF Call

LEMMA Ended ==
    ASSUME NEW q, NEW d \in Call, d = req[q], NEW s \in Nat, NEW r, r = Tab!End(q, s)
    PROVE  /\ r \in Call /\ r.todo = << >> /\ r.status = s /\ r.seen = None /\ r.limit = 0
           /\ r.kind = d.kind /\ r.token = d.token
  <1>1. << >> \in CallLists /\ None \in SeenValue /\ 0 \in Nat
    BY ListsOfCalls, SeenValues
  <1>2. PICK w : w = [d EXCEPT !.todo = << >>, !.status = s]
    OBVIOUS
  <1>3. w \in Call /\ w.todo = << >> /\ w.status = s /\ w.kind = d.kind /\ w.token = d.token
    BY <1>1, <1>2 DEF Call
  <1>4. PICK x : x = [w EXCEPT !.seen = None]
    OBVIOUS
  <1>5. /\ x \in Call /\ x.todo = << >> /\ x.status = s /\ x.seen = None
        /\ x.kind = d.kind /\ x.token = d.token
    BY <1>1, <1>3, <1>4, WithSeen
  <1>6. r = [x EXCEPT !.limit = 0]
    BY <1>2, <1>4 DEF Tab!End, Tab!To
  <1> QED
    BY <1>1, <1>5, <1>6, WithLimit

LEMMA Went ==
    ASSUME NEW q, NEW d \in Call, d = req[q], NEW t \in CallLists, NEW s \in Nat, NEW r,
           r = Tab!To(q, t, s)
    PROVE  /\ r \in Call /\ r.todo = t /\ r.status = s
           /\ r.kind = d.kind /\ r.right = d.right /\ r.at = d.at /\ r.token = d.token
           /\ r.load = d.load /\ r.seen = d.seen /\ r.limit = d.limit
  <1>1. r = [d EXCEPT !.todo = t, !.status = s]
    BY DEF Tab!To
  <1> QED
    BY <1>1 DEF Call

LEMMA Landed ==
    ASSUME CallTypes, NEW q \in Caller, NEW r \in Call, Tab!Move(q, r)
    PROVE  /\ req' \in [Caller -> Call \cup {None}]
           /\ \A p \in Caller \ {q} : req'[p] = req[p]
           /\ req'[q] \in Call
           /\ req'[q].kind = r.kind /\ req'[q].token = r.token /\ req'[q].load = r.load
           /\ req'[q].todo = r.todo /\ req'[q].seen = r.seen /\ req'[q].limit = r.limit
           /\ req'[q].status = r.status
           /\ r.todo # << >> => req'[q] = r
  <1>0. req \in [Caller -> Call \cup {None}]
    BY DEF CallTypes
  <1>1. CASE r.todo # << >>
    BY <1>0, <1>1 DEF Tab!Move
  <1>2. CASE r.todo = << >>
    <2> DEFINE w == [r EXCEPT !.at = None, !.right = TRUE]
    <2>1. req' = [req EXCEPT ![q] = w]
      BY <1>2 DEF Tab!Move
    <2>2. /\ w \in Call /\ w.kind = r.kind /\ w.token = r.token /\ w.load = r.load /\ w.todo = r.todo
          /\ w.seen = r.seen /\ w.limit = r.limit /\ w.status = r.status
      BY DEF Call
    <2> HIDE DEF w
    <2> QED
      BY <1>0, <1>2, <2>1, <2>2
  <1> QED
    BY <1>1, <1>2

\* A statement of a handler that leaves the rows alone.
LEMMA HandlerKeeps ==
    ASSUME SessInv, NEW q \in Caller, NEW n \in Call, n = req[q], req[q] # None, n.todo # << >>,
           n.todo # FromCount, NEW r \in Call, Tab!Move(q, r), r.kind = n.kind,
           UNCHANGED <<part, user, policy, admin, tab, now, cuts, failures, mixed>>,
           DOMAIN cache' = DOMAIN cache, CacheTypes',
           CallOK(r), NEW c \in Nat, Cutoff(c), CallFrom(r, c), CachesUpTo(c)', CallLock(r)
    PROVE  SessInv'
  <1>1. /\ req' \in [Caller -> Call \cup {None}]
        /\ \A p \in Caller \ {q} : req'[p] = req[p]
        /\ req'[q] \in Call
        /\ req'[q].kind = r.kind /\ req'[q].token = r.token /\ req'[q].load = r.load
        /\ req'[q].todo = r.todo /\ req'[q].seen = r.seen /\ req'[q].limit = r.limit
        /\ req'[q].status = r.status
        /\ r.todo # << >> => req'[q] = r
    BY Landed DEF SessInv
  <1>2. RowTypes'
    BY DEF SessInv, RowTypes
  <1>3. CallTypes'
    <2>1. CallOK(req[q])'
      BY <1>1 DEF CallOK
    <2>2. ASSUME NEW p \in Caller \ {q}, req[p] # None PROVE CallOK(req[p])'
      <3>1. CallOK(req[p]) /\ req'[p] = req[p]
        BY <1>1, <2>2 DEF SessInv, CallTypes
      <3> QED
        BY <3>1 DEF CallOK
    <2> QED
      BY <1>1, <2>1, <2>2 DEF CallTypes
  <1>4. Cutoff(c)'
    <2>1. CallFrom(req[q], c)'
      BY <1>1 DEF CallFrom, SignedFrom
    <2>2. ASSUME NEW p \in Caller \ {q}, req[p] # None PROVE CallFrom(req[p], c)'
      <3>1. CallFrom(req[p], c) /\ req'[p] = req[p]
        BY <1>1, <2>2 DEF Cutoff
      <3> QED
        BY <3>1 DEF CallFrom, SignedFrom
    <2> QED
      BY <1>1, <2>1, <2>2 DEF Cutoff, SignedFrom
  <1>5. LocksHold'
    <2>1. Signs(req[q])' => Signs(n) /\ CallLock(req[q])'
      BY <1>1 DEF Signs, CallLock
    <2>2. ASSUME NEW p \in Caller \ {q}, req[p] # None PROVE CallLock(req[p])'
      <3>1. CallLock(req[p]) /\ req'[p] = req[p]
        BY <1>1, <2>2 DEF SessInv, LocksHold
      <3> QED
        BY <3>1 DEF CallLock, Signs
    <2>3. \A p \in Caller : req'[p] # None => CallLock(req[p])'
      BY <1>1, <2>1, <2>2 DEF CallLock
    <2>4. ~mixed /\ Signs(n) => user.failed = failures
      BY DEF SessInv, LocksHold, CallLock
    <2>5. \A p \in Caller \ {q} : req'[p] = req[p]
      BY <1>1
    <2>6. ~mixed /\ (\A p \in Caller : req'[p] # None => ~Signs(req[p])') => user.failed = failures
      <3>1. CASE Signs(n)
        BY <3>1, <2>4
      <3>2. CASE ~Signs(n)
        BY <3>2, <2>5 DEF SessInv, LocksHold, Signs
      <3> QED
        BY <3>1, <3>2
    <2>7. ~mixed => \A p, o \in Caller :
            req'[p] # None /\ req'[o] # None /\ Signs(req[p])' /\ Signs(req[o])' => p = o
      BY <2>1, <2>5 DEF SessInv, LocksHold, Signs
    <2> QED
      BY <2>3, <2>6, <2>7 DEF LocksHold, Agree, SessInv
  <1> QED
    BY <1>2, <1>3, <1>4, <1>5 DEF SessInv

LEMMA KindsApart == \A k \in Asking : k \notin Signing
  BY DEF Asking, Signing

\* A request at a statement.
LEMMA AtCall ==
    ASSUME SessInv, NEW q \in Caller, NEW op, Tab!At(q, op)
    PROVE  \E n \in Call :
             /\ n = req[q] /\ req[q] # None /\ n.todo # << >> /\ Head(n.todo) = op
             /\ CallOK(n) /\ CallLock(n)
             /\ n.kind \in Signing \cup Asking /\ n.todo \in ListsFor(n.kind)
             /\ \A c : Cutoff(c) => CallFrom(n, c)
  <1>1. req[q] # None /\ req[q].todo # << >> /\ Head(req[q].todo) = op
    BY DEF Tab!At
  <1>2. CallOK(req[q]) /\ CallLock(req[q])
    BY <1>1 DEF SessInv, CallTypes, LocksHold
  <1>3. req[q] \in Call /\ req[q].todo \in ListsFor(req[q].kind)
    BY <1>2 DEF CallOK
  <1>4. req[q].kind \in Signing \cup Asking
    BY <1>3 DEF Call
  <1>5. \A c : Cutoff(c) => CallFrom(req[q], c)
    BY <1>1 DEF Cutoff
  <1> QED
    BY <1>1, <1>2, <1>3, <1>4, <1>5

LEMMA AskingNeedsNoLock == ASSUME NEW n, n.kind \in Asking PROVE CallLock(n)
  BY KindsApart DEF CallLock, Signs

\* After the judgement of a view that is no later than the last cutoff.
LEMMA JudgedCall ==
    ASSUME SessInv, NEW q, req[q] \in Call, CallOK(req[q]), req[q].kind \in Asking,
           req[q].todo # << >>, Tail(req[q].todo) = After(req[q].kind),
           NEW v \in ViewRow, NEW c \in Nat, v.after <= c, CallFrom(req[q], c)
    PROVE  LET r == Tab!Judged(q, v)
           IN  r \in Call /\ CallOK(r) /\ CallFrom(r, c) /\ r.kind = req[q].kind /\ CallLock(r)
  <1>n. PICK n : n = req[q]
    OBVIOUS
  <1>p. PICK r : r = Tab!Judged(q, v)
    OBVIOUS
  <1>s. SUFFICES r \in Call /\ CallOK(r) /\ CallFrom(r, c) /\ r.kind = n.kind /\ CallLock(r)
    BY <1>n, <1>p
  <1>i. /\ n \in Call /\ n = req[q] /\ CallOK(n) /\ n.kind \in Asking /\ n.todo # << >>
        /\ Tail(n.todo) = After(n.kind) /\ CallFrom(n, c)
    BY <1>n
  <1>0. /\ v # None /\ v.after \in Nat /\ cuts \in Nat /\ None # "revoked"
        /\ n.kind \notin Signing /\ n.token \in TokenSet /\ n.token # None
        /\ n.token.iat \in Nat /\ n.token.gen \in Nat /\ << >> \in ListsFor(n.kind)
        /\ n.at \in DOMAIN cache
        /\ (part = "tab" => n.kind \in Asking) /\ (part = "door" => n.kind \in Signing)
    <2>1. n.token \in TokenSet /\ n.token # None /\ v # None
      BY <1>i, NoneApart DEF CallOK
    <2>2. n.token.iat \in Nat /\ n.token.gen \in Nat
      BY <2>1 DEF TokenSet
    <2> QED
      BY <1>i, <2>1, <2>2, NoneApart, KindsApart, ListsOfCalls DEF ViewRow, SessInv, RowTypes, CallOK
  <1>l. << >> # Cached(n.kind) /\ After(n.kind) # Cached(n.kind) /\ After(n.kind) \in ListsFor(n.kind)
        /\ After(n.kind) \in CallLists
        /\ After(n.kind) \notin {FromPolicy, FromLimits, FromVerify, FromCount}
        /\ << >> \notin {FromPolicy, FromLimits, FromVerify, FromCount}
        /\ (After(n.kind) = << >> => n.kind # "me")
    <2>1. After(n.kind) \in ListsFor(n.kind) /\ After(n.kind) \in CallLists
      BY <1>i, ListsOfCalls
    <2>2. After(n.kind) \in {<< >>, FromProfile, FromReread, FromCompare}
          /\ (After(n.kind) = << >> => n.kind # "me")
      BY <1>i, LaterLists DEF After
    <2>3. Cached(n.kind) # << >> /\ Head(Cached(n.kind)) = "cached"
      BY <1>i, AuthLists
    <2> QED
      BY <2>1, <2>2, <2>3, LaterLists, SignInWork
  <1>r. r.kind = n.kind => CallLock(r)
    BY <1>i, AskingNeedsNoLock
  <1>1. CASE ~v.enabled
    <2>1. r = Tab!End(q, 401)
      BY <1>i, <1>p, <1>0, <1>1 DEF Tab!Judged
    <2>2. /\ r \in Call /\ r.todo = << >> /\ r.status = 401 /\ r.seen = None
          /\ r.kind = n.kind /\ r.token = n.token
      BY <1>i, <2>1, Ended
    <2>3. CallOK(r)
      BY <1>i, <1>0, <1>l, <2>2 DEF CallOK
    <2>4. CallFrom(r, c)
      BY <1>i, <1>l, <2>2 DEF CallFrom
    <2> QED
      BY <2>2, <2>3, <2>4, <1>i, <1>r
  <1>2. CASE v.enabled /\ n.token.iat < v.after
    <2>1. PICK e : e = Tab!End(q, 401)
      OBVIOUS
    <2>2. e \in Call /\ e.todo = << >> /\ e.status = 401 /\ e.kind = n.kind /\ e.token = n.token
      BY <1>i, <2>1, Ended
    <2>3. r = [e EXCEPT !.seen = "revoked"]
      BY <1>i, <1>p, <1>0, <1>2, <2>1 DEF Tab!Judged, Tab!Revoked
    <2>4. /\ r \in Call /\ r.todo = << >> /\ r.status = 401 /\ r.seen = "revoked"
          /\ r.kind = n.kind /\ r.token = n.token
      BY <2>2, <2>3, WithSeen, SeenValues
    <2>5. n.token.gen < cuts
      BY <1>i, <1>0, <1>2 DEF CallFrom, SignedFrom
    <2>6. CallOK(r)
      BY <1>i, <1>0, <1>l, <2>4, <2>5 DEF CallOK
    <2>7. CallFrom(r, c)
      BY <1>i, <1>l, <2>4 DEF CallFrom
    <2> QED
      BY <2>4, <2>6, <2>7, <1>i, <1>r
  <1>3. CASE v.enabled /\ ~(n.token.iat < v.after)
    <2>1. PICK e : e = Tab!To(q, After(n.kind), 200)
      OBVIOUS
    <2>2. /\ e \in Call /\ e.todo = After(n.kind) /\ e.status = 200 /\ e.kind = n.kind
          /\ e.token = n.token /\ e.at = n.at
      BY <1>i, <2>1, Went, <1>l
    <2>3. r = [e EXCEPT !.seen = None]
      BY <1>i, <1>p, <1>0, <1>3, <2>1 DEF Tab!Judged, Tab!Revoked, Tab!Done
    <2>4. /\ r \in Call /\ r.todo = After(n.kind) /\ r.status = 200 /\ r.seen = None
          /\ r.kind = n.kind /\ r.token = n.token /\ r.at = n.at
      BY <2>2, <2>3, WithSeen, SeenValues
    <2>5. CallOK(r)
      BY <1>i, <1>0, <1>l, <2>4 DEF CallOK
    <2>6. CallFrom(r, c)
      BY <1>i, <1>l, <2>4 DEF CallFrom
    <2> QED
      BY <2>4, <2>5, <2>6, <1>i, <1>r
  <1> QED
    BY <1>1, <1>2, <1>3 DEF ViewRow


LEMMA AuthenticateStep ==
    ASSUME SessInv, NEW q \in Caller, Tab!Authenticate(q), UNCHANGED part
    PROVE  SessInv'
  <1>1. PICK n \in Call :
             /\ n = req[q] /\ req[q] # None /\ n.todo # << >> /\ Head(n.todo) = "auth"
             /\ CallOK(n) /\ CallLock(n)
             /\ n.kind \in Signing \cup Asking /\ n.todo \in ListsFor(n.kind)
             /\ \A c : Cutoff(c) => CallFrom(n, c)
    BY AtCall DEF Tab!Authenticate
  <1>2. PICK c \in Nat : Cutoff(c)
    BY DEF SessInv
  <1>f. CallFrom(n, c)
    BY <1>1, <1>2
  <1>4. /\ UNCHANGED <<part, user, policy, cache, limits, admin, tab, now, cuts, failures, mixed>>
        /\ CacheTypes' /\ CachesUpTo(c)'
    BY <1>2 DEF Tab!Authenticate, Tab!counts, SessInv, CacheTypes, Cutoff, CachesUpTo
  <1>3. /\ n.kind \in Asking /\ n.todo = Auth(n.kind) /\ Tail(n.todo) = After(n.kind)
        /\ n.todo # FromCount
    BY <1>1, NextOfCall, SignInWork
  <1>5. CASE cache[n.at] # None
    <2>1. cache[n.at] \in ViewRow /\ cache[n.at].after <= c
      BY <1>1, <1>2, <1>5 DEF CallOK, SessInv, CacheTypes, Cutoff, CachesUpTo
    <2>2. PICK r : r = Tab!Judged(q, cache[n.at])
      OBVIOUS
    <2>a. /\ req[q] \in Call /\ CallOK(req[q]) /\ req[q].kind \in Asking /\ req[q].todo # << >>
          /\ Tail(req[q].todo) = After(req[q].kind) /\ CallFrom(req[q], c)
      BY <1>1, <1>3, <1>f
    <2>3. r \in Call /\ CallOK(r) /\ CallFrom(r, c) /\ r.kind = n.kind /\ CallLock(r)
      BY <1>1, <2>a, <2>1, <2>2, JudgedCall
    <2>4. Tab!Move(q, r)
      BY <1>1, <1>5, <2>2 DEF Tab!Authenticate
    <2> QED
      BY <1>1, <1>2, <1>3, <1>4, <2>3, <2>4, HandlerKeeps
  <1>6. CASE cache[n.at] = None
    <2>1. /\ Cached(n.kind) \in CallLists /\ Cached(n.kind) \in ListsFor(n.kind)
          /\ Cached(n.kind) # << >> /\ Head(Cached(n.kind)) = "cached"
          /\ Cached(n.kind) \notin {FromPolicy, FromLimits, FromVerify, FromCount}
      BY <1>3, AuthLists, ListsOfCalls, SignInWork
    <2>2. PICK v : v = Tab!View(user)
      OBVIOUS
    <2>3. v \in ViewRow /\ v.after <= c /\ <<v>>[1] = v
      BY <1>2, <2>2, NoneApart DEF Tab!View, SessInv, RowTypes, UserRow, ViewRow, Cutoff
    <2>4. PICK e : e = Tab!To(q, Cached(n.kind), 200)
      OBVIOUS
    <2>5. /\ e \in Call /\ e.todo = Cached(n.kind) /\ e.status = 200 /\ e.kind = n.kind
          /\ e.token = n.token /\ e.at = n.at
      BY <1>1, <2>1, <2>4, Went
    <2>6. PICK r : r = [e EXCEPT !.seen = <<v>>]
      OBVIOUS
    <2>7. /\ r \in Call /\ r.todo = Cached(n.kind) /\ r.status = 200 /\ r.seen = <<v>>
          /\ r.kind = n.kind /\ r.token = n.token /\ r.at = n.at
      BY <2>3, <2>5, <2>6, WithSeen, SeenValues
    <2>8. Tab!Move(q, r)
      BY <1>1, <1>3, <1>6, <2>2, <2>4, <2>6 DEF Tab!Authenticate, Cached
    <2>9. CallOK(r)
      BY <1>1, <1>3, <2>1, <2>3, <2>7, KindsApart DEF CallOK
    <2>10. CallFrom(r, c) /\ CallLock(r)
      BY <1>1, <1>2, <1>3, <2>3, <2>7, AskingNeedsNoLock DEF CallFrom
    <2> QED
      BY <1>1, <1>2, <1>3, <1>4, <2>7, <2>8, <2>9, <2>10, HandlerKeeps
  <1> QED
    BY <1>5, <1>6

LEMMA KeepViewStep ==
    ASSUME SessInv, NEW q \in Caller, Tab!KeepView(q), UNCHANGED part
    PROVE  SessInv'
  <1>1. PICK n \in Call :
             /\ n = req[q] /\ req[q] # None /\ n.todo # << >> /\ Head(n.todo) = "cached"
             /\ CallOK(n) /\ CallLock(n)
             /\ n.kind \in Signing \cup Asking /\ n.todo \in ListsFor(n.kind)
             /\ \A c : Cutoff(c) => CallFrom(n, c)
    BY AtCall DEF Tab!KeepView
  <1>2. PICK c \in Nat : Cutoff(c)
    BY DEF SessInv
  <1>f. CallFrom(n, c)
    BY <1>1, <1>2
  <1>3. /\ n.kind \in Asking /\ n.todo = Cached(n.kind) /\ Tail(n.todo) = After(n.kind)
        /\ n.todo # FromCount
    BY <1>1, NextOfCall, SignInWork
  <1>4. PICK v \in ViewRow : n.seen = <<v>>
    BY <1>1, <1>3 DEF CallOK
  <1>5. v = n.seen[1] /\ v.after <= c
    BY <1>1, <1>2, <1>3, <1>4 DEF CallFrom
  <1>6. PICK r : r = Tab!Judged(q, v)
    OBVIOUS
  <1>a. /\ req[q] \in Call /\ CallOK(req[q]) /\ req[q].kind \in Asking /\ req[q].todo # << >>
        /\ Tail(req[q].todo) = After(req[q].kind) /\ CallFrom(req[q], c)
    BY <1>1, <1>3, <1>f
  <1>7. r \in Call /\ CallOK(r) /\ CallFrom(r, c) /\ r.kind = n.kind /\ CallLock(r)
    BY <1>1, <1>a, <1>5, <1>6, JudgedCall
  <1>8. /\ Tab!Move(q, r) /\ cache' = [cache EXCEPT ![n.at] = v]
        /\ UNCHANGED <<part, user, policy, limits, admin, tab, now, cuts, failures, mixed>>
    BY <1>1, <1>5, <1>6 DEF Tab!KeepView, Tab!counts
  <1>9. DOMAIN cache' = DOMAIN cache /\ CacheTypes' /\ CachesUpTo(c)'
    BY <1>2, <1>5, <1>8 DEF SessInv, CacheTypes, Cutoff, CachesUpTo
  <1> QED
    BY <1>1, <1>2, <1>3, <1>7, <1>8, <1>9, HandlerKeeps

\* The lists of one kind of request are none of the other's.
LEMMA ListsApart ==
    /\ \A k \in Asking :
            ListsFor(k) \cap {FromPolicy, FromLimits, FromVerify, FromCount, FromRow, FromClear} = {}
    /\ \A k \in Asking : Cached(k) # << >> /\ After(k) # Cached(k) /\ Auth(k) # Cached(k)
    /\ {FromProfile, FromReread, FromCompare, FromUpdate, FromBust, FromFresh}
         \cap {Cached(k) : k \in Asking} = {}
    /\ << >> \notin {FromPolicy, FromLimits, FromVerify, FromCount, FromRow, FromClear}
    /\ << >> \notin {FromProfile, FromReread, FromCompare, FromUpdate, FromBust, FromFresh}
    /\ FromPolicy # FromLimits /\ FromPolicy # FromVerify /\ FromPolicy # FromCount
    /\ FromLimits # FromVerify /\ FromLimits # FromCount /\ FromVerify # FromCount
    /\ FromRow \notin {FromPolicy, FromLimits, FromVerify, FromCount}
    /\ FromClear \notin {FromPolicy, FromLimits, FromVerify, FromCount}
  <1>1. ASSUME NEW k \in Asking, NEW l \in ListsFor(k), l # << >>
        PROVE  Head(l) \in {"auth", "cached", "profile", "reread", "compare", "update", "bust", "fresh"}
    <2>1. CASE l = Auth(k) \/ l = Cached(k)
      BY <1>1, <2>1, AuthLists
    <2>2. CASE l \in Later(k)
      <3>1. l \in {<< >>, FromProfile, FromReread, FromCompare, FromUpdate, FromBust, FromFresh}
        BY <2>2 DEF Later, After
      <3> QED
        BY <1>1, <3>1, LaterLists
    <2> QED
      BY <1>1, <2>1, <2>2, KindsApart DEF ListsFor
  <1>2. \A k \in Asking :
            ListsFor(k) \cap {FromPolicy, FromLimits, FromVerify, FromCount, FromRow, FromClear} = {}
    BY <1>1, SignInWork
  <1>3. \A k \in Asking : After(k) \in {<< >>, FromProfile, FromReread, FromCompare}
    BY DEF After
  <1>4. \A k \in Asking : Cached(k) # << >> /\ After(k) # Cached(k) /\ Auth(k) # Cached(k)
    BY <1>3, AuthLists, LaterLists
  <1>5. {FromProfile, FromReread, FromCompare, FromUpdate, FromBust, FromFresh}
          \cap {Cached(k) : k \in Asking} = {}
    BY AuthLists, LaterLists
  <1> QED
    BY <1>2, <1>4, <1>5, SignInWork, LaterLists

\* What is the same of a request whatever its statement.
LEMMA CallFacts ==
    ASSUME SessInv, NEW n \in Call, CallOK(n), n.todo # << >>
    PROVE  /\ n.at \in DOMAIN cache
           /\ (part = "tab" => n.kind \in Asking) /\ (part = "door" => n.kind \in Signing)
           /\ n.kind \in Asking => n.kind \notin Signing /\ n.token \in TokenSet /\ n.token # None
           /\ cuts \in Nat /\ None # "revoked" /\ user \in UserRow /\ user # None /\ policy \in {0, Limit}
           /\ << >> \in ListsFor(n.kind) /\ << >> \in CallLists
  BY NoneApart, KindsApart, ListsOfCalls DEF CallOK, SessInv, RowTypes, Call

LEMMA ProfileStep ==
    ASSUME SessInv, NEW q \in Caller, Tab!Profile(q), UNCHANGED part
    PROVE  SessInv'
  <1>1. PICK n \in Call :
             /\ n = req[q] /\ req[q] # None /\ n.todo # << >> /\ Head(n.todo) = "profile"
             /\ CallOK(n) /\ CallLock(n)
             /\ n.kind \in Signing \cup Asking /\ n.todo \in ListsFor(n.kind)
             /\ \A c : Cutoff(c) => CallFrom(n, c)
    BY AtCall DEF Tab!Profile
  <1>2. PICK c \in Nat : Cutoff(c)
    BY DEF SessInv
  <1>f. CallFrom(n, c)
    BY <1>1, <1>2
  <1>c. /\ n.at \in DOMAIN cache
        /\ (part = "tab" => n.kind \in Asking) /\ (part = "door" => n.kind \in Signing)
        /\ n.kind \in Asking => n.kind \notin Signing /\ n.token \in TokenSet /\ n.token # None
        /\ cuts \in Nat /\ None # "revoked" /\ user \in UserRow /\ user # None /\ policy \in {0, Limit}
        /\ << >> \in ListsFor(n.kind) /\ << >> \in CallLists
    BY <1>1, CallFacts
  <1>4. /\ UNCHANGED <<part, user, policy, cache, limits, admin, tab, now, cuts, failures, mixed>>
        /\ CacheTypes' /\ CachesUpTo(c)'
    BY <1>2 DEF Tab!Profile, Tab!counts, SessInv, CacheTypes, Cutoff, CachesUpTo
  <1>3. /\ n.kind \in Asking /\ n.kind = "me" /\ n.todo = FromProfile /\ Tail(n.todo) = << >>
        /\ n.todo # FromCount
    BY <1>1, NextOfCall, ListsApart
  <1>s. n.seen = None
    BY <1>1, <1>3, ListsApart DEF CallOK
  <1>l. << >> \in ListsFor(n.kind) /\ << >> \in CallLists
    BY <1>3, ListsOfCalls DEF After
  <1>5. PICK x : x = IF user # None /\ user.must THEN "gate" ELSE "app"
    OBVIOUS
  <1>6. PICK e : e = Tab!To(q, << >>, 200)
    OBVIOUS
  <1>7. e \in Call /\ e.todo = << >> /\ e.status = 200 /\ e.kind = n.kind /\ e.token = n.token
    BY <1>1, <1>l, <1>6, Went
  <1>8. PICK r : r = [e EXCEPT !.seen = x]
    OBVIOUS
  <1>9. x \in {"gate", "app"} /\ x \in SeenValue
    BY <1>5, SeenValues
  <1>10. /\ r \in Call /\ r.todo = << >> /\ r.status = 200 /\ r.kind = n.kind /\ r.token = n.token
         /\ r.seen = x
    BY <1>7, <1>8, <1>9, WithSeen
  <1>11. Tab!Move(q, r)
    <2>1. r = [Tab!Done(q) EXCEPT !.seen = IF user # None /\ user.must THEN "gate" ELSE "app"]
      BY <1>1, <1>3, <1>5, <1>6, <1>8 DEF Tab!Done
    <2> QED BY <2>1 DEF Tab!Profile
  <1>12. CallOK(r)
    BY <1>c, <1>3, <1>9, <1>10, ListsApart DEF CallOK
  <1>13. CallFrom(r, c) /\ CallLock(r)
    BY <1>f, <1>3, <1>10, ListsApart, AskingNeedsNoLock DEF CallFrom
  <1> QED
    BY <1>1, <1>2, <1>3, <1>4, <1>10, <1>11, <1>12, <1>13, HandlerKeeps

LEMMA RereadStep ==
    ASSUME SessInv, NEW q \in Caller, Tab!Reread(q), UNCHANGED part
    PROVE  SessInv'
  <1>1. PICK n \in Call :
             /\ n = req[q] /\ req[q] # None /\ n.todo # << >> /\ Head(n.todo) = "reread"
             /\ CallOK(n) /\ CallLock(n)
             /\ n.kind \in Signing \cup Asking /\ n.todo \in ListsFor(n.kind)
             /\ \A c : Cutoff(c) => CallFrom(n, c)
    BY AtCall DEF Tab!Reread
  <1>2. PICK c \in Nat : Cutoff(c)
    BY DEF SessInv
  <1>f. CallFrom(n, c)
    BY <1>1, <1>2
  <1>c. /\ n.at \in DOMAIN cache
        /\ (part = "tab" => n.kind \in Asking) /\ (part = "door" => n.kind \in Signing)
        /\ n.kind \in Asking => n.kind \notin Signing /\ n.token \in TokenSet /\ n.token # None
        /\ cuts \in Nat /\ None # "revoked" /\ user \in UserRow /\ user # None /\ policy \in {0, Limit}
        /\ << >> \in ListsFor(n.kind) /\ << >> \in CallLists
    BY <1>1, CallFacts
  <1>4. /\ UNCHANGED <<part, user, policy, cache, limits, admin, tab, now, cuts, failures, mixed>>
        /\ CacheTypes' /\ CachesUpTo(c)'
    BY <1>2 DEF Tab!Reread, Tab!counts, SessInv, CacheTypes, Cutoff, CachesUpTo
  <1>3. /\ n.kind \in Asking /\ n.kind = "refresh" /\ n.todo = FromReread /\ Tail(n.todo) = << >>
        /\ n.todo # FromCount
    BY <1>1, NextOfCall, ListsApart
  <1>s. n.seen = None
    BY <1>1, <1>3, ListsApart DEF CallOK
  <1>l. << >> \in ListsFor(n.kind) /\ << >> \in CallLists
    BY <1>3, ListsOfCalls DEF After
  <1>t. PICK t : t = [iat |-> now, gen |-> cuts]
    OBVIOUS
  <1>u. t \in TokenSet /\ SignedFrom(t, c) /\ t # None
    BY <1>2, <1>t, NoneApart DEF SessInv, RowTypes, Cutoff, TokenSet, SignedFrom
  <1>5. CASE user.enabled
    <2>1. PICK e : e = Tab!To(q, << >>, 200)
      OBVIOUS
    <2>2. /\ e \in Call /\ e.todo = << >> /\ e.status = 200 /\ e.kind = n.kind /\ e.at = n.at
          /\ e.token = n.token /\ e.seen = n.seen /\ e.limit = n.limit
      BY <1>1, <1>l, <2>1, Went
    <2>6. PICK r : r = [e EXCEPT !.token = t]
      OBVIOUS
    <2>7. /\ r \in Call /\ r.todo = << >> /\ r.status = 200 /\ r.kind = n.kind /\ r.seen = None
          /\ r.token = t
      BY <1>s, <1>u, <2>2, <2>6, WithToken
    <2>3. Tab!Move(q, r)
      BY <1>1, <1>3, <1>t, <2>1, <2>6, <1>c, <1>5 DEF Tab!Reread, Tab!Done
    <2>4. CallOK(r)
      BY <1>c, <1>3, <1>u, <2>7, ListsApart DEF CallOK
    <2>5. CallFrom(r, c) /\ CallLock(r)
      BY <1>3, <1>u, <2>7, ListsApart, AskingNeedsNoLock DEF CallFrom
    <2> QED
      BY <1>1, <1>2, <1>3, <1>4, <2>7, <2>3, <2>4, <2>5, HandlerKeeps
  <1>6. CASE ~user.enabled
    <2>1. PICK r : r = Tab!End(q, 401)
      OBVIOUS
    <2>2. /\ r \in Call /\ r.todo = << >> /\ r.status = 401 /\ r.seen = None /\ r.kind = n.kind
          /\ r.token = n.token
      BY <1>1, <2>1, Ended
    <2>3. Tab!Move(q, r)
      BY <1>c, <1>6, <2>1 DEF Tab!Reread
    <2>4. CallOK(r)
      BY <1>c, <1>l, <1>3, <1>s, <2>2, ListsApart DEF CallOK
    <2>5. CallFrom(r, c) /\ CallLock(r)
      BY <1>f, <1>3, <2>2, ListsApart, AskingNeedsNoLock DEF CallFrom
    <2> QED
      BY <1>1, <1>2, <1>3, <1>4, <2>2, <2>3, <2>4, <2>5, HandlerKeeps
  <1> QED
    BY <1>5, <1>6

LEMMA SignFreshStep ==
    ASSUME SessInv, NEW q \in Caller, Tab!SignFresh(q), UNCHANGED part
    PROVE  SessInv'
  <1>1. PICK n \in Call :
             /\ n = req[q] /\ req[q] # None /\ n.todo # << >> /\ Head(n.todo) = "fresh"
             /\ CallOK(n) /\ CallLock(n)
             /\ n.kind \in Signing \cup Asking /\ n.todo \in ListsFor(n.kind)
             /\ \A c : Cutoff(c) => CallFrom(n, c)
    BY AtCall DEF Tab!SignFresh
  <1>2. PICK c \in Nat : Cutoff(c)
    BY DEF SessInv
  <1>f. CallFrom(n, c)
    BY <1>1, <1>2
  <1>c. /\ n.at \in DOMAIN cache
        /\ (part = "tab" => n.kind \in Asking) /\ (part = "door" => n.kind \in Signing)
        /\ n.kind \in Asking => n.kind \notin Signing /\ n.token \in TokenSet /\ n.token # None
        /\ cuts \in Nat /\ None # "revoked" /\ user \in UserRow /\ user # None /\ policy \in {0, Limit}
        /\ << >> \in ListsFor(n.kind) /\ << >> \in CallLists
    BY <1>1, CallFacts
  <1>4. /\ UNCHANGED <<part, user, policy, cache, limits, admin, tab, now, cuts, failures, mixed>>
        /\ CacheTypes' /\ CachesUpTo(c)'
    BY <1>2 DEF Tab!SignFresh, Tab!counts, SessInv, CacheTypes, Cutoff, CachesUpTo
  <1>3. /\ n.kind \in Asking /\ n.kind = "change" /\ n.todo = FromFresh /\ Tail(n.todo) = << >>
        /\ n.todo # FromCount
    BY <1>1, NextOfCall, ListsApart
  <1>s. n.seen = None
    BY <1>1, <1>3, ListsApart DEF CallOK
  <1>l. << >> \in ListsFor(n.kind) /\ << >> \in CallLists
    BY <1>3, ListsOfCalls DEF After
  <1>t. PICK t : t = [iat |-> now, gen |-> cuts]
    OBVIOUS
  <1>u. t \in TokenSet /\ SignedFrom(t, c) /\ t # None
    BY <1>2, <1>t, NoneApart DEF SessInv, RowTypes, Cutoff, TokenSet, SignedFrom
  <1> QED
    <2>1. PICK e : e = Tab!To(q, << >>, 200)
      OBVIOUS
    <2>2. /\ e \in Call /\ e.todo = << >> /\ e.status = 200 /\ e.kind = n.kind /\ e.at = n.at
          /\ e.token = n.token /\ e.seen = n.seen /\ e.limit = n.limit
      BY <1>1, <1>l, <2>1, Went
    <2>6. PICK r : r = [e EXCEPT !.token = t]
      OBVIOUS
    <2>7. /\ r \in Call /\ r.todo = << >> /\ r.status = 200 /\ r.kind = n.kind /\ r.seen = None
          /\ r.token = t
      BY <1>s, <1>u, <2>2, <2>6, WithToken
    <2>3. Tab!Move(q, r)
      BY <1>1, <1>3, <1>t, <2>1, <2>6 DEF Tab!SignFresh, Tab!Done
    <2>4. CallOK(r)
      BY <1>c, <1>3, <1>u, <2>7, ListsApart DEF CallOK
    <2>5. CallFrom(r, c) /\ CallLock(r)
      BY <1>3, <1>u, <2>7, ListsApart, AskingNeedsNoLock DEF CallFrom
    <2> QED
      BY <1>1, <1>2, <1>3, <1>4, <2>7, <2>3, <2>4, <2>5, HandlerKeeps

LEMMA CompareStep ==
    ASSUME SessInv, NEW q \in Caller, NEW allowed \in BOOLEAN, Tab!Compare(q, allowed), UNCHANGED part
    PROVE  SessInv'
  <1>1. PICK n \in Call :
             /\ n = req[q] /\ req[q] # None /\ n.todo # << >> /\ Head(n.todo) = "compare"
             /\ CallOK(n) /\ CallLock(n)
             /\ n.kind \in Signing \cup Asking /\ n.todo \in ListsFor(n.kind)
             /\ \A c : Cutoff(c) => CallFrom(n, c)
    BY AtCall DEF Tab!Compare
  <1>2. PICK c \in Nat : Cutoff(c)
    BY DEF SessInv
  <1>f. CallFrom(n, c)
    BY <1>1, <1>2
  <1>c. /\ n.at \in DOMAIN cache
        /\ (part = "tab" => n.kind \in Asking) /\ (part = "door" => n.kind \in Signing)
        /\ n.kind \in Asking => n.kind \notin Signing /\ n.token \in TokenSet /\ n.token # None
        /\ cuts \in Nat /\ None # "revoked" /\ user \in UserRow /\ user # None /\ policy \in {0, Limit}
        /\ << >> \in ListsFor(n.kind) /\ << >> \in CallLists
    BY <1>1, CallFacts
  <1>4. /\ UNCHANGED <<part, user, policy, cache, limits, admin, tab, now, cuts, failures, mixed>>
        /\ CacheTypes' /\ CachesUpTo(c)'
    BY <1>2 DEF Tab!Compare, Tab!counts, SessInv, CacheTypes, Cutoff, CachesUpTo
  <1>3. /\ n.kind \in Asking /\ n.kind = "change" /\ n.todo = FromCompare /\ Tail(n.todo) = FromUpdate
        /\ n.todo # FromCount
    BY <1>1, NextOfCall, ListsApart
  <1>s. n.seen = None
    BY <1>1, <1>3, ListsApart DEF CallOK
  <1>l. FromUpdate \in ListsFor(n.kind) /\ FromUpdate \in CallLists
    BY <1>3, ListsOfCalls DEF After
  <1>5. CASE ~n.right
    <2>1. PICK r : r = Tab!End(q, 401)
      OBVIOUS
    <2>2. /\ r \in Call /\ r.todo = << >> /\ r.status = 401 /\ r.seen = None /\ r.kind = n.kind
          /\ r.token = n.token
      BY <1>1, <2>1, Ended
    <2>3. Tab!Move(q, r)
      BY <1>1, <1>c, <1>5, <2>1 DEF Tab!Compare
    <2>4. CallOK(r)
      BY <1>c, <1>l, <1>3, <1>s, <2>2, ListsApart DEF CallOK
    <2>5. CallFrom(r, c) /\ CallLock(r)
      BY <1>f, <1>3, <2>2, ListsApart, AskingNeedsNoLock DEF CallFrom
    <2> QED
      BY <1>1, <1>2, <1>3, <1>4, <2>2, <2>3, <2>4, <2>5, HandlerKeeps
  <1>6. CASE n.right /\ ~allowed
    <2>1. PICK r : r = Tab!End(q, 400)
      OBVIOUS
    <2>2. /\ r \in Call /\ r.todo = << >> /\ r.status = 400 /\ r.seen = None /\ r.kind = n.kind
          /\ r.token = n.token
      BY <1>1, <2>1, Ended
    <2>3. Tab!Move(q, r)
      BY <1>1, <1>c, <1>6, <2>1 DEF Tab!Compare
    <2>4. CallOK(r)
      BY <1>c, <1>l, <1>3, <1>s, <2>2, ListsApart DEF CallOK
    <2>5. CallFrom(r, c) /\ CallLock(r)
      BY <1>f, <1>3, <2>2, ListsApart, AskingNeedsNoLock DEF CallFrom
    <2> QED
      BY <1>1, <1>2, <1>3, <1>4, <2>2, <2>3, <2>4, <2>5, HandlerKeeps
  <1>7. CASE n.right /\ allowed
    <2>1. PICK r : r = Tab!To(q, FromUpdate, 200)
      OBVIOUS
    <2>2. /\ r \in Call /\ r.todo = FromUpdate /\ r.status = 200 /\ r.kind = n.kind /\ r.at = n.at
          /\ r.token = n.token /\ r.seen = n.seen /\ r.limit = n.limit
      BY <1>1, <1>l, <2>1, Went
    <2>3. Tab!Move(q, r)
      BY <1>1, <1>3, <1>c, <1>7, <2>1 DEF Tab!Compare, Tab!Done
    <2>4. CallOK(r)
      BY <1>c, <1>l, <1>3, <1>s, <2>2, ListsApart DEF CallOK
    <2>5. CallFrom(r, c) /\ CallLock(r)
      BY <1>f, <1>3, <2>2, ListsApart, AskingNeedsNoLock DEF CallFrom
    <2> QED
      BY <1>1, <1>2, <1>3, <1>4, <2>2, <2>3, <2>4, <2>5, HandlerKeeps
  <1> QED
    BY <1>5, <1>6, <1>7 DEF Call

LEMMA BustStep ==
    ASSUME SessInv, NEW q \in Caller, Tab!Bust(q), UNCHANGED part
    PROVE  SessInv'
  <1>1. PICK n \in Call :
             /\ n = req[q] /\ req[q] # None /\ n.todo # << >> /\ Head(n.todo) = "bust"
             /\ CallOK(n) /\ CallLock(n)
             /\ n.kind \in Signing \cup Asking /\ n.todo \in ListsFor(n.kind)
             /\ \A c : Cutoff(c) => CallFrom(n, c)
    BY AtCall DEF Tab!Bust
  <1>2. PICK c \in Nat : Cutoff(c)
    BY DEF SessInv
  <1>f. CallFrom(n, c)
    BY <1>1, <1>2
  <1>c. /\ n.at \in DOMAIN cache
        /\ (part = "tab" => n.kind \in Asking) /\ (part = "door" => n.kind \in Signing)
        /\ n.kind \in Asking => n.kind \notin Signing /\ n.token \in TokenSet /\ n.token # None
        /\ cuts \in Nat /\ None # "revoked" /\ user \in UserRow /\ user # None /\ policy \in {0, Limit}
        /\ << >> \in ListsFor(n.kind) /\ << >> \in CallLists
    BY <1>1, CallFacts
  <1>3. /\ n.kind \in Asking /\ n.kind = "change" /\ n.todo = FromBust /\ Tail(n.todo) = FromFresh
        /\ n.todo # FromCount
    BY <1>1, NextOfCall, ListsApart
  <1>s. n.seen = None
    BY <1>1, <1>3, ListsApart DEF CallOK
  <1>l. FromFresh \in ListsFor(n.kind) /\ FromFresh \in CallLists
    BY <1>3, ListsOfCalls DEF After
  <1>5. /\ cache' = [cache EXCEPT ![n.at] = None]
        /\ UNCHANGED <<part, user, policy, limits, admin, tab, now, cuts, failures, mixed>>
    BY <1>1 DEF Tab!Bust, Tab!counts
  <1>4. DOMAIN cache' = DOMAIN cache /\ CacheTypes' /\ CachesUpTo(c)'
    BY <1>2, <1>5 DEF SessInv, CacheTypes, Cutoff, CachesUpTo
  <1> QED
    <2>1. PICK r : r = Tab!To(q, FromFresh, 200)
      OBVIOUS
    <2>2. /\ r \in Call /\ r.todo = FromFresh /\ r.status = 200 /\ r.kind = n.kind /\ r.at = n.at
          /\ r.token = n.token /\ r.seen = n.seen /\ r.limit = n.limit
      BY <1>1, <1>l, <2>1, Went
    <2>3. Tab!Move(q, r)
      BY <1>1, <1>3, <2>1 DEF Tab!Bust, Tab!Done
    <2>4. CallOK(r)
      BY <1>c, <1>l, <1>3, <1>s, <2>2, ListsApart DEF CallOK
    <2>5. CallFrom(r, c) /\ CallLock(r)
      BY <1>f, <1>3, <2>2, ListsApart, AskingNeedsNoLock DEF CallFrom
    <2> QED
      BY <1>1, <1>2, <1>3, <1>4, <1>5, <2>2, <2>3, <2>4, <2>5, HandlerKeeps

\* A sign-in whose account is looked at: locked, or on to the password.
LEMMA CheckedCall ==
    ASSUME SessInv, NEW q, req[q] \in Call, CallOK(req[q]), CallLock(req[q]), req[q].kind \in Signing,
           req[q].todo \in {FromPolicy, FromLimits}, NEW limit \in {0, Limit},
           NEW c \in Nat, CallFrom(req[q], c)
    PROVE  LET r == Tab!Checked(q, limit)
           IN  r \in Call /\ CallOK(r) /\ CallFrom(r, c) /\ r.kind = req[q].kind /\ CallLock(r)
  <1>1. PICK n : n = req[q]
    OBVIOUS
  <1>2. PICK r : r = Tab!Checked(q, limit)
    OBVIOUS
  <1>3. SUFFICES r \in Call /\ CallOK(r) /\ CallFrom(r, c) /\ r.kind = n.kind /\ CallLock(r)
    BY <1>1, <1>2
  <1>4. /\ n \in Call /\ CallOK(n) /\ CallLock(n) /\ n.kind \in Signing /\ n.kind \notin Asking
        /\ n.todo \in {FromPolicy, FromLimits} /\ n.todo # << >> /\ CallFrom(n, c)
    BY <1>1, SignInWork, KindsApart
  <1>c. /\ n.at \in DOMAIN cache
        /\ (part = "tab" => n.kind \in Asking) /\ (part = "door" => n.kind \in Signing)
        /\ cuts \in Nat /\ None # "revoked" /\ << >> \in ListsFor(n.kind)
    BY <1>4, CallFacts
  <1>l. /\ ListsFor(n.kind) = SignInLists /\ SignInLists \subseteq CallLists
        /\ FromVerify \in SignInLists /\ FromVerify \in CallLists /\ Tail(n.todo) = FromVerify
        /\ limit \in Nat /\ n.seen \in SeenValue
    <2>1. ListsFor(n.kind) = SignInLists /\ SignInLists \subseteq CallLists
      BY <1>4, ListsOfCalls
    <2>2. FromVerify \in SignInLists
      BY DEF SignInLists
    <2>3. Tail(n.todo) = FromVerify
      BY <1>4, SignInWork
    <2>4. limit \in Nat /\ n.seen \in SeenValue
      BY <1>4, NoneApart DEF Call
    <2> QED
      BY <2>1, <2>2, <2>3, <2>4
  <1>5. CASE Tab!Locked(q)
    <2>1. r = Tab!End(q, 423)
      BY <1>2, <1>5 DEF Tab!Checked
    <2>2. /\ r \in Call /\ r.todo = << >> /\ r.status = 423 /\ r.seen = None /\ r.kind = n.kind
          /\ r.token = n.token
      BY <1>1, <1>4, <2>1, Ended
    <2>3. CallOK(r)
      BY <1>4, <1>c, <2>2, ListsApart DEF CallOK
    <2>4. CallFrom(r, c) /\ CallLock(r)
      BY <1>4, <2>2 DEF CallFrom, CallLock, Signs
    <2> QED
      BY <2>2, <2>3, <2>4
  <1>6. CASE ~Tab!Locked(q)
    <2>1. PICK e : e = Tab!To(q, FromVerify, 200)
      OBVIOUS
    <2>2. /\ e \in Call /\ e.todo = FromVerify /\ e.status = 200 /\ e.kind = n.kind /\ e.at = n.at
          /\ e.token = n.token /\ e.seen = n.seen
      BY <1>1, <1>4, <1>l, <2>1, Went
    <2>3. r = [e EXCEPT !.limit = limit]
      BY <1>1, <1>2, <1>6, <1>l, <2>1 DEF Tab!Checked, Tab!Done
    <2>4. /\ r \in Call /\ r.todo = FromVerify /\ r.kind = n.kind /\ r.at = n.at
          /\ r.token = n.token /\ r.seen = n.seen /\ r.limit = limit
      BY <1>l, <2>2, <2>3, WithLimit
    <2>5. CallOK(r)
      BY <1>4, <1>c, <1>l, <2>4, ListsApart DEF CallOK
    <2>6. CallFrom(r, c)
      BY <1>4, <2>4 DEF CallFrom
    <2>7. CallLock(r)
      BY <1>4, <2>4, ListsApart DEF CallLock, Signs
    <2> QED
      BY <2>4, <2>5, <2>6, <2>7
  <1> QED
    BY <1>5, <1>6

LEMMA ReadUserStep ==
    ASSUME SessInv, NEW q \in Caller, Tab!ReadUser(q), UNCHANGED part
    PROVE  SessInv'
  <1>1. PICK n \in Call :
             /\ n = req[q] /\ req[q] # None /\ n.todo # << >> /\ Head(n.todo) = "user"
             /\ CallOK(n) /\ CallLock(n)
             /\ n.kind \in Signing \cup Asking /\ n.todo \in ListsFor(n.kind)
             /\ \A c : Cutoff(c) => CallFrom(n, c)
    BY AtCall DEF Tab!ReadUser
  <1>2. PICK c \in Nat : Cutoff(c)
    BY DEF SessInv
  <1>f. CallFrom(n, c)
    BY <1>1, <1>2
  <1>c. /\ n.at \in DOMAIN cache
        /\ (part = "tab" => n.kind \in Asking) /\ (part = "door" => n.kind \in Signing)
        /\ n.kind \in Asking => n.kind \notin Signing /\ n.token \in TokenSet /\ n.token # None
        /\ cuts \in Nat /\ None # "revoked" /\ user \in UserRow /\ user # None /\ policy \in {0, Limit}
        /\ << >> \in ListsFor(n.kind) /\ << >> \in CallLists
    BY <1>1, CallFacts
  <1>4. /\ UNCHANGED <<part, user, policy, cache, limits, admin, tab, now, cuts, failures, mixed>>
        /\ CacheTypes' /\ CachesUpTo(c)'
    BY <1>2 DEF Tab!ReadUser, Tab!counts, SessInv, CacheTypes, Cutoff, CachesUpTo
  <1>3. /\ n.kind \in Signing /\ n.kind \notin Asking /\ n.todo = FromRow /\ Tail(n.todo) = FromPolicy
        /\ Signs(n)
    BY <1>1, NextOfCall, KindsApart DEF Signs
  <1>l. /\ ListsFor(n.kind) = SignInLists /\ SignInLists \subseteq CallLists
        /\ FromPolicy \in SignInLists
    BY <1>3, ListsOfCalls DEF SignInLists
  <1>5. PICK x : x = IF user # None /\ user.enabled THEN <<user>> ELSE << >>
    OBVIOUS
  <1>6. x \in {<< >>, <<user>>} /\ x \in SeenValue
    BY <1>5, <1>c, SeenValues
  <1>7. PICK e : e = Tab!To(q, FromPolicy, 200)
    OBVIOUS
  <1>8. /\ e \in Call /\ e.todo = FromPolicy /\ e.status = 200 /\ e.kind = n.kind /\ e.at = n.at
        /\ e.token = n.token
    BY <1>1, <1>l, <1>7, Went
  <1>9. PICK r : r = [e EXCEPT !.seen = x]
    OBVIOUS
  <1>10. /\ r \in Call /\ r.todo = FromPolicy /\ r.kind = n.kind /\ r.at = n.at
         /\ r.token = n.token /\ r.seen = x
    BY <1>6, <1>8, <1>9, WithSeen
  <1>11. Tab!Move(q, r)
    BY <1>1, <1>3, <1>5, <1>7, <1>9 DEF Tab!ReadUser, Tab!Done
  <1>12. CallOK(r)
    BY <1>c, <1>l, <1>3, <1>6, <1>10, ListsApart DEF CallOK
  <1>13. CallFrom(r, c)
    BY <1>f, <1>3, <1>10 DEF CallFrom
  <1>14. CallLock(r)
    BY <1>1, <1>3, <1>6, <1>10, ListsApart DEF CallLock, Signs
  <1> QED
    BY <1>1, <1>2, <1>3, <1>4, <1>10, <1>11, <1>12, <1>13, <1>14, ListsApart, HandlerKeeps

LEMMA AskPolicyStep ==
    ASSUME SessInv, NEW q \in Caller, Tab!AskPolicy(q), UNCHANGED part
    PROVE  SessInv'
  <1>1. PICK n \in Call :
             /\ n = req[q] /\ req[q] # None /\ n.todo # << >> /\ Head(n.todo) = "policy"
             /\ CallOK(n) /\ CallLock(n)
             /\ n.kind \in Signing \cup Asking /\ n.todo \in ListsFor(n.kind)
             /\ \A c : Cutoff(c) => CallFrom(n, c)
    BY AtCall DEF Tab!AskPolicy
  <1>2. PICK c \in Nat : Cutoff(c)
    BY DEF SessInv
  <1>f. CallFrom(n, c)
    BY <1>1, <1>2
  <1>c. /\ n.at \in DOMAIN cache
        /\ (part = "tab" => n.kind \in Asking) /\ (part = "door" => n.kind \in Signing)
        /\ n.kind \in Asking => n.kind \notin Signing /\ n.token \in TokenSet /\ n.token # None
        /\ cuts \in Nat /\ None # "revoked" /\ user \in UserRow /\ user # None /\ policy \in {0, Limit}
        /\ << >> \in ListsFor(n.kind) /\ << >> \in CallLists
    BY <1>1, CallFacts
  <1>4. /\ UNCHANGED <<part, user, policy, cache, limits, admin, tab, now, cuts, failures, mixed>>
        /\ CacheTypes' /\ CachesUpTo(c)'
    BY <1>2 DEF Tab!AskPolicy, Tab!counts, SessInv, CacheTypes, Cutoff, CachesUpTo
  <1>3. /\ n.kind \in Signing /\ n.kind \notin Asking /\ n.todo = FromPolicy /\ Tail(n.todo) = FromVerify
        /\ Signs(n)
    BY <1>1, NextOfCall, KindsApart DEF Signs
  <1>l. /\ ListsFor(n.kind) = SignInLists /\ SignInLists \subseteq CallLists
        /\ FromVerify \in SignInLists
    BY <1>3, ListsOfCalls DEF SignInLists
  <1>5. limits[n.at] \in {None, 0, Limit}
    BY <1>c DEF SessInv, CacheTypes
  <1>a. /\ req[q] \in Call /\ CallOK(req[q]) /\ CallLock(req[q]) /\ req[q].kind \in Signing
        /\ req[q].todo \in {FromPolicy, FromLimits} /\ CallFrom(req[q], c)
    BY <1>1, <1>3, <1>f
  <1>6. CASE limits[n.at] # None
    <2>1. limits[n.at] \in {0, Limit}
      BY <1>5, <1>6
    <2>2. PICK r : r = Tab!Checked(q, limits[n.at])
      OBVIOUS
    <2>3. r \in Call /\ CallOK(r) /\ CallFrom(r, c) /\ r.kind = n.kind /\ CallLock(r)
      BY <1>1, <1>a, <2>1, <2>2, CheckedCall
    <2>4. Tab!Move(q, r)
      BY <1>1, <1>6, <2>2 DEF Tab!AskPolicy
    <2> QED
      BY <1>1, <1>2, <1>3, <1>4, <2>3, <2>4, ListsApart, HandlerKeeps
  <1>7. CASE limits[n.at] = None
    <2>1. FromLimits \in CallLists /\ FromLimits \in SignInLists /\ policy \in Nat
      BY <1>c, <1>l, NoneApart DEF SignInLists
    <2>2. PICK e : e = Tab!To(q, FromLimits, 200)
      OBVIOUS
    <2>3. /\ e \in Call /\ e.todo = FromLimits /\ e.kind = n.kind /\ e.at = n.at
          /\ e.token = n.token /\ e.seen = n.seen
      BY <1>1, <2>1, <2>2, Went
    <2>4. PICK r : r = [e EXCEPT !.limit = policy]
      OBVIOUS
    <2>5. /\ r \in Call /\ r.todo = FromLimits /\ r.kind = n.kind /\ r.at = n.at
          /\ r.token = n.token /\ r.seen = n.seen /\ r.limit = policy
      BY <2>1, <2>3, <2>4, WithLimit
    <2>6. Tab!Move(q, r)
      BY <1>1, <1>3, <1>7, <2>2, <2>4 DEF Tab!AskPolicy, FromLimits
    <2>7. CallOK(r)
      BY <1>1, <1>c, <1>l, <1>3, <2>1, <2>5, ListsApart DEF CallOK
    <2>8. CallFrom(r, c)
      BY <1>f, <1>3, <2>5 DEF CallFrom
    <2>9. CallLock(r)
      BY <1>1, <1>3, <2>5, ListsApart DEF CallLock, Signs
    <2> QED
      BY <1>1, <1>2, <1>3, <1>4, <2>5, <2>6, <2>7, <2>8, <2>9, ListsApart, HandlerKeeps
  <1> QED
    BY <1>6, <1>7

LEMMA KeepPolicyStep ==
    ASSUME SessInv, NEW q \in Caller, Tab!KeepPolicy(q), UNCHANGED part
    PROVE  SessInv'
  <1>1. PICK n \in Call :
             /\ n = req[q] /\ req[q] # None /\ n.todo # << >> /\ Head(n.todo) = "limits"
             /\ CallOK(n) /\ CallLock(n)
             /\ n.kind \in Signing \cup Asking /\ n.todo \in ListsFor(n.kind)
             /\ \A c : Cutoff(c) => CallFrom(n, c)
    BY AtCall DEF Tab!KeepPolicy
  <1>2. PICK c \in Nat : Cutoff(c)
    BY DEF SessInv
  <1>f. CallFrom(n, c)
    BY <1>1, <1>2
  <1>c. /\ n.at \in DOMAIN cache
        /\ (part = "tab" => n.kind \in Asking) /\ (part = "door" => n.kind \in Signing)
        /\ n.kind \in Asking => n.kind \notin Signing /\ n.token \in TokenSet /\ n.token # None
        /\ cuts \in Nat /\ None # "revoked" /\ user \in UserRow /\ user # None /\ policy \in {0, Limit}
        /\ << >> \in ListsFor(n.kind) /\ << >> \in CallLists
    BY <1>1, CallFacts
  <1>3. /\ n.kind \in Signing /\ n.kind \notin Asking /\ n.todo = FromLimits /\ Tail(n.todo) = FromVerify
        /\ Signs(n)
    BY <1>1, NextOfCall, KindsApart DEF Signs
  <1>l. /\ ListsFor(n.kind) = SignInLists /\ SignInLists \subseteq CallLists
        /\ FromVerify \in SignInLists
    BY <1>3, ListsOfCalls DEF SignInLists
  <1>a. /\ req[q] \in Call /\ CallOK(req[q]) /\ CallLock(req[q]) /\ req[q].kind \in Signing
        /\ req[q].todo \in {FromPolicy, FromLimits} /\ CallFrom(req[q], c)
    BY <1>1, <1>3, <1>f
  <1>5. n.limit \in {0, Limit}
    BY <1>1, <1>3 DEF CallOK
  <1>6. PICK r : r = Tab!Checked(q, n.limit)
    OBVIOUS
  <1>7. r \in Call /\ CallOK(r) /\ CallFrom(r, c) /\ r.kind = n.kind /\ CallLock(r)
    BY <1>1, <1>a, <1>5, <1>6, CheckedCall
  <1>8. /\ Tab!Move(q, r) /\ limits' = [limits EXCEPT ![n.at] = n.limit]
        /\ UNCHANGED <<part, user, policy, cache, admin, tab, now, cuts, failures, mixed>>
    BY <1>1, <1>6 DEF Tab!KeepPolicy, Tab!counts
  <1>9. DOMAIN cache' = DOMAIN cache /\ CacheTypes' /\ CachesUpTo(c)'
    BY <1>2, <1>5, <1>8 DEF SessInv, CacheTypes, Cutoff, CachesUpTo
  <1> QED
    BY <1>1, <1>2, <1>3, <1>7, <1>8, <1>9, ListsApart, HandlerKeeps

\* A request that has a failure to count is one.
LEMMA CountsApart ==
    ASSUME NEW r \in Call, r.kind \in Signing, r.todo = FromCount, NEW u \in UserRow, r.seen = <<u>>
    PROVE  r # None
  <1>1. r.seen \in Seq(UserRow)
    OBVIOUS
  <1>2. r \in [kind : {"login", "elsewhere"}, right : BOOLEAN, at : Replica \cup {None},
               token : TokenSet \cup {None}, load : Nat,
               todo : {<<"count">>}, seen : Seq(UserRow), limit : Nat, status : Nat]
    BY <1>1 DEF Call, Signing, FromCount
  <1> QED
    BY <1>2, SessionAssumption DEF TokenSet, UserRow

\* A sign-in that is on its own answers for the lock alone.
LEMMA AloneLocks ==
    ASSUME SessInv, NEW q \in Caller, req[q] # None, Signs(req[q]), UNCHANGED <<mixed, admin>>,
           \A p \in Caller \ {q} : req'[p] = req[p],
           ~mixed => /\ Agree' /\ CallLock(req[q])'
                     /\ req'[q] = None \/ ~Signs(req[q])' => user'.failed = failures'
    PROVE  LocksHold'
  <1>1. CASE mixed
    BY <1>1 DEF LocksHold, CallLock
  <1>2. CASE ~mixed
    <2>1. \A p \in Caller \ {q} : req[p] # None => ~Signs(req[p])
      BY <1>2 DEF SessInv, LocksHold
    <2>2. \A p \in Caller \ {q} : req'[p] # None => ~Signs(req[p])'
      BY <2>1 DEF Signs
    <2>3. \A p \in Caller \ {q} : req'[p] # None => CallLock(req[p])'
      BY <2>2 DEF CallLock
    <2>4. CASE req'[q] # None
      BY <1>2, <2>2, <2>3, <2>4 DEF LocksHold
    <2>5. CASE req'[q] = None
      BY <1>2, <2>2, <2>3, <2>5 DEF LocksHold
    <2> QED
      BY <2>4, <2>5
  <1> QED
    BY <1>1, <1>2 DEF SessInv, RowTypes

\* A statement of a handler that writes the row, or the count.
LEMMA RowStep ==
    ASSUME SessInv, NEW q \in Caller, NEW r \in Call, Tab!Move(q, r),
           UNCHANGED <<part, policy, cache, limits, admin, tab, now, mixed>>,
           RowTypes', cuts' \in Nat, cuts' >= cuts, CallOK(r)', LocksHold',
           NEW c \in Nat, Cutoff(c), NEW d \in Nat, c <= d, d <= now, user'.after <= d,
           cuts' = cuts => c = d, CallFrom(r, d)'
    PROVE  SessInv'
  <1>1. /\ req' \in [Caller -> Call \cup {None}]
        /\ \A p \in Caller \ {q} : req'[p] = req[p]
        /\ req'[q] \in Call
        /\ req'[q].kind = r.kind /\ req'[q].token = r.token /\ req'[q].load = r.load
        /\ req'[q].todo = r.todo /\ req'[q].seen = r.seen /\ req'[q].limit = r.limit
        /\ req'[q].status = r.status
        /\ r.todo # << >> => req'[q] = r
    BY Landed DEF SessInv
  <1>2. CacheTypes'
    BY DEF SessInv, CacheTypes
  <1>0. cuts \in Nat
    BY DEF SessInv, RowTypes
  <1>3. CallTypes'
    <2>1. CallOK(req[q])'
      BY <1>1 DEF CallOK
    <2>2. ASSUME NEW p \in Caller \ {q}, req[p] # None PROVE CallOK(req[p])'
      <3>1. CallOK(req[p]) /\ req'[p] = req[p]
        BY <1>1, <2>2 DEF SessInv, CallTypes
      <3>2. req[p].todo = << >> /\ req[p].seen = "revoked" => req[p].token.gen < cuts'
        <4>1. CASE req[p].todo = << >> /\ req[p].seen = "revoked"
          <5>1. req[p].token \in TokenSet /\ req[p].token.gen < cuts
            BY <3>1, <4>1 DEF CallOK
          <5>2. req[p].token.gen \in Nat
            BY <5>1 DEF TokenSet
          <5> QED
            BY <1>0, <5>1, <5>2
        <4> QED
          BY <4>1
      <3> QED
        BY <3>1, <3>2 DEF CallOK
    <2> QED
      BY <1>1, <2>1, <2>2 DEF CallTypes
  <1>4. ASSUME NEW t \in TokenSet, SignedFrom(t, c) PROVE SignedFrom(t, d)'
    <2>1. t.gen \in Nat /\ t.iat \in Nat
      BY <1>4, NoneApart DEF TokenSet
    <2> QED
      BY <1>0, <1>4, <2>1 DEF SignedFrom
  <1>5. ASSUME NEW n \in Call, CallOK(n), CallFrom(n, c) PROVE CallFrom(n, d)'
    <2>1. n.token # None => n.token \in TokenSet
      BY DEF Call
    <2>2. n.token # None => SignedFrom(n.token, d)'
      BY <1>4, <1>5, <2>1 DEF CallFrom
    <2>3. n.kind \in Asking /\ n.todo = Cached(n.kind) => n.seen[1].after \in Nat
      <3>1. CASE n.kind \in Asking /\ n.todo = Cached(n.kind)
        <4>1. PICK v \in ViewRow : n.seen = <<v>>
          BY <1>5, <3>1 DEF CallOK
        <4> QED
          BY <4>1 DEF ViewRow
      <3> QED
        BY <3>1
    <2> QED
      BY <1>5, <2>2, <2>3 DEF CallFrom
  <1>6. Cutoff(d)'
    <2>1. CachesUpTo(d)'
      BY DEF Cutoff, CachesUpTo, SessInv, CacheTypes, ViewRow
    <2>2. tab'.token # None => SignedFrom(tab.token, d)'
      <3>1. tab.token # None => tab.token \in TokenSet /\ SignedFrom(tab.token, c)
        BY DEF SessInv, RowTypes, Cutoff
      <3> QED
        BY <1>4, <3>1 DEF SignedFrom
    <2>3. CallFrom(req[q], d)'
      BY <1>1 DEF CallFrom, SignedFrom
    <2>4. ASSUME NEW p \in Caller \ {q}, req'[p] # None PROVE CallFrom(req[p], d)'
      <3>1. req[p] # None /\ req[p] \in Call /\ req'[p] = req[p] /\ CallOK(req[p]) /\ CallFrom(req[p], c)
        BY <1>1, <2>4 DEF SessInv, CallTypes, Cutoff
      <3>2. PICK n : n = req[p]
        OBVIOUS
      <3>3. CallFrom(n, d)'
        BY <1>5, <3>1, <3>2
      <3> QED
        BY <3>1, <3>2, <3>3 DEF CallFrom, SignedFrom
    <2> QED
      BY <2>1, <2>2, <2>3, <2>4 DEF Cutoff
  <1> QED
    BY <1>2, <1>3, <1>6 DEF SessInv

LEMMA UpdateStep ==
    ASSUME SessInv, NEW q \in Caller, Tab!Update(q), UNCHANGED part, part = "tab"
    PROVE  SessInv'
  <1>1. PICK n \in Call :
             /\ n = req[q] /\ req[q] # None /\ n.todo # << >> /\ Head(n.todo) = "update"
             /\ CallOK(n) /\ CallLock(n)
             /\ n.kind \in Signing \cup Asking /\ n.todo \in ListsFor(n.kind)
             /\ \A c : Cutoff(c) => CallFrom(n, c)
    BY AtCall DEF Tab!Update
  <1>2. PICK c \in Nat : Cutoff(c)
    BY DEF SessInv
  <1>f. CallFrom(n, c)
    BY <1>1, <1>2
  <1>c. /\ n.at \in DOMAIN cache
        /\ (part = "tab" => n.kind \in Asking) /\ (part = "door" => n.kind \in Signing)
        /\ n.kind \in Asking => n.kind \notin Signing /\ n.token \in TokenSet /\ n.token # None
        /\ cuts \in Nat /\ None # "revoked" /\ user \in UserRow /\ user # None /\ policy \in {0, Limit}
        /\ << >> \in ListsFor(n.kind) /\ << >> \in CallLists
    BY <1>1, CallFacts
  <1>3. /\ n.kind \in Asking /\ n.kind = "change" /\ n.todo = FromUpdate /\ Tail(n.todo) = FromBust
        /\ n.seen = None
    BY <1>1, NextOfCall, ListsApart DEF CallOK
  <1>l. FromBust \in ListsFor(n.kind) /\ FromBust \in CallLists
    BY <1>3, ListsOfCalls
  <1>4. /\ user' = [user EXCEPT !.must = FALSE, !.after = now] /\ cuts' = cuts + 1
        /\ UNCHANGED <<part, policy, cache, limits, admin, tab, now, failures, mixed>>
    BY <1>c DEF Tab!Update
  <1>5. PICK r : r = Tab!To(q, FromBust, 200)
    OBVIOUS
  <1>6. /\ r \in Call /\ r.todo = FromBust /\ r.status = 200 /\ r.kind = n.kind /\ r.at = n.at
        /\ r.token = n.token /\ r.seen = None
    BY <1>1, <1>3, <1>l, <1>5, Went
  <1>7. Tab!Move(q, r)
    BY <1>1, <1>3, <1>5 DEF Tab!Update, Tab!Done
  <1>8. now \in Nat /\ c <= now
    BY <1>2, NoneApart DEF SessInv, RowTypes, Cutoff
  <1>9. /\ user' \in UserRow /\ user'.after = now /\ user'.failed = user.failed
        /\ user'.until = user.until
    BY <1>c, <1>4, <1>8 DEF UserRow
  <1>10. RowTypes'
    BY <1>c, <1>4, <1>8, <1>9 DEF SessInv, RowTypes
  <1>11. CallOK(r)'
    <2>1. /\ r.todo \notin {<< >>, Cached(r.kind), FromPolicy, FromLimits, FromVerify, FromCount}
          /\ r.todo \in ListsFor(r.kind) /\ r.kind \in Asking /\ r.kind \notin Signing
          /\ DOMAIN cache' = DOMAIN cache
      <3>1. /\ FromBust \notin {FromPolicy, FromLimits, FromVerify, FromCount}
            /\ FromBust # << >> /\ FromBust # Cached(n.kind)
        BY <1>l, <1>3, ListsApart
      <3> QED
        BY <1>c, <1>l, <1>3, <1>4, <1>6, <3>1
    <2> QED
      BY <1>c, <1>3, <1>4, <1>6, <2>1 DEF CallOK
  <1>12. CallFrom(r, now)'
    <2>1. n.token.gen \in Nat /\ n.token.gen <= cuts
      BY <1>c, <1>3, <1>f DEF CallFrom, SignedFrom, TokenSet
    <2>2. FromBust # Cached(n.kind)
      BY <1>3, ListsApart
    <2> QED
      BY <1>c, <1>4, <1>6, <2>1, <2>2 DEF CallFrom, SignedFrom
  <1>13. LocksHold'
    <2>1. \A p \in Caller : req[p] # None => ~Signs(req[p])
      BY KindsApart DEF SessInv, CallTypes, CallOK, Signs
    <2>2. \A p \in Caller \ {q} : req'[p] = req[p]
      BY <1>6, <1>7, Landed DEF SessInv
    <2>3. req'[q].kind = "change"
      BY <1>3, <1>6, <1>7, Landed DEF SessInv
    <2>4. \A p \in Caller : req'[p] # None => ~Signs(req[p])'
      BY <2>1, <2>2, <2>3 DEF Signs, Signing
    <2> QED
      BY <1>4, <1>9, <2>1, <2>4 DEF SessInv, LocksHold, Agree, CallLock
  <1> QED
    BY <1>2, <1>4, <1>6, <1>7, <1>8, <1>9, <1>10, <1>11, <1>12, <1>13, <1>c, RowStep

LEMMA VerifyStep ==
    ASSUME SessInv, NEW q \in Caller, Tab!Verify(q), UNCHANGED part
    PROVE  SessInv'
  <1>1. PICK n \in Call :
             /\ n = req[q] /\ req[q] # None /\ n.todo # << >> /\ Head(n.todo) = "verify"
             /\ CallOK(n) /\ CallLock(n)
             /\ n.kind \in Signing \cup Asking /\ n.todo \in ListsFor(n.kind)
             /\ \A c : Cutoff(c) => CallFrom(n, c)
    BY AtCall DEF Tab!Verify
  <1>2. PICK c \in Nat : Cutoff(c)
    BY DEF SessInv
  <1>f. CallFrom(n, c)
    BY <1>1, <1>2
  <1>c. /\ n.at \in DOMAIN cache
        /\ (part = "tab" => n.kind \in Asking) /\ (part = "door" => n.kind \in Signing)
        /\ n.kind \in Asking => n.kind \notin Signing /\ n.token \in TokenSet /\ n.token # None
        /\ cuts \in Nat /\ None # "revoked" /\ user \in UserRow /\ user # None /\ policy \in {0, Limit}
        /\ << >> \in ListsFor(n.kind) /\ << >> \in CallLists
    BY <1>1, CallFacts
  <1>3. /\ n.kind \in Signing /\ n.kind \notin Asking /\ n.todo = FromVerify /\ Tail(n.todo) = << >>
        /\ Signs(n) /\ Signs(req[q])
    BY <1>1, NextOfCall, KindsApart DEF Signs
  <1>l. ListsFor(n.kind) = SignInLists /\ SignInLists \subseteq CallLists
    BY <1>3, ListsOfCalls
  <1>4. /\ UNCHANGED <<part, user, policy, cache, limits, admin, tab, now, cuts, mixed>>
        /\ CacheTypes' /\ CachesUpTo(c)' /\ RowTypes
    BY <1>2 DEF Tab!Verify, SessInv, CacheTypes, Cutoff, CachesUpTo
  <1>5. n.limit \in {0, Limit} /\ (n.seen = << >> \/ \E u \in UserRow : n.seen = <<u>>)
    BY <1>1, <1>3 DEF CallOK
  <1>6. CASE n.seen # << >> /\ n.right
    <2>1. PICK e : e = Tab!To(q, FromClear, 200)
      OBVIOUS
    <2>2. /\ e \in Call /\ e.todo = FromClear /\ e.kind = n.kind /\ e.at = n.at /\ e.token = n.token
      BY <1>1, <1>l, <2>1, Went DEF SignInLists
    <2>3. PICK r : r = [e EXCEPT !.seen = None]
      OBVIOUS
    <2>4. /\ r \in Call /\ r.todo = FromClear /\ r.kind = n.kind /\ r.at = n.at /\ r.token = n.token
      BY <2>2, <2>3, WithSeen, SeenValues
    <2>5. Tab!Move(q, r) /\ failures' = failures
      BY <1>1, <1>6, <2>1, <2>3 DEF Tab!Verify, FromClear
    <2>6. CallOK(r)
      BY <1>c, <1>l, <1>3, <2>4, ListsApart DEF CallOK, SignInLists
    <2>7. CallFrom(r, c)
      BY <1>f, <1>3, <2>4 DEF CallFrom
    <2>8. CallLock(r)
      BY <1>1, <1>3, <2>4, ListsApart DEF CallLock, Signs
    <2> QED
      BY <1>1, <1>2, <1>3, <1>4, <2>4, <2>5, <2>6, <2>7, <2>8, ListsApart, HandlerKeeps
  <1>7. CASE ~(n.seen # << >> /\ n.right) /\ ~(n.seen # << >> /\ ~n.right /\ n.limit > 0)
    <2>1. PICK r : r = Tab!End(q, 401)
      OBVIOUS
    <2>2. /\ r \in Call /\ r.todo = << >> /\ r.status = 401 /\ r.seen = None /\ r.kind = n.kind
          /\ r.token = n.token
      BY <1>1, <2>1, Ended
    <2>3. Tab!Move(q, r) /\ failures' = failures
      BY <1>1, <1>7, <2>1 DEF Tab!Verify
    <2>4. CallOK(r)
      BY <1>c, <2>2, ListsApart DEF CallOK
    <2>5. CallFrom(r, c) /\ CallLock(r)
      BY <1>f, <1>3, <2>2 DEF CallFrom, CallLock, Signs
    <2> QED
      BY <1>1, <1>2, <1>3, <1>4, <2>2, <2>3, <2>4, <2>5, ListsApart, HandlerKeeps
  <1>8. CASE n.seen # << >> /\ ~n.right /\ n.limit > 0
    <2>1. PICK r : r = Tab!To(q, FromCount, 401)
      OBVIOUS
    <2>2. /\ r \in Call /\ r.todo = FromCount /\ r.kind = n.kind /\ r.at = n.at /\ r.token = n.token
          /\ r.seen = n.seen /\ r.limit = n.limit
      BY <1>1, <1>l, <2>1, Went DEF SignInLists
    <2>3. Tab!Move(q, r) /\ failures' = failures + 1
      BY <1>1, <1>8, <1>c, <2>1 DEF Tab!Verify, FromCount
    <2>4. n.limit = Limit /\ \E u \in UserRow : n.seen = <<u>>
      BY <1>5, <1>8
    <2>5. CallOK(r)'
      BY <1>c, <1>l, <1>3, <1>4, <2>2, <2>4, ListsApart DEF CallOK, SignInLists
    <2>6. CallFrom(r, c)'
      BY <1>f, <1>3, <1>4, <2>2 DEF CallFrom, SignedFrom
    <2>7. RowTypes'
      BY <1>4, <2>3 DEF RowTypes
    <2>8. /\ \A p \in Caller \ {q} : req'[p] = req[p]
          /\ req'[q] = r /\ req'[q] # None
      <3>1. \A p \in Caller \ {q} : req'[p] = req[p]
        BY <2>2, <2>3, Landed DEF SessInv
      <3>2. req'[q] = r
        BY <1>1, <2>2, <2>3, Landed, ListsApart, SignInWork DEF SessInv
      <3>3. r # None
        BY <1>1, <1>3, <2>2, <2>4, CountsApart
      <3> QED
        BY <3>1, <3>2, <3>3
    <2>9. ~mixed => Agree' /\ CallLock(req[q])'
      BY <1>1, <1>3, <1>4, <1>8, <2>2, <2>3, <2>8, ListsApart
      DEF CallLock, Signs, SessInv, LocksHold, Agree
    <2>10. Signs(req[q])'
      BY <1>3, <2>2, <2>8, ListsApart DEF Signs
    <2>11. LocksHold'
      BY <1>1, <1>3, <1>4, <2>8, <2>9, <2>10, AloneLocks
    <2>12. c <= now /\ user.after <= c /\ now \in Nat
      BY <1>2, NoneApart DEF Cutoff, SessInv, RowTypes
    <2> QED
      BY <1>2, <1>4, <1>c, <2>2, <2>3, <2>5, <2>6, <2>7, <2>11, <2>12, RowStep
  <1> QED
    BY <1>6, <1>7, <1>8

LEMMA CountStep ==
    ASSUME SessInv, NEW q \in Caller, Tab!Count(q), UNCHANGED part
    PROVE  SessInv'
  <1>1. PICK n \in Call :
             /\ n = req[q] /\ req[q] # None /\ n.todo # << >> /\ Head(n.todo) = "count"
             /\ CallOK(n) /\ CallLock(n)
             /\ n.kind \in Signing \cup Asking /\ n.todo \in ListsFor(n.kind)
             /\ \A c : Cutoff(c) => CallFrom(n, c)
    BY AtCall DEF Tab!Count
  <1>2. PICK c \in Nat : Cutoff(c)
    BY DEF SessInv
  <1>f. CallFrom(n, c)
    BY <1>1, <1>2
  <1>c. /\ n.at \in DOMAIN cache
        /\ (part = "tab" => n.kind \in Asking) /\ (part = "door" => n.kind \in Signing)
        /\ cuts \in Nat /\ None # "revoked" /\ user \in UserRow /\ user # None /\ policy \in {0, Limit}
        /\ << >> \in ListsFor(n.kind) /\ << >> \in CallLists
    BY <1>1, CallFacts
  <1>3. /\ n.kind \in Signing /\ n.kind \notin Asking /\ n.todo = FromCount
        /\ Signs(n) /\ Signs(req[q])
    BY <1>1, NextOfCall, KindsApart DEF Signs
  <1>4. PICK u \in UserRow : n.seen = <<u>> /\ n.limit = Limit
    BY <1>1, <1>3 DEF CallOK
  <1>5. n.seen[1] = u /\ u.failed \in Nat
    BY <1>4 DEF UserRow
  <1>6. /\ user' = [user EXCEPT !.failed = u.failed + 1,
                                !.until = IF u.failed + 1 >= Limit THEN now + LockTime ELSE user.until]
        /\ UNCHANGED <<part, policy, cache, limits, admin, tab, now, cuts, failures, mixed>>
    BY <1>1, <1>c, <1>4, <1>5 DEF Tab!Count, Tab!counts
  <1>7. /\ c <= now /\ user.after <= c /\ now \in Nat /\ user.until \in Nat /\ user.failed \in Nat
        /\ Limit \in Nat /\ LockTime \in Nat /\ LockTime > 0
    BY <1>2, <1>c, NoneApart DEF Cutoff, SessInv, RowTypes, UserRow
  <1>8. /\ user' \in UserRow /\ user'.after = user.after /\ user'.failed = u.failed + 1
        /\ user'.until = IF u.failed + 1 >= Limit THEN now + LockTime ELSE user.until
    <2>1. PICK x : x = IF u.failed + 1 >= Limit THEN now + LockTime ELSE user.until
      OBVIOUS
    <2>2. x \in Nat /\ u.failed + 1 \in Nat
      BY <2>1, <1>5, <1>7
    <2>3. user' = [user EXCEPT !.failed = u.failed + 1, !.until = x]
      BY <2>1, <1>6
    <2> QED
      BY <1>c, <2>1, <2>2, <2>3 DEF UserRow
  <1>9. PICK r : r = Tab!End(q, 401)
    OBVIOUS
  <1>10. /\ r \in Call /\ r.todo = << >> /\ r.status = 401 /\ r.seen = None /\ r.kind = n.kind
         /\ r.token = n.token
    BY <1>1, <1>9, Ended
  <1>11. Tab!Move(q, r)
    BY <1>9 DEF Tab!Count
  <1>12. CallOK(r)'
    BY <1>c, <1>3, <1>6, <1>10, ListsApart DEF CallOK
  <1>13. CallFrom(r, c)'
    BY <1>f, <1>3, <1>6, <1>10 DEF CallFrom, SignedFrom
  <1>14. RowTypes'
    BY <1>6, <1>8 DEF SessInv, RowTypes
  <1>15. LocksHold'
    <2>1. ~mixed => u = user /\ failures = user.failed + 1 /\ Agree
      BY <1>1, <1>3, <1>4 DEF CallLock, SessInv, LocksHold
    <2>2. ~mixed => user'.failed = failures'
      BY <2>1, <1>6, <1>8
    <2>3. ~mixed => Agree'
      BY <2>1, <1>7, <1>8 DEF Agree
    <2>4. \A p \in Caller \ {q} : req'[p] = req[p]
      BY <1>10, <1>11, Landed DEF SessInv
    <2>5. req'[q].todo = << >>
      BY <1>10, <1>11, Landed DEF SessInv
    <2>6. CallLock(req[q])' /\ ~Signs(req[q])'
      BY <2>5 DEF CallLock, Signs
    <2> QED
      BY <1>1, <1>3, <1>6, <2>2, <2>3, <2>4, <2>6, AloneLocks
  <1> QED
    BY <1>2, <1>6, <1>7, <1>8, <1>10, <1>11, <1>12, <1>13, <1>14, <1>15, <1>c, RowStep

LEMMA ClearStep ==
    ASSUME SessInv, NEW q \in Caller, NEW expired \in BOOLEAN, Tab!Clear(q, expired), UNCHANGED part
    PROVE  SessInv'
  <1>1. PICK n \in Call :
             /\ n = req[q] /\ req[q] # None /\ n.todo # << >> /\ Head(n.todo) = "clear"
             /\ CallOK(n) /\ CallLock(n)
             /\ n.kind \in Signing \cup Asking /\ n.todo \in ListsFor(n.kind)
             /\ \A c : Cutoff(c) => CallFrom(n, c)
    BY AtCall DEF Tab!Clear
  <1>2. PICK c \in Nat : Cutoff(c)
    BY DEF SessInv
  <1>c. /\ n.at \in DOMAIN cache
        /\ (part = "tab" => n.kind \in Asking) /\ (part = "door" => n.kind \in Signing)
        /\ cuts \in Nat /\ None # "revoked" /\ user \in UserRow /\ user # None /\ policy \in {0, Limit}
        /\ << >> \in ListsFor(n.kind) /\ << >> \in CallLists
    BY <1>1, CallFacts
  <1>3. /\ n.kind \in Signing /\ n.kind \notin Asking /\ n.todo = FromClear
        /\ Signs(n) /\ Signs(req[q])
    BY <1>1, NextOfCall, KindsApart DEF Signs
  <1>4. /\ user' = [user EXCEPT !.failed = 0, !.until = 0, !.must = user.must \/ expired]
        /\ failures' = 0
        /\ UNCHANGED <<part, policy, cache, limits, admin, tab, now, cuts, mixed>>
    BY <1>c DEF Tab!Clear
  <1>5. /\ c <= now /\ user.after <= c /\ now \in Nat /\ now \in 0..MaxTime
        /\ Limit \in Nat /\ Limit > 0
    BY <1>2, NoneApart DEF Cutoff, SessInv, RowTypes
  <1>6. /\ user' \in UserRow /\ user'.after = user.after /\ user'.failed = 0 /\ user'.until = 0
    <2>1. (user.must \/ expired) \in BOOLEAN
      OBVIOUS
    <2> QED
      BY <1>c, <1>4, <2>1 DEF UserRow
  <1>7. PICK e : e = Tab!End(q, 200)
    OBVIOUS
  <1>8. /\ e \in Call /\ e.todo = << >> /\ e.status = 200 /\ e.seen = None /\ e.kind = n.kind
    BY <1>1, <1>7, Ended
  <1>9. PICK t : t = [iat |-> now, gen |-> cuts]
    OBVIOUS
  <1>10. t \in TokenSet /\ t.iat = now /\ t.gen = cuts
    BY <1>9, <1>5, <1>c DEF TokenSet
  <1>11. PICK r : r = [e EXCEPT !.token = t]
    OBVIOUS
  <1>12. /\ r \in Call /\ r.todo = << >> /\ r.status = 200 /\ r.seen = None /\ r.kind = n.kind
         /\ r.token = t
    BY <1>8, <1>10, <1>11, WithToken
  <1>13. Tab!Move(q, r)
    BY <1>7, <1>9, <1>11 DEF Tab!Clear
  <1>14. CallOK(r)'
    BY <1>c, <1>3, <1>4, <1>10, <1>12, ListsApart DEF CallOK, Signing, Asking
  <1>15. CallFrom(r, c)'
    BY <1>c, <1>3, <1>4, <1>5, <1>10, <1>12 DEF CallFrom, SignedFrom
  <1>16. RowTypes'
    BY <1>4, <1>6, <1>5 DEF SessInv, RowTypes
  <1>17. LocksHold'
    <2>1. user'.failed = failures' /\ Agree'
      BY <1>4, <1>5, <1>6 DEF Agree
    <2>2. \A p \in Caller \ {q} : req'[p] = req[p]
      BY <1>12, <1>13, Landed DEF SessInv
    <2>3. req'[q].todo = << >>
      BY <1>12, <1>13, Landed DEF SessInv
    <2>4. CallLock(req[q])' /\ ~Signs(req[q])'
      BY <2>3 DEF CallLock, Signs
    <2> QED
      BY <1>1, <1>3, <1>4, <2>1, <2>2, <2>4, AloneLocks
  <1> QED
    BY <1>2, <1>4, <1>5, <1>6, <1>12, <1>13, <1>14, <1>15, <1>16, <1>17, <1>c, RowStep

-----------------------------------------------------------------------------
\* A request that nobody touches stays what it is, whatever the rows do meanwhile.
LEMMA CallStays ==
    ASSUME SessInv, NEW c \in Nat, Cutoff(c), NEW d \in Nat, c <= d,
           cuts' \in Nat, cuts' >= cuts, cuts' = cuts => c = d,
           UNCHANGED part, DOMAIN cache' = DOMAIN cache,
           NEW p \in Caller, req[p] # None, req'[p] = req[p]
    PROVE  CallOK(req[p])' /\ CallFrom(req[p], d)'
  <1>0. /\ cuts \in Nat /\ req[p] \in Call /\ CallOK(req[p]) /\ CallFrom(req[p], c)
    BY DEF SessInv, RowTypes, CallTypes, Cutoff, CallOK
  <1>1. req[p].todo = << >> /\ req[p].seen = "revoked" => req[p].token.gen < cuts'
    <2>1. CASE req[p].todo = << >> /\ req[p].seen = "revoked"
      <3>1. req[p].token \in TokenSet /\ req[p].token.gen < cuts
        BY <1>0, <2>1 DEF CallOK
      <3>2. req[p].token.gen \in Nat
        BY <3>1 DEF TokenSet
      <3> QED
        BY <1>0, <3>1, <3>2
    <2> QED
      BY <2>1
  <1>2. CallOK(req[p])'
    BY <1>0, <1>1 DEF CallOK
  <1>3. req[p].token # None => SignedFrom(req[p].token, d)'
    <2>1. CASE req[p].token # None
      <3>1. req[p].token \in TokenSet /\ SignedFrom(req[p].token, c)
        BY <1>0, <2>1 DEF Call, CallFrom
      <3>2. req[p].token.gen \in Nat
        BY <3>1 DEF TokenSet
      <3> QED
        BY <1>0, <3>1, <3>2 DEF SignedFrom
    <2> QED
      BY <2>1
  <1>4. req[p].kind \in Asking /\ req[p].todo = Cached(req[p].kind) => req[p].seen[1].after <= d
    <2>1. CASE req[p].kind \in Asking /\ req[p].todo = Cached(req[p].kind)
      <3>1. PICK v \in ViewRow : req[p].seen = <<v>>
        BY <1>0, <2>1 DEF CallOK
      <3>2. v.after \in Nat /\ v.after <= c
        BY <1>0, <2>1, <3>1 DEF ViewRow, CallFrom
      <3> QED
        BY <3>1, <3>2
    <2> QED
      BY <2>1
  <1>5. CallFrom(req[p], d)'
    BY <1>3, <1>4 DEF CallFrom, SignedFrom
  <1> QED
    BY <1>2, <1>5

\* The rows, the clock and what is cached, beside the requests and the tab.
LEMMA BesideCalls ==
    ASSUME SessInv, UNCHANGED <<part, req, tab>>, RowTypes', CacheTypes', DOMAIN cache' = DOMAIN cache,
           NEW c \in Nat, Cutoff(c), NEW d \in Nat, c <= d, d <= now', user'.after <= d,
           cuts' \in Nat, cuts' >= cuts, cuts' = cuts => c = d, CachesUpTo(d)', LocksHold'
    PROVE  SessInv'
  <1>1. \A p \in Caller : req[p] # None => CallOK(req[p])' /\ CallFrom(req[p], d)'
    BY CallStays
  <1>2. CallTypes'
    BY <1>1 DEF SessInv, CallTypes
  <1>3. tab.token # None => SignedFrom(tab.token, d)'
    <2>1. CASE tab.token # None
      <3>1. tab.token \in TokenSet /\ SignedFrom(tab.token, c)
        BY <2>1 DEF SessInv, RowTypes, Cutoff
      <3>2. tab.token.gen \in Nat /\ cuts \in Nat
        BY <3>1 DEF TokenSet, SessInv, RowTypes
      <3> QED
        BY <3>1, <3>2 DEF SignedFrom
    <2> QED
      BY <2>1
  <1>4. Cutoff(d)'
    BY <1>1, <1>3 DEF Cutoff, SignedFrom
  <1> QED
    BY <1>2, <1>4 DEF SessInv

\* The browser, beside the rows: it may take an answer, and have another token.
LEMMA BrowserKeeps ==
    ASSUME SessInv, UNCHANGED <<part, user, policy, cache, limits, admin, now, cuts, failures, mixed>>,
           req' \in [Caller -> Call \cup {None}], \A p \in Caller : req'[p] \in {req[p], None},
           \A p \in Caller : req[p] # None /\ Signs(req[p]) => req'[p] = req[p],
           RowTypes', NEW c \in Nat, Cutoff(c),
           tab'.token # None => SignedFrom(tab'.token, c)
    PROVE  SessInv'
  <1>1. cuts \in Nat /\ CacheTypes'
    BY DEF SessInv, RowTypes, CacheTypes
  <1>2. \A p \in Caller : req'[p] # None => CallOK(req[p])' /\ CallFrom(req[p], c)'
    BY <1>1, CallStays
  <1>3. CallTypes'
    BY <1>2 DEF CallTypes
  <1>4. Cutoff(c)'
    BY <1>2 DEF Cutoff, SignedFrom, CachesUpTo
  <1>5. \A p \in Caller : req'[p] # None => req'[p] = req[p]
    OBVIOUS
  <1>6. \A p \in Caller : req'[p] # None => CallLock(req[p])'
    <2>1. ASSUME NEW p \in Caller, req'[p] # None PROVE CallLock(req[p])'
      <3>1. CallLock(req[p]) /\ req'[p] = req[p]
        BY <1>5, <2>1 DEF SessInv, LocksHold
      <3> QED
        BY <3>1 DEF CallLock, Signs
    <2> QED
      BY <2>1
  <1>7. ~mixed /\ (\A p \in Caller : req'[p] # None => ~Signs(req[p])') => user.failed = failures
    <2>1. (\A p \in Caller : req'[p] # None => ~Signs(req[p])')
            => \A p \in Caller : req[p] # None => ~Signs(req[p])
      BY <1>5 DEF Signs
    <2> QED
      BY <2>1 DEF SessInv, LocksHold
  <1>8. ~mixed => \A p, o \in Caller :
            req'[p] # None /\ req'[o] # None /\ Signs(req[p])' /\ Signs(req[o])' => p = o
    BY <1>5 DEF SessInv, LocksHold, Signs
  <1>9. LocksHold'
    BY <1>6, <1>7, <1>8 DEF SessInv, LocksHold, Agree
  <1> QED
    BY <1>1, <1>3, <1>4, <1>9 DEF SessInv

\* A request is sent.
LEMMA NewCall ==
    ASSUME SessInv, NEW q \in Caller, NEW n \in Call, req[q] = None, req' = [req EXCEPT ![q] = n],
           UNCHANGED <<part, user, policy, cache, limits, admin, tab, now, cuts, failures>>,
           CallOK(n), NEW c \in Nat, Cutoff(c), CallFrom(n, c),
           mixed' \in BOOLEAN, mixed => mixed', Signs(n) => n.todo = FromRow,
           ~mixed' /\ Signs(n) => /\ admin.todo = << >>
                                  /\ \A p \in Caller : req[p] # None => ~Signs(req[p])
    PROVE  SessInv'
  <1>1. cuts \in Nat /\ CacheTypes' /\ RowTypes'
    BY DEF SessInv, RowTypes, CacheTypes
  <1>2. /\ req \in [Caller -> Call \cup {None}] /\ req' \in [Caller -> Call \cup {None}]
        /\ req'[q] = n /\ \A p \in Caller \ {q} : req'[p] = req[p]
    BY DEF SessInv, CallTypes
  <1>3. \A p \in Caller \ {q} : req'[p] # None => CallOK(req[p])' /\ CallFrom(req[p], c)'
    BY <1>1, <1>2, CallStays
  <1>4. CallOK(req[q])' /\ CallFrom(req[q], c)'
    BY <1>2 DEF CallOK, CallFrom, SignedFrom
  <1>5. CallTypes'
    BY <1>2, <1>3, <1>4 DEF CallTypes
  <1>6. Cutoff(c)'
    BY <1>2, <1>3, <1>4 DEF Cutoff, SignedFrom, CachesUpTo
  <1>7. ~mixed' => ~mixed
    BY DEF SessInv, RowTypes
  <1>8. ASSUME ~mixed', Signs(n)
        PROVE  /\ user.failed = failures /\ admin.todo = << >> /\ n.todo = FromRow
               /\ \A p \in Caller : req[p] # None => ~Signs(req[p])
    BY <1>7, <1>8 DEF SessInv, LocksHold
  <1>9. CallLock(req[q])'
    BY <1>2, <1>8, ListsApart DEF CallLock, Signs
  <1>10. \A p \in Caller : req'[p] # None => CallLock(req[p])'
    <2>1. ASSUME NEW p \in Caller \ {q}, req'[p] # None PROVE CallLock(req[p])'
      <3>1. CallLock(req[p]) /\ req'[p] = req[p]
        BY <1>2, <2>1 DEF SessInv, LocksHold
      <3> QED
        BY <1>7, <3>1 DEF CallLock, Signs
    <2> QED
      BY <1>9, <2>1
  <1>11. ~mixed' => \A p, o \in Caller :
            req'[p] # None /\ req'[o] # None /\ Signs(req[p])' /\ Signs(req[o])' => p = o
    <2>1. CASE Signs(n)
      BY <1>2, <1>8, <2>1 DEF Signs
    <2>2. CASE ~Signs(n)
      BY <1>2, <1>7, <2>2 DEF SessInv, LocksHold, Signs
    <2> QED
      BY <2>1, <2>2
  <1>12. ~mixed' /\ (\A p \in Caller : req'[p] # None => ~Signs(req[p])') => user.failed = failures
    <2>1. (\A p \in Caller : req'[p] # None => ~Signs(req[p])')
            => \A p \in Caller : req[p] # None => ~Signs(req[p])
      BY <1>2 DEF Signs
    <2> QED
      BY <1>7, <2>1 DEF SessInv, LocksHold
  <1>13. ~mixed' => Agree'
    BY <1>7 DEF SessInv, LocksHold, Agree
  <1>14. LocksHold'
    BY <1>10, <1>11, <1>12, <1>13 DEF LocksHold
  <1> QED
    BY <1>1, <1>5, <1>6, <1>14 DEF SessInv

\* The door is the same code as the tab: its instance takes other edits and requests.
LEMMA DoorIsTab ==
    ASSUME NEW q
    PROVE  /\ Door!Handle(q) => Tab!Handle(q)
           /\ Door!Arrives(q) => Tab!Arrives(q)
           /\ \A op : Door!EditUser(op) => Tab!EditUser(op)
           /\ Door!EditPolicy => Tab!EditPolicy
           /\ Door!Forget => Tab!Forget
           /\ \A r : Door!Expire(r) => Tab!Expire(r)
           /\ \A r : Door!ExpirePolicy(r) => Tab!ExpirePolicy(r)
           /\ Door!Tick => Tab!Tick
  <1>1. \A x : Door!Move(q, x) <=> Tab!Move(q, x)
    BY DEF Door!Move, Tab!Move
  <1>2. \A s : Door!End(q, s) = Tab!End(q, s)
    BY DEF Door!End, Tab!End, Door!To, Tab!To
  <1>3. Door!Done(q) = Tab!Done(q)
    BY DEF Door!Done, Tab!Done, Door!To, Tab!To
  <1>4. \A t, s : Door!To(q, t, s) = Tab!To(q, t, s)
    BY DEF Door!To, Tab!To
  <1>5. \A v : Door!Judged(q, v) = Tab!Judged(q, v)
    BY <1>2, <1>3 DEF Door!Judged, Tab!Judged, Door!Revoked, Tab!Revoked
  <1>6. \A op : Door!At(q, op) <=> Tab!At(q, op)
    BY DEF Door!At, Tab!At
  <1>7. \A x : Door!Checked(q, x) = Tab!Checked(q, x)
    BY <1>2, <1>3 DEF Door!Checked, Tab!Checked, Door!Locked, Tab!Locked
  <1>8. \A u : Door!View(u) = Tab!View(u)
    BY DEF Door!View, Tab!View
  <1>9. Door!counts = Tab!counts
    BY DEF Door!counts, Tab!counts
  <1>10. Door!Authenticate(q) => Tab!Authenticate(q)
    BY <1>1, <1>4, <1>5, <1>6, <1>8, <1>9 DEF Door!Authenticate, Tab!Authenticate, Door!counts, Tab!counts
  <1>11. Door!KeepView(q) => Tab!KeepView(q)
    BY <1>1, <1>5, <1>6 DEF Door!KeepView, Tab!KeepView, Door!counts, Tab!counts
  <1>12. Door!Profile(q) => Tab!Profile(q)
    BY <1>1, <1>3, <1>6 DEF Door!Profile, Tab!Profile, Door!counts, Tab!counts
  <1>13. Door!Reread(q) => Tab!Reread(q)
    BY <1>1, <1>2, <1>3, <1>6 DEF Door!Reread, Tab!Reread, Door!counts, Tab!counts
  <1>14. \A a : Door!Compare(q, a) => Tab!Compare(q, a)
    BY <1>1, <1>2, <1>3, <1>6 DEF Door!Compare, Tab!Compare
  <1>15. Door!Update(q) => Tab!Update(q)
    BY <1>1, <1>3, <1>6 DEF Door!Update, Tab!Update
  <1>16. Door!Bust(q) => Tab!Bust(q)
    BY <1>1, <1>3, <1>6 DEF Door!Bust, Tab!Bust, Door!counts, Tab!counts
  <1>17. Door!SignFresh(q) => Tab!SignFresh(q)
    BY <1>1, <1>3, <1>6 DEF Door!SignFresh, Tab!SignFresh, Door!counts, Tab!counts
  <1>18. Door!ReadUser(q) => Tab!ReadUser(q)
    BY <1>1, <1>3, <1>6 DEF Door!ReadUser, Tab!ReadUser, Door!counts, Tab!counts
  <1>19. Door!AskPolicy(q) => Tab!AskPolicy(q)
    BY <1>1, <1>4, <1>6, <1>7 DEF Door!AskPolicy, Tab!AskPolicy, Door!counts, Tab!counts
  <1>20. Door!KeepPolicy(q) => Tab!KeepPolicy(q)
    BY <1>1, <1>6, <1>7 DEF Door!KeepPolicy, Tab!KeepPolicy, Door!counts, Tab!counts
  <1>21. Door!Verify(q) => Tab!Verify(q)
    BY <1>1, <1>2, <1>4, <1>6 DEF Door!Verify, Tab!Verify
  <1>22. Door!Count(q) => Tab!Count(q)
    BY <1>1, <1>2, <1>6 DEF Door!Count, Tab!Count, Door!counts, Tab!counts
  <1>23. \A e : Door!Clear(q, e) => Tab!Clear(q, e)
    BY <1>1, <1>2, <1>6 DEF Door!Clear, Tab!Clear
  <1>24. Door!Handle(q) => Tab!Handle(q)
    BY <1>10, <1>11, <1>12, <1>13, <1>14, <1>15, <1>16, <1>17, <1>18, <1>19, <1>20, <1>21, <1>22, <1>23
    DEF Door!Handle, Tab!Handle
  <1>25. Door!Arrives(q) => Tab!Arrives(q)
    BY DEF Door!Arrives, Tab!Arrives, Door!Settled, Tab!Settled, Door!Idle, Tab!Idle,
           Door!Gone, Tab!Gone, Door!Rejected, Tab!Rejected, Door!Reloaded, Tab!Reloaded,
           Door!Failed, Tab!Failed, Door!Accepted, Tab!Accepted, Door!counts, Tab!counts
  <1>26. \A op : Door!NextEdit(op) <=> Tab!NextEdit(op)
    BY DEF Door!NextEdit, Tab!NextEdit
  <1>27. \A op : Door!EditUser(op) => Tab!EditUser(op)
    BY <1>26 DEF Door!EditUser, Tab!EditUser, Door!Edited, Tab!Edited
  <1>28. (Door!EditPolicy => Tab!EditPolicy) /\ (Door!Forget => Tab!Forget)
    BY <1>26 DEF Door!EditPolicy, Tab!EditPolicy, Door!Forget, Tab!Forget, Door!counts, Tab!counts
  <1>29. /\ \A r : Door!Expire(r) => Tab!Expire(r)
         /\ \A r : Door!ExpirePolicy(r) => Tab!ExpirePolicy(r)
         /\ Door!Tick => Tab!Tick
    BY DEF Door!Expire, Tab!Expire, Door!ExpirePolicy, Tab!ExpirePolicy, Door!Tick, Tab!Tick,
           Door!counts, Tab!counts
  <1> QED
    BY <1>24, <1>25, <1>27, <1>28, <1>29

\* Update belongs to the tab alone: no request of the door is a change of password.
LEMMA HandleStep ==
    ASSUME SessInv, NEW q \in Caller, Tab!Handle(q), UNCHANGED part, part \in {"tab", "door"}
    PROVE  SessInv'
  <1>1. CASE Tab!Update(q)
    <2>1. part = "tab"
      <3>1. PICK n \in Call :
               /\ n = req[q] /\ req[q] # None /\ n.todo # << >> /\ Head(n.todo) = "update"
               /\ CallOK(n) /\ CallLock(n)
               /\ n.kind \in Signing \cup Asking /\ n.todo \in ListsFor(n.kind)
               /\ \A c : Cutoff(c) => CallFrom(n, c)
        BY <1>1, AtCall DEF Tab!Update
      <3>2. n.kind \in Asking
        BY <3>1, NextOfCall
      <3> QED
        BY <3>1, <3>2, KindsApart DEF CallOK
    <2> QED
      BY <1>1, <2>1, UpdateStep
  <1> QED
    BY <1>1, AuthenticateStep, KeepViewStep, ProfileStep, RereadStep, BustStep, SignFreshStep,
       CompareStep, ReadUserStep, AskPolicyStep, KeepPolicyStep, VerifyStep, CountStep, ClearStep
    DEF Tab!Handle

\* An answer reaches the page, or is lost on its way.
LEMMA AnswerStep ==
    ASSUME SessInv, NEW q \in Caller, UNCHANGED part, Tab!Settled(q), req' = Tab!Idle(q),
           UNCHANGED <<user, policy, cache, limits, admin, now, cuts, failures, mixed>>,
           \/ UNCHANGED tab
           \/ Tab!Rejected(q) \/ Tab!Failed(q) \/ (Tab!Accepted(q) /\ req[q].kind # "elsewhere")
           \/ tab' = [tab EXCEPT !.token = None, !.page = "login"]
           \/ tab' = [tab EXCEPT !.page = IF tab.page = "signing" THEN "login" ELSE tab.page]
    PROVE  SessInv'
  <1>1. PICK c \in Nat : Cutoff(c)
    BY DEF SessInv
  <1>2. PICK n : n = req[q]
    OBVIOUS
  <1>3. /\ n # None /\ n.todo = << >> /\ n \in Call /\ CallOK(n) /\ CallFrom(n, c)
        /\ n.kind \in Signing \cup Asking
    <2>1. req[q] # None /\ req[q].todo = << >>
      BY DEF Tab!Settled
    <2>2. n \in Call /\ CallOK(n) /\ CallFrom(n, c)
      BY <1>1, <1>2, <2>1 DEF SessInv, CallTypes, CallOK, Cutoff
    <2> QED
      BY <1>2, <2>1, <2>2 DEF Call
  <1>4. /\ req \in [Caller -> Call \cup {None}] /\ req' = [req EXCEPT ![q] = None]
    BY DEF SessInv, CallTypes, Tab!Idle
  <1>5. /\ req' \in [Caller -> Call \cup {None}]
        /\ \A p \in Caller : req'[p] \in {req[p], None}
        /\ \A p \in Caller : req[p] # None /\ Signs(req[p]) => req'[p] = req[p]
    BY <1>2, <1>3, <1>4 DEF Signs
  <1>6. /\ tab \in [token : TokenSet \cup {None}, page : {"login", "signing", "loading", "gate", "app"},
                    load : Nat]
        /\ tab.token = None => tab.page = "login"
        /\ tab.token # None => SignedFrom(tab.token, c)
    BY <1>1 DEF SessInv, RowTypes, Cutoff
  <1>7. CASE /\ tab' \in [token : TokenSet \cup {None},
                          page : {"login", "signing", "loading", "gate", "app"}, load : Nat]
             /\ tab'.token = None => tab'.page = "login"
             /\ tab'.token # None => SignedFrom(tab'.token, c)
    <2>1. RowTypes'
      BY <1>7 DEF SessInv, RowTypes
    <2> QED
      BY <1>1, <1>5, <1>7, <2>1, BrowserKeeps
  <1>8. CASE UNCHANGED tab
    BY <1>6, <1>7, <1>8
  <1>9. CASE tab' = [tab EXCEPT !.token = None, !.page = "login"]
    BY <1>6, <1>7, <1>9
  <1>10. CASE tab' = [tab EXCEPT !.page = IF tab.page = "signing" THEN "login" ELSE tab.page]
    BY <1>6, <1>7, <1>10
  <1>11. CASE Tab!Rejected(q)
    BY <1>6, <1>7, <1>11 DEF Tab!Rejected, Tab!Reloaded
  <1>12. CASE Tab!Failed(q)
    BY <1>8, <1>9, <1>12 DEF Tab!Failed
  <1>13. CASE Tab!Accepted(q) /\ req[q].kind # "elsewhere"
    <2>1. n.status = 200
      BY <1>2, <1>13 DEF Tab!Accepted
    <2>2. CASE n.kind = "poll"
      BY <1>2, <1>8, <1>13, <2>2 DEF Tab!Accepted
    <2>3. CASE n.kind = "me"
      <3>1. n.seen \in {"gate", "app"}
        BY <1>3, <2>1, <2>3 DEF CallOK
      <3>2. CASE tab.page \notin {"loading", "signing"}
        BY <1>2, <1>8, <1>13, <2>3, <3>2 DEF Tab!Accepted
      <3>3. CASE tab.page \in {"loading", "signing"}
        <4>1. tab' = [tab EXCEPT !.page = n.seen]
          BY <1>2, <1>13, <2>3, <3>3 DEF Tab!Accepted
        <4> QED
          BY <1>6, <1>7, <3>1, <3>3, <4>1
      <3> QED
        BY <3>2, <3>3
    <2>4. CASE n.kind \in {"refresh", "change", "login"}
      <3>1. n.token \in TokenSet /\ n.token # None /\ SignedFrom(n.token, c)
        <4>1. n.token \in TokenSet
          BY <1>3, <2>1, <2>4 DEF CallOK, Signing, Asking
        <4> QED
          BY <1>3, <4>1, NoneApart DEF CallFrom
      <3>2. CASE n.kind = "refresh"
        <4>1. tab' = [tab EXCEPT !.token = n.token]
          BY <1>2, <1>13, <3>2 DEF Tab!Accepted
        <4> QED
          BY <1>6, <1>7, <3>1, <4>1
      <3>3. CASE n.kind = "change"
        <4>1. tab' = [tab EXCEPT !.token = n.token, !.page = "loading"]
          BY <1>2, <1>13, <3>3 DEF Tab!Accepted
        <4> QED
          BY <1>6, <1>7, <3>1, <4>1
      <3>4. CASE n.kind = "login"
        <4>1. tab' = [tab EXCEPT !.token = n.token, !.page = "signing"]
          BY <1>2, <1>13, <3>4 DEF Tab!Accepted
        <4> QED
          BY <1>6, <1>7, <3>1, <4>1
      <3> QED
        BY <2>4, <3>2, <3>3, <3>4
    <2> QED
      BY <1>2, <1>3, <1>13, <2>2, <2>3, <2>4 DEF Signing, Asking
  <1> QED
    BY <1>8, <1>9, <1>10, <1>11, <1>12, <1>13

LEMMA ArrivesStep ==
    ASSUME SessInv, NEW q \in Caller, Tab!Arrives(q), UNCHANGED part
    PROVE  SessInv'
  <1>1. /\ Tab!Settled(q) /\ req' = Tab!Idle(q)
        /\ UNCHANGED <<user, policy, cache, limits, admin, now, cuts, failures, mixed>>
    BY DEF Tab!Arrives, Tab!counts
  <1>2. CASE Tab!Gone(q)
    BY <1>1, <1>2, AnswerStep DEF Tab!Arrives
  <1>3. CASE ~Tab!Gone(q)
    <2>1. req[q].kind # "elsewhere"
      BY <1>3 DEF Tab!Gone
    <2>2. Tab!Rejected(q) \/ Tab!Failed(q) \/ Tab!Accepted(q)
      BY <1>3 DEF Tab!Arrives
    <2> QED
      BY <1>1, <2>1, <2>2, AnswerStep
  <1> QED
    BY <1>2, <1>3

LEMMA LostStep ==
    ASSUME SessInv, NEW q \in Caller, Tab!Lost(q) \/ Door!Lost(q), UNCHANGED part
    PROVE  SessInv'
  <1>1. /\ Tab!Settled(q) /\ req' = Tab!Idle(q)
        /\ UNCHANGED <<user, policy, cache, limits, admin, now, cuts, failures, mixed>>
    BY DEF Tab!Lost, Door!Lost, Door!Settled, Tab!Settled, Door!Idle, Tab!Idle
  <1>2. \/ UNCHANGED tab
        \/ tab' = [tab EXCEPT !.token = None, !.page = "login"]
        \/ tab' = [tab EXCEPT !.page = IF tab.page = "signing" THEN "login" ELSE tab.page]
    BY DEF Tab!Lost, Door!Lost
  <1> QED
    BY <1>1, <1>2, AnswerStep

LEMMA PageLoads ==
    ASSUME SessInv, Tab!SignOut \/ Tab!Reload \/ Door!SignOut \/ Door!Reload, UNCHANGED part
    PROVE  SessInv'
  <1>1. PICK c \in Nat : Cutoff(c)
    BY DEF SessInv
  <1>2. /\ UNCHANGED <<user, policy, cache, limits, req, admin, now, cuts, failures, mixed>>
        /\ \/ tab' = [tab EXCEPT !.token = None, !.page = "login"]
           \/ tab.token # None /\ tab' = [tab EXCEPT !.load = tab.load + 1, !.page = "loading"]
    BY DEF Tab!SignOut, Tab!Reload, Door!SignOut, Door!Reload
  <1>3. /\ req' \in [Caller -> Call \cup {None}] /\ \A p \in Caller : req'[p] = req[p]
    BY <1>2 DEF SessInv, CallTypes
  <1>4. /\ tab' \in [token : TokenSet \cup {None}, page : {"login", "signing", "loading", "gate", "app"},
                     load : Nat]
        /\ tab'.token = None => tab'.page = "login"
        /\ tab'.token # None => SignedFrom(tab'.token, c)
    <2>1. /\ tab \in [token : TokenSet \cup {None},
                      page : {"login", "signing", "loading", "gate", "app"}, load : Nat]
          /\ tab.token = None => tab.page = "login"
          /\ tab.token # None => SignedFrom(tab.token, c)
      BY <1>1 DEF SessInv, RowTypes, Cutoff
    <2>2. CASE tab' = [tab EXCEPT !.token = None, !.page = "login"]
      BY <2>1, <2>2
    <2>3. CASE tab.token # None /\ tab' = [tab EXCEPT !.load = tab.load + 1, !.page = "loading"]
      <3>1. PICK k \in Nat : k = tab.load + 1
        BY <2>1
      <3>2. tab' = [tab EXCEPT !.load = k, !.page = "loading"]
        BY <2>3, <3>1
      <3>3. tab'.token = tab.token /\ tab'.page = "loading"
        BY <2>1, <3>2
      <3> QED
        BY <2>1, <2>3, <3>2, <3>3
    <2> QED
      BY <1>2, <2>2, <2>3
  <1>5. RowTypes'
    BY <1>2, <1>4 DEF SessInv, RowTypes
  <1> QED
    BY <1>1, <1>2, <1>3, <1>4, <1>5, BrowserKeeps

-----------------------------------------------------------------------------
\* What an administrator's call has left, one statement after the other.
LEMMA AdminWork ==
    ASSUME RowTypes, NEW op, Tab!NextEdit(op)
    PROVE  /\ admin.todo # << >> /\ op \in {"disable", "cutoff", "bust", "unlock", "policy", "limits"}
           /\ admin' \in [at : Replica \cup {None}, todo : EditLists]
  <1>1. /\ admin.todo # << >> /\ Head(admin.todo) = op /\ admin' = [admin EXCEPT !.todo = Tail(admin.todo)]
    BY DEF Tab!NextEdit
  <1>2. PICK w : w = admin.todo
    OBVIOUS
  <1>3. /\ w \in {<<"disable", "cutoff", "bust">>, <<"cutoff", "bust">>, <<"bust">>,
                  <<"unlock">>, <<"policy", "limits">>, <<"limits">>}
        /\ Head(w) = op
    BY <1>1, <1>2 DEF RowTypes, EditLists
  <1>4. /\ op \in {"disable", "cutoff", "bust", "unlock", "policy", "limits"}
        /\ Tail(w) \in {<<"cutoff", "bust">>, <<"bust">>, <<"limits">>, << >>}
    <2>1. CASE w = <<"disable", "cutoff", "bust">>
      BY <1>3, <2>1
    <2>2. CASE w = <<"cutoff", "bust">>
      BY <1>3, <2>2
    <2>3. CASE w = <<"policy", "limits">>
      BY <1>3, <2>3
    <2>4. CASE w \in {<<"bust">>, <<"unlock">>, <<"limits">>}
      <3>1. PICK x \in {"bust", "unlock", "limits"} : w = <<x>>
        BY <2>4
      <3>2. Head(<<x>>) = x /\ Tail(<<x>>) = << >>
        OBVIOUS
      <3> QED
        BY <1>3, <3>1, <3>2
    <2> QED
      BY <1>3, <2>1, <2>2, <2>3, <2>4
  <1>5. admin \in [at : Replica \cup {None}, todo : EditLists] /\ Tail(w) \in EditLists
    BY <1>4 DEF RowTypes, EditLists
  <1> QED
    BY <1>1, <1>2, <1>4, <1>5

\* Beside an edit there are no sign-ins, unless they are mixed.
LEMMA EditsAlone ==
    ASSUME SessInv, admin.todo # << >>, UNCHANGED <<req, mixed>>,
           ~mixed => Agree' /\ (user.failed = failures => user'.failed = failures')
    PROVE  LocksHold'
  <1>1. ~mixed => \A p \in Caller : req[p] # None => ~Signs(req[p])
    BY DEF SessInv, LocksHold, CallLock
  <1>2. ~mixed => user.failed = failures
    BY <1>1 DEF SessInv, LocksHold
  <1>3. ~mixed => \A p \in Caller : req'[p] # None => ~Signs(req[p])'
    BY <1>1 DEF Signs
  <1> QED
    BY <1>2, <1>3 DEF LocksHold, CallLock

LEMMA EditUserStep ==
    ASSUME SessInv, NEW op \in Tab!UserOps, Tab!EditUser(op), UNCHANGED part
    PROVE  SessInv'
  <1>1. PICK c \in Nat : Cutoff(c)
    BY DEF SessInv
  <1>2. /\ admin.todo # << >> /\ op \in {"disable", "cutoff", "unlock"}
        /\ admin' \in [at : Replica \cup {None}, todo : EditLists]
    BY AdminWork DEF Tab!EditUser, Tab!UserOps, SessInv
  <1>3. /\ user' = Tab!Edited(op) /\ cuts' = (IF op = "cutoff" THEN cuts + 1 ELSE cuts)
        /\ failures' = (IF op = "unlock" THEN 0 ELSE failures)
        /\ UNCHANGED <<policy, cache, limits, req, tab, now, mixed>>
    BY DEF Tab!EditUser
  <1>4. /\ user \in UserRow /\ user.after <= now /\ now \in Nat /\ cuts \in Nat /\ failures \in Nat
        /\ c <= now /\ user.after <= c /\ Limit \in Nat /\ Limit > 0
    BY <1>1, NoneApart DEF SessInv, RowTypes, Cutoff
  <1>5. CacheTypes' /\ CachesUpTo(c)' /\ CachesUpTo(now)'
    BY <1>1, <1>3, <1>4 DEF SessInv, CacheTypes, Cutoff, CachesUpTo, ViewRow
  <1>6. ~mixed => Agree
    BY DEF SessInv, LocksHold
  <1>7. CASE op = "cutoff"
    <2>1. user' = [user EXCEPT !.after = now] /\ cuts' = cuts + 1 /\ failures' = failures
      BY <1>3, <1>7 DEF Tab!Edited
    <2>2. /\ user' \in UserRow /\ user'.after = now /\ user'.failed = user.failed
          /\ user'.until = user.until
      BY <1>4, <2>1 DEF UserRow
    <2>3. RowTypes'
      BY <1>2, <1>3, <1>4, <2>1, <2>2 DEF SessInv, RowTypes
    <2>4. LocksHold'
      BY <1>2, <1>3, <1>6, <2>1, <2>2, EditsAlone DEF Agree
    <2> QED
      BY <1>1, <1>3, <1>4, <1>5, <2>1, <2>2, <2>3, <2>4, BesideCalls
  <1>8. CASE op \in {"disable", "unlock"}
    <2>1. /\ cuts' = cuts
          /\ \/ user' = [user EXCEPT !.enabled = FALSE] /\ failures' = failures
             \/ user' = [user EXCEPT !.failed = 0, !.until = 0] /\ failures' = 0
      BY <1>3, <1>8 DEF Tab!Edited
    <2>2. user' \in UserRow /\ user'.after = user.after
      <3>1. CASE user' = [user EXCEPT !.enabled = FALSE]
        BY <1>4, <3>1 DEF UserRow
      <3>2. CASE user' = [user EXCEPT !.failed = 0, !.until = 0]
        BY <1>4, <3>2 DEF UserRow
      <3> QED
        BY <2>1, <3>1, <3>2
    <2>3. RowTypes'
      BY <1>2, <1>3, <1>4, <2>1, <2>2 DEF SessInv, RowTypes
    <2>4. \/ user'.failed = user.failed /\ user'.until = user.until /\ failures' = failures
          \/ user'.failed = 0 /\ user'.until = 0 /\ failures' = 0
      BY <1>4, <2>1 DEF UserRow
    <2>5. LocksHold'
      BY <1>2, <1>3, <1>4, <1>6, <2>4, EditsAlone DEF Agree
    <2> QED
      BY <1>1, <1>3, <1>4, <1>5, <2>1, <2>2, <2>3, <2>5, BesideCalls
  <1> QED
    BY <1>2, <1>7, <1>8

LEMMA EditPolicyStep ==
    ASSUME SessInv, Tab!EditPolicy, UNCHANGED part
    PROVE  SessInv'
  <1>1. PICK c \in Nat : Cutoff(c)
    BY DEF SessInv
  <1>2. admin.todo # << >> /\ admin' \in [at : Replica \cup {None}, todo : EditLists]
    BY AdminWork DEF Tab!EditPolicy, SessInv
  <1>3. /\ policy' = (IF policy = 0 THEN Limit ELSE 0)
        /\ UNCHANGED <<user, cache, limits, req, tab, now, cuts, failures, mixed>>
    BY DEF Tab!EditPolicy, Tab!counts
  <1>4. RowTypes'
    BY <1>2, <1>3 DEF SessInv, RowTypes
  <1>5. CacheTypes' /\ CachesUpTo(c)'
    BY <1>1, <1>3 DEF SessInv, CacheTypes, Cutoff, CachesUpTo
  <1>6. LocksHold'
    BY <1>2, <1>3, EditsAlone DEF Agree, SessInv, LocksHold
  <1>7. c <= now /\ user.after <= c /\ cuts \in Nat
    BY <1>1 DEF Cutoff, SessInv, RowTypes
  <1> QED
    BY <1>1, <1>3, <1>4, <1>5, <1>6, <1>7, BesideCalls

LEMMA ForgetStep ==
    ASSUME SessInv, Tab!Forget, UNCHANGED part
    PROVE  SessInv'
  <1>1. PICK c \in Nat : Cutoff(c)
    BY DEF SessInv
  <1>2. admin.todo # << >> /\ admin' \in [at : Replica \cup {None}, todo : EditLists]
    BY AdminWork DEF Tab!Forget, SessInv
  <1>3. /\ \/ cache' = [cache EXCEPT ![admin.at] = None] /\ limits' = limits
           \/ limits' = [limits EXCEPT ![admin.at] = None] /\ cache' = cache
        /\ UNCHANGED <<user, policy, req, tab, now, cuts, failures, mixed>>
    BY DEF Tab!Forget, Tab!counts
  <1>4. RowTypes'
    BY <1>2, <1>3 DEF SessInv, RowTypes
  <1>5. DOMAIN cache' = DOMAIN cache /\ CacheTypes' /\ CachesUpTo(c)'
    BY <1>1, <1>3 DEF SessInv, CacheTypes, Cutoff, CachesUpTo
  <1>6. LocksHold'
    BY <1>2, <1>3, EditsAlone DEF Agree, SessInv, LocksHold
  <1>7. c <= now /\ user.after <= c /\ cuts \in Nat
    BY <1>1 DEF Cutoff, SessInv, RowTypes
  <1> QED
    BY <1>1, <1>3, <1>4, <1>5, <1>6, <1>7, BesideCalls

\* What a replica remembers grows old, and time goes on.
LEMMA AgeStep ==
    ASSUME SessInv, UNCHANGED part,
           Tab!Tick \/ (\E r : Tab!Expire(r)) \/ (\E r : Tab!ExpirePolicy(r))
    PROVE  SessInv'
  <1>1. PICK c \in Nat : Cutoff(c)
    BY DEF SessInv
  <1>2. /\ UNCHANGED <<user, policy, req, admin, tab, cuts, failures, mixed>>
        /\ \/ now < MaxTime /\ now' = now + 1 /\ UNCHANGED <<cache, limits>>
           \/ now' = now /\ limits' = limits /\ \E r : cache' = [cache EXCEPT ![r] = None]
           \/ now' = now /\ cache' = cache /\ \E r : limits' = [limits EXCEPT ![r] = None]
    BY DEF Tab!Tick, Tab!Expire, Tab!ExpirePolicy, Tab!counts
  <1>3. c <= now /\ user.after <= c /\ cuts \in Nat /\ now \in 0..MaxTime /\ MaxTime \in Nat
        /\ user.after \in Nat
    BY <1>1, NoneApart DEF Cutoff, SessInv, RowTypes, UserRow
  <1>4. now' \in 0..MaxTime /\ now' >= now
    BY <1>2, <1>3
  <1>5. RowTypes'
    BY <1>2, <1>3, <1>4 DEF SessInv, RowTypes
  <1>6. DOMAIN cache' = DOMAIN cache /\ CacheTypes' /\ CachesUpTo(c)'
    BY <1>1, <1>2 DEF SessInv, CacheTypes, Cutoff, CachesUpTo
  <1>7. LocksHold'
    BY <1>2 DEF SessInv, LocksHold, CallLock, Signs, Agree
  <1>8. c <= now'
    BY <1>3, <1>4
  <1> QED
    BY <1>1, <1>2, <1>3, <1>5, <1>6, <1>7, <1>8, BesideCalls

LEMMA StartEditStep ==
    ASSUME SessInv, UNCHANGED part, NEW edit, NEW r \in Replica,
           \/ edit = "disable" /\ Tab!StartEdit(edit, r)
           \/ edit \in {"unlock", "policy"} /\ Door!StartEdit(edit, r)
    PROVE  SessInv'
  <1>1. PICK c \in Nat : Cutoff(c)
    BY DEF SessInv
  <1>2. /\ admin' \in [at : Replica \cup {None}, todo : EditLists]
        /\ UNCHANGED <<user, policy, cache, limits, req, tab, now, cuts, failures>>
    <2>1. UNCHANGED <<user, policy, cache, limits, req, tab, now, cuts, failures>>
      BY DEF Tab!StartEdit, Door!StartEdit
    <2>2. admin' = [at |-> r, todo |-> Tab!EditWork(edit)]
      BY DEF Tab!StartEdit, Door!StartEdit, Tab!EditWork, Door!EditWork
    <2>3. Tab!EditWork(edit) \in EditLists
      <3>1. CASE edit = "disable"
        BY <3>1 DEF Tab!EditWork, EditLists
      <3>2. CASE edit = "unlock"
        BY <3>2 DEF Tab!EditWork, EditLists
      <3>3. CASE edit = "policy"
        BY <3>3 DEF Tab!EditWork, EditLists
      <3> QED
        BY <3>1, <3>2, <3>3
    <2> QED
      BY <2>1, <2>2, <2>3
  <1>3. mixed' = (mixed \/ \E p \in Caller : req[p] # None /\ Signs(req[p]))
    BY DEF Tab!StartEdit, Door!StartEdit, Tab!SignIn, Door!SignIn, Tab!SignIns, Door!SignIns,
           Signs, Signing
  <1>4. RowTypes'
    BY <1>2, <1>3 DEF SessInv, RowTypes
  <1>5. CacheTypes' /\ CachesUpTo(c)'
    BY <1>1, <1>2 DEF SessInv, CacheTypes, Cutoff, CachesUpTo
  <1>6. LocksHold'
    BY <1>2, <1>3 DEF SessInv, RowTypes, LocksHold, CallLock, Signs, Agree
  <1>7. c <= now /\ user.after <= c /\ cuts \in Nat
    BY <1>1 DEF Cutoff, SessInv, RowTypes
  <1> QED
    BY <1>1, <1>2, <1>4, <1>5, <1>6, <1>7, BesideCalls

\* A request of the tab asks who it is for; one of the door signs in.
LEMMA SendStep ==
    ASSUME SessInv, NEW q \in Caller, NEW kind, NEW r \in Replica, NEW right \in BOOLEAN, UNCHANGED part,
           \/ part = "tab" /\ Tab!Send(q, kind, r, right)
           \/ part = "door" /\ r \in OneReplica /\ Door!Send(q, kind, r, right)
    PROVE  SessInv'
  <1>1. PICK c \in Nat : Cutoff(c)
    BY DEF SessInv
  <1>2. \/ part = "tab" /\ kind \in {"me", "change", "refresh"}
        \/ part = "door" /\ kind \in {"login", "elsewhere"}
    BY DEF Tab!Send, Door!Send, Kinds
  <1>3. PICK n : n = [kind |-> kind, right |-> right, at |-> r,
                      token |-> IF kind \in Signing THEN None ELSE tab.token,
                      load |-> tab.load, todo |-> Tab!Work(kind), seen |-> None,
                      limit |-> 0, status |-> 200]
    OBVIOUS
  <1>4. /\ req[q] = None /\ req' = [req EXCEPT ![q] = n]
        /\ UNCHANGED <<user, policy, cache, limits, admin, tab, now, cuts, failures>>
        /\ mixed' = (mixed \/ (kind \in Signing /\ (admin.todo # << >> \/ \E p \in Caller : Tab!SignIn(p))))
        /\ kind \notin Signing => tab.token # None
    <2>1. CASE part = "tab" /\ Tab!Send(q, kind, r, right)
      BY <1>2, <1>3, <2>1 DEF Tab!Send, Tab!MaySend, Tab!SignIns, Signing
    <2>2. CASE part = "door" /\ Door!Send(q, kind, r, right)
      <3>1. Door!Work(kind) = Tab!Work(kind)
        BY DEF Door!Work, Tab!Work, Door!SignIns, Tab!SignIns
      <3>2. \A p \in Caller : Door!SignIn(p) <=> Tab!SignIn(p)
        BY DEF Door!SignIn, Tab!SignIn, Door!SignIns, Tab!SignIns
      <3> QED
        BY <1>2, <1>3, <2>2, <3>1, <3>2 DEF Door!Send, Door!SignIns, Signing
    <2> QED
      BY <2>1, <2>2
  <1>5. /\ tab \in [token : TokenSet \cup {None}, page : {"login", "signing", "loading", "gate", "app"},
                    load : Nat]
        /\ tab.token # None => SignedFrom(tab.token, c)
        /\ mixed \in BOOLEAN /\ mixed' \in BOOLEAN
    BY <1>1, <1>4 DEF SessInv, RowTypes, Cutoff
  <1>6. \A p \in Caller : Tab!SignIn(p) <=> req[p] # None /\ Signs(req[p])
    BY DEF Tab!SignIn, Tab!SignIns, Signs, Signing
  <1>7. r \in DOMAIN cache
    BY <1>2 DEF SessInv, CacheTypes
  <1>8. CASE part = "tab"
    <2>1. kind \in Asking /\ kind \notin Signing /\ tab.token # None /\ tab.token \in TokenSet
      BY <1>2, <1>4, <1>5, <1>8 DEF Asking, Signing
    <2>2. Tab!Work(kind) = Auth(kind)
      BY <1>2, <1>8 DEF Tab!Work, Auth, Tab!SignIns
    <2>3. /\ Auth(kind) \in CallLists /\ Auth(kind) \in ListsFor(kind) /\ Auth(kind) # << >>
          /\ Auth(kind) # Cached(kind)
          /\ Auth(kind) \notin {FromPolicy, FromLimits, FromVerify, FromCount}
      BY <2>1, ListsOfCalls, ListsApart, AuthLists
    <2>4. /\ n.kind = kind /\ n.todo = Auth(kind) /\ n.seen = None /\ n.token = tab.token /\ n.at = r
          /\ n \in Call
      BY <1>3, <1>5, <2>1, <2>2, <2>3, SeenValues DEF Call
    <2>5. CallOK(n)
      BY <1>7, <1>8, <2>1, <2>3, <2>4 DEF CallOK
    <2>6. CallFrom(n, c)
      BY <1>5, <2>1, <2>3, <2>4 DEF CallFrom
    <2>7. ~Signs(n)
      BY <2>1, <2>4 DEF Signs
    <2>8. mixed => mixed'
      BY <1>4
    <2> QED
      BY <1>1, <1>4, <1>5, <2>4, <2>5, <2>6, <2>7, <2>8, NewCall
  <1>9. CASE part = "door"
    <2>1. kind \in Signing /\ kind \notin Asking
      BY <1>2, <1>9 DEF Asking, Signing
    <2>2. Tab!Work(kind) = FromRow
      BY <1>2, <1>9 DEF Tab!Work, FromRow, Tab!SignIns
    <2>3. FromRow \in CallLists /\ FromRow \in ListsFor(kind) /\ FromRow # << >>
      BY <2>1, ListsOfCalls, SignInWork DEF SignInLists
    <2>4. /\ n.kind = kind /\ n.todo = FromRow /\ n.seen = None /\ n.token = None /\ n.at = r
          /\ n \in Call
      BY <1>3, <1>5, <2>1, <2>2, <2>3, SeenValues DEF Call
    <2>5. CallOK(n)
      BY <1>7, <1>9, <2>1, <2>3, <2>4, ListsApart DEF CallOK
    <2>6. CallFrom(n, c)
      BY <2>1, <2>4 DEF CallFrom
    <2>7. mixed => mixed'
      BY <1>4
    <2>8. ~mixed' => admin.todo = << >> /\ \A p \in Caller : req[p] # None => ~Signs(req[p])
      BY <1>4, <1>6, <2>1
    <2> QED
      BY <1>1, <1>4, <1>5, <2>4, <2>5, <2>6, <2>7, <2>8, NewCall
  <1> QED
    BY <1>2, <1>8, <1>9

-----------------------------------------------------------------------------
LEMMA SessInit == OperatorsInit => SessInv
  <1> SUFFICES ASSUME OperatorsInit PROVE SessInv
    OBVIOUS
  <1>1. PICK R : R = IF part = "tab" THEN Replica ELSE OneReplica
    OBVIOUS
  <1>2. /\ user = [enabled |-> TRUE, role |-> "netadmin", after |-> 0, must |-> TRUE,
                   failed |-> 0, until |-> 0]
        /\ policy = Limit /\ cache = [r \in R |-> None] /\ limits = [r \in R |-> None]
        /\ req = [q \in Caller |-> None] /\ admin = [at |-> None, todo |-> << >>]
        /\ now = 0 /\ cuts = 0 /\ failures = 0 /\ mixed = FALSE
        /\ \/ tab = [token |-> [iat |-> 0, gen |-> 0], page |-> "gate", load |-> 0]
           \/ tab = [token |-> None, page |-> "login", load |-> 0]
    BY <1>1 DEF OperatorsInit, Tab!Init, Door!Init
  <1>3. part \in {"campaign", "tab", "door", "pages", "shells", "wizards"}
    BY DEF OperatorsInit
  <1>4. /\ user \in UserRow /\ user.after = 0 /\ user.failed = 0 /\ user.until = 0
    BY <1>2 DEF UserRow
  <1>5. now \in 0..MaxTime /\ 0 \in 0..MaxTime
    BY <1>2, NoneApart
  <1>6. /\ tab \in [token : TokenSet \cup {None}, page : {"login", "signing", "loading", "gate", "app"},
                    load : Nat]
        /\ tab.token = None => tab.page = "login"
        /\ tab.token # None => tab.token.gen = 0 /\ tab.token.iat = 0
    <2>1. PICK t : t = [iat |-> 0, gen |-> 0]
      OBVIOUS
    <2>2. t \in TokenSet /\ t.gen = 0 /\ t.iat = 0 /\ t # None
      BY <1>5, <2>1, NoneApart DEF TokenSet
    <2>3. CASE tab = [token |-> t, page |-> "gate", load |-> 0]
      BY <2>2, <2>3
    <2>4. CASE tab = [token |-> None, page |-> "login", load |-> 0]
      BY <2>4
    <2> QED
      BY <1>2, <2>1, <2>3, <2>4
  <1>7. RowTypes
    <2>1. << >> \in EditLists
      BY DEF EditLists
    <2>2. admin \in [at : Replica \cup {None}, todo : EditLists]
      BY <1>2, <2>1
    <2>3. user.after <= now /\ policy \in {0, Limit}
      BY <1>2, <1>4
    <2>4. now \in 0..MaxTime /\ cuts \in Nat /\ failures \in Nat /\ mixed \in BOOLEAN
      BY <1>2, <1>5
    <2> QED
      BY <1>3, <1>4, <1>6, <2>2, <2>3, <2>4 DEF RowTypes
  <1>8. CacheTypes /\ CachesUpTo(0)
    BY <1>1, <1>2 DEF CacheTypes, CachesUpTo
  <1>9. CallTypes
    BY <1>2 DEF CallTypes
  <1>10. Cutoff(0)
    BY <1>2, <1>4, <1>6, <1>8 DEF Cutoff, SignedFrom
  <1>11. LocksHold
    BY <1>2, <1>4, NoneApart DEF LocksHold, Agree
  <1> QED
    BY <1>7, <1>8, <1>9, <1>10, <1>11 DEF SessInv

LEMMA SessIsSound ==
    ASSUME SessInv
    PROVE  Tab!TypeOK /\ Tab!FreshTokenWorks /\ Door!LocksMatchFailures
  <1>1. Tab!TypeOK
    BY NoneApart DEF SessInv, RowTypes, CacheTypes, Tab!TypeOK, Tab!Token, TokenSet, UserRow
  <1>2. Tab!FreshTokenWorks
    BY DEF SessInv, CallTypes, CallOK, Tab!FreshTokenWorks, Tab!Settled
  <1>3. Door!LocksMatchFailures
    <2>1. SUFFICES ASSUME ~mixed, \A q \in Caller : ~Door!SignIn(q)
                   PROVE  /\ user.failed = failures
                          /\ (failures >= Limit) = (user.until # 0)
      BY DEF Door!LocksMatchFailures
    <2>2. \A q \in Caller : req[q] # None => ~Signs(req[q])
      BY <2>1 DEF Door!SignIn, Door!SignIns, Signs, Signing
    <2> QED
      BY <2>1, <2>2 DEF SessInv, LocksHold, Agree
  <1> QED
    BY <1>1, <1>2, <1>3

LEMMA SessStep ==
    ASSUME SessInv, UNCHANGED part,
           (part = "tab" /\ Tab!Next) \/ (part = "door" /\ Door!Next)
    PROVE  SessInv'
  <1>1. ASSUME NEW q \in Caller, part \in {"tab", "door"}, Tab!Handle(q) \/ Door!Handle(q) PROVE SessInv'
    BY <1>1, HandleStep, DoorIsTab
  <1>2. ASSUME NEW q \in Caller, Tab!Arrives(q) \/ Door!Arrives(q) PROVE SessInv'
    BY <1>2, ArrivesStep, DoorIsTab
  <1>3. ASSUME NEW q \in Caller, Tab!Lost(q) \/ Door!Lost(q) PROVE SessInv'
    BY <1>3, LostStep
  <1>4. CASE Tab!SignOut \/ Tab!Reload \/ Door!SignOut \/ Door!Reload
    BY <1>4, PageLoads
  <1>5. CASE Tab!Administer \/ Door!Administer
    <2>1. \/ \E op \in Tab!UserOps : Tab!EditUser(op)
          \/ Tab!EditPolicy \/ Tab!Forget
      BY <1>5, DoorIsTab DEF Tab!Administer, Door!Administer, Tab!UserOps, Door!UserOps
    <2> QED
      BY <2>1, EditUserStep, EditPolicyStep, ForgetStep
  <1>6. ASSUME NEW r, \/ Tab!Expire(r) \/ Tab!ExpirePolicy(r) \/ Tab!Tick
                      \/ Door!Expire(r) \/ Door!ExpirePolicy(r) \/ Door!Tick
        PROVE  SessInv'
    BY <1>6, AgeStep, DoorIsTab
  <1>7. OneReplica \subseteq Replica
    BY SessionAssumption DEF OneReplica
  <1>8. CASE part = "tab" /\ Tab!Next
    <2>1. ASSUME NEW q \in Caller, NEW kind, NEW r \in Replica, NEW right \in BOOLEAN,
                 Tab!Send(q, kind, r, right)
          PROVE  SessInv'
      BY <1>8, <2>1, SendStep
    <2>2. ASSUME NEW r \in Replica, Tab!StartEdit("disable", r) PROVE SessInv'
      BY <2>2, StartEditStep
    <2> QED
      BY <1>1, <1>2, <1>3, <1>4, <1>5, <1>6, <1>8, <2>1, <2>2 DEF Tab!Next
  <1>9. CASE part = "door" /\ Door!Next
    <2>1. ASSUME NEW q \in Caller, NEW kind, NEW r \in OneReplica, NEW right \in BOOLEAN,
                 Door!Send(q, kind, r, right)
          PROVE  SessInv'
      BY <1>7, <1>9, <2>1, SendStep
    <2>2. ASSUME NEW edit \in {"unlock", "policy"}, NEW r \in OneReplica, Door!StartEdit(edit, r)
          PROVE  SessInv'
      BY <1>7, <2>2, StartEditStep
    <2> QED
      BY <1>1, <1>2, <1>3, <1>4, <1>5, <1>6, <1>9, <2>1, <2>2 DEF Door!Next
  <1> QED
    BY <1>8, <1>9

-----------------------------------------------------------------------------
LEMMA SessionsAlways == OperatorsSpec => [](FeedInv /\ ShellInv /\ SessInv)
  <1> DEFINE I == FeedInv /\ ShellInv /\ SessInv
  <1>1. OperatorsInit => I
    BY FeedStart, ShellStart, SessInit DEF OperatorsInit
  <1>2. I /\ [OperatorsNext]_all => I'
    <2> SUFFICES ASSUME FeedInv, ShellInv, SessInv, [OperatorsNext]_all PROVE I'
      OBVIOUS
    <2>1. [Pages!Next]_feedVars /\ [Shells!Next]_shellVars
      BY DEF OperatorsNext, InSession, InPages, InShells, InWizards, all, operators
    <2>2. FeedInv' /\ ShellInv'
      BY <2>1, FeedStep, ShellStep
    <2>3. \/ UNCHANGED <<part, sessionVars>>
          \/ UNCHANGED part /\ ((part = "tab" /\ Tab!Next) \/ (part = "door" /\ Door!Next))
      BY DEF OperatorsNext, InSession, InPages, InShells, InWizards, all, operators
    <2>4. CASE UNCHANGED <<part, sessionVars>>
      <3>1. RowTypes' /\ CacheTypes'
        BY <2>4 DEF sessionVars, SessInv, RowTypes, CacheTypes
      <3>2. CallTypes'
        BY <2>4 DEF sessionVars, SessInv, CallTypes, CallOK
      <3>3. \A c : Cutoff(c) => Cutoff(c)'
        BY <2>4 DEF sessionVars, Cutoff, CachesUpTo, CallFrom, SignedFrom
      <3>4. LocksHold'
        BY <2>4 DEF sessionVars, SessInv, LocksHold, CallLock, Agree, Signs
      <3>5. SessInv'
        BY <3>1, <3>2, <3>3, <3>4 DEF SessInv
      <3> QED
        BY <2>2, <3>5
    <2> QED
      BY <2>2, <2>3, <2>4, SessStep
  <1> QED
    BY <1>1, <1>2, PTL DEF OperatorsSpec

\* What is refused as revoked was signed before the last cutoff, whatever a replica still
\* remembers (auth/rbac.ts); an account is locked after the failures that count and not before
\* (routes/auth.ts); no socket of a page outlives its sign-in (useWebSocket.ts); and a terminal
\* session is audited when it starts and when it ends (routes/ws.ts): for any requests, replicas,
\* mounts and sessions.
THEOREM SessionsStaySound == OperatorsSpec => []SessionsAreSound
  <1>1. FeedInv /\ ShellInv /\ SessInv => SessionsAreSound
    BY FeedIsSound, ShellIsSound, SessIsSound DEF SessionsAreSound
  <1> QED
    BY <1>1, SessionsAlways, PTL
=============================================================================
