-------------------------------- MODULE JobLease --------------------------------
(***************************************************************************)
(* A scheduled job that every instance of the server starts at the same    *)
(* time and one of them is to do.  They meet in the job's document: a      *)
(* lease that ends by itself, and the day that was completed last.  A run  *)
(* whose lease has ended is not stopped; it only loses its say.  The purges*)
(* and the ingest of market prices run again the same day if they failed;  *)
(* the morning digest tells the operator that it failed, and is done.      *)
(***************************************************************************)
EXTENDS Integers

CONSTANTS
  Instances,  \* instances of the server
  LastDay     \* bound: the days (slots); the last stands for all that follow

ASSUME JobAssumption == "nobody" \notin Instances /\ LastDay \in Nat \ {0}

Days == 1..LastDay

VARIABLES
  job,         \* which job it is: "digest", or "purge" for all the others
  today,       \* the day an instance computes as its slot
  lease,       \* the document's holderId and expiresAt
  completed,   \* its lastCompletedSlot; 0 if there is none
  runs,        \* runs[i]: what instance i does for the job, and for which day
  worked,      \* the days whose work was done to the end
  alerted      \* the days of which an alert said that the work had failed

jobVars == <<job, today, lease, completed, runs, worked, alerted>>

NoLease == [holder |-> "nobody", expiry |-> "passed"]
NoRun == [does |-> "nothing", day |-> 0, late |-> "no"]

HeldByAnyone == lease.holder # "nobody"
Held == lease.holder # "nobody" /\ lease.expiry = "ahead"

AlreadyDone(day) == completed = day

(* Who cannot reach the document skips the job; the digest tells so.       *)
AcquireJobLease(i) ==
  /\ runs[i].does = "nothing"
  /\ ~AlreadyDone(today) /\ ~Held
  /\ lease' = [holder |-> i, expiry |-> "ahead"]
  /\ runs' = [runs EXCEPT ![i] = [does |-> "work", day |-> today, late |-> "no"]]
  /\ UNCHANGED <<job, today, completed, worked, alerted>>

(* The work ends, or throws, or could be done in part only.  The digest's  *)
(* work is to collect it and to hand it to the alerts, which never throw   *)
(* and whose answer nobody looks at.                                       *)
DoWork(i) ==
  /\ runs[i].does = "work"
  /\ runs' = [runs EXCEPT ![i].does = "report"]
  /\ worked' = worked \union {runs[i].day}
  /\ UNCHANGED <<job, today, lease, completed, alerted>>

NoAlert(i) == alerted
FailureAlert(i) == IF job = "digest" THEN alerted \union {runs[i].day} ELSE alerted

FailWork(i) ==
  /\ runs[i].does = "work"
  /\ runs' = [runs EXCEPT ![i].does = "give up"]
  /\ alerted' = FailureAlert(i)
  /\ UNCHANGED <<job, today, lease, completed, worked>>

HoldsAnyLease(i) == TRUE
StillHolds(i) == lease.holder = i

HolderCleared == [lease EXCEPT !.holder = "nobody"]
Released == NoLease

CompletedWhateverHappened(i) == runs[i].day
Succeeded(i) == runs[i].does = "report" \/ job = "digest"
CompletedBy(i) == IF Succeeded(i) THEN runs[i].day ELSE completed

CompleteJobLease(i) ==
  /\ runs[i].does \in {"report", "give up"}
  /\ IF StillHolds(i)
     THEN lease' = Released /\ completed' = CompletedBy(i)
     ELSE UNCHANGED <<lease, completed>>
  /\ runs' = [runs EXCEPT ![i] = NoRun]
  /\ UNCHANGED <<job, today, worked, alerted>>

(* The instance dies, or its last transaction is refused: the lease stays. *)
AbandonRun(i) ==
  /\ runs[i].does # "nothing"
  /\ runs' = [runs EXCEPT ![i] = NoRun]
  /\ UNCHANGED <<job, today, lease, completed, worked, alerted>>

LeaseExpires ==
  /\ lease.expiry = "ahead"
  /\ lease' = [lease EXCEPT !.expiry = "passed"]
  /\ runs' = [i \in Instances |->
                IF i = lease.holder /\ runs[i].does # "nothing" THEN [runs[i] EXCEPT !.late = "yes"]
                ELSE runs[i]]
  /\ UNCHANGED <<job, today, completed, worked, alerted>>

NextDay ==
  /\ today < LastDay
  /\ today' = today + 1
  /\ UNCHANGED <<job, lease, completed, runs, worked, alerted>>
-------------------------------------------------------------------------------
JobInit ==
  /\ job \in {"purge", "digest"}
  /\ today = 1 /\ lease = NoLease /\ completed = 0
  /\ runs = [i \in Instances |-> NoRun] /\ worked = {} /\ alerted = {}

JobNext ==
  \/ \E i \in Instances :
       AcquireJobLease(i) \/ DoWork(i) \/ FailWork(i) \/ CompleteJobLease(i) \/ AbandonRun(i)
  \/ LeaseExpires \/ NextDay

JobSpec == JobInit /\ [][JobNext]_jobVars

(* The scheduler calls the job every day on some instance that stays up;   *)
(* with the last day standing for all later ones, it is called again and   *)
(* again.  Runs end, and work that could be done and reported within the   *)
(* lease time after time is (the lease is chosen longer than the work).    *)
JobFairness ==
  \E i \in Instances :
    /\ SF_jobVars(AcquireJobLease(i)) /\ SF_jobVars(StillHolds(i) /\ DoWork(i))
    /\ SF_jobVars(StillHolds(i) /\ runs[i].does = "report" /\ CompleteJobLease(i))
    /\ WF_jobVars(DoWork(i) \/ FailWork(i) \/ CompleteJobLease(i) \/ AbandonRun(i))
    /\ WF_jobVars(LeaseExpires)
-------------------------------------------------------------------------------
(* The document and the runs keep their types, and a lease nobody holds is *)
(* not running.                                                            *)
JobTypeOK ==
  /\ job \in {"purge", "digest"}
  /\ today \in Days /\ completed \in {0} \union Days
  /\ worked \subseteq Days /\ alerted \subseteq Days
  /\ lease \in [holder : Instances \union {"nobody"}, expiry : {"ahead", "passed"}]
  /\ lease.holder = "nobody" => lease.expiry = "passed"
  /\ runs \in [Instances -> [does : {"nothing", "work", "report", "give up"},
                             day : {0} \union Days, late : {"no", "yes"}]]
  /\ \A i \in Instances : runs[i].does # "nothing" => runs[i].day \in 1..today

(* What has to be known of a day before it may be recorded as completed:   *)
(* that its work was done or, of the digest alone, that an alert said it   *)
(* had failed (OpsDigestService.sendDailyDigest).                          *)
Accounted == worked \union (IF job = "digest" THEN alerted ELSE {})

(* A completed day is settled: a failed purge or ingest completes nothing, *)
(* and a failed digest none it was silent about.  And it is never worked on*)
(* again, although only the last one is remembered: a run that comes back a*)
(* day late cannot put the record back, and one whose lease another run    *)
(* took completes nothing.                                                 *)
CompletedDaysStayDone ==
  [][/\ completed' >= completed /\ completed' \in {0} \union Accounted'
     /\ \A i \in Instances :
          runs[i].does = "nothing" /\ runs'[i].does = "work" => runs'[i].day > completed]_jobVars

(* Two instances do the job at once only if the earlier one outlived its   *)
(* lease (acquireJobLease): the others hold none.                          *)
TimelyRuns == {i \in Instances : runs[i].does # "nothing" /\ runs[i].late = "no"}
TimelyRunsAreAlone == \A i, j \in TimelyRuns : i = j

(* No crash, failure or lease left behind keeps the job from being done    *)
(* for good: called day after day, some day it is recorded as completed.   *)
LastDayIsCompleted == today = LastDay ~> completed = LastDay
===============================================================================
