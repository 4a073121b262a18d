-------------------------------- MODULE Host --------------------------------
(***************************************************************************)
(* The worker processes of one machine that share a data directory: the    *)
(* Windows service and a cw worker on a console.  Each hydrates the job    *)
(* records when it is made and takes the instance lock of its port only    *)
(* when it starts to serve.                                                *)
(*                                                                         *)
(* What one worker does with its jobs is in JobLifecycle; here a job is    *)
(* started, entered in the table, ends or is killed, and is recorded.      *)
(***************************************************************************)
EXTENDS Integers, FiniteSets

CONSTANTS
  Jobs,   \* identifiers of jobs
  Ports   \* ports that an instance may be given; DefaultPort is one

DefaultPort == "19000"
Instances == {"service", "console"}
NoJob == "no job"
Nobody == "nobody"

ASSUME HostAssumption == DefaultPort \in Ports /\ NoJob \notin Jobs

VARIABLES
  port,          \* per instance: its --port
  stage,         \* "off", "hydrating", "made", "locked", "up", "stopping",
                 \* or "zombie": a service whose Start has failed
  lock,          \* per instance: "none", "Global" or "Local" mutex
  unread,        \* per instance: the directories it has still to hydrate
  healing,       \* per instance: the RUNNING record it is about to heal
  victims,       \* per instance: the jobs that StopAllJobs has still to kill
  record,        \* per job: its directory: "none", "bare" without a job.json
                 \* that is whole, or its status: "RUNNING", "ended", "healed"
  owner, memory, \* per job: the instance that started it, its status there
  table,         \* the jobs that have entered their instance's table
  alive,         \* the jobs whose process runs
  settled,       \* history: jobs whose outcome was saved
  raced,         \* history: those saved while an instance was healing them
  misread        \* history: jobs whose job.json a start could not read

hostVars ==
  <<port, stage, lock, unread, healing, victims, record, owner, memory, table,
    alive, settled, raced, misread>>
instanceVars == <<port, stage, lock, unread, healing, victims>>
jobVars == <<record, owner, memory, table, alive, settled, raced, misread>>

All(value) == [i \in Instances |-> value]

HostInit ==
  /\ port \in [Instances -> Ports]
  /\ stage = All("off") /\ lock = All("none")
  /\ unread = All({}) /\ healing = All(NoJob) /\ victims = All({})
  /\ record = [j \in Jobs |-> "none"] /\ owner = [j \in Jobs |-> Nobody]
  /\ memory = [j \in Jobs |-> "none"]
  /\ table = {} /\ alive = {} /\ settled = {} /\ raced = {} /\ misread = {}

----------------------------------------------------------------------------
(* NewWorker: hydrateJobsFromDisk *)

\* SaveJobMeta.  Its callers ignore its error, which leaves job.json as it was
\* or, after the removal that makes room for the second rename, takes it away.
SaveJobMeta(j, status) ==
  \E kept \in {status, record[j], "bare"} : record' = [record EXCEPT ![j] = kept]

Launch(i) ==
  /\ stage[i] = "off"
  /\ stage' = [stage EXCEPT ![i] = "hydrating"]
  /\ unread' = [unread EXCEPT ![i] = {j \in Jobs : record[j] # "none"}]
  /\ UNCHANGED <<port, lock, healing, victims, jobVars>>

\* Seeded fault (OutcomeOutlivesStarts): every record is taken for a crash.
TakenForCrash(j) == record[j] # "none"
LooksInterrupted(j) == record[j] \in {"bare", "RUNNING"}

\* LoadJobMeta.  The next step heals a record that is still RUNNING, and writes
\* a STOPPED one for a log without a job.json that can be read: none is there,
\* or another process has it open or is putting it in its place.
HydrateRead(i, j) ==
  /\ stage[i] = "hydrating" /\ healing[i] = NoJob /\ j \in unread[i]
  /\ unread' = [unread EXCEPT ![i] = @ \ {j}]
  /\ \/ /\ healing' = [healing EXCEPT ![i] = IF LooksInterrupted(j) THEN j ELSE NoJob]
        /\ UNCHANGED misread
     \/ /\ healing' = [healing EXCEPT ![i] = j]
        /\ record[j] # "bare" /\ misread' = misread \cup {j}
  /\ UNCHANGED <<port, stage, lock, victims, record, owner, memory, table, alive,
                 settled, raced>>

\* The STOPPED record is saved, over what job.json has become by then.
HydrateHeal(i) ==
  /\ stage[i] = "hydrating" /\ healing[i] # NoJob
  /\ SaveJobMeta(healing[i], "healed")
  /\ healing' = [healing EXCEPT ![i] = NoJob]
  /\ UNCHANGED <<port, stage, lock, unread, victims, owner, memory, table,
                 alive, settled, raced, misread>>

Made(i) ==
  /\ stage[i] = "hydrating" /\ healing[i] = NoJob /\ unread[i] = {}
  /\ stage' = [stage EXCEPT ![i] = "made"]
  /\ UNCHANGED <<port, lock, unread, healing, victims, jobVars>>

----------------------------------------------------------------------------
(* Start: AcquireInstanceLock, Listen, and what a failure leaves *)

Held(kind, i) ==
  \E k \in Instances \ {i} : lock[k] = kind /\ port[k] = port[i]

\* The Global mutex, or a Local one when the Global one is denied.
Lock(i) ==
  /\ stage[i] = "made" /\ ~Held("Global", i)
  /\ \E kind \in {"Global", "Local"} :
       ~Held(kind, i) /\ lock' = [lock EXCEPT ![i] = kind]
  /\ stage' = [stage EXCEPT ![i] = "locked"]
  /\ UNCHANGED <<port, unread, healing, victims, jobVars>>

Listening(i) == stage[i] \in {"up", "stopping"}
PortTaken(i) == \E k \in Instances \ {i} : Listening(k) /\ port[k] = port[i]

Listen(i) ==
  /\ stage[i] = "locked" /\ ~PortTaken(i)
  /\ stage' = [stage EXCEPT ![i] = "up"]
  /\ UNCHANGED <<port, lock, unread, healing, victims, jobVars>>

\* The console's process ends with the error, the service's Start ignores it.
StartFails(i) ==
  /\ \/ stage[i] = "made" /\ (Held("Global", i) \/ Held("Local", i))
     \/ stage[i] = "locked"
  /\ stage' = [stage EXCEPT ![i] = IF i = "service" THEN "zombie" ELSE "off"]
  /\ lock' = [lock EXCEPT ![i] = "none"]
  /\ UNCHANGED <<port, unread, healing, victims, jobVars>>

----------------------------------------------------------------------------
(* Jobs *)

\* StartJob makes the directory and output.log.
StartJob(i, j) ==
  /\ Listening(i) /\ record[j] = "none"
  /\ record' = [record EXCEPT ![j] = "bare"]
  /\ owner' = [owner EXCEPT ![j] = i]
  /\ UNCHANGED <<instanceVars, memory, table, alive, settled, raced, misread>>

Starting(j) == owner[j] # Nobody /\ memory[j] = "none"

\* It starts the process and saves the first record.
Started(j) ==
  /\ Starting(j)
  /\ SaveJobMeta(j, "RUNNING")
  /\ memory' = [memory EXCEPT ![j] = "RUNNING"]
  /\ alive' = alive \cup {j}
  /\ UNCHANGED <<instanceVars, owner, table, settled, raced, misread>>

\* Without a process it returns the error, and leaves the directory.
NotStarted(j) ==
  /\ Starting(j)
  /\ owner' = [owner EXCEPT ![j] = Nobody]
  /\ UNCHANGED <<instanceVars, record, memory, table, alive, settled, raced, misread>>

Register(j) ==
  /\ memory[j] # "none" /\ j \notin table
  /\ table' = table \cup {j}
  /\ UNCHANGED <<instanceVars, record, owner, memory, alive, settled, raced, misread>>

ProcessExits(j) ==
  /\ j \in alive
  /\ alive' = alive \ {j}
  /\ UNCHANGED <<instanceVars, record, owner, memory, table, settled, raced, misread>>

\* Kill and waitExit set the status and save it under ManagedJob.mu; waitExit
\* saves what Kill has set once more.
Settle(j, status) ==
  /\ memory' = [memory EXCEPT ![j] = status]
  /\ SaveJobMeta(j, "ended")
  /\ settled' = IF record'[j] = "ended" THEN settled \cup {j} ELSE settled \ {j}
  /\ raced' = IF \E i \in Instances : healing[i] = j
              THEN raced \cup {j} ELSE raced \ {j}
  /\ UNCHANGED misread

WaitExit(j) ==
  /\ memory[j] \in {"RUNNING", "killed"} /\ j \notin alive
  /\ Settle(j, "ended")
  /\ UNCHANGED <<instanceVars, owner, table, alive>>

KillJob(j) ==
  /\ memory[j] = "RUNNING" /\ j \in table
  /\ Settle(j, "killed") /\ alive' = alive \ {j}
  /\ UNCHANGED <<instanceVars, owner, table>>

----------------------------------------------------------------------------
(* The end of an instance *)

OwnedBy(i) == {j \in Jobs : owner[j] = i}

\* Ctrl-C, or the service control manager: the context is cancelled, and
\* StopAllJobs begins.
Stop(i) ==
  /\ stage[i] = "up"
  /\ stage' = [stage EXCEPT ![i] = "stopping"]
  /\ victims' = [victims EXCEPT ![i] = OwnedBy(i) \cap table]
  /\ UNCHANGED <<port, lock, unread, healing, jobVars>>

StopKill(i, j) ==
  /\ stage[i] = "stopping" /\ j \in victims[i]
  /\ victims' = [victims EXCEPT ![i] = @ \ {j}]
  /\ IF memory[j] = "RUNNING"
     THEN Settle(j, "killed") /\ alive' = alive \ {j}
     ELSE UNCHANGED <<memory, record, settled, raced, misread, alive>>
  /\ UNCHANGED <<port, stage, lock, unread, healing, owner, table>>

\* KILL_ON_JOB_CLOSE: the jobs of a process end with it.
Die(i) ==
  /\ stage' = [stage EXCEPT ![i] = "off"]
  /\ lock' = [lock EXCEPT ![i] = "none"]
  /\ unread' = [unread EXCEPT ![i] = {}]
  /\ healing' = [healing EXCEPT ![i] = NoJob]
  /\ victims' = [victims EXCEPT ![i] = {}]
  /\ owner' = [j \in Jobs |-> IF owner[j] = i THEN Nobody ELSE owner[j]]
  /\ memory' = [j \in Jobs |-> IF owner[j] = i THEN "none" ELSE memory[j]]
  /\ table' = table \ OwnedBy(i) /\ alive' = alive \ OwnedBy(i)
  /\ UNCHANGED <<port, record, settled, raced, misread>>

\* The console waits for its victims and for the requests in progress;
\* serviceProgram.Stop waits for nothing.
Exit(i) ==
  /\ stage[i] \in {"stopping", "zombie"}
  /\ i = "console" => victims[i] = {} /\ OwnedBy(i) \subseteq table
  /\ Die(i)

Crash(i) == stage[i] # "off" /\ Die(i)

----------------------------------------------------------------------------
InstanceStep(i) ==
  \/ Launch(i) \/ HydrateHeal(i) \/ Made(i)
  \/ Lock(i) \/ Listen(i) \/ StartFails(i) \/ Stop(i) \/ Exit(i) \/ Crash(i)
  \/ \E j \in Jobs : HydrateRead(i, j) \/ StartJob(i, j) \/ StopKill(i, j)

JobStep(j) ==
  \/ Started(j) \/ NotStarted(j) \/ Register(j)
  \/ ProcessExits(j) \/ WaitExit(j) \/ KillJob(j)

HostNext == (\E i \in Instances : InstanceStep(i)) \/ \E j \in Jobs : JobStep(j)

HostSpec == HostInit /\ [][HostNext]_hostVars

----------------------------------------------------------------------------
(* Properties *)

HostTypeOK ==
  /\ port \in [Instances -> Ports]
  /\ stage \in [Instances -> {"off", "hydrating", "made", "locked", "up",
                              "stopping", "zombie"}]
  /\ lock \in [Instances -> {"none", "Global", "Local"}]
  /\ unread \in [Instances -> SUBSET Jobs]
  /\ healing \in [Instances -> Jobs \cup {NoJob}]
  /\ victims \in [Instances -> SUBSET Jobs]
  /\ record \in [Jobs -> {"none", "bare", "RUNNING", "ended", "healed"}]
  /\ owner \in [Jobs -> Instances \cup {Nobody}]
  /\ memory \in [Jobs -> {"none", "RUNNING", "killed", "ended"}]
  /\ table \in SUBSET Jobs /\ alive \in SUBSET Jobs
  /\ settled \in SUBSET Jobs /\ raced \in SUBSET Jobs
  /\ misread \in SUBSET Jobs

\* The outcome of a job that has been saved is never taken for an
\* interruption by a later start, of any instance, unless a start could not
\* read the record, or had read it (RUNNING, or none yet) before the outcome
\* was saved and was about to write its own (hydrateJobsFromDisk).
OutcomeOutlivesStarts ==
  \A j \in settled \ (raced \cup misread) : record[j] = "ended"

\* A RUNNING record that a start has healed is that of a process that the
\* kernel has ended with its worker: the comment of hydrateJobsFromDisk.
HealedJobsAreDead ==
  \A j \in Jobs : record[j] = "healed" => j \notin alive
=============================================================================
