----------------------------- MODULE HostProofs -----------------------------
(***************************************************************************)
(* Two worker processes and cw update, for any jobs, ports and versions:   *)
(* what a start may rewrite, what an update leaves of the binaries, which  *)
(* jobs its restart may end.                                               *)
(***************************************************************************)
EXTENDS SelfUpdate, TLAPS

-----------------------------------------------------------------------------
(* An outcome that no healer is about to overwrite stays.                   *)

\* A job that has no directory or no process yet has no outcome.
OutcomeInv ==
  /\ \A j \in settled \ (raced \cup misread) :
       /\ j \in Jobs /\ record[j] = "ended"
       /\ \A i \in Instances : healing[i] # j
  /\ \A j \in settled : record[j] # "none" /\ ~Starting(j)

HostInv == HostTypeOK /\ OutcomeInv

LEMMA HostInitType == HostInit => HostInv
BY HostAssumption DEF Starting, HostInit, HostInv, HostTypeOK, OutcomeInv, All

\* A save that fails leaves the record as it was, or takes it away.
LEMMA SaveOutcomes ==
  ASSUME HostTypeOK, NEW j \in Jobs, NEW status \in {"RUNNING", "ended", "healed"},
         SaveJobMeta(j, status)
  PROVE  /\ record' \in [Jobs -> {"none", "bare", "RUNNING", "ended", "healed"}]
         /\ record'[j] \in {status, record[j], "bare"}
         /\ \A k \in Jobs \ {j} : record'[k] = record[k]
BY DEF HostTypeOK, SaveJobMeta

\* The instances' own steps: only a healer writes a record, and only of a job
\* that it had found RUNNING, or whose job.json it could not read.
LEMMA InstanceKeepsType ==
  ASSUME HostInv, NEW i \in Instances,
         Launch(i) \/ HydrateHeal(i) \/ Made(i) \/ Lock(i) \/ Listen(i)
           \/ StartFails(i) \/ Stop(i)
  PROVE  HostInv'
<1> USE HostAssumption DEF HostInv, HostTypeOK, jobVars, Starting
<1>1. CASE Launch(i) \/ Made(i) \/ Listen(i)
  BY <1>1 DEF Launch, Made, Listen, OutcomeInv
<1>2. CASE Lock(i) \/ StartFails(i)
  BY <1>2 DEF Lock, StartFails, OutcomeInv
<1>3. CASE Stop(i)
  BY <1>3 DEF Stop, OwnedBy, OutcomeInv
<1>4. CASE HydrateHeal(i)
  <2>1. healing[i] \in Jobs
    BY <1>4 DEF HydrateHeal
  <2>2. /\ record' \in [Jobs -> {"none", "bare", "RUNNING", "ended", "healed"}]
        /\ \A k \in Jobs \ {healing[i]} : record'[k] = record[k]
    BY <1>4, <2>1, SaveOutcomes DEF HydrateHeal
  <2>3. HostTypeOK'
    BY <1>4, <2>2 DEF HydrateHeal
  <2>4. \A k \in Jobs : record[k] # "none" => record'[k] # "none"
    BY <1>4, <2>1, SaveOutcomes DEF HydrateHeal
  <2>5. OutcomeInv'
    BY <1>4, <2>1, <2>2, <2>4 DEF HydrateHeal, OutcomeInv
  <2> QED BY <2>3, <2>5
<1> QED BY <1>1, <1>2, <1>3, <1>4

LEMMA DieKeeps ==
  ASSUME HostInv, NEW i \in Instances, Die(i) PROVE HostInv'
<1> USE HostAssumption DEF HostInv, HostTypeOK, Starting
<1>1. HostTypeOK'
  BY DEF Die
<1>2. OutcomeInv'
  BY DEF Die, OutcomeInv
<1> QED BY <1>1, <1>2

LEMMA SettleKeeps ==
  ASSUME HostInv, NEW j \in Jobs, NEW status \in {"killed", "ended"},
         Settle(j, status), UNCHANGED <<port, stage, lock, unread, healing, owner, table>>,
         victims' \in [Instances -> SUBSET Jobs], alive' \in SUBSET Jobs
  PROVE  HostInv'
<1> USE DEF HostInv, HostTypeOK, Starting
<1>1. /\ record' \in [Jobs -> {"none", "bare", "RUNNING", "ended", "healed"}]
      /\ \A k \in Jobs \ {j} : record'[k] = record[k]
  BY SaveOutcomes DEF Settle
<1>2. HostTypeOK'
  BY <1>1 DEF Settle
<1>3. OutcomeInv'
  BY <1>1 DEF Settle, OutcomeInv
<1> QED BY <1>2, <1>3

LEMMA InstanceJobKeeps ==
  ASSUME HostInv, NEW i \in Instances, NEW j \in Jobs,
         HydrateRead(i, j) \/ StartJob(i, j) \/ StopKill(i, j)
  PROVE  HostInv'
<1> USE HostAssumption DEF HostInv, HostTypeOK, jobVars, instanceVars, Starting
<1>1. CASE HydrateRead(i, j)
  <2>1. HostTypeOK'
    BY <1>1 DEF HydrateRead
  <2>2. OutcomeInv'
    BY <1>1 DEF HydrateRead, LooksInterrupted, OutcomeInv
  <2> QED BY <2>1, <2>2
<1>2. CASE StartJob(i, j)
  <2>1. HostTypeOK'
    BY <1>2 DEF StartJob
  <2>2. OutcomeInv'
    BY <1>2 DEF StartJob, OutcomeInv
  <2> QED BY <2>1, <2>2
<1>3. CASE StopKill(i, j)
  <2>1. victims' \in [Instances -> SUBSET Jobs]
    BY <1>3 DEF StopKill
  <2>2. CASE memory[j] = "RUNNING"
    BY <1>3, <2>1, <2>2, SettleKeeps DEF StopKill
  <2>3. CASE memory[j] # "RUNNING"
    BY <1>3, <2>1, <2>3 DEF StopKill, OutcomeInv
  <2> QED BY <2>2, <2>3
<1> QED BY <1>1, <1>2, <1>3

LEMMA JobKeeps ==
  ASSUME HostInv, NEW j \in Jobs, JobStep(j) PROVE HostInv'
<1> USE DEF HostInv, HostTypeOK, instanceVars, Starting
<1>1. CASE Register(j) \/ ProcessExits(j) \/ NotStarted(j)
  BY <1>1 DEF Register, ProcessExits, NotStarted, OutcomeInv
<1>2. CASE WaitExit(j)
  BY <1>2, SettleKeeps DEF WaitExit
<1>3. CASE KillJob(j)
  BY <1>3, SettleKeeps DEF KillJob
<1>4. CASE Started(j)
  <2>1. /\ record' \in [Jobs -> {"none", "bare", "RUNNING", "ended", "healed"}]
        /\ \A k \in Jobs \ {j} : record'[k] = record[k]
    BY <1>4, SaveOutcomes DEF Started
  <2>2. HostTypeOK'
    BY <1>4, <2>1 DEF Started
  <2>3. j \notin settled
    BY <1>4 DEF Started, OutcomeInv
  <2>4. OutcomeInv'
    BY <1>4, <2>1, <2>3 DEF Started, OutcomeInv
  <2> QED BY <2>2, <2>4
<1> QED BY <1>1, <1>2, <1>3, <1>4 DEF JobStep

LEMMA HostKeeps == HostInv /\ [HostNext]_hostVars => HostInv'
<1> SUFFICES ASSUME HostInv, [HostNext]_hostVars PROVE HostInv'
  OBVIOUS
<1>1. CASE UNCHANGED hostVars
  BY <1>1 DEF hostVars, HostInv, HostTypeOK, OutcomeInv, Starting
<1>2. ASSUME NEW i \in Instances, InstanceStep(i) PROVE HostInv'
  BY <1>2, InstanceKeepsType, DieKeeps, InstanceJobKeeps
     DEF InstanceStep, Exit, Crash
<1>3. ASSUME NEW j \in Jobs, JobStep(j) PROVE HostInv'
  BY <1>3, JobKeeps
<1> QED BY <1>1, <1>2, <1>3 DEF HostNext

\* Every variable of the worker processes keeps its type.
THEOREM HostTypeCorrect == HostSpec => []HostTypeOK
<1>1. HostInv => HostTypeOK
  BY DEF HostInv
<1> QED BY <1>1, HostInitType, HostKeeps, PTL DEF HostSpec

\* No start of any instance takes a saved outcome for an interruption, unless
\* it could not read the record, or had read it before and was about to write
\* its own.
THEOREM OutcomesSurvive == HostSpec => []OutcomeOutlivesStarts
<1>1. HostInv => OutcomeOutlivesStarts
  BY DEF HostInv, OutcomeInv, OutcomeOutlivesStarts
<1> QED BY <1>1, HostInitType, HostKeeps, PTL DEF HostSpec

-----------------------------------------------------------------------------
(* The steps of an update, seen from the worker processes.                  *)

LEMMA UpdateStepsHost == [UpdateNext]_<<hostVars, updateVars>> => [HostNext]_hostVars
<1> SUFFICES ASSUME UpdateStep PROVE [HostNext]_hostVars
  BY DEF UpdateNext, HostMoves
<1>1. CASE RestartStop
  BY <1>1 DEF RestartStop, HostNext, InstanceStep, Instances
<1>2. CASE RestartStart
  BY <1>2 DEF RestartStart, HostNext, InstanceStep, Instances
<1>3. CASE Fetch \/ Download \/ VerifyChecksum \/ UpdateEnds
  BY <1>3 DEF Fetch, Download, VerifyChecksum, UpdateEnds, Goto
<1>4. CASE CheckRunningJobs
  BY <1>4 DEF CheckRunningJobs, Goto
<1>5. CASE PickTarget \/ WriteBegins \/ WriteEnds \/ PlaceFirst
  BY <1>5 DEF PickTarget, WriteBegins, WriteEnds, PlaceFirst, Within, Applied,
              NotApplied, Proceed
<1>6. CASE ClearOld \/ MoveAside \/ Place \/ Tidy
  BY <1>6 DEF ClearOld, MoveAside, Place, Tidy, Within, Applied, NotApplied, Proceed
<1> QED BY <1>1, <1>2, <1>3, <1>4, <1>5, <1>6 DEF UpdateStep

\* A machine on which cw update runs is one whose workers behave as Host says,
\* so what is proved of Host holds there, too.
THEOREM UpdateIsHost == UpdateSpec => HostSpec
<1>1. UpdateInit => HostInit
  BY DEF UpdateInit
<1> QED BY <1>1, UpdateStepsHost, PTL DEF UpdateSpec, HostSpec

-----------------------------------------------------------------------------
(* The restart.  A job of the service's table that the check has not seen   *)
(* RUNNING is not started again.                                            *)

JobsFit ==
  \A j \in Jobs : /\ owner[j] # Nobody => record[j] # "none"
                  /\ j \in table => memory[j] # "none"
                  /\ memory[j] # "none" => owner[j] # Nobody

NewlyRunning ==
  {j \in OwnedBy("service") \cap table : memory[j] = "RUNNING"}

RestartInv ==
  /\ asked \in Instances \cup {Nobody}
  /\ update # "restarting" => killed = {}
  /\ asked = "service" => NewlyRunning \subseteq later /\ killed \subseteq later

LEMMA JobsFitInit == HostInit => JobsFit
BY DEF HostInit, JobsFit

LEMMA SettleFits ==
  ASSUME HostInv, JobsFit, NEW j \in Jobs, NEW status \in {"killed", "ended"},
         memory[j] # "none", Settle(j, status), UNCHANGED <<owner, table>>
  PROVE  JobsFit'
<1>1. \A k \in Jobs : record[k] # "none" => record'[k] # "none"
  BY SaveOutcomes DEF HostInv, HostTypeOK, Settle
<1> QED BY <1>1 DEF HostInv, HostTypeOK, JobsFit, Settle

LEMMA JobsFitKept == HostInv /\ JobsFit /\ [HostNext]_hostVars => JobsFit'
<1> SUFFICES ASSUME HostInv, JobsFit, [HostNext]_hostVars PROVE JobsFit'
  OBVIOUS
<1> USE DEF HostInv, HostTypeOK, JobsFit, jobVars, instanceVars
<1>1. CASE UNCHANGED hostVars
  BY <1>1 DEF hostVars
<1>2. ASSUME NEW i \in Instances, InstanceStep(i) PROVE JobsFit'
  <2>1. CASE Launch(i) \/ Made(i) \/ Lock(i) \/ Listen(i) \/ StartFails(i) \/ Stop(i)
    BY <2>1 DEF Launch, Made, Lock, Listen, StartFails, Stop
  <2>2. CASE HydrateHeal(i)
    <3>1. \A k \in Jobs : record[k] # "none" => record'[k] # "none"
      BY <2>2, SaveOutcomes DEF HydrateHeal
    <3> QED BY <2>2, <3>1 DEF HydrateHeal
  <2>3. CASE Die(i)
    BY <2>3 DEF Die, OwnedBy
  <2>4. ASSUME NEW j \in Jobs, HydrateRead(i, j) \/ StartJob(i, j) \/ StopKill(i, j)
        PROVE JobsFit'
    <3>1. CASE HydrateRead(i, j)
      BY <3>1 DEF HydrateRead
    <3>2. CASE StartJob(i, j)
      BY <3>2 DEF StartJob, Instances, Nobody
    <3>3. CASE StopKill(i, j)
      BY <3>3, SettleFits DEF StopKill
    <3> QED BY <2>4, <3>1, <3>2, <3>3
  <2> QED BY <1>2, <2>1, <2>2, <2>3, <2>4 DEF InstanceStep, Exit, Crash
<1>3. ASSUME NEW j \in Jobs, JobStep(j) PROVE JobsFit'
  <2>1. CASE Register(j) \/ ProcessExits(j) \/ NotStarted(j)
    BY <2>1 DEF Register, ProcessExits, NotStarted, Starting
  <2>2. CASE WaitExit(j) \/ KillJob(j)
    BY <2>2, SettleFits DEF WaitExit, KillJob
  <2>3. CASE Started(j)
    <3>1. \A k \in Jobs : record[k] # "none" => record'[k] # "none"
      BY <2>3, SaveOutcomes DEF Started
    <3> QED BY <2>3, <3>1 DEF Started, Starting
  <2> QED BY <1>3, <2>1, <2>2, <2>3 DEF JobStep
<1> QED BY <1>1, <1>2, <1>3 DEF HostNext

\* No step of the workers makes a job of the table RUNNING: only an entry does.
LEMMA OnlyEntriesRun ==
  ASSUME HostInv, JobsFit, [HostNext]_hostVars
  PROVE  NewlyRunning' \subseteq NewlyRunning \cup (table' \ table)
<1> SUFFICES ASSUME NEW k \in Jobs, owner'[k] = "service", k \in table, k \in table',
                    memory'[k] = "RUNNING"
             PROVE  owner[k] = "service" /\ memory[k] = "RUNNING"
  BY DEF NewlyRunning, OwnedBy
<1> USE DEF HostInv, HostTypeOK, JobsFit, jobVars, instanceVars
<1>1. CASE UNCHANGED hostVars
  BY <1>1 DEF hostVars
<1>2. ASSUME NEW i \in Instances, InstanceStep(i)
      PROVE  owner[k] = "service" /\ memory[k] = "RUNNING"
  <2>1. CASE Launch(i) \/ Made(i) \/ Lock(i) \/ Listen(i) \/ StartFails(i) \/ Stop(i)
    BY <2>1 DEF Launch, Made, Lock, Listen, StartFails, Stop
  <2>2. CASE HydrateHeal(i)
    BY <2>2 DEF HydrateHeal
  <2>3. CASE Die(i)
    BY <2>3 DEF Die, OwnedBy, Nobody
  <2>4. ASSUME NEW j \in Jobs, HydrateRead(i, j) \/ StartJob(i, j) \/ StopKill(i, j)
        PROVE  owner[k] = "service" /\ memory[k] = "RUNNING"
    <3>1. CASE HydrateRead(i, j)
      BY <3>1 DEF HydrateRead
    <3>2. CASE StartJob(i, j)
      BY <3>2 DEF StartJob
    <3>3. CASE StopKill(i, j)
      BY <3>3 DEF StopKill, Settle
    <3> QED BY <2>4, <3>1, <3>2, <3>3
  <2> QED BY <1>2, <2>1, <2>2, <2>3, <2>4 DEF InstanceStep, Exit, Crash
<1>3. ASSUME NEW j \in Jobs, JobStep(j)
      PROVE  owner[k] = "service" /\ memory[k] = "RUNNING"
  <2>1. CASE Register(j) \/ ProcessExits(j)
    BY <1>3, <2>1 DEF Register, ProcessExits
  <2>2. CASE WaitExit(j) \/ KillJob(j)
    BY <1>3, <2>2 DEF WaitExit, KillJob, Settle
  <2>3. CASE Started(j) \/ NotStarted(j)
    BY <1>3, <2>3 DEF Started, NotStarted, Starting
  <2> QED BY <1>3, <2>1, <2>2, <2>3 DEF JobStep
<1> QED BY <1>1, <1>2, <1>3 DEF HostNext

\* An update without --force ends no job that the service had in its table
\* when it answered the check, whatever the workers do meanwhile.
THEOREM KnownJobsSpared == UpdateSpec => []UpdateSparesKnownJobs
<1> DEFINE Inv == HostInv /\ JobsFit /\ RestartInv
<1>1. UpdateInit => Inv
  BY HostInitType, JobsFitInit DEF UpdateInit, RestartInv, Nobody
<1>2. Inv /\ [UpdateNext]_<<hostVars, updateVars>> => Inv'
  <2> SUFFICES ASSUME Inv, [UpdateNext]_<<hostVars, updateVars>> PROVE Inv'
    OBVIOUS
  <2>1. HostInv' /\ JobsFit'
    BY UpdateStepsHost, HostKeeps, JobsFitKept
  <2>2. NewlyRunning' \subseteq NewlyRunning \cup (table' \ table)
    BY UpdateStepsHost, OnlyEntriesRun
  <2>3. RestartInv'
    <3> USE DEF RestartInv
    <3>1. CASE UNCHANGED <<hostVars, updateVars>>
      BY <3>1 DEF hostVars, updateVars, pastVars, NewlyRunning, OwnedBy
    <3>2. CASE HostMoves
      <4>1. EndedNow \subseteq NewlyRunning
        BY DEF EndedNow, NewlyRunning
      <4> QED BY <2>2, <3>2, <4>1 DEF HostMoves, Nobody
    <3>3. CASE RestartStop
      <4>1. UNCHANGED <<owner, memory, table>>
        BY <3>3 DEF RestartStop, Stop, hostVars, jobVars
      <4> QED BY <3>3, <4>1 DEF RestartStop, pastVars, NewlyRunning, OwnedBy
    <3>4. CASE RestartStart \/ UpdateEnds
      BY <3>4 DEF RestartStart, UpdateEnds, Over, Nobody
    <3>5. CASE CheckRunningJobs
      <4>1. CASE UNCHANGED <<hostVars, pastVars>> /\ update' = "checked"
        BY <3>5, <4>1 DEF CheckRunningJobs, hostVars, pastVars, NewlyRunning, OwnedBy
      <4>2. CASE Over
        BY <4>2 DEF Over, Nobody
      <4>3. ASSUME NEW i \in Instances, ActiveJobs(i) = {}, asked' = i,
                   UNCHANGED <<hostVars, later, killed>>, update' = "checked"
            PROVE  RestartInv'
        <5>1. i = "service" => NewlyRunning = {}
          BY <4>3 DEF ActiveJobs, NewlyRunning
        <5>2. NewlyRunning' = NewlyRunning
          BY <4>3 DEF hostVars, NewlyRunning, OwnedBy
        <5> QED BY <3>5, <4>3, <5>1, <5>2 DEF CheckRunningJobs
      <4> QED BY <3>5, <4>1, <4>2, <4>3 DEF CheckRunningJobs, Goto
    <3>6. CASE Fetch \/ Download \/ VerifyChecksum
      BY <3>6 DEF Fetch, Download, VerifyChecksum, Goto, hostVars, pastVars,
                  NewlyRunning, OwnedBy
    <3>7. CASE PickTarget \/ WriteBegins \/ WriteEnds \/ PlaceFirst
      BY <3>7 DEF PickTarget, WriteBegins, WriteEnds, PlaceFirst, Within, Applied,
                  NotApplied, Proceed, hostVars, pastVars, NewlyRunning, OwnedBy
    <3>8. CASE ClearOld \/ MoveAside \/ Place \/ Tidy
      BY <3>8 DEF ClearOld, MoveAside, Place, Tidy, Within, Applied, NotApplied,
                  Proceed, hostVars, pastVars, NewlyRunning, OwnedBy
    <3> QED BY <3>1, <3>2, <3>3, <3>4, <3>5, <3>6, <3>7, <3>8
            DEF UpdateNext, UpdateStep
  <2> QED BY <2>1, <2>3
<1>3. Inv => UpdateSparesKnownJobs
  BY DEF RestartInv, UpdateSparesKnownJobs
<1> QED BY <1>1, <1>2, <1>3, PTL DEF UpdateSpec

-----------------------------------------------------------------------------
(* Versions: the comparison part by part is the order of the versions.      *)

LEMMA PartInRange ==
  ASSUME NEW v \in Seq(Parts), Len(v) <= 3, NEW k \in Nat \ {0}
  PROVE  Part(v, k) \in 0..99 /\ (k > 3 => Part(v, k) = 0)
<1>1. CASE k <= Len(v)
  <2>1. v[k] \in Parts
    BY <1>1
  <2> QED BY <1>1, <2>1 DEF Part, Atoi, Parts
<1>2. CASE ~(k <= Len(v))
  BY <1>2 DEF Part
<1> QED BY <1>1, <1>2

LEMMA AboveIsHigher ==
  ASSUME NEW latest \in Versions, NEW own \in Versions, IsAbove(latest, own)
  PROVE  Higher(latest, own)
<1>1. latest \in Seq(Parts) /\ Len(latest) <= 3 /\ own \in Seq(Parts) /\ Len(own) <= 3
  BY VersionsAssumption
<1>2. PICK k \in 1..(Len(latest) + Len(own)) :
        /\ Part(latest, k) > Part(own, k)
        /\ \A m \in 1..(k - 1) : Part(latest, m) = Part(own, m)
  BY DEF IsAbove
<1>3. k \in Nat \ {0}
  BY <1>1, <1>2
<1>4. \A n \in Nat \ {0} : /\ Part(latest, n) \in 0..99
                           /\ Part(own, n) \in 0..99
                           /\ n > 3 => Part(latest, n) = 0 /\ Part(own, n) = 0
  BY <1>1, PartInRange
<1>5. k \in {1, 2, 3}
  BY <1>2, <1>3, <1>4
<1> DEFINE a == Part(latest, 1) b == Part(latest, 2) c == Part(latest, 3)
           d == Part(own, 1) e == Part(own, 2) f == Part(own, 3)
<1>6. a > d \/ (a = d /\ b > e) \/ (a = d /\ b = e /\ c > f)
  BY <1>2, <1>5
<1>7. a \in 0..99 /\ b \in 0..99 /\ c \in 0..99 /\ d \in 0..99 /\ e \in 0..99 /\ f \in 0..99
  BY <1>4
<1>8. Weight(latest) = 10000 * a + 100 * b + c /\ Weight(own) = 10000 * d + 100 * e + f
  BY DEF Weight
<1> HIDE DEF a, b, c, d, e, f
<1>9. 10000 * a + 100 * b + c > 10000 * d + 100 * e + f
  BY <1>6, <1>7
<1> QED BY <1>8, <1>9 DEF Higher

-----------------------------------------------------------------------------
(* The replacement.  Between the two renames the binary is .old; what is to *)
(* take its place is whole and sound from the end of its writing on.        *)

Binaries == {"none", "first", "newer", "stale", "damaged", "partial"}
Fetched == {"fetched", "checked", "downloaded"}

FileTypes ==
  /\ exe \in [Files -> Binaries] /\ old \in [Files -> Binaries]
  /\ temp \in [Files -> Binaries] /\ had \subseteq Files

ContentFits ==
  /\ content = "stale" => force
  /\ content \in {"none", "newer", "stale", "damaged"}
  /\ update \in Fetched => content # "none"
  /\ update \notin Fetched \cup {"idle"} => content \in Sound

FilesFit ==
  /\ BinarySurvives
  /\ update \in {"written", "aside", "place"} => temp[File] = content
  /\ update = "aside" => exe[File] # "none"
  /\ update = "place" => old[File] \in Sound
  /\ update = "tidy" => exe[File] \in Sound

FileInv == FileTypes /\ ContentFits /\ FilesFit

LEMMA FileIsFile == File \in Files
BY DEF File, Files

LEMMA SoundIsBinary == Sound \subseteq Binaries \ {"none"}
BY DEF Sound, Binaries

\* What the steps up to the replacement, and after it, do to the binaries.
LEMMA BeforeAndAfterKeep ==
  ASSUME FileInv, UNCHANGED <<choiceVars, fileVars>>, ContentFits',
         \/ update' \notin {"written", "aside", "place", "tidy"}
         \/ UNCHANGED <<update, content, target>>
  PROVE  FileInv'
BY DEF FileInv, FileTypes, FilesFit, choiceVars, fileVars, BinarySurvives, Sound, File

\* A step within the replacement keeps the content, which is sound.
LEMMA ContentStays ==
  ASSUME FileInv, UNCHANGED <<choiceVars, content>>,
         update \notin Fetched \cup {"idle"}, update' \notin Fetched \cup {"idle"}
  PROVE  ContentFits'
BY DEF FileInv, ContentFits, choiceVars, Sound, Fetched

LEMMA FetchKeeps ==
  ASSUME FileInv, Fetch \/ CheckRunningJobs \/ Download \/ VerifyChecksum
                    \/ RestartStop \/ RestartStart \/ UpdateEnds
  PROVE  FileInv'
<1>1. UNCHANGED <<choiceVars, fileVars>>
  BY DEF Fetch, CheckRunningJobs, Download, VerifyChecksum, RestartStop,
         RestartStart, UpdateEnds, Goto, Over
<1>2. update' \notin {"written", "aside", "place", "tidy"}
  BY DEF Fetch, CheckRunningJobs, Download, VerifyChecksum, RestartStop,
         RestartStart, UpdateEnds, Goto, Over
<1>3. ContentFits'
  <2> USE DEF FileInv, ContentFits, Fetched
  <2>1. CASE Fetch
    <3>1. PICK latest \in Versions, own \in Versions :
            /\ force \/ IsAbove(latest, own)
            /\ content' = IF Higher(latest, own) THEN "newer" ELSE "stale"
      BY <2>1 DEF Fetch
    <3>2. content' = "newer" \/ (content' = "stale" /\ force)
      BY <3>1, AboveIsHigher
    <3> QED BY <1>1, <2>1, <3>2 DEF Fetch, choiceVars
  <2>2. CASE CheckRunningJobs
    BY <1>1, <2>2 DEF CheckRunningJobs, Goto, Over, choiceVars
  <2>3. CASE Download
    BY <1>1, <2>3 DEF Download, Goto, choiceVars
  <2>4. CASE VerifyChecksum
    <3>1. content \in Sound
      BY <2>4 DEF VerifyChecksum, Sound
    <3> QED BY <1>1, <2>4, <3>1 DEF VerifyChecksum, Goto, choiceVars, Sound
  <2>5. CASE RestartStop
    BY <1>1, <2>5 DEF RestartStop, choiceVars, Sound
  <2>6. CASE RestartStart \/ UpdateEnds
    BY <1>1, <2>6 DEF RestartStart, UpdateEnds, Over, choiceVars
  <2> QED BY <2>1, <2>2, <2>3, <2>4, <2>5, <2>6
<1> QED BY <1>1, <1>2, <1>3, BeforeAndAfterKeep

LEMMA WritesKeep ==
  ASSUME FileInv, PickTarget \/ WriteBegins \/ WriteEnds
  PROVE  FileInv'
<1> USE DEF Within, Applied, NotApplied, Proceed
<1>1. UNCHANGED <<choiceVars, content, exe, old>>
  BY DEF PickTarget, WriteBegins, WriteEnds, fileVars
<1>2. update \notin Fetched \cup {"idle"} /\ update' \notin Fetched \cup {"idle"}
  BY DEF PickTarget, WriteBegins, WriteEnds, Fetched
<1>3. ContentFits'
  BY <1>1, <1>2, ContentStays
<1>4. content \in Binaries
  BY DEF FileInv, ContentFits, Binaries
<1>5. FileTypes'
  BY <1>1, <1>4, FileIsFile
     DEF PickTarget, WriteBegins, WriteEnds, Put, fileVars, FileInv, FileTypes,
         Binaries, choiceVars
<1>6. BinarySurvives'
  BY <1>1 DEF FileInv, FilesFit, BinarySurvives, Sound, choiceVars
<1>7. update' \notin {"aside", "place", "tidy"}
  BY DEF PickTarget, WriteBegins, WriteEnds
<1>8. update' = "written" => temp'[File'] = content'
  BY <1>1, FileIsFile
     DEF PickTarget, WriteBegins, WriteEnds, Put, File, FileInv, FileTypes
<1> QED BY <1>3, <1>5, <1>6, <1>7, <1>8 DEF FileInv, FilesFit

\* The renames.
LEMMA RenamesKeep ==
  ASSUME FileInv, PlaceFirst \/ ClearOld \/ MoveAside \/ Place \/ Tidy
  PROVE  FileInv'
<1> USE DEF Within, Applied, NotApplied, Proceed
<1>1. UNCHANGED <<choiceVars, content>>
  BY DEF PlaceFirst, ClearOld, MoveAside, Place, Tidy
<1>2. update \notin Fetched \cup {"idle"} /\ update' \notin Fetched \cup {"idle"}
  BY DEF PlaceFirst, ClearOld, MoveAside, Place, Tidy, Fetched
<1>3. ContentFits' /\ content \in Sound
  BY <1>1, <1>2, ContentStays DEF FileInv, ContentFits
<1>4. Sound' = Sound /\ had' = had
  BY <1>1 DEF Sound, choiceVars
<1>5. \A f \in Files : exe[f] \in Sound \cup {"none"}
  BY DEF FileInv, FilesFit, BinarySurvives
<1> USE FileIsFile, SoundIsBinary DEF FileInv, FileTypes, FilesFit, Put, BinarySurvives
<1>6. CASE PlaceFirst
  <2>1. temp[File] \in Sound /\ update' \notin {"written", "aside", "place", "tidy"}
    BY <1>3, <1>6 DEF PlaceFirst
  <2>2. FileTypes'
    BY <1>4, <1>6, <2>1 DEF PlaceFirst, Binaries
  <2>3. BinarySurvives'
    BY <1>4, <1>6, <2>1 DEF PlaceFirst
  <2> QED BY <1>3, <2>1, <2>2, <2>3
<1>7. CASE ClearOld
  <2>1. File' = File /\ UNCHANGED <<exe, temp>> /\ update' = "aside" /\ exe[File] # "none"
    BY <1>7 DEF ClearOld, File
  <2>2. exe[File] \in Sound
    BY <1>5, <2>1
  <2>3. FileTypes'
    BY <1>4, <1>7, <2>1 DEF ClearOld, Binaries
  <2>4. BinarySurvives'
    BY <1>4, <1>7, <2>1, <2>2 DEF ClearOld
  <2>5. temp[File] = content
    BY <1>7 DEF ClearOld
  <2> QED BY <1>1, <1>3, <2>1, <2>3, <2>4, <2>5
<1>8. CASE MoveAside
  <2>1. exe[File] \in Sound /\ temp[File] = content
    BY <1>5, <1>8 DEF MoveAside
  <2>2. CASE /\ old' = Put(old, exe[File]) /\ exe' = Put(exe, "none")
             /\ update' = "place" /\ UNCHANGED <<temp, target>>
    <3>1. File' = File
      BY <2>2 DEF File
    <3>2. FileTypes'
      BY <1>4, <2>1, <2>2 DEF Binaries
    <3>3. BinarySurvives'
      BY <1>4, <2>1, <2>2
    <3>4. old'[File] = exe[File]
      BY <2>2
    <3> QED BY <1>1, <1>3, <1>4, <2>1, <2>2, <3>1, <3>2, <3>3, <3>4
  <2>3. CASE /\ temp' \in {temp, Put(temp, "none")} /\ NotApplied
             /\ UNCHANGED <<exe, old>>
    <3>1. update' \notin {"written", "aside", "place", "tidy"}
      BY <2>3
    <3>2. FileTypes'
      BY <1>4, <2>3 DEF Binaries
    <3>3. BinarySurvives'
      BY <1>4, <2>3
    <3> QED BY <1>3, <3>1, <3>2, <3>3
  <2> QED BY <1>8, <2>2, <2>3 DEF MoveAside
<1>9. CASE Place
  <2>1. old[File] \in Sound /\ temp[File] = content
    BY <1>9 DEF Place
  <2>2. CASE /\ exe' = Put(exe, temp[File]) /\ temp' = Put(temp, "none")
             /\ update' = "tidy" /\ UNCHANGED <<old, target>>
    <3>1. File' = File
      BY <2>2 DEF File
    <3>2. exe'[File] \in Sound
      BY <1>3, <2>1, <2>2
    <3>3. FileTypes'
      BY <1>3, <1>4, <2>1, <2>2 DEF Binaries
    <3>4. BinarySurvives'
      BY <1>3, <1>4, <2>1, <2>2
    <3> QED BY <1>3, <1>4, <2>2, <3>1, <3>2, <3>3, <3>4
  <2>3. CASE /\ exe' = Put(exe, old[File]) /\ old' = Put(old, "none")
             /\ NotApplied /\ UNCHANGED temp
    <3>1. update' \notin {"written", "aside", "place", "tidy"}
      BY <2>3
    <3>2. FileTypes'
      BY <1>4, <2>1, <2>3 DEF Binaries
    <3>3. BinarySurvives'
      BY <1>4, <2>1, <2>3
    <3> QED BY <1>3, <3>1, <3>2, <3>3
  <2>4. CASE NotApplied /\ UNCHANGED fileVars
    <3>1. update' \notin {"written", "aside", "place", "tidy"}
      BY <2>4
    <3> QED BY <1>1, <1>3, <2>4, <3>1, BeforeAndAfterKeep
  <2> QED BY <1>9, <2>2, <2>3, <2>4 DEF Place
<1>10. CASE Tidy
  <2>1. exe[File] \in Sound /\ UNCHANGED <<exe, temp>>
    BY <1>10 DEF Tidy
  <2>2. update' \notin {"written", "aside", "place", "tidy"}
    BY <1>10 DEF Tidy
  <2>3. FileTypes'
    BY <1>4, <1>10, <2>1 DEF Tidy, Binaries
  <2>4. BinarySurvives'
    BY <1>4, <1>10, <2>1 DEF Tidy
  <2> QED BY <1>3, <2>2, <2>3, <2>4
<1> QED BY <1>6, <1>7, <1>8, <1>9, <1>10

\* A binary that was there survives every update that fails, dies or runs
\* again, and no update puts a lower version in its place without --force.
THEOREM BinariesSurvive == UpdateSpec => []BinarySurvives
<1>1. UpdateInit => FileInv
  <2> SUFFICES ASSUME UpdateInit PROVE FileInv
    OBVIOUS
  <2>1. FileTypes /\ ContentFits
    BY DEF UpdateInit, FileTypes, ContentFits, Binaries, Files, Fetched
  <2>2. BinarySurvives
    BY DEF UpdateInit, BinarySurvives, Sound
  <2> QED BY <2>1, <2>2 DEF UpdateInit, FileInv, FilesFit
<1>2. FileInv /\ [UpdateNext]_<<hostVars, updateVars>> => FileInv'
  <2> SUFFICES ASSUME FileInv, [UpdateNext]_<<hostVars, updateVars>> PROVE FileInv'
    OBVIOUS
  <2>1. CASE UNCHANGED <<hostVars, updateVars>> \/ HostMoves
    <3>1. UNCHANGED <<choiceVars, fileVars, update, content, target>>
      BY <2>1 DEF updateVars, HostMoves, fileVars
    <3>2. ContentFits'
      BY <3>1 DEF FileInv, ContentFits, choiceVars, Sound
    <3> QED BY <3>1, <3>2, BeforeAndAfterKeep
  <2> QED BY <2>1, FetchKeeps, WritesKeep, RenamesKeep DEF UpdateNext, UpdateStep
<1>3. FileInv => BinarySurvives
  BY DEF FileInv, FilesFit
<1> QED BY <1>1, <1>2, <1>3, PTL DEF UpdateSpec

-----------------------------------------------------------------------------
(* Types of an update                                                       *)

LEMMA UpdateTypeInit == UpdateInit => UpdateTypeOK
<1> SUFFICES ASSUME UpdateInit PROVE UpdateTypeOK
  OBVIOUS
<1>1. HostTypeOK
  BY HostInitType DEF UpdateInit, HostInv
<1>2. \A files \in {exe, old, temp} :
        files \in [Files -> {"none", "first", "newer", "stale", "damaged", "partial"}]
  BY DEF UpdateInit
<1>3. rounds \in 0..MaxRounds
  BY RoundsAssumption DEF UpdateInit
<1>4. /\ force \in BOOLEAN /\ listed \in BOOLEAN /\ had \in SUBSET Files
      /\ update = "idle" /\ content = "none" /\ target = "deployed" /\ replaced = FALSE
      /\ asked = Nobody /\ later = {} /\ killed = {}
  BY DEF UpdateInit
<1>5. replaced \in BOOLEAN
  BY <1>4
<1> QED BY <1>1, <1>2, <1>3, <1>4, <1>5 DEF UpdateTypeOK

LEMMA UpdateTypeKept ==
  HostInv /\ UpdateTypeOK /\ [UpdateNext]_<<hostVars, updateVars>> => UpdateTypeOK'
<1> SUFFICES ASSUME HostInv, UpdateTypeOK, [UpdateNext]_<<hostVars, updateVars>>
             PROVE  UpdateTypeOK'
  OBVIOUS
<1>1. HostTypeOK'
  BY UpdateStepsHost, HostKeeps DEF HostInv
<1> USE <1>1, FileIsFile DEF UpdateTypeOK, choiceVars, fileVars, pastVars, Put
<1>2. CASE UNCHANGED <<hostVars, updateVars>>
  BY <1>2 DEF updateVars
<1>3. CASE HostMoves
  <2>1. table' \in SUBSET Jobs /\ EndedNow \in SUBSET Jobs
    BY DEF HostTypeOK, EndedNow, OwnedBy
  <2> QED BY <1>3, <2>1 DEF HostMoves
<1>4. CASE Fetch
  <2>1. rounds' \in 0..MaxRounds
    BY <1>4, RoundsAssumption DEF Fetch
  <2> QED BY <1>4, <2>1 DEF Fetch
<1>5. CASE CheckRunningJobs
  BY <1>5 DEF CheckRunningJobs, Goto, Over
<1>6. CASE Download \/ VerifyChecksum
  BY <1>6 DEF Download, VerifyChecksum, Goto
<1>7. CASE PickTarget \/ WriteBegins \/ WriteEnds
  BY <1>7 DEF PickTarget, WriteBegins, WriteEnds, Within, NotApplied, Proceed
<1>8. CASE PlaceFirst \/ ClearOld \/ MoveAside \/ Place \/ Tidy
  <2>1. /\ exe' \in [Files -> Binaries] /\ old' \in [Files -> Binaries]
        /\ temp' \in [Files -> Binaries]
    BY <1>8 DEF PlaceFirst, ClearOld, MoveAside, Place, Tidy, Binaries
  <2>2. /\ UNCHANGED <<choiceVars, rounds, content, pastVars>>
        /\ update' \in {"aside", "place", "tidy", "pick", "restart", "failed", "write"}
        /\ target' \in {target, "own", "install"}
    BY <1>8 DEF PlaceFirst, ClearOld, MoveAside, Place, Tidy, Within, Applied, NotApplied,
                Proceed
  <2>3. replaced' \in BOOLEAN
    BY <1>8 DEF PlaceFirst, ClearOld, MoveAside, Place, Tidy, Within, Applied, NotApplied,
                Proceed
  <2> QED BY <2>1, <2>2, <2>3 DEF Binaries
<1>9. CASE RestartStop \/ RestartStart \/ UpdateEnds
  BY <1>9 DEF RestartStop, RestartStart, UpdateEnds, Over
<1> QED BY <1>2, <1>3, <1>4, <1>5, <1>6, <1>7, <1>8, <1>9 DEF UpdateNext, UpdateStep

\* Every variable of an update keeps its type (ApplyAtomicReplace and RunE of
\* cw update), whatever the workers do.
THEOREM UpdateTypeCorrect == UpdateSpec => []UpdateTypeOK
<1>1. UpdateInit => HostInv /\ UpdateTypeOK
  BY HostInitType, UpdateTypeInit DEF UpdateInit
<1>2. HostInv /\ UpdateTypeOK /\ [UpdateNext]_<<hostVars, updateVars>>
        => (HostInv /\ UpdateTypeOK)'
  BY UpdateTypeKept, UpdateStepsHost, HostKeeps
<1> QED BY <1>1, <1>2, PTL DEF UpdateSpec

-----------------------------------------------------------------------------
(* The comment of hydrateJobsFromDisk takes a RUNNING record for that of a   *)
(* process that has died with its worker.  It is right as long as no second  *)
(* worker process begins beside the first.                                  *)

Alone == \A i, k \in Instances : stage[i] # "off" /\ stage[k] # "off" => i = k

\* A process, a status in memory and a victim have an instance that serves.
JobsServed ==
  \A j \in Jobs :
    owner[j] # Nobody \/ memory[j] # "none" \/ j \in alive =>
      owner[j] \in Instances /\ Listening(owner[j])

HealersHydrate == \A i \in Instances : healing[i] # NoJob => stage[i] = "hydrating"

\* A job whose process is still to be started has not been healed, and has no
\* process.
StartsUnhealed ==
  \A j \in Jobs : /\ Starting(j) => record[j] # "healed"
                  /\ memory[j] = "none" => j \notin alive

LoneFacts ==
  /\ JobsServed /\ HealersHydrate /\ raced = {}
  /\ HealedJobsAreDead /\ StartsUnhealed

LoneInv == HostTypeOK /\ LoneFacts

LEMMA LoneInstanceKeeps ==
  ASSUME LoneInv, Alone, NEW i \in Instances,
         \/ Launch(i) \/ HydrateHeal(i) \/ Made(i) \/ Lock(i) \/ Listen(i)
         \/ StartFails(i) \/ Stop(i) \/ Die(i)
  PROVE  LoneFacts'
<1> USE HostAssumption DEF LoneInv, LoneFacts, HostTypeOK, jobVars, Listening
<1>1. CASE Launch(i) \/ Made(i) \/ Lock(i) \/ Listen(i) \/ StartFails(i) \/ Stop(i)
  <2>1. UNCHANGED <<record, owner, memory, alive, healing, raced>>
    BY <1>1 DEF Launch, Made, Lock, Listen, StartFails, Stop
  <2>2. /\ \A k \in Instances : stage[k] \in {"up", "stopping"}
                                  => stage'[k] \in {"up", "stopping"}
        /\ \A k \in Instances : healing[k] # NoJob => stage'[k] = "hydrating"
    BY <1>1 DEF HealersHydrate, Launch, Made, Lock, Listen, StartFails, Stop
  <2> QED BY <2>1, <2>2 DEF JobsServed, HealersHydrate, HealedJobsAreDead,
                            StartsUnhealed, Starting
<1>2. CASE HydrateHeal(i)
  <2> DEFINE j == healing[i]
  <2>1. /\ j \in Jobs /\ stage[i] = "hydrating"
        /\ record' \in [Jobs -> {"none", "bare", "RUNNING", "ended", "healed"}]
        /\ \A k \in Jobs \ {j} : record'[k] = record[k]
        /\ healing' = [healing EXCEPT ![i] = NoJob]
        /\ UNCHANGED <<stage, owner, memory, alive, raced>>
    BY <1>2, SaveOutcomes DEF HydrateHeal
  <2>2. j \notin alive /\ owner[j] = Nobody
    BY <2>1 DEF Alone, JobsServed
  <2> HIDE DEF j
  <2>3. HealedJobsAreDead'
    BY <2>1, <2>2 DEF HealedJobsAreDead
  <2>4. JobsServed' /\ HealersHydrate'
    BY <2>1 DEF JobsServed, HealersHydrate
  <2>5. StartsUnhealed'
    BY <2>1, <2>2 DEF StartsUnhealed, Starting
  <2> QED BY <2>1, <2>3, <2>4, <2>5
<1>3. CASE Die(i)
  <2>1. /\ stage' = [stage EXCEPT ![i] = "off"]
        /\ healing' = [healing EXCEPT ![i] = NoJob]
        /\ UNCHANGED <<record, raced>> /\ alive' \subseteq alive
    BY <1>3 DEF Die
  <2>2. HealersHydrate' /\ HealedJobsAreDead'
    BY <2>1 DEF HealersHydrate, HealedJobsAreDead
  <2>3. \A j \in Jobs :
          /\ owner'[j] = IF owner[j] = i THEN Nobody ELSE owner[j]
          /\ memory'[j] = IF owner[j] = i THEN "none" ELSE memory[j]
          /\ j \in alive' <=> j \in alive /\ owner[j] # i
    BY <1>3 DEF Die, OwnedBy
  <2>4. JobsServed' /\ StartsUnhealed'
    BY <2>1, <2>3 DEF JobsServed, StartsUnhealed, Starting, Nobody
  <2> QED BY <2>1, <2>2, <2>4
<1> QED BY <1>1, <1>2, <1>3

\* No outcome is saved while somebody heals: its worker is the only one.
LEMMA LoneSettle ==
  ASSUME LoneInv, Alone, NEW j \in Jobs, NEW status \in {"killed", "ended"},
         memory[j] # "none", Settle(j, status),
         UNCHANGED <<stage, healing, owner>>, alive' \subseteq alive \ {j}
  PROVE  LoneFacts'
<1> USE HostAssumption DEF LoneInv, LoneFacts, HostTypeOK, Listening
<1>1. \A i \in Instances : healing[i] # j
  BY DEF Alone, JobsServed, HealersHydrate
<1>2. raced' = {}
  BY <1>1 DEF Settle
<1>3. /\ memory' = [memory EXCEPT ![j] = status]
      /\ \A k \in Jobs \ {j} : record'[k] = record[k]
  BY SaveOutcomes DEF Settle
<1>4. HealedJobsAreDead'
  BY <1>3 DEF HealedJobsAreDead
<1>5. JobsServed' /\ HealersHydrate'
  BY <1>3 DEF JobsServed, HealersHydrate
<1>6. StartsUnhealed'
  BY <1>3 DEF StartsUnhealed, Starting
<1> QED BY <1>2, <1>4, <1>5, <1>6

LEMMA LoneKeeps == LoneInv /\ HostInv /\ Alone /\ [HostNext]_hostVars => LoneInv'
<1> SUFFICES ASSUME LoneInv, HostInv, Alone, [HostNext]_hostVars
             PROVE  LoneFacts'
  BY HostKeeps DEF LoneInv, LoneFacts, HostInv
<1> USE HostAssumption DEF jobVars, instanceVars
<1>1. CASE UNCHANGED hostVars
  BY <1>1 DEF hostVars, LoneInv, LoneFacts, StartsUnhealed, Starting, JobsServed, HealersHydrate, HealedJobsAreDead, Listening
<1>2. ASSUME NEW i \in Instances, NEW j \in Jobs,
             HydrateRead(i, j) \/ StartJob(i, j) \/ StopKill(i, j)
      PROVE  LoneFacts'
  <2>1. CASE HydrateRead(i, j)
    BY <2>1 DEF HydrateRead, LoneInv, LoneFacts, HostTypeOK, JobsServed, HealersHydrate,
                HealedJobsAreDead, StartsUnhealed, Starting, Listening
  <2>2. CASE StartJob(i, j)
    BY <2>2 DEF StartJob, LoneInv, LoneFacts, HostTypeOK, JobsServed, HealersHydrate,
                HealedJobsAreDead, StartsUnhealed, Starting, Listening
  <2>3. CASE StopKill(i, j)
    <3>1. CASE memory[j] = "RUNNING"
      BY <2>3, <3>1, LoneSettle DEF StopKill
    <3>2. CASE memory[j] # "RUNNING"
      BY <2>3, <3>2 DEF StopKill, LoneInv, LoneFacts, JobsServed, HealersHydrate,
                        HealedJobsAreDead, StartsUnhealed, Starting, Listening
    <3> QED BY <3>1, <3>2
  <2> QED BY <1>2, <2>1, <2>2, <2>3
<1>3. ASSUME NEW j \in Jobs, JobStep(j)
      PROVE  LoneFacts'
  <2>1. CASE Register(j) \/ ProcessExits(j)
    BY <2>1 DEF Register, ProcessExits, LoneInv, LoneFacts, HostTypeOK, JobsServed,
                HealersHydrate, HealedJobsAreDead, StartsUnhealed, Starting, Listening
  <2>2. CASE WaitExit(j) \/ KillJob(j)
    BY <2>2, LoneSettle DEF WaitExit, KillJob
  <2>3. CASE Started(j)
    <3> USE DEF LoneInv, LoneFacts, HostTypeOK
    <3>1. /\ record'[j] # "healed"
          /\ \A k \in Jobs \ {j} : record'[k] = record[k]
      BY <2>3, SaveOutcomes DEF Started, StartsUnhealed
    <3>2. HealedJobsAreDead' /\ StartsUnhealed'
      BY <2>3, <3>1 DEF Started, Starting, HealedJobsAreDead, StartsUnhealed
    <3>3. JobsServed' /\ HealersHydrate' /\ raced' = {}
      BY <2>3 DEF Started, Starting, JobsServed, HealersHydrate, Listening
    <3> QED BY <3>2, <3>3
  <2>4. CASE NotStarted(j)
    <3> USE DEF LoneInv, LoneFacts, HostTypeOK
    <3>1. /\ \A k \in Jobs : owner'[k] = IF k = j THEN Nobody ELSE owner[k]
          /\ memory[j] = "none"
          /\ UNCHANGED <<stage, healing, record, memory, alive, raced>>
      BY <2>4 DEF NotStarted, Starting
    <3>2. j \notin alive
      BY <3>1 DEF StartsUnhealed
    <3>3. HealersHydrate' /\ raced' = {} /\ HealedJobsAreDead'
      BY <3>1 DEF HealersHydrate, HealedJobsAreDead
    <3>4. StartsUnhealed'
      BY <3>1 DEF StartsUnhealed, Starting
    <3>5. JobsServed'
      BY <3>1, <3>2 DEF JobsServed, Listening
    <3> QED BY <3>3, <3>4, <3>5
  <2> QED BY <1>3, <2>1, <2>2, <2>3, <2>4 DEF JobStep
<1> QED BY <1>1, <1>2, <1>3, LoneInstanceKeeps DEF HostNext, InstanceStep, Exit, Crash

LEMMA LoneInvariant == HostSpec /\ []Alone => []LoneInv
<1>1. HostInit => LoneInv
  BY HostInitType DEF HostInit, HostInv, LoneInv, LoneFacts, JobsServed, HealersHydrate,
                      HealedJobsAreDead, StartsUnhealed, Starting, Nobody, All
<1> QED BY <1>1, LoneKeeps, HostInitType, HostKeeps, PTL DEF HostSpec

\* A record is healed only after its process has died, if no two worker
\* processes are ever there at once: what host_heal shows needs the second.
THEOREM LoneHealIsTrue == HostSpec /\ []Alone => []HealedJobsAreDead
<1>1. LoneInv => HealedJobsAreDead
  BY DEF LoneInv, LoneFacts
<1> QED BY <1>1, LoneInvariant, PTL

\* Nor is an outcome ever lost then, but by a start that cannot read the
\* record: the race that OutcomeOutlivesStarts excepts needs the second, too.
THEOREM LoneOutcomesLast ==
  HostSpec /\ []Alone => [](\A j \in settled \ misread : record[j] = "ended")
<1>1. LoneInv /\ OutcomeOutlivesStarts => \A j \in settled \ misread : record[j] = "ended"
  BY DEF LoneInv, LoneFacts, OutcomeOutlivesStarts
<1> QED BY <1>1, LoneInvariant, OutcomesSurvive, PTL
=============================================================================
