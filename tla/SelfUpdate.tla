----------------------------- MODULE SelfUpdate -----------------------------
(***************************************************************************)
(* cw update on a machine whose worker processes are those of Host: it     *)
(* fetches the latest release, asks the local worker for running jobs,     *)
(* downloads and verifies the binary, puts it in the place of the deployed *)
(* one and of the one it runs from, and restarts the Windows service.  It  *)
(* can die at any step; one update runs at a time.                         *)
(***************************************************************************)
EXTENDS Host, Sequences

CONSTANTS
  Versions,  \* released versions: sequences of parts
  MaxRounds  \* bound: updates that are tried

Parts == [number : 0..99, plain : BOOLEAN]

ASSUME VersionsAssumption ==
  \A v \in Versions : v \in Seq(Parts) /\ Len(v) <= 3
ASSUME RoundsAssumption == MaxRounds \in Nat

Files == {"deployed", "own"}

VARIABLES
  force,         \* --force
  listed,        \* does the release come with a checksum of the binary?
  update,        \* its progress, "idle" between two updates
  rounds,        \* updates begun
  content,       \* what it has downloaded
  target,        \* the copy it replaces: "deployed", "own", then "install"
  replaced,      \* has a copy been replaced?
  exe, old, temp, \* per file: the binary, its .old and its .download
  asked,         \* history: the instance that answered the check
  later, killed, \* history: jobs entered since then, killed by the restart
  had            \* history: the files that were there at first

fileVars == <<exe, old, temp>>
pastVars == <<asked, later, killed>>
choiceVars == <<force, listed, had>>
updateVars ==
  <<choiceVars, update, rounds, content, target, replaced, fileVars, pastVars>>

UpdateInit ==
  /\ HostInit
  /\ force \in BOOLEAN /\ listed \in BOOLEAN
  /\ had \in SUBSET Files
  /\ update = "idle" /\ rounds = 0 /\ content = "none"
  /\ target = "deployed" /\ replaced = FALSE
  /\ exe = [f \in Files |-> IF f \in had THEN "first" ELSE "none"]
  /\ old = [f \in Files |-> "none"] /\ temp = [f \in Files |-> "none"]
  /\ asked = Nobody /\ later = {} /\ killed = {}

----------------------------------------------------------------------------
(* CompareSemVer.  A part is a number, or begins with one: "3-rc1". *)

\* strconv.Atoi gives 0 for what is not a number.
Atoi(part) == IF part.plain THEN part.number ELSE 0
Part(version, k) == IF k <= Len(version) THEN Atoi(version[k]) ELSE 0

\* CompareSemVer(latest, current) > 0: the first part that differs decides.
IsAbove(latest, own) ==
  \E k \in 1..(Len(latest) + Len(own)) :
    /\ Part(latest, k) > Part(own, k)
    /\ \A m \in 1..(k - 1) : Part(latest, m) = Part(own, m)

\* The order of versions whose parts are numbers below 100.
Weight(version) ==
  10000 * Part(version, 1) + 100 * Part(version, 2) + Part(version, 3)
Higher(latest, own) ==
  \/ Weight(latest) > Weight(own)
  \/ \E k \in DOMAIN own : ~own[k].plain

----------------------------------------------------------------------------
(* The update up to the replacement.  An attempt that ends changes nothing. *)

Goto(step) ==
  /\ update' = step
  /\ UNCHANGED <<hostVars, choiceVars, rounds, target, replaced, fileVars>>

\* FetchLatestRelease; without --force only a higher version goes on.
Fetch ==
  /\ update = "idle" /\ rounds < MaxRounds
  /\ \E latest, own \in Versions :
       /\ force \/ IsAbove(latest, own)
       /\ content' = IF Higher(latest, own) THEN "newer" ELSE "stale"
  /\ update' = "fetched" /\ rounds' = rounds + 1
  /\ UNCHANGED <<hostVars, choiceVars, target, replaced, fileVars, pastVars>>

\* The end of an update, whatever it has come to.
Over ==
  /\ update' = "idle" /\ content' = "none"
  /\ target' = "deployed" /\ replaced' = FALSE
  /\ asked' = Nobody /\ later' = {} /\ killed' = {}
  /\ UNCHANGED <<choiceVars, rounds, fileVars>>

\* Seeded fault (UpdateSparesKnownJobs): the records are counted.
ActiveRecords(i) == {j \in OwnedBy(i) \cap table : record[j] = "RUNNING"}

\* collectNodeInfo: the RUNNING jobs of the table.
ActiveJobs(i) == {j \in OwnedBy(i) \cap table : memory[j] = "RUNNING"}

\* CheckRunningJobs asks the default port, and goes on when nobody answers or
\* the answer is a refusal.
CheckRunningJobs ==
  /\ update = "fetched"
  /\ \/ Goto("checked") /\ UNCHANGED <<content, pastVars>>
     \/ \E i \in Instances :
          /\ ~force /\ Listening(i) /\ port[i] = DefaultPort
          /\ IF ActiveJobs(i) = {}
             THEN Goto("checked") /\ asked' = i /\ UNCHANGED <<content, later, killed>>
             ELSE Over /\ UNCHANGED hostVars

\* The confirmation, and DownloadAsset: what arrives may not be what was sent.
Download ==
  /\ update = "checked"
  /\ Goto("downloaded")
  /\ content' \in {content, "damaged"}
  /\ UNCHANGED pastVars

\* VerifyChecksum lets a release pass that does not list the binary.
VerifyChecksum ==
  /\ update = "downloaded"
  /\ listed => content # "damaged"
  /\ Goto("pick")
  /\ UNCHANGED <<content, pastVars>>

----------------------------------------------------------------------------
(* ApplyAtomicReplace, for the deployed copy, then for the cw that runs when *)
(* it is another file, or else to install the deployed copy                  *)

File == IF target = "own" THEN "own" ELSE "deployed"
Put(files, c) == [files EXCEPT ![File] = c]

Within(step) ==
  /\ update' = step
  /\ UNCHANGED <<hostVars, choiceVars, rounds, content, target, replaced, pastVars>>

Proceed(step, file, done) ==
  /\ update' = step /\ target' = file /\ replaced' = done
  /\ UNCHANGED <<hostVars, choiceVars, rounds, content, pastVars>>

\* What RunE does when a copy has been replaced, and when it has not.
Applied ==
  IF target = "deployed" THEN Proceed("pick", "own", TRUE)
                         ELSE Proceed("restart", target, TRUE)
NotApplied ==
  IF target # "own" THEN Proceed("failed", target, replaced)
  ELSE IF replaced THEN Proceed("restart", target, TRUE)
                   ELSE Proceed("write", "install", FALSE)

PickTarget ==
  /\ update = "pick"
  /\ IF exe[File] # "none" THEN Within("write")
     ELSE IF target = "deployed" THEN Proceed("pick", "own", FALSE)
     ELSE NotApplied
  /\ UNCHANGED fileVars

WriteBegins ==
  /\ update = "write"
  /\ temp' = Put(temp, "partial") /\ Within("writing")
  /\ UNCHANGED <<exe, old>>

WriteEnds ==
  /\ update = "writing"
  /\ \/ temp' = Put(temp, content) /\ Within("written")
     \/ UNCHANGED temp /\ NotApplied
  /\ UNCHANGED <<exe, old>>

\* No file in its place: the new one is renamed at once.
PlaceFirst ==
  /\ update = "written" /\ exe[File] = "none"
  /\ \/ exe' = Put(exe, temp[File]) /\ temp' = Put(temp, "none") /\ Applied
     \/ UNCHANGED <<exe, temp>> /\ NotApplied
  /\ UNCHANGED old

\* An .old that is still run cannot be removed, which is ignored.
ClearOld ==
  /\ update = "written" /\ exe[File] # "none"
  /\ old' \in {old, Put(old, "none")} /\ Within("aside")
  /\ UNCHANGED <<exe, temp>>

\* Seeded fault (BinarySurvives): the binary is removed, not renamed.
RemovedFirst ==
  /\ update = "aside"
  /\ exe' = Put(exe, "none") /\ Within("place")
  /\ UNCHANGED <<old, temp>>

\* The running binary becomes .old.
MoveAside ==
  /\ update = "aside"
  /\ \/ /\ old' = Put(old, exe[File]) /\ exe' = Put(exe, "none")
        /\ Within("place") /\ UNCHANGED temp
     \/ /\ temp' \in {temp, Put(temp, "none")}
        /\ NotApplied /\ UNCHANGED <<exe, old>>

\* The new one takes its place, or the old one goes back, if it can.
Place ==
  /\ update = "place"
  /\ \/ /\ exe' = Put(exe, temp[File]) /\ temp' = Put(temp, "none")
        /\ Within("tidy") /\ UNCHANGED old
     \/ /\ exe' = Put(exe, old[File]) /\ old' = Put(old, "none")
        /\ NotApplied /\ UNCHANGED temp
     \/ NotApplied /\ UNCHANGED fileVars

Tidy ==
  /\ update = "tidy"
  /\ old' \in {old, Put(old, "none")} /\ Applied
  /\ UNCHANGED <<exe, temp>>

----------------------------------------------------------------------------
(* RestartWindowsService *)

\* A service that is not running is left alone.
RestartStop ==
  /\ update = "restart" /\ stage["service"] # "off"
  /\ IF stage["service"] = "up" THEN Stop("service") ELSE UNCHANGED hostVars
  /\ update' = "restarting"
  /\ UNCHANGED <<choiceVars, rounds, content, target, replaced, fileVars, pastVars>>

RestartStart ==
  /\ update = "restarting"
  /\ exe["deployed"] # "none" /\ Launch("service") /\ Over

\* No asset, no answer of the user, Ctrl-C before the end of the download, an
\* error of a request; a service that does not stop or start in time; or the
\* process of the update dies, at any step.
UpdateEnds ==
  /\ update # "idle"
  /\ Over /\ UNCHANGED hostVars

----------------------------------------------------------------------------
(* The steps of the instances go on.  What ends a job of the service while   *)
(* it is being restarted is put down to the update.                          *)

EndedNow ==
  {j \in OwnedBy("service") \cap table :
     memory[j] = "RUNNING" /\ memory'[j] \in {"killed", "none"}}

HostMoves ==
  /\ HostNext
  /\ stage["service"] = "off" /\ exe["deployed"] = "none" => stage'["service"] = "off"
  /\ later' = IF asked = Nobody THEN later ELSE later \cup (table' \ table)
  /\ killed' = IF update = "restarting" THEN killed \cup EndedNow ELSE killed
  /\ UNCHANGED <<choiceVars, update, rounds, content, target, replaced, fileVars, asked>>

UpdateStep ==
  \/ Fetch \/ CheckRunningJobs \/ Download \/ VerifyChecksum
  \/ PickTarget \/ WriteBegins \/ WriteEnds \/ PlaceFirst \/ ClearOld
  \/ MoveAside \/ Place \/ Tidy
  \/ RestartStop \/ RestartStart \/ UpdateEnds

UpdateNext == HostMoves \/ UpdateStep

UpdateSpec == UpdateInit /\ [][UpdateNext]_<<hostVars, updateVars>>

----------------------------------------------------------------------------
(* Properties *)

UpdateTypeOK ==
  /\ HostTypeOK
  /\ force \in BOOLEAN /\ listed \in BOOLEAN
  /\ update \in {"idle", "fetched", "checked", "downloaded", "pick", "write",
                 "writing", "written", "aside", "place", "tidy", "failed",
                 "restart", "restarting"}
  /\ rounds \in 0..MaxRounds /\ content \in {"none", "newer", "stale", "damaged"}
  /\ target \in {"deployed", "own", "install"} /\ replaced \in BOOLEAN
  /\ \A files \in {exe, old, temp} :
       files \in [Files -> {"none", "first", "newer", "stale", "damaged", "partial"}]
  /\ asked \in Instances \cup {Nobody}
  /\ later \in SUBSET Jobs /\ killed \in SUBSET Jobs /\ had \in SUBSET Files

\* The versions an update may put in place, and the damaged download that a
\* release without a checksum lets through.
Sound ==
  {"first", "newer"} \cup (IF force THEN {"stale"} ELSE {})
    \cup (IF listed THEN {} ELSE {"damaged"})

\* Whenever an update fails or dies, a binary that was there is still there,
\* whole, under its name or as .old, and only --force puts a version in its
\* place that is not higher than that of the cw that updates.
BinarySurvives ==
  \A f \in Files :
    /\ exe[f] \in Sound \cup {"none"}
    /\ f \in had => exe[f] \in Sound \/ old[f] \in Sound

\* An update without --force whose check the service has answered ends no
\* job of the service's table by its restart but those it has entered since.
UpdateSparesKnownJobs == asked = "service" => killed \subseteq later
=============================================================================
