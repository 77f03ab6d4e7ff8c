-------------------------------- MODULE Parts --------------------------------
(***************************************************************************)
(* The parts of F.R.I.D.A.Y. that work on their own: each behaviour is one *)
(* of one part, which is chosen at the start.  The parts do not meet, so   *)
(* the registers r1, r2, ... hold the state of the chosen part, in the     *)
(* order in which its module declares it; the others are Absent.           *)
(***************************************************************************)
EXTENDS Naturals

CONSTANTS
  Absent,                                                  \* no process, token, page, ...
  Pids,                                                    \* Boot
  Commands,                                                \* FastPath: its Words
  Tags, Production, Limited, Disabled, Spoken,             \* SpeechDirector: its Words last
  QueueSize, SpeechToStart, SilenceToEnd, MaxBuffer,       \* Listening
  Tasks, Destructive, Files,                               \* Recovery: its Items last
  Main, Loop, Prober,                                      \* Connectivity
  Configured, Cloud,                                       \* Models
  Entries, FamilyOf, FileBased,                            \* Provisioning
  Memories, KindOf, AuthorityOf, CostOf, Matching, Budget, \* Memory: its Items first
  Versions, Trusted,                                       \* Plugins
  Proposals,                                               \* Upgrades
  Controls, WindowOf, NameOf, RoleOf, IdOf, PartsOf,       \* Desktop
  Incidental, Allowlisted, Chars,                          \* ...
  Callers, Pages, Results, Unsafe, Sensitive,              \* Browser
  Repos                                                    \* Sandboxes, with Callers

CONSTANTS
  \* The bounds of the parts, in their order.
  MaxStarts, MaxWords, MaxTags, Window, MaxTokens, MaxChunks, MaxTurns,
  MaxVersion, MaxBackups, MaxCheckpoints, MaxCrashes,
  MaxNetChanges, MaxForced, MaxRounds, MaxRequests, MaxModelChanges,
  MaxEntryChanges, MaxProvisions, MaxConsents, MaxLosses, MaxOps,
  MaxPluginCalls, MaxCommits, MaxTidied, MaxEdits, MaxVersions, MaxRuns,
  MaxScreenChanges, MaxActions, MaxBrowserCalls, MaxSandboxCalls

VARIABLES
  which, \* the part whose behaviour this is
  r1, r2, r3, r4, r5, r6, r7, r8, r9, r10, r11, r12, r13, r14, r15, r16, r17, r18

vars == <<which, r1, r2, r3, r4, r5, r6, r7, r8, r9, r10, r11, r12, r13, r14, r15, r16, r17, r18>>

After15 == <<r16, r17, r18>>
After14 == <<r15, After15>>
After12 == <<r13, r14, After14>>
After11 == <<r12, After12>>
After10 == <<r11, After11>>
After9 == <<r10, After10>>
After8 == <<r9, After9>>
After5 == <<r6, r7, r8, After8>>
After2 == <<r3, r4, r5, After5>>

Unused15 ==
  r16 = Absent /\ r17 = Absent /\ r18 = Absent
Unused14 ==
  r15 = Absent /\ Unused15
Unused12 ==
  r13 = Absent /\ r14 = Absent /\ Unused14
Unused11 ==
  r12 = Absent /\ Unused12
Unused10 ==
  r11 = Absent /\ Unused11
Unused9 ==
  r10 = Absent /\ Unused10
Unused8 ==
  r9 = Absent /\ Unused9
Unused5 ==
  r6 = Absent /\ r7 = Absent /\ r8 = Absent /\ Unused8
Unused2 ==
  r3 = Absent /\ r4 = Absent /\ r5 = Absent /\ Unused5

Booting == INSTANCE Boot WITH
  Nobody <- Absent,
  at <- r1, brain <- r2, orb <- r3, voices <- r4, pidFile <- r5, foreign <- r6, starts <- r7,
  overlapped <- r8

Routing == INSTANCE FastPath WITH
  Words <- Commands,
  text <- r1, route <- r2

Directing == INSTANCE SpeechDirector WITH
  Words <- Spoken,
  sentence <- r1, status <- r2, indented <- r3, tagged <- r4, profile <- r5

Hearing == INSTANCE Listening WITH
  mic <- r1, recorded <- r2, coming <- r3, queue <- r4, at <- r5, turn <- r6, detector <- r7,
  started <- r8, taken <- r9, partial <- r10, result <- r11, running <- r12, buffer <- r13,
  events <- r14, lastPartial <- r15, future <- r16, jobs <- r17, worker <- r18

Recovering == INSTANCE Recovery WITH
  Items <- Files,
  step <- r1, entry <- r2, others <- r3, file <- r4, listed <- r5, recorded <- r6, lost <- r7,
  plan <- r8, data <- r9, backups <- r10, work <- r11, target <- r12, crashes <- r13,
  checkpoints <- r14

Connecting == INSTANCE Connectivity WITH
  MaxChanges <- MaxNetChanges,
  client <- r1, net <- r2, monitor <- r3, state <- r4, monitoring <- r5, at <- r6, found <- r7,
  told <- r8, forced <- r9, succeeded <- r10, cached <- r11, allowed <- r12, changes <- r13,
  checks <- r14, rounds <- r15

Modelling == INSTANCE Models WITH
  MaxChanges <- MaxModelChanges,
  healthy <- r1, sighted <- r2, answering <- r3, cache <- r4, preference <- r5, request <- r6,
  requests <- r7, changes <- r8

Provisions == INSTANCE Provisioning WITH
  Nothing <- Absent, MaxChanges <- MaxEntryChanges,
  there <- r1, intact <- r2, entry <- r3, saved <- r4, trying <- r5, phase <- r6, left <- r7,
  result <- r8, doubted <- r9, changes <- r10, provisions <- r11

Signing == INSTANCE GoogleAccounts WITH
  NoToken <- Absent,
  file <- r1, creds <- r2, active <- r3, service <- r4, keyring <- r5, live <- r6, fresh <- r7,
  asked <- r8, losses <- r9, revoked <- r10, event <- r11, draft <- r12

Remembering == INSTANCE Memory WITH
  Items <- Memories,
  row <- r1, index <- r2, tx <- r3, pass <- r4, age <- r5, expired <- r6, primed <- r7, ops <- r8

Plugging == INSTANCE Plugins WITH
  NoVersion <- Absent, MaxCalls <- MaxPluginCalls,
  state <- r1, instance <- r2, running <- r3, tested <- r4, entry <- r5, previous <- r6, calls <-
  r7, forced <- r8

Upgrading == INSTANCE Upgrades WITH
  head <- r1, listed <- r2, branch <- r3, tree <- r4, report <- r5, at <- r6, id <- r7, stage <-
  r8, tested <- r9, passed <- r10, met <- r11, tidied <- r12

Learning == INSTANCE Skills WITH
  candidate <- r1, skill <- r2, file <- r3, history <- r4, promotions <- r5, observed <- r6, last
  <- r7, edits <- r8, runs <- r9

Pointing == INSTANCE Desktop WITH
  Parts <- PartsOf, NoWindow <- Absent, MaxChanges <- MaxScreenChanges,
  front <- r1, shown <- r2, says <- r3, ink <- r4, resolving <- r5, target <- r6, origin <- r7,
  act <- r8, result <- r9, window <- r10, changes <- r11, actions <- r12

Browsing == INSTANCE Browser WITH
  NoPage <- Absent, MaxCalls <- MaxBrowserCalls,
  current <- r1, history <- r2, index <- r3, engine <- r4, call <- r5, read <- r6, mine <- r7,
  browsers <- r8, handle <- r9, calls <- r10

Running == INSTANCE Sandboxes WITH
  NoRepo <- Absent, MaxCalls <- MaxSandboxCalls,
  venv <- r1, clone <- r2, leftover <- r3, call <- r4, reply <- r5, containers <- r6, timedOut <-
  r7, services <- r8, calls <- r9

Init ==
  \/ which = "boot" /\ Booting!Init /\ Unused8
  \/ which = "fastpath" /\ Routing!Init /\ Unused2
  \/ which = "director" /\ Directing!Init /\ Unused5
  \/ which = "listening" /\ Hearing!Init
  \/ which = "recovery" /\ Recovering!Init /\ Unused14
  \/ which = "connectivity" /\ Connecting!Init /\ Unused15
  \/ which = "models" /\ Modelling!Init /\ Unused8
  \/ which = "provisioning" /\ Provisions!Init /\ Unused11
  \/ which = "google" /\ Signing!Init /\ Unused12
  \/ which = "memory" /\ Remembering!Init /\ Unused8
  \/ which = "plugins" /\ Plugging!Init /\ Unused8
  \/ which = "upgrades" /\ Upgrading!Init /\ Unused12
  \/ which = "skills" /\ Learning!Init /\ Unused9
  \/ which = "desktop" /\ Pointing!Init /\ Unused12
  \/ which = "browser" /\ Browsing!Init /\ Unused10
  \/ which = "sandboxes" /\ Running!Init /\ Unused9

Next ==
  /\ UNCHANGED which
  /\ \/ which = "boot" /\ Booting!Next /\ UNCHANGED After8
     \/ which = "fastpath" /\ Routing!Next /\ UNCHANGED After2
     \/ which = "director" /\ Directing!Next /\ UNCHANGED After5
     \/ which = "listening" /\ Hearing!Next
     \/ which = "recovery" /\ Recovering!Next /\ UNCHANGED After14
     \/ which = "connectivity" /\ Connecting!Next /\ UNCHANGED After15
     \/ which = "models" /\ Modelling!Next /\ UNCHANGED After8
     \/ which = "provisioning" /\ Provisions!Next /\ UNCHANGED After11
     \/ which = "google" /\ Signing!Next /\ UNCHANGED After12
     \/ which = "memory" /\ Remembering!Next /\ UNCHANGED After8
     \/ which = "plugins" /\ Plugging!Next /\ UNCHANGED After8
     \/ which = "upgrades" /\ Upgrading!Next /\ UNCHANGED After12
     \/ which = "skills" /\ Learning!Next /\ UNCHANGED After9
     \/ which = "desktop" /\ Pointing!Next /\ UNCHANGED After12
     \/ which = "browser" /\ Browsing!Next /\ UNCHANGED After10
     \/ which = "sandboxes" /\ Running!Next /\ UNCHANGED After9

Spec == Init /\ [][Next]_vars

ASSUME Assumptions ==
  /\ Booting!NobodyAssumption /\ Directing!WordsAssumption /\ Hearing!ListeningAssumption
  /\ Recovering!DestructiveAssumption /\ Modelling!ConfiguredAssumption
  /\ Provisions!EntriesAssumption /\ Remembering!BudgetAssumption
  /\ Signing!NoTokenAssumption /\ Upgrading!ProposalsAssumption
  /\ Plugging!VersionsAssumption /\ Pointing!DesktopAssumption
  /\ Browsing!PagesAssumption /\ Running!NoRepoAssumption

(***************************************************************************)
(* The properties of the parts; their modules say what they mean.          *)
(***************************************************************************)

\* The state of the chosen part keeps its type (all of them; no run repeats it).
TypeOK ==
  /\ which = "boot" => Booting!TypeOK
  /\ which = "fastpath" => Routing!TypeOK
  /\ which = "director" => Directing!TypeOK
  /\ which = "listening" => Hearing!TypeOK
  /\ which = "recovery" => Recovering!TypeOK
  /\ which = "connectivity" => Connecting!TypeOK
  /\ which = "models" => Modelling!TypeOK
  /\ which = "provisioning" => Provisions!TypeOK
  /\ which = "google" => Signing!TypeOK
  /\ which = "memory" => Remembering!TypeOK
  /\ which = "plugins" => Plugging!TypeOK
  /\ which = "upgrades" => Upgrading!TypeOK
  /\ which = "skills" => Learning!TypeOK
  /\ which = "desktop" => Pointing!TypeOK
  /\ which = "browser" => Browsing!TypeOK
  /\ which = "sandboxes" => Running!TypeOK

\* No two copies of F.R.I.D.A.Y. run (main.py).
OneInstance == which = "boot" => Booting!OneInstance

\* Nothing is closed but at a word (FastPathRouter).
ClosesOnCommand == which = "fastpath" => Routing!ClosesOnCommand

\* No transcription of an earlier turn reaches a later one (StreamingStt).
NoStaleResult == which = "listening" => Hearing!NoStaleResult

\* The final transcript hears the whole turn (StreamingStt.finalize).
FinalIsWhole == which = "listening" => Hearing!FinalIsWhole

\* Recovery decides about every unfinished task (CrashRecoveryManager).
NothingForgotten == which = "recovery" => Recovering!NothingForgotten

\* A backup that is listed is complete (BackupManager).
ListedIsComplete == which = "recovery" => Recovering!ListedIsComplete

\* What is not known to be online counts as offline (OnlineCapabilityGate).
FailsClosed == which = "connectivity" => Connecting!FailsClosed

\* No request goes unanswered while a model could answer it (ModelRouter).
AnsweredIfAny == which = "models" => Modelling!AnsweredIfAny

\* A role that was ensured has a model that is not known to be broken (ModelProvisioner).
EnsuredRoleIsServed == which = "provisioning" => Provisions!EnsuredRoleIsServed

\* A user who consented is not asked again (GoogleAuth).
ConsentIsKept == which = "google" => Signing!ConsentIsKept

\* What is remembered is found (MemoryDatabase).
IndexIsComplete == which = "memory" => Remembering!IndexIsComplete

\* A plugin that is active has been tested (PluginManager).
ActiveWasTested == which = "plugins" => Plugging!ActiveWasTested

\* A passed upgrade was tested with its own files (SelfDevelopmentManager).
PassedWasTested == which = "upgrades" => Upgrading!PassedWasTested

\* A skill is a version there has been (SkillVersionManager).
KnownVersion == which = "skills" => Learning!KnownVersion

\* Clicks hit what was named (ComputerController).
ActsOnTheNamed == which = "desktop" => Pointing!ActsOnTheNamed

\* What the sandbox tools report is so (TerminalSandbox).
ReportsAreTrue == which = "sandboxes" => Running!ReportsAreTrue

\* A thread reads the page it opened (BrowserController).
ReadsItsPage == [][which = "browser" => Browsing!ReadIsOwn]_vars

\* A sentence that is rendered again gets no second tag, and is settled after that
\* (SpeechDirector.render).
Settles == [][which = "director" => Directing!RenderSettles]_vars

==============================================================================
