# A TLA+ model of CV Adapter

CV Adapter is a recruitment back office: talent agents upload consultants' CVs,
match the consultants with job postings, decide about them, let a language model
tailor a CV to an application and publish it behind a link. The service
(`src/backend`, FastAPI with SQLAlchemy over PostgreSQL, and a profile volume with
one directory per consultant) runs as two or more ECS tasks during a deployment;
each task serves requests from a thread pool and runs one background worker.

This directory holds TLA+ modules that follow that code operation by operation, TLC
configurations that check them on small instances, and proofs that TLAPS checks.
`PROJECT.json` is the index: components, runs, theorems, hazards, the mutants that
show every property can fail, and the lines of `src/` each definition stands for.

## 1. The system

| component | state | operations | how it meets the others |
|---|---|---|---|
| `workflows/` | table `workflow_runs`; one PostgreSQL advisory lock; per process a supervisor task and one worker thread | enqueue, claim_next, record_stage, commit_result_ref_once, mark_succeeded, mark_failed, recover_interrupted; acquire, verify, release; start, stop | domain services enqueue and stage outcomes in their own transactions; the runner calls the handler registered for a run's type |
| `tailored_cv/` | row `tailored_cvs` of an Application: status, attempt, input hash, revision, content | request_generation, save_state, commit_generated_state_once, record_generation_failure, delete | takes the Application's row lock; its handler runs in the worker thread |
| `cv_importer/` | row `cv_imports` of a Consultant; uploads and `profile.md` (which carries a marker of the last import) on the volume | request_import with reconciliation of a stuck attempt, the handler, write_profile, finish_upload_cleanup | shares `profile.md` and its lock with the profile editor |
| `super_cv/`, `cv_assistant/` | `profile.md`: revision and content hash | load_profile, save_profile, apply_profile_patch | profile lock (`cv_state.exclusive_profile_write`) |
| `cv_state/` | `cv_state.json` of a Consultant | load_base, save_base | read by tailored_cv for its input snapshot |
| `applications/` | table `applications` | apply, transition, lock_application | shares Job and pair locks with jobs; a terminal transition revokes the publication and deletes the tailored CV |
| `jobs/` | `jobs` with a content hash per posting, `job_decision_pairs`, `job_reviews` | create_job, update_job, close_job, find_near_duplicate, list_jobs, record_review, withdraw_review, lock_job, lock_pair | as above; whose Jobs an actor sees is decided with `authz/` |
| `matching/` | `job_consultant_matches` (write-through cache); a YAML configuration and its backup, which carry a marker of the run that wrote them | read_score, score_job_for_consultant; request and handler of the `matching_config` workflow | scores are deleted by close_job and by opting out; the files go with the profile directory |
| `cv_publish/` | `cv_publications`, photo snapshots, an in-memory throttle | publish_for_application, extend, revoke, record_view, purge_revoked | Application lock; notifications |
| `auth/` | users with a counter of failed logins and a lockout, sessions, invites | create_user, authenticate, create_session, resolve_session, set_password, reset_password, accept_invite, revocations | every route resolves its session; erasure deletes the rows |
| `notifications/` | `notifications` with dedupe keys | create, dispatch, mark_read | called by cv_publish |
| `tenancy/`, `sites/`, `authz/` | roles, Sites, links between talent agents (TA) and consultants | provision, add, assign, unassign, opt in and out; predicates over roles, links, Sites and pairs | every route's guard is one of the predicates; opting out deletes cached scores |
| `privacy/`, `retention/` | everything of a consultant; audit log | export, erase; purges | deletes rows of all the others and the profile directory |
| `shared/` | none | score_job, thresholds and advice; Job records | called by matching |
| `cv_pipeline/`, `opportunity_pipeline/`, `llm.py` | none | prompts, documents, model calls | called by handlers |
| `main.py`, `config.py`, `db/` | none of interest | lifespan, sessions, mapping | starts and stops the runner |
| `html/`, `local_tools/`, `scripts/`, `alembic/` | client and operations | - | requests |

What is hard here: two processes during a rolling deployment and the hand-over of
leadership between them; a worker thread that outlives the shutdown grace period;
statements that fail after they took effect; invocations that finish after their
run was requeued; ORM copies loaded before a lock was taken; decisions about one
pair that write different tables; and two stores, the database and the volume,
that cannot commit together.

What makes each component correct:

* **workflows** - an accepted run is decided; its effect happens once; `succeeded`
  is backed by the effect and final; one process invokes handlers at a time;
  recovery strands nothing.
* **applications, jobs, matching** - Apply and Reject exclude each other; one live
  Application per pair; a closed Job takes no decision; a score is cached only for
  an open Job and a Consultant who is looking; statuses only advance; a terminal
  Application keeps no artifact.
* **tailored CVs** - one generation in flight; an attempt lands once; what is
  stored was made from the inputs approved for it; edits replace only what their
  author saw (but for the reply of section 7) and are not lost to a generation.
* **CV import** - an attempt is merged once; nothing in the profile is lost; row,
  run and disk tell one story; uploads are neither lost nor left behind.
* **publications, notifications, erasure** - an ended Application serves nothing;
  revocation is final; only the last link opens a CV; the photo served is the one
  that was frozen; no photo and no notification outlives its owner, but where a
  deletion failed; opens are counted, and each agent is notified once a day.
* **auth** - a session belongs to an account that exists (which `erase_consultant` sees to,
  and in PostgreSQL the cascade of its foreign key besides) and has a password; a password
  change ends what was opened with the old one; the lockout counter counts.
* **tenancy, authorisation, job board** - no link and no decision crosses a Site or
  outlives an account; pickers and lists offer what the server then allows; a posting
  is not entered twice.
* **base CV, matching configuration, scoring** - no save replaces a revision its author
  has not seen; the newest requested configuration stands and is written once; files
  go with the account; more evidence moves a score only as the weight says.

## 2. The modules

| module | models | extends or instantiates |
|---|---|---|
| `JobLedger` | what `workflow_runs` promises to the services that enqueue work | - |
| `WorkflowQueue` | `workflows/`: table, leadership, supervisor, worker thread, probe handlers | instantiates `JobLedger` |
| `JobDecisions` | the transactions that decide about a (Job, Consultant) pair | - |
| `Postings` | creating, editing and closing the Jobs of a Site; duplicates | - |
| `Tenancy` | roles, Sites, links and pairs, the predicates of `authz/policy.py`, pickers and lists | - |
| `TailoredCV` | the tailored CV of one Application | - |
| `CVImport` | the CV import of one Consultant, uploads, `profile.md` and its editors | - |
| `VersionedStore` | what a compare-and-write store promises its clients | - |
| `BaseState` | the base CV: load_base, save_base and the two-layer profile lock | instantiates `VersionedStore` |
| `MatchingConfig` | the `matching_config` workflow, its two files, and the erasure of the directory | - |
| `Scoring` | the advisory score of a posting for a Consultant, and when there is one | - |
| `Accounts` | logins, lockout, sessions, invites, password changes, erasure | - |
| `Publication` | the published CV of one Application: row, photo copy, notifications, purge, erasure | - |
| `JobBoard` | the job board: who may, which Jobs, and what is decided about them | extends `JobDecisions`, instantiates `Tenancy` and `Postings` |
| `Consultant` | what is kept for one Consultant: account, base CV, configuration, score | extends `BaseState`, instantiates `Accounts`, `MatchingConfig` and `Scoring` |
| `...Proofs` (eight) | the theorems about the module each is named after | that module, TLAPS |
| `MCWorkflowQueue`, `MCTailoredCV`, `MCCVImport`, `MCPublication`, `MCJobBoard`, `MCConsultant` | small instances | the module each is named after |
| `MCWorkflows` | fair instances of the two workflows with a row of their own | instantiates `TailoredCV` and `CVImport` |

`JobLedger` is the contract between the queue and the domain modules. `TailoredCV`
and `CVImport` do not repeat the queue: they use exactly what the ledger and
`NoStrandedRun` leave open - a run is claimed, may be requeued with (`RecoverAlive`)
or without (`Recover`) a live invocation, and `mark_*` may turn failed into succeeded
but never back. The two faces of an artifact in `JobDecisions` (`Attach`) and in
`TailoredCV` (`StartGeneration`) are the same `request_generation`, seen from the
Application's lock and from the row.

**Composition.** `JobBoard`, `Consultant` and `MCWorkflows` put modules side by side in
one run. In each of them no module reads a variable that another one changes, so that
interleaving them would reach only products of states each reaches alone, and
invariants, step properties and liveness of one module cannot tell. The variable
`part`, chosen at the start, says which of them moves; the others stand still (in
`JobBoard` and `Consultant` without a state, to keep the runs small). Where
two components do share state, they are in one module: the profile lock and
`profile.md` are shared by import and editors in `CVImport`, Application, Job and
pair locks by applications, jobs and matching in `JobDecisions`, the profile
directory by configuration runs, other writers and erasure in `MatchingConfig`, and
the Application lock by publishing and ending in `Publication`.

### WorkflowQueue

A row is one entry of `status`, `stage`, `resultRef`, `errorCode`, `createdAt`, by
idempotency key; each statement of `service.py` is one operator (`ClaimRow`,
`RecordStageRow`, `CommitResultRefOnceRow`, `MarkSucceededRow`, `MarkFailedRow`,
`RecoverInterruptedRows`). A process is a supervisor (`sup`, the place in `_supervise`
and `_ensure_leadership`), the flags `isLeader`, `recovered`, `stopping`, and a thread
(`phase`, the place in `run_once` and the handler, and `job`). `lockHolder` is what
PostgreSQL knows, `isLeader` what the process believes; `LoseSession` parts them.
Each failing statement either took effect or did not. `Fault` counts exceptions the
code handles, `Escape` those that leave `run_once`. `effects` is history: how often
the business effect was committed.

### JobDecisions

A request is one database session: `Begin` chooses it and loads the session's
copies, each lock statement is a step that waits for the row (`LockJob`, `LockUser`,
`LockPair`, `LockApplication`; the foreign keys of an INSERT take a shared lock on the
Consultant), and the commit is the last step, which frees everything. The copies
`seenOpen` and `seenStatus` are what the ORM's identity map holds: the guards read
them, not the tables, so that a missing `populate_existing` shows (mutants
`LockJobStale`, `LockApplicationStale`). `Abort` is an exception, a dead process or
the victim of a deadlock.

### Tenancy

The state is the relations the predicates are about: `roles` (an account exists while it
has one), `home` and `posted` (Sites), `looking`, `links`, the Jobs' `status`, `pairs`. Every
predicate and list of `policy.py`, and the SQL of `operable_consultants` and `list_jobs`,
is an operator, so that what is offered and what is allowed are two definitions that
the properties compare. A request is two steps: its checks make an intent in `pending`,
its commit acts on what the database then holds and on constraints only (foreign keys,
primary keys). `Init` is what the pilot's seed leaves.

### Postings

A posting is a title, a company and a description known by its set of words and its
wording; `digest` is the stored content hash. A creation is a scan for near duplicates
and an INSERT, which the unique index on (Site, hash) of open Jobs may refuse; an
edit loads a copy and later writes the columns that differ from it. `stale`, `edited` and
`blind` are history: what was written from an overtaken copy, edited, or inserted
without having been seen by a scan. Similarity is a quotient of word counts against
the code's threshold; which titles look alike is a constant relation.

### TailoredCV

The row, its runs by attempt (the attempt is in the idempotency key), requests with
their lock and their copies, and invocations by `phase`. A document is known by what it
was made from: a snapshot of the inputs, any of which a request may find since profile,
base CV and posting are edited elsewhere, or an edit, known by the revision it made.
A save is three steps: the lock (`LockForSave`), the comparison and the commit, which
frees the row (`SaveEdit`; `SaveUnchanged` is the no-op and `SaveRefused` the refusals),
and the reply, for which `db.refresh` reads the row again (`Reply`; `ReplyNotFound` when it
was deleted in between). The editor keeps its own document, takes the revision of the
reply and saves again. `misled` is history: the reply named a revision that was not the
one the save had made. `landed` and `editedSince` are history too. Overlaps, crashes and
faults are bounded each and together (`Troubles`).

### CVImport

The row, its runs, `files` (uploads) and `profile`, which is the sequence of what was
put into `profile.md`: attempts of the import and edits. A merge appends to what was
read, an unusable merge replaces it. `marker` is the metadata write_profile stores
with the same rename. Between the file system and the database every step is
separate, and `Crash`, `RequestCrash` may come between any two. `trouble` is the set of
kinds of trouble that happened; several properties name the kinds they exclude.
`strays` is history: uploads abandoned in the windows that the code's comments accept.

### BaseState and VersionedStore

A client loads the revision without a lock. Its save takes the lock among the threads
of its process, then the file lock, compares, writes and answers. The file lock is
granted to a process that has it already, as on NFS, so that it excludes processes
only; a process may die at any point. The refinement maps the file to the value
and the revision of `VersionedStore` and a client's copy to what the store says the
client has seen.

### MatchingConfig

Runs are numbered as accepted; `stamp` is created_at, the start of the accepting
transaction, which is what `_latest` orders by. An invocation checks that it is the
newest, generates, checks again, keeps the account's row locked from there, takes the
profile lock, makes the file that is there the backup, replaces it, and marks the run;
after a crash the configuration it finds may be its own. `primary` and `backup`
name the run that wrote each file. `SaveFails` is an error between the account's lock and
the mark. An eraser removes the directory before it commits, or only some of its files
when rmtree fails. `writer` is one other writer of the directory: a base CV's save, which
fails at its write when the directory went since it took its lock, or the profile editor
or import, whose write makes the directory again (`Write`). `wiped` is history: whether
the last rmtree was complete, left files behind or met such a writer past its access check.

### Scoring

Points are hundredths and weights per cents, in integers, and quotients are rounded
down; the code has floats. A posting is the set of patterns found in it (anywhere, as
words, as words of the title), so that any text is one of finitely many. A state is an
input of score_job_for_consultant; the one action adds a piece of evidence, so that the
run goes through every posting, configuration and set of evidence. `Profiles` are the four
things `load_profile` can find; the third of them, a fence whose text is not YAML, raises
what the function does not catch. `WellFormed` is the shape the scorer reads a
configuration with, `ValidConfig` what `validate_config` asks: whatever weights there are
add up to one, those that are missing have the scorer's defaults, and any may be negative.

### Accounts

A request (or a run of `reset_password.py`) copies its account's row into `seen` when it
begins, hashes a password, and commits later; the ORM writes only columns whose value
differs from the copy, which is what `Assigned` says. `pc` is the place between the
two: `verify`, `open` (authenticated, session to come), `hash`, `revoking`, `ending`,
`accept`. Passwords are numbered, `opened` is the password a session was opened with.
`late`, `replaced` and `raced` are history and name the sessions and accounts the
properties exclude.

### Publication

`rows` are the publications of one Application, `disk` the photo copies on the
volume, each known by publication, extension and what it shows. `Delete` is
`_delete_photo`, which swallows an error: any of the files may stay, `stuck` is history of
them, and the row goes all the same. `notices` are those of the day by publication and
user, as the lookup of the dedupe key is: whom an open is notified to is looked up after
the count was committed (`CheckNotice` finds any of the agents, since the consultant may
be assigned anew between two opens; `NobodyToNotify` finds none). A publish holds
`appLock` from its first read to its commit; extend, revoke, opens and the purge
hold no lock between reading a row and writing it, so each is a reading step
(`Begin...`) and a writing step, and what they read is in `target`, `count` and
`doomed`. The UPDATE of a republish (`Republished`) names the columns it writes.
An erasure is one transaction that locks the publications (`EraseRows`), then waits
for the Application, the opposite of the order of a republish: `DeadlockVictim`
ends one of the two. `mishaps` is history: what happened that the code does not
repair; several properties name the mishaps they exclude, and each exclusion is a
hazard in `PROJECT.json`.

## 3. The runs

| run | instance | distinct states | what it shows |
|---|---|---|---|
| `queue_safety` | 2 processes, 2 keys, 1 crash, 2 lost sessions, 1 handled and 1 escaping error, 1 shutdown | 971,583 | types, exactly-once effects, complete success, no concurrent invocation without a lost session, nothing stranded, refinement of the ledger |
| `queue_liveness` | 2 processes, 3 keys of the 3 kinds, 1 crash, 1 error, 1 shutdown, fair | 196,808 | every queued run is decided |
| `queue_stale_leader` | 2 processes, 1 lost session, 1 crash, fair | violation | a run claimed after the successor's recovery stays running |
| `job_board` | `JobDecisions`: 2 requests of any kind, 1 Job, 1 Consultant, 2 Applications; `Tenancy`: 4 accounts, 2 Sites, 1 Job, 1 pending request, 1 account opted out at a time; `Postings`: 3 Jobs, 2 requests, 3 contents, 2 edits | 458,016 | decisions exclude each other and closed Jobs, derived rows follow; links and pairs keep to Sites, pickers and lists agree with the predicates; hashes hold, near duplicates were raced |
| `tailored_safety` | 2 requests, 2 invocations, 2 inputs, 2 attempts, 3 revisions; an overlap with a fault, or a crash | 1,147,532 | one generation, landing once, approved inputs, edits |
| `tailored_lost_edit` | 1 overlap and 1 fault | violation | an accepted edit is overwritten by a generation |
| `import_safety` | 2 requests, 2 invocations, 2 attempts, 3 files, 1 edit, any 2 of the 6 kinds of trouble | 1,293,071 | merged once, nothing lost, row, run, disk and uploads agree |
| `import_failed_merged` | 1 crash | violation | an attempt that is on disk is recorded as failed |
| `workflows` | `TailoredCV`: 1 request, 2 invocations, 2 attempts, 1 overlap, 1 crash; `CVImport`: 1 request, 2 invocations, 1 attempt, 1 crash, 1 overlap; both fair | 88,827 | a generation ends, an import ends |
| `consultant` | `Accounts`: 1 account, 2 requests, 2 sessions, 2 passwords, 3 wrong guesses in a row; `BaseState`: 3 clients in 2 processes, 2 states, 2 revisions; `MatchingConfig`: 2 requests, 2 invocations, 3 runs, 1 crash, failing save or overlap; `Scoring`: 3 configurations, every profile, posting and evidence over 4 patterns | 1,057,383 | sessions, passwords and lockout; compare-and-write; newest configuration and its files; sound advice |
| `publication_safety` | 2 requests, 2 publications, 2 publishes, 2 agents, 2 extensions; 2 opens, or 1 and a replaced photo, failing request or failing deletion | 1,066,298 | nothing served after the end, final revocation, last link, frozen photo, no stray photo or notification but where a deletion failed, opens and notices |
| `publication_erasure` | 1 publish, 1 erasure | violation | a photo that outlives the erasure |

**Why the bounds are enough.** Two processes are what a rolling deployment has, and
the hazards of leadership are between an old and a new leader. Two keys are needed
for the order of claims, the third covers the third kind of handler. Conflicts
between requests are pairwise: each involves one pair of rows and two transactions;
two requests after another, in any number, are covered because a session that ended
may begin again. A second Application is needed for re-applying, a second attempt
for late invocations of the first, a second input for the wrong document. A third revision
is needed for a save on a reply that another's edit overtook; a second agent for an open
that finds another recipient than the one before it. One
trouble of a kind opens each window the properties are about; two of different kinds
are needed where a repair (reconciliation, recovery) must itself survive one.
Symmetry is used for identities that are only compared, in safety runs only.

A session, an invite, a lockout and a password are told apart by their order alone, so
two passwords and two sessions show each other's replacement, and a guess beyond the
lockout shows the count after it. `Tenancy` has one account of every role set the seed
and the routes make, two Sites, because every rule is about one Site or two, and one
request pending while others commit; who looks for work is a matter of one account
each, so that one opted out at a time shows the rules. Three Jobs are needed for a
posting that is near to two others.

**Fairness.** `WorkflowQueue`: weak fairness of each supervisor (an asyncio loop that
is never blocked by the handler, and ECS restarts stopped tasks) and of each thread
(a handler's calls have timeouts). No fairness of faults, crashes, stops or callers.
`TailoredCV`, `CVImport`: requests and invocations go on; strong fairness where a row
or profile lock is waited for, since holders release it and PostgreSQL and flock
queue the waiters; recovery of a run without invocation is weakly fair, which is
what `EventuallyTerminal` and `NoStrandedRun` of the queue justify. `MCWorkflows` states the
fairness of each module's `FairSpec` for the module that moves.

## 4. What the violations say

* `queue_stale_leader` - leadership is verified once per cycle
  (`runner.py:301`), the claim is a separate connection. A lock session lost in
  between lets the old leader claim after the successor recovered; if the old one
  then dies, nothing requeues the run until leadership changes.
* `tailored_lost_edit` - a failing statement ends an invocation whose run was
  requeued; the run is failed, so an edit is accepted; the other invocation still
  finds its attempt generating and overwrites the edit. It takes both;
  `EditsSurviveUnlessBoth` holds.
* `import_failed_merged` - the handler extracts before it looks at the marker, so a
  recovered invocation can record the failure of an attempt that is already merged.
* `publication_erasure` - `erase_consultant` locks the user's row, which a publish by a
  talent agent never touches. A publish that commits after the erasure read the
  publications loses its row to the erasure (or to the cascade) but not its photo.

Other limits of the code appear as conditions in properties that hold: an exception
that escapes `run_once` leaves its row running (`NoStrandedRun`), an unusable answer
of the merger replaces a profile (`NothingLost`), a save's reply may name another's
revision (`EditsSurviveUnlessBoth`), overlapping opens lose a count and
notify twice (`OpensAreRecorded`), a photo whose deletion fails stays without a row
(`NothingIsLeftBehind`), a republish that fails halfway changes the photo
of a live publication (`ServedPhotoIsFrozen`), another writer makes an erased
directory again (`FilesFollowTheAccount`), a profile that is not YAML has no answer
(`AdviceIsSound`). Section 7 has the places.

## 5. The proofs

Eight modules hold the theorems, each about one module and for every value of its
constants, from the assumptions that module names and TLC evaluates in its run. The
invariants are strengthened until they are inductive, and the theorem's step then has
one case per action. The theorems about a module that `JobBoard` or `Consultant`
instantiates are in the proofs of the composition, about its specification: a step
of it is a step of the instance or changes none of its variables (`BoardParts`,
`ConsultantParts`), and the lemmas about the instance's actions name them through
the instance (`People!`, `Posts!`, `SignIn!`, `Matching!`).

`WorkflowQueueProofs` proves for any processes, keys, kinds of run and bounds, from
the three assumptions of the module (`KindAssumption`, `NoneAssumption`,
`BoundAssumption`):

| theorem | statement |
|---|---|
| `TypeCorrect` | `Spec => []TypeOK` |
| `EffectsExactlyOnce` | `Spec => []ExactlyOnceEffect` |
| `SuccessIsComplete` | `Spec => []SucceededIsComplete` |
| `OneInvoker` | `Spec => []NoConcurrentInvocation` |
| `NothingStranded` | `Spec => []NoStrandedRun` |
| `TerminalRowsAreFinal` | `Spec => TerminalIsFinal` |
| `QueueImplementsLedger` | `Spec => ImplementsLedger` |

The inductive invariant comes in layers, each inductive relative to the earlier:

1. `TypeOK`;
2. `ThreadInv`: a thread has a run exactly while it is past `claim_next`, and lives only
   in an awaited or cancelled cycle. Without it a row could be written by nobody.
3. `RowInv`: effects are counted by `resultRef`, only accepted rows have them, and a
   thread that is about to mark success stands behind a stored reference. This
   strengthens the two properties about rows, which are not inductive alone:
   `MarkSucceededRow` is only right because of where the thread is.
4. `LeaderInv`: a process works only as leader, and, as long as no session was lost,
   its flag tells the truth about the lock. One holder, hence one invoker.
5. `NoStrandedRun` itself, relative to all of these.

The action properties and the refinement follow from the invariant step by step:
each action of the queue maps to the ledger action of the row operator it uses.

`PublicationProofs` proves for any number of requests, publications and photos and any
bounds, from `NoneAssumption` and `BoundAssumption`:

| theorem | statement |
|---|---|
| `TypeCorrect` | `Spec => []TypeOK` |
| `HolderKnowsTheActive` | `Spec => [](LockInv /\ HolderInv)` |
| `EndedServesNothing` | `Spec => []EndedIsNotServed` |
| `OnlyTheLastLinkWorks` | `Spec => []LinkIsLatest` |
| `RevocationIsFinal` | `Spec => RevokedIsFinal` |
| `FrozenPhotosStay` | `Spec => []ServedPhotoIsFrozen` |
| `VolumeMatchesRows` | `Spec => []NothingIsLeftBehind` |
| `OpensAreCountedOnce` | `Spec => []OpensAreRecorded` |

None of them is inductive. `EndApplication` revokes the publication it read when
it took the Application lock; that this is all there is to revoke needs `HolderInv`: at
most one publication is active and the holder's is it, and a new id is stored by nobody
else. `HolderInv` needs `LockInv` (publishing and ending requests hold the lock, of a live
Application), and both need `TargetInv` (such a request has a publication). `RowsStep`
and `HolderStep` then carry the case split over all actions once: only `StoreNew` makes a
row active, only the two stores give it another link, and whoever is under the lock after
a step has just taken it or goes on with what it read.

The last three come from one invariant, `WholeInv`: the above, and for photos `CopyInv`
(who has a photo at hand copies or stores it), `PurgeInv`, `FrozenInv` and `TidyInv`, for opens
`UnopenedInv`, `CountInv` and `OpenInv`. `FrozenPhotosStay` needs `FrozenInv`, which also says of
a publish about to commit that its copy is on the volume, and `PurgeInv`: what a purge has
chosen is not served and nobody stores it anew, so that its deletions meet no photo in use.
`VolumeMatchesRows` needs `TidyInv`, about the files on which no deletion failed (`Files`, which
is `disk` without `stuck`): with no aborted request on record (`Clean`) every one of them belongs
to a row or to the publish under the lock, a purge reaches every one of what it deletes,
and an erasure, during which nobody publishes, all of them. The opens are a matter of
counting what was read. That none is counted twice is `CountInv`, whatever overlaps.
`OpenersApart`, which holds until two opens of a publication overlap, says that who
counts has read the row's count and who notifies an agent is the first to, `Told` that an
agent who was found has a notice or somebody about to write it, and `UnopenedInv` that
nothing was opened that was never stored.

`JobDecisionsProofs`, from `JobDecisionsAssumption`:

| theorem | statement |
|---|---|
| `DecisionsExclude` | `Spec => []OneDecisionPerPair` |
| `DerivedRowsAreBacked` | `Spec => []DerivedRowsFollow` |
| `ClosedJobsAreDecided` | `Spec => NoDecisionOnClosedJob` |

The two invariants are inductive together with `HolderInv` - a request that holds the Job
lock, or the Application lock, has a true copy of the row (`populate_existing`), and one
that goes on to the pair saw the Job open - and `AppInv`: an Application has a pair
exactly when it has a status.

`JobBoardProofs`, from `BoardAssumption` (what `Tenancy` and `Postings` assume of their
constants) and `JobDecisionsAssumption`:

| theorem | statement |
|---|---|
| `BoardDecides` | `BoardSpec => Spec`: the board behaves as `JobDecisions`, whose theorems hold of it |
| `SitesAreSeparate` | `BoardSpec => []TenancyHolds` |
| `PickedIsAccepted` | `BoardSpec => []PickerIsHonoured` |
| `ListMeetsDetail` | `BoardSpec => []ListAgreesWithDetail` |
| `HashesAreCurrent` | `BoardSpec => []HashesHold` |
| `OnlyRacesRepeat` | `BoardSpec => []NearDuplicatesRaced` |

`TenancyHolds` needs `PendingInv`: what a request checked (Site, role, Job) stays true until
its commit unless an account of it is erased, and then the commit fails on its foreign
keys; with `UsedInv` no account comes back, so that its Site is for ever. What pickers and
lists offer agrees with the predicates because of `NamedInv`: what a link may name (a TA
and a Consultant, the one with a role that has consultants, both of one Site), which holds
because roles are for life. `HashInv` has three parts: Jobs are numbered without gaps, the
unique index holds, and a digest is that of the content unless an edit was overtaken -
for which a request's copy must be the row's content as long as nobody wrote since
(`Hashed`). `RaceInv` adds what a scan in progress has seen (`Scanned`) and that two near
duplicates neither of which was edited have one that the other's scan could not see
(`Raced`). `find_near_duplicate` takes the match of the highest score, so that nothing
is found only if nothing matches: `NoneFound` needs a match that no other one precedes
(`Topmost`), which a finite strict order has.

`ConsultantProofs`, from `ConsultantAssumption` and `BaseStateAssumption`:

| theorem | statement |
|---|---|
| `ConsultantKeepsBase` | `ConsultantSpec => Spec`: the composition behaves as `BaseState` |
| `EverySessionIsBacked` | `ConsultantSpec => []SessionsAreBacked` |
| `OldSessionsEnd` | `ConsultantSpec => []OldPasswordsAreOut` |
| `LockoutsAreCounted` | `ConsultantSpec => []LockoutCounts` |
| `NewestIsOnDisk` | `ConsultantSpec => []NewestConfigStands` |
| `ErasureTakesTheFiles` | `ConsultantSpec => []FilesFollowTheAccount` |
| `AdviceStaysSound` | `ConsultantSpec => []AdviceIsSound` |

`SessionsAreBacked` needs `OpenerInv`: a request about to open a session is about an account
that got its password, which only the erasure, and then the foreign key, takes away.
`OldPasswordsAreOut` needs `RevokeInv`: between the change of a password and the end of the
old sessions its request has listed every one of them, or they are counted as late.
`LockoutCounts` is arithmetic: a counter that starts again at every lockout is what the
number of wrong guesses leaves over (`Counts`), as long as no two of them read it at once.
The matching configuration needs five parts (`MatchingInv`): `RunsInv`, runs are numbered as
accepted and an invocation is of an accepted run; `HoldInv`, who is past its second check
holds the account's row and is the newest run; `SavedInv`, the files' stamps grow and
the backup is older; `DoneInv`, a run that succeeded wrote or was superseded; `ErasedInv`,
what an eraser has removed and who may still write, so that only another writer, and no
configuration run, makes the directory of an erased account again.

`AdviceStaysSound` is about the operators, since the only action adds evidence: the score
is monotone, upwards or downwards as the sign of the weight of expertise says. A weighted
sum exists and is unique for a finite set of terms (`AddsExists`, `AddsOnce`), does not depend
on the order (`SumInAnyOrder`) and grows with its summands (`SumGrows`), hence so do the
matched part of the terms and its quotient (`MatchGrows`, `ExpertiseGrows`); the other
dimensions are integers that evidence does not enter (`RoleIsInt`, `GrowthIsInt`,
`PracticalIsInt`), and deductions, clamp and thresholds keep the order (`OverallFollows`,
`AdviceRises`). A blocker or risk that is no signal changes no dimension, and one that is
changes none as long as it stands inside a word (`AreSignals`, `OverallShrinks`). Nothing is
assumed of the weights but that `validate_config` accepts them.

`BaseStateProofs`, from `BaseStateAssumption`:

| theorem | statement |
|---|---|
| `ComparisonHolds` | `Spec => []ComparedIsStored` |
| `SavesAreCompareAndWrite` | `Spec => ImplementsStore` |

`ComparedIsStored` says who holds which layer and what is loaded under both, and is
inductive itself; with it each step of a save is a step of `VersionedStore` or a stutter.

`TailoredCVProofs`, from `NoneAssumption` and `BoundAssumption`:

| theorem | statement |
|---|---|
| `OneRunAtATime` | `Spec => []OneGenerationInFlight` |
| `OnlyApprovedInputs` | `Spec => []ApprovedInputsOnly` |
| `OutcomesLandOnce` | `Spec => LandsOnce` |
| `EditsAreNotLost` | `Spec => EditsSurviveUnlessBoth` |

The invariant has five parts. `RequestsInv`: copies are true under the locks. `RowInv`: attempts
count up, what is active and has not landed is the current attempt, and an attempt has
landed exactly when its row is decided. `WorkersInv`: who ended leaves no generating row
behind, but for a fault, and who is about to store has the inputs of its attempt unless
it is superseded. `AloneInv`: without an overlap a run has one invocation. `EditInv`: an edit
under a generating row means a fault, and without an overlap nobody is left to overwrite
it - the reason why `EditsSurviveUnlessBoth` names both, and the violation run shows both.
`RequestsInv` also says what a save may rely on: who has the revision of the row has its
document, unless the reply misled him (`misled`), which is the exemption the property states.

`CVImportProofs`, from `NoneAssumption`, `BoundAssumption` and `EditAssumption`:

| theorem | statement |
|---|---|
| `EachAttemptMergesOnce` | `Spec => []MergedOnce` |
| `NothingIsLost` | `Spec => NothingLost` |
| `FailureMeansNotMerged` | `Spec => []FailedIsNotMergedUndisturbed` |
| `RecordsStayInStep` | `Spec => []RecordsAgree` |
| `StuckUploadsAreReconciled` | `Spec => StuckIsReconciled` |

`RequestsInv` and `RunsInv`: what a request found under the row lock stays so, runs belong to
accepted attempts and invocations to runs. `ProfileInv` is why an attempt merges once:
who merges holds the profile lock and has the profile as it is for a base, only accepted
attempts are in it, and the marker is the current attempt's as soon as that is in it, so
that an invocation that finds another marker has not been there. `AloneInv` (no overlap:
one invocation per run, and what `_try_reconcile_stuck_attempt` read still holds at the
commit) and `FailedInv` (nor a crash, nor an ambiguous statement: who may still record a
failure has not merged) carry the two conditional properties; their conditions are
the ones `import_failed_merged` shows to be needed. `RecordsStayInStep` needs besides that no
two requests and invocations name one upload (`UploadsApart`), so that a clean-up, whoever
does it, removes its own (`FilesNamed`, `QueuedHasFile`, `SucceededReturns`).

**Only model-checked.** What no theorem states is liveness: `EventuallyTerminal`,
`GenerationEnds` and `ImportEnds`, because fairness and ENABLED are outside the prover's
reach. Every invariant and every action property of a run that passes has a theorem.
Induction over data is outside too, since the library's induction theorems take an
operator; where a fact needs it (a finite strict order has a topmost element, a sum
does not depend on the order), the proof takes a smallest counterexample in a finite
set, which the library's theorem that the strict subset relation is well-founded gives
(`Topmost`, `SmallestSubset`). No module uses a RECURSIVE operator.

## 6. What is left out

* In `WorkflowQueue`: the race of two requests for one key, which the unique index decides
  (`Enqueue` is one step); the attempt counter, progress numbers, timestamps and messages;
  the SQLite path, which has no leader. In `JobDecisions`: the SQLite path, where the
  unique index decides instead of the row lock; scoping by actor. In `TailoredCV`: the
  refusal of a save that names another artifact, which comes before any lock. In
  `CVImport`: a profile that cannot be parsed, the content of a merge, erasure while
  an import is in flight, and a failing delete of a request's own upload (a stray
  of the kind the code accepts).
* In `Publication`: clearing the copies of a publication (`_snapshot_photo`) is all or nothing,
  a clearing that fails in the middle being one that a failing request follows; a deletion
  that a process does not survive; the request throttle, whose drift its docstring accepts; the
  tailored CV a publish is made from (a publish without content is refused and
  changes nothing); a publish by the Consultant whose account is being erased, which
  waits for the user's row as well; two uploads of a profile photo at once.
* In `Tenancy`: paging, sorting and the fields shown of an account; in `Postings`:
  case, white space and the similarity of titles (a relation of the instance); in
  `MatchingConfig`: what a configuration says; in `Scoring`: folding and word boundaries,
  the wording of the advice, weights that are no numbers (`validate_config` leaves them out
  of its sum, the scorer's `float` raises); in `Accounts`: hashing, cookies, and the time an
  expiry takes - it may come at any moment.
* The export of `privacy/` and the audit log: they read, or append, and change nothing
  else. Erasure is spread over four modules by the state it meets; one transaction over
  all of it would be the product of them, and what one part of it does another cannot see.
* The chat of `cv_assistant/` (model calls; its save is save_profile), `cv_pipeline/` (prompts and
  documents), clients, migrations, the seed's refusals: no state, or nothing concurrent.

## 7. What the work showed besides

Behaviour that the properties exclude by name, or that no property is about:

* `accept_invite` says no session can exist before it (`auth/service.py:426`); `reset_password` on
  an account whose invite is still open makes one possible, and the acceptance leaves
  it alive (`replaced` in `Accounts`).
* Two overlapping edits of a Job store a mixture of both and the content hash of one of
  them (`jobs/service.py:401`; `stale` in `Postings`). The comment at line 387, that the
  second refusal is only reached when the winner rolled back, forgets a close or an
  edit in between.
* `add_consultant` can link an account that holds Admin alone, by its address; the picker
  then offers it and the server answers 404 (`tenancy/routes.py:127`).
* A Consultant who is looking is listed closed Jobs whose detail answers 404.
* `created_at` is the start of a transaction: a configuration run accepted later may count
  as superseded (`OutOfOrder` in `MatchingConfig`).
* The reply to a save of a tailored CV is read after the commit that frees the row
  (`tailored_cv/service.py:614-615`): an edit committed in between gives this editor its
  revision, and the next save of the older document passes the comparison and overwrites
  it. `docs/architecture/areas/cv-artifacts.md:361-373` lists it as a known defect, which breaks
  what the same document says of edits. The model has the gap and reaches the lost edit
  (without `~misled[s]` the second part of `EditsSurviveUnlessBoth` is violated);
  the property says that there is no other way to it.
* `_delete_photo` logs and swallows every `OSError` (`cv_publish/service.py:80-83`), and its
  callers delete the row all the same: the photo stays on the volume and no row names it.
* The dedupe key of a notice counts for one user (`notifications/service.py:33-44`). The comment
  at `cv_publish/service.py:352`, "One notification per publication per day", is not what happens
  when the consultant is assigned to another agent between two opens of a day: each of
  the two has one. An open finds nobody to notify when no agent is assigned and the
  publisher's account is gone.
* `load_profile` raises `yaml.YAMLError` on a fence whose text is not YAML
  (`profile_reader.py:48`). `score_job_for_consultant` catches `FileNotFoundError` and `ValueError`
  only, so that the request for the score, or for the list of Jobs, ends with an error;
  its docstring (`matching/service.py:66`) and `docs/architecture/areas/jobs.md:85-87` promise
  `scored: false` for an unparseable profile, "not a 500".
* `validate_config` only adds the weights up (`shared/matching_config.py:26`): a configuration
  with a negative weight of expertise, or with weights left out that the scorer then
  supplies, passes; under the former evidence lowers the score.
* In scoring a location rule of 0 and a default of 0 count as not given, evidence that
  folds to nothing matches every term, and the category `standards` is never filled.
* `rmtree` runs outside the profile lock: a writer past its access check makes the
  directory again, when it takes its lock or, as the profile editor, at its write
  (`super_cv/service.py:222`, `mkdir` before the temporary file), and the erased account then
  has a directory with a profile; a crash after rmtree leaves a live account without files.
* A seed that dies between its commits leaves a database that every rerun refuses.

## 8. The plan

Done: a module for every component that keeps state, and proofs of all safety
properties of all of them. Left, in this order: the throttle of `cv_publish/` and its
drift; the export of `privacy/` beside a running erasure; an instance of `Tenancy` in
which two requests are pending at once; and lemmas that the proofs of two modules share
(finite sets of numbers, smallest counterexamples) in a module of their own.

## 9. How to repeat it

    tlc -workers 2 -config WorkflowQueueSafety.cfg MCWorkflowQueue.tla
    tlc -workers 2 -config JobBoard.cfg MCJobBoard.tla
    tlc -workers 2 -config Consultant.cfg MCConsultant.tla
    tlc -workers 2 -config Workflows.cfg MCWorkflows.tla
    tlapm WorkflowQueueProofs.tla

and so on: `PROJECT.json` names the module and the cfg of every run, and every
`...Proofs.tla` is checked by itself.
