# A TLA+ model of docker-webmail-gui

docker-webmail-gui is a web panel for docker-mailserver. It runs as three
processes: the *web tier* (`apps/server`, Fastify and SQLite), the *broker*
(`apps/broker`, the only process that holds the Docker socket) and the *MCP
service* (`apps/mcp`), which lets a mailbox owner's AI client read and send mail
after an OAuth authorization. Each tier is a single Node process over a
synchronous SQLite database, so two handlers interleave only at their `await`s;
everything between two awaits is one step of the models. What is in memory dies
with the process, what is in SQLite does not, and a handler's statements are
committed one by one unless it opens a transaction.

## 1. Inventory

| Part | State it keeps | Operations | What is hard | Modelled in |
| --- | --- | --- | --- | --- |
| Job runner (`platform/jobs`) | `jobs` rows; queue, closures, `current` in memory | enqueue, cancel, pump, settle, startup recovery | lost wake-up, two jobs at once, rows left active by a crash | `JobRunner`, `SerialJobs` |
| MCP connections and setup credentials (`domain/connections.service.ts`, `store/connections.repository.ts`) | connections, enrollments | create, reissue, rotate, disable, enable, revoke, delete | an Argon2 hash is awaited between reading and writing | `McpOAuth` |
| MCP sign-in and consent (`oauth/authorization.service.ts`) | authorization requests, codes, reservations, failure counters | start, login, decide | two awaits in login, one in decide; the checks use what was read before | `McpOAuth` |
| MCP tokens (`oauth/tokens.service.ts`, `oauth/bearer.ts`, `store/oauth.repository.ts`) | grants, access and refresh tokens | exchange, refresh, revoke, verify | replay detection, statements that are not one transaction | `McpOAuth` |
| MCP bindings (`store/bindings.repository.ts`, `domain/connections.service.ts`, the web tier's `modules/mcp`) | binding state, stored credential | provision, update, test, invalidate, mailbox events, reconcile | verification of a password is awaited while the mailbox changes | `McpBinding` |
| MCP vault (`crypto/vault.ts`) | sealed credentials | seal, open | encryption | not modelled |
| MCP tools (`mcp/tools.ts`, `store/operations.repository.ts`, `mail/imap-smtp-backend.ts`) | operations ledger, rate window, sessions per mailbox, the mailbox itself | list and read, send, reply, delete, restore | a send whose outcome is unknown, a key looked up before an await, ids other clients have made stale, a gate on sessions | `McpTools` |
| Backups (`modules/backups`) | backup rows, archives on disk and on destinations | create, verify, upload, reconcile, retain, import, delete, restore | a sweep and a delete run beside a job; half-uploaded archives; calls whose answer is lost; a container that others start, stop and replace | `Backups`, `Restore` |
| Backup destinations (`modules/backups/destinations`) | objects, versions and open multipart uploads in a bucket; a file on an FTP server | upload, delete, clean up | several requests per operation, each carried out or not and answered or not | `Destination` |
| Backup schedule (`modules/backups/backup-schedul*`) | one policy row | edit, tick | a process that dies between the job and the anchor; months of different length | `Schedule` |
| Self-update (`modules/updates`, broker `self-update`, the update card of the page) | result file, containers, images, job | apply, launch, swap, health check, roll back, read the verdict, sweep images | the panel that started it is replaced by it; every Docker call may fail | `SelfUpdate` |
| Authentication (`modules/auth`) | administrators, sessions, login attempts | log in and out, change a password, create, disable, delete, bootstrap, origin check | password hashes are awaited between reading and writing | `Auth` |
| Mail management (`modules/mail`, `drivers/dms`, broker `dms`) | docker-mailserver's files | aliases, mailboxes, restrictions, quotas, one by one and in bulk | several commands per request, each may fail; a loop check on a list others change | `Mail` |
| Configuration and start (`modules/config`, `platform/config.ts`, `platform/migrations/runner.ts`) | saved settings, snapshots, schema versions | apply, roll back, migrate, load | a start must survive whatever was saved, and any process death | `Settings` |
| Notifications (`modules/notifications`) | one row per condition | evaluate, mark read | overlapping evaluations, a condition that comes back | `Notifications` |
| Sieve scripts and autoresponder (`modules/security`, `drivers/dms/autoresponder-sieve.ts`) | Dovecot's scripts and which one is active | put, activate, deactivate, update and read the autoresponder | several commands per request, each may fail; others change the active script in between | `Sieve` |
| DNS checks (`drivers/dns`) | none | MX, SPF, DKIM, DMARC and PTR of a domain | a lookup that fails is not an answer; SPF's budget of lookups over records that refer to each other | `Dns` |
| Broker operations (broker `operations.ts`, `container-resolver.ts`) | none (Docker's containers and volumes) | resolve, inspect, start, stop, restart, remove a volume | the container that was resolved is not there any more, or is another's | `Broker` |
| TLS, rspamd and Docker views; mail queue, domains | none (the mail server's or Docker's) | read, run a command | external | not modelled |
| Shared schemas, page, installer | none | | | not modelled |

The web tier talks to the MCP service through its control API (create, reissue,
revoke, mailbox events), to the broker over HTTP with a shared secret (mail
commands, Docker, self-update), and to backup destinations over their protocols.
Long work in the web tier goes through the job runner; `Schedule` and `SelfUpdate`
take from it that a job whose process died is marked interrupted at the next
start. `PROJECT.json` lists, under `hazards`, where in the code each difficulty
sits and which property would notice it.

## 2. Modules

`JobRunner` holds the rows (`status`, `created`) and the memory (`queue`,
`pending`, `current`, `executing`) of the runner. `Enqueue`, `Cancel` and `Settle`
are the methods up to their next await, `Pump` the synchronous part of `pump()`
they share; `Crash` empties the memory and `Startup` is `createJobRunner` with
`recoverInterruptedJobs`. `SerialJobs` is the promise made to the readers of the
job list, on the rows alone: one job runs at a time, jobs start in the order
they were created, results are final. `JobRunner` is shown to implement it.

`McpOAuth` has one function per table and one state per waiting handler
(`task`). `conn` is a connection with its binding folded into `blocked`; `enr`
an enrollment, whose `gen` counts the passwords issued on that row; `req` an
authorization request; `code`, `grant`, `pair` what their names say. A handler
with awaits is split there: `Login`, `LoginLookup`, then `LoginFailed` or
`LoginSucceeded`; `Decide`, then `Approve`, `Deny` or `Refused`; `Create`,
`Reissue` or `Rotate`, then `IssueEnrollment` or `ResetEnrollment`. Handlers
without one are one action each. `ApproveCut`, `ExchangeCut` and `RefreshCut` are
the same handlers when the process dies between two of their statements. Times
are flags raised by `Clock` actions; the one order between deadlines that the
code relies on (a reservation outlives its code by 30 s) is the guard of
`LapseReservation`. Operators marked *Slip* are wrong variants of the definition
below them: no action uses them, and each is there to show that a property notices
such a change.

`McpBinding` is one mailbox address; two addresses share nothing. Every password
set on it is an identity 1, 2, ...; `box` is the identity in the account file,
`served` the one the mail server authenticates (it applies changes later,
`Apply`). `binding` is the row with its credential, `conn` a connection with its
grants abstracted to the identity they were authorized under. A task is a waiting
handler: `AskCreate`, `AskUpdate`, `AskReconcile` read the mailbox list in the web
tier, `CreateVerify`, `UpdateVerify`, `Test` and `ToolCall` wait for `MailAnswers`,
`CreateDone`, `UpdateDone`, `Rejected` and `GiveUp` go on with what was read
before. `SetPassword`, `OutsideDelete` and `Apply` are docker-mailserver's.

`Backups` has the rows, the local archives (`file`), the objects on the
destination (`remote`, with `newer`, the order of their dates) and three kinds of
worker: the job, the sweep and handlers of `DELETE`. `uploadOne` is `Pick`,
`Upload`, `Check`, `Mark` or `Clear`; `applyRemoteRetention` is `List` and `Prune`;
`reclaimLocalStaging` is `Pruned`, `Reclaim` and `Reclaimed`; `applyLocalRetention`
is `Expire` and `Purge`; it and the deletion by hand share `purgeRemoteCopy`
(`Purged`, `PurgeRefused`, `PurgeSkipped`) and `Unlink`; `importFromRemote` is
`ImportJob`, `Fetch` and `Accept`. Lists are read once and worked off over several
awaits (`todo`), as in the code. Any number up to `Keep` may be kept: an age cap
cuts off the oldest as a smaller number would, and the policy may be edited. A
call of the destination may fail, take effect and be reported as failed, or take
effect just before the process dies (`CutShort`). `gone` is a history variable:
objects deleted on purpose since they were last sent.

`Restore` is the other side of a backup, the mail server's container and its
volumes. `Create` and `AskRestore`, `Inspected`, `Accept` or `Refuse` are the
requests; a job is taken from the queue (`Start`) and is a cold backup (`Digest`,
`Stop`, `ReadVolume`, `Insert`, `StartAgain`), a warm one (without the stop), or a
restore (`Check`, `Extract`, `Layout`, `PutVolume`), with the failure of each call.
`StartByHand`, `StopByHand` and `Replace` are administrators and the operator,
`Deliver` is mail that comes in while the container runs. A volume's content is a
number that grows with every delivery.

`Destination` opens up what `Backups` takes as one step. An upload to S3 is
`PutObject`, or `CreateMultipart`, `UploadPart` with its attempts, `CompleteMultipart`
and `Abort`; a deletion is `ListPage`, `DeleteVersion` and `DeletePlain`; `Cleanup`
aborts the multipart uploads it finds. The HEAD between an empty list and a plain
DELETE is answered with yes, no or an error, which the code takes for yes
(`ObjectExists`). FTP resumes a file at the size the server tells (`Size`, `Send`).
Every request is carried out or not, and answered or not.

`McpTools` is the mail tools of one connection. `op` is the ledger, `box` where
each message is and under which UID, `dir` a folder's UIDVALIDITY and next UID,
`sess` the gate (`Semaphore`) with its waiters in order. A task is a call that
waits: `Read`; `Send`, or `SendReply` and `ReplyFetched`, up to the row and the
submission, then `Sent` or `SentFiling` with `Copied`, `NotSent`, `SmtpRejects`,
`CutOff` (a broken connection that is reported as not sent, at whatever point it
broke) or `Uncertain`; `Delete`, then `CheckFolder` and `MoveFolder` for each folder and
`Recorded`; `Restore`, then for each operation `RestoreNext`, `FindInTrash`,
`PutBack` and `Marked`. `UserMoves`, `UserExpunges` and `Rebuild` are other mail
clients and the IMAP server. A reference remembers, as history, which message it
named, `posted` counts the submissions per key, and `got` in a ledger row is what
became of the message at the mail server (`Fates`): not accepted, accepted and
answered so, or accepted with the answer lost.

`Auth` has the three tables (`admin`, `ses`, `fails`) and the handlers that wait
for a hash (`Login`, `ChangePassword`, `CreateAdmin`, `Bootstrap`, and the actions
that resume them). Everything else, the session check included, is within one
turn of the event loop: `Authorized` is a guard. Attempts are inside the lockout
window or forgotten (`AttemptAges`). `IsSameOriginRequest` is the origin check, on
scheme, host name and optional port.

`SelfUpdate` has the two containers, the images, the result file, the job, the
broker's request, the updater and the page. `up.todo` is what is left of the
updater's program, one Docker call each; `Swap` puts a swap there and `BackFrom`
the rollback. `Dies` and `Fatal` end the updater, the `...Fails` actions are calls
that throw. `ReadResult` and `UnlinkResult` are the two halves of the reader,
`Sweep` the clean-up of old images of whichever broker runs. `WithoutInherited`
is the environment of a swapped container, checked as a function against
Docker's merge.

`Schedule` counts days over months of given lengths; `NextRun` is
`computeNextRun`, `Tick` the timer, `Die` its death between job and anchor.
`Notifications` has a pass per tick that sees one condition after the other
(`Probe`) and then writes them all (`Write`, or `Die` after some).
`Settings` is a start (`Start`, `Migrate`, `Load`) over the saved settings, with
`Effective` the loop of `resolveEffectiveEnv` that drops what does not validate,
and the editor (`Apply`, `ApplyCut`, `Rollback`). `Mail` is the requests as the
sequences of commands they run; a command may succeed, fail, or take effect and
have its answer lost. `Sieve` is the same for the scripts of one mailbox:
`Command` carries one out, `ListForActivate` and `ListForDisable` are the lists a
request reads and decides by, `ReadList` and `ReadScript` the status.

`Dns` is the checks as functions of what the domain's servers would answer
(`zone`) and of the lookups that fail (`down`): `Spf` with `CountFrom`, the
recursion of `countSpfLookups`, and `Mx`, `Dmarc`, `Dkim`, `Ptr`. `Broker` is a
request that resolves an identity to a container (`Resolve`), for a volume looks
at the mail container's mounts (`Inspect`), and then calls Docker with its id
(`Call`, `RemoveVolume`), beside an operator who creates, removes and renames
containers. A self-update resolves two identities and hands the names of the two
containers to an updater (`Launch`), which looks each of them up again after its
pulls (`Find`) and replaces what it finds (`Replace`; how is `SelfUpdate`'s). `meant`
and `touched` are history: the containers the identities had when they were listed,
and those the operator has made, renamed or removed since.

`MCMcpOAuth`, `MCMcpBinding`, `MCBackups` and `MCMcpTools` instantiate one
module each. Four modules put parts side by side that share no state: `Admin`
(`Auth` with `Mail`, `Sieve` and `Broker`), `Upkeep` (`SelfUpdate` with
`Notifications` and `Settings`) and `ScheduledJobs` (`JobRunner` with `Schedule`)
extend the first and take the others by `INSTANCE`, and `Storage` takes `Restore` and
`Destination` so. They name each part's properties as their own, so that what a run
checks and what a theorem states is one definition. `MCAuth`, `MCAdmin` (which adds
`Dns`), `MCPanel`, `MCJobRunner` and `MCBackupModes` (two instances of `Backups`, and
`Storage`) run such parts: a behaviour is one of the parts', chosen in the initial
state, and the others rest, so one run explores each part as if it were alone. The
modules named `...Proofs` hold the proofs about the module they are named after,
those of a composition about each of its parts; `ScheduledJobs` has its in
`JobRunnerProofs`.

## 3. Runs

| Run | Shows | Bounds |
| --- | --- | --- |
| `jobs` | serial execution, rows that agree with the runner, no lost wake-up, final results, refinement of `SerialJobs`; scheduled backups come neither early nor late nor twice; every accepted job ends and every due backup starts (`WorkGoesOn`) | 4 jobs: one running, two waiting, one arriving; schedule: 28 January to early March, 2 edits, 1 death |
| `signin` | a setup password gives one grant per issue; codes, reservations and consent pages stay consistent; the lock | 2 requests, 2 codes, 2 handlers, a reissue |
| `tokens` | nothing under a revoked grant or connection is live; one live refresh token; a request authorizes the connection it was opened for; a reservation always ends | all actions, 2 connections, 2 token pairs |
| `identity` | grants of an earlier mailbox identity stay dead, one live binding per address, the connection limit is exceeded by at most the creates that were waiting | 2 bindings, 3 connections, 2 handlers, a changed or remade mailbox |
| `noticed` | liveness: the use of a binding whose mailbox changed or vanished ends | 1 binding, 2 handlers, notifications lost to crashes |
| `backups` | while one worker at a time uploads, `uploaded` means a verified object is there (`UploadsHold`), and retention takes no last copy and not the upload just made; archives listed as verified are intact, no row is left `uploading`; a restore writes to a stopped container of the right image, a cold backup is of one instant and what it stopped is started again; uploads and deletions that succeed are complete, but for a delete marker after a HEAD that failed | by hand: 2 backups of which 1 is kept, failures and process death at every await; automatic: 1 backup and a deletion; restore: 2 volumes, 2 backups, 1 job waiting, 1 delivery, 1 replacement; destination: 2 workers, 2 attempts, 3 ids, to S3 a file of 1 part or of 2, to FTP one of 1 to 3 units |
| `tools` | one submission per key, a ledger that claims no send that was not accepted and denies none that was answered as accepted, sending limits, only the named messages move, every call ends | 2 calls, 2 ledger rows, 1 key, 2 messages, 1 session, 2 interferences |
| `admin` | someone can always log in, one first administrator, addresses distinct; sessions end with the password or the administrator; guesses bounded; origin check; mail requests and Sieve scripts; a failed lookup never turns into a verdict, SPF's lookups are counted; the broker acts on the container that is meant, an updater on the two that were meant unless the operator has touched them, and no volume with mail data is taken | 3 administrators, 2 sessions, 2 handlers, thresholds 1 and 2; 3 addresses, 2 requests; Sieve: 2 requests, 2 days, 4 spans; DNS: 3 names, 4 tokens, limit 2, depth 1, 1 failed lookup; broker: 4 containers, 1 request, 2 deeds of the operator |
| `panel` | verdicts are true, the plan and the images to go back to stay, updates and the page come to an end; the bell; starts and rollbacks, and what a replaced container keeps of its environment | 4 releases, 3 updaters; 2 conditions, 2 passes; 2 migrations, 2 change sets, 3 starts |
| `reissue`, `deleted`, `lost` | violations, section 5 | the least that shows them |

`signin` leaves the actions out that its properties do not need (`SignIn` in
`MCMcpOAuth`); `tokens` runs the whole `Next`. One lock threshold (`MaxFailed = 1`)
is enough for the lock to fall while another sign-in is being hashed. Two
connections are the least for which a request can end at the wrong one. Two backups
are the least for which retention selects one; the deletion by hand is in the
automatic part, where one backup is enough for it to meet both other workers. Of two
backups, one that is kept is the only number that selects any; the proofs are for
every number. That part and `lost` do without process death (`SteadySpec`). In
`tools` the client of one behaviour either sends or moves: sends and moves share
only the gate and the ledger's rows, and each side alone reaches every order of two
overlapping calls. Three releases leave an old, a current and a newer one during an
update, the fourth lets one be published meanwhile; three launches are an update,
one that replaces it, and one after both. 28 January lets a monthly policy start on
a date February does not have. Two saved values that are wrong at once are the least
for which the bound of the loop in `Effective` matters. Two volumes are one that a
restore has written and one it has not; the image that is not the backup's comes
with the replacement; three units in parts of two give a last part that is short.
SPF's limit of lookups is reached within four tokens, its depth by a chain of
includes over the three names. Two deeds of the operator are what it takes to put
another container in the place of one an updater looks for, the mail server too.
Symmetry is used for safety only.

Fairness. `JobRunner`: every closure settles (the runner has no time limit, so
this is what it asks of its jobs) and a dead process is restarted (the
containers' restart policy). `McpOAuth`: time passes, that is, codes expire and
reservations lapse; no user or client owes a step. `McpBinding`: the sweep's timer
fires, the mail server answers or times out, docker-mailserver applies its
account file, and not every sweep is cut short by a crash. `McpTools`: a call
that is waited for answers or times out (the sockets have time limits), so a
task goes on; nobody owes a new call. `Schedule`: the timer fires and the
container is restarted. `SelfUpdate`: the updater goes on (every Docker call
returns, the health check has a deadline) and so do the server's job and the
page's polling; containers owe nothing, they may stay unhealthy. `Notifications`:
the timer fires, probes answer or time out, and the writes follow.

## 4. Proofs

The proofs hold for any number of rows, handlers, jobs, identities, backups and
releases. They assume that the NULLs are not ids, that the bounds are natural
numbers (positive where the module says so), and, where something is counted,
that there are finitely many rows and handlers. These are `ASSUME`s of the modules;
`Restore` and `Destination`, which are only instantiated, have theirs in `Storage`
(`DiskAssumption`: there is a volume, and the bounds are numbers; `BucketAssumption`).

`McpOAuthProofs` proves that `Spec` implies `TypeOK`, `OneGrantPerIssue` and
`CodeDiesWithItsIssue`, `SentCodeKeepsReservation`, `OneOutcomePerRequest` and
`TargetIsRespected`, `RevokedGrantIsDead` and `OneLiveRefreshToken`,
`RevokedConnectionIsDead`, and the action property `NoCodeWhileLocked`.
Each of them is a theorem of its own or a conjunct of one (`TargetIsKept`,
`CodeFollowsItsIssue` and `RefreshTokenIsUnique` state the second conjuncts).
None of these is inductive alone. The inductive invariant `IInv` adds: what a
row or a waiting handler refers to exists (`TaskRefs`, `RowRefs`); a request
opened for a connection keeps it (`TargetKept`); the code an enrollment is
reserved for belongs to that enrollment's current issue (`ReservedForCurrent`);
a grant's issue is consumed unless the row was reset since (`GrantConsumes`),
which is what makes the second grant impossible; a live grant has a connection
that is not revoked (`LiveGrantHasConnection`); no token hangs under a grant not
yet created (`NoTokenUnminted`). The proof first describes what a step can do to
one row of each table (`EnrStep`, `CodeStep`, `ReqStep`, `GrantStep`, `TaskStep`,
`TokenStep`), then proves each conjunct from those.

`McpBindingProofs` proves `TypeOK`, `GrantsFollowIdentity` and `OneLiveBinding`.
The inductive invariant adds that connections and waiting handlers refer to
bindings that exist (`ConnRefs`, `TaskRefs`). The argument: a step changes at most
one binding row, and a step that changes its fingerprint revokes the grants of
its connections in the same step (`RowMoves`, `HandlerMoves`); a binding is made
only when no live one exists at that moment, whatever the handler read before.

`JobRunnerProofs` proves `TypeOK` with `RowsMatchRunner`, `SerialExecution`,
`NoLostWakeup`, `ResultIsFinal`, and that `JobRunner` implements `SerialJobs`
(`RunnerKeepsPromise`). `Fits` is what `pump()` is given and leaves behind: every
method first brings the rows and the queue into it, so one lemma about `Pump`
serves them all. The refinement needs one more invariant, `Ordered`: the queue
lists the queued rows once each in the order they were created.
`ScheduleHolds` (`ScheduleAlwaysHolds`), for any calendar of months of 28 to 31 days:
the anchor is the day the policy's last backup was made or the policy was set, on
disk and in fact (`SchedInv`), so what is due by the anchor is due, and a month later
is 28 to 31 days later, also on a date the next month does not have (`NextRunIs`).

`GuessesAreBounded` (in `McpOAuthProofs`) proves `LockBoundsGuesses`, a count:
failures recorded plus sign-ins that can still record one. `LockInv` bounds the
hashes under way for a credential (`Guessers`) together with its failures; a guess
begins only below the threshold, and ends in a failure or not at all.
`OverrunIsBounded` (in `McpBindingProofs`) proves `LimitOverrun` in the same way:
`OverrunInv` counts the creates that are past the check of the limit (`Creators`),
and each of them adds at most one connection. It needs a limit of at least one,
which the schema of the setting enforces.

`AdminProofs` is about the four parts of `Admin`. `AccountsHold` and `SessionsHold`:
the invariant (`IInv`) adds that whoever need not change their password has
chosen it, that a handler that creates an administrator was called by one who had,
and that a session has one owner. That an enabled administrator remains needs no
count of them: `assertNotSelf` is enough, since the caller is enabled and is never
the target. `GateHolds` is a count (`GateInv`): the wrong passwords recorded for an
address or an IP in the window, and those being verified, are at most the threshold
and the handlers beside the one that reached it. `Failures` is a sum by a fold, of
which two facts are needed, that it is a number and that one more failure makes it
one larger (`TotalOfLess`). Its theorem has the hypothesis that the
requests put to the origin check are a set of requests.
`MailHolds` (`MailAlwaysHolds`): for a request on its own, what its commands have
done and what they still have to do are together what was asked, and no loop is
there even with all the recipients the request has yet to add; the walk of
`detectsAliasLoop` finds a loop when there is one, which is shown on the least
number of steps at which it could differ. `SieveInv` says at each command of a
request which script is active and what it holds. `BrokerHolds`
(`BrokerAlwaysHolds`): a request keeps what was decided when the containers were
listed (`Decided`, `Serves`), one container at most and the one that was meant; its
mounts never change, so the volumes seen in it on `Inspect` are those it has at the
call. A self-update's names still lead to the containers that were meant, and of the
others to none but those touched since (`Tracks`, `Updates`); that a name is one
container's at a time, in the beginning and after every deed, is what this rests on.

`McpToolsProofs` proves `LedgerHolds` and `MailboxHolds`. The invariant has four
parts: `Ledger` (no two calls hold one row; a key is posted at most once and then
has a row; what a row says of the mail server's answer), `Names` (a folder's UIDs
are handed out once per UIDVALIDITY, so a reference that is still current names its
message or nothing), `Shape` (what a deletion has moved and still has to move is what
it was asked) and `Sessions` (whoever moves messages holds a session).

`BackupsProofs` proves, whatever the settings, that archives listed as verified are
intact (`VerifiedArchiveIsGood`) and that an upload is attended while the process
lives (`UploadingHasUploader`), from `BaseInv`: what each worker knows of the row
and the archive in its hand. `UploadedMeansRemote` and `RetentionHolds` are proved
from `ManualInv` for one uploader at a time (`AutoUpload = FALSE`). With the
automatic upload they do not hold: the job and the sweep may then send one backup
at once, see section 5.

`StorageProofs` is about the two parts of `Storage`. `RestoreHolds`
(`RestoreAlwaysHolds`): `JobInv` says what the running job may rely on at each of its
steps; `AskInv` and `QueueInv` follow the image's digest from the request through
the queue to the write; `ArchInv` keeps the rows a job makes apart from those another
reads, which is what makes it safe that a request was checked long before its job
runs. `DestinationHolds`
(`DestinationAlwaysHolds`), from `DestInv`: what a task that has had the key to itself
has come to. An upload that is done has the file as the latest version (`Stands`); a
deletion has every version in its list, until none is left (`Clears`), and a plain
DELETE on a versioned bucket then comes only of a HEAD that failed; a sweep every
open upload, so that one without a failure leaves none (`Aborts`). Nothing of this is
said of tasks that met another. Whatever is open is in the hands of an upload that
will complete or abort it (`Attended`), unless a failure excuses it. That what is
completed is the whole file, and never less of it, is arithmetic of the parts
(`PartsMakeTheFile`); that a file resumed by FTP is whole follows from what is there
being its beginning (`Resumes`).

`UpkeepProofs` is about the three parts of `Upkeep`. `UpdateHolds`: the updater runs
one of three programs, forward, back from the server, back from both. `OnCourse`
says, for each of their 25 places, what is known there of the two containers and of
the broker's age; `ImagesInUse` that a container's image is on the host; `Verdicts`
that a verdict on disk or in the hands of a reader is of an earlier updater;
`PlanOnDisk` where the way back is. A sweep that runs while an updater may still
have to go back is then one of the broker that updater found (`SweeperIsFound`),
and spares its version. This rests on the delay of the first sweep being longer
than the health check and the way back together (the guard of `BrokerAges`).
`BellHolds` (`BellAlwaysHolds`): a row that was read is active, its condition lasts
and no pass under way has seen it gone, or the history says why it may come back
unread (`ReadLasts`), in whatever order passes overlap.
`SettingsHold` (`SettingsAlwaysHold`): the saved settings, the snapshots and the
schema at every step of a start; the loop of `resolveEffectiveEnv` has attempts
enough, since each of them drops a value and no value twice. Its theorem has the
hypothesis that the environments compared by `WithoutInherited` are environments.

Induction. The library's induction theorems cannot be instantiated here, so where a
recursive function or a fold is reasoned about, it is by the least number at which
a fact would fail: a nonempty set of naturals has a least element, which follows
from the library's well-foundedness of `Nat` (`LeastId` and its like), and the
definition is opened once there.

What `AdminProofs` and `UpkeepProofs` assume beyond the ranges of the bounds:
addresses, IPs, handlers, containers and settings are finitely many
(`FiniteAssumption`, `BrokerAssumption`, `SettingsAssumption`); no mail goes round
at first (`MailAssumption`); no two containers have one name at first
(`BrokerAssumption`); the mark for "none" is no script, container or value
(`SieveAssumption`, `BrokerAssumption`, `SettingsAssumption`).

Checked by TLC only: liveness (`WorkGoesOn`, `ReservationEnds`, `ChangeIsNoticed`,
`EveryCallEnds`, `PanelSettles`), which is out of the prover's reach, and
`DnsHolds`, whose `CountFrom` and `Spent` are recursive operators. `UploadsHold` is
about two instances of `Backups` under the mode that the behaviour is in; its
conjuncts are proved of `Backups`, one by one (`BackupsInvariant`,
`VerifiedArchivesAreGood`, `UploadsAreAttended`, `UploadedIsRemote`).

## 5. Where the code and its documentation disagree

Shown by a run:

1. `reissue`: a request signed in with the old setup password can be approved
   after a reissue (documented: "the old one stops working immediately").
2. `deleted`: an update of the credential that awaits the mail server while the
   mailbox is deleted sets the revoked binding active again, and a waiting create
   then connects to it (comment: "Terminal; never reused").
3. `lost`: a sweep that began before a job, and the job, upload the same backup.
   One verifies its copy and reclaims the archive; the other overwrites the
   object and, when its upload goes wrong, deletes it (comment: "the local archive
   is kept for a later retry").

Met while modelling, without a run of their own; the properties are stated
around them:

- `rotate` revokes the grants and then awaits the hash of the new password
  (`connections.service.ts:527`); a code exchanged in between leaves a live grant
  (`docs/mcp-integration.md:526`: "Revokes every grant").
- A saved `MCP_ENABLED=true` beside broken MCP variables keeps the server from
  starting, although "a saved settings editor value must never brick startup"
  (`platform/config.ts:389`); `NeverBricked` is about all other values.
- A deletion over several folders that fails in a later one answers that nothing
  was moved (`imap-smtp-backend.ts:630`), while the earlier folders were, and no
  ledger row says so. An error of the audit log after a send that succeeded
  records it as failed (`tools.ts:785`); the model takes local statements to
  succeed.
- A reader of the self-update result unlinks what is on disk by then, perhaps the
  plan of the next update (`erased` in `SelfUpdate`); a second launch removes an
  updater that is still at work; during a long pull the page says it reconnected
  and no result was recorded.
- A log-in with the old password that overlaps its change gets a session after
  the other sessions were revoked; two overlapping changes do not compare; an
  administrator disabled while a hash is awaited still creates the other one.
- Two alias requests that overlap can close a loop neither would alone, or leave
  an alias without recipients; `Mail` says what holds for a request on its own.
- A settings snapshot holds what runs, not what was saved since, and cannot bring
  back that a value was unset.
- A process that dies during an upload leaves the row `uploading`, which only an
  upload by hand ends. With the automatic upload a row may say `uploaded` while a
  second worker overwrites the object, so `UploadedMeansRemote` and
  `RetentionHolds` are stated for one uploader at a time.
- A restore's image is compared when it is asked for, not again by the job; nothing
  keeps an administrator from starting the container during a restore
  (`WrittenAsChecked` excepts both). A cold backup starts a container that an
  administrator had stopped, and a stop that fails or times out (it is outside the
  `try`), like the death of the process, leaves the mail server down.
- `objectExists` takes every answer to HEAD but 404 for an object
  (`s3-destination.ts:483`), a 403 or a 503 too. The plain DELETE that follows puts a
  delete marker on a versioned bucket where nothing was left, and the deletion
  succeeds ("Deletes `key` permanently", 447; "a plain DELETE here would *add* a
  delete marker", 463); `DeleteIsFinal` names it.
- nodemailer reports a connection that breaks, times out or is closed with the
  command `CONN` also during and after DATA, and `send` takes `CONN` for "not sent"
  (`imap-smtp-backend.ts:786`), although there the "delivery state [is] unknown"
  (803). A message that was accepted can so be recorded `failed`, and counts for no
  limit; `LedgerTellsTruth` and `SendLimit` are stated around it.
- The updater resolves the panel's containers by name once more
  (`updater.ts:224`; 18: "never trusting an id"), without the broker's check that
  neither is the mail server (`operations.ts:593`). A container that was given the name of
  a panel container in between is replaced, the mail server too, or one container
  for both; `ActsOnWhatIsMeant` says that it takes such a deed.
- The broker takes any `cat` that ends with an error for "the file is not there"
  (`dms/handlers.ts:182`). An alias file that cannot be read is then one without
  aliases, and the check for loops passes. `Mail` reads files as they are.
- The clean-up of multipart uploads aborts those other workers are sending. A file
  two workers sent by FTP at once is resumed as if it were one, and only the
  verification notices. A download from S3 that fails halfway leaves its part in
  place on import; FTP removes it.
- `checkPtr` never makes use of its "forward lookup unknown" (`ptr.ts:45`), so a
  failed A lookup beside AAAA answers gives a confident verdict. `countSpfLookups`
  takes "no such name" of an included record for undetermined and counts a name
  that is referred to twice once; a chain deeper than 10 is `detected`. `SpfBudget` is
  therefore about records that refer to each name at most once.
- A request that disables the autoresponder lists the scripts first, and
  deactivates whichever is active by then, perhaps a filter another request has
  just activated ("never blind-deactivate"); the status reads the header only, so an
  edit by hand below it goes unnoticed.

## 6. Not modelled, and the plan

Still to be modelled are a change of the destination while backups are on the old
one, and the answer to a log-in with an old mailbox password that arrives after a
new one was stored (`connections.service.ts:823`).

Left out, and why. Views over Docker, TLS, rspamd and the dashboard, the mail queue
and the domains: they read or run one command and keep no state of their own. The
formats of the destinations' protocols and the reading side of the mail backend: I/O
and text. The credential vault, password hashing and session tokens: cryptography.
The restore archive guard: a parser of a byte stream. Shared schemas: types. The
page, but for its waiting during a self-update: it shows state and keeps none the
server relies on. The installer and the compose files: scripts. Of the broker's
operations, those that only read or are one Docker call on an object the request
names outright. In `Backups`: a change of the destination. In `Auth`: the value of
the CSRF token, and the two pruning methods, which no code calls. These parts are
most of the repository's lines (the page alone is nearly a third), which is why the
models stand for a small share of them.
