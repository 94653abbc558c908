# A verification of angie-panel

angie-panel is a web interface for Angie: an unprivileged panel keeps hosts,
streams, certificates and settings in SQLite, generates configuration files from
them, and has a root helper (the same binary, started as a systemd oneshot)
put these files into `/etc/angie/http.d` and `stream.d` and reload Angie. This
directory holds TLA+ models of its core, the TLC runs that check them, and
theorems checked by TLAPS. Paths below are relative to `backend/src/`.

## Inventory

| Component | State | Operations | Interacts with | What is hard |
|---|---|---|---|---|
| apply pipeline (`apply/pipeline.rs`, `manifest.rs`, `atomic.rs`, `runner.rs`), run by the root helper | live files, marker, backups, report, Angie's configuration | lint, test, snapshot, sync, test, reload, verify, roll back, report; recovery when the panel starts | staging directory, Angie (`angie -t`, SIGHUP, status API), operator's files | a crash between any two effects, an asynchronous reload, failing I/O, recovery beside a running helper |
| enable-streams (`helper.rs`) | `angie.conf` | insert the include, test, put back, reload | shares `/etc` and Angie with the apply, and no lock | overlapping with an apply |
| apply API (`apply_api.rs`, `systemd.rs`) | `apply_lock`, staging, `last_applied_revision`, history | build, stage, start the unit, wait 40 s for a report, record | database, helper, reconciler | a future dropped at any await, late reports, second-granular time stamps |
| reconciler (`reconcile.rs`) | none of its own | every 30 s: auto-apply when only a certificate changed | apply API | check-then-act over three awaits, a revision that does not see every edit |
| accounts (`auth.rs`, `users.rs`, `tokens.rs`), gate (`security.rs`) | users, sessions, tokens, two token files | setup, login, roles, passwords, tokens | the gate stands before every handler | handlers that interleave at awaits, one of them a slow password hash; ids given out again; crashes between a row and its file |
| host registry (`hosts.rs`, `other_hosts.rs`, `streams.rs`, `sni_routers.rs`, `access_lists.rs`, `certs.rs`, `bans.rs`, `repo.rs`, `export_import.rs`) | rows and their references | create, change, delete, enable, import | generator | uniqueness and reference checks made before the write, certificates issued on the way |
| generator, linter, validation (`generator/`, `model.rs`, `settings.rs`) | none | tables to files | registry, apply | thirteen reads without a transaction; options that interact through inheritance |
| credentials (`acme_hook.rs`, `certs.rs`, `settings.rs`, `secretbox.rs`) | profiles, secrets, EAB pairs, directory, hook token, key file | store, delete, seal, import | certificates refer to them without a foreign key | rows of one table that belong together and are written one by one |
| ACME hook (`acme_hook.rs`) | a challenge in flight | publish, wait for propagation, answer | Angie, DNS | two timeouts, one inside the other |
| health (`health.rs`) | heartbeats | probe what is due, prune | hosts | a slow tick, failed writes, restarts |
| rate limiters, dashboard, geo, assets, configuration, `apctl`, frontend, packaging | | | | in memory, read-only, I/O or clients |

`PROJECT.json` lists every component with what is modelled of it, and the
hazards, each at the line where it bites, with the properties that cover it.

## Modules

* `ApplyHelper` is the privileged side: the helper's apply, the recovery the
  panel runs at start-up, and enable-streams, as three processes (`pc`) over one
  `/etc`, one data directory and one Angie.
* `AtomicApply` is what an apply promises, in four variables: the managed tree
  in force, the goal, whether an apply is open, and what the report said.
* `ApplyRefinement` maps the first to the second (`AtomicSpec`). While the
  marker is set the tree in force is the one found when it was set.
* `PanelApply` is the panel's side: `perform_apply` step by step under
  `apply_lock`, the reconciler, users and certificates changing what is built,
  and the helper as the panel sees it (it loads, takes its time stamp, reports).
* `ApplyHelper_proofs` holds the theorems about `ApplyHelper` alone;
  `ApplyOutcome_proofs`, which extends it and `ApplyRefinement`, those about what an
  apply leaves behind, and the refinement.
* `Accounts` is the accounts' handlers, the gate before every handler, and the
  token files at start-up.
* `Registry` is hosts, certificates and access lists under handlers that check
  and then write, and the import.
* `AtomicRegistry` is what the registry promises its clients: rows, certificates, lists,
  and requests that take effect in one step or are refused for a reason.
* `RegistryRefinement` maps the first to the second (`AtomicSpec`). A certificate issued
  on the way to a host is not visible before the host is.
* `Generator` is the way from the tables to the file set: reads, rendering, lint.
* `Credentials`, `AcmeHook` and `Health` are three services that share no state:
  what certificates are issued with, the hook Angie calls, the checks.
* `PanelApply_proofs`, `Accounts_proofs`, `Registry_proofs`, `Credentials_proofs` and
  `Generator_proofs` hold the theorems about these modules, `Services_proofs` those
  about `AcmeHook` and `Health`.
* `MCApplyHelper`, `MCPanelApply`, `MCAccounts`, `MCRegistry`, `MCGenerator` and
  `MCServices` instantiate the models for TLC. The last three choose a `focus` at
  the start of a behaviour, so that parts that do not touch each other are explored
  side by side and not in their product.

How they fit together: `Accounts` decides who gets to a handler of `Registry` or
`Credentials` (its `config` request stands for their writes); what these write are
the tables `Generator` reads; `PanelApply` has the generator as the function
`FileSet` and hands the result to the staging directory; `ApplyHelper` takes a
staged set from there to Angie. `ApplyHelper` is told by `Unlintable` what
`Generator`'s linter rejects, and by `ValidTree` what `angie -t` accepts, of which
`Resolves` is a part. `AcmeHook` serves the location `Generator` renders
(`hook_location`), with the token `Credentials` keeps.

### ApplyHelper and the code

A file is a name and one of: a body that carries the panel's header, `Foreign`
(a file without it), `NoFile`. Names belong to `http.d` or to `stream.d`. A body
stands for everything a file may contain; what `angie -t` thinks of a whole tree
is the constant operator `ValidTree`, what the linter rejects the set
`Unlintable`. An answer of `angie -t` may be a failure on a valid tree, never a
success on an invalid one.

A step is one durable effect (a file written or removed, the marker, a manifest,
the report) or one answer from outside. The order is the code's: stream gate,
lint, test of the staged configuration, marker, `manifest.json`,
`manifest-stream.json`, for each directory scan, removals, writes, then test,
baseline generation, reload, verification, report, marker. A removal and a write
are atomic because of `atomic.rs` (temporary file, fsync, rename, fsync of the
directory). The names of a directory are handled in any order, which includes the
code's alphabetical one. `RestoreScan`, `RestoreRemove`, `RestoreWrite`,
`RestoreDirDone` and `RestoreFails` take the process as a parameter: helper and
recovery share `Snapshot::restore`. A `?` that ends the helper without a report is
the step `Dies`. `systemctl reload` sets `hup`; `AngieReloads` acts on it at some
later moment, on the files of that moment, and keeps the old configuration when
they are invalid. `backup` is what the newest backup directory holds; an apply in
the same second reuses the directory, so that for a while a new `manifest.json`
stands beside an older `manifest-stream.json`.

Two history variables serve the properties: `pre` is the managed tree when the
marker was set, and `open` is true from the end of the snapshot to the removal of
the marker.

`Overlaps` names what may run beside an apply: `"recover"` a panel that starts
while the helper is at work, `"enable"` the enable-streams unit.

### PanelApply and the code

Each `.await` in `perform_apply` and in the reconciler's `tick` where another
task can make a difference separates two steps. The two reads at the start of a
tick are one step, and so are the construction of the diff and `try_lock` at its
end: the set is built again, and the revision checked again, under the lock. A
request may be dropped at every step (`Abandon`: the future is dropped with its
client, an error, or the 40 s deadline), and the panel may restart. Staging is
two steps because a restart, an error or a loading helper can see it half-written
(`Half`). Time is in seconds, the unit in which the code compares
`updated_at`, `started` and `timestamp`. `StartUnit` on a unit that is not
inactive starts nothing. The reconciler's tick happens in a state in which a unit
that was started has loaded its set, since thirty seconds separate two ticks.
`recorded` and `reported` are history variables: the file set that stands behind
`last_applied_revision`, and behind the report.

### Accounts and the code

A request has a kind, a step and what its handler holds in local variables. Steps
end at database calls and at password hashes; `setup` is a transaction and one
step. The steps between the read and the write of a handler are those of the code,
so that a check made before an await may be stale at the write. Row ids are given
out as SQLite does without `AUTOINCREMENT` (`IsNextId`), deleting a user cascades
(`Cascade`), and the foreign key of sessions and tokens refuses a user that is gone.
At start-up the panel goes through `bootstrap_setup_token` and
`bootstrap_cli_token` in steps (`phase`), each of which a crash may be the last of;
a file is created empty (`Torn`) before it is written. The set-up token expires, and
the operator may run `reset-password` at any time. `config` stands for the write of
any handler behind the gate. Three histories serve the properties: `admin` (the caller of
a request was an administrator), `stale` (the account for which a login or the minting of
a token is on its way was deleted since the request read it), and `lapses` (a start died
before it wrote the set-up file; the token expired and no start without accounts came
since). `Apart` names the pairs of kinds that are not handled at the same time. Argon2
permits and the login limiter are left out.

### Registry and the code

A host claims names: a site its domains, a listener its port once for each
protocol. `Plan` gives the database calls of each handler in the order of the code:
`all_enabled_domains` reads three tables, the port check of streams reads streams
first and that of routers reads routers first. Requests are dropped at any call.
A proxy host may have its certificate issued on the way (`issue`), and when a later
call refuses the host the certificate is discarded by its id (`discard`).
Foreign keys are SQLite's: `RESTRICT` for certificates, `SET NULL` for access
lists. `certs` and `asked` carry history: which request a certificate was issued
for, and which access list a row's last edit asked for. An access-list user whose
password is left out keeps the hash that was read. `Document` says what the types of
an import's document already exclude (a redirect has no access list); what its rows
refer to is checked by `Imports`. `Serial` names the sets of kinds of requests of which
one is handled at a time. The code has no such lock; see the runs.

`RegistryRefinement` sees of a request what its client asked (`AskOf`: not the hash that was
read for a password left out, nor the certificate issued so far), until the request is answered
(`Pending`), and of the certificates those that no request holds (`Visible`). A
certificate that was issued for a host becomes visible with the row, or when its request is
cut off and nobody takes it back. In `AtomicRegistry` a request may be refused only for a reason
that holds at the time (`Refusable`), except by the authority that is asked for a
certificate. `Reissued` says what becomes of ids: where certificates may be deleted during a
creation or a change (`IdsReissued`), one that is on its way to a host can be
deleted and its id given out again, and a request that then takes its certificate back takes
another's (`TakeBack`).

### Generator and the code

`Order` is the order of the reads of `build_generator_input`, each a step; between
them rows are edited. The rules of a list are read with its row and the users of all
the lists after the lists, where the code reads the users of each list in turn. The
rendered set is what Angie makes of it: what each file defines (zones, upstreams,
ACME clients, maps, files), its servers with their directives in the order of the
text, and locations. Operators have the names of the functions they stand for.
`validate_*` are the conditions of `model.rs` on rows that matter here, `check_*`
the linter's rules. `LetsIn` is what Angie makes of a location: it asks for a user's
password, an allowed address and forward authentication, for all of those that are
configured or, with `satisfy any`, for one of them. `PassesGates` compares that with what the
rows ask for. `Keyed` is the primary keys of the tables; the names of locations
the generator makes itself are no paths of custom ones (`validate_location_path`).
Left out: listens on IPv6, contents of snippets, formats, slugs, a custom location `/`,
which validation lets through and which is then rendered twice, and failures of a build because of an EAB pair or a directory.

### Credentials, AcmeHook, Health and the code

`Credentials` has the settings table key by key, each write a step, in the order of
`store_creds`, `put_eab`, `delete_eab`, `ensure_acme_hook_token` and
`create_cert`. A stored value is known by whose it is: `own`, entered for the
profile it is stored under; `stranger`, for another one; `plaintext`, own and not
sealed. `Plan` is again the order of a handler's calls, with `CertPlan` and `CaPlan`
for what a certificate needs of its authority. A request that goes on under the id of a
profile that was deleted or replaced since it read it is `stale` (`After`).
`built` is a history variable, the hook tokens of the file sets built. The migration that
seals old values at a start may end at any point in an error (`SealingFails`), of the
database or of the key file; the panel logs it and serves, and `failed` remembers it.
`Apart` names what is not handled at the same time; again the code has no lock.

`AcmeHook` has one call at a time, with `elapsed`, Angie's clock, and `budget`, the
handler's. The plugin, the discovery and a round of look-ups have no limit in the
code; the constants `PluginTime`, `DiscoveryTime` and `RoundTime` say how long they
take at most, and `Margin` what `proxy_read_timeout` then leaves for the plugin.

`Health` has beats by their age, in ticks of the scheduler. A tick computes what is
due, probes it in chunks of `MaxConcurrent`, stores each beat, and reaps twice. A
failed write aborts the tick. Edits of hosts come at any time.

## Runs

| Run | Bounds | Shows |
|---|---|---|
| `MCApplyHelper` | two names of `http.d`, one of `stream.d`, two bodies and one that lint rejects, two staged sets, two initial trees, foreign files | `TypeOK`, `Recoverable`, `RestoreIsExact`, `OkMeansServed`, `RollbackServed`, `ForeignUntouched`, and `AtomicSpec`: the helper implements `AtomicApply` |
| `MCApplyEnds` | one initial tree, two staged sets of which one is rejected by lint | `ApplyEnds` |
| `MCApplyRecoverRace` | recovery may overlap | `Recoverable` fails |
| `MCPanelApply` | two hosts (symmetric), two edits, two seconds, one fault | `TypeOK`, `PendingEditsShow`, `ReportIsMine` |
| `MCPanelEnds` | one host, one edit, one second, one fault, hand edits | `RequestEnds`, `HttpsActivates` |
| `MCPanelUnreviewed` | two hosts, two edits, two seconds, no fault | `NoUnreviewedPush` fails |
| `MCAccounts` | two requests, two addresses, two users, one session, one token; removals of administrators one at a time, and no account created beside a login or a token being minted | `TypeOK`, `SetupPathExists`, `LocalTokenMatches`, `NoOrphans`, `OnlyAdminsMutate`, `AdminRemains` |
| `MCAccountsLast` | the same, with only `setup` one at a time | `AdminRemains` fails |
| `MCRegistry` | two requests, one row in each of five tables, two certificates, two lists, six documents; four foci | `TypeOK`, `UniqueClaims`, `NoOrphanCert`, `AccessKept`, `PasswordKept`, and `AtomicSpec`: the registry implements `AtomicRegistry` |
| `MCGenerator` | one row of each kind, every set of up to three of eleven options that interact and each of seven others; a host, a redirect or a stream edited during builds; three foci | `TypeOK`, `Resolves`, `GatesHold`, `HeadersCoexist`, `LintClean` |
| `MCGeneratorLoopback` | the same, with `allow_loopback_upstreams` | `LintClean` fails |
| `MCServices` | two requests, two profiles of two fields, one certificate, two EAB pairs and hook tokens, five documents; two name servers; two hosts, one fault; five foci | the ten properties of the three services |

Why the bounds are enough: two names in one directory give every interleaving of
a removal, a write and a file that is left alone, and let one file's validity
depend on the other; the name in the other directory gives the second loop of the
sync and of the restore, the stream gate and a manifest of one or both
directories. `MCValidTree` makes a half-synced tree invalid in one direction and a
foreign file the reason of a failure in another. Bodies matter only by being equal,
by validity and by lint. Processes, crashes, power failures and applies in a row are not bounded.
In `PanelApply` an edit that is carried and one that is not need two hosts; a
stamp that is older, equal and newer needs the clock to tick; one fault leaves a
helper that outlives its request, and the report it writes. In `Accounts` the last
administrator needs two users, reused ids need one to go and one to come, and every
race needs two requests. In `Registry` a clash needs a row in each of two tables; a
certificate discarded under a reused id needs two certificates. In `Generator` two
tables disagree about one row at a time, and no function reads more than three
options together. In `AcmeHook` servers that differ need two of them; the limits
(3, 2 and 8 units for 540, 10 and 560 seconds, with a plugin of up to 3) are such
that a call can be confirmed, given up and cut off. In `Health` one probe at a time
makes two chunks of two hosts.

Deadlock is checked in the runs of `PanelApply` and `Generator`. It is not in the
others: a panel nobody asks for anything may rest, and ids that are used up
(`MaxUsers`, `MaxCerts`, ...) stop a request the code would let go on. With an
`angie -t` that always answers nothing in `ApplyHelper` can be stuck.

Fairness: a started helper, recovery or enable-streams goes on, and Angie gets to
its signals (`Fairness` in `ApplyHelper`); the tasks of the panel and the helper
go on (`FairSpec` in `PanelApply`), as the tokio runtime and systemd schedule
them; in `Health` the clock and the scheduler's task (`HealthFairness`, which says
something only in the focus that lets them move: `ChecksRun` is about that one). Nothing makes a user apply or edit, the panel restart, or a certificate
arrive.

### Requests one at a time

The handlers of accounts, hosts and credentials check and then write, with no
transaction or lock around the two. Most of what they protect is therefore not
kept when two such requests overlap, and `MCAccountsLast` shows it where the source
states a rule in so many words. The other runs take the overlapping pairs apart
(`Serial`, `Apart`) and show that nothing else is needed: every other
pair of requests does interleave, as do crashes, cut-off requests, imports and
whatever else can happen. The pairs taken apart are the list of what a lock would have to
cover:

* `Accounts`: `setup`, a change of a role and a deletion of a user with each other; a set-up
  or the creation of an account with a login and with the minting of a token.
* `Registry`: creation, change and enabling of hosts, import, deletion of an access
  list; and change of an access list, import, deletion of one. With these apart every
  answer is one that requests handled whole, in some order, could have had
  (`AtomicSpec`), up to the certificates a refused request takes back.
* `Credentials`: two builds, until there is a hook token; an import with any request
  that stores or refers to a credential; the deletion of a profile with requests that
  store its secrets or refer to it; a certificate with the clearing of the
  directory or of an EAB pair.

### What the code does not keep

Four runs end in a counterexample to a sentence of the source, and `PROJECT.json`
quotes each (findings):

* `MCApplyRecoverRace`: recovery looks at the marker, not at the unit. A panel
  that restarts during an apply clears the marker of the running helper.
* `MCPanelUnreviewed`: `hosts_revision` does not move for settings, for most
  deletions, nor for two edits in one second, and the set is built after the
  check; the reconciler pushes such an edit.
* `MCAccountsLast`: two administrators who demote or delete each other at the same
  time both count two, and none is left.
* `MCGeneratorLoopback`: with `allow_loopback_upstreams` the panel accepts a custom
  location, and a verify URL of forward authentication, on loopback, which its linter
  then rejects at every apply. TLC's trace has the verify URL.

More follow from the models in the same way and have no run of their own.

Of applying: the snapshot of an apply that follows a helper that died in the middle of a sync is
of the torn tree, which a later rollback, reported ok, restores as "the known good
config" (`pipeline.rs:330`; in `ApplyHelper`, `pre` need not be a `ValidTree`); a
collision with a foreign file, after which the comment says nothing is rolled back
(`pipeline.rs:367`), starts a rollback and a reload (`Collides`
leads to `"restore"`); and a report
written in the second in which a request starts is accepted as the request's own
(`apply_api.rs:161`), which is why `ReportIsMine` speaks of later seconds only.

Of accounts:

* `SetupPathExists` says of a panel without accounts that there is a token to create one
  with, but for two cases (`lapses`). A start that died between the creation of the set-up
  file and its contents leaves an empty file, which every later start takes for a token
  "already present" (`auth.rs:165-179`), until `reset-password` writes a new one or 24
  hours have passed and a start finds it expired. And a token that expires while the
  panel is up is replaced by the next start only. The comment says "make sure a setup path
  exists when there is no admin" (`auth.rs:171`), where the code counts accounts: a panel
  whose only account is a viewer's, made through the machine-local token, gets no set-up
  file. The property speaks of accounts.
* `NoOrphans` keeps a login or a mint whose account was deleted meanwhile from leaving a
  credential behind. Both insert by the id they read (`auth.rs:259`, `tokens.rs:103`), and the
  foreign key refuses that only while nobody has the id: if an account may be
  created in between, which SQLite gives the id of the newest one that went, the session or
  the token is the new account's. `Apart` keeps the two apart in the run and `GrantsAlone` in the
  theorem; without it TLC finds the case.

Of credentials: the comment on the migration says "after it, no plaintext token remains in the
settings table" (`acme_hook.rs:563`), `main.rs:200` "so no plaintext token survives an upgrade",
and `docs/security.md:126` that credentials are encrypted at rest. An error in the migration is
logged and the panel serves (`main.rs:202-206`), with what is left in the clear until a start
seals it; with a torn key file every start ends its migration so, until the file is moved aside.
`SealedAtRest` therefore claims two things: a migration that ends without an error has left
nothing in the clear, and no step puts anything in the clear.

Of the ACME hook: the wait requires the value "on EVERY authoritative server"
(`acme_hook.rs:247`). The servers it asks are those the discovery found; one whose look-up failed
is not among them, and `ConfirmedIsLive` is about those found.

Of the generator: with an access list of `satisfy any`, users and rules, forward authentication
is one more alternative for Angie. An address the list allows is not asked to sign on, and a
visitor who signed on need not be on the list, where `mod.rs:797` says of `auth_request` that it
is in each proxy location "so the whole host is gated". `GatesHold` asks for one of the
alternatives then (`Alternatives`), and for all of them otherwise. A host with a client CA and
without force-ssl also answers on port 80, where no certificate is asked for.

## Proofs

`ApplyHelper_proofs` proves, for every set of names, bodies, staged sets and
initial trees and every `ValidTree`, under `ConstantsAssumption` alone:

* `TypeCorrect`: `Spec => []TypeOK`. `TypeOK` is inductive only with `LoopOK`: a
  process that syncs or restores a directory has in its two work lists names of
  that directory, within the domain of the manifest it restores from, so that no
  manifest is read outside its domain.
* `RecoverySafe`: if `"recover"` is not in `Overlaps`, `Spec => []Recoverable`.
  `Recoverable` says nothing while the snapshot is being taken and nothing of the
  work lists, so the inductive invariant `RecoverInv` adds: recovery and helper
  exclude each other (`Alone`); while files are being changed the history
  variable `open` is set (`Mutating`); the lists of the helper hold names the
  backup covers (`Covered`); when `stream.d` is not managed and does not exist it
  has no managed files, so the names outside the backup stay as they were
  (`NoStreams`); during the snapshot the tree still is `pre` (`Snapshotting`); what
  is restored is the newest backup (`Restoring`).
* `ForeignSafe`: `Spec => ForeignUntouched`, for every `Overlaps`: the work lists
  never hold a name with a foreign file, because nobody but the operator makes
  one and the operator does so only while no process works (an assumption of the
  model: there is no lock between the operator's editor and the helper).

`MCApplyRecoverRace` shows that the assumption of `RecoverySafe` is needed.

`ApplyOutcome_proofs` goes on from there, under the same assumption (recovery does not run
beside a helper). `OutcomeInv` adds to `RecoverInv` how far each loop has come:

* `RestoreProgress` and `SyncProgress`: the names of a directory that are no longer in a
  work list are as in the manifest, or as in the loaded set, and the directory that was
  done before stays so (`Landed`); `Reporting`: the draft of the report names how far the
  helper came; `Serving`: from the reload on Angie runs, and a generation newer than the
  baseline was loaded from the files on disk.
* `RestoreExact`, `OkServed`: `Spec => []RestoreIsExact`, `Spec => []OkMeansServed`.
* `RolledBackServed`, if `"enable"` is not in `Overlaps` either:
  `Spec => []RollbackServed`, with `RollbackInv`, which adds that an apply and
  enable-streams exclude each other. Enable-streams changes what the same files mean to
  Angie, so without the condition a rollback can be overtaken by it.
* `Atomicity`: `Spec => AtomicSpec`. Initial states map to initial states, and each of the
  helper's, the recovery's, enable-streams' and the environment's steps to a step of
  `AtomicApply` or to a stutter, which `OutcomeInv` makes provable: the step that clears
  the marker is the one in which the tree in force jumps from `pre` to the files, and it
  may do so only because they are `staged` or `pre` as the report says.

`PanelApply_proofs` proves, for every number of hosts, edits and seconds:

* `TypeCorrect`, `PendingShows`, `ReportIsOwn`: `Spec => []TypeOK`,
  `Spec => []PendingEditsShow`, `Spec => []ReportIsMine`. The invariant `PanelInv` adds
  that no time stamp is ahead of the clock (`ClockOK`); that a host the set under way does
  not carry was saved at or after the revision the request read before it built the set
  (`Carried`); and that, unless a helper of an abandoned request was at work when the
  staging was filled, what a helper loads is the request's set and a report newer than
  the request is of it (`Answered`). The order of the two reads, revision first, is what
  `Carried` rests on.

`Registry_proofs` proves all that `MCRegistry` checks, for any number of requests, rows,
certificates and lists and any documents:

* `TypeCorrect`: `Spec => []TypeOK`, for every `Serial`: foreign keys and the checks of the
  import keep references within the tables however handlers overlap. The invariant `Typed`
  adds what each kind of request holds (`Filled`) and the order of its calls: the
  write is the last one, the issue of a certificate right before it (`Ordered`).
* `OneOwner`, if a group of `Serial` has creation, change, enabling and import:
  `Spec => []UniqueClaims`. A name is found free in one table at a time, before the write,
  so `ClaimInv` adds that the tables a request has read have no row that claims one of its
  names (`Cleared`). Deletions, disabling and lists may come in between.
* `NoneLeft`, if a group has creation and change: `Spec => []NoOrphanCert`. `CertInv` is
  stronger than the property: a certificate that was issued for a host is of the request
  that had it issued, and in no row, so that `discard_cert` can take it back.
* `NoneDetached`, if a group has creation, change, import and deletion of lists:
  `Spec => []AccessKept` (`ListInv`: past its check a deletion finds no host with the list).
* `HashesKept`, if a group has change and deletion of lists and import:
  `Spec => PasswordKept` (`HashInv`: a hash that was read is the one stored).
* `RegistryAtomic`, under the conditions of `OneOwner`, `NoneDetached` and `HashesKept` together:
  `Spec => AtomicSpec`. The invariant `RefInv` joins `Typed`, `ClaimInv`, `CertInv`, `ListInv` and
  `HashInv` and adds `Sound` (the kind of a request says which calls it may still have to make,
  and only one that asks for a certificate has or is to have one issued) and `HeldInv` (the id
  a request had issued is in no row; and unless `IdsReissued` the certificate is still there and
  still its own). A request takes effect at its write, not at its checks: `ClaimInv`, `ListInv`
  and the foreign keys are what makes the reasons found earlier still good there. A refusal
  takes effect at the call that finds the reason, unless a certificate has to be discarded first.
  There is a lemma for each kind of call, with the step of `AtomicRegistry` it is. The
  theorem covers both cases of `IdsReissued`.

`Credentials_proofs` proves of `Credentials` all that `MCServices` checks, for any number of
requests, profiles, fields, certificates, pairs and tokens and any documents. Each theorem
names the pairs of kinds in `Apart` that it needs (`KeptApart`), and `AllApart` says that such
requests are never in flight together:

* `TypeCorrect` and `Sealed`: `Spec => []TypeOK`, `Spec => SealedAtRest`, for every `Apart`. The
  second rests on two lemmas: no step adds to what is in the clear (`NoPlaintext`), and a panel
  starts to serve in two ways only, of which one is the error (`ServingStarts`).
* `SecretsKept`, if creation and change of a profile are kept apart from its deletion and
  from imports: `Spec => []SecretsAreTheirs`. `SecretInv` adds that no request is stale, and
  speaks of all ids, not only of those in use: an id is given out again.
* `CertsServed`, if certificates being written and imports are kept apart from deletions
  of profiles and from the clearing of the directory, and the two from each other:
  `Spec => []CertsCanIssue`. `IssueInv` adds that what a request has checked (the profile
  is there, the directory is set, nothing uses the one or the other) is so until it
  writes (`Checked`); no request checks anything after its first write (`Ordered`).
* `PairKept`, if taking a pair away is kept apart from certificates being written and from
  imports: `Spec => EabKept` (`EabInv`).
* `TokenKept`, if builds are handled one at a time: `Spec => []TokenStable` (`TokenInv`: who
  has made a token has found none).

None of these conditions is kept by the code, as said above; they are what the theorems
show to be enough, and the counterexamples TLC finds without them are of the kind of
`MCAccountsLast`.

`Services_proofs` proves of `AcmeHook`, for every set of servers and all limits and times under
`HookAssumption`:

* `HookTypeCorrect`: `HookSpec => []HookTypeOK`.
* `HookAnswersInTime`: `HookSpec => []AnswersInTime`. That the call was cut off only
  after a slow plugin says nothing of the time before, so the invariant `HookInv` adds
  `Schedule`: in each stage, what is spent of the budget and what is left of the wait
  the handler is in add up to no more than the stage allows, and all of them to no
  more than `LongestWait`.
* `HookConfirmsLive`: `HookSpec => ConfirmedIsLive`, with `SeenIsLive`: what has answered
  with the value in a round goes on serving it.

`Accounts_proofs` proves all that `MCAccounts` checks, for any number of requests,
users, sessions and tokens, under `AccountsAssumption`:

* `AccountsTyped`: `Spec => []TypeOK`, for every `Apart`. It is inductive together with `Rooted`
  (sessions and tokens belong to accounts that exist: a request may hold an account
  number it found in a session) and `Filled`: a request that will write an e-mail address
  or a role has one.
* `NothingOrphaned`, if set-up and the creation of accounts are kept apart from logins and the
  minting of tokens (`GrantsAlone`): `Spec => NoOrphans`. `StaleInv` adds that the account a
  stale request holds is in no row until the request ends, since no account comes
  meanwhile: its write is then refused by the foreign key.
* `LocalTokenSafe`: `Spec => []LocalTokenMatches`. The invariant adds that the row is
  there while the file is being written.
* `AdministratorStays` and `SetupPathStays`, if `setup`, `role` and `delete` are kept apart
  from each other (`RemovalsAlone`): `Spec => AdminRemains`, `Spec => []SetupPathExists`. That an
  administrator remains depends on a count made one step before the write, so
  `Locked` adds: one request that removes administrators at a time (`Exclusive`); from
  the check to the write its target is there, and at the write another administrator
  is, if it takes one away (`Counted`; every other step only adds rows, `Grows`); and
  the set-up file is given up, and about to be removed, only where an administrator
  is (`GivenUp`). `LapsesKnown` says of a file without a token to use how it came to be one:
  written by nobody (`Torn`), or expired. `MCAccountsLast` shows that the condition is needed.
* `GateHolds`, if look-ups do not fail (`~ReadsFail`): `Spec => []OnlyAdminsMutate`. The
  property speaks of requests past the extractor. `GateOK` says of those on the way
  that a credential is live or known to be none (ids are given out again: a dead one
  must not come to life), that an administrator's has been noted, and that past the
  gate there is an administrator or no account at all. The condition is needed: a
  failed look-up of the role passes the gate (`security.rs:121`, `.ok()` in `auth.rs:400`), and the
  extractor then asks for an account only.

`Services_proofs` proves of `Health`, for every finite set of hosts and all intervals under
`HealthAssumption`:

* `HealthTypeCorrect`: `HealthSpec => []HealthTypeOK`.
* `ChecksAreSpaced`: `HealthSpec => BeatsSpaced`. A beat is stored long after the
  question whether it is due, so the invariant `HealthInv` adds that what is still to
  be stored in a tick remains due (`Pending`), that a host is in one stage of the tick
  at a time (`Stages`), and that a beat that waits to be stored is new.
* `HistoryIsKept`: `HealthSpec => HistoryKept`, from the same invariant.

`Generator_proofs` proves all that `MCGenerator` checks, for any number of rows of any
shape and any edits between the reads of a build:

* `GenInvHolds`: `Spec => []GenInv`. The properties speak of what a build has read, a
  mixture of states of the tables, and a foreign key need not hold in it: a host that was
  read may name a list that was deleted before the lists were. So `GenInv` keeps only what
  any mixture keeps: each table that was read has its ids as keys, and the hosts are
  valid one by one (`Sound`). Nothing is assumed of how two tables fit together; that
  this is enough is what the theorems show of the generator.
* `EverythingResolves`: `Spec => []Resolves`. `Found` says of one reference where it is
  defined; there is a lemma for each directive that refers to something, and for each
  server that all of its directives are found. That the definition is unique comes from
  `DefsOf` (a file with a definition of a kind is one of a few) and from `NameKey` (the
  name of a file determines it, ids being keys).
* `GatesAlwaysHold`: `Spec => []GatesHold`, from `HostGates`, which goes through the servers
  of a host and through the locations of each. `ServerGates` says what a server has of the
  checks a row asks for, `LocationGates` what a location adds or replaces; together they say
  what Angie asks there and whether as alternatives, which is `PassesGates`. The client
  certificate is `ClientsVerified`.
* `HeadersStay`: `Spec => []HeadersCoexist`. It needs no invariant: the generator keeps
  headers apart on every input, valid or not.
* `LintStaysClean`, if `AllowLoopback` is false: `Spec => []LintClean`, from `FilePasses`: each
  file that the generator writes passes each rule. `MCGeneratorLoopback` shows that
  the condition is needed.
* `GeneratorTypeOK`: `Spec => []TypeOK`, from `NameKey` again.

Only model-checked: the liveness properties (`ApplyEnds`, `RequestEnds`, `HttpsActivates`,
`ChecksRun`: TLAPS does not handle fairness). The type invariants of the three services are
proved and stated by no run.

## Not modelled, and what is left

Left out on purpose: the text of configurations beyond what `Generator` keeps of it
and the tokenizer of the linter (golden files and unit tests cover them), audit rows,
dashboards, cryptography, rate limiters, the clients. Details left out of modelled
components are named in `PROJECT.json`. Known and covered by no property:

* `put_settings` writes key by key and stops at the first invalid one, with the earlier
  ones saved; an import keeps settings the document does not hold.
* A default site that redirects to an empty URL is accepted by the settings and fails
  every build (`"failed"` in `Generator`).
* Ports 80, 443 and 8100 are not kept from streams and SNI routers.
* `proxy_intercept_errors` with a sign-in page intercepts the upstream's own 401.
* A host that is disabled, or replaced under its id, during a health tick is still
  probed, and the new one inherits its beats.
* Backups are rotated by the number in their name, whatever the clock did; an
  unreadable staged `stream.d` is taken for an empty one; without systemd the panel
  starts a helper itself, beside one that may be running.

What comes next: backups and their rotation in `ApplyHelper`, and the fallback without
systemd.
