# walburg, modelled in TLA+

walburg is a storage engine without a server: several writers share a
directory of immutable log files, each file holds operations (`Op`, one field of
one entity set to a value by one transaction), and every reader merges all the
files it can read into the same state. This directory holds TLA+ modules of that
program, the TLC configurations that check them on small instances, and proofs
that TLAPS checks for all instances. Paths below are relative to the
repository; `src/wal.rs` is its write-ahead log, and so on.

    tlc -workers 2 -config Compactors.cfg MCWalburg      # one of the runs below
    tlapm WalburgProofs.tla                              # one of the proof modules

## 1. The system

| component | code | state | operations |
|---|---|---|---|
| operations, transactions | `eavc.rs` | none | `transaction` builds the ops of one call, all with one `tx` |
| merge engine | `merge.rs` | `MergeState`: (entity, field) -> winning op | `apply`, `wins`, `is_purge` |
| verified write | `wal.rs` `write_wal`, `write_verified` | files in the directory | temporary file, rename, read-back, removal of a bad file |
| listing and parsing | `wal.rs` `list_wal_files`, `read_wal_file` | none | a file gives its ops, NotFound, or another error |
| `WalReader` | `wal.rs` | `processed`, `failing` | `consume`: the ops of every file not processed yet |
| compactor | `wal.rs` `compact` | its locals | read all, write the merge, delete what was read |
| store session | `store.rs` | `current`, `outbox`, `last_tx`, the reader | `create`, `update`, `delete`, `purge`, `flush`, `sync`, `get`, `list` |
| transaction ids | `store.rs` `next_tx` | `last_tx` | a monotonic ULID per session |
| typed records | `record.rs` | none of its own | `insert`, `get`, `list`, `update`, `delete`, `purge` over a store |
| derive macro | `walburg-derive` | none | which field is the id, its key, the table name |
| examples, tests | `examples`, `tests` | - | programs over the library; not modelled |

How they interact. A session owns its memory (`&mut self`: its calls never
overlap). Everything that sessions and compactors share is the directory, and
nothing locks it: another process may act between any two accesses to it. A
session's `flush` and a compactor's `compact` add files through the same
verified write, a compactor removes the files it read, a writer removes its own
file when the read-back does not match, and a reader lists first and opens the
files one by one later. A share or a sync folder may show a file before all of
it is there.

What is hard about it: compactors that run at the same time and rely on each
other's output; a crash or a loss of power between publishing and deleting; a listed file that
vanishes; a file that is bad now and good later; a compactor that takes a file
before its writer verified it, so that the flush fails although the ops are on
disk; ops that arrive in any order and twice, around deletes and purges; a
compactor that strips data with a partial view of the log; two writers that draw
the same transaction id; clocks that stand still or step back; typed updates of
records loaded before others changed them, by structs that serialize only some
of their keys; a file that shows cut or with holes while it arrives.
`PROJECT.json` lists each of these hazards at its line, with the properties that
would catch it, or the reason why none does.

What makes each part correct. Merging: one state whatever the order, and nothing
superseded comes back. Writing and compacting: what was verified stays readable,
and files go only when others carry them. Reading: a file is taken whole or not
at all, is read until it is, and sessions that read the same agree. Sessions:
edits survive failed flushes, transactions stay whole, ids ascend. Records: the
latest edit shows, and what was written can be decoded. The macro: its id key is
serde's. All together: one merged log that only grows.

## 2. Modules

| module | models | correspondence |
|---|---|---|
| `Eavc` | `eavc.rs` | `Op` is the record, with (tbl, id) as one entity, values as ranks of their JSON text and users as ranks of their names, since the program only compares them. `Transaction` keeps the last value of a repeated field |
| `Merge` | `merge.rs`, `Store::materialize_entity` | a `MergeState` is a set of ops; `Wins`, `Apply`, `Materialize` follow the code branch by branch. `Winners(O)` states without an order what merging `O` must give |
| `MergeState`, `MCMerge` | a state fed one op at a time | `Receive` is `apply` of any op, again or for the first time |
| `WalDir` | the directory and `write_verified` | one action per access to the directory, one per way to fail |
| `Store` | `Store` and `WalReader` | `Write`, `Flush`/`FlushStep`/`FlushOk`, `SyncList`/`SyncRead`/`SyncApply`, `Crash` |
| `Compactor` | `compact` | `CompactList`, one `CompactRead` per file, the write steps, one `CompactDelete` per source |
| `Walburg` | the whole | sessions and compactors interleaved on one directory; the properties; the inductive invariant |
| `MCWalburg` | - | users and field lists for TLC |
| `TxClock` | `next_tx` | ULIDs of a small width; clocks are arbitrary |
| `SharedLog` | - | what all of it promises: one merged log, without files or compactors |
| `WalburgLog` | - | the refinement: what of `Walburg`'s state is that log |
| `WalFile` | `read_wal_file` | operators over what shows of one file, cell by cell; `ReadsOk` follows the parser line by line |
| `TornFiles`, `MCFaults` | - | `WalFile` applied to the files of `Walburg` |
| `PowerLoss`, `MCPowerLoss` | fsync in `write_verified` | `Walburg` on a page cache, `SyncContent`, `SyncDir` (a process that has renamed its file does this next, or dies), `LosePower` |
| `Erosion`, `MCErosion` | `compact` run for ever | `Compactor` for ever, beside sessions that flush step by step (`WalDir`'s verified write); file names are given out again |
| `Records`, `MCRecords` | `record.rs` | one action per method of `Table` that writes; structs as sets of keys |
| `DeriveRecord`, `MCDeriveRecord` | `walburg-derive` | `Expand` of a struct, beside serde's own rules |
| `Typed`, `MCTyped` | an application of both | the struct is compiled, then sessions keep records |
| `MergeProofs`, `MergeStateProofs`, `TxClockProofs` | - | theorems about merging, replicas and ids (section 5) |
| `WalburgProofs`, `SessionProofs` | - | theorems about `Walburg`: types and durability; what sessions hold, convergence, the refinement |
| `PowerLossProofs`, `WalFileProofs`, `RecordsProofs` | - | theorems about what the medium has, files in part, typed records and the derive macro |

Abstractions to know about.

* A file is a number in the order in which names are chosen. The program never
  relies on that order; the proof of durability does (section 5). `content`
  keeps what was written to a file after it is gone: it is what the properties
  speak of, no action reads the content of a file that is not whole.
* `read_wal_file` is modelled by its outcome. A `torn` file is one that has not
  fully arrived or is damaged; `Land` completes it, at any time or never. Reading
  a whole file may fail too, a bounded number of times (`MaxFaults`).
* Sessions and compactors merge whole batches with `MergeOps`, which is the
  closed form `Winners`. That the loop over `apply` computes exactly it, in
  every order, is theorem `ApplyWinners`, and what `MergeState` checks.
* In `Walburg` a new tx is any id above the session's previous one. That is what
  `TxClock` proves of `next_tx` (`OwnOrder`).
* `PowerLoss` has no files that arrive late: the directory is on the machine that
  loses its power.
* `consume` on a missing directory, and an error of the listing itself, return
  before any state changes and are no actions. Formatting, warnings and the
  debug line are left out.
* A crashed session is opened again at once with nothing in memory. What it had
  not flushed is lost, which the program does not claim to prevent.
* `WalburgLog` maps the log to the merge of the whole files that no writer has
  still to verify. Until then the file is in doubt: its writer may find it bad and
  remove it, so a session may learn from it, but it is not in the log. A flush
  that is verified confirms, a sync learns when it applies its batch, a late or
  orphaned file publishes, and every step of a compactor is a stutter. What a
  crashed session owed may be in the log, come late, or be gone.
* In `PowerLoss` the medium may have, of a name not fsynced since it changed, any
  of the states it went through, independently of other names; content not
  fsynced may be cut or zeroed. Sessions and compactors all run on that machine.
* In `Erosion` a file number that is of no use to anyone any more is given out
  again, which keeps for ever running compactors finite. It needs no trust:
  the step only renames. A flush is any of a few sets of ops, since nothing there
  depends on a session's memory; its write goes through all the steps and failures
  of `write_verified`, the removal of a file that did not match included, and may be
  tried again or not.
* `Records` tells a struct by how serde treats each key (an option, with a
  default, skipped while empty), names any keys that start with an underscore
  (`Underscored`, the two system fields among them), and takes files as sets of ops that stay, since
  compaction is transparent. `edits` is a history of what applications meant,
  against which `LatestEditShows` holds what is shown.
* `DeriveRecord` works on names as sequences of characters and compares with
  serde's rules as serde_derive applies them to fields, which are external code.
  `LettersAssumption` pairs lower and upper cases one to one, as in ASCII, and keeps
  the separators out of the letters; `NamesAssumption` takes field names without
  upper case and struct names that begin with one and have no underscore, which is
  what the compiler's naming lints ask for and the macro's doc comment ("a
  (snake_case) field name") expects.

## 3. Runs

| run | module, config | question | states |
|---|---|---|---|
| merge_order | `MCMerge`, `MergeState.cfg` | one state in every order, that of the oracle in `tests/common/mod.rs`, for ops that collide on a tx too; compaction of any part changes nothing; purges are final; facts only advance | 546 k |
| compactors | `MCWalburg`, `Compactors.cfg` | two compactors at once, a flushing session, one fault: nothing verified is lost, edits stay, only carried files go, and none of it can be told from `SharedLog` | 517 k |
| power_loss | `MCPowerLoss`, `PowerLoss.cfg` | a loss of power, or a crash of one process, between any two steps: what was verified is on the medium, no file comes back torn, a file leaves only if bad, carried, or not yet told of | 1.0 M |
| readers | `MCWalburg`, `Readers.cfg` | two sessions sync while the other flushes and a compactor runs: nothing skipped, no torn transaction, same state | 2.0 M |
| faults | `MCFaults`, `Faults.cfg` | torn and late files, failed renames, reads and read-backs: no file is taken in part, what is missing is kept by someone, readers miss nothing and agree | 2.5 M |
| collisions | `MCWalburg`, `Collisions.cfg` | two writers draw the same id, with restores and purges, beside a compactor: same state, and one `SharedLog` | 0.7 M |
| eventually_seen | `MCWalburg`, `EventuallySeen.cfg` | an acknowledged op reaches every session that goes on syncing; `SharedLog` holds through a fault and a crash | 199 k |
| tx_clock | `TxClock`, `TxClock.cfg` | own writes in order, independence of other clocks, order across a reopening, over carries and the wrap | 30 k |
| records | `MCTyped`, `Records.cfg` | the macro's id key is serde's, table names differ; latest edits show, records decode, edits take nothing away, what was written is read | 390 k |
| erosion | `MCErosion`, `Erosion.cfg` | once a purge is verified, its data leaves the disk for good under one compactor that never stops, beside a session whose flushes fail, are withdrawn or stop | 172 k |
| records_empty | `MCRecords`, `RecordsEmpty.cfg` | expected violation, section 4 | - |
| erosion_two | `MCErosion`, `ErosionTwo.cfg` | expected violation, section 4 | - |

Bounds. Every bound is a constant with `Max` in its name and sits in the guard of
the action it limits. One entity is enough where no rule relates two entities; two
data fields are needed for transactions and for deletes. Three or four files are
enough for the races: a file of a session, the outputs of two compactors, and a
file that comes while they run. Two compactions give a compactor that reads the
output of another one, or both reading the same sources; two faults give a torn
file and a failed removal of it. `MergeState` takes four different ops, enough for
a write, a delete or purge, a write after it and a tie; its two entities are
interchangeable, and TLC takes them as symmetric (every property quantifies over
all of them). Deadlock is not checked where the system really may stop: with all
files, faults and calls used up.

`Records` uses three transaction ids, three values (the default, null and
`true`) and every record of the struct: enough for a record written, taken away
or edited by another session, and written again. It runs with four tables: of
a struct with an option and a key named like the delete's field, of one with a key
named like the purge's and another with an underscore, of one whose option is
skipped while None, as in `tests/record.rs`, and of two versions of a struct. The refinement is checked with two compactors and a fault, with two
colliding writers, and with a fault and a crash at once. `PowerLoss` loses power
once, after two compactions over four files, which covers an output that relies
on another output. `Erosion` bounds what happens to the compactor (`MaxEvents`
flushes and stops of a process, three; `MaxFaults`, one), not the compactor: enough
for data, a purge, and data again from a session that does not know, one of them
torn, late or withdrawn. `MaxFileOps` is the largest
file that run `faults` looks into: one that can be cut before, between and after
op lines. Longer files are left to theorem `FilesAreNeverMisread`.
`DeriveRecord` takes the name `id` and names of up to `MaxName` characters over a
letter, a digit and underscores.

Fairness. In `Walburg!FairSpec`, for `eventually_seen`, a call of a reading
session that began goes on, and the application goes on calling `sync()`, as the
loops of the README, of `examples/wal_tail.rs` and of the tests do. Nothing is
assumed of writers' decisions to write or flush, of compactors, or of files that
have not arrived. That reads of a whole file fail finitely often, and that
compactions are finitely many, is in the bounds: against compactors that never
pause the program does not promise progress.

`Erosion!Spec`: every compactor's call goes on and is made again, as by a
scheduled job; nothing is assumed of flushes, which may stop in the middle, of
stops or of late files. Renaming is
the model's own step and always comes.

Every property of every passing run has a mutant: a plausible bug of the
code, defined beside the operator it replaces and marked `Mutant`, under which
TLC finds that property violated.

## 4. Where documentation and code differ

Two runs show it.

* `records_empty`, a bug. `update` writes null for a key that vanished
  (`record.rs:191`). A field that is not an option and is skipped while empty
  takes its default when the key is missing and refuses null: the record no longer
  decodes, with one client that never changed its struct. The project's README
  says that such a record means another client wrote a different shape.
* `erosion_two`. Two compactors may carry purged data past each other for ever.
  One lists, the other removes the file of the tombstone; the first skips it
  (`wal.rs:376`) and writes the data without it to an output of its own. The
  project's README promises erosion after one pass. Readers never see the data,
  since the tombstone is in some other file; but it is on disk. The run reads and
  removes files in the order of their names, as the program does, and still finds
  it; with one compactor erosion holds (`erosion`), crashes included, from the moment
  a purge is verified. One that can only be read may be withdrawn by its writer,
  when a file that did not match arrives late and is removed.

Four more have no run of their own.

* `wal.rs:286` (and the project's README, "Missing files") says that a listed file
  which vanished was removed by a compactor whose output carries its ops. A writer
  whose read-back does not match removes its own file too (`wal.rs:185`); its ops
  are then in its outbox only. To do nothing is right all the same, as long as the
  writer lives: `MissingIsKept` states what does hold.
* The comment on `set_tx_source` (`store.rs:176`) promises a tx greater than
  everything the session has seen; `next_tx` compares with the session's own last
  tx only, as its own comment and the README say, and as `OwnOrder` and
  `NoCoupling` state it.
* "Writes a new record (every field)" (`record.rs:95`) holds for the fields serde
  serializes. With `skip_serializing_if`, as in the struct of `tests/record.rs`, an
  insert over a soft-deleted id shows the old record's value of a field that is
  `None` in the new one, and an insert of a record of which no key is serialized
  returns Ok and writes nothing. `InsertedIsRead` and `LatestEditShows` are about
  structs that skip none of their data keys (`WritesAll`).
* "Anything purged since the last export disappears" (`wal_exporter.rs:51`): the
  exporter syncs once, so it may read the data and miss the tombstone that a
  compactor moves between its listing and its reads.

A known limit: if a torn file arrives completely after its writer read it back, a
reader may apply it, the writer may remove it, and then crash with its outbox, or
give up. That reader alone has the ops. `Converged` excepts exactly those
(`Withdrawn`): after a fault, an op that no readable file covers, and that is in the
outbox of a session which has still to flush it again, or may be lost because some
process crashed. All else that one settled session shows the other shows too, or
something later. With three sessions one fault and no crash is enough for two that
differ by such an op, until the writer flushes again. `SharedLog` allows it: its
sessions may learn what never gets into the log.

## 5. Proofs

All are checked by TLAPS for every value of the constants, from the named
assumptions of the modules (`EavcAssumption`, `WalDirAssumption`,
`StoreAssumption`, `CompactorAssumption`, `TxClockAssumption`,
`RecordsAssumption`, `LettersAssumption`, `NamesAssumption`: bounds are naturals,
sessions and compactors are different processes, field lists are lists of fields
and values, structs are told by sets of keys, names are as section 2 says). A theorem that needs more says so in an `ASSUME`; those hypotheses are
listed at the end of this section. `PROJECT.json` lists the results, each with the
property of a run that it states. The longer inductive invariants (sessions, power
loss, typed edits) were first tried with TLC on small instances.

**Merging** (`MergeProofs`, `MergeStateProofs`). `Supersedes` is irreflexive,
transitive, and total on the ops of one key. Hence a set of ops has exactly one
merge, `Winners`, a part of it that covers it (`WinnersIsMerge`, `MergeUnique`),
and `Apply` extends the merge of `O` to that of `O \cup {op}` (`ApplyWinners`).
From the invariant `state = Winners(seen)` follow `TypeCorrect`,
`StateIsOrderIndependent`, `StateOnlyAdvances`, `PurgeIsIrreversible` and
`ReadersSeeTheOracle`. `CompactionTransparency`:
`Winners(Winners(A) \cup B) = Winners(A \cup B)`. `CompactingNeverShows` states the
same of what the program computes, a fold of `apply`: `FoldedIsWinners` shows that
the fold over a finite set is its merge, whatever order the fold chooses. The lemmas
on `MergeOps` (what it
covers, keeps and drops) are what the proofs about files and sessions rest on.

**Nothing verified is lost** (`WalburgProofs`: `TypeCorrect`,
`NothingVerifiedIsLost`, `OnlyCarriedFilesGo`). `Durability` is not inductive: it
says that some readable file covers a verified op, not which, and nothing in it
keeps two compactors from each removing what the other relies on. The reason why
they cannot is an order: a compactor picks the name of its output after it read its
sources, so what carries a removed file is a *later* verified file.
`DurabilityInv` says this: names are given in order; a file has one writer until it
is verified; a compactor's merge covers what it read, its output is that merge, and
it deletes only files that later verified files carry; and whatever a verified file
holds, it or a later verified file that is still there offers. The step that
matters, the removal of a source, is `RemoveStep`; steps that leave verified files
alone share `QuietStep`. TLC checks `DurabilityInv` in run `compactors`.

**Sessions** (`SessionProofs`). Each invariant is one more layer, and uses those
before it.

* `SessionInv`: a file in `processed` is covered by what the session shows or is
  about to apply; an own edit is in the outbox or in a verified file, and the file
  a flush is writing holds the outbox it started with; what a session shows has no
  two ops of one key, and comes from files it processed or from itself. From it
  `WhatIsReadIsApplied` and `EditsAreKept`. The part about the file being written
  is what makes it inductive: without it, a flush that succeeds could clear an
  outbox that is nowhere.
* `TransactionInv`: `TransactionsWhole` of every set of ops that exists, the files,
  the outboxes, the compactors' merges and the batches included, relative to
  all ops issued. A set may lack an op of a transaction only if it has a newer one
  for that field, or a purge; that is what merging preserves (`WholeMerge`).
* `KeptInv`: until a process crashes, every op of every file and of every
  compactor's merge is covered by a whole file that nobody is about to discard, or
  is in an outbox. That no one is about to discard it is needed: a file that
  arrives while its writer gives it up is readable and then gone. From it
  `MissingMayBeSkipped`.
* `FaultlessInv`: while there is no fault, what a session has processed stays
  readable, crashes or not. `SessionsConverge` follows from the two: what a settled
  session shows and was not withdrawn, some readable file covers (`ShownIsReadable`),
  so the other one covers it too; and of two that cover each other neither shows an
  op the other lacks.

**One log** (`SessionProofs!WalburgImplementsLog`). The log is the merge of the
whole files whose writers do not hold them in doubt (`LogOps`). `StepKinds` sorts
the steps; an edit, a verified flush, a sync that applies and a crash each map to
the action of `SharedLog` of that name (`EditMaps`, `FlushOkMaps`,
`SyncApplyMaps`, `CrashMaps`), every other step to a publication or a stutter
(`OthersPublish`). In all of them the log only grows (`LogGrows`): a file that
leaves `LogOps` was carried by files that stay (`LogKeepsCover`, from
`DurabilityInv`). `HeldInv` says that files and compactors' merges hold nothing but
what was written, so that no step but an edit brings an op. An `Edit` of the log has
ops nobody has seen. Where two writers may draw the same id that is `DrawInv`: no op
of a user is later than what its session drew last, which needs that every session
has a user of its own and never forgets what it drew (`DrawnOnce`). Runs
`eventually_seen` and `compactors` are instances of the one case, run `collisions`
of the other.

**Loss of power** (`PowerLossProofs`). `PowerInv` adds to `DurabilityInv` what the
medium has: of a name, the state in the cache is among those it may come back
with; content was synced before the name was given; the name of a verified file is
there, or the file was removed; from its fsync of the directory on a process may
rely on the name it reads back; and what a verified file holds, it or a later
verified file has on the medium for certain. The last part is `DurabilityInv` once
more, for the medium instead of the cache: it is needed because a removal may reach
the medium without the files that justified it, had those not been synced first.
From it `AcknowledgedIsOnMedium`, `NothingIsLostWithPower` and, where no fsync
fails, `NoFileComesBackCut`. `PowerTakesOnlyUntold` says how a file may leave the
directory. A removal is `LeavesByRemoval`, as in `WalburgProofs`; a name that goes
with the power was not one anybody relied on, since the medium has those for certain
(`ReliedStays`).

**Transaction ids** (`TxClockProofs`). `NextTxLater` says what one call of
`next_tx` returns: a later id, and one not behind the clock. `OwnWritesInOrder`, of
every draw, `ClocksAreNotCoupled` and `TypeCorrect` follow. For `ReopeningKeepsOrder`
the invariant needs `KeepsUp`: since it was opened, a session is at the highest
millisecond its clock has shown, or beyond, as long as the carries do not wrap.

**Files in part** (`WalFileProofs`). `ReadsAllOrNothing`: the ops that are found are
among those written, of which there are as many as the header says, so that to
count them is enough, for files of any number of ops. `WholeFilesParse` is the
converse. `FilesAreNeverMisread` applies both to the files of `Walburg`; that these
have a number of ops at all is its invariant `FiniteInv`.

**Typed records** (`RecordsProofs`).

* `MergeInv`: what a session shows is the merge of its outbox and of the files it
  read. `TypeCorrect` follows, and `TypedEditsKeepLive`: data ops never make a
  delete the latest op of an entity (`DataKeepsLive`).
* `UpdateIsWhatIsRead` and `InsertIsWhatIsRead` are about one step.
  `NewestShows`: the data fields of a call that is newer than the state are shown
  next, and the others stay. `ChangedFields` says key by key what `update` writes,
  and `RecordShows` that the record then reads as it was given, keys that start with
  an underscore included, which are never stored.
* `EditInv`: every edit is carried by an op of its call, every data op by an edit;
  a session has its own ops in its outbox or has read them; the ops of a call are in
  the same files and outboxes. That calls travel whole is what makes "the edits a
  session knows" the same as "the edits it holds"; the winner of a field is then the
  latest of them (`LatestEditIsShown`).
* `FitInv`: a field of an entity is never in an outbox or a file of which what every
  struct requires of that entity is not among the files, or among them and that
  outbox. It is inductive because an update loads a live record, and a live record
  has a field (`LiveHasData`), whose insert is therefore near. A session that has
  read all files has thus the insert too, and decodes (`SettledRecordsDecode`).

**The derive macro** (the last part of `RecordsProofs`). The operators on names are
recursive functions and folds. For each, a lemma says what one more character adds:
`SnakeGrows`, `SplitGrows`, `PascalGrows`, `SerdePascalGrows`. That such a recursive
function is what it looks like is proved once (`RecursionExists`, `SameSteps`), and
so is the induction over sequences, in the form of a set that holds the empty
sequence and, with each, those one longer (`SeqSetInduction`).

* `PascalAgrees`: the macro splits a name at its underscores and capitalizes each
  word, serde capitalizes what follows an underscore. After any prefix both have
  written the same, and the last word is empty exactly where serde capitalizes next
  (`LastWord`). The other rules change one character at a time (`RulesAgree`).
  `IdFieldIsTheStoredKey` follows, for every name, rule, rename and mark.
* `SnakeInjective`: a table name does not end in an underscore (`SnakeEnd`), so its
  last one or two characters tell whether the last character of the struct's name
  was upper case, and the rest is the table name of the rest. `DefaultTablesDiffer`
  follows. For names with underscores of their own it is false.
* `TypedLayerKeepsRecords` carries the theorems on typed records over to the run's
  specification.

Hypotheses beyond the assumptions on constants.

| hypothesis | theorems | why |
|---|---|---|
| `~TxCollides` | `TransactionsAreWhole` | two sessions that draw one id share a transaction, of which each may win fields; ULIDs have 80 random bits |
| `~TxCollides`, or `DrawnOnce` | `WalburgImplementsLog` | ids collide, and a session that crashed, or shares its user, draws one again: its call may write an op that is there already, which `SharedLog` does not call an edit |
| `crashes = 0`, `faults = 0` | `MissingMayBeSkipped`, `NoFileComesBackCut` | what a crashed writer owed is lost, and a medium that fails an fsync promises nothing; runs `faults` and `power_loss` have none of them, respectively |
| `SkipsOnlyNone` | `UpdateIsWhatIsRead` | with another skipped key `update` writes a null that cannot be read (`records_empty`) |
| a field besides the id | `InsertIsWhatIsRead` | an insert of nothing writes nothing (section 4) |
| `WritesEveryField`, `OwnUsers` | `LatestEditIsShown` | an insert does not write a skipped key, and an old value shows (section 4); the history tells sessions by their users |
| `StructsFit` | `SettledRecordsDecode` | structs of one table that require what others skip, or null where others refuse it, are what `Table::invalid` is for |

The tables of run `records` satisfy those on structs, but for `WritesEveryField`: in
the one whose option is skipped, `LatestEditShows` says nothing.

Only model-checked are `EventuallySeen` and `PurgeErodes`: liveness under fairness,
which with `ENABLED` is out of this prover's reach. Every safety property of the
passing runs is a theorem. The induction theorems of the library take an operator
as a parameter, which the provers cannot instantiate; the inductions here are over
sets instead, from the theorem that a set that is not empty has a least element of
a well-founded relation (`WFMin`), for naturals, sequences and finite sets.

## 6. Not modelled

* `examples/wal_exporter.rs` makes one `sync` and rebuilds a database in one
  transaction of SQLite, which is external. `examples/wal_tail.rs` repeats the
  listing, reading and retrying of `WalReader` and prints, without merging
  anything; `examples/records.rs` is a script of calls that `Records` covers. The
  tests and the CI files check the program; the oracle of `tests/common/mod.rs` is
  stated in `MergeState`.
* The text form of values, op types and users: no decision reads it, but for
  whether a line parses (`WalFile`). A float that does not survive its text
  (`eavc.rs:48`) is listed as a hazard.
* fsync that is refused or switched off: nothing can be promised then, as the
  mutants of `power_loss` show. The entry of the WAL directory in its parent,
  which is never fsynced (`wal.rs:54`).
* serde on field names that are not snake_case ASCII, where its rules and the
  macro's differ; an explicit `#[record(table = "..")]`; the generated code.
* Transactions as units beyond `TransactionsWhole`: two transactions that set
  different fields both show, each with the fields it set.

## 7. Plan

The order is that of importance: what every reader relies on first (merging, then
the directory), then what single callers rely on.

1. Done: `Eavc`, `Merge`, `MergeState`; `WalDir`, `Store`, `Compactor`, `Walburg`;
   `TxClock`; their runs; the theorems above.
2. Done: `Records`, `DeriveRecord`, `Typed`; `WalFile`, `TornFiles`, `PowerLoss`,
   `Erosion`; `SharedLog` and the refinement `WalburgLog`; `WalFileProofs`.
3. Done: the theorems of section 5, among them every safety property of the passing
   runs.
4. What is left: liveness, which only TLC checks; names outside ASCII in
   `DeriveRecord`, where neither case changes nor rules are one to one; and a log
   that allows an op to be written twice, for crashes together with colliding ids.
