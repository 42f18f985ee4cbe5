# Autocapture NX: TLA+ models and proofs

Autocapture NX records what happens on a desktop (screen, audio, input, window
titles) as encrypted local evidence, keeps a journal, a hash-chained ledger and
anchors of it, and answers queries over it. Everything but a small kernel is a
plugin. This directory models the parts in which state outlives a step: what is
on disk when a process dies, what two threads or two processes do to the same
file, and what a plugin call does to the process it runs in.

## The system

| part | state | operations | who calls it |
|---|---|---|---|
| `kernel/keyring.py` | `keyring.json`; a `KeyRing` object per process | `load` (creates the first key), `rotate`, `save` | the storage plugins at boot, `rotate_keys` |
| `plugins/builtin/storage_encrypted` | one file per metadata record, one per media record, one for the entity map | `put`, `get`, `keys`, `rotate` | samplers, queries, sanitizer, `rotate_keys` |
| `kernel/key_rotation.py` | none of its own | `rotate_keys`: new key, rewrap three stores, ledger entry, anchor | `autocapture keys rotate` |
| `ledger_basic`, `anchor_basic`, `journal_basic` | three append-only files; the last hash and the next anchor number in memory | constructor, `append`, `anchor` | samplers, `rotate_keys` |
| `capture_windows`, `audio_windows`, `window_metadata_windows` | a thread each, a stop flag, a counter, the frames of a segment | `start`, `stop`, the loop | `autocapture run` |
| `backpressure_basic` | the time of the last change of rate | `adjust` after every frame | `capture_windows` |
| `input_windows` | two listener threads, one counter | `start`, `stop`, two callbacks | `autocapture run` |
| `plugin_system/runtime.py`, `CapabilityProxy` | two functions of the `socket` module | `network_guard` around every capability call | every caller of a capability |
| `plugin_system/host.py`, `host_runner.py` | a child process, two pipes, a request number | start, `call`, `close`; the runner's loop | `CapabilityProxy` of a hosted plugin |
| `plugin_system/registry.py`, `kernel/loader.py` | the capability table; the effective configuration | discovery, checks, loading, meta plugins | boot |
| `kernel/config.py` | `user.json` and its one backup | load and merge, reset, backup, restore | boot, `autocapture config` |
| `kernel/query.py`, `retrieval_basic`, `time_advanced`, `answer_basic`, `citation_basic` | records gain a `text` field | time phrase, search, extraction on demand, second search, claims | `autocapture query` |
| `egress_sanitizer`, `egress_gateway` | entity map, the entity key | sanitise, leak check, detokenise, send | callers that leave the machine |
| `storage_sqlcipher` | a database under the active key | as storage_encrypted, with `PRAGMA rekey` | alternative to storage_encrypted |

The parts meet at four places. Samplers write a sample to the stores, then the
journal, the ledger and the anchors, in an order of their own. A rotation
rewrites, in a process of its own, the files the samplers wrote, and appends to
the same ledger and anchor files. A query rewrites, in a third, the records it
has extracted a text for. Every one of these calls passes through a
`CapabilityProxy` and its network guard.

What is hard about it: files are rewritten in place (`open(path, "w")`), so a
process that dies in a `put` leaves a truncated record or keyring; a sample is
five writes and a rotation is many; counters, hashes and keys are remembered in
memory and read from disk only at boot; samplers are daemon threads the main
thread stops waiting for after five seconds; the network guard replaces
functions that all threads share. What makes each part correct:

* keyring and stores: no record is under a key that is not on disk; a rotation
  changes nothing a reader can see; once recorded it is complete; it ends.
* ledger and anchors: one chain, one numbering, across restarts.
* samplers: what the ledger or the journal cites was stored before, and nothing
  damages it but a later process that dies while it writes that very file; the
  journal has no gap, and the ledger follows it; a stop ends the process.
* capture loop: a frame is in one segment or, at the end, lost with those held;
  two changes of the rate are a dwell time apart, less what the clock was set
  forward by in between.
* input tracker: no event_id is given twice and no increment lost. (The number
  alone may repeat, between a key and a click.)
* queries: a record has no time and no text of another id, and those of its last
  capture unless a rewriting overlapped with that; an empty answer means there is
  nothing; days are those of the user's calendar.
* sanitizer and gateway: the text is cut without loss; a token that left can be
  turned back, and is the entity's only one.
* plugin host: a reply is the one to the call, until a line the plugin printed is
  taken for one; nothing but printing shifts the pipe.
* network guard: the body of a denied capability call finds the functions replaced,
  that of an allowed one the real ones, however the calls of one thread nest, and
  afterwards all is as before. Code that runs outside such a call is not guarded.

## Modules

| module | what it is |
|---|---|
| `LedgerFile` | the ledger and anchor files with the operations of the two writers; used by `Vault` and `Evidence` |
| `LedgerLines` | the ledger's file line by line, when an append may get only a part of its line onto the disk |
| `Vault` | keyring, encrypted stores and `rotate_keys` |
| `RecordStore` | what the vault promises, without keys or files |
| `VaultRefinement` | the mapping under which `Vault` implements `RecordStore` |
| `VaultProofs` | type correctness and safety of `Vault`, and that it implements `RecordStore`, proved |
| `Evidence` | `autocapture run`: three samplers, the main thread, and a `keys rotate` process that rewraps every stored file |
| `EvidenceProofs` | that stores, journal, ledger and anchors agree, whatever a crash cut off, and that torn lines fork nothing, proved |
| `CaptureLoop` | the capture thread's frames, segments and rate |
| `InputTracker` | the two listeners and their counter |
| `RunSession` | both in one process under `cmd_run` |
| `RunSessionProofs` | the account of frames, numbering of events and dwell time of the rate, proved |
| `TimeIntent` | the parser of time phrases: windows of UTC instants in a zone with a clock change |
| `Query` | `run_query` by several processes, over stores that a sampler fills, and fills anew, and a rotation rewraps; its windows are `TimeIntent`'s |
| `QueryProofs` | its safety and that its windows are local days, proved |
| `EntityScan` | one text: selection among overlapping matches, and the loop that cuts |
| `Egress` | the gateway and the sanitizer over the entity map; its texts are cut by `EntityScan` |
| `EgressProofs` | the cutting of texts by `EntityScan` and the tokens and texts of `Egress`, proved |
| `NetworkGuard` | the guard, statement by statement, with nested calls |
| `NetworkGuardProofs` | its type correctness and safety, proved |
| `PluginHost` | a plugin in a child process: requests and replies over two pipes |
| `PluginHostProofs` | its type correctness and safety, proved |
| `UserConfig` | `user.json` and its backup under `config reset` and `config restore` |
| `Boot` | `Kernel.boot` over whatever `UserConfig` leaves: admission, loading, meta plugins, the second load |
| `BootProofs` | safety of `Boot` and `UserConfig`, proved |
| `MCVault`, `MCEvidence`, `MCLedgerLines`, `MCRunSession`, `MCQuery`, `MCEgress`, `MCGuard`, `MCPluginHost`, `MCBoot` | instances for TLC |

### Vault

`ringFile` and `disk` are the files: `Absent`, `Torn` or a content. `BeginWrite`
is `open(path, "w")`, `EndWrite` the `json.dump` and close that follow it, so
that `Crash` between them leaves `Torn`; `Rotate`/`SaveRing` and
`CreateRing`/`SaveRing` are the same two halves for the keyring. A key is a
number, larger for a later key; a ciphertext is the pair of its key and its
plaintext. `rotate_keys` is the sequence of stages in `pc`: `save`, `meta`,
`media`, `entity`, `anchor`; `todo` is what the listing of `keys()` has left.
`RewrapMeta` writes back whatever `get` returned, `RewrapMedia` skips what it
cannot read, and a truncated record makes either raise (`RewrapFails`), all as
in the code. A rotation is entered only from `idle`: stores are not written by
the process that rotates, which is a command-line process with one thread.

`RecordStore` says what a caller of `put` and `get` may rely on: a record reads
as what was last put; only the death of the process loses anything, at most
the record being written, or everything when it was the keyring. Under
`VaultRefinement` a write counts as done when it begins, and every step of a
rotation is a stutter.

### Evidence

`Plan(t, kind)` is the order of the sinks of a sampler, read off
`_flush_segment`, the audio callback and the window loop; `job[t].step` is where
the thread is. A store write has two halves, as in `Vault`; contents are reduced
to the run (`boot`) they come from, which is what tells an original from an
overwritten record, and to who has truncated the file and not written it (`torn`).
The three threads interleave freely. `ThreadEnds` is an
uncaught exception or the end of the loop: the locals (`seq`) are gone and the
daemon thread is not restarted. `Gone` is the end of the process.

The `keys rotate` process lists the metadata store and then the media store
(`CliList`), reads each file (`CliGet`, or `CliFails` at one that is cut off) and puts
it back, again in two halves (`CliTear`, `CliPut`); only then come the ledger entry
and the anchor (`CliRecord`, `CliAnchor`), in the files of `LedgerFile` and with its own
remembered `head` and `anchorSeq`. It may die between any two of these
(`CliCrash`). What it does to keys is in `Vault`. Where a sampler and the rotation
have the same file open (`Overlap`), what they leave may be mixed (`TornAfter`).
`LastWrite` is what can be said of a file that is cut off: its writer did nothing
after it.

The journal is kept per
thread: events of different threads are told apart by their type, and no
property is about their interleaving. The disk alert is a sample of kind
`critical`, whose payload has a float, which `canonical_json` refuses.

### LedgerLines

A line is the sequence of what was written to it, entries and fragments, and parses if
that is one entry (`Parses`). `AppendLine` is an `append` that succeeds; `TearLine` is
one whose write stops in the middle of the line or before its newline, after which the
process may go on (only the thread that called is lost) or be gone.
`OpenLedger` is the constructor: the last line that parses gives the hash
(`LastParsed`). `returned` is a history variable. One process appends at a time; what
two do is in `Evidence`.

### CaptureLoop, InputTracker and RunSession

`CaptureLoop` looks into what `Evidence` calls one sample. A frame is its number;
`NextFrame` is the body of the loop up to the question whether the segment is
full, and also the look at the stop flag, which comes after the screenshot: that
one and the frames held are dropped. `FlushRefused` is a full disk or any
exception of a sink. `AdjustRate` is `BackpressureController.adjust` as it is
called, with the frames held for a queue depth. Its result never reaches
`iter_screenshots`. `time.time()` may be set: `ReadClock` gives it any value, and two
history variables keep the time that really passed since the last change of the
rate (`held`) and by how much the clock was set forward in it (`skipped`).
`InputTracker` has one stage per statement of a callback that reads or writes
shared state: the number is read (`EventArrives`), the event appended
(`JournalEvent`, or refused, which ends a pynput listener), the counter increased
(`CountEvent`). `stop` tells the listeners and does not wait. `RunSession` puts
the two beside each other in the order in which `cmd_run` starts and stops them.

### TimeIntent and Query

Time is counted in hours. A zone goes over from one offset to another at one
instant, which is all that zoneinfo has to say near one clock change. `Instant`
is `astimezone` of a wall time that exists once, twice or never, and
`DaysAfter` is the arithmetic Python does: a `timedelta` moves the wall time and
forgets the fold. `Parse` tries the phrases in the parser's order; of a query's
text only the phrases in it are kept.

A text of a record is the set of the queries whose wording it contains. `Ask` is
the parse and the listing of keys; `SearchOne`, `ReadRecord`, `ReadMedia`,
`TearRecord`/`WriteRecord` and `Claim` each touch one file once, so that the
sampler, another query and the rotation can come in between; `Fail` is the
exception of reading a file that is cut off. `held` is the record as
read before the extraction, which is what is written back. Two processes may
have one file open for writing: the shorter content leaves the end of the longer
one behind it (`Written`). The engines are given by their results on each capture,
`Fails` included; that also stands for hosted engines, which frames do not reach (see
the findings).

Every `run` numbers from 0 again, so the sampler captures an id up to `Shots` times,
with another hour (`At`) and other contents each time. A writer that read the record of
one capture may write it over that of the next: such ids are `mixed`, as are those of
which a capture was cut short. Samplers, rotations and queries may die in the middle of a
write (`SamplerKilled`, `RotationKilled`, `Killed`); the file stays cut off until the id
is captured again, and whoever reads it raises (`Fail`, `RotateFails`). A query has the
newest key of when it began (`ring`), a record the key it was encrypted with (`sealed`):
a record of a later key reads as `{}`, which has no time. The search lets such a record
pass, whatever the window (`Matches`); the extraction does not (`Within`). `known` is
what an answer vouches for: the records stored and whole when it was asked and not
captured or rewrapped since.

### EntityScan and Egress

A text is a length and the intervals the recognisers matched in it: what the
regular expressions match is left open, any set of intervals. `Visit` is one turn
of `_find_entities` over the sorted matches, `Replace` one of `sanitize_text`.
`Egress` runs the scan once per field (`NextField` to `FieldDone`), with
`_token_for` inside: `TryLonger` for each turn of its loop that meets another
value's entry, `Tokenize` for the one that ends it, which begins to save the
map (`Torn` until `Save`). A digest is a sequence of slices given by a constant
operator, so that digests may collide as they like; past the last slice the loop
goes on without getting longer, as the code's does. `Finish` is the leak check,
the packet and its schema. The packet takes two fields from the payload
unsanitized (`Verbatim`), and the keys of dictionaries in the payload are neither
sanitized nor looked at by the leak check (`DictKeys`); both are among the findings.
That a packet passed the leak check is the guard of `Finish`, so no invariant repeats it. `entityKey` is read once
per process: after a rotation the process goes on with the old one.

### NetworkGuard

`Program` is `network_guard(False)` as the statements that touch the module's
globals: two saves, two patches, the body, two restores. `network_guard(True)`
starts at the body and has nothing to restore. `calls[t]` is the stack of guards
of a thread. `Return` is also the exception that passes through `finally`. A call is one
that goes through `CapabilityProxy`, or a factory: what a plugin does elsewhere (when its
module is imported, in `configure` and `apply` of a meta plugin, in a thread that
`start()` began) has no guard and is no part of the model; see the findings.

### PluginHost

`requests` and `replies` are the two pipes, `serving` the request the runner is
at. `Ask` is `_request` up to the flush: the number is counted, then the
arguments are encoded (or refused), then the line is written (or the pipe is
broken). `Receive` takes the next line for the reply, as the code does, whatever
its id. A line the plugin prints is one more in the pipe: if it is a JSON object it
ends the call that reads it with a result (`ok`) or a `PluginError` (`error`), otherwise
with an exception (`noise`), and the true reply stays in the pipe for the next call.
`printed` counts such lines and the history variable `strays` those that were taken for a
reply. `OwnReply` promises the right answer until the first of those, and after it that no
call gets the answer to a later one; `InSync` has no exception: between calls as many
lines are on their way as were printed. The child may
die in any state; `RunnerDies` is also a result `json.dumps` refuses, which is
serialised outside the runner's `try`.

### UserConfig and Boot

The files of `UserConfig` are those of `Vault`: `Begin...` truncates, `End...` is
the write that follows, and a killed command leaves `Torn`. `Boot` extends it, so
that a boot reads what any sequence of edits, resets, restores and crashes has
left. A configuration is a record of the settings boot looks at; everything
outside `plugins` is `top`, which the schema accepts or not. A user's override is
a record of some of the fields, and `Merged` is `_deep_merge`: `enabled`, the one
dictionary with keys of its own, is merged by key, the rest is replaced. Safe mode
comes from `--safe-mode`, which leaves the user's file out, or from that file itself,
which then counts in full.

A plugin is the index of its manifest, since two manifests may claim one id; the
later one in path order wins (`Wins`) but keeps the place of the first (`IsNext`).
Checks of `load_plugins` that raise (`RefusePlugin`), an entry point that fails
(`EntryFails`) and a configuration that cannot be used end the process, whatever
was loaded before. `_apply_meta_plugins` is modelled with its aliasing: it copies
the outer dictionary only, so a change within `plugins` is also one of
`Kernel.config` (`ChangeInPlace`) until a configurator has returned a copy
(`Copied`, `shared`). `SubprocessPlugin` has no `configure` or `apply`, so a
hosted meta plugin ends the boot (`MetaFails`). One command runs at a time, and
what a plugin offers does not change between loads.

## Runs

| run | expected | what it shows |
|---|---|---|
| `vault` | pass | safety, refinement of `RecordStore` and termination of a rotation, one process, crashes anywhere |
| `evidence` | pass | what ledger and journal cite was stored, and only a writer that died in it has cut it off since; agreement of the files; one chain and one numbering over all boots; Ctrl+C ends the process |
| `ledger_lines` | pass | torn lines leave gaps in what can be read of the ledger, never a fork |
| `run_session` | pass | frames are in one segment each, changes of the rate are a dwell time of real time apart unless the clock is set forward, no event_id twice |
| `query` | pass | a record is its last capture unless a rewriting overlapped with that, an empty answer means nothing is there, days are local days, who keeps asking is answered |
| `egress` | pass | texts are cut without loss, tokens resolve and are stable, every send ends |
| `guard` | pass | nested guards of one thread, over capability calls |
| `plugin_host` | pass | replies match requests until a printed line is taken for one, printing alone shifts the pipe, no call waits for a dead process |
| `boot` | pass | what runs was admitted, safe mode, the capability table, boot ends; a reset or a restore loses nothing |
| `evidence_overwritten` | violation | a second `run` stores its segments over those of the first |
| `guard_threads` | violation | a denied call of one thread finds the functions that the end of another's restored |
| `boot_policy_ignored` | violation | a network permission a policy took away stays with the plugin that is loaded |

The violations are disagreements between the code and its own documents, quoted
under "findings" in `PROJECT.json`. More are listed there without a run:

* found by TLC in the models here, at the properties named, with the constants of the
  run unless others are given:
  a rotation a crash leaves unrecorded (`RotationsRecorded`);
  two processes that fork the ledger (`ChainVerifies`, `Overlap` TRUE);
  a rotation that puts back an earlier run's segment over one the ledger cites by now
  (`LedgerCitesStoredEvidence`, `Overlap` TRUE, three processes);
  a writer that dies in a `put` and leaves cited evidence cut off (`CitedEvidenceIsWhole`);
  a full disk whose alert cannot be journaled (`CriticalStopIsRecorded`);
  an entry written behind a torn line, which cannot be read though its append returned
  (`ReturnedIsReadable`);
  frames that cannot be sent to a hosted engine (`FramesAreSent`);
  evidence of the time asked for that one hit elsewhere hides (`RecentActivityIsFound`);
  a record rewritten in place, by an extraction or a rotation (`RecordsAreImmutable`);
  a torn record that nothing repairs and that makes every later query raise
  (`TornIsRepaired`);
  the token of an IPv4 address, which is not turned back (`DetokenizationRestores`);
  a user's file that switches safe mode on and is not ignored
  (`SafeModeOfTheFileHolds`);
* read off the code, with the property they are about:
  `MetaPluginsAreAsked` (a hosted meta plugin ends the boot); `OutboundIsSanitized`
  (two fields of the packet, the token map with its values, and the keys of
  dictionaries); `DeniedCallsAreBlocked` (code of a plugin that runs outside guarded
  calls); and, next to `BoundedToggles` and `WindowsAreLocalDays`, what the code around
  them does: the rate reaches nobody, a single date lasts 24 hours on a day of 23 or 25,
  and a `today` that keeps the fold of the hour it is asked in.

`WindowsAreLocalDays` therefore speaks of `today`, `yesterday` and `tomorrow`
asked in an hour that does not come for the second time, and of `between`.

Bounds, and why they suffice:

* `vault`: two metadata records, one media record, the entity map with one
  token, two values, three keys. Two records make the order of rewrapping and
  "some done, some not" visible; three keys are a first key and two rotations,
  so that a second rotation meets what a crash in the first left (torn records,
  records under both keys). Crashes and boots are unbounded. One process: the
  operator is told not to rotate while something else runs
  (`docs/assumptions.md`, 3), and with two the stale keyring and entity map of the other
  break the refinement, which no document promises.
* `evidence`: two processes (`MaxBoots`), which is what reuse of sequence
  numbers needs; two samples per run shared by three samplers (`MaxSamples`),
  enough for a thread to be interrupted in its second sample and for two
  threads to be inside one at once. Either process may be a rotation, which goes
  through every file there is. `Overlap` is FALSE here: with it the two
  processes fork the chain, and a rotation may put back what a sampler has replaced. `IOFaults` lets any thread die at any step.
* `ledger_lines`: five entries, so that two lines are torn, one after the other or apart,
  with an entry before, between and behind. Runs and crashes are unbounded.
* `run_session`: four frames in segments of two ticks, with a clock that reads
  any value from 0 to 3 at each of them, while one tick really passes at most
  (`MaxPause`): a segment of one frame, of several, one left unflushed, a clock set back
  or forward within the dwell time of two. Two frames are more than
  the queue holds, so that the rate goes both ways. Three events of two listeners
  are enough for one to overtake the other twice.
* `query`: one segment only OCR can read, captured twice with two texts (`Shots`), and
  one window without a title; two processes, one of which asks for yesterday; one record
  extracted per query, one rewrapped; one mishap (`MaxMishaps`): a record captured anew, a
  rotation, or a death. That is every pair of writers on one file, each kind
  of damage by itself, and a limit that is reached. The theorems have no such bound. Days of two hours make
  clock changes at every hour of the day small; the zones checked go forward or back at
  noon and at midnight.
* `egress`: texts of three letters with any of four overlapping matches of two
  kinds, a payload of two fields, digests that agree in the first of two slices,
  two keys; one payload has its text once more as the key of a dictionary. A third
  entity or slice repeats a step the theorems cover.
* `guard`: nesting to depth five; a deeper stack repeats the same situation, and
  the theorem covers every depth.
* `plugin_host`: five requests, the listing of capabilities and four calls, so that a call
  can fail in one way and the next two show what it left; two printed lines of
  any kind, so that a call can read one and leave another. One caller, because the commands that call
  hosted plugins have one thread.

* `boot`: six manifests, one of them an unlocked second one of an id; a plugin
  whose dependency comes after it, one with two entry points, two that offer the
  same capability, one with the network, and one meta plugin of each kind. Seven
  overrides open every way to refuse, fail or reload a boot; the proposals add
  and take permissions, disable a dependency, and change or break another
  section. Boots and commands are unbounded.

Deadlock checking is off where the system may stop: a vault whose keyring is
torn cannot be booted again, and the bounds on keys and boots end a behaviour.

Fairness. A rotation that has begun goes on while its process lives, and so does
a write (`Fairness` of `Vault`): `rotate_keys` is straight-line code with no
wait in it. In `Evidence` only the main thread is fair, and its join has a
timeout: nothing is assumed of the samplers, which may hang in a device call.
In `Egress` a send that has begun goes on
while its process lives (`Sending`), for the same reason. In `Query` so do, while their process lives, a query and
whoever has begun to write a file (a death is a step that may always come), and, for `AskedAgainItIsFound` only, the
user goes on asking the same question (strong fairness, because a query under way
disables the next): that is the property's hypothesis and not one about the
code. It promises nothing once a record is captured anew or a file is left cut off
(`Orphaned`), which is the finding on `TornIsRepaired`. `RunSession` has no fairness.
In `Boot` the steps of a boot are fair: it is straight-line code, and factories
and meta plugins are taken to return. In `PluginHost` the runner and the reading caller are fair: a method that never
returns makes its caller wait for ever, for the code has no timeout, so that
`CallReturns` is about everything else that could keep a caller waiting.

## Proofs

Every invariant the passing runs check is also a theorem, and so is the
refinement; what stays with TLC is at the end of this section.

`VaultProofs` and `NetworkGuardProofs` prove, for one process and for one thread,
and for every value of the other constants:

* `VaultTypeOK`, `KeysAreSavedFirst`, `RecordedRotationsAreComplete`: the three invariants of the run `vault`;
* `ProvenanceInOrder`, `AnchorsInOrder`: rotations, too, leave one chain and one
  numbering (checked by the run `evidence`, whose second process is a rotation);
* `VaultIsARecordStore`: every step of `Vault` is a step of `RecordStore` or a
  stutter, under the mapping of `VaultRefinement`;
* `GuardSafety`, `PermittedCallsConnect`: those of the run `guard`, that the
  state is well-typed, and that at rest the functions are the real ones
  (`RestoredAtRest`).

`EvidenceProofs` proves the seven invariants of the run `evidence` and the type
invariant, for any number of boots and samples. `EvidenceTyped`, `JournalHasNoGaps`,
`LedgerAgreesWithJournal` and `LinesAreAnchored` hold whether
or not the two processes overlap; `LedgerHasItsEvidence`, `JournalIsBacked`,
`ChainAcrossRuns` and `AnchorsAcrossRuns` have
`~Overlap` for a hypothesis: without it the chain forks, and a rotation may put
a segment of an earlier run back over one that the ledger cites by now. `GapsNeverFork` is the
invariant of the run `ledger_lines`, for any number of entries.

`RunSessionProofs` proves `FramesAreAccounted`, `EventsAreCounted` and
`TogglesAreBounded`, for any rates, settings of the clock, pauses, length of a segment and
bounds, under `CaptureAssumption`. The last is about real time: the dwell time is kept,
less what the clock was set forward by.

`QueryProofs` proves `RecordsStayCaptured` and `NothingIsOverlooked`, for any records,
numbers of captures, engines, titles, questions, limit, zone, number of processes and
deaths of them, and `DaysAreTheUsers`, for any length of a day, zones and
instants. The assumptions are `QueryAssumption`, `TextAssumption` (what
engines and titles say are texts; the markers of a file are no records) and
`TimeAssumption`: a change of the clocks skips or repeats no midnight from within,
though it may begin or end at one. Where it does, the day is not an interval, or
begins before the instant the code takes for its midnight.

`EgressProofs` proves `TextIsTiled`, for texts of any length and any set of
matches, carries it over to every field of every payload (`FieldsAreTiled`), and
proves `EgressTyped`, `SentTokensResolve` and `TokensAreStable`, for any payloads, recognisers, digests and keys. The
assumptions are `ScanAssumption` and `EgressAssumption`, that a match lies in its
text and is not empty, and `ConfigAssumption`, that a configuration is one.

`PluginHostProofs` proves `RepliesMatchRequests` and `PipesStayInSync`, the two
invariants of the run `plugin_host`, for one caller, any number of requests and
any printed lines; the first also says that a call is told the plugin is gone
only when it is (`LostMeansDead`).

`BootProofs` proves `BootSafety`, the five invariants of the run `boot` and that
what is loaded was loaded under the configuration shown (`LoadedAsConfigured`),
for any manifests, overrides, proposals and grants; `SafeModeIsThePack`,
`TableIsOfTheLoaded`, `WrittenIsNeverLost` and `DependenciesAreThere` are its parts.
It assumes of `config/default.json` (`BootAssumption`) that it has no search path
and allows no meta plugin, as it is shipped; that is what keeps safe mode safe
through the second load.

The other assumptions are those of the modules (`VaultAssumption`,
`LostAssumption`, `SentinelAssumption`, `GuardAssumption`, `HostAssumption`,
`EvidenceAssumption`, `AbsentAssumption`), which, like those named above, TLC
evaluates on its runs. The theorems of `Vault`, `NetworkGuard` and `PluginHost`
have one process, thread or caller for a hypothesis: with two they are
false, as the run `guard_threads` shows for the guard and the finding on the forked
ledger for the chain. Those of `Evidence` (but for the four with `~Overlap`), `Query`
and `RunSession` have no such hypothesis.

### The inductive invariants

`KeyOnDiskFirst` and `RecordedRotationIsComplete` are not inductive. The
invariant `IInv(p)` adds what ties memory to disk: outside the two saving stages
the process's ring is the one on disk, its active key is the newest, and every
record and pending write is under a key of that ring; and, stage by stage, what
the rotation has already rewrapped: a store whose turn is over has nothing under
an older key but what is still in `todo`. The two parts need each other: a
rewrap reads through the ring, so every record can be read and none is left
behind, and the entry is written only when all three stores are done.

The refinement adds `MapInv`: a vault that is up has in memory the entity map its
file reads as, a write under way has truncated the file it is for, and a rotation
has only records before it that exist. With `AllReadable`, that every whole record
opens under a key of the ring, a rewrap puts back what was there and is a
stutter. Only where a record cannot be opened would it put back nothing, and
that is a state the invariant excludes.

For `Evidence`, `EvidenceInv` follows each thread through its plan. Everything a
sample has been through has it (`Passed`); an event is complete, in stores and in
the ledger, or the last of its boot (`EventsInv`); the counter of a live thread is
the number of its events in this boot, less the one it has journaled and not
finished (`CountInv`); a file is of a boot that has been (`FilesInv`), and a rotation
writes back the boot it read (`CliInv`). That the
next event has the right number is then a matter of cardinalities, and that it may
overwrite an older boot's file harms nothing, because `Holds` asks only for a file
of that boot or a later one. Where two processes may overlap, the parts on files are
dropped (they are conditional on `~Overlap`), and what is left still carries the
properties of journal and ledger. `LinesInv` says that of the lines of the process that is up
all are anchored but the one in the capture thread's hands. A second invariant,
`TornInv`, is about files that are cut off. One that its own sampler cut off is the
last thing that sampler wrote (`OwnInv`); one that another process cut off is the only
one of that process, which has no line in the ledger and is at that file if it lives
(`RotationInv`); and a rotation is the origin of no content (`UnusedInv`), so that the two
cases cannot be confused. Together with `EvidenceInv` they give `Kept`. For the chain,
`ChainInv` adds that a process that is up remembers how the two files end
(`Remembers`), which one appending beside it would break, and that a line about to be
anchored is above all that are.

For the lines of the ledger, `FileInv` says what the process that is up remembers:
nothing before the last line that can be read (`KnowsTheEnd`), unless that line lacks its
newline. Such a line may hold an entry whose append raised, so that the next entry is
chained to the same one before it; but the next entry is written onto that line, and
neither can be read. That is why there are gaps and no forks.

For the frames, `FramesInv` is `FramesAccounted` with the types it needs and the
fact that a segment due for a flush has a frame; the last frame of the last
segment (`LastIn`) is what ties one segment to the next. For the rate, `RateInv` says that
the clock has gone on, since the last change, by no more than `held` and `skipped`
together, however often it was set: so when the code sees the dwell time over, their
sum is at least that.

For the guard the invariant describes the whole stack: what a call saved for a
function is what the calls below it imply, and the current value is what the top
call's step implies. For the host it counts: on the way are the lines printed, and one
more while a call waits (`Counted`). That holds whatever was printed. Until a printed line is taken
for a reply (`strays = 0`), it also says where the one request under way is:
unread, being served, or answered by the only line that is no printed one (`InStep`).
For boot it says that the plugin being loaded was cleared under the
configuration of the load, that the table follows `loaded` at every moment of it,
that an enabled plugin is loaded or still ahead (`NoneForgotten`), and, command by
command, in which of the two files the user's configuration still is.

For a text, `ScanInv` says that what was selected lies apart and in order, that
every match already visited starts inside a selected one (`ChosenApart`), and that
the pieces so far reach to the end of the last entity replaced: a match that
was not selected therefore loses at least its first character to a token. For
tokens, `TokenInv` says that memory and, when it is whole, the file have every
token that left, one entry for each token, and that a token is the first of its
entity's that no other value had (`FirstFree`). The map only grows, so that the
first free one stays the first: this is why an entity never gets a second one.

For queries, `QueryInv` says of the stores that what a record holds, and what a writer
has in its hands to put back, is of some capture of that id, and of the last one
unless the id is `mixed` (`Proper`). It says of each user what it holds (`HoldsRecord`), that the
records its answer would vouch for are undisturbed (`Vouched`), and that of these a
relevant one is found, still ahead, in its own hands, or has its text (`NothingMissed`).
The delicate steps are the other processes': two extractions write the same text
over each other; a rotation may write back a record without its text, and a capture
replaces it altogether. Both take the record out of `known` when they read or begin, and
since only ids outside `mixed` were in it, no older writer of it is left. The windows need
no invariant: `MidnightBeginsDay` says that the instant the parser takes for a
midnight is the first of its day, wherever the change of the clocks falls. For the
listeners, `ListenersInv` bounds the numbers of the events of each by what it has in
its hands (`Bound`): the counter the other one increases never falls below it.

Model-checked only: liveness (`RotationEnds`, `StopTerminates`, `SendEnds`,
`CallReturns`, `BootEnds`, `AskedAgainItIsFound`), which is beyond the prover.

## Not modelled

What could be added, in the order of its worth:

1. Two processes that share an entity map (the one that saves last overwrites
   the other's tokens), and torn lines of `anchors.ndjson` and `journal.ndjson`:
   the next anchor counts a torn line and is written onto it.
2. Validation of the configuration rule by rule, and `doctor`'s report on what
   `Boot` leaves.

Left out of the modelled parts:

* a torn last line of the anchors or the journal, and in `Evidence` and `Vault` of
  the ledger (appends are one step there; `LedgerLines` is about them);
* the thread PortAudio runs the callback in (its death is the sampler's);
* the legacy root key and DPAPI (a first key is a first key, wrapped or not);
* `entity_map.persist = False`; two record ids that differ only in `/` and `_`;
* in `Query`, the media a rotation rewraps after the records: whether a process that
  began before it can still read them is left open (`Readings`);
* in `Evidence`, the entity map and the keys of a rotation, which are in `Vault`;
* the order of the results of a search, and its score, which is the same for all;
* the sanitizer's scope, which is another part of the digest's input, its
  glossary, and what the packet's schema demands of the rest of a payload;
* what the recognisers' and the time parser's regular expressions match;
* the journal payload of an input event and `idle_seconds`, which follows from its time;
* `capture.stop()` returning by its timeout and by the thread's end are one step.

Not modelled as a whole:

* `storage_sqlcipher`: `_connect` executes `PRAGMA key = ?` with a bound
  parameter, which SQLite's grammar does not have; the statement raises and the
  store cannot be opened. There is no behaviour of `PRAGMA rekey` beside the keyring
  to model until that changes. Its media store is the one of `Vault`.
* `time_basic`: a subset of `time_advanced` that the default configuration does
  not use. `runtime_governor`: a function of three signals that nothing calls.
* the OCR, VLM, embedder, reranker and capture stubs, the calls into Windows, the
  in-memory storage for tests, and the development tools: wrappers, dictionaries
  and offline scripts, with no state that outlives a call of theirs or is shared.
