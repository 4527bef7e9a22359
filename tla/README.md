# Formal models of gemini-skill

TLA+ modules, TLC configurations and TLAPS proofs for the parts of
gemini-skill where order, failure and concurrency decide whether the program is
correct: the locked state files, the chat and review sessions kept in them, the
daily total of costs, the path of an API call through two transports, retries and
fallback, the commands that poll a long operation, the installer, and one whole
invocation: launcher, environment, policy, argument parser, adapter, live
session.

Paths are relative to `src/`. `PROJECT.json` maps every definition to the lines
it models.

## 1. The system

gemini-skill is a command-line program. Each invocation is a short-lived
process: `scripts/gemini_run.py` starts `core/cli/dispatch.py`, which applies a
policy and runs one *adapter*. An adapter builds a request, sends it through
`core/infra/client.py` -> `core/transport`, and prints the result. What lasts
longer than a process are JSON files under `~/.config/gemini-skill`, so that
several invocations (two shells, two agents) meet in those files. The session
files are the only ones that an adapter uses so far: `file_state.py`,
`store_state.py` and `cost.py` are libraries that only the tests call.

| component | state | operations | who calls it |
|---|---|---|---|
| `core/infra/filelock.py` | a lock file, its kernel flock | acquire by polling to a deadline, release | every state class, the cost tracker |
| `core/infra/atomic_write.py` | a temporary file per writer | write, `os.replace`, unlink on error | every state class, cost tracker, installer, `config.py` |
| `core/state/file_state.py` | `files.json` | save, remove, clean up expired records | its tests only |
| `core/state/store_state.py` | `stores.json` | create/remove a store, add/update documents | its tests only |
| `core/state/session_state.py` | `sessions/<id>.json` | create, append, end, read, most recent | text chat, plan review |
| `adapters/generation/text.py` | program counter around an API call | one turn of a chat | the user |
| `adapters/generation/plan_review.py` | the conversation in memory | REPL, model failover | the user |
| `core/infra/cost.py` | `cost_today.json` | record a cost, read the total | its tests only |
| `core/transport/coordinator.py`, `policy.py` | none between calls | gate, primary, fallback | facade |
| `core/transport/raw_http`, `core/transport/sdk` | retry counter, open stream | requests, retries, error mapping | coordinator |
| `core/cli/install_main.py`, `core/cli/installer` | the installation, `settings.json` | overwrite, manifest, venv, settings merge | the user |
| `scripts/gemini_run.py` | the interpreter it runs in | bootstrap, re-exec into `.venv`, dispatch | the user |
| `core/infra/runtime_env.py`, `core/auth/auth.py` | `os.environ`, four files | merge the sources, find the key | launcher, adapters |
| `core/cli/dispatch.py`, `core/adapter/helpers.py`, `core/routing` | none between calls | policy on the raw tokens, argparse, dry-run check, saving a result | launcher |
| `adapters/generation/live.py` | an open session and its stream | connect, send, receive one turn, close | dispatcher |
| one-shot adapters (`imagen`, `files`, `cache`, `batch`, ...) | files they write | one call, save, print | dispatcher |
| polling adapters (`deep_research`, `video_gen`, `file_search`) | a remote operation | start, poll, resume | the user |

How they interact: adapters call the state classes and the facade in sequence
within one process; processes interact only through files and locks; the
transport and the server interact through requests whose answers may be lost.
There are no threads in the modelled parts; the live session is one coroutine,
which Ctrl-C cancels where it waits.

What is hard about it:

* *interleaving of processes* in the lock, in the read-modify-write of a state
  file, and in the sequences look up / call the API / append twice;
* *partial failure*: an exception, a `KeyboardInterrupt` or a kill between two
  file operations, a short `os.write`, one of two appends failing, and a read that
  fails and is taken for an empty file, which the write under the same lock then
  makes true;
* *stale state*: the history sent is not the one appended to; the date is asked
  for twice;
* *retries*: two retry mechanisms (in the raw client, between the backends)
  around a request that the server may have performed;
* *interruption*: an installation may be killed at any step, and the next one has
  to cope with what it left;
* *two readers of one command line*: the policy scans raw tokens, argparse reads
  them again by other rules, and the registry says what the parsers should know;
* *start-up*: four files are read one by one while others write them, and again
  after the launcher has replaced itself;
* *time*: limits and intervals at their edges, an operation that ends while the
  command that waits for it sleeps.

The full list, at its lines, is under `hazards` in `PROJECT.json`.

What makes each component correct:

* lock: mutual exclusion; nobody dead or gone holds it; a finite timeout is kept;
* state files: every call takes effect at once or not at all, on the document
  that is current (on the empty one where its read failed); a live record goes
  only when somebody asks; nothing removed comes back;
* sessions: what was saved stays, answers follow their questions, what was sent
  is what was saved; a REPL remembers what it saved;
* cost: nothing recorded is forgotten, but by a failed read or a torn write; a day
  has the costs of that day;
* transport: bounded number of requests, a refused or answered call is not sent
  again, success means an answer, an error carries the last status, calls end;
* polling: a report is of an operation that is over, a timeout hides no result
  that came in time, every command ends in time;
* installer: an installation that runs to its end is complete whatever came
  before, the health check vouches for nothing incomplete, the backup of the
  settings stays, and of the settings what nobody chose to replace;
* launcher and environment: it replaces itself once at most, the last source that
  holds a key wins, no command runs on a file that could not be read;
* dispatch: nothing is changed without `--execute`, the policy stops exactly the
  calls that the adapter would stop, a path is printed only of a whole file;
* live session: it prints one turn, ends with it, and closes everything.

## 2. Modules

```
FileLock ── LockedJson ──┬── FileState ── MCFileState
   │            │        └── StoreState ── MCStoreState
   │            └── Abs: AtomicStore (refinement)
   └── MCFileLock
SessionState ──┬── TextChat ── MCTextChat
               └── PlanReview ── MCPlanReview
CostTracker ── MCCostTracker
FallbackPolicy ── Transport ── MCTransport
Polling ── MCPolling
Installer ── MCInstaller
CommandLine ──┐
RuntimeEnv  ──┴── Dispatch ──┬── Invocation ── MCInvocation
                LiveSession ─┘
proofs: StateFiles_proofs (FileLock, LockedJson, FileState, StoreState),
        TextChat_proofs, PlanReview_proofs, CostTracker_proofs, Transport_proofs,
        Polling_proofs, Installer_proofs, Invocation_proofs
```

**FileLock** (`filelock.py`). `OpenLockFile`, `SetDeadline`, `TryLock`,
`GiveUp`, `Unlock`, `CloseLockFile` are the steps of `_acquire` and `_release`;
`holder` is the kernel's flock table, and `LockCrash` what the kernel does with a
dead process. The four kinds of timeout are the four branches of the deadline
(`None` raises a `TypeError`: `DeadlineTypeError`). Time is abstract: a deadline
passes at any moment (`DeadlinePasses`). A failed attempt followed by a sleep
changes nothing and is a stuttering step.

**LockedJson** (`atomic_write.py` and the `with FileLock` blocks of the state
classes) composes the lock with load, change, `mkstemp`, `os.write`,
`os.replace` and the exits: return, exception or `KeyboardInterrupt`
(`WriteFails`), kill (`Crash`). It is parameterised by the calls (`Ops`, `Apply`,
`Saves`) and documents. A file that does not parse loads as the empty document,
and so does a good one whose read raises an `OSError` (`LoadError`; the caller is
then in `unread`). `ShortWrites` says whether `os.write` may write less than it
was given; its result is not looked at (`atomic_write.py:47`). `temp` is the
temporary file that a caller is still writing. One that a failed or killed caller
leaves behind (the unlink may fail too, `atomic_write.py:60`) has a name that
nobody opens again, and is not kept.

**FileState**, **StoreState** give the calls and the documents of the two state
classes. A record of a file is its expiry; payload is left out.

**AtomicStore** is what the state classes promise: a call takes effect at one
instant on the current document, or raises and has no effect; a caller that
cannot read the document (`Misread`) takes effect on the empty one
(`BlindEffect`), or has nothing to save of it (`Overlook`). `LockedJson`
implements it under the mapping `Abs` (`IsAtomic`).

**SessionState** (`session_state.py`) has the frame of the method that a process
is in (`frame`), so that the methods of several processes interleave at lock,
load and write. The lock is one step here and a timeout a possible outcome:
FileLock shows that this is what the polling amounts to. A write is one step:
LockedJson shows it. **TextChat** (`text.py`) and **PlanReview**
(`plan_review.py`) compose it with the adapter's control: look up, create or read,
call the API, append the question, append the answer; for the review also the
REPL, `contents` in memory, and the failover over `Models` default models, which
covers *every* exception of an attempt, the appends included. In both, `Crash`
kills a process anywhere and `End` is somebody who ends a session. An append whose
read fails (`LoadError`) saves its message alone, and a short write (`WriteLess`)
leaves a history that loads as empty. `wiped` holds the sessions whose history is
lost in one of these ways, that were ended, or that were created anew over a
history, and the claims about histories are made of the others: a read error is
not among the promises, it is what section 5 says of it. `AnswersFollowQuestions` and
`SavedMessagesStay` belong to SessionState, because both adapters have to keep
them.

**CostTracker** (`cost.py`) is `record_actual_cost` by several callers:
`ReadDaily` and `WriteDaily` each ask for the date; a read that fails counts as
0.0 (`ReadError`), so that the write forgets what was there. The history variable
`spent` has what was recorded on each day since the code last started from
nothing in this way, or a torn write lost it; `straddled` which days began while a
caller stood between its read and its write. `check_daily_limit` only reads, and
nothing calls it around an API call, so that no limit is modelled.

**FallbackPolicy** (`policy.py`, `errors.py`, the status rules of the raw client
and of the SDK wrapper) is pure; **Transport** follows one call: facade and gate,
primary backend, local errors before anything is sent, the raw client's retry
loop or one SDK operation, streams, the failure handler, the fallback. A server
reply is an answer, an answer nobody can read, an error status, a bad
certificate or silence; `performed` counts what the server may have done.
`AwaitsSdk` is a call that waits for a request of the SDK, which has no timeout of
the program's.

**Polling** (`deep_research.py`, `video_gen.py`, the upload of `file_search.py`)
runs one command after the other: start, print the id, poll while there is time,
download. Calls and sleeps take time; how long the operation will take and how
it will end is drawn when it starts, so that a call may see it before or after
its end. A call is abstract: it answers within `MaxCall` or raises. That it ends is
an assumption where the SDK makes it (`CallsEnd` of Transport). Negative and zero limits and intervals are among the values.
The clock is assumed not to be set while a command runs.

**Installer** (`install_main.py`, `core/cli/installer`, `checksums.py`, the
manifest check of `health_main.py`) has one action for each file operation and
each question of `main`: `Ask`, `CleanEntry`, `Copy`/`CopyTree`/`Copied`,
`ListFiles`/`HashFiles`/`Record`, the steps of the virtual environment, the
migration of `.env`, the key prompt, and read, backup, resolve and write of
`settings.json`. Files are versions (`"old"`, `"new"`, `"torn"`), values of
settings are where they come from (`"user"`, `"legacy"`, `"typed"`, ...), those that
are no strings are `"odd"`, and `Text` is the `str()` that `merge_settings_env`
applies to all it found. The legacy `.env` may hold any key. `Die` ends an installer
anywhere; `Fail` is an exception nobody catches. That the `rmtree` of a broken
`.venv` works is assumed (`install_main.py:275` ignores its errors): `ProbeVenv`.
History variables remember the settings before any installer (`original`), the keys
for which the user typed or chose another value (`decided`) and whether the manifest was written by an
installer that was alone (`sound`).

**RuntimeEnv** (`gemini_run.py`, `runtime_env.py`) is the launcher:
`StartBootstrap`, one `ReadSource` for each of the four files, `ApplyEnvironment`
into `os.environ`, then `ReExec` into `.venv` (which starts all over with the
environment it inherited) or `CallMain`. `Edit` and `SourceVanishes` are others
who write or remove a file at any of these steps. A path and the interpreter that
it resolves to are two things: the comparison of `_maybe_reexec_under_venv` is of
the latter.

**CommandLine** (`dispatch.py`, `capabilities.json`, the parsers of all adapters)
is pure: `ActionToken`, `IsMutating` and `Policy` are the dispatcher's reading of
the tokens, `Parse` is argparse's, token by token (`Read`) with the parser of the
command or, behind its action, of the action; the privacy flag never reaches it. Words have no content but "empty";
`--own` stands for the options that only one adapter has; that it takes a value, and
that `structured` requires its `--schema`, is decided alike for all commands, since
no property depends on it. `Parse`, `ActionToken`
and `IsMutating` were compared with the program's own parsers and functions on
162,509 command lines, without a difference; lines that end in `--` were left
out, because Python versions disagree about them, and are left out of the run.

**Dispatch** (`dispatch.py`, `adapter/helpers.py`, `auth.py`, the one-shot
adapters) follows a command: `Start`, `EnforcePolicy`, `ParseArguments`,
`RunOperation` with the adapter's own dry-run check, a missing key or SDK, the
call, and `SaveFile` for each file of the answer. The registry is read twice, and
each time it may be unreadable, which counts as empty.

**LiveSession** (`live.py`) is one turn against a server that sends messages,
completes the turn, ends the stream, or falls silent; `Interrupted` is an error or
Ctrl-C at any await. **Invocation** composes launcher, dispatcher and session in
one process: a key that `RuntimeEnv` has found is the key of `Dispatch`, the
interpreter decides whether the SDK can be imported, and `SessionReturns` ends the
command with the session.

Definitions whose comment begins with "Mutant of" are plausible bugs of the
definition they name; the runs find each of them.

## 3. Runs

| run | instance | shows |
|---|---|---|
| `lock` | 3 callers, all timeout kinds | `MutualExclusion`, `HolderIsInside`, `BoundedWait` |
| `files` | 2 callers, 2 ids, 2 expiries, clock to 1, failing reads | the protocol implements `AtomicStore` (`IsAtomic`); loaded documents stay current; a live record is kept |
| `stores` | 2 callers, 1 store, 2 documents, short writes, failing reads | `NothingResurrected`; every call returns (`CallsReturn`) |
| `chat` | 2 processes, 1 session that may not exist and may be ended, 2 turns each, failures and crashes | `AnswersFollowQuestions`, `SentWasSaved`, `SavedMessagesStay`, `AppendsKeepHistory` |
| `review` | a REPL with 2 proposals and a one-shot reviewer with 1, 2 models, failures, kills, and a session that may be ended | `SavedConversation`, `MemoryIsComplete`, `ReviewsEnd` |
| `review_failover` | 1 reviewer, 3 models | finding: a proposal is saved twice |
| `cost` | 3 callers, 2 costs each, of 1 or 2, over two midnights, failing reads, short writes | `NeverUndercounts`, `ResetsAtMidnight` |
| `transport` | 3 retries, statuses 400 401 429 500 504, streams of 2 chunks, all calls and configurations | the transport properties and `CallsEnd` |
| `polling` | limits -1, 0, 1, 4 and 5, intervals -1, 0, 2 and 3, calls of 1 or 2 ticks, operations of 0 to 5 ticks or without end, 2 commands | `ReportIsFinal`, `TimeoutMeansLate`, `TimeoutInTime`, `CommandsEnd` |
| `installer` | 2 installations by 2 installers, one after or beside the other, a directory and a file to copy, a stale file, 2 keys and a foreign one | `InstalledIsComplete`, `CleanVerdictIsRight`, `BackupIsOriginal`, `UserValuesKept` |
| `invocation` | 2 interpreters, 2 keys, 4 contents of each file, every short command line of 13 commands in one environment and two commands in every environment, a registry that can be read or not, 2 images, 2 messages of the server, 1 write by others | `PrecedenceHolds`, `LaunchesAtMostTwice`, `EffectsAreAsked`, `PolicyIsExact`, `PrintsOneTurn`, `ClosesEverything`, `SessionEnds` |
| `invocation_venv` | the same | finding: a linked `.venv` is never entered |

Bounds and why they are enough. Two callers show every interference of a
critical section; three are used where a third one's position matters (the
holder changes while two wait; two costs that are recorded while a third is). Two ids, two
documents and two expiries give a call and a bystander. The clock
needs one tick to pass one expiry and not the other. Two turns give a question
that follows a half-saved one. Three retries is the code's own `_MAX_RETRIES`,
and the five statuses are one for each branch on a status. A read or a write may
fail at every one of its calls. The limits of
`polling` are shorter than, equal to and longer than a sleep; a second command is
a resumption or a fresh start, and `Horizon` is further than any command waits
(assumed in the module). Two installations give one that is interrupted and one
that repairs, or two at the same time; installers are interchangeable
(`SYMMETRY`), and of the first installation's `.venv`, `.env` and `settings.json`
only one is unusual at a time (`OneByOne`; a legacy value does meet every kind of
`settings.json`), because the steps that treat them do not look at each other's
files. `MaxTime`, `MaxDay`, `MaxCalls`, `MaxTurns`,
`MaxProposals`, `MaxChunks`, `MaxCommands`, `MaxRuns`, `MaxEdits`, `MaxImages` and
`MaxMessages` are the bounds of counters; where they make a run stop, its cfg says
`CHECK_DEADLOCK FALSE`.

The command lines of `invocation` are built from an alphabet for each group of
commands, up to five tokens: an action that changes and one that does not, a
word, an empty word, an option with a value and one without, `--execute` and its
abbreviation, help, `--`. That is enough for an option to swallow each kind of
token and for each kind to stand before, at and behind the place of the action.
Two keys of settings give one that a source holds and one that it does not; the
four contents are a missing file, one that cannot be read, one with a value and
one with an empty value. Two images are the fewest of which one fails and one is
saved, two messages the fewest of which one is queued behind the end of the turn.
One write by others can come before, between or after the reads. `LaunchCap` (3)
stops the counting of re-executions above the two that are claimed.

The run `invocation` begins where `Installed` or `Sampled` says. The runs check no
type invariant where a theorem shows it (lock, state files, chats, cost,
transport, polling, installer); that of the reviews is among the runs'
properties, because it says where the failover may lead. In `review` the one-shot
reviewer has a requested model and one proposal, the REPL none, and once the session
was wiped, of which nothing is claimed any more, the processes only finish what they
do, the REPL first (`Joins`, `FinishesWiped`); the theorems need neither.

Fairness. Weak fairness of a process's own steps: a process that runs makes its
steps and a deadline passes. A raw request is assumed to end by its timeout, which
`urlopen` applies to each silence of the socket: a server that trickles an answer
for ever is left out. Of a request of the SDK nothing is assumed: the transport
drops the timeout it is given (`sdk/transport.py:500`) and the client is built
without one, so `CallsEnd` says that a call ends or waits for the SDK for ever; the
fallback is not tried then. `ReviewsEnd` and `CommandsEnd` assume that every API
call returns. No fairness between
processes, none for calls of the user, and none for the lock: polling may lose
every race, which is why `BoundedWait` holds only for a finite timeout. Of an
invocation only the steps of the open session are fair; nothing is assumed of the
server, of Ctrl-C or of those who write files, which is why `SessionEnds` speaks
of servers that complete the turn or end the stream: the code has no timeout.

## 4. Proofs

For every number of callers, set of documents and calls, costs, retries, statuses,
sessions, turns, installers, files and messages, under the named assumptions of
the modules (each evaluated by the runs):

* **StateFiles_proofs**, of the lock: `LockExcludes` and `LockNeverOrphaned`. The
  invariant relates the kernel's `holder` to the callers' positions; exclusion
  alone is not inductive. Of the protocol: `LoadedStaysCurrent`, and
  `ReadModifyWriteIsAtomic`: without short writes the protocol implements
  `AtomicStore`. The argument: only the holder replaces the file, the holder's
  document is therefore current from load to replace, so that `os.replace` is the
  instant at which the call takes effect. The document of a caller whose read failed
  is the empty one instead, and stays so. `UsesTheLock` shows that each step is a
  lock step, so that the lock's invariant carries over. Of the two state classes,
  whose calls and documents are what `CallsAreFileCalls` and `CallsAreStoreCalls`
  say: `LiveRecordsAreKept` and `NothingIsResurrected`, with short writes and failing
  reads too. The file changes at `os.replace` only, and then to what one call makes
  of the document that is on disk at that moment, or of the empty one.
* **TextChat_proofs**: `AnswersAreBehindQuestions`, `WhatIsSentIsSaved`,
  `NothingSavedIsLost`, `AppendsExtend`. The invariant `IInv` gives each process
  what it knows: what it loaded under the lock is still in the file (`LoadedOK`),
  the session it looked up has its file (`FileOK`), its question is saved before
  it appends the answer (`QuestionOK`). An append that could not read is known by its
  place (`"overwrite"`): its write wipes the session unless it was empty. What one process knows survives the steps
  of the others because every step leaves the history of a session that was not
  wiped alone or extends it by one message (`Grows`, `OthersKeep`).
  `WithoutIs` and `TouchIs` are the lemmas about the order of the files.
* **PlanReview_proofs**: `MemoryIsSaved`, `MemoryHasItsQuestions`, and for the
  review what TextChat_proofs shows of the chat: `AnswersAreBehindQuestions`,
  `NothingSavedIsLost`, `AppendsExtend`. `SavedConversation` is not inductive: that
  the REPL may remember a pair follows only from what it knows between the two
  appends, its question (`QuestionOK`) and then its answer behind it (`AnswerOK`)
  are in the file, and its memory so far is too, before both (`MemoryOK`). As for the
  chat, each of these survives the steps of the others because a session that is
  not in `wiped` is left alone or extended. The failover is harmless to all of it:
  an attempt that fails keeps the memory as it was.
* **CostTracker_proofs**: `TotalNeverUndercounts` and `DaysAreExact`. The first
  invariant says that the caller inside the lock has read at least what was
  recorded today, which a midnight makes zero, unless its read failed. The second
  (`Exact`) says that whoever is about to write what it read has read the exact
  total of today, unless today began since.
* **Transport_proofs**: `RequestsAreBounded`, `SuccessIsAnAnswer`,
  `ErrorsCarryTheLastStatus`, `FinalMeansFinal`. The invariant counts the
  requests by position (`Counting`) and says where a settled reply leaves the
  call (`Settled`).
* **Polling_proofs**: `ReportsAreFinal`, `TimeoutsAreLate`, `TimeoutsAreInTime`,
  for every limit, interval and duration. The invariant (`Knows`) says at each
  place of the loop how late it can be, and that what a poll saw unfinished was
  so at most one call ago.
* **Installer_proofs**: `BackupsAreOriginal`, `ValuesAreKept` (from `UserInv`:
  what an installer has read of `settings.json` still has, up to `str()`, every value
  that neither the user nor the legacy `.env` replaced, and there is a backup before
  the file changes),
  `InstallationsAreComplete` and `VerdictsAreRight` (from `InstallInv`: as long as
  an installer is alone, the entries it has passed are removed, copied or recorded
  already, and its manifest has the versions that are on disk).
* **Invocation_proofs**: `NoEndlessReExec`, `LastSourceWins` (the invariant says of
  the sources read so far what the property says of all), `ReportsAreWhole`,
  `BothLinesAlwaysHold`, `EverythingIsClosed`, and `OneTurnIsPrinted` (the inbox is
  the rest of what was sent, and what was printed are the texts before it). Then the
  two theorems about *every* command line, of any length:
  `EffectsAreAlwaysAsked` and `PolicyIsAlwaysExact`.

The last two are inductions over the tokens. The induction theorems of the library
take a predicate as a parameter, which the provers cannot instantiate; here a
statement is made a set of numbers instead. `LeastNatural` gets the least number of
such a set from a minimal interval, since finite sets are well-founded by inclusion
(`FS_StrictSubsetOrderingWellFounded`, `WFMin`); `InductionUpTo` follows, and
`RecursionExists`, which says that a recursive function over `0..n` exists, with its
steps given as a function. From it come the equations of `Read` and `Skipped`
(`ReadStep`, `SkippedStep`), which are recursive functions in the model. The
invariant over the tokens (`ReadsWhatIsThere`) says what argparse can have accepted
of the tokens so far: `--execute` only from an option that is there, no help option,
`--` exactly when it reads words. `Agree` says, of a line that is written out, that
argparse and the policy wait for a value at the same places, until both have found
the same action; `ActionsFit` compares the parsers of all actions with the
registry. `Effects` carries the result through the steps of the dispatcher to
the effects of the command.

`TypesHold` (of the lock `LockTypesHold`, of the protocol `TypesHold` of the same
module) is type correctness, from the same invariants.

Every invariant and every action property of the runs is proved. Only
model-checked is liveness (`BoundedWait`, `CallsReturn`, `ReviewsEnd`, `CallsEnd`,
`CommandsEnd`, `SessionEnds`), since TLAPS reaches neither fairness nor `ENABLED`.
What the theorems assume beside the constants' types: `IsAtomic` that `os.write`
writes everything (with short writes it is false). What they except: `IsAtomic`,
`LoadedIsCurrent`, `LiveRecordKept` and `NothingResurrected` the calls whose own read
of the file failed (`unread`, `Misread`), which act on the empty document; the
claims about histories the sessions in `wiped`; `NeverUndercounts` and
`ResetsAtMidnight` the costs that a failed read or a torn write threw away (they are no
longer in `spent`). `PolicyIsExact` assumes that the line is written out
(`Plain`), see section 5.

## 5. What the code does that its documents do not say

Checked, with a run each (see `findings`): a failing append makes the failover
save a proposal twice (`review_failover`); the launcher never enters a `.venv`
whose interpreter is a link to its own (`invocation_venv`).

Seen while modelling, visible in the actions named, without a run:

* `FileLock(timeout=None)` raises a `TypeError` (`filelock.py:64`) where the
  docstring (line 39) promises an unlimited wait: `DeadlineTypeError`.
* `os.write` may write less than asked, and the part replaces the state file
  (`atomic_write.py:47`): `WriteLess`. `IsAtomic` is proved and checked without
  it.
* A read that raises an `OSError` counts as an empty document, and the write under
  the same lock then replaces a good file by what one call makes of nothing: all
  other records, stores, messages of the session or costs of the day are gone,
  and the call returns normally (`file_state.py:60`, `store_state.py:54`,
  `session_state.py:78`, `cost.py:91`). The first two say "prevent data loss from
  concurrent access". `LoadError`, `ReadError`; the properties and theorems
  about these files say for each what they claim beside such a call.
* The clean-up of a failed write closes the descriptor before it unlinks, and
  ignores that the unlink fails: an exception, like a kill or a
  `KeyboardInterrupt`, may leave a `.atomic-*.tmp` behind
  (`atomic_write.py:57-64`): `WriteFails`.
* `create` resets a session without looking, and `append_message` looks for the
  file before it has the lock: two processes that start the same new session can
  wipe each other's messages, and a session that is ended can come back with one
  message (`session_state.py:88`, `:112`). `docs/system-design.md:54` says that
  concurrent invocations are not designed for; the properties of TextChat are
  therefore stated of sessions that are not in `wiped`.
* A failure or a kill between the two appends of a chat leaves a question without
  an answer, and the next question follows it (`text.py:116`), where
  `session_state.py:34` has "alternating user/model messages": `AppendModel`.
* `upload_file` of the raw client does not map an `HTTPError`, which is a
  `URLError` and always eligible: a 400 falls back to the SDK (`client.py:217`),
  where `docs/architecture-transport.md:51` says that 4xx does not: `UrlError`.
* `cost.py` asks for the date at the read and at the write: a midnight in between
  carries the old total into the new day: it overcounts, never undercounts
  (`NeverUndercounts`), and every other day is exact (`ResetsAtMidnight`).
* A stream fails when it is consumed, after the coordinator has returned it, so
  that it never falls back (`coordinator.py:237`): `Raise`.
* The SDK transport accepts a timeout and drops it, leaving it to the SDK's "own
  default timeout policy" (`sdk/transport.py:500`), and the client is built without
  one (`client_factory.py:207`): a server that says nothing may keep the call for
  ever, and then the fallback is never tried: `AwaitsSdk`.
* `docs/planning/implementation-plan.md:702` has an estimate before each call and
  tracking after it; no adapter calls `estimate_cost`, `check_daily_limit` or
  `record_actual_cost`.
* The facade passes no capability, so that the gate never skips the SDK
  (`core/transport/__init__.py:155`); with one priority flag true the other
  backend is still the fallback (`config.py:155`); a certificate that fails
  verification arrives as a `URLError` and is retried (`client.py:299`, `:326`).

* Nothing serialises two installers, although `docs/system-design.md:55` says that
  `filelock.py` does: what one of them writes to `settings.json` between the read
  and the write of the other is lost (`ReadSettings`, `WriteSettings`).
* The legacy `.env` is deleted before its values are in `settings.json`, so that
  quitting at a later question loses them (`legacy_migration.py:79`):
  `DeleteLegacy`. Without a terminal it is always deleted (`:110`), where
  `docs/architecture-installer.md:95` has "`.env` is preserved in place". Its values, of
  any key, are put into an empty buffer and then win over those of `settings.json`
  without a question, where lines 10-11 say "without clobbering any values
  settings.json already has" and `docs/architecture-installer.md:89` "existing
  values in `settings.json` are not overwritten": `ReadLegacy`, `Merged`.
* The merge makes a string of every value under `env` (`settings_merge.py:173`): of
  `true` `"True"`, of `null` `"None"`, in keys that are not the installer's too:
  `Text`. `UserValuesKept` is stated up to this and to legacy values.
* `docs/architecture-transport.md:161` and `docs/architecture-installer.md:162` put the
  shell before `.env` ("first-match wins"). The code and the docstring of
  `runtime_env.py` have it the other way round: each of the four files is laid
  over what the shell exported. `Merged`; `PrecedenceHolds` states the code's
  order.
* The manifest lists `.env`, which the docstring excludes (`install_main.py:348`)
  and the migration then deletes: the health check reports it as drifted.
* "You can resume polling later" (`file_search.py:184`), but only
  `deep_research` has a command for it; `--resume` with a negative `--max-wait`
  says "still in progress" without having asked (`deep_research.py:95`).
* A POST is sent again after a timeout (`client.py:326`), where
  `docs/architecture-transport.md:228` has "GET (retry) vs POST (fail)": `Retries`.
* A `.venv` without an interpreter, as a killed installer leaves it, ends every
  installation with a `FileNotFoundError` (`install_main.py:269`), where line 80
  has "print a warning and continue" and lines 264-266 say that a broken one is
  deleted and created again.
* argparse takes `--exec` for `--execute` and `--mod` for `--model`, the policy does
  not: `files upload x --exec` ends as a dry run, and of `files --mod upload list`
  the policy takes the value for the action. Of `files --model
  --i-understand-privacy upload list` the policy skips the flag as the value of
  `--model` and finds `upload`, while argparse, which never gets the flag
  (`dispatch.py:104`), takes `upload` for the model and lists: the list ends as a dry
  run. `Plain` leaves these lines out of `PolicyIsExact`. `-h` passes the policy even as a value or
  behind `--` (`dispatch.py:99`): the adapter's own check remains.
* An unreadable registry lets every call pass the policy (`dispatch.py:158`). The
  privacy flag is appended before the policy asks for it, so that a privacy
  sensitive command is blocked only when the registry cannot be read the first time
  and can the second.
* An empty `GEMINI_API_KEY` in a file hides the key that the shell has exported:
  "No GEMINI_API_KEY found" (`runtime_env.py`, `auth.py`): `Merged`, `HasKey`.
* The launcher that has replaced itself inherits what its first bootstrap read, so
  that a value that was removed from a file in between stays; the files are read
  one by one, never as of one moment: `ReExec`, `ReadSource`.
* `emit_output` does not look at the result of `os.write`, and a download writes
  over its target in place: `SaveFile`.
* A live session ends normally when the stream ends without `turn_complete`, and
  waits for a silent server without end (`live.py:183`): `StreamEnds`,
  `SessionEnds`.

## 6. Not modelled, and why

* Pure conversions, in which nothing is ordered, shared or retried: prompt texts,
  rendering, sanitising, MIME types, price tables, request bodies, JSON and SSE
  parsing, result schemas, the table from endpoints to SDK methods and
  `core/transport/normalize.py`. Where their outcome matters (it raises, it is
  unreadable, it is empty) it is a choice of the action that calls them.
* `_write_daily` of `cost.py`, "used for testing", and the readers of its total.
* `core/infra/timeouts.py`: nothing under `src/` uses `TimeoutGuard`.
* The parts of partly modelled components that only read and print: the other
  reports of the health check, the one-call actions of `file_search`,
  `list`/`get` commands beyond their place in the parser.
* The choice of a model (`core/routing/router.py`), a lookup that returns or raises.
* Set-up and release scripts, tests, and documentation tools.

`components` in `PROJECT.json` lists each of them.
